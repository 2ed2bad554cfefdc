------------------------------ MODULE Dashboard ------------------------------
(***************************************************************************)
(* The dashboard in the browser (cmd/api/dashboard/app.js): a single page  *)
(* with three views, each polled by an interval timer.  Answers come back  *)
(* in any order, after the user has gone elsewhere too, and the browser's  *)
(* back and forward buttons come in through popstate.  What the API would  *)
(* answer is a version number, the same for all views.                     *)
(***************************************************************************)
EXTENDS Naturals, Sequences, Bags, BagsExt

CONSTANTS
    Chargers,
    MaxVersion,   \* bound: versions of the data
    MaxPending,   \* bound: fetches in flight at once
    MaxMoves,     \* bound: navigations of the user
    MaxFailures   \* bound: fetches without data

ASSUME BoundsAssumption == {MaxVersion, MaxPending} \subseteq Nat \ {0}
                           /\ {MaxMoves, MaxFailures} \subseteq Nat

Fleet     == [view |-> "fleet", id |-> "none"]
Sessions  == [view |-> "sessions", id |-> "none"]
Detail(c) == [view |-> "detail", id |-> c]
Targets   == {Fleet, Sessions} \union {Detail(c) : c \in Chargers}
\* the entry the browser makes when it loads the page, whose state is null
Loaded    == [view |-> "loaded", id |-> "none"]

\* what a page shows or an answer holds: a version, or one of these
Nothing == 0                \* "Loading", or no answer yet
Refused == MaxVersion + 1   \* an error as JSON, which renders as an empty page
Data    == Nothing..Refused

VARIABLES
    current,   \* currentView and currentChargerId
    timers,    \* the interval timers that run: handles and what each fetches
    refresh,   \* refreshTimer, the handle of the last one set
    page,      \* what the page shows, and of which target
    lastData,  \* the last fleet data rendered
    pending,   \* bag of the fetches in flight and the answers on their way
    entries,   \* the browser's history
    cursor,    \* the entry the browser is at
    moves, failures,   \* navigations and failed fetches so far
    version    \* what the API would answer now

polling == <<timers, refresh>>
browser == <<entries, cursor, moves>>
vars    == <<current, polling, page, lastData, pending, browser, failures, version>>

Fetch(t, d) == [target |-> t, data |-> d]
Fetches     == {Fetch(t, d) : t \in Targets, d \in Data}

\* init() opens the view of the URL as any other navigation does
Init == \E t \in Targets :
    /\ current = t
    /\ refresh = 1 /\ timers = {<<1, t>>}
    /\ page = Fetch(t, Nothing) /\ lastData = Nothing
    /\ pending = SetToBag({Fetch(t, Nothing)})
    /\ entries = <<Loaded, t>> /\ cursor = 2
    /\ moves = 0 /\ failures = 0
    /\ version = 1

-----------------------------------------------------------------------------
(* Navigation                                                              *)

\* Mutant: navigateToSessions does not clear the timer
ClearedUnlessSessions(t) ==
    IF t = Sessions THEN timers ELSE {x \in timers : x[1] # refresh}
\* clearInterval(refreshTimer)
Cleared(t) == {x \in timers : x[1] # refresh}

\* history.pushState drops the entries ahead
Push(t, at) ==
    /\ entries' = Append(SubSeq(entries, 1, at), t)
    /\ cursor' = at + 1
\* Mutant: the URL of the fleet is not pushed
PushUnlessFleet(t, at) == IF t = Fleet THEN cursor' = at /\ UNCHANGED entries
                                       ELSE Push(t, at)
\* each navigateTo... pushes its URL
Pushed(t, at) == Push(t, at)

\* setInterval returns a handle that no running timer has
SetInterval(t) == LET handle == CHOOSE n \in 1..(MaxMoves + 1) :
                                    \A x \in Cleared(t) : x[1] # n
                  IN  timers' = Cleared(t) \union {<<handle, t>>} /\ refresh' = handle

\* navigateToFleet, navigateToSessions or navigateToCharger, the browser being
\* at the given entry
NavigateTo(t, at) ==
    /\ moves < MaxMoves /\ moves' = moves + 1
    /\ BagCardinality(pending) < MaxPending
    /\ current' = t
    /\ page' = Fetch(t, Nothing)
    /\ pending' = BagAdd(pending, Fetch(t, Nothing))
    /\ SetInterval(t)
    /\ Pushed(t, at)
    /\ UNCHANGED <<lastData, failures, version>>

\* The links of the header, or of a charger's page
ClickLink == \E t \in {Fleet, Sessions} : NavigateTo(t, cursor)

\* A charger's card or its name in the table of sessions
ClickCharger == \E c \in Chargers :
    /\ page.target \in {Fleet, Sessions} /\ page.data \in 1..MaxVersion
    /\ NavigateTo(Detail(c), cursor)

\* popstate, after a step back or forward: the browser is at the entry already
PopState(at) ==
    /\ at \in DOMAIN entries
    /\ NavigateTo(IF entries[at] = Loaded THEN Fleet ELSE entries[at], at)

\* The page is loaded again: init() opens what the address names
Reload == LET t == entries[cursor] IN
    /\ moves < MaxMoves /\ moves' = moves + 1
    /\ current' = t
    /\ refresh' = 1 /\ timers' = {<<1, t>>}
    /\ page' = Fetch(t, Nothing) /\ lastData' = Nothing
    /\ pending' = SetToBag({Fetch(t, Nothing)})
    /\ Pushed(t, cursor)
    /\ UNCHANGED <<failures, version>>

\* A filter, the sort order or the search box, which only the fleet shows
ChangeToolbar ==
    /\ current = Fleet /\ lastData # Nothing
    /\ page' = Fetch(Fleet, lastData)
    /\ UNCHANGED <<current, polling, lastData, pending, browser, failures, version>>

-----------------------------------------------------------------------------
(* Polling                                                                 *)

TimerFires == \E x \in timers :
    /\ BagCardinality(pending) < MaxPending
    /\ pending' = BagAdd(pending, Fetch(x[2], Nothing))
    /\ UNCHANGED <<current, polling, page, lastData, browser, failures, version>>

\* The API reads its data
Answer(f, data) ==
    /\ BagIn(f, pending) /\ f.data = Nothing
    /\ pending' = BagAdd(BagRemove(pending, f), Fetch(f.target, data))
    /\ UNCHANGED <<current, polling, page, lastData, browser, version>>
AnswerData(f) == Answer(f, version) /\ UNCHANGED failures

\* 404 for a charger and 503 for sessions are JSON and pass for data
AnswerError(f) == /\ f.target # Fleet
                  /\ failures < MaxFailures /\ failures' = failures + 1
                  /\ Answer(f, Refused)

\* Mutant: a detail page takes the answer for any charger
IsCurrentView(f) == f.target.view = current.view
\* Mutant: only the first answer replaces "Loading"
IsFirst(f) == f.target = current /\ page.data = Nothing
\* the view, and for a charger its id, are still those asked for
IsCurrent(f) == f.target = current

\* Mutant: every view keeps what it renders
KeptByAnyView(f) == IF IsCurrent(f) THEN f.data ELSE lastData
\* renderFleet keeps what it renders
Kept(f) == IF IsCurrent(f) /\ current = Fleet THEN f.data ELSE lastData

\* The promise's callback
Arrive(f) ==
    /\ BagIn(f, pending) /\ f.data # Nothing
    /\ pending' = BagRemove(pending, f)
    /\ page' = IF IsCurrent(f) THEN f ELSE page
    /\ lastData' = Kept(f)
    /\ UNCHANGED <<current, polling, browser, failures, version>>

\* The fetch fails, or its answer is no JSON: catch only logs it
Fail(f) ==
    /\ BagIn(f, pending)
    /\ failures < MaxFailures /\ failures' = failures + 1
    /\ pending' = BagRemove(pending, f)
    /\ UNCHANGED <<current, polling, page, lastData, browser, version>>

DataChanges ==
    /\ version < MaxVersion /\ version' = version + 1
    /\ UNCHANGED <<current, polling, page, lastData, pending, browser, failures>>

Next ==
    \/ ClickLink \/ ClickCharger \/ Reload \/ ChangeToolbar
    \/ \E at \in {cursor - 1, cursor + 1} : PopState(at)
    \/ TimerFires \/ DataChanges
    \/ \E f \in Fetches : AnswerData(f) \/ AnswerError(f) \/ Arrive(f) \/ Fail(f)

Spec == Init /\ [][Next]_vars

\* Timers fire, the API answers and answers arrive; users and failures need not
FairSpec ==
    /\ Spec /\ WF_vars(TimerFires)
    /\ \A f \in Fetches : WF_vars(AnswerData(f)) /\ WF_vars(Arrive(f))

-----------------------------------------------------------------------------
\* The shape of the state (app.js:10-15); the page is that of an open view.
TypeOK ==
    /\ current \in Targets
    /\ timers \subseteq (Nat \X Targets) /\ refresh \in Nat
    /\ page \in Fetches /\ lastData \in Data \ {Refused}
    /\ IsABag(pending) /\ BagToSet(pending) \subseteq Fetches
    /\ entries \in Seq(Targets \union {Loaded}) /\ cursor \in DOMAIN entries
    /\ version \in 1..MaxVersion

\* However late an answer comes, and however often the user has moved on and
\* come back, the page never shows another view's or charger's data
\* (app.js:289, 300, 311).
PageIsCurrent == page.target = current

\* Whatever the user does, one timer runs, it polls the view that is open, and
\* refreshTimer can stop it (app.js:323, 340, 357).
OneTimer == timers = {<<refresh, current>>}

\* The address bar names what is open, after back and forward too, so that a
\* reload or a bookmark leads to it (app.js:334, 351, 369, 373).
AddressIsCurrent == entries[cursor] = current

\* Answers of overlapping polls can arrive in the wrong order, and an error can
\* pass for data; once that ends and the data rests, the page comes to show it
\* and keeps showing it (app.js:285-316, 332, 349, 367).
EventuallyFresh == <>[](page = Fetch(current, version))

\* CHANGELOG.md:47: "SPA routing with browser back/forward support": after a
\* step back, a step forward leads to the page it left.
BackAndForward ==
    [][PopState(cursor - 1) =>
          cursor' < Len(entries') /\ entries'[cursor' + 1] = entries[cursor]]_vars
=============================================================================
