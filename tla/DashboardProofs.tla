--------------------------- MODULE DashboardProofs ---------------------------
(***************************************************************************)
(* Proofs of the dashboard's safety properties, for any chargers and any   *)
(* number of navigations, fetches, failures and versions of the data.      *)
(***************************************************************************)
EXTENDS Dashboard, TLAPS

\* What is in flight for the fleet is never an error as JSON, which the API gives
\* for the other views only.
FetchOK(f) == f \in Fetches /\ (f.target = Fleet => f.data # Refused)
BagOK(bag) == IsABag(bag) /\ \A f \in DOMAIN bag : FetchOK(f)

DataOK ==
    /\ version \in 1..MaxVersion
    /\ lastData \in Data \ {Refused}
    /\ page \in Fetches
    /\ BagOK(pending)

PlaceOK ==
    /\ current \in Targets
    /\ refresh \in Nat
    /\ entries \in Seq(Targets \union {Loaded})
    /\ cursor \in DOMAIN entries

Inv == DataOK /\ PlaceOK /\ PageIsCurrent /\ OneTimer /\ AddressIsCurrent

LEMMA Bounds == /\ MaxVersion \in Nat /\ MaxVersion >= 1 /\ Refused \in Nat
                /\ Nothing \in Data \ {Refused} /\ Refused \in Data
                /\ 1..MaxVersion \subseteq Data \ {Refused}
BY BoundsAssumption DEF Nothing, Refused, Data

LEMMA FetchType == \A t \in Targets, d \in Data :
    /\ Fetch(t, d) \in Fetches
    /\ Fetch(t, d).target = t /\ Fetch(t, d).data = d
BY DEF Fetch, Fetches

LEMMA DataOfFetch == \A f \in Fetches : f.target \in Targets /\ f.data \in Data
BY DEF Fetch, Fetches

LEMMA TargetTypes == /\ Fleet \in Targets /\ Sessions \in Targets
                     /\ \A c \in Chargers : Detail(c) \in Targets
BY DEF Targets

LEMMA NewFetch == \A t \in Targets : FetchOK(Fetch(t, Nothing))
BY FetchType, Bounds DEF FetchOK

\* A fetch that is added to a bag of fetches, or taken out of one, leaves a bag
\* of fetches.
LEMMA AddOne ==
    ASSUME NEW bag, BagOK(bag), NEW f, FetchOK(f)
    PROVE  BagOK(BagAdd(bag, f))
<1>1. IsABag(BagAdd(bag, f)) /\ DOMAIN BagAdd(bag, f) = DOMAIN bag \union {f}
  BY DEF BagOK, IsABag, BagAdd
<1> QED
  BY <1>1 DEF BagOK

LEMMA RemoveOne ==
    ASSUME NEW bag, BagOK(bag), NEW f
    PROVE  BagOK(BagRemove(bag, f))
<1>1. IsABag(BagRemove(bag, f)) /\ DOMAIN BagRemove(bag, f) \subseteq DOMAIN bag
  BY DEF BagOK, IsABag, BagRemove
<1> QED
  BY <1>1 DEF BagOK

LEMMA OnlyOne ==
    ASSUME NEW f, FetchOK(f)
    PROVE  BagOK(SetToBag({f}))
<1>1. IsABag(SetToBag({f})) /\ DOMAIN SetToBag({f}) = {f}
  BY DEF IsABag, SetToBag
<1> QED
  BY <1>1 DEF BagOK

\* pushState makes the pushed page the one the browser is at.
LEMMA PushCurrent ==
    ASSUME NEW t \in Targets, NEW at \in DOMAIN entries,
           entries \in Seq(Targets \union {Loaded}), Pushed(t, at)
    PROVE  /\ entries' \in Seq(Targets \union {Loaded})
           /\ cursor' \in DOMAIN entries'
           /\ entries'[cursor'] = t
<1> DEFINE E == Targets \union {Loaded}
<1>1. at \in 1..Len(entries) /\ Len(entries) \in Nat
  OBVIOUS
<1>2. /\ SubSeq(entries, 1, at) \in Seq(E)
      /\ Len(SubSeq(entries, 1, at)) = at
  BY <1>1
<1>3. entries' = Append(SubSeq(entries, 1, at), t) /\ cursor' = at + 1
  BY DEF Pushed, Push
<1> QED
  BY <1>1, <1>2, <1>3

LEMMA InitInv == Init => Inv
<1> SUFFICES ASSUME Init PROVE Inv
  OBVIOUS
<1> PICK t \in Targets :
      /\ current = t
      /\ refresh = 1 /\ timers = {<<1, t>>}
      /\ page = Fetch(t, Nothing) /\ lastData = Nothing
      /\ pending = SetToBag({Fetch(t, Nothing)})
      /\ entries = <<Loaded, t>> /\ cursor = 2
      /\ version = 1
  BY DEF Init
<1>1. DataOK
  BY Bounds, FetchType, NewFetch, OnlyOne DEF DataOK
<1>2. PlaceOK /\ AddressIsCurrent
  BY DEF PlaceOK, AddressIsCurrent
<1>3. PageIsCurrent /\ OneTimer
  BY FetchType, Bounds DEF PageIsCurrent, OneTimer
<1> QED
  BY <1>1, <1>2, <1>3 DEF Inv

\* The heart of it: a navigation replaces the page, the timer and the address,
\* wherever it comes from.
LEMMA NavigateInv ==
    ASSUME Inv, NEW t \in Targets, NEW at \in DOMAIN entries, NavigateTo(t, at)
    PROVE  Inv'
<1> USE DEF Inv
<1>1. /\ current' = t /\ page' = Fetch(t, Nothing)
      /\ pending' = BagAdd(pending, Fetch(t, Nothing))
      /\ UNCHANGED <<lastData, version>>
  BY DEF NavigateTo
<1>2. DataOK'
  BY <1>1, Bounds, FetchType, NewFetch, AddOne DEF DataOK
<1>3. refresh' \in Nat /\ timers' = {<<refresh', t>>}
  <2>1. Cleared(t) = {}
    BY DEF OneTimer, Cleared
  <2> DEFINE handle == CHOOSE n \in 1..(MaxMoves + 1) : \A x \in Cleared(t) : x[1] # n
  <2>2. timers' = Cleared(t) \union {<<handle, t>>} /\ refresh' = handle
    BY DEF NavigateTo, SetInterval
  <2>3. handle \in Nat
    <3>1. 1 \in 1..(MaxMoves + 1)
      BY BoundsAssumption
    <3>2. handle \in 1..(MaxMoves + 1)
      BY <3>1, <2>1
    <3> HIDE DEF handle
    <3> QED
      BY <3>2
  <2> HIDE DEF handle
  <2> QED
    BY <2>1, <2>2, <2>3
<1>4. /\ entries' \in Seq(Targets \union {Loaded}) /\ cursor' \in DOMAIN entries'
      /\ entries'[cursor'] = t
  BY PushCurrent DEF PlaceOK, NavigateTo
<1>5. PlaceOK' /\ PageIsCurrent' /\ OneTimer' /\ AddressIsCurrent'
  BY <1>1, <1>3, <1>4, FetchType, Bounds
     DEF PlaceOK, PageIsCurrent, OneTimer, AddressIsCurrent
<1> QED
  BY <1>2, <1>5

LEMMA ReloadInv == Inv /\ Reload => Inv'
<1> SUFFICES ASSUME Inv, Reload PROVE Inv'
  OBVIOUS
<1> USE DEF Inv
<1>1. entries[cursor] = current /\ current \in Targets
  BY DEF AddressIsCurrent, PlaceOK
<1>2. /\ current' = current /\ refresh' = 1 /\ timers' = {<<1, current>>}
      /\ page' = Fetch(current, Nothing) /\ lastData' = Nothing
      /\ pending' = SetToBag({Fetch(current, Nothing)})
      /\ version' = version /\ Pushed(current, cursor)
  BY <1>1 DEF Reload
<1>3. DataOK'
  BY <1>1, <1>2, Bounds, FetchType, NewFetch, OnlyOne DEF DataOK
<1>4. /\ entries' \in Seq(Targets \union {Loaded}) /\ cursor' \in DOMAIN entries'
      /\ entries'[cursor'] = current
  BY <1>1, <1>2, PushCurrent DEF PlaceOK
<1>5. PlaceOK' /\ PageIsCurrent' /\ OneTimer' /\ AddressIsCurrent'
  BY <1>1, <1>2, <1>4, FetchType, Bounds
     DEF PlaceOK, PageIsCurrent, OneTimer, AddressIsCurrent
<1> QED
  BY <1>3, <1>5

\* The steps that fetch and render leave the place, the timer and the address.
LEMMA PollInv ==
    ASSUME Inv, UNCHANGED <<current, polling, browser>>, DataOK',
           page' = page \/ page'.target = current
    PROVE  Inv'
BY DEF Inv, polling, browser, PlaceOK, PageIsCurrent, OneTimer, AddressIsCurrent

LEMMA ArriveInv ==
    ASSUME Inv, NEW f \in Fetches, Arrive(f)
    PROVE  Inv'
<1>1. f \in DOMAIN pending /\ BagOK(pending)
  BY DEF Arrive, BagIn, BagToSet, Inv, DataOK
<1>2. BagOK(pending') /\ FetchOK(f) /\ f.data \in Data
  <2>1. BagOK(pending')
    BY <1>1, RemoveOne DEF Arrive
  <2>2. FetchOK(f)
    BY <1>1 DEF BagOK
  <2>3. f.data \in Data
    BY DataOfFetch
  <2> QED
    BY <2>1, <2>2, <2>3
<1>3. page' \in Fetches /\ (page' = page \/ page'.target = current)
  BY DEF Arrive, IsCurrent, Inv, DataOK
<1>4. lastData' \in Data \ {Refused}
  BY <1>2 DEF Arrive, Kept, IsCurrent, FetchOK, Inv, DataOK
<1>5. DataOK'
  BY <1>2, <1>3, <1>4 DEF Arrive, Inv, DataOK
<1>6. UNCHANGED <<current, polling, browser>>
  BY DEF Arrive
<1> QED
  BY <1>3, <1>5, <1>6, PollInv

LEMMA AnswerInv ==
    ASSUME Inv, NEW f \in Fetches, AnswerData(f) \/ AnswerError(f)
    PROVE  Inv'
<1> PICK d \in Data : Answer(f, d) /\ (f.target = Fleet => d # Refused)
  BY Bounds DEF AnswerData, AnswerError, Inv, DataOK
<1>1. FetchOK(Fetch(f.target, d))
  BY FetchType, DataOfFetch DEF FetchOK
<1>2. BagOK(pending')
  BY <1>1, AddOne, RemoveOne DEF Answer, Inv, DataOK
<1>3. DataOK' /\ page' = page /\ UNCHANGED <<current, polling, browser>>
  BY <1>2 DEF Answer, Inv, DataOK
<1> QED
  BY <1>3, PollInv

LEMMA NextInv == Inv /\ [Next]_vars => Inv'
<1> SUFFICES ASSUME Inv, [Next]_vars PROVE Inv'
  OBVIOUS
<1>1. CASE ClickLink
  BY <1>1, NavigateInv, TargetTypes DEF ClickLink, Inv, PlaceOK
<1>2. CASE ClickCharger
  BY <1>2, NavigateInv, TargetTypes DEF ClickCharger, Inv, PlaceOK
<1>3. CASE Reload
  BY <1>3, ReloadInv
<1>4. CASE ChangeToolbar
  <2>1. DataOK' /\ page'.target = current
    BY <1>4, FetchType, TargetTypes DEF ChangeToolbar, Inv, DataOK
  <2> QED
    BY <1>4, <2>1, PollInv DEF ChangeToolbar
<1>5. CASE \E at \in {cursor - 1, cursor + 1} : PopState(at)
  <2> PICK at : PopState(at)
    BY <1>5
  <2>1. at \in DOMAIN entries /\ entries[at] \in Targets \union {Loaded}
    BY DEF PopState, Inv, PlaceOK
  <2> QED
    BY <2>1, NavigateInv, TargetTypes DEF PopState
<1>6. CASE TimerFires
  <2> PICK x \in timers : pending' = BagAdd(pending, Fetch(x[2], Nothing))
    BY <1>6 DEF TimerFires
  <2>1. x[2] \in Targets
    BY DEF Inv, OneTimer, PlaceOK
  <2>2. DataOK'
    BY <1>6, <2>1, NewFetch, AddOne DEF TimerFires, Inv, DataOK
  <2> QED
    BY <1>6, <2>2, PollInv DEF TimerFires
<1>7. CASE DataChanges
  <2>1. DataOK'
    BY <1>7, Bounds DEF DataChanges, Inv, DataOK
  <2> QED
    BY <1>7, <2>1, PollInv DEF DataChanges
<1>8. ASSUME NEW f \in Fetches, AnswerData(f) \/ AnswerError(f) PROVE Inv'
  BY <1>8, AnswerInv
<1>9. ASSUME NEW f \in Fetches, Arrive(f) PROVE Inv'
  BY <1>9, ArriveInv
<1>10. ASSUME NEW f \in Fetches, Fail(f) PROVE Inv'
  <2>1. DataOK'
    BY <1>10, RemoveOne DEF Fail, Inv, DataOK
  <2> QED
    BY <1>10, <2>1, PollInv DEF Fail
<1>11. CASE UNCHANGED vars
  BY <1>11 DEF vars, polling, browser, Inv, DataOK, PlaceOK, PageIsCurrent, OneTimer,
               AddressIsCurrent
<1> QED
  BY <1>1, <1>2, <1>3, <1>4, <1>5, <1>6, <1>7, <1>8, <1>9, <1>10, <1>11 DEF Next

LEMMA InvTypes == Inv => TypeOK
<1> SUFFICES ASSUME Inv PROVE TypeOK
  OBVIOUS
<1>1. timers \subseteq (Nat \X Targets)
  BY DEF Inv, OneTimer, PlaceOK
<1> QED
  BY <1>1 DEF Inv, DataOK, BagOK, FetchOK, PlaceOK, TypeOK, BagToSet

LEMMA Invariance == Spec => []Inv
<1> QED
  BY InitInv, NextInv, PTL DEF Spec

\* Every variable of the dashboard keeps its type (app.js:10-15); in particular
\* the fleet's data is never an error's JSON, which the toolbar could render.
THEOREM TypeCorrect == Spec => []TypeOK
<1> QED
  BY Invariance, InvTypes, PTL

\* The page never shows data of another view or charger than the one that is
\* open, in whatever order answers come (app.js:289, 300, 311).
THEOREM PageFollowsView == Spec => []PageIsCurrent
<1>1. Inv => PageIsCurrent
  BY DEF Inv
<1> QED
  BY Invariance, <1>1, PTL

\* However the user moves, one timer runs and polls the open view
\* (app.js:323, 332, 340, 349, 357, 367).
THEOREM TimersDoNotPileUp == Spec => []OneTimer
<1>1. Inv => OneTimer
  BY DEF Inv
<1> QED
  BY Invariance, <1>1, PTL

\* However the user moves, back and forward included, the address names what is
\* open (app.js:334, 351, 369, 373).
THEOREM AddressFollowsView == Spec => []AddressIsCurrent
<1>1. Inv => AddressIsCurrent
  BY DEF Inv
<1> QED
  BY Invariance, <1>1, PTL
=============================================================================
