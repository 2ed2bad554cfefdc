------------------------------ MODULE Simulator ------------------------------
(***************************************************************************)
(* One charger of the charge point simulator (cmd/cp-simulator/main.go):   *)
(* runCharger connects again after every error, chargerSession announces   *)
(* the charger and alternates idle time and simulateSession, and           *)
(* sendAndWait writes a CALL and takes the next reply for its answer, ten  *)
(* seconds at most.  The chargers of a fleet share nothing, so that one    *)
(* shows what any does.  The gateway answers the CALLs of a connection one *)
(* by one; what it has handled of a connection that is gone comes late, or *)
(* not at all.                                                             *)
(***************************************************************************)
EXTENDS Naturals, Sequences, FiniteSets

CONSTANTS
    NumConnectors,
    Readings,      \* how many meter readings a session may have
    MaxSessions,   \* bound on the sessions that begin
    Budget         \* how many faults of each kind may happen

ASSUME ConnectorsAssumption == NumConnectors \in Nat \ {0}
ASSUME ReadingsAssumption   == Readings \subseteq Nat \ {0}
ASSUME SessionsAssumption   == MaxSessions \in Nat

\* "break": both ends see the connection end; "silence": packets stop without
\* an error; "late": a reply takes more than ten seconds; "any" counts all
Kinds == {"break", "silence", "late", "any"}
ASSUME BudgetAssumption     == Budget \in [Kinds -> Nat]

Connectors == 1..NumConnectors
\* the calls of sendAndWait in the program, named for what they send
Sends == {"boot", "available", "beat", "preparing", "leave", "start", "charging",
          "sessionBeat", "suspended", "resumed", "meter", "finishing", "stop", "free"}
\* "down": between two chargerSessions; "idle": in the loop between sessions
Steps == Sends \union {"down", "idle"}
SessionSends == Sends \ {"boot", "available", "beat"}

Statuses == {"none", "Available", "Preparing", "Charging", "SuspendedEV", "Finishing"}
\* the status a StatusNotification carries; "none" is another kind of CALL
StatusOf(s) ==
    CASE s \in {"available", "leave", "free"} -> "Available"
      [] s = "preparing"                      -> "Preparing"
      [] s \in {"charging", "resumed"}        -> "Charging"
      [] s = "suspended"                      -> "SuspendedEV"
      [] s = "finishing"                      -> "Finishing"
      [] OTHER                                -> "none"

VARIABLES
    step,       \* where the charger's goroutine is
    waiting,    \* the CALL of step is written and sendAndWait selects
    conn,       \* how many connections it has dialled
    link,       \* the last of them: "up", "silent", "broken"
    connector,  \* the connector at hand: of the session or of the first loop
    left,       \* meter readings left in the session
    begun,      \* sessions begun
    completed,  \* sessions whose end the simulator has logged
    calls,      \* connection -> CALLs written that the gateway has not handled
    wire,       \* replies on the way, each by how many CALLs ago it was asked for
    responses,  \* the channel the reader goroutine fills, of such replies
    ended,      \* the reader has closed the channel
    late,       \* timeouts ignored on this connection
    started,    \* sessions whose StartTransaction the gateway has handled
    stopped,    \* sessions whose StopTransaction the gateway has handled
    shown,      \* connector -> the status the platform shows, and its connection
    used        \* faults so far, by kind

place   == <<step, connector, left, begun, completed>>
channel == <<wire, responses, ended>>
socket  == <<conn, link, calls, channel>>
platform == <<started, stopped, shown>>
vars    == <<place, waiting, socket, late, platform, used>>

MaxConns == Budget["any"] + 1
Conns    == 1..MaxConns
\* session 0: sent outside of a session; age: how many CALLs were sent since
Call     == [send : Sends, connector : Connectors, session : 0..MaxSessions, age : Nat]

Init ==
    /\ step = "down" /\ waiting = FALSE
    /\ conn = 0 /\ link = "broken"
    /\ connector = 1 /\ left = 0 /\ begun = 0 /\ completed = {}
    /\ calls = [c \in Conns |-> <<>>]
    /\ wire = <<>> /\ responses = <<>> /\ ended = TRUE
    /\ late = 0
    /\ started = {} /\ stopped = {}
    /\ shown = [n \in Connectors |-> [status |-> "none", conn |-> 0]]
    /\ used = [k \in Kinds |-> 0]

Spend(k) == /\ used[k] < Budget[k]
            /\ used["any"] < Budget["any"]
            /\ used' = [used EXCEPT ![k] = @ + 1, !["any"] = @ + 1]

-----------------------------------------------------------------------------
(* The program: what follows a CALL that sendAndWait returns from          *)

\* Mutant: an error of the heartbeat between sessions is dropped, too
IgnoredAlsoIdle == {"available", "beat", "sessionBeat", "suspended", "resumed",
                    "finishing", "stop", "free"}
\* Mutant: no error ends a session
IgnoredInSession == SessionSends \union {"available"}
\* the CALLs whose error is dropped; any other's ends the chargerSession
Ignored == {"available", "sessionBeat", "suspended", "resumed", "finishing", "stop", "free"}

\* one turn of the meter loop: perhaps a heartbeat, perhaps a pause (not in the
\* last two turns), then the reading
Turn(n) == {"sessionBeat", "meter"} \union (IF n > 2 THEN {"suspended"} ELSE {})

\* Mutant: one turn too many
AfterMeterLate(n) == IF n > 0 THEN Turn(n - 1) ELSE {"finishing"}
AfterMeter(n) == IF n > 1 THEN Turn(n - 1) ELSE {"finishing"}

\* "leave": the driver has plugged in and walks away
Then(s) ==
    CASE s = "preparing"   -> {"start", "leave"}
      [] s = "start"       -> {"charging"}
      [] s = "charging"    -> Turn(left)
      [] s = "sessionBeat" -> Turn(left) \ {"sessionBeat"}
      [] s = "suspended"   -> {"resumed"}
      [] s = "resumed"     -> {"meter"}
      [] s = "meter"       -> AfterMeter(left)
      [] s = "finishing"   -> {"stop"}
      [] s = "stop"        -> {"free"}
      [] OTHER             -> {"idle"}

\* Mutant: only the first connection announces the connectors
AnnounceOnce == IF conn = 1 THEN step' = "available" /\ connector' = 1
                            ELSE step' = "idle" /\ UNCHANGED connector
\* every chargerSession sets all connectors to Available after its boot
Announce == step' = "available" /\ connector' = 1

AnnouncesMore == step = "available" /\ connector < NumConnectors

\* sendAndWait has returned nil, or an error that is dropped
Proceed ==
    /\ waiting' = FALSE
    /\ left' = IF step = "meter" THEN left - 1 ELSE left
    /\ completed' = IF step = "free" THEN completed \union {begun} ELSE completed
    /\ UNCHANGED begun
    /\ \/ step = "boot" /\ Announce
       \/ AnnouncesMore /\ connector' = connector + 1 /\ UNCHANGED step
       \/ /\ step # "boot" /\ ~AnnouncesMore
          /\ step' \in Then(step) /\ UNCHANGED connector

\* chargerSession returns the error; conn.Close ends the reader as well
Abort ==
    /\ waiting' = FALSE
    /\ step' = "down"
    /\ UNCHANGED <<connector, left, begun, completed>>

\* sendAndWait returns an error
Failed == IF step \in Ignored THEN Proceed ELSE Abort

-----------------------------------------------------------------------------
(* runCharger and the main loop of chargerSession                          *)

\* Mutant: the channel of replies is made once per charger
OldChannel == responses
\* make(chan []byte, 100)
NewChannel == <<>>

\* Five seconds after an error; a dial that fails is tried again
Dial ==
    /\ step = "down"
    /\ step' = "boot"
    /\ conn' = conn + 1 /\ link' = "up"
    /\ wire' = <<>> /\ responses' = NewChannel /\ ended' = FALSE
    /\ late' = 0
    /\ UNCHANGED <<waiting, connector, left, begun, completed, calls, platform, used>>

\* The heartbeat ticker fires between two sessions
Tick ==
    /\ step = "idle"
    /\ step' = "beat"
    /\ UNCHANGED <<connector, left, begun, completed, waiting, socket, late, platform, used>>

\* A session starts on some connector
Begin ==
    /\ step = "idle"
    /\ begun < MaxSessions
    /\ begun' = begun + 1
    /\ step' = "preparing"
    /\ connector' \in Connectors
    /\ left' \in Readings
    /\ UNCHANGED <<completed, waiting, socket, late, platform, used>>

-----------------------------------------------------------------------------
(* sendAndWait                                                             *)

Older(s) == [i \in DOMAIN s |-> s[i] + 1]
Aged(s)  == [i \in DOMAIN s |-> [s[i] EXCEPT !.age = @ + 1]]
Session  == IF step \in SessionSends THEN begun ELSE 0
ThisCall == [send |-> step, connector |-> connector, session |-> Session, age |-> 0]

\* WriteMessage succeeds; on a connection that is dead the CALL goes nowhere
Send ==
    /\ step \in Sends /\ ~waiting
    /\ waiting' = TRUE
    /\ wire' = Older(wire) /\ responses' = Older(responses)
    /\ calls' = [calls EXCEPT ![conn] = IF link = "up" THEN Append(Aged(@), ThisCall)
                                                       ELSE Aged(@)]
    /\ UNCHANGED <<place, conn, link, ended, late, platform, used>>

\* WriteMessage returns an error
SendFails ==
    /\ step \in Sends /\ ~waiting
    /\ link = "broken"
    /\ Failed
    /\ UNCHANGED <<socket, late, platform, used>>

\* The next reply is taken for the answer; message ids are not compared
Receive ==
    /\ waiting
    /\ responses # <<>>
    /\ responses' = Tail(responses)
    /\ Proceed
    /\ UNCHANGED <<conn, link, calls, wire, ended, late, platform, used>>

\* The channel is closed and empty
ChannelClosed ==
    /\ waiting
    /\ responses = <<>> /\ ended
    /\ Failed
    /\ UNCHANGED <<socket, late, platform, used>>

\* Ten seconds have passed: of necessity if the connection is silent
Timeout ==
    /\ waiting
    /\ responses = <<>> /\ ~ended
    /\ \/ link = "silent" /\ wire = <<>> /\ UNCHANGED used
       \/ link = "up" /\ Spend("late")
    /\ late' = late + 1
    /\ Failed
    /\ UNCHANGED <<socket, platform>>

Charger == Dial \/ Tick \/ Begin \/ Send \/ SendFails \/ Receive \/ ChannelClosed \/ Timeout

-----------------------------------------------------------------------------
(* The reader goroutine                                                    *)

Read ==
    /\ wire # <<>> /\ ~ended
    /\ responses' = Append(responses, Head(wire))
    /\ wire' = Tail(wire)
    /\ UNCHANGED <<place, waiting, conn, link, calls, ended, late, platform, used>>

\* ReadMessage fails, also because the charger has closed its connection
ReadFails ==
    /\ ~ended
    /\ wire = <<>> /\ (link = "broken" \/ step = "down")
    /\ ended' = TRUE
    /\ UNCHANGED <<place, waiting, conn, link, calls, wire, responses, late, platform, used>>

-----------------------------------------------------------------------------
(* The gateway and what is behind it                                       *)

Live(c) == c = conn /\ link = "up" /\ step # "down"

\* the platform shows the newest status by the charger's time stamps; those of
\* a new connection are five seconds older at least than its predecessor's
Show(k, c) ==
    IF StatusOf(k.send) = "none" \/ c < shown[k.connector].conn THEN shown
    ELSE [shown EXCEPT ![k.connector] = [status |-> StatusOf(k.send), conn |-> c]]

\* The gateway handles the next CALL, and answers it while it can
Handle(c) == LET k == Head(calls[c]) IN
    /\ calls[c] # <<>>
    /\ calls' = [calls EXCEPT ![c] = Tail(@)]
    /\ wire' = IF Live(c) THEN Append(wire, k.age) ELSE wire
    /\ started' = IF k.send = "start" THEN started \union {k.session} ELSE started
    /\ stopped' = IF k.send = "stop" THEN stopped \union {k.session} ELSE stopped
    /\ shown' = Show(k, c)
    /\ UNCHANGED <<place, waiting, conn, link, responses, ended, late, used>>

\* The handler of a connection that is gone fails to answer and returns
Discard(c) ==
    /\ calls[c] # <<>> /\ ~Live(c)
    /\ calls' = [calls EXCEPT ![c] = <<>>]
    /\ UNCHANGED <<place, waiting, conn, link, channel, late, platform, used>>

\* The connection ends; replies on the way may still arrive
Cut(kind, end) ==
    /\ link = "up" /\ step # "down"
    /\ Spend(kind)
    /\ link' = end
    /\ wire' \in {wire, <<>>}
    /\ UNCHANGED <<place, waiting, conn, calls, responses, ended, late, platform>>
Break   == Cut("break", "broken")
Silence == Cut("silence", "silent")

Next ==
    \/ Charger \/ Read \/ ReadFails
    \/ \E c \in Conns : Handle(c) \/ Discard(c)
    \/ Break \/ Silence

Spec == Init /\ [][Next]_vars

\* The goroutines run, tickers fire and the gateway handles what it receives;
\* nothing is assumed of sessions beginning or of faults
FairSpec ==
    /\ Spec
    /\ WF_vars(Charger) /\ WF_vars(Read) /\ WF_vars(ReadFails)
    /\ \A c \in Conns : WF_vars(Handle(c))

-----------------------------------------------------------------------------
\* The shape of the state (cmd/cp-simulator/main.go); the meter loop ends after
\* its last reading.
TypeOK ==
    /\ step \in Steps /\ waiting \in BOOLEAN
    /\ conn \in 0..MaxConns /\ link \in {"up", "silent", "broken"}
    /\ connector \in Connectors /\ left \in Nat /\ begun \in 0..MaxSessions
    /\ completed \subseteq 1..begun /\ started \subseteq 1..begun
    /\ \A c \in Conns : \A i \in DOMAIN calls[c] : calls[c][i] \in Call
    /\ used \in [Kinds -> Nat]

\* sendAndWait takes whichever reply is next (main.go:340), and seven of its
\* calls drop a timeout.  The reply it takes was asked for exactly as many CALLs
\* ago as timeouts were dropped on this connection: its own without any, and
\* never that of an earlier connection, whatever else happens.
ReplyLag == waiting /\ responses # <<>> => Head(responses) = late

StopOnTheWay(n) == \E c \in Conns : \E i \in DOMAIN calls[c] :
                       calls[c][i].send = "stop" /\ calls[c][i].session = n
InSession(n)    == step \in SessionSends /\ n = begun
\* sessions the platform saw start, or the simulator logged as complete, whose
\* StopTransaction the gateway will never handle
Unreported == {n \in (started \union completed) \ stopped :
                  ~StopOnTheWay(n) /\ ~InSession(n)}

\* A connection that breaks or falls silent, or a late reply, costs one session
\* at most: simulateSession drops errors only where a session ends, and its
\* first StatusNotification or the heartbeat between sessions (main.go:142, 156)
\* finds out before another begins.  No stop comes without its start.
SessionLossBounded == /\ stopped \subseteq started
                      /\ Cardinality(Unreported) <= used["any"]

\* When the charger is idle and its CALLs are handled, the platform shows all
\* its connectors Available, also after sessions that a failure cut short, and
\* with CALLs of earlier connections handled late: every connection announces
\* them first (main.go:110-117), and both ways out of a session end so.
IdleShowsAvailable ==
    link = "up" /\ step = "idle" /\ (\A c \in Conns : calls[c] = <<>>) =>
        \A n \in Connectors : shown[n].status = "Available"

\* Once faults are over, the charger gets through its boot on a connection that
\* works and keeps it: runCharger notices every connection that is dead, silent
\* ones included, although sendAndWait's errors are dropped in seven places.
EventuallyOnline == <>[](link = "up" /\ step \notin {"down", "boot"})
=============================================================================
