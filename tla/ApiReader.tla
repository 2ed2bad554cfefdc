------------------------------ MODULE ApiReader ------------------------------
(***************************************************************************)
(* The REST API (cmd/api/main.go) beside the state-processor: a GET builds *)
(* its answer from several Redis reads, and the state-processor's commands *)
(* come between them.  Requests only read, so that one at a time shows all *)
(* that any of them can see.                                               *)
(***************************************************************************)
EXTENDS StateProcessor

CONSTANT ReadFailures   \* how many Redis reads of requests may fail

ASSUME ReadFailuresAssumption == ReadFailures \in Nat

VARIABLES
    req,       \* the request that is being served
    answer,    \* the last answer sent: its status code, the chargers shown, and how
               \* many reads failed meanwhile
    failures   \* reads that failed so far

api     == <<req, answer, failures>>
apiVars == <<vars, api>>

Infos == [boot   : Events \union {None}, seen : Events \union {None},
          online : Events \union {None}]
ConnectorStates == [conn : Connectors, status : Events \union {None},
                    meter : Events \union {None}, active : Events \union {None}]
NoInfo == [boot |-> None, seen |-> None, online |-> None]
States == [charger : Chargers, info : Infos, conns : SUBSET ConnectorStates]
Answer == [code : {0, 200, 404, 500}, asked : SUBSET Chargers, states : SUBSET States,
           failed : 0..ReadFailures]

\* all: GET /chargers; asked: the chargers asked for that were listed when it
\* came; before: the failures by then; rest: chargers still to build; todo:
\* connectors still to read; info and conns: the charger being built; states:
\* those built
NoRequest == [pc |-> "idle", all |-> FALSE, asked |-> {}, before |-> 0, charger |-> None,
              rest |-> {}, todo |-> {}, info |-> NoInfo, conns |-> {}, states |-> {}, code |-> 0]

ApiInit ==
    /\ Init
    /\ req = NoRequest
    /\ answer = [code |-> 0, asked |-> {}, states |-> {}, failed |-> 0]
    /\ failures = 0

Listed         == {c \in Chargers : redis[<<"listed", c, 0>>] # None}
ConnectorsOf(c) == {n \in Connectors : redis[<<"member", c, n>>] # None}
InfoOf(c) == [boot   |-> redis[<<"boot", c, 0>>], seen |-> redis[<<"seen", c, 0>>],
              online |-> redis[<<"online", c, 0>>]]
ConnectorState(c, n) == [conn |-> n, status |-> redis[<<"status", c, n>>],
                         meter |-> redis[<<"meter", c, n>>],
                         active |-> redis[<<"active", c, n>>]]

Serving(pc) == req.pc = pc /\ UNCHANGED <<vars, answer>>
Reads       == UNCHANGED failures
Fails       == failures < ReadFailures /\ failures' = failures + 1

-----------------------------------------------------------------------------
(* What follows a read: the next call, or the answer                       *)

Done(q, code) == [q EXCEPT !.pc = "done", !.code = code]

\* listChargers builds the chargers one by one, in the order of their ids
NextCharger(q) ==
    IF q.rest = {} THEN Done(q, 200)
    ELSE LET c == CHOOSE x \in q.rest : TRUE
         IN  [q EXCEPT !.pc = "info", !.charger = c, !.rest = @ \ {c}, !.conns = {}]

Built(q) ==
    LET p == [q EXCEPT !.states = @ \union {[charger |-> q.charger, info |-> q.info,
                                             conns |-> q.conns]}]
    IN  IF q.all THEN NextCharger(p) ELSE Done(p, 200)

\* Mutant: the loop over the connectors does not see its end
NextConnectorAlways(q) == [q EXCEPT !.pc = "conn"]
NextConnector(q) == IF q.todo = {} THEN Built(q) ELSE [q EXCEPT !.pc = "conn"]

-----------------------------------------------------------------------------
GetCharger(c) ==
    /\ Serving("idle")
    /\ req' = [NoRequest EXCEPT !.pc = "member", !.charger = c, !.before = failures,
                                !.asked = Listed \intersect {c}]
    /\ UNCHANGED failures

GetChargers ==
    /\ Serving("idle")
    /\ req' = [NoRequest EXCEPT !.pc = "list", !.all = TRUE, !.before = failures,
                                !.asked = Listed]
    /\ UNCHANGED failures

\* SISMEMBER chargers; its error is ignored and reads as "not a member"
IsMember ==
    /\ Serving("member")
    /\ \/ Reads /\ req' = IF req.charger \in Listed THEN [req EXCEPT !.pc = "info"]
                                                    ELSE Done(req, 404)
       \/ Fails /\ req' = Done(req, 404)

\* SMEMBERS chargers
ListChargers ==
    /\ Serving("list")
    /\ \/ Reads /\ req' = NextCharger([req EXCEPT !.rest = Listed])
       \/ Fails /\ req' = Done(req, 500)

\* Mutant: an error ends the list
InfoErrorEndsList(q) == IF q.all THEN Done(q, 200) ELSE Done(q, 500)
\* GET /chargers leaves out a charger whose HGETALL fails
InfoError(q) == IF q.all THEN NextCharger(q) ELSE Done(q, 500)

\* HGETALL charger:{c}
ReadInfo ==
    /\ Serving("info")
    /\ \/ Reads /\ req' = [req EXCEPT !.pc = "connectors", !.info = InfoOf(req.charger)]
       \/ Fails /\ req' = InfoError(req)

\* SMEMBERS charger:{c}:connectors; its error reads as "no connectors"
ReadConnectors ==
    /\ Serving("connectors")
    /\ \/ Reads /\ req' = NextConnector([req EXCEPT !.todo = ConnectorsOf(req.charger)])
       \/ Fails /\ req' = NextConnector(req)

\* HGETALL charger:{c}:conn:{n}, in the order of n; a connector whose read
\* fails is left out
ReadConnector ==
    LET n == CHOOSE x \in req.todo : \A y \in req.todo : x <= y
        q == [req EXCEPT !.todo = @ \ {n}]
    IN  /\ Serving("conn")
        /\ \/ Reads /\ req' = NextConnector(
                          [q EXCEPT !.conns = @ \union {ConnectorState(q.charger, n)}])
           \/ Fails /\ req' = NextConnector(q)

\* writeJSON
Respond ==
    /\ req.pc = "done"
    /\ answer' = [code |-> req.code, asked |-> req.asked, states |-> req.states,
                  failed |-> failures - req.before]
    /\ req' = NoRequest
    /\ UNCHANGED <<vars, failures>>

Serve == \/ GetChargers \/ IsMember \/ ListChargers \/ ReadInfo \/ ReadConnectors
         \/ ReadConnector \/ Respond
         \/ \E c \in Chargers : GetCharger(c)

ApiNext == (Next /\ UNCHANGED api) \/ Serve

ApiSpec == ApiInit /\ [][ApiNext]_apiVars

-----------------------------------------------------------------------------
\* The shape of a request and its answer (cmd/api/main.go:147-188), which
\* reads a connector only while there is one left to read.
ApiTypeOK ==
    /\ req.pc \in {"idle", "member", "list", "info", "connectors", "conn", "done"}
    /\ req.rest \subseteq Chargers /\ req.todo \subseteq Connectors
    /\ req.pc = "conn" => req.todo # {}
    /\ answer \in Answer
    /\ failures \in 0..ReadFailures

\* The state-processor adds a charger to "chargers" and a connector to
\* "charger:{c}:connectors" after the fields they stand for
\* (state-processor/main.go:250-259, 297-303, 380-382).  So no answer shows a
\* charger without last_seen or a connector without data, whatever commands
\* came between its reads and wherever a pipeline broke off.
AnswersAreReadable ==
    \A s \in answer.states :
        /\ s.info.seen # None
        /\ \A k \in s.conns : \E v \in {k.status, k.meter, k.active} : v # None

\* listChargers skips a charger that cannot be read and goes on (main.go:209-216),
\* and getChargerState takes a SISMEMBER that fails for a charger that is not
\* there (main.go:248): a read that fails costs an answer one charger at most,
\* and without one every charger listed before is shown.
MissesOnlyFailures ==
    answer.code # 500 =>
        Cardinality(answer.asked \ {s.charger : s \in answer.states}) <= answer.failed

\* The connector states a client has just been shown, and is shown next
ShownStatus(a, c, n) == {k.status : k \in UNION {{j \in s.conns : j.conn = n} :
                                        s \in {t \in a.states : t.charger = c}}}

\* From one answer to the next, a connector's status never goes back to an
\* earlier second, and never from a status to none: the timestamp guard
\* (state-processor/main.go:243-249) as clients of the API see it.  It takes
\* one state-processor and reads that do not fail.
StatusNeverGoesBack ==
    [][\A c \in Chargers, n \in Connectors :
          \A old \in ShownStatus(answer, c, n), new \in ShownStatus(answer', c, n) :
              old # None => new # None /\ Trunc(old.ts) <= Trunc(new.ts)]_apiVars
=============================================================================
