--------------------------- MODULE ApiReaderProofs ---------------------------
(***************************************************************************)
(* Proofs of what the REST API shows, for any number of chargers, requests *)
(* and state-processors: the invariants of the state-processor carry over  *)
(* to answers that are put together while it goes on writing.              *)
(***************************************************************************)
EXTENDS ApiReader, StateProcessorProofs, FiniteSetTheorems, WellFoundedInduction

\* The connectors of a charger are read in the order of their numbers.
LEMMA LeastExists ==
    ASSUME NEW T \in SUBSET Nat, T # {}
    PROVE  \E x \in T : \A y \in T : x =< y
<1>1. PICK x \in T : \A y \in T : <<y, x>> \notin OpToRel(<, Nat)
  BY NatLessThanWellFounded, WFMin
<1>2. \A y \in T : ~(y < x)
  BY <1>1 DEF OpToRel
<1> QED
  BY <1>2

LeastOf(T) == CHOOSE x \in T : \A y \in T : x <= y

LEMMA LeastIn ==
    ASSUME NEW T \in SUBSET Connectors, T # {}
    PROVE  LeastOf(T) \in T
BY LeastExists, ConnectorAssumption DEF LeastOf

\* A request does not disturb the state-processor.
LEMMA ProcessorInvariant == ApiSpec => []Inv5
<1>1. ApiInit => Inv5
  <2>1. Init => ListedIsReadable /\ \A r \in Readers : Written(work[r])
    BY EmptyIsReadable DEF Init, Written, Idle
  <2> QED
    BY <2>1, Inv1Init DEF ApiInit, Inv5
<1>2. Inv5 /\ [ApiNext]_apiVars => Inv5'
  <2>1. [ApiNext]_apiVars => [Next]_vars
    BY DEF ApiNext, apiVars, Serve, GetCharger, GetChargers, IsMember, ListChargers,
           ReadInfo, ReadConnectors, ReadConnector, Respond, Serving
  <2> QED
    BY <2>1, Inv5Step
<1> QED
  BY <1>1, <1>2, PTL DEF ApiSpec

-----------------------------------------------------------------------------
(* A request while it is served                                            *)

PCsOf    == {"idle", "member", "list", "info", "connectors", "conn", "done"}
Codes    == {0, 200, 404, 500}
Requests == [pc : PCsOf, all : BOOLEAN, asked : SUBSET Chargers, before : Nat,
             charger : Chargers \union {None}, rest : SUBSET Chargers,
             todo : SUBSET Connectors, info : Infos, conns : SUBSET ConnectorStates,
             states : SUBSET States, code : Codes]
Building == {"info", "connectors", "conn"}

\* A charger that is built, or is to be built, is listed; what has been read of
\* it can be shown; connectors are left to read while one is being read.
ReadableConns(S) == \A k \in S : \E v \in {k.status, k.meter, k.active} : v # None
ReadableStates(S) == \A s \in S : s.info.seen # None /\ ReadableConns(s.conns)
RequestOK(q) ==
    /\ q \in Requests
    /\ q.pc \in Building \union {"member"} => q.charger \in Chargers
    /\ q.todo # {} <=> q.pc = "conn"
    /\ q.pc \in Building => q.charger \in Listed
    /\ q.rest \subseteq Listed /\ q.asked \subseteq Listed
    /\ q.pc \in {"connectors", "conn"} => q.info.seen # None
    /\ q.todo \subseteq ConnectorsOf(q.charger)
    /\ ReadableConns(q.conns) /\ ReadableStates(q.states)
AnswerOK ==
    /\ answer \in Answer
    /\ ReadableStates(answer.states)
    /\ req.before =< failures /\ failures \in 0..ReadFailures

ApiInv == RequestOK(req) /\ AnswerOK

LEMMA RequestGoes ==
    ASSUME NEW q \in Requests, NEW pc \in PCsOf
    PROVE  [q EXCEPT !.pc = pc] \in Requests
BY DEF Requests

LEMMA RequestDone ==
    ASSUME NEW q \in Requests, NEW code \in Codes
    PROVE  Done(q, code) \in Requests
<1>1. "done" \in PCsOf
  BY DEF PCsOf
<1> QED
  BY <1>1 DEF Requests, Done

LEMMA RequestPCs ==
    /\ \A pc \in {"idle", "member", "list", "info", "connectors", "conn", "done"} : pc \in PCsOf
    /\ \A code \in {0, 200, 404, 500} : code \in Codes
BY DEF PCsOf, Codes

LEMMA DoneOK ==
    ASSUME NEW q \in Requests, NEW code \in Codes, q.todo = {}, q.rest \subseteq Listed,
           q.asked \subseteq Listed, ReadableStates(q.states), ReadableConns(q.conns)
    PROVE  RequestOK(Done(q, code))
<1> DEFINE p == Done(q, code)
<1>1. p \in Requests
  BY RequestDone
<1>2. /\ p.pc = "done" /\ p.todo = {} /\ p.rest = q.rest /\ p.asked = q.asked
      /\ p.states = q.states /\ p.conns = q.conns
  BY DEF Done, Requests
<1> HIDE DEF p
<1>3. /\ p.pc \notin Building \union {"member"} /\ p.pc \notin Building
      /\ p.pc \notin {"connectors", "conn"} /\ p.pc # "conn"
  BY <1>2 DEF Building
<1>4. p.todo \subseteq ConnectorsOf(p.charger)
  BY <1>2
<1>5. ReadableConns(p.conns) /\ ReadableStates(p.states)
      /\ p.rest \subseteq Listed /\ p.asked \subseteq Listed
  BY <1>2
<1> QED
  BY <1>1, <1>2, <1>3, <1>4, <1>5 DEF RequestOK, p

LEMMA NextChargerOK ==
    ASSUME NEW q, q \in Requests, q.todo = {}, q.rest \subseteq Listed,
           q.asked \subseteq Listed, ReadableStates(q.states), ReadableConns(q.conns)
    PROVE  RequestOK(NextCharger(q))
<1>1. CASE q.rest = {}
  <2>1. NextCharger(q) = Done(q, 200)
    BY <1>1 DEF NextCharger
  <2> QED
    BY <2>1, DoneOK, RequestPCs
<1>2. CASE q.rest # {}
  <2> DEFINE c == CHOOSE x \in q.rest : TRUE
             p == [q EXCEPT !.pc = "info", !.charger = c, !.rest = @ \ {c}, !.conns = {}]
  <2>1. NextCharger(q) = p
    BY <1>2 DEF NextCharger
  <2>2. c \in q.rest /\ c \in Chargers
    BY <1>2 DEF Requests
  <2> HIDE DEF c
  <2>3. p \in Requests
    <3>1. "info" \in PCsOf /\ c \in Chargers \union {None} /\ q.rest \ {c} \in SUBSET Chargers
          /\ {} \in SUBSET ConnectorStates
      BY <2>2 DEF Requests, PCsOf
    <3> QED
      BY <3>1 DEF Requests
  <2>4. /\ p.pc = "info" /\ p.charger = c /\ p.rest = q.rest \ {c} /\ p.conns = {}
        /\ p.todo = {} /\ p.asked = q.asked /\ p.states = q.states
    BY DEF Requests
  <2> HIDE DEF p
  <2> QED
    BY <2>1, <2>2, <2>3, <2>4 DEF RequestOK, Building, ReadableConns
<1> QED
  BY <1>1, <1>2

LEMMA BuiltOK ==
    ASSUME NEW q, q \in Requests, q.todo = {}, q.charger \in Chargers,
           q.rest \subseteq Listed, q.asked \subseteq Listed, q.info.seen # None,
           ReadableStates(q.states), ReadableConns(q.conns)
    PROVE  RequestOK(Built(q))
<1> DEFINE s == [charger |-> q.charger, info |-> q.info, conns |-> q.conns]
           p == [q EXCEPT !.states = @ \union {s}]
<1>1. s \in States
  BY DEF Requests, States
<1>2. p \in Requests
  BY <1>1 DEF Requests
<1>3. /\ p.pc = q.pc /\ p.todo = {} /\ p.rest = q.rest /\ p.asked = q.asked
      /\ p.states = q.states \union {s} /\ p.conns = q.conns /\ p.all = q.all
  BY DEF Requests
<1>4. ReadableStates(p.states)
  BY <1>3 DEF ReadableStates
<1>5. Built(q) = IF q.all THEN NextCharger(p) ELSE Done(p, 200)
  BY DEF Built
<1> HIDE DEF p
<1>6. RequestOK(NextCharger(p))
  BY <1>2, <1>3, <1>4, NextChargerOK
<1>7. RequestOK(Done(p, 200))
  <2>1. /\ p.todo = {} /\ p.rest \subseteq Listed /\ p.asked \subseteq Listed
        /\ ReadableStates(p.states) /\ ReadableConns(p.conns)
    BY <1>3, <1>4
  <2>2. 200 \in Codes
    BY RequestPCs
  <2> QED
    BY <1>2, <2>1, <2>2, DoneOK
<1> QED
  BY <1>5, <1>6, <1>7

LEMMA NextConnectorOK ==
    ASSUME NEW q, q \in Requests, q.charger \in Chargers, q.charger \in Listed,
           q.rest \subseteq Listed, q.asked \subseteq Listed, q.info.seen # None,
           q.todo \subseteq ConnectorsOf(q.charger),
           ReadableStates(q.states), ReadableConns(q.conns)
    PROVE  RequestOK(NextConnector(q))
<1>1. CASE q.todo = {}
  BY <1>1, BuiltOK DEF NextConnector
<1>2. CASE q.todo # {}
  <2>1. NextConnector(q) = [q EXCEPT !.pc = "conn"]
    BY <1>2 DEF NextConnector
  <2>2. [q EXCEPT !.pc = "conn"] \in Requests
    BY RequestGoes, RequestPCs
  <2> QED
    BY <1>2, <2>1, <2>2 DEF RequestOK, Requests, Building
<1> QED
  BY <1>1, <1>2

\* What a request has found listed stays listed.
LEMMA ListedKept ==
    ASSUME Inv1, [Next]_vars
    PROVE  Listed \subseteq Listed'
           /\ \A c \in Chargers : ConnectorsOf(c) \subseteq ConnectorsOf(c)'
<1>1. Listed \subseteq Listed'
  BY LastingKept, LastingSlots, ConnectorAssumption DEF Listed
<1>2. ASSUME NEW c \in Chargers, NEW n \in ConnectorsOf(c)
      PROVE  n \in ConnectorsOf(c)'
  <2>1. n \in Connectors /\ redis[<<"member", c, n>>] # None /\ <<"member", c, n>> \in Lasting
    BY LastingSlots DEF ConnectorsOf
  <2>2. redis'[<<"member", c, n>>] # None
    BY <2>1, LastingKept
  <2> QED
    BY <2>1, <2>2 DEF ConnectorsOf
<1> QED
  BY <1>1, <1>2

\* A request keeps what was asked, and how many reads had failed when it came.
Same(p, q) == p.before = q.before /\ p.asked = q.asked /\ p.all = q.all

LEMMA KeepsSame ==
    ASSUME NEW q \in Requests
    PROVE  /\ \A code : Same(Done(q, code), q)
           /\ Same(NextCharger(q), q) /\ Same(Built(q), q) /\ Same(NextConnector(q), q)
<1> USE DEF Same
<1>1. \A p \in Requests : \A code : Same(Done(p, code), p)
  BY DEF Done, Requests
<1>2. \A p \in Requests : Same(NextCharger(p), p)
  BY <1>1 DEF NextCharger, Requests
<1>3. Same(Built(q), q)
  <2> DEFINE s == [charger |-> q.charger, info |-> q.info, conns |-> q.conns]
             p == [q EXCEPT !.states = @ \union {s}]
  <2>1. Built(q) = IF q.all THEN NextCharger(p) ELSE Done(p, 200)
    BY DEF Built
  <2>2. Same(p, q)
    BY DEF Requests
  <2>3. \A code : Same(Done(p, code), p)
    BY DEF Done, Requests
  <2>4. Same(NextCharger(p), p)
    BY <2>3 DEF NextCharger, Requests
  <2> HIDE DEF p
  <2> QED
    BY <2>1, <2>2, <2>3, <2>4
<1>4. Same(NextConnector(q), q)
  BY <1>3 DEF NextConnector, Requests
<1> QED
  BY <1>1, <1>2, <1>3, <1>4

LEMMA ReadValues ==
    ASSUME Inv5, NEW c \in Chargers
    PROVE  /\ InfoOf(c) \in Infos /\ (c \in Listed => InfoOf(c).seen # None)
           /\ \A n \in Connectors : ConnectorState(c, n) \in ConnectorStates
           /\ \A n \in ConnectorsOf(c) :
                 /\ n \in Connectors
                 /\ \E v \in {ConnectorState(c, n).status, ConnectorState(c, n).meter,
                              ConnectorState(c, n).active} : v # None
<1>1. redis \in [Slots -> Events \union {None}] /\ ListedIsReadable
  BY DEF Inv5, Inv1, TypeOK
<1>2. \A n \in Connectors : \A f \in Fields : redis[<<f, c, n>>] \in Events \union {None}
  BY <1>1 DEF Slots
<1>3. InfoOf(c) \in Infos
  BY <1>2, ConnectorAssumption DEF InfoOf, Infos, Fields
<1>4. c \in Listed => InfoOf(c).seen # None
  BY <1>1 DEF Listed, InfoOf, ListedIsReadable
<1>5. \A n \in Connectors : ConnectorState(c, n) \in ConnectorStates
  BY <1>2 DEF ConnectorState, ConnectorStates, Fields
<1>6. ASSUME NEW n \in ConnectorsOf(c)
      PROVE  /\ n \in Connectors
             /\ \E v \in {ConnectorState(c, n).status, ConnectorState(c, n).meter,
                          ConnectorState(c, n).active} : v # None
  <2>1. n \in Connectors
        /\ \E f \in {"status", "meter", "active"} : redis[<<f, c, n>>] # None
    BY <1>1 DEF ConnectorsOf, ListedIsReadable
  <2> QED
    BY <2>1 DEF ConnectorState
<1> QED
  BY <1>3, <1>4, <1>5, <1>6

LEMMA NoRequestOK == NoRequest \in Requests
BY RequestPCs DEF NoRequest, Requests, NoInfo, Infos

\* Every step of a request keeps it in order.
LEMMA ServeRequestOK ==
    ASSUME Inv5, ApiInv, Serve
    PROVE  RequestOK(req) /\ RequestOK(req)'
<1> DEFINE q == req
<1>0. /\ q \in Requests /\ RequestOK(q) /\ UNCHANGED vars
      /\ q.rest \subseteq Listed /\ q.asked \subseteq Listed
      /\ ReadableConns(q.conns) /\ ReadableStates(q.states)
  BY DEF ApiInv, RequestOK, Serve, Serving, GetCharger, GetChargers, IsMember,
         ListChargers, ReadInfo, ReadConnectors, ReadConnector, Respond
<1>1. SUFFICES RequestOK(req')
  <2>1. Listed' = Listed /\ \A c : ConnectorsOf(c)' = ConnectorsOf(c)
    BY <1>0 DEF Listed, ConnectorsOf, vars
  <2> QED
    BY <1>0, <1>1, <2>1 DEF RequestOK
<1>2. \A pc \in Building \union {"member"} : q.pc = pc => q.charger \in Chargers
  BY <1>0 DEF RequestOK
<1>3. q.pc # "conn" => q.todo = {}
  BY <1>0 DEF RequestOK
<1>4. ASSUME NEW code \in Codes, q.pc # "conn"
      PROVE  RequestOK(Done(q, code))
  BY <1>0, <1>3, <1>4, DoneOK
<1>5. ASSUME NEW c \in Chargers, GetCharger(c)
      PROVE  RequestOK(req')
  <2> DEFINE p == [NoRequest EXCEPT !.pc = "member", !.charger = c, !.before = failures,
                                    !.asked = Listed \intersect {c}]
  <2>1. /\ req' = p /\ failures \in Nat /\ Listed \intersect {c} \in SUBSET Chargers
        /\ "member" \in PCsOf
    BY <1>5, RequestPCs, ReadFailuresAssumption DEF GetCharger, ApiInv, AnswerOK
  <2>2. p \in Requests
    BY <2>1, NoRequestOK DEF Requests
  <2>3. /\ p.pc = "member" /\ p.charger = c /\ p.asked = Listed \intersect {c}
        /\ p.rest = {} /\ p.todo = {} /\ p.conns = {} /\ p.states = {}
    BY NoRequestOK DEF NoRequest, Requests
  <2> HIDE DEF p
  <2> QED
    BY <2>1, <2>2, <2>3 DEF RequestOK, Building, ReadableConns, ReadableStates
<1>6. CASE GetChargers
  <2> DEFINE p == [NoRequest EXCEPT !.pc = "list", !.all = TRUE, !.before = failures,
                                    !.asked = Listed]
  <2>1. /\ req' = p /\ failures \in Nat /\ Listed \in SUBSET Chargers /\ "list" \in PCsOf
    BY <1>6, RequestPCs, ReadFailuresAssumption DEF GetChargers, ApiInv, AnswerOK, Listed
  <2>2. p \in Requests
    BY <2>1, NoRequestOK DEF Requests
  <2>3. /\ p.pc = "list" /\ p.asked = Listed
        /\ p.rest = {} /\ p.todo = {} /\ p.conns = {} /\ p.states = {}
    BY NoRequestOK DEF NoRequest, Requests
  <2> HIDE DEF p
  <2> QED
    BY <2>1, <2>2, <2>3 DEF RequestOK, Building, ReadableConns, ReadableStates
<1>7. CASE IsMember
  <2>1. q.pc = "member" /\ q.todo = {} /\ q.charger \in Chargers
        /\ q.pc # "conn"
    BY <1>2, <1>3, <1>7 DEF IsMember, Serving
  <2>2. RequestOK(Done(q, 404))
    BY <1>4, <2>1, RequestPCs
  <2>3. CASE q.charger \in Listed /\ req' = [req EXCEPT !.pc = "info"]
    <3>1. req' \in Requests
      BY <1>0, <2>3, RequestGoes, RequestPCs
    <3>2. /\ req'.pc = "info" /\ req'.charger = q.charger /\ req'.rest = q.rest
          /\ req'.asked = q.asked /\ req'.todo = q.todo /\ req'.conns = q.conns
          /\ req'.states = q.states
      BY <1>0, <2>3 DEF Requests
    <3> QED
      BY <1>0, <2>1, <2>3, <3>1, <3>2 DEF RequestOK, Building
  <2> QED
    BY <1>7, <2>2, <2>3 DEF IsMember
<1>8. CASE ListChargers
  <2>1. q.pc = "list" /\ q.todo = {} /\ q.pc # "conn"
    BY <1>3, <1>8 DEF ListChargers, Serving
  <2>2. RequestOK(Done(q, 500))
    BY <1>4, <2>1, RequestPCs
  <2>3. RequestOK(NextCharger([req EXCEPT !.rest = Listed]))
    <3> DEFINE p == [req EXCEPT !.rest = Listed]
    <3>1. p \in Requests /\ p.todo = {} /\ p.rest = Listed /\ p.asked = q.asked
          /\ p.states = q.states /\ p.conns = q.conns
      BY <1>0, <2>1 DEF Requests, Listed
    <3> HIDE DEF p
    <3> QED
      BY <1>0, <3>1, NextChargerOK DEF p
  <2> QED
    BY <1>8, <2>2, <2>3 DEF ListChargers
<1>9. CASE ReadInfo
  <2>1. q.pc = "info" /\ q.todo = {} /\ q.charger \in Chargers /\ q.charger \in Listed
        /\ q.pc # "conn"
    BY <1>0, <1>2, <1>3, <1>9 DEF ReadInfo, Serving, RequestOK, Building
  <2>2. RequestOK(InfoError(q))
    <3>1. RequestOK(NextCharger(q))
      BY <1>0, <2>1, NextChargerOK
    <3>2. RequestOK(Done(q, 500))
      BY <1>4, <2>1, RequestPCs
    <3> QED
      BY <3>1, <3>2 DEF InfoError
  <2>3. ASSUME req' = [req EXCEPT !.pc = "connectors", !.info = InfoOf(req.charger)]
        PROVE  RequestOK(req')
    <3>1. InfoOf(q.charger) \in Infos /\ InfoOf(q.charger).seen # None
      BY <2>1, ReadValues
    <3>2. req' \in Requests
      <4>1. "connectors" \in PCsOf
        BY RequestPCs
      <4> QED
        BY <1>0, <2>3, <3>1, <4>1 DEF Requests
    <3>3. /\ req'.pc = "connectors" /\ req'.charger = q.charger /\ req'.rest = q.rest
          /\ req'.asked = q.asked /\ req'.todo = q.todo /\ req'.conns = q.conns
          /\ req'.states = q.states /\ req'.info = InfoOf(q.charger)
      BY <1>0, <2>3 DEF Requests
    <3> QED
      BY <1>0, <2>1, <3>1, <3>2, <3>3 DEF RequestOK, Building
  <2> QED
    BY <1>9, <2>2, <2>3 DEF ReadInfo
<1>10. CASE ReadConnectors
  <2>1. /\ q.pc = "connectors" /\ q.charger \in Chargers /\ q.charger \in Listed
        /\ q.info.seen # None /\ q.todo \subseteq ConnectorsOf(q.charger)
    BY <1>0, <1>2, <1>10 DEF ReadConnectors, Serving, RequestOK, Building
  <2>2. RequestOK(NextConnector(q))
    BY <1>0, <2>1, NextConnectorOK
  <2>3. RequestOK(NextConnector([req EXCEPT !.todo = ConnectorsOf(req.charger)]))
    <3> DEFINE p == [req EXCEPT !.todo = ConnectorsOf(req.charger)]
    <3>1. /\ p \in Requests /\ p.rest = q.rest /\ p.asked = q.asked /\ p.states = q.states
          /\ p.conns = q.conns /\ p.info = q.info /\ p.charger = q.charger
          /\ p.todo = ConnectorsOf(p.charger)
      BY <1>0 DEF Requests, ConnectorsOf
    <3> HIDE DEF p
    <3> QED
      BY <1>0, <2>1, <3>1, NextConnectorOK DEF p
  <2> QED
    BY <1>10, <2>2, <2>3 DEF ReadConnectors
<1>11. CASE ReadConnector
  <2> DEFINE n == LeastOf(req.todo)
             p == [req EXCEPT !.todo = @ \ {n}]
             k == ConnectorState(p.charger, n)
             s == [p EXCEPT !.conns = @ \union {k}]
  <2>1. /\ q.pc = "conn" /\ q.charger \in Chargers /\ q.charger \in Listed
        /\ q.info.seen # None /\ q.todo \subseteq ConnectorsOf(q.charger)
        /\ q.todo # {} /\ q.todo \in SUBSET Connectors
    BY <1>0, <1>2, <1>11 DEF ReadConnector, Serving, RequestOK, Building, Requests
  <2>2. n \in req.todo
    BY <2>1, LeastIn
  <2>3. req' = NextConnector(s) \/ req' = NextConnector(p)
    BY <1>11 DEF ReadConnector, LeastOf
  <2> HIDE DEF n
  <2>4. /\ p \in Requests /\ p.rest = q.rest /\ p.asked = q.asked /\ p.states = q.states
        /\ p.conns = q.conns /\ p.info = q.info /\ p.charger = q.charger
        /\ p.todo = q.todo \ {n}
    BY <1>0 DEF Requests
  <2> HIDE DEF p
  <2>5. /\ k \in ConnectorStates
        /\ \E v \in {k.status, k.meter, k.active} : v # None
    BY <2>1, <2>2, <2>4, ReadValues
  <2> HIDE DEF k
  <2>6. /\ s \in Requests /\ s.rest = q.rest /\ s.asked = q.asked /\ s.states = q.states
        /\ s.conns = q.conns \union {k} /\ s.info = q.info /\ s.charger = q.charger
        /\ s.todo = q.todo \ {n}
    BY <2>4, <2>5 DEF Requests
  <2>7. ReadableConns(s.conns)
    BY <1>0, <2>5, <2>6 DEF ReadableConns
  <2> HIDE DEF s
  <2>8. RequestOK(NextConnector(p))
    BY <1>0, <2>1, <2>4, NextConnectorOK
  <2>9. RequestOK(NextConnector(s))
    BY <1>0, <2>1, <2>6, <2>7, NextConnectorOK
  <2> QED
    BY <2>3, <2>8, <2>9
<1>12. CASE Respond
  <2>1. req' = NoRequest
    BY <1>12 DEF Respond
  <2> QED
    BY <2>1, NoRequestOK
       DEF RequestOK, NoRequest, Building, ReadableConns, ReadableStates
<1> QED
  BY <1>5, <1>6, <1>7, <1>8, <1>9, <1>10, <1>11, <1>12 DEF Serve

LEMMA ServeAnswerOK ==
    ASSUME Inv5, ApiInv, Serve
    PROVE  AnswerOK'
<1>0. /\ req \in Requests /\ RequestOK(req) /\ AnswerOK
      /\ failures \in Nat /\ req.before \in Nat /\ ReadFailures \in Nat
  BY ReadFailuresAssumption DEF ApiInv, RequestOK, AnswerOK, Requests
<1>1. ASSUME NEW q \in Requests, q.before = req.before, answer' = answer,
             Reads \/ Fails,
             req' = q \/ (\E code : req' = Done(q, code)) \/ req' = NextCharger(q)
                \/ req' = NextConnector(q)
      PROVE  AnswerOK'
  <2>1. req'.before = req.before
    BY <1>1, KeepsSame DEF Same
  <2>2. failures' \in 0..ReadFailures /\ failures =< failures'
    BY <1>0, <1>1 DEF Reads, Fails, AnswerOK
  <2> QED
    BY <1>0, <1>1, <2>1, <2>2 DEF AnswerOK
<1>2. CASE GetChargers \/ \E c \in Chargers : GetCharger(c)
  <2>1. req'.before = failures /\ UNCHANGED <<failures, answer>>
    BY <1>2, NoRequestOK DEF GetChargers, GetCharger, Serving, Requests
  <2> QED
    BY <1>0, <2>1 DEF AnswerOK
<1>3. CASE IsMember
  <2>1. [req EXCEPT !.pc = "info"] \in Requests
        /\ [req EXCEPT !.pc = "info"].before = req.before
    <3>1. "info" \in PCsOf
      BY RequestPCs
    <3>2. [req EXCEPT !.pc = "info"] \in Requests
      BY <1>0, <3>1, RequestGoes
    <3> QED
      BY <1>0, <3>2 DEF Requests
  <2>2. answer' = answer /\ (Reads \/ Fails)
        /\ (req' = Done(req, 404) \/ req' = [req EXCEPT !.pc = "info"])
    BY <1>3 DEF IsMember, Serving
  <2> QED
    BY <1>0, <1>1, <2>1, <2>2
<1>4. CASE ListChargers
  <2> DEFINE p == [req EXCEPT !.rest = Listed]
  <2>1. p \in Requests /\ p.before = req.before
    BY <1>0 DEF Requests, Listed
  <2>2. answer' = answer /\ (Reads \/ Fails)
        /\ (req' = Done(req, 500) \/ req' = NextCharger(p))
    BY <1>4 DEF ListChargers, Serving
  <2> HIDE DEF p
  <2> QED
    BY <1>0, <1>1, <2>1, <2>2
<1>5. CASE ReadInfo
  <2> DEFINE p == [req EXCEPT !.pc = "connectors", !.info = InfoOf(req.charger)]
  <2>1. p \in Requests /\ p.before = req.before
    <3>1. InfoOf(req.charger) \in Infos
      BY <1>0, <1>5, ReadValues DEF ReadInfo, Serving, RequestOK, Building
    <3>2. "connectors" \in PCsOf
      BY RequestPCs
    <3> QED
      BY <1>0, <3>1, <3>2 DEF Requests
  <2>2. answer' = answer /\ (Reads \/ Fails)
        /\ (req' = p \/ req' = Done(req, 500) \/ req' = NextCharger(req))
    BY <1>5 DEF ReadInfo, Serving, InfoError
  <2> HIDE DEF p
  <2> QED
    BY <1>0, <1>1, <2>1, <2>2
<1>6. CASE ReadConnectors
  <2> DEFINE p == [req EXCEPT !.todo = ConnectorsOf(req.charger)]
  <2>1. p \in Requests /\ p.before = req.before
    BY <1>0 DEF Requests, ConnectorsOf
  <2>2. answer' = answer /\ (Reads \/ Fails)
        /\ (req' = NextConnector(req) \/ req' = NextConnector(p))
    BY <1>6 DEF ReadConnectors, Serving
  <2> HIDE DEF p
  <2> QED
    BY <1>0, <1>1, <2>1, <2>2
<1>7. CASE ReadConnector
  <2> DEFINE n == LeastOf(req.todo)
             p == [req EXCEPT !.todo = @ \ {n}]
             k == ConnectorState(p.charger, n)
             s == [p EXCEPT !.conns = @ \union {k}]
  <2>1. answer' = answer /\ (Reads \/ Fails)
        /\ (req' = NextConnector(s) \/ req' = NextConnector(p))
    BY <1>7 DEF ReadConnector, Serving, LeastOf
  <2>2. /\ req.charger \in Chargers /\ req.todo # {} /\ req.todo \in SUBSET Connectors
    BY <1>0, <1>7 DEF ReadConnector, Serving, RequestOK, Building, Requests
  <2>3. n \in Connectors
    BY <2>2, LeastIn
  <2> HIDE DEF n
  <2>4. p \in Requests /\ p.before = req.before /\ p.charger = req.charger
    BY <1>0 DEF Requests
  <2> HIDE DEF p
  <2>5. k \in ConnectorStates
    BY <2>2, <2>3, <2>4, ReadValues
  <2> HIDE DEF k
  <2>6. s \in Requests /\ s.before = req.before
    BY <2>4, <2>5 DEF Requests
  <2> HIDE DEF s
  <2> QED
    BY <1>1, <2>1, <2>4, <2>6
<1>8. CASE Respond
  <2>1. /\ answer' = [code |-> req.code, asked |-> req.asked, states |-> req.states,
                      failed |-> failures - req.before]
        /\ req' = NoRequest /\ failures' = failures
    BY <1>8 DEF Respond
  <2>2. failures - req.before \in 0..ReadFailures
    BY <1>0 DEF AnswerOK
  <2>3. answer' \in Answer
    BY <1>0, <2>1, <2>2 DEF Answer, Requests, Codes
  <2>4. ReadableStates(answer'.states)
    BY <1>0, <2>1 DEF RequestOK
  <2>5. NoRequest.before = 0
    BY DEF NoRequest
  <2> QED
    BY <1>0, <2>1, <2>3, <2>4, <2>5 DEF AnswerOK
<1> QED
  BY <1>2, <1>3, <1>4, <1>5, <1>6, <1>7, <1>8 DEF Serve

LEMMA ProcessorKeepsApi ==
    ASSUME Inv1, ApiInv, [Next]_vars, UNCHANGED api
    PROVE  ApiInv'
<1>1. Listed \subseteq Listed' /\ \A c \in Chargers : ConnectorsOf(c) \subseteq ConnectorsOf(c)'
  BY ListedKept
<1>2. UNCHANGED <<req, answer, failures>>
  BY DEF api
<1>3. req.todo \subseteq ConnectorsOf(req.charger)'
  <2>1. req.todo \subseteq ConnectorsOf(req.charger)
    BY DEF ApiInv, RequestOK
  <2>2. CASE req.todo = {}
    BY <2>2
  <2>3. CASE req.todo # {}
    <3>1. req.charger \in Chargers
      BY <2>3 DEF ApiInv, RequestOK, Building
    <3> QED
      BY <1>1, <1>2, <2>1, <3>1
  <2> QED
    BY <2>2, <2>3
<1> QED
  BY <1>1, <1>2, <1>3 DEF ApiInv, RequestOK, AnswerOK

LEMMA ApiInvAlways == ApiSpec => [](Inv5 /\ ApiInv)
<1>1. ApiInit => ApiInv
  <2> SUFFICES ASSUME ApiInit
               PROVE  ApiInv
    OBVIOUS
  <2>1. RequestOK(req)
    BY NoRequestOK
       DEF ApiInit, RequestOK, NoRequest, Building, ReadableConns, ReadableStates
  <2>2. AnswerOK
    BY ReadFailuresAssumption DEF ApiInit, AnswerOK, Answer, NoRequest, ReadableStates
  <2> QED
    BY <2>1, <2>2 DEF ApiInv
<1>2. Inv5 /\ ApiInv /\ [ApiNext]_apiVars => ApiInv'
  <2> SUFFICES ASSUME Inv5, ApiInv, [ApiNext]_apiVars
               PROVE  ApiInv'
    OBVIOUS
  <2>1. CASE Serve
    BY <2>1, ServeRequestOK, ServeAnswerOK DEF ApiInv
  <2>2. CASE ~Serve
    <3>1. Inv1 /\ [Next]_vars /\ UNCHANGED api
      BY <2>2 DEF ApiNext, apiVars, Inv5
    <3> QED
      BY <3>1, ProcessorKeepsApi
  <2> QED
    BY <2>1, <2>2
<1> QED
  BY <1>1, <1>2, ProcessorInvariant, PTL DEF ApiSpec

\* The request and its answer keep their shape, and no connector is read when
\* none is left (ApiTypeOK).
THEOREM ApiTypeCorrect == ApiSpec => []ApiTypeOK
<1>1. ApiInv => ApiTypeOK
  <2> SUFFICES ASSUME ApiInv
               PROVE  ApiTypeOK
    OBVIOUS
  <2>1. req \in Requests /\ (req.pc = "conn" => req.todo # {})
    BY DEF ApiInv, RequestOK
  <2> QED
    BY <2>1 DEF ApiInv, AnswerOK, ApiTypeOK, Requests, PCsOf
<1> QED
  BY <1>1, ApiInvAlways, PTL

\* No answer shows a charger without last_seen or a connector without data
\* (AnswersAreReadable), though its reads are spread over many commands of the
\* state-processor, its faults and the API's own.
THEOREM AnswersReadable == ApiSpec => []AnswersAreReadable
<1>1. ApiInv => AnswersAreReadable
  BY DEF ApiInv, AnswerOK, AnswersAreReadable, ReadableStates, ReadableConns
<1> QED
  BY <1>1, ApiInvAlways, PTL

-----------------------------------------------------------------------------
(* What an answer leaves out                                               *)

ShownBy(S) == {s.charger : s \in S}
\* The chargers that a request can still come to show
Upcoming(q) == IF q.pc = "list" THEN q.asked
               ELSE IF q.pc \in Building \union {"member"} THEN q.rest \union {q.charger}
               ELSE {}
Missing(q)  == q.asked \ (ShownBy(q.states) \union Upcoming(q))
Few(S, n)   == IsFiniteSet(S) /\ Cardinality(S) =< n

\* No more chargers are missing than reads have failed, unless it answers 500;
\* a request for one charger asks for that one.
MissOK(q, f) ==
    /\ q.pc = "list" => q.all
    /\ q.pc = "member" => ~q.all
    /\ q.pc \in Building \union {"member"} /\ ~q.all => q.asked \subseteq {q.charger}
    /\ ~(q.pc = "done" /\ q.code = 500) => Few(Missing(q), f - q.before)
MissInv == MissOK(req, failures) /\ MissesOnlyFailures

LEMMA FewSubset ==
    ASSUME NEW S, NEW T \in SUBSET S, NEW n \in Nat, NEW m \in Nat, Few(S, n), n =< m
    PROVE  Few(T, m)
<1>1. IsFiniteSet(T) /\ Cardinality(T) =< Cardinality(S)
  BY FS_Subset DEF Few
<1>2. Cardinality(T) \in Nat /\ Cardinality(S) \in Nat
  BY <1>1, FS_CardinalityType DEF Few
<1> QED
  BY <1>1, <1>2 DEF Few

LEMMA FewMore ==
    ASSUME NEW S, NEW x, NEW T \in SUBSET (S \union {x}), NEW n \in Nat, Few(S, n)
    PROVE  Few(T, n + 1)
<1>1. /\ IsFiniteSet(S \union {x})
      /\ Cardinality(S \union {x}) \in {Cardinality(S), Cardinality(S) + 1}
  BY FS_AddElement DEF Few
<1>2. Cardinality(S) \in Nat
  BY FS_CardinalityType DEF Few
<1>3. Few(S \union {x}, n + 1)
  BY <1>1, <1>2 DEF Few
<1> QED
  BY <1>3, FewSubset

LEMMA FewNone == \A n \in Nat : Few({}, n)
BY FS_EmptySet DEF Few

LEMMA MissNextCharger ==
    ASSUME NEW q \in Requests
    PROVE  LET p == NextCharger(q) IN
           /\ p.all = q.all /\ p.before = q.before
           /\ p.pc \in {"done", "info"}
           /\ Missing(p) = q.asked \ (ShownBy(q.states) \union q.rest)
<1>1. CASE q.rest = {}
  <2>1. NextCharger(q) = Done(q, 200)
    BY <1>1 DEF NextCharger
  <2>2. /\ Done(q, 200).pc = "done" /\ Done(q, 200).states = q.states
        /\ Done(q, 200).asked = q.asked /\ Done(q, 200).all = q.all
        /\ Done(q, 200).before = q.before
    BY DEF Done, Requests
  <2> QED
    BY <1>1, <2>1, <2>2 DEF Missing, Upcoming, Building
<1>2. CASE q.rest # {}
  <2> DEFINE c == CHOOSE x \in q.rest : TRUE
             p == [q EXCEPT !.pc = "info", !.charger = c, !.rest = @ \ {c}, !.conns = {}]
  <2>1. NextCharger(q) = p
    BY <1>2 DEF NextCharger
  <2>2. c \in q.rest
    BY <1>2
  <2> HIDE DEF c
  <2>3. /\ p.pc = "info" /\ p.charger = c /\ p.rest = q.rest \ {c} /\ p.asked = q.asked
        /\ p.states = q.states /\ p.all = q.all /\ p.before = q.before
    BY DEF Requests
  <2> HIDE DEF p
  <2>4. Upcoming(p) = q.rest
    BY <2>2, <2>3 DEF Upcoming, Building
  <2> QED
    BY <2>1, <2>3, <2>4 DEF Missing
<1> QED
  BY <1>1, <1>2

LEMMA MissDone ==
    ASSUME NEW q \in Requests, NEW code
    PROVE  LET p == Done(q, code) IN
           /\ p.pc = "done" /\ p.all = q.all /\ p.before = q.before /\ p.code = code
           /\ Missing(p) = q.asked \ ShownBy(q.states)
<1> DEFINE p == Done(q, code)
<1>1. /\ p.pc = "done" /\ p.states = q.states /\ p.asked = q.asked /\ p.all = q.all
      /\ p.before = q.before /\ p.code = code
  BY DEF Done, Requests
<1> HIDE DEF p
<1>2. Upcoming(p) = {}
  BY <1>1 DEF Upcoming, Building
<1> QED
  BY <1>1, <1>2 DEF Missing, p

\* What follows the connectors of a charger misses nothing more.
LEMMA MissNextConnector ==
    ASSUME NEW q \in Requests, q.pc \in Building, q.charger \in Chargers,
           NEW f \in Nat, NEW g \in Nat, q.before =< f, f =< g, MissOK(q, f)
    PROVE  MissOK(NextConnector(q), g)
<1>0. /\ q.before \in Nat /\ f - q.before \in Nat /\ g - q.before \in Nat
      /\ f - q.before =< g - q.before
  BY DEF Requests
<1>1. q.pc # "done" /\ q.pc # "list" /\ Few(Missing(q), f - q.before)
      /\ Missing(q) = q.asked \ (ShownBy(q.states) \union q.rest \union {q.charger})
  BY DEF MissOK, Building, Missing, Upcoming
<1>2. CASE q.todo # {}
  <2> DEFINE p == [q EXCEPT !.pc = "conn"]
  <2>1. NextConnector(q) = p
    BY <1>2 DEF NextConnector
  <2>2. /\ p.pc = "conn" /\ p.charger = q.charger /\ p.rest = q.rest /\ p.asked = q.asked
        /\ p.states = q.states /\ p.all = q.all /\ p.before = q.before
    BY DEF Requests
  <2> HIDE DEF p
  <2>3. Missing(p) = Missing(q)
    BY <1>1, <2>2 DEF Missing, Upcoming, Building
  <2>4. Few(Missing(p), g - p.before)
    BY <1>0, <1>1, <2>2, <2>3, FewSubset
  <2>5. ~p.all => p.asked \subseteq {p.charger}
    BY <2>2 DEF MissOK
  <2> QED
    BY <2>1, <2>2, <2>4, <2>5 DEF MissOK
<1>3. CASE q.todo = {}
  <2> DEFINE s == [charger |-> q.charger, info |-> q.info, conns |-> q.conns]
             p == [q EXCEPT !.states = @ \union {s}]
  <2>1. NextConnector(q) = IF q.all THEN NextCharger(p) ELSE Done(p, 200)
    BY <1>3 DEF NextConnector, Built
  <2>2. /\ p \in Requests /\ p.rest = q.rest /\ p.asked = q.asked /\ p.all = q.all
        /\ p.states = q.states \union {s} /\ p.before = q.before
    <3>1. s \in States
      BY DEF Requests, States
    <3> QED
      BY <3>1 DEF Requests
  <2>6. s.charger = q.charger
    OBVIOUS
  <2> HIDE DEF p, s
  <2>3. ShownBy(p.states) = ShownBy(q.states) \union {q.charger}
    BY <2>2, <2>6 DEF ShownBy
  <2>4. CASE q.all
    <3> DEFINE t == NextCharger(p)
    <3>1. /\ t.all = q.all /\ t.before = q.before /\ t.pc \in {"done", "info"}
          /\ Missing(t) = Missing(q)
      BY <1>1, <2>2, <2>3, MissNextCharger
    <3> HIDE DEF t
    <3>2. Few(Missing(t), g - t.before)
      BY <1>0, <1>1, <3>1, FewSubset
    <3>3. MissOK(t, g)
      BY <2>4, <3>1, <3>2 DEF MissOK
    <3> QED
      BY <2>1, <2>4, <3>3 DEF t
  <2>5. CASE ~q.all
    <3> DEFINE t == Done(p, 200)
    <3>0. /\ t.pc = "done" /\ t.before = p.before
          /\ Missing(t) = p.asked \ ShownBy(p.states)
      <4>1. p \in Requests
        BY <2>2
      <4> QED
        BY <4>1, MissDone
    <3>1. /\ t.pc = "done" /\ t.before = q.before
          /\ Missing(t) = q.asked \ (ShownBy(q.states) \union {q.charger})
      BY <2>2, <2>3, <3>0
    <3> HIDE DEF t
    <3>2. q.asked \subseteq {q.charger}
      BY <2>5 DEF MissOK
    <3>3. Few(Missing(t), g - t.before)
      BY <1>0, <3>1, <3>2, FewNone
    <3>4. MissOK(t, g)
      BY <3>1, <3>3 DEF MissOK, Building
    <3> QED
      BY <2>1, <2>5, <3>4 DEF t
  <2> QED
    BY <2>4, <2>5
<1> QED
  BY <1>2, <1>3

LEMMA ServeMisses ==
    ASSUME Inv5, ApiInv, MissInv, Serve
    PROVE  MissInv'
<1> DEFINE q == req
<1>a. q \in Requests /\ RequestOK(q) /\ MissOK(q, failures)
  BY DEF ApiInv, RequestOK, MissInv
<1>b. failures \in Nat /\ q.before \in Nat
  BY <1>a, ReadFailuresAssumption DEF ApiInv, AnswerOK, Requests
<1>c. q.before =< failures /\ q.asked \subseteq Listed
  BY <1>a DEF RequestOK, ApiInv, AnswerOK
<1>d. failures - q.before \in Nat /\ (failures + 1) - q.before = (failures - q.before) + 1
  BY <1>b, <1>c
<1>0. /\ q \in Requests /\ RequestOK(q) /\ MissOK(q, failures)
      /\ failures \in Nat /\ q.before \in Nat /\ q.before =< failures
      /\ failures - q.before \in Nat /\ (failures + 1) - q.before = (failures - q.before) + 1
      /\ q.asked \subseteq Listed
  BY <1>a, <1>b, <1>c, <1>d
<1>1. ASSUME MissOK(req', failures'), answer' = answer
      PROVE  MissInv'
  BY <1>1 DEF MissInv, MissesOnlyFailures
<1>2. ASSUME NEW c \in Chargers, GetCharger(c)
      PROVE  MissInv'
  <2>1. /\ req'.pc = "member" /\ req'.charger = c /\ req'.before = failures
        /\ req'.asked = Listed \intersect {c} /\ req'.rest = {} /\ req'.states = {}
        /\ failures' = failures /\ answer' = answer /\ ~req'.all
    BY <1>2, NoRequestOK DEF GetCharger, Serving, NoRequest, Requests
  <2>2. Missing(req') = {}
    BY <2>1 DEF Missing, Upcoming
  <2>3. Few(Missing(req'), failures' - req'.before)
    BY <1>0, <2>1, <2>2, FewNone
  <2>4. MissOK(req', failures')
    BY <2>1, <2>3 DEF MissOK, Building
  <2> QED
    BY <1>1, <2>1, <2>4
<1>3. CASE GetChargers
  <2>1. /\ req'.pc = "list" /\ req'.all /\ req'.before = failures
        /\ failures' = failures /\ answer' = answer
    BY <1>3, NoRequestOK DEF GetChargers, Serving, NoRequest, Requests
  <2>2. Missing(req') = {}
    BY <2>1 DEF Missing, Upcoming
  <2>3. Few(Missing(req'), failures' - req'.before)
    BY <1>0, <2>1, <2>2, FewNone
  <2>4. MissOK(req', failures')
    BY <2>1, <2>3 DEF MissOK, Building
  <2> QED
    BY <1>1, <2>1, <2>4
<1>4. ASSUME q.pc = "member", q.charger \in Chargers
      PROVE  /\ Few(Missing(q), failures - q.before)
             /\ Missing(q) = q.asked \ (ShownBy(q.states) \union q.rest \union {q.charger})
  BY <1>0, <1>4 DEF MissOK, Missing, Upcoming
<1>5. CASE IsMember
  <2>1. q.pc = "member" /\ answer' = answer /\ q.charger \in Chargers
    BY <1>0, <1>5 DEF IsMember, Serving, RequestOK
  <2>2. CASE Reads /\ q.charger \in Listed /\ req' = [req EXCEPT !.pc = "info"]
    <3>1. req' = [req EXCEPT !.pc = "info"] /\ failures' = failures
      BY <2>2 DEF Reads
    <3>2. /\ req'.pc = "info" /\ req'.charger = q.charger /\ req'.rest = q.rest
          /\ req'.asked = q.asked /\ req'.states = q.states /\ req'.all = q.all
          /\ req'.before = q.before
      BY <1>0, <3>1 DEF Requests
    <3>3. Missing(req') = Missing(q)
      BY <2>1, <3>2 DEF Missing, Upcoming, Building
    <3>4. MissOK(req', failures')
      BY <1>0, <1>4, <2>1, <3>1, <3>2, <3>3 DEF MissOK, Building
    <3> QED
      BY <1>1, <2>1, <3>4
  <2>3. CASE Reads /\ q.charger \notin Listed /\ req' = Done(req, 404)
    <3>1. req' = Done(req, 404) /\ failures' = failures
      BY <2>3 DEF Reads
    <3>2. /\ req'.pc = "done" /\ req'.before = q.before
          /\ Missing(req') = q.asked \ ShownBy(q.states)
      BY <1>0, <3>1, MissDone
    <3>3. Missing(req') = {}
      BY <1>0, <2>1, <2>3, <3>2 DEF MissOK
    <3>4. Few(Missing(req'), failures' - req'.before)
      <4>1. failures' - req'.before \in Nat
        BY <1>0, <3>1, <3>2
      <4> QED
        BY <3>3, <4>1, FewNone
    <3>5. MissOK(req', failures')
      BY <3>2, <3>4 DEF MissOK, Building
    <3> QED
      BY <1>1, <2>1, <3>5
  <2>4. CASE Fails /\ req' = Done(req, 404)
    <3>1. failures' = failures + 1
      BY <2>4 DEF Fails
    <3>2. /\ req'.pc = "done" /\ req'.before = q.before
          /\ Missing(req') = q.asked \ ShownBy(q.states)
      BY <1>0, <2>4, MissDone
    <3>3. Missing(req') \in SUBSET ({} \union {q.charger})
      BY <1>0, <2>1, <3>2 DEF MissOK
    <3>4. Few(Missing(req'), (failures - q.before) + 1)
      BY <1>0, <3>3, FewMore, FewNone
    <3>5. MissOK(req', failures')
      BY <1>0, <3>1, <3>2, <3>4 DEF MissOK, Building
    <3> QED
      BY <1>1, <2>1, <3>5
  <2> QED
    BY <1>5, <2>2, <2>3, <2>4 DEF IsMember
<1>6. CASE ListChargers
  <2> DEFINE p == [req EXCEPT !.rest = Listed]
  <2>1. q.pc = "list" /\ q.all /\ answer' = answer
    BY <1>0, <1>6 DEF ListChargers, Serving, MissOK
  <2>2. CASE Reads /\ req' = NextCharger(p)
    <3>1. p \in Requests /\ p.rest = Listed /\ p.asked = q.asked /\ p.all = q.all
          /\ p.before = q.before
      BY <1>0 DEF Requests, Listed
    <3> HIDE DEF p
    <3>2. /\ req'.all = q.all /\ req'.before = q.before /\ req'.pc \in {"done", "info"}
          /\ Missing(req') = p.asked \ (ShownBy(p.states) \union p.rest)
      BY <2>2, <3>1, MissNextCharger
    <3>3. Missing(req') = {}
      BY <1>0, <3>1, <3>2
    <3>4. Few(Missing(req'), failures' - req'.before)
      BY <1>0, <2>2, <3>2, <3>3, FewNone DEF Reads
    <3>5. MissOK(req', failures')
      BY <2>1, <3>2, <3>4 DEF MissOK
    <3> QED
      BY <1>1, <2>1, <3>5
  <2>3. CASE Fails /\ req' = Done(req, 500)
    <3>1. req'.pc = "done" /\ req'.code = 500
      BY <1>0, <2>3, MissDone
    <3>2. MissOK(req', failures')
      BY <3>1 DEF MissOK, Building
    <3> QED
      BY <1>1, <2>1, <3>2
  <2> QED
    BY <1>6, <2>2, <2>3 DEF ListChargers
<1>7. ASSUME q.pc \in Building
      PROVE  /\ q.charger \in Chargers /\ q.pc # "done"
             /\ Few(Missing(q), failures - q.before)
             /\ Missing(q) = q.asked \ (ShownBy(q.states) \union q.rest \union {q.charger})
             /\ ~q.all => q.asked \subseteq {q.charger}
  BY <1>0, <1>7 DEF RequestOK, MissOK, Missing, Upcoming, Building
<1>8. CASE ReadInfo
  <2>1. q.pc = "info" /\ q.pc \in Building /\ answer' = answer
    BY <1>8 DEF ReadInfo, Serving, Building
  <2>2. CASE Reads /\ req' = [req EXCEPT !.pc = "connectors", !.info = InfoOf(req.charger)]
    <3>1. /\ req'.pc = "connectors" /\ req'.charger = q.charger /\ req'.rest = q.rest
          /\ req'.asked = q.asked /\ req'.states = q.states /\ req'.all = q.all
          /\ req'.before = q.before
      BY <1>0, <2>2 DEF Requests
    <3>2. Missing(req') = Missing(q)
      BY <1>7, <2>1, <3>1 DEF Missing, Upcoming, Building
    <3>3. MissOK(req', failures')
      BY <1>7, <2>1, <2>2, <3>1, <3>2 DEF MissOK, Building, Reads
    <3> QED
      BY <1>1, <2>1, <3>3
  <2>3. CASE Fails /\ q.all /\ req' = NextCharger(q)
    <3>1. failures' = failures + 1
      BY <2>3 DEF Fails
    <3>2. /\ req'.all = q.all /\ req'.before = q.before /\ req'.pc \in {"done", "info"}
          /\ Missing(req') = q.asked \ (ShownBy(q.states) \union q.rest)
      BY <1>0, <2>3, MissNextCharger
    <3>3. Missing(req') \in SUBSET (Missing(q) \union {q.charger})
      BY <1>7, <2>1, <3>2
    <3>4. Few(Missing(req'), (failures - q.before) + 1)
      BY <1>0, <1>7, <2>1, <3>3, FewMore
    <3>5. MissOK(req', failures')
      BY <1>0, <2>3, <3>1, <3>2, <3>4 DEF MissOK
    <3> QED
      BY <1>1, <2>1, <3>5
  <2>4. CASE Fails /\ req' = Done(q, 500)
    <3>1. req'.pc = "done" /\ req'.code = 500
      BY <1>0, <2>4, MissDone
    <3>2. MissOK(req', failures')
      BY <3>1 DEF MissOK, Building
    <3> QED
      BY <1>1, <2>1, <3>2
  <2> QED
    BY <1>8, <2>2, <2>3, <2>4 DEF ReadInfo, InfoError
<1>9. ASSUME NEW s \in Requests, q.pc \in Building, s.pc = q.pc, s.charger = q.charger,
             s.rest = q.rest, s.asked = q.asked, s.states = q.states, s.all = q.all,
             s.before = q.before, req' = NextConnector(s), answer' = answer,
             Reads \/ Fails
      PROVE  MissInv'
  <2>1. failures' \in Nat /\ failures =< failures'
    BY <1>0, <1>9 DEF Reads, Fails
  <2>2. Missing(s) = Missing(q)
    BY <1>9 DEF Missing, Upcoming
  <2>3. MissOK(s, failures)
    BY <1>0, <1>9, <2>2, <1>7 DEF MissOK
  <2>4. MissOK(NextConnector(s), failures')
    BY <1>0, <1>7, <1>9, <2>1, <2>3, MissNextConnector
  <2> QED
    BY <1>1, <1>9, <2>4
<1>10. CASE ReadConnectors
  <2> DEFINE p == [req EXCEPT !.todo = ConnectorsOf(req.charger)]
  <2>1. /\ q.pc \in Building /\ answer' = answer /\ (Reads \/ Fails)
        /\ (req' = NextConnector(q) \/ req' = NextConnector(p))
    BY <1>10 DEF ReadConnectors, Serving, Building
  <2>2. /\ p \in Requests /\ p.pc = q.pc /\ p.charger = q.charger /\ p.rest = q.rest
        /\ p.asked = q.asked /\ p.states = q.states /\ p.all = q.all /\ p.before = q.before
    BY <1>0 DEF Requests, ConnectorsOf
  <2> HIDE DEF p
  <2> QED
    BY <1>0, <1>9, <2>1, <2>2
<1>11. CASE ReadConnector
  <2> DEFINE n == LeastOf(req.todo)
             p == [req EXCEPT !.todo = @ \ {n}]
             k == ConnectorState(p.charger, n)
             s == [p EXCEPT !.conns = @ \union {k}]
  <2>1. /\ q.pc \in Building /\ answer' = answer /\ (Reads \/ Fails)
        /\ (req' = NextConnector(s) \/ req' = NextConnector(p))
    BY <1>11 DEF ReadConnector, Serving, LeastOf, Building
  <2>2. q.charger \in Chargers /\ q.todo # {} /\ q.todo \in SUBSET Connectors
    BY <1>0, <1>11 DEF ReadConnector, Serving, RequestOK, Building, Requests
  <2>3. n \in Connectors
    BY <2>2, LeastIn
  <2> HIDE DEF n
  <2>4. /\ p \in Requests /\ p.pc = q.pc /\ p.charger = q.charger /\ p.rest = q.rest
        /\ p.asked = q.asked /\ p.states = q.states /\ p.all = q.all /\ p.before = q.before
    BY <1>0 DEF Requests
  <2> HIDE DEF p
  <2>5. k \in ConnectorStates
    BY <2>2, <2>3, <2>4, ReadValues
  <2> HIDE DEF k
  <2>6. /\ s \in Requests /\ s.pc = q.pc /\ s.charger = q.charger /\ s.rest = q.rest
        /\ s.asked = q.asked /\ s.states = q.states /\ s.all = q.all /\ s.before = q.before
    BY <2>4, <2>5 DEF Requests
  <2> HIDE DEF s
  <2> QED
    BY <1>9, <2>1, <2>4, <2>6
<1>12. CASE Respond
  <2>1. /\ q.pc = "done" /\ req' = NoRequest /\ failures' = failures
        /\ answer' = [code |-> q.code, asked |-> q.asked, states |-> q.states,
                      failed |-> failures - q.before]
    BY <1>12 DEF Respond
  <2>2. q.code # 500 => Few(q.asked \ ShownBy(q.states), failures - q.before)
    <3>1. Missing(q) = q.asked \ ShownBy(q.states)
      BY <2>1 DEF Missing, Upcoming, Building
    <3> QED
      BY <1>0, <2>1, <3>1 DEF MissOK
  <2>3. MissesOnlyFailures'
    BY <2>1, <2>2 DEF MissesOnlyFailures, Few, ShownBy
  <2>4. MissOK(req', failures')
    <3>1. /\ NoRequest.pc = "idle" /\ NoRequest.asked = {} /\ NoRequest.before = 0
      BY DEF NoRequest
    <3>2. Missing(NoRequest) = {}
      BY <3>1 DEF Missing
    <3>3. Few(Missing(NoRequest), failures - NoRequest.before)
      BY <1>0, <3>1, <3>2, FewNone
    <3> QED
      BY <2>1, <3>1, <3>3 DEF MissOK, Building
  <2> QED
    BY <2>3, <2>4 DEF MissInv
<1> QED
  BY <1>2, <1>3, <1>5, <1>6, <1>8, <1>10, <1>11, <1>12 DEF Serve

\* A read that fails costs an answer one charger at most, and an answer built
\* without failures shows every charger listed before (MissesOnlyFailures),
\* whatever is written meanwhile.
THEOREM OnlyFailuresMiss == ApiSpec => []MissesOnlyFailures
<1>1. ApiInit => MissInv
  <2> SUFFICES ASSUME ApiInit
               PROVE  MissInv
    OBVIOUS
  <2>1. /\ req.pc = "idle" /\ req.asked = {} /\ req.before = 0 /\ failures = 0
        /\ answer.asked = {} /\ answer.failed = 0
    BY DEF ApiInit, NoRequest
  <2>2. Missing(req) = {} /\ answer.asked \ {s.charger : s \in answer.states} = {}
    BY <2>1 DEF Missing
  <2>3. Few(Missing(req), failures - req.before) /\ Cardinality({}) = 0
    BY <2>1, <2>2, FewNone, FS_EmptySet
  <2> QED
    BY <2>1, <2>2, <2>3 DEF MissInv, MissOK, MissesOnlyFailures, Building
<1>2. Inv5 /\ ApiInv /\ MissInv /\ [ApiNext]_apiVars => MissInv'
  <2> SUFFICES ASSUME Inv5, ApiInv, MissInv, [ApiNext]_apiVars
               PROVE  MissInv'
    OBVIOUS
  <2>1. CASE UNCHANGED api
    BY <2>1 DEF api, MissInv, MissesOnlyFailures
  <2> QED
    BY <2>1, ServeMisses DEF ApiNext, apiVars
<1>3. MissInv => MissesOnlyFailures
  BY DEF MissInv
<1> QED
  BY <1>1, <1>2, <1>3, ApiInvAlways, PTL DEF ApiSpec

-----------------------------------------------------------------------------
(* The status of a connector, from one answer to the next                  *)

Below(v, w) == v # None => w # None /\ Trunc(v.ts) =< Trunc(w.ts)
\* k, read of charger c, is behind Redis at most and not behind the last answer
Fresh(c, k) ==
    /\ Below(k.status, redis[<<"status", c, k.conn>>])
    /\ \A s \in answer.states : \A j \in s.conns :
          s.charger = c /\ j.conn = k.conn => Below(j.status, k.status)
Carried(q) ==
    /\ \A k \in q.conns : q.charger \in Chargers /\ Fresh(q.charger, k)
    /\ \A s \in q.states : \A k \in s.conns : Fresh(s.charger, k)

\* A charger is shown once, a connector of it once
Single(S) == \A j, k \in S : j.conn = k.conn => j = k
EachOnce(S) == /\ \A s, t \in S : s.charger = t.charger => s = t
               /\ \A s \in S : Single(s.conns)
Apart(q) == EachOnce(q.states) /\ \A s \in q.states : s.charger \notin q.rest
Distinct(q) ==
    /\ Apart(q) /\ Single(q.conns)
    /\ \A k \in q.conns : k.conn \notin q.todo
    /\ q.pc \in Building \union {"member"} => q.charger \notin q.rest \union {s.charger : s \in q.states}
    /\ q.pc \in {"member", "list", "info", "connectors"} => q.conns = {}
    /\ q.pc = "list" => q.states = {}

ShownBelow == \A s \in answer.states : \A k \in s.conns :
                  Below(k.status, redis[<<"status", s.charger, k.conn>>])
StatusInv == ShownBelow /\ EachOnce(answer.states) /\ Carried(req) /\ Distinct(req)

LEMMA BelowSelf == ASSUME NEW v \in Events \union {None} PROVE Below(v, v)
<1>1. v # None => Trunc(v.ts) \in Nat
  BY TruncDiv, EventsAssumption
<1> QED
  BY <1>1 DEF Below

LEMMA BelowOn ==
    ASSUME NEW u \in Events \union {None}, NEW v \in Events \union {None},
           NEW w \in Events \union {None}, Below(u, v), Below(v, w)
    PROVE  Below(u, w)
<1>1. CASE u = None
  BY <1>1 DEF Below
<1>2. CASE u # None
  <2>1. Trunc(u.ts) \in Nat /\ Trunc(v.ts) \in Nat /\ Trunc(w.ts) \in Nat
    BY <1>2, TruncDiv, EventsAssumption DEF Below
  <2> QED
    BY <1>2, <2>1 DEF Below
<1> QED
  BY <1>1, <1>2

\* No step of the state-processor takes a status back.
LEMMA StatusForward ==
    ASSUME Inv4, [Next]_vars, NEW c \in Chargers, NEW n \in Connectors
    PROVE  Below(redis[<<"status", c, n>>], redis[<<"status", c, n>>]')
<1> DEFINE s == <<"status", c, n>>
<1>0. s \in GuardedSlots /\ s \in Slots /\ redis[s] \in Events \union {None}
  BY DEF GuardedSlots, Slots, Fields, Inv4, Inv2, Inv1, TypeOK
<1>1. CASE redis'[s] = redis[s]
  BY <1>0, <1>1, BelowSelf
<1>2. ASSUME NEW r \in Readers, PipeStep(r)
      PROVE  redis'[s] = redis[s] \/ Below(redis[s], redis'[s])
  <2>1. work[r].ev \in Events
    BY <1>2, AtCommand DEF Inv4, Inv2, PipeStep, At
  <2>2. \/ redis'[s] = redis[s]
        \/ /\ redis'[s] = work[r].ev
           /\ redis[s] # None => Trunc(redis[s].ts) =< Trunc(work[r].ev.ts)
    BY <1>0, <1>2, PipeStepForward DEF Inv4
  <2> QED
    BY <2>1, <2>2, NoneAssumption DEF Below
<1>3. ASSUME NEW r \in Readers, Advance(r) \/ Fault(r), ~PipeStep(r)
      PROVE  redis'[s] = redis[s]
  BY <1>3, OtherStepsRecord DEF Inv4
<1>4. CASE Environment
  <2>1. ASSUME NEW d \in Chargers, TxExpires(d)
        PROVE  redis'[s] = redis[s]
    BY <1>0, <2>1 DEF TxExpires, Apply, Cmd
  <2> QED
    BY <1>1, <1>4, <2>1 DEF Environment, Produce, Crash, Rebalance, DedupExpires
<1>5. CASE UNCHANGED vars
  BY <1>1, <1>5 DEF vars
<1> QED
  BY <1>1, <1>2, <1>3, <1>4, <1>5 DEF Next

LEMMA GuardInvariant ==
    ASSUME OneInstance, NoFailedReads
    PROVE  ApiSpec => []Inv4
<1>1. [ApiNext]_apiVars => [Next]_vars
  BY DEF ApiNext, apiVars, Serve, GetCharger, GetChargers, IsMember, ListChargers,
         ReadInfo, ReadConnectors, ReadConnector, Respond, Serving
<1> QED
  BY <1>1, Inv4Init, Inv4Step, PTL DEF ApiSpec, ApiInit

-----------------------------------------------------------------------------
LEMMA DoneStatus ==
    ASSUME NEW q \in Requests, NEW code, Carried(q), Apart(q), Single(q.conns),
           \A k \in q.conns : k.conn \notin q.todo
    PROVE  Carried(Done(q, code)) /\ Distinct(Done(q, code))
<1> DEFINE p == Done(q, code)
<1>1. /\ p.pc = "done" /\ p.states = q.states /\ p.conns = q.conns /\ p.rest = q.rest
      /\ p.charger = q.charger /\ p.todo = q.todo
  BY DEF Done, Requests
<1> HIDE DEF p
<1>2. Carried(p)
  BY <1>1 DEF Carried
<1>3. Distinct(p)
  BY <1>1 DEF Distinct, Apart, Building
<1> QED
  BY <1>2, <1>3 DEF p

LEMMA NextChargerStatus ==
    ASSUME NEW q \in Requests, Carried(q), Apart(q), Single(q.conns),
           \A k \in q.conns : k.conn \notin q.todo
    PROVE  Carried(NextCharger(q)) /\ Distinct(NextCharger(q))
<1>1. CASE q.rest = {}
  BY <1>1, DoneStatus DEF NextCharger
<1>2. CASE q.rest # {}
  <2> DEFINE c == CHOOSE x \in q.rest : TRUE
             p == [q EXCEPT !.pc = "info", !.charger = c, !.rest = @ \ {c}, !.conns = {}]
  <2>1. NextCharger(q) = p
    BY <1>2 DEF NextCharger
  <2>2. c \in q.rest
    BY <1>2
  <2> HIDE DEF c
  <2>3. /\ p.pc = "info" /\ p.charger = c /\ p.rest = q.rest \ {c} /\ p.conns = {}
        /\ p.states = q.states
    BY DEF Requests
  <2> HIDE DEF p
  <2>4. Carried(p)
    BY <2>3 DEF Carried
  <2>5. Distinct(p)
    BY <2>2, <2>3 DEF Distinct, Apart, Single, Building
  <2> QED
    BY <2>1, <2>4, <2>5
<1> QED
  BY <1>1, <1>2

LEMMA NextConnectorStatus ==
    ASSUME NEW q \in Requests, Carried(q), Apart(q), Single(q.conns), q.pc \in Building,
           q.charger \in Chargers, \A k \in q.conns : k.conn \notin q.todo,
           q.charger \notin q.rest \union {s.charger : s \in q.states}
    PROVE  Carried(NextConnector(q)) /\ Distinct(NextConnector(q))
<1>1. CASE q.todo # {}
  <2> DEFINE p == [q EXCEPT !.pc = "conn"]
  <2>1. NextConnector(q) = p
    BY <1>1 DEF NextConnector
  <2>2. /\ p.pc = "conn" /\ p.charger = q.charger /\ p.rest = q.rest /\ p.conns = q.conns
        /\ p.states = q.states /\ p.todo = q.todo
    BY DEF Requests
  <2> HIDE DEF p
  <2>3. Carried(p) /\ Distinct(p)
    BY <2>2 DEF Carried, Distinct, Apart
  <2> QED
    BY <2>1, <2>3
<1>2. CASE q.todo = {}
  <2> DEFINE s == [charger |-> q.charger, info |-> q.info, conns |-> q.conns]
             p == [q EXCEPT !.states = @ \union {s}]
  <2>1. NextConnector(q) = IF q.all THEN NextCharger(p) ELSE Done(p, 200)
    BY <1>2 DEF NextConnector, Built
  <2>2. /\ p \in Requests /\ p.rest = q.rest /\ p.conns = q.conns /\ p.todo = q.todo
        /\ p.states = q.states \union {s} /\ p.charger = q.charger
    <3>1. s \in States
      BY DEF Requests, States
    <3> QED
      BY <3>1 DEF Requests
  <2>3. s.charger = q.charger /\ s.conns = q.conns
    OBVIOUS
  <2> HIDE DEF p, s
  <2>4. Carried(p)
    BY <2>2, <2>3 DEF Carried
  <2>5. EachOnce(p.states)
    <3>1. \A t \in q.states : t.charger # s.charger
      BY <2>3
    <3> QED
      BY <2>2, <2>3, <3>1 DEF EachOnce, Apart
  <2>6. Apart(p)
    BY <2>2, <2>3, <2>5 DEF Apart
  <2> QED
    BY <2>1, <2>2, <2>4, <2>6, NextChargerStatus, DoneStatus
<1> QED
  BY <1>1, <1>2

-----------------------------------------------------------------------------
LEMMA ServeStatus ==
    ASSUME Inv5, ApiInv, StatusInv, Serve
    PROVE  StatusInv'
<1> DEFINE q == req
<1>0. /\ q \in Requests /\ RequestOK(q) /\ Carried(q) /\ Distinct(q)
      /\ q.pc \in Building \union {"member"} => q.charger \in Chargers
  BY DEF ApiInv, RequestOK, StatusInv
<1>1. ASSUME Carried(req'), Distinct(req'), UNCHANGED <<vars, answer>>
      PROVE  StatusInv'
  <2>1. redis' = redis /\ answer' = answer
    BY <1>1 DEF vars
  <2>2. Carried(req)'
    BY <1>1, <2>1 DEF Carried, Fresh
  <2>3. Distinct(req)'
    BY <1>1 DEF Distinct, Apart
  <2> QED
    BY <2>1, <2>2, <2>3 DEF StatusInv, ShownBelow
<1>2. ASSUME NEW c \in Chargers, GetCharger(c)
      PROVE  StatusInv'
  <2>1. /\ req'.pc = "member" /\ req'.charger = c /\ req'.rest = {} /\ req'.states = {}
        /\ req'.conns = {} /\ UNCHANGED <<vars, answer>>
    BY <1>2, NoRequestOK DEF GetCharger, Serving, NoRequest, Requests
  <2>2. Carried(req') /\ Distinct(req')
    BY <2>1 DEF Carried, Distinct, Apart, EachOnce, Single, Building
  <2> QED
    BY <1>1, <2>1, <2>2
<1>3. CASE GetChargers
  <2>1. /\ req'.pc = "list" /\ req'.rest = {} /\ req'.states = {}
        /\ req'.conns = {} /\ UNCHANGED <<vars, answer>>
    BY <1>3, NoRequestOK DEF GetChargers, Serving, NoRequest, Requests
  <2>2. Carried(req') /\ Distinct(req')
    BY <2>1 DEF Carried, Distinct, Apart, EachOnce, Single, Building
  <2> QED
    BY <1>1, <2>1, <2>2
<1>4. /\ Apart(q) /\ Single(q.conns) /\ \A k \in q.conns : k.conn \notin q.todo
  BY <1>0 DEF Distinct
<1>5. CASE IsMember
  <2>1. q.pc = "member" /\ UNCHANGED <<vars, answer>>
    BY <1>5 DEF IsMember, Serving
  <2>2. CASE req' = [req EXCEPT !.pc = "info"]
    <3>1. /\ req'.pc = "info" /\ req'.charger = q.charger /\ req'.rest = q.rest
          /\ req'.states = q.states /\ req'.conns = q.conns /\ req'.todo = q.todo
      BY <1>0, <2>2 DEF Requests
    <3>2. Carried(req')
      BY <1>0, <3>1 DEF Carried
    <3>3. Distinct(req')
      BY <1>0, <2>1, <3>1 DEF Distinct, Apart
    <3> QED
      BY <1>1, <2>1, <3>2, <3>3
  <2>3. CASE req' = Done(req, 404)
    BY <1>0, <1>1, <1>4, <2>1, <2>3, DoneStatus
  <2> QED
    BY <1>5, <2>2, <2>3 DEF IsMember
<1>6. CASE ListChargers
  <2> DEFINE p == [req EXCEPT !.rest = Listed]
  <2>1. q.pc = "list" /\ q.states = {} /\ q.conns = {} /\ UNCHANGED <<vars, answer>>
    BY <1>0, <1>6 DEF ListChargers, Serving, Distinct
  <2>2. CASE req' = NextCharger(p)
    <3>1. p \in Requests /\ p.states = {} /\ p.conns = {}
      BY <1>0, <2>1 DEF Requests, Listed
    <3> HIDE DEF p
    <3>2. Carried(p) /\ Apart(p) /\ Single(p.conns)
      BY <3>1 DEF Carried, Apart, EachOnce, Single
    <3> QED
      BY <1>1, <2>1, <2>2, <3>1, <3>2, NextChargerStatus
  <2>3. CASE req' = Done(req, 500)
    BY <1>0, <1>1, <1>4, <2>1, <2>3, DoneStatus
  <2> QED
    BY <1>6, <2>2, <2>3 DEF ListChargers
<1>7. CASE ReadInfo
  <2>1. q.pc = "info" /\ UNCHANGED <<vars, answer>>
    BY <1>7 DEF ReadInfo, Serving
  <2>2. CASE req' = [req EXCEPT !.pc = "connectors", !.info = InfoOf(req.charger)]
    <3>1. /\ req'.pc = "connectors" /\ req'.charger = q.charger /\ req'.rest = q.rest
          /\ req'.states = q.states /\ req'.conns = q.conns /\ req'.todo = q.todo
      BY <1>0, <2>2 DEF Requests
    <3>2. Carried(req')
      BY <1>0, <3>1 DEF Carried
    <3>3. Distinct(req')
      BY <1>0, <2>1, <3>1 DEF Distinct, Apart, Building
    <3> QED
      BY <1>1, <2>1, <3>2, <3>3
  <2>3. CASE req' = NextCharger(q)
    BY <1>0, <1>1, <1>4, <2>1, <2>3, NextChargerStatus
  <2>4. CASE req' = Done(q, 500)
    BY <1>0, <1>1, <1>4, <2>1, <2>4, DoneStatus
  <2> QED
    BY <1>7, <2>2, <2>3, <2>4 DEF ReadInfo, InfoError
<1>8. ASSUME q.pc \in Building
      PROVE  /\ q.charger \in Chargers
             /\ q.charger \notin q.rest \union {s.charger : s \in q.states}
  BY <1>0, <1>8 DEF Distinct
<1>9. CASE ReadConnectors
  <2> DEFINE p == [req EXCEPT !.todo = ConnectorsOf(req.charger)]
  <2>1. /\ q.pc \in Building /\ UNCHANGED <<vars, answer>> /\ q.conns = {}
        /\ (req' = NextConnector(q) \/ req' = NextConnector(p))
    BY <1>0, <1>9 DEF ReadConnectors, Serving, Building, Distinct
  <2>2. /\ p \in Requests /\ p.pc = q.pc /\ p.charger = q.charger /\ p.rest = q.rest
        /\ p.states = q.states /\ p.conns = {}
    BY <1>0, <2>1 DEF Requests, ConnectorsOf
  <2> HIDE DEF p
  <2>3. Carried(p) /\ Apart(p) /\ Single(p.conns)
    BY <1>0, <1>4, <2>2 DEF Carried, Apart, Single
  <2>4. Carried(NextConnector(p)) /\ Distinct(NextConnector(p))
    BY <1>8, <2>1, <2>2, <2>3, NextConnectorStatus
  <2>5. Carried(NextConnector(q)) /\ Distinct(NextConnector(q))
    BY <1>0, <1>4, <1>8, <2>1, NextConnectorStatus
  <2> QED
    BY <1>1, <2>1, <2>4, <2>5
<1>10. CASE ReadConnector
  <2> DEFINE n == LeastOf(req.todo)
             p == [req EXCEPT !.todo = @ \ {n}]
             k == ConnectorState(p.charger, n)
             s == [p EXCEPT !.conns = @ \union {k}]
  <2>1. /\ q.pc \in Building /\ UNCHANGED <<vars, answer>>
        /\ (req' = NextConnector(s) \/ req' = NextConnector(p))
    BY <1>10 DEF ReadConnector, Serving, LeastOf, Building
  <2>2. q.charger \in Chargers /\ q.todo # {} /\ q.todo \in SUBSET Connectors
    BY <1>0, <1>10 DEF ReadConnector, Serving, RequestOK, Building, Requests
  <2>3. n \in Connectors /\ n \in q.todo
    BY <2>2, LeastIn
  <2> HIDE DEF n
  <2>4. /\ p \in Requests /\ p.pc = q.pc /\ p.charger = q.charger /\ p.rest = q.rest
        /\ p.states = q.states /\ p.conns = q.conns /\ p.todo = q.todo \ {n}
    BY <1>0 DEF Requests
  <2> HIDE DEF p
  <2>5. /\ k \in ConnectorStates /\ k.conn = n
        /\ k.status = redis[<<"status", q.charger, n>>]
    BY <2>2, <2>3, <2>4, ReadValues DEF ConnectorState
  <2> HIDE DEF k
  <2>6. /\ s \in Requests /\ s.pc = q.pc /\ s.charger = q.charger /\ s.rest = q.rest
        /\ s.states = q.states /\ s.conns = q.conns \union {k} /\ s.todo = p.todo
    BY <2>4, <2>5 DEF Requests
  <2> HIDE DEF s
  <2>7. Carried(p) /\ Apart(p) /\ Single(p.conns) /\ \A j \in p.conns : j.conn \notin p.todo
    BY <1>0, <1>4, <2>4 DEF Carried, Apart
  <2>8. Fresh(q.charger, k)
    <3>1. redis[<<"status", q.charger, n>>] \in Events \union {None}
      BY <2>2, <2>3 DEF Inv5, Inv1, TypeOK, Slots, Fields
    <3>2. Below(k.status, redis[<<"status", q.charger, k.conn>>])
      BY <2>5, <3>1, BelowSelf
    <3> QED
      BY <2>5, <3>2 DEF Fresh, StatusInv, ShownBelow
  <2>9. Carried(s)
    BY <2>2, <2>4, <2>6, <2>7, <2>8 DEF Carried
  <2>10. Apart(s) /\ Single(s.conns) /\ \A j \in s.conns : j.conn \notin s.todo
    <3>1. \A j \in q.conns : j.conn # n
      BY <1>4, <2>3
    <3>2. Single(s.conns)
      BY <1>4, <2>5, <2>6, <3>1 DEF Single
    <3> QED
      BY <1>4, <2>4, <2>5, <2>6, <3>2 DEF Apart
  <2>11. Carried(NextConnector(p)) /\ Distinct(NextConnector(p))
    BY <1>8, <2>1, <2>4, <2>7, NextConnectorStatus
  <2>12. Carried(NextConnector(s)) /\ Distinct(NextConnector(s))
    BY <1>8, <2>1, <2>6, <2>9, <2>10, NextConnectorStatus
  <2> QED
    BY <1>1, <2>1, <2>11, <2>12
<1>11. CASE Respond
  <2>1. answer'.states = q.states /\ redis' = redis /\ req' = NoRequest
    BY <1>11 DEF Respond, vars
  <2>2. ShownBelow'
    BY <1>0, <2>1 DEF ShownBelow, Carried, Fresh
  <2>3. /\ NoRequest.pc = "idle" /\ NoRequest.states = {} /\ NoRequest.conns = {}
    BY DEF NoRequest
  <2>4. Carried(req)' /\ Distinct(req)'
    BY <2>1, <2>3 DEF Carried, Distinct, Apart, EachOnce, Single, Building
  <2>5. EachOnce(answer'.states)
    BY <1>4, <2>1 DEF Apart
  <2> QED
    BY <2>2, <2>4, <2>5 DEF StatusInv, EachOnce
<1> QED
  BY <1>2, <1>3, <1>5, <1>6, <1>7, <1>9, <1>10, <1>11 DEF Serve

LEMMA ProcessorStatus ==
    ASSUME Inv4, Inv5, ApiInv, StatusInv, [Next]_vars, UNCHANGED api
    PROVE  StatusInv'
<1>1. UNCHANGED <<req, answer>>
  BY DEF api
<1>2. ASSUME NEW c \in Chargers, NEW n \in Connectors, NEW v \in Events \union {None},
             Below(v, redis[<<"status", c, n>>])
      PROVE  Below(v, redis'[<<"status", c, n>>])
  <2>1. Inv2'
    BY Inv2Step DEF Inv4
  <2>2. /\ redis[<<"status", c, n>>] \in Events \union {None}
        /\ redis'[<<"status", c, n>>] \in Events \union {None}
    BY <2>1 DEF Inv4, Inv2, Inv1, TypeOK, Slots, Fields
  <2>3. Below(redis[<<"status", c, n>>], redis'[<<"status", c, n>>])
    BY StatusForward
  <2> QED
    BY <1>2, <2>2, <2>3, BelowOn
<1>3. req \in Requests /\ answer \in Answer
      /\ (req.pc \in Building \union {"member"} => req.charger \in Chargers)
  BY DEF ApiInv, RequestOK, AnswerOK
<1>4. ShownBelow'
  <2> SUFFICES ASSUME NEW s \in answer.states, NEW k \in s.conns
               PROVE  Below(k.status, redis'[<<"status", s.charger, k.conn>>])
    BY <1>1 DEF ShownBelow
  <2>1. s.charger \in Chargers /\ k.conn \in Connectors /\ k.status \in Events \union {None}
    BY <1>3 DEF Answer, States, ConnectorStates
  <2> QED
    BY <1>2, <2>1 DEF StatusInv, ShownBelow
<1>5. Carried(req)'
  <2>1. ASSUME NEW k \in req.conns, req.charger \in Chargers
        PROVE  Fresh(req.charger, k)'
    <3>1. k.conn \in Connectors /\ k.status \in Events \union {None}
      BY <1>3 DEF Requests, ConnectorStates
    <3> QED
      BY <1>1, <1>2, <2>1, <3>1 DEF StatusInv, Carried, Fresh
  <2>2. ASSUME NEW s \in req.states, NEW k \in s.conns
        PROVE  Fresh(s.charger, k)'
    <3>1. s.charger \in Chargers /\ k.conn \in Connectors /\ k.status \in Events \union {None}
      BY <1>3 DEF Requests, States, ConnectorStates
    <3> QED
      BY <1>1, <1>2, <3>1 DEF StatusInv, Carried, Fresh
  <2>3. req.conns # {} => req.charger \in Chargers
    BY DEF StatusInv, Carried
  <2> QED
    BY <1>1, <2>1, <2>2, <2>3 DEF Carried
<1>6. Distinct(req)' /\ EachOnce(answer.states)'
  BY <1>1 DEF StatusInv, Distinct, Apart, EachOnce, Single
<1> QED
  BY <1>4, <1>5, <1>6 DEF StatusInv

\* With one state-processor whose reads do not fail, no client is shown a
\* connector's status that goes back to an earlier second, or to none
\* (StatusNeverGoesBack), though the API reads every connector by itself and
\* may fail to: the status of a connector in Redis only goes forward, what a
\* request has read is between the last answer and Redis, and an answer shows
\* a connector once.
THEOREM StatusGoesForward ==
    ASSUME OneInstance, NoFailedReads
    PROVE  ApiSpec => StatusNeverGoesBack
<1>1. ApiInit => StatusInv
  <2> SUFFICES ASSUME ApiInit
               PROVE  StatusInv
    OBVIOUS
  <2>1. /\ req.pc = "idle" /\ req.states = {} /\ req.conns = {} /\ answer.states = {}
    BY DEF ApiInit, NoRequest
  <2> QED
    BY <2>1 DEF StatusInv, ShownBelow, EachOnce, Carried, Distinct, Apart, Single, Building
<1>2. Inv4 /\ Inv5 /\ ApiInv /\ StatusInv /\ [ApiNext]_apiVars => StatusInv'
  <2> SUFFICES ASSUME Inv4, Inv5, ApiInv, StatusInv, [ApiNext]_apiVars
               PROVE  StatusInv'
    OBVIOUS
  <2>1. CASE Serve
    BY <2>1, ServeStatus
  <2>2. CASE ~Serve
    <3>1. [Next]_vars /\ UNCHANGED api
      BY <2>2 DEF ApiNext, apiVars
    <3> QED
      BY <3>1, ProcessorStatus
  <2> QED
    BY <2>1, <2>2
<1>3. ApiInv /\ StatusInv /\ [ApiNext]_apiVars =>
         [\A c \in Chargers, n \in Connectors :
             \A old \in ShownStatus(answer, c, n), new \in ShownStatus(answer', c, n) :
                 old # None => new # None /\ Trunc(old.ts) <= Trunc(new.ts)]_apiVars
  <2> SUFFICES ASSUME ApiInv, StatusInv, [ApiNext]_apiVars,
                      NEW c \in Chargers, NEW n \in Connectors,
                      NEW old \in ShownStatus(answer, c, n),
                      NEW new \in ShownStatus(answer', c, n)
               PROVE  Below(old, new)
    BY DEF Below
  <2>1. PICK s \in answer.states : s.charger = c /\ \E j \in s.conns : j.conn = n /\ old = j.status
    BY DEF ShownStatus
  <2>2. PICK j \in s.conns : j.conn = n /\ old = j.status
    BY <2>1
  <2>3. PICK t \in answer'.states : t.charger = c /\ \E k \in t.conns : k.conn = n /\ new = k.status
    BY DEF ShownStatus
  <2>4. PICK k \in t.conns : k.conn = n /\ new = k.status
    BY <2>3
  <2>5. CASE Respond
    <3>1. answer'.states = req.states
      BY <2>5 DEF Respond
    <3>2. Fresh(t.charger, k)
      BY <3>1, <2>3, <2>4 DEF StatusInv, Carried
    <3> QED
      BY <2>1, <2>2, <2>3, <2>4, <3>2 DEF Fresh
  <2>6. CASE ~Respond
    <3>1. answer' = answer
      BY <2>6 DEF ApiNext, apiVars, api, Serve, GetCharger, GetChargers, IsMember,
             ListChargers, ReadInfo, ReadConnectors, ReadConnector, Serving
    <3>2. t = s
      BY <2>1, <2>3, <3>1 DEF StatusInv, EachOnce
    <3>3. k = j
      BY <2>2, <2>4, <3>2 DEF StatusInv, EachOnce, Single
    <3>4. old \in Events \union {None}
      BY <2>1, <2>2 DEF ApiInv, AnswerOK, Answer, States, ConnectorStates
    <3> QED
      BY <2>2, <2>4, <3>3, <3>4, BelowSelf
  <2> QED
    BY <2>5, <2>6
<1> QED
  BY <1>1, <1>2, <1>3, ApiInvAlways, GuardInvariant, PTL DEF ApiSpec, StatusNeverGoesBack
=============================================================================
