---------------------------- MODULE GatewayProofs ----------------------------
(***************************************************************************)
(* Proofs of properties of the gateway, for any connections, chargers,     *)
(* frames, partitions and budgets of faults.                               *)
(***************************************************************************)
EXTENDS GatewayProperties, TLAPS, FiniteSetTheorems

Busy == {"answer", "publish", "waiting"}

\* A handler at work is at a frame of its connection, and what it publishes has
\* a topic.
HandlersOK == \A c \in Conns :
    /\ h[c].pc \in Busy => h[c].k \in DOMAIN Script[c]
    /\ h[c].pc \in {"publish", "waiting"} => TopicOf(FrameOf(Event(c))) # ""

\* Writers are closed only on the way down.
ShutdownOK == stage = "down" \/ closed # {} => used["restart"] > 0

Inv1 == TypeOK /\ HandlersOK /\ ShutdownOK

LEMMA ScriptType == \A c \in Conns : /\ Script[c] \in Seq(Frames)
                                     /\ Len(Script[c]) \in Nat
                                     /\ DOMAIN Script[c] = 1..Len(Script[c])
BY ScriptAssumption

LEMMA TopicType == \A f : TopicOf(f) # "" => TopicOf(f) \in Topics
BY DEF TopicOf, Topics

LEMMA TpType == \A ev \in Events : TopicOf(FrameOf(ev)) # "" => TpOf(ev) \in TPs
BY TopicType, PartitionAssumption DEF Events, TpOf, TPs, Key

\* The event of a busy handler, and where it goes.
LEMMA EventType ==
    ASSUME Inv1, NEW c \in Conns, h[c].pc \in Busy
    PROVE  /\ Event(c) \in Events
           /\ h[c].pc \in {"publish", "waiting"} => TpOf(Event(c)) \in TPs
<1>1. h[c].k \in Nat \ {0}
  <2>1. h[c].k \in 1..Len(Script[c])
    BY ScriptType DEF Inv1, HandlersOK
  <2> QED
    BY <2>1, ScriptType
<1>2. Event(c) \in Events
  BY <1>1 DEF Event, Events
<1> QED
  BY <1>2, TpType DEF Inv1, HandlersOK

LEMMA SpendType ==
    ASSUME used \in [Kinds -> Nat], NEW k \in Kinds, Spend(k)
    PROVE  /\ used' \in [Kinds -> Nat] /\ used'[k] > 0
           /\ \A j \in Kinds : used'[j] >= used[j]
BY DEF Spend, Kinds

LEMMA InitInv1 == Init => Inv1
<1> SUFFICES ASSUME Init PROVE Inv1
  OBVIOUS
<1>1. TypeOK
  BY DEF Init, TypeOK, Handler, TPs, Topics
<1>2. HandlersOK /\ ShutdownOK
  BY DEF Init, HandlersOK, ShutdownOK, Busy
<1> QED
  BY <1>1, <1>2 DEF Inv1

\* What a step of one handler leaves alone, and what it has to see to.
LEMMA HandlerStep ==
    ASSUME Inv1, NEW c \in Conns, NEW new \in Handler,
           h' = [h EXCEPT ![c] = new],
           new.pc \in Busy => new.k \in DOMAIN Script[c],
           new.pc \in {"publish", "waiting"} => TopicOf(FrameOf(<<c, new.k>>)) # ""
    PROVE  h' \in [Conns -> Handler] /\ HandlersOK'
<1>1. /\ h' \in [Conns -> Handler] /\ h'[c] = new
      /\ \A d \in Conns : d # c => h'[d] = h[d]
  BY DEF Inv1, TypeOK
<1>2. ASSUME NEW d \in Conns
      PROVE  /\ h'[d].pc \in Busy => h'[d].k \in DOMAIN Script[d]
             /\ h'[d].pc \in {"publish", "waiting"} => TopicOf(FrameOf(<<d, h'[d].k>>)) # ""
  <2>1. CASE d = c
    BY <1>1, <2>1
  <2>2. CASE d # c
    BY <1>1, <2>2 DEF Inv1, HandlersOK, Event
  <2> QED
    BY <2>1, <2>2
<1>3. HandlersOK'
  BY <1>2 DEF HandlersOK, Event
<1> QED
  BY <1>1, <1>3

\* A step that only moves a handler on within its frame, or lets it go.
LEMMA GoToStep ==
    ASSUME Inv1, NEW c \in Conns, NEW pc, GoTo(c, pc),
           \/ pc \in {"reading", "closed"}
           \/ /\ pc \in {"publish", "waiting"} /\ h[c].pc \in Busy
              /\ TopicOf(FrameOf(Event(c))) # ""
    PROVE  h' \in [Conns -> Handler] /\ HandlersOK'
<1> DEFINE new == [h[c] EXCEPT !.pc = pc]
<1>1. h[c] \in Handler
  BY DEF Inv1, TypeOK
<1>2. new \in Handler /\ new.pc = pc /\ new.k = h[c].k
  BY <1>1 DEF Handler
<1>3. h' = [h EXCEPT ![c] = new]
  BY DEF GoTo, Inv1, TypeOK
<1>4. /\ new.pc \in Busy => new.k \in DOMAIN Script[c]
      /\ new.pc \in {"publish", "waiting"} => TopicOf(FrameOf(<<c, new.k>>)) # ""
  BY <1>2 DEF Busy, Inv1, HandlersOK, Event
<1> HIDE DEF new
<1> QED
  BY <1>2, <1>3, <1>4, HandlerStep

LEMMA MovedOn ==
    ASSUME Inv1, NEW c \in Conns, NEW pc, GoTo(c, pc)
    PROVE  /\ h'[c].pc = pc /\ h'[c].k = h[c].k /\ h'[c].tx = h[c].tx
           /\ \A d \in Conns : d # c => h'[d] = h[d]
<1>1. h' = [h EXCEPT ![c].pc = pc] /\ h \in [Conns -> Handler]
  BY DEF GoTo, Inv1, TypeOK
<1>2. h[c] \in Handler
  BY <1>1
<1> QED
  BY <1>1, <1>2 DEF Handler

\* What a step of a running process has to see to once its handlers are in
\* order: the types of what it wrote.
LEMMA ProcessStep ==
    ASSUME Inv1, h' \in [Conns -> Handler], HandlersOK', UNCHANGED process,
           lost' \subseteq Conns, replies' \in Seq(Reply),
           queue' \in [TPs -> Seq(Events)], log' \in [TPs -> Seq(Events)],
           used' \in [Kinds -> Nat], used'["restart"] >= used["restart"]
    PROVE  Inv1'
<1>1. UNCHANGED <<txCounter, life, closed, stage>>
  BY DEF process
<1>2. TypeOK'
  BY <1>1 DEF Inv1, TypeOK
<1>3. used["restart"] \in Nat /\ used'["restart"] \in Nat
  BY DEF Inv1, TypeOK, Kinds
<1>4. ShutdownOK'
  BY <1>1, <1>3 DEF Inv1, ShutdownOK
<1> QED
  BY <1>2, <1>4 DEF Inv1

LEMMA ReadInv1 ==
    ASSUME Inv1, NEW c \in Conns, Read(c)
    PROVE  Inv1'
<1> DEFINE k     == h[c].k + 1
           frame == Script[c][k]
           tx    == IF IsCall(frame) /\ frame.action = "StartTransaction" THEN NewTx ELSE 0
           new   == [pc |-> IF Answerable(frame) THEN "answer" ELSE "reading",
                     k |-> k, tx |-> tx]
<1>1. /\ h' = [h EXCEPT ![c] = new]
      /\ txCounter' = IF IsCall(frame) /\ frame.action = "StartTransaction"
                      THEN NewTx ELSE txCounter
      /\ k <= Len(Script[c])
      /\ UNCHANGED <<sockets, life, closed, stage, queue, log, used>>
  BY DEF Read, AfterRead
<1>2. k \in Nat /\ k \in DOMAIN Script[c]
  BY <1>1, ScriptType DEF Inv1, TypeOK, Handler
<1>3. NewTx \in Nat /\ tx \in Nat
  BY DEF NewTx, Inv1, TypeOK
<1>4. new \in Handler /\ new.k = k /\ new.pc \in {"answer", "reading"}
  BY <1>2, <1>3 DEF Handler
<1> HIDE DEF new
<1>5. h' \in [Conns -> Handler] /\ HandlersOK'
  BY <1>1, <1>2, <1>4, HandlerStep
<1>6. TypeOK' /\ ShutdownOK'
  BY <1>1, <1>3, <1>5 DEF TypeOK, ShutdownOK, sockets, Inv1
<1> QED
  BY <1>5, <1>6 DEF Inv1

LEMMA HandleInv1 ==
    ASSUME Inv1, NEW c \in Conns, Connect(c) \/ Handle(c) \/ HandleFault(c)
    PROVE  Inv1'
<1> USE DEF At
<1>1. CASE Connect(c)
  <2>1. h' \in [Conns -> Handler] /\ HandlersOK'
    BY <1>1, GoToStep DEF Connect
  <2> QED
    BY <1>1, <2>1 DEF Connect, Inv1, TypeOK, ShutdownOK, sockets, process
<1>2. CASE Read(c)
  BY <1>2, ReadInv1
<1>3. CASE ReadFails(c)
  <2>1. h' \in [Conns -> Handler] /\ HandlersOK'
    BY <1>3, GoToStep DEF ReadFails
  <2> QED
    BY <1>3, <2>1 DEF ReadFails, Inv1, TypeOK, ShutdownOK, sockets, process
<1>4. CASE Answer(c)
  <2>1. Event(c) \in Events /\ h[c] \in Handler
    BY <1>4, EventType DEF Answer, Busy, Inv1, TypeOK
  <2>2. replies' \in Seq(Reply)
    BY <1>4, <2>1 DEF Answer, Reply, Handler, Inv1, TypeOK
  <2>3. h' \in [Conns -> Handler] /\ HandlersOK'
    BY <1>4, GoToStep DEF Answer, AfterAnswer, Busy
  <2> QED
    BY <1>4, <2>2, <2>3 DEF Answer, Inv1, TypeOK, ShutdownOK, process
<1>5. CASE Enqueue(c)
  <2>1. Event(c) \in Events /\ TpOf(Event(c)) \in TPs
    BY <1>5, EventType DEF Enqueue, Busy
  <2>2. queue' \in [TPs -> Seq(Events)]
    BY <1>5, <2>1 DEF Enqueue, Inv1, TypeOK
  <2>3. h' \in [Conns -> Handler] /\ HandlersOK'
    BY <1>5, GoToStep DEF Enqueue, Busy, Inv1, HandlersOK
  <2> QED
    BY <1>5, <2>2, <2>3 DEF Enqueue, Inv1, TypeOK, ShutdownOK, sockets, process
<1>6. CASE Wake(c)
  <2>1. h' \in [Conns -> Handler] /\ HandlersOK'
    BY <1>6, GoToStep DEF Wake
  <2> QED
    BY <1>6, <2>1 DEF Wake, Inv1, TypeOK, ShutdownOK, sockets, process
<1>7. CASE Drop(c)
  <2>1. used' \in [Kinds -> Nat] /\ used'["restart"] >= used["restart"]
    BY <1>7, SpendType DEF Drop, Kinds, Inv1, TypeOK
  <2>2. HandlersOK'
    BY <1>7 DEF Drop, Inv1, HandlersOK, Event
  <2>3. /\ lost' \subseteq Conns
        /\ UNCHANGED <<h, process, replies, queue, log>>
    BY <1>7 DEF Drop, Inv1, TypeOK
  <2> QED
    BY <2>1, <2>2, <2>3, ProcessStep DEF Inv1, TypeOK
<1>8. CASE AnswerFails(c)
  <2>1. used' \in [Kinds -> Nat] /\ used'["restart"] >= used["restart"]
    BY <1>8, SpendType DEF AnswerFails, Kinds, Inv1, TypeOK
  <2>2. h' \in [Conns -> Handler] /\ HandlersOK'
    BY <1>8, GoToStep DEF AnswerFails, AfterFailedAnswer
  <2>3. UNCHANGED <<sockets, process, queue, log>>
    BY <1>8 DEF AnswerFails
  <2> QED
    BY <2>1, <2>2, <2>3, ProcessStep DEF sockets, Inv1, TypeOK
<1>9. CASE PublishFails(c)
  <2>1. used' \in [Kinds -> Nat] /\ used'["restart"] >= used["restart"]
    BY <1>9, SpendType DEF PublishFails, Kinds, Inv1, TypeOK
  <2>2. h' \in [Conns -> Handler] /\ HandlersOK'
    BY <1>9, GoToStep DEF PublishFails
  <2>3. UNCHANGED <<sockets, process, queue, log>>
    BY <1>9 DEF PublishFails
  <2> QED
    BY <2>1, <2>2, <2>3, ProcessStep DEF sockets, Inv1, TypeOK
<1>10. CASE Timeout(c)
  <2>1. used' \in [Kinds -> Nat] /\ used'["restart"] >= used["restart"]
    BY <1>10, SpendType DEF Timeout, Kinds, Inv1, TypeOK
  <2>2. h' \in [Conns -> Handler] /\ HandlersOK'
    BY <1>10, GoToStep DEF Timeout
  <2>3. UNCHANGED <<sockets, process, queue, log>>
    BY <1>10 DEF Timeout, LeftAtDeadline
  <2> QED
    BY <2>1, <2>2, <2>3, ProcessStep DEF sockets, Inv1, TypeOK
<1> QED
  BY <1>1, <1>2, <1>3, <1>4, <1>5, <1>6, <1>7, <1>8, <1>9, <1>10
     DEF Handle, HandleFault

LEMMA WriterInv1 ==
    ASSUME Inv1, NEW tp \in TPs, Deliver(tp) \/ DeliverTwice(tp) \/ GiveUp(tp)
    PROVE  Inv1'
<1>1. queue[tp] \in Seq(Events) /\ queue[tp] # <<>>
  BY DEF Deliver, DeliverTwice, GiveUp, Inv1, TypeOK
<1>2. Head(queue[tp]) \in Events /\ Tail(queue[tp]) \in Seq(Events)
  BY <1>1
<1>3. Write(tp) => log' \in [TPs -> Seq(Events)]
  BY <1>2 DEF Write, Inv1, TypeOK
<1>4. Dequeue(tp) => queue' \in [TPs -> Seq(Events)]
  BY <1>2 DEF Dequeue, Inv1, TypeOK
<1>5. used' \in [Kinds -> Nat] /\ used'["restart"] >= used["restart"]
  BY SpendType DEF Deliver, DeliverTwice, GiveUp, Kinds, Inv1, TypeOK
<1>6. log' \in [TPs -> Seq(Events)] /\ queue' \in [TPs -> Seq(Events)]
  BY <1>3, <1>4 DEF Deliver, DeliverTwice, GiveUp, Inv1, TypeOK
<1>7. UNCHANGED <<h, sockets, process>>
  BY DEF Deliver, DeliverTwice, GiveUp
<1>8. HandlersOK'
  BY <1>7 DEF Inv1, HandlersOK, Event
<1> QED
  BY <1>5, <1>6, <1>7, <1>8, ProcessStep DEF sockets, Inv1, TypeOK

LEMMA RestartInv1 ==
    ASSUME Inv1, Restart, used' \in [Kinds -> Nat]
    PROVE  Inv1'
<1>1. \A c \in Conns : h'[c] \in Handler /\ h'[c].pc \in {"new", "closed"}
  BY DEF Restart, At, Handler, Inv1, TypeOK
<1>2. h' \in [Conns -> Handler] /\ HandlersOK'
  BY <1>1 DEF Restart, HandlersOK, Busy
<1> QED
  BY <1>2 DEF Restart, Inv1, TypeOK, ShutdownOK, sockets

LEMMA NextInv1 == Inv1 /\ [Next]_vars => Inv1'
<1> SUFFICES ASSUME Inv1, [Next]_vars PROVE Inv1'
  OBVIOUS
<1>1. ASSUME NEW c \in Conns, Connect(c) \/ Handle(c) \/ HandleFault(c) PROVE Inv1'
  BY <1>1, HandleInv1
<1>2. ASSUME NEW tp \in TPs, Deliver(tp) \/ DeliverTwice(tp) \/ GiveUp(tp) PROVE Inv1'
  BY <1>2, WriterInv1
<1>3. CASE Crash
  BY <1>3, SpendType, RestartInv1 DEF Crash, Kinds, Inv1, TypeOK
<1>4. CASE Exit
  BY <1>4, RestartInv1 DEF Exit, Inv1, TypeOK
<1>5. CASE Quit
  <2>1. used' \in [Kinds -> Nat] /\ used'["restart"] > 0
    BY <1>5, SpendType DEF Quit, Kinds, Inv1, TypeOK
  <2> QED
    BY <1>5, <2>1 DEF Quit, Inv1, TypeOK, HandlersOK, Event, ShutdownOK, sockets
<1>6. ASSUME NEW t \in Topics, CloseWriter(t) PROVE Inv1'
  BY <1>6 DEF CloseWriter, Inv1, TypeOK, HandlersOK, Event, ShutdownOK, sockets
<1>7. CASE UNCHANGED vars
  BY <1>7 DEF vars, sockets, process, Inv1, TypeOK, HandlersOK, Event, ShutdownOK
<1> QED
  BY <1>1, <1>2, <1>3, <1>4, <1>5, <1>6, <1>7 DEF Next

LEMMA Invariance1 == Spec => []Inv1
<1> QED
  BY InitInv1, NextInv1, PTL DEF Spec

\* Every variable of the gateway keeps its type; in particular transaction ids
\* are positive, and only events with a topic are queued.
THEOREM TypeCorrect == Spec => []TypeOK
<1>1. Inv1 => TypeOK
  BY DEF Inv1
<1> QED
  BY Invariance1, <1>1, PTL

-----------------------------------------------------------------------------
(* Transaction ids                                                         *)

Pending(c) == At(c, "answer") /\ h[c].tx # 0

\* An id that the running process has given, or is about to give, is at most
\* txCounter, and no two of them are the same.
TxOK ==
    /\ \A i \in DOMAIN replies :
          /\ replies[i].life <= life
          /\ replies[i].life = life => replies[i].tx <= txCounter
    /\ \A c \in Conns : Pending(c) =>
          /\ h[c].tx <= txCounter
          /\ \A d \in Conns : d # c /\ Pending(d) => h[c].tx # h[d].tx
          /\ \A i \in DOMAIN replies :
                replies[i].life = life => replies[i].tx # h[c].tx

Inv2 == Inv1 /\ TxOK /\ TransactionIdsDistinct

\* A step that writes no reply and has no handler come to an answer.
LEMMA TxQuiet ==
    ASSUME Inv2, UNCHANGED <<replies, txCounter, life>>,
           \A c \in Conns : h'[c] = h[c] \/ h'[c].pc # "answer"
    PROVE  TxOK' /\ TransactionIdsDistinct'
BY DEF Inv2, TxOK, TransactionIdsDistinct, Pending, At

LEMMA ReplyType ==
    ASSUME Inv1, NEW i \in DOMAIN replies
    PROVE  replies[i].tx \in Nat /\ replies[i].life \in Nat
<1>1. replies[i] \in Reply
  BY DEF Inv1, TypeOK
<1> QED
  BY <1>1 DEF Reply

LEMMA HandlerType ==
    ASSUME Inv1, NEW c \in Conns
    PROVE  h[c].tx \in Nat /\ h[c].k \in Nat
BY DEF Inv1, TypeOK, Handler

\* The counter goes up before the id is used.
LEMMA TxRead ==
    ASSUME Inv2, NEW c \in Conns, Read(c)
    PROVE  TxOK' /\ TransactionIdsDistinct'
<1> DEFINE frame == Script[c][h[c].k + 1]
           start == IsCall(frame) /\ frame.action = "StartTransaction"
<1>1. /\ UNCHANGED <<replies, life>>
      /\ txCounter' = IF start THEN NewTx ELSE txCounter
      /\ h'[c].tx = IF start THEN NewTx ELSE 0
      /\ \A d \in Conns : d # c => h'[d] = h[d]
  BY DEF Read, AfterRead, sockets, Inv2, Inv1, TypeOK
<1>2. txCounter \in Nat /\ NewTx = txCounter + 1
  BY DEF NewTx, Inv2, Inv1, TypeOK
<1>3. /\ \A i \in DOMAIN replies : replies[i].tx \in Nat
      /\ \A d \in Conns : h[d].tx \in Nat
  BY ReplyType, HandlerType DEF Inv2
<1>4. TransactionIdsDistinct'
  BY <1>1 DEF Inv2, TransactionIdsDistinct
<1>5. ~start => h'[c].tx = 0 /\ txCounter' = txCounter
  BY <1>1
<1>6. start => h'[c].tx = txCounter + 1 /\ txCounter' = txCounter + 1
  BY <1>1, <1>2
<1> HIDE DEF start
<1>7. \A i \in DOMAIN replies' :
         /\ replies'[i].life <= life'
         /\ replies'[i].life = life' => replies'[i].tx <= txCounter'
  BY <1>1, <1>2, <1>3, <1>5, <1>6 DEF Inv2, TxOK
<1>8. ASSUME NEW d \in Conns, Pending(d)'
      PROVE  /\ h'[d].tx <= txCounter'
             /\ \A e \in Conns : e # d /\ Pending(e)' => h'[d].tx # h'[e].tx
             /\ \A i \in DOMAIN replies' :
                   replies'[i].life = life' => replies'[i].tx # h'[d].tx
  <2>1. \A e \in Conns \ {c} : Pending(e)' <=> Pending(e)
    BY <1>1 DEF Pending, At
  <2>2. \A e \in Conns \ {c} : Pending(e) => h[e].tx <= txCounter
    BY DEF Inv2, TxOK
  <2>3. CASE d = c
    <3>1. start
      BY <1>5, <1>8, <2>3 DEF Pending
    <3>2. h'[d].tx = txCounter + 1 /\ txCounter' = txCounter + 1
      BY <1>6, <2>3, <3>1
    <3>3. \A e \in Conns : e # d /\ Pending(e)' => h'[d].tx # h'[e].tx
      BY <1>1, <1>2, <1>3, <2>1, <2>2, <2>3, <3>2
    <3>4. \A i \in DOMAIN replies' : replies'[i].life = life' => replies'[i].tx # h'[d].tx
      BY <1>1, <1>2, <1>3, <3>2 DEF Inv2, TxOK
    <3> QED
      BY <1>2, <3>2, <3>3, <3>4
  <2>4. CASE d # c
    <3>1. Pending(d) /\ h'[d] = h[d]
      BY <1>1, <1>8, <2>1, <2>4
    <3>2. h'[d].tx <= txCounter'
      BY <1>2, <1>3, <1>5, <1>6, <2>2, <2>4, <3>1
    <3>3. \A e \in Conns : e # d /\ Pending(e)' => h'[d].tx # h'[e].tx
      <4>1. ASSUME NEW e \in Conns, e # d, Pending(e)' PROVE h'[d].tx # h'[e].tx
        <5>1. CASE e = c
          <6>1. start
            BY <1>5, <4>1, <5>1 DEF Pending
          <6> QED
            BY <1>2, <1>3, <1>6, <2>2, <2>4, <3>1, <5>1, <6>1
        <5>2. CASE e # c
          <6>1. Pending(e) /\ h'[e] = h[e]
            BY <1>1, <2>1, <4>1, <5>2
          <6> QED
            BY <3>1, <4>1, <6>1 DEF Inv2, TxOK
        <5> QED
          BY <5>1, <5>2
      <4> QED
        BY <4>1
    <3>4. \A i \in DOMAIN replies' : replies'[i].life = life' => replies'[i].tx # h'[d].tx
      BY <1>1, <3>1 DEF Inv2, TxOK
    <3> QED
      BY <3>2, <3>3, <3>4
  <2> QED
    BY <2>3, <2>4
<1>9. TxOK'
  BY <1>7, <1>8 DEF TxOK
<1> QED
  BY <1>4, <1>9

\* What is answered was not answered before, and nobody else is to answer it.
LEMMA TxAnswer ==
    ASSUME Inv2, NEW c \in Conns, Answer(c)
    PROVE  TxOK' /\ TransactionIdsDistinct'
<1> DEFINE new == [ev |-> Event(c), tx |-> h[c].tx, life |-> life]
<1>1. /\ replies' = Append(replies, new) /\ At(c, "answer")
      /\ txCounter' = txCounter /\ life' = life
  BY DEF Answer, process
<1>2. replies \in Seq(Reply) /\ Len(replies) \in Nat
  BY DEF Inv2, Inv1, TypeOK
<1>3. /\ DOMAIN replies' = DOMAIN replies \union {Len(replies) + 1}
      /\ \A i \in DOMAIN replies : replies'[i] = replies[i]
      /\ replies'[Len(replies) + 1] = new
      /\ Len(replies) + 1 \notin DOMAIN replies
  BY <1>1, <1>2
<1>4. h'[c].pc # "answer" /\ \A d \in Conns : d # c => h'[d] = h[d]
  <2>1. AfterAnswer(c) # "answer"
    BY DEF AfterAnswer
  <2> QED
    BY <2>1, MovedOn DEF Answer, Inv2
<1>5. \A d \in Conns : Pending(d)' => d # c /\ Pending(d) /\ h'[d] = h[d]
  BY <1>4 DEF Pending, At
<1>6. new.tx = h[c].tx /\ new.life = life /\ (new.tx # 0 => Pending(c))
  BY <1>1 DEF Pending
<1>7. txCounter \in Nat /\ life \in Nat /\ h[c].tx \in Nat
  BY HandlerType DEF Inv2, Inv1, TypeOK
<1>8. new.tx <= txCounter
  BY <1>6, <1>7 DEF Inv2, TxOK
<1>9. \A i \in DOMAIN replies : replies[i].life = life /\ replies[i].tx = new.tx => new.tx = 0
  BY <1>6 DEF Inv2, TxOK
<1> HIDE DEF new
<1>10. TransactionIdsDistinct'
  BY <1>3, <1>6, <1>9 DEF Inv2, TransactionIdsDistinct
<1>11. \A i \in DOMAIN replies' :
          /\ replies'[i].life <= life'
          /\ replies'[i].life = life' => replies'[i].tx <= txCounter'
  BY <1>1, <1>3, <1>6, <1>7, <1>8 DEF Inv2, TxOK
<1>12. \A d \in Conns : Pending(d)' =>
          /\ h'[d].tx <= txCounter'
          /\ \A e \in Conns : e # d /\ Pending(e)' => h'[d].tx # h'[e].tx
  BY <1>1, <1>5 DEF Inv2, TxOK
<1>13. \A d \in Conns : Pending(d) /\ d # c => new.tx # h[d].tx
  BY <1>6 DEF Inv2, TxOK, Pending
<1>14. \A d \in Conns : Pending(d)' =>
          \A i \in DOMAIN replies' : replies'[i].life = life' => replies'[i].tx # h'[d].tx
  BY <1>1, <1>3, <1>5, <1>13 DEF Inv2, TxOK
<1>15. TxOK'
  BY <1>11, <1>12, <1>14 DEF TxOK
<1> QED
  BY <1>10, <1>15

\* A new process starts from 0, with nothing to answer and no replies.
LEMMA TxRestart ==
    ASSUME Inv2, Restart
    PROVE  TxOK' /\ TransactionIdsDistinct'
<1>1. /\ UNCHANGED replies /\ life' = life + 1 /\ life \in Nat
      /\ \A c \in Conns : h'[c].pc # "answer"
  BY DEF Restart, sockets, At, Inv2, Inv1, TypeOK
<1>2. \A i \in DOMAIN replies : replies[i].life \in Nat /\ replies[i].life <= life
  BY ReplyType DEF Inv2, TxOK
<1>3. TransactionIdsDistinct'
  BY <1>1 DEF Inv2, TransactionIdsDistinct
<1>4. TxOK'
  BY <1>1, <1>2 DEF TxOK, Pending, At
<1> QED
  BY <1>3, <1>4

LEMMA NextInv2 == Inv2 /\ [Next]_vars => Inv2'
<1> SUFFICES ASSUME Inv2, [Next]_vars PROVE TxOK' /\ TransactionIdsDistinct'
  BY NextInv1 DEF Inv2
<1>1. ASSUME NEW c \in Conns, Connect(c) \/ Handle(c) \/ HandleFault(c)
      PROVE  TxOK' /\ TransactionIdsDistinct'
  <2>1. CASE Read(c)
    BY <2>1, TxRead
  <2>2. CASE Answer(c)
    BY <2>2, TxAnswer
  <2>3. CASE ~Read(c) /\ ~Answer(c)
    <3>1. UNCHANGED <<replies, txCounter, life>>
      <4>1. CASE Connect(c) \/ ReadFails(c) \/ Enqueue(c) \/ Wake(c)
        BY <4>1 DEF Connect, ReadFails, Enqueue, Wake, sockets, process
      <4>2. CASE Drop(c) \/ AnswerFails(c) \/ PublishFails(c) \/ Timeout(c)
        BY <4>2 DEF Drop, AnswerFails, PublishFails, Timeout, sockets, process
      <4> QED
        BY <1>1, <2>3, <4>1, <4>2 DEF Handle, HandleFault
    <3>2. \A d \in Conns : h'[d] = h[d] \/ h'[d].pc # "answer"
      <4>1. ASSUME NEW pc, pc # "answer", GoTo(c, pc)
            PROVE  \A d \in Conns : h'[d] = h[d] \/ h'[d].pc # "answer"
        BY <4>1, MovedOn DEF Inv2
      <4>2. CASE Connect(c) \/ ReadFails(c) \/ Enqueue(c) \/ Wake(c)
        BY <4>1, <4>2 DEF Connect, ReadFails, Enqueue, Wake
      <4>3. CASE AnswerFails(c) \/ PublishFails(c) \/ Timeout(c)
        BY <4>1, <4>3 DEF AnswerFails, AfterFailedAnswer, PublishFails, Timeout
      <4>4. CASE Drop(c)
        BY <4>4 DEF Drop
      <4> QED
        BY <1>1, <2>3, <4>2, <4>3, <4>4 DEF Handle, HandleFault
    <3> QED
      BY <3>1, <3>2, TxQuiet
  <2> QED
    BY <2>1, <2>2, <2>3
<1>2. ASSUME NEW tp \in TPs, Deliver(tp) \/ DeliverTwice(tp) \/ GiveUp(tp)
      PROVE  TxOK' /\ TransactionIdsDistinct'
  BY <1>2, TxQuiet DEF Deliver, DeliverTwice, GiveUp, sockets, process
<1>3. CASE Crash \/ Exit
  BY <1>3, TxRestart DEF Crash, Exit
<1>4. CASE Quit
  BY <1>4, TxQuiet DEF Quit, sockets
<1>5. ASSUME NEW t \in Topics, CloseWriter(t) PROVE TxOK' /\ TransactionIdsDistinct'
  BY <1>5, TxQuiet DEF CloseWriter, sockets
<1>6. CASE UNCHANGED vars
  BY <1>6, TxQuiet DEF vars, sockets, process
<1> QED
  BY <1>1, <1>2, <1>3, <1>4, <1>5, <1>6 DEF Next

\* No two StartTransactions that one process answers get the same id, on
\* whatever connections, CALLs that use up an id without an answer included
\* (main.go:204-209).
THEOREM IdsAreDistinct == Spec => []TransactionIdsDistinct
<1>1. Init => Inv2
  BY InitInv1 DEF Init, Inv2, TxOK, TransactionIdsDistinct, Pending, At
<1>2. Inv2 => TransactionIdsDistinct
  BY DEF Inv2
<1> QED
  BY <1>1, <1>2, NextInv2, PTL DEF Spec

-----------------------------------------------------------------------------
(* What was answered is kept                                               *)

AbandonedOK == used["restart"] = 0 => /\ IsFiniteSet(Abandoned)
                                      /\ Cardinality(Abandoned) =< used["publish"]
Inv3 == Inv1 /\ AbandonedOK

LEMMA InitInv3 == Init => Inv3
<1> SUFFICES ASSUME Init PROVE Inv3
  OBVIOUS
<1>1. Abandoned = {}
  BY DEF Init, Abandoned, Acknowledged
<1>2. used["publish"] = 0
  BY DEF Init, Kinds
<1> QED
  BY <1>1, <1>2, InitInv1, FS_EmptySet DEF Inv3, AbandonedOK

LEMMA AcknowledgedType ==
    ASSUME Inv1, NEW ev \in Acknowledged
    PROVE  ev \in Events /\ TpOf(ev) \in TPs /\ ev[1] \in Conns
<1>0. ev \in {replies[i].ev : i \in DOMAIN replies} /\ TopicOf(FrameOf(ev)) # ""
  BY DEF Acknowledged
<1> PICK i \in DOMAIN replies : ev = replies[i].ev
  BY <1>0
<1>1. replies[i] \in Reply
  BY DEF Inv1, TypeOK
<1>2. ev \in Events
  BY <1>1 DEF Reply
<1> QED
  BY <1>0, <1>2, TpType DEF Events

\* It is enough that an event stays where it is, or gets from a handler's hands
\* into the queue.
LEMMA KeptQuiet ==
    ASSUME UNCHANGED replies, NEW S,
           \A ev \in Acknowledged \ S :
              /\ Published(ev) => Published(ev)'
              /\ Publishing(ev) => Published(ev)' \/ Publishing(ev)'
    PROVE  Abandoned' \subseteq Abandoned \union S
<1>1. Acknowledged' = Acknowledged
  BY DEF Acknowledged
<1> QED
  BY <1>1 DEF Abandoned

\* A handler that is not about to publish holds no event.
LEMMA NotPublishing ==
    ASSUME Inv1, NEW c \in Conns, ~At(c, "publish"),
           \A d \in Conns : d # c => h'[d] = h[d],
           NEW ev, ev[1] \in Conns, Publishing(ev)
    PROVE  Publishing(ev)' /\ ev[1] # c
BY DEF Publishing, At, Event

LEMMA StillKept ==
    ASSUME UNCHANGED <<h, replies, queue, log>>
    PROVE  Abandoned' = Abandoned
BY DEF Abandoned, Acknowledged, Published, Publishing, InLog, Queued, At, Event

LEMMA TailKeeps ==
    ASSUME NEW s \in Seq(Events), s # <<>>
    PROVE  \A i \in DOMAIN s : i = 1 \/ \E j \in DOMAIN Tail(s) : Tail(s)[j] = s[i]
<1>1. ASSUME NEW i \in DOMAIN s, i # 1
      PROVE  i - 1 \in DOMAIN Tail(s) /\ Tail(s)[i - 1] = s[i]
  BY <1>1
<1> QED
  BY <1>1

\* A step of a handler that is not about to publish.
LEMMA KeptIdle ==
    ASSUME Inv1, NEW c \in Conns, ~At(c, "publish"),
           \A d \in Conns : d # c => h'[d] = h[d],
           UNCHANGED <<replies, queue, log>>
    PROVE  Abandoned' \subseteq Abandoned
<1>1. \A ev : Published(ev) => Published(ev)'
  BY DEF Published, InLog, Queued
<1>2. \A ev \in Acknowledged : Publishing(ev) => Publishing(ev)'
  BY AcknowledgedType, NotPublishing
<1>3. Abandoned' \subseteq Abandoned \union {}
  BY <1>1, <1>2, KeptQuiet
<1> QED
  BY <1>3

LEMMA KeptAnswer ==
    ASSUME Inv1, NEW c \in Conns, Answer(c)
    PROVE  Abandoned' \subseteq Abandoned
<1> DEFINE new == [ev |-> Event(c), tx |-> h[c].tx, life |-> life]
<1>1. replies' = Append(replies, new) /\ replies \in Seq(Reply)
  BY DEF Answer, Inv1, TypeOK
<1>2. DOMAIN replies' = DOMAIN replies \union {Len(replies) + 1}
      /\ (\A i \in DOMAIN replies : replies'[i] = replies[i])
      /\ replies'[Len(replies) + 1] = new
  BY <1>1
<1>3. /\ At(c, "answer") /\ h'[c].pc = AfterAnswer(c) /\ h'[c].k = h[c].k
      /\ \A d \in Conns : d # c => h'[d] = h[d]
  BY MovedOn DEF Answer
<1>4. ASSUME NEW ev \in Acknowledged', ev \notin Abandoned
      PROVE  (Published(ev) \/ Publishing(ev))'
  <2>1. PICK i \in DOMAIN replies' : ev = replies'[i].ev
    BY DEF Acknowledged
  <2>2. TopicOf(FrameOf(ev)) # ""
    BY DEF Acknowledged, FrameOf
  <2>3. CASE i \in DOMAIN replies
    <3>1. ev \in Acknowledged
      BY <1>2, <2>1, <2>2, <2>3 DEF Acknowledged
    <3>2. Published(ev) \/ Publishing(ev)
      BY <1>4, <3>1 DEF Abandoned
    <3>3. Published(ev) => Published(ev)'
      BY DEF Published, InLog, Queued, Answer
    <3>4. ~At(c, "publish")
      BY <1>3 DEF At
    <3>5. Publishing(ev) => Publishing(ev)'
      BY <1>3, <3>1, <3>4, AcknowledgedType, NotPublishing
    <3> QED
      BY <3>2, <3>3, <3>5
  <2>4. CASE i = Len(replies) + 1
    <3>1. ev = Event(c) /\ ev[1] = c
      BY <1>2, <2>1, <2>4 DEF Event
    <3>2. h'[c].pc = "publish"
      BY <1>3, <2>2, <3>1 DEF AfterAnswer
    <3>3. <<c, h'[c].k>> = ev
      BY <1>3, <3>1 DEF Event
    <3> QED
      BY <3>1, <3>2, <3>3 DEF Publishing, At, Event
  <2> QED
    BY <1>2, <2>3, <2>4
<1> QED
  BY <1>4 DEF Abandoned

LEMMA KeptEnqueue ==
    ASSUME Inv1, NEW c \in Conns, Enqueue(c)
    PROVE  Abandoned' \subseteq Abandoned
<1> DEFINE tp == TpOf(Event(c))
<1>1. At(c, "publish") /\ queue' = [queue EXCEPT ![tp] = Append(@, Event(c))]
      /\ UNCHANGED <<replies, log, used>>
  BY DEF Enqueue, sockets
<1>2. tp \in TPs /\ Event(c) \in Events
  BY <1>1, EventType DEF At, Busy
<1>3. queue \in [TPs -> Seq(Events)]
  BY DEF Inv1, TypeOK
<1>4. \A d \in Conns : d # c => h'[d] = h[d]
  BY MovedOn DEF Enqueue
<1>5. queue'[tp] = Append(queue[tp], Event(c)) /\ queue[tp] \in Seq(Events)
  BY <1>1, <1>2, <1>3
<1>6. \A x \in TPs : x # tp => queue'[x] = queue[x]
  BY <1>1, <1>3
<1>7. /\ Len(queue[tp]) + 1 \in DOMAIN queue'[tp]
      /\ queue'[tp][Len(queue[tp]) + 1] = Event(c)
      /\ \A i \in DOMAIN queue[tp] : i \in DOMAIN queue'[tp] /\ queue'[tp][i] = queue[tp][i]
  BY <1>2, <1>5
<1>8. Queued(Event(c))'
  <2>1. \E i \in DOMAIN queue'[tp] : queue'[tp][i] = Event(c)
    BY <1>7
  <2> QED
    BY <1>4, <2>1, MovedOn DEF Queued, Event, Enqueue
<1> HIDE DEF tp
<1>9. ASSUME NEW ev \in Acknowledged
      PROVE  /\ Published(ev) => Published(ev)'
             /\ Publishing(ev) => Published(ev)' \/ Publishing(ev)'
  <2>1. TpOf(ev) \in TPs /\ ev[1] \in Conns
    BY AcknowledgedType
  <2>2. Queued(ev) => Queued(ev)'
    BY <1>6, <1>7, <2>1 DEF Queued
  <2>3. InLog(ev) => InLog(ev)'
    BY <1>1 DEF InLog
  <2>4. CASE ev[1] = c
    <3>1. Publishing(ev) => ev = Event(c)
      BY <2>4 DEF Publishing
    <3>2. Publishing(ev) => Queued(ev)'
      BY SMTT(20), <1>8, <3>1, <2>4, MovedOn DEF Enqueue, Event, Queued
    <3> QED
      BY <2>2, <2>3, <3>2 DEF Published
  <2>5. CASE ev[1] # c
    BY <1>4, <2>1, <2>2, <2>3, <2>5 DEF Published, Publishing, At, Event
  <2> QED
    BY <2>4, <2>5
<1>10. Abandoned' \subseteq Abandoned \union {}
  BY <1>1, <1>9, KeptQuiet
<1> QED
  BY <1>10

LEMMA KeptWriter ==
    ASSUME Inv1, NEW tp \in TPs, Deliver(tp) \/ DeliverTwice(tp)
    PROVE  Abandoned' \subseteq Abandoned
<1>1. /\ UNCHANGED <<h, replies>> /\ Write(tp) /\ queue[tp] # <<>>
      /\ Dequeue(tp) \/ UNCHANGED queue
  BY DEF Deliver, DeliverTwice, sockets
<1>2. queue \in [TPs -> Seq(Events)] /\ log \in [TPs -> Seq(Events)]
  BY DEF Inv1, TypeOK
<1>3. log'[tp] = Append(log[tp], Head(queue[tp])) /\ \A x \in TPs : x # tp => log'[x] = log[x]
  BY <1>1, <1>2 DEF Write
<1>4. log[tp] \in Seq(Events) /\ queue[tp] \in Seq(Events) /\ Head(queue[tp]) \in Events
  BY <1>1, <1>2
<1>5. /\ \A i \in DOMAIN log[tp] : i \in DOMAIN log'[tp] /\ log'[tp][i] = log[tp][i]
      /\ Len(log[tp]) + 1 \in DOMAIN log'[tp]
      /\ log'[tp][Len(log[tp]) + 1] = queue[tp][1]
  BY <1>1, <1>3, <1>4
<1>6. \A x \in TPs : x # tp => queue'[x] = queue[x]
  BY <1>1, <1>2 DEF Dequeue
<1>7. \A i \in DOMAIN queue[tp] : i = 1 \/ \E j \in DOMAIN queue'[tp] : queue'[tp][j] = queue[tp][i]
  <2>1. CASE UNCHANGED queue
    BY <2>1
  <2>2. CASE Dequeue(tp)
    BY <1>1, <1>2, <2>2, TailKeeps DEF Dequeue
  <2> QED
    BY <1>1, <2>1, <2>2
<1>8. ASSUME NEW ev \in Acknowledged, Published(ev)
      PROVE  Published(ev)'
  <2>1. TpOf(ev) \in TPs
    BY AcknowledgedType
  <2>2. CASE InLog(ev)
    <3>1. \E i \in DOMAIN log'[TpOf(ev)] : log'[TpOf(ev)][i] = ev
      BY <1>3, <1>5, <2>1, <2>2 DEF InLog
    <3> QED
      BY <3>1 DEF Published, InLog
  <2>3. CASE Queued(ev)
    <3>1. CASE TpOf(ev) # tp
      BY <1>6, <2>1, <2>3, <3>1 DEF Queued, Published
    <3>2. CASE TpOf(ev) = tp
      <4>1. PICK i \in DOMAIN queue[tp] : queue[tp][i] = ev
        BY <2>3, <3>2 DEF Queued
      <4>2. CASE i = 1
        <5>1. \E j \in DOMAIN log'[tp] : log'[tp][j] = ev
          BY <1>5, <4>1, <4>2
        <5> QED
          BY <3>2, <5>1 DEF Published, InLog
      <4>3. CASE i # 1
        <5>1. \E j \in DOMAIN queue'[tp] : queue'[tp][j] = ev
          BY <1>7, <4>1, <4>3
        <5> QED
          BY <3>2, <5>1 DEF Published, Queued
      <4> QED
        BY <4>2, <4>3
    <3> QED
      BY <3>1, <3>2
  <2> QED
    BY <1>8, <2>2, <2>3 DEF Published
<1>9. \A ev : Publishing(ev) => Publishing(ev)'
  BY <1>1 DEF Publishing, At, Event
<1>10. Abandoned' \subseteq Abandoned \union {}
  BY <1>1, <1>8, <1>9, KeptQuiet
<1> QED
  BY <1>10

\* A batch that is given up loses the event at the head of the queue.
LEMMA GiveUpCosts ==
    ASSUME Inv1, NEW tp \in TPs, GiveUp(tp)
    PROVE  Abandoned' \subseteq Abandoned \union {Head(queue[tp])}
<1>1. UNCHANGED <<h, replies, log>> /\ Dequeue(tp) /\ queue[tp] # <<>>
  BY DEF GiveUp, sockets
<1>2. queue \in [TPs -> Seq(Events)] /\ Head(queue[tp]) = queue[tp][1]
  BY <1>1 DEF Inv1, TypeOK
<1>3. /\ \A x \in TPs : x # tp => queue'[x] = queue[x]
      /\ \A i \in DOMAIN queue[tp] :
            i = 1 \/ \E j \in DOMAIN queue'[tp] : queue'[tp][j] = queue[tp][i]
  BY <1>1, <1>2, TailKeeps DEF Dequeue
<1>4. ASSUME NEW ev \in Acknowledged \ {Head(queue[tp])}, Published(ev)
      PROVE  Published(ev)'
  <2>1. TpOf(ev) \in TPs
    BY AcknowledgedType
  <2>2. InLog(ev) => InLog(ev)'
    BY <1>1 DEF InLog
  <2>3. Queued(ev) => Queued(ev)'
    <3>1. CASE TpOf(ev) # tp
      BY <1>3, <2>1, <3>1 DEF Queued
    <3>2. CASE TpOf(ev) = tp
      BY <1>2, <1>3, <1>4, <3>2 DEF Queued
    <3> QED
      BY <3>1, <3>2
  <2> QED
    BY <1>4, <2>2, <2>3 DEF Published
<1>5. \A ev : Publishing(ev) => Publishing(ev)'
  BY <1>1 DEF Publishing, At, Event
<1> QED
  BY <1>1, <1>4, <1>5, KeptQuiet

\* A publication that fails loses the event in the handler's hands.
LEMMA PublishFailsCosts ==
    ASSUME Inv1, NEW c \in Conns, PublishFails(c)
    PROVE  Abandoned' \subseteq Abandoned \union {Event(c)}
<1>1. /\ UNCHANGED <<replies, queue, log>>
      /\ \A d \in Conns : d # c => h'[d] = h[d]
  BY MovedOn DEF PublishFails, sockets
<1>2. ASSUME NEW ev \in Acknowledged \ {Event(c)}
      PROVE  /\ Published(ev) => Published(ev)'
             /\ Publishing(ev) => Publishing(ev)'
  <2>1. ev[1] \in Conns
    BY AcknowledgedType
  <2>2. Publishing(ev) => ev[1] # c
    BY <1>2 DEF Publishing
  <2> QED
    BY <1>1, <2>1, <2>2 DEF Published, InLog, Queued, Publishing, At, Event
<1> QED
  BY <1>1, <1>2, KeptQuiet

\* A step loses nothing, or the one event of a publication that is given up, or
\* the process comes to its end.
LEMMA KeptHandle ==
    ASSUME Inv1, NEW c \in Conns, Connect(c) \/ Handle(c) \/ HandleFault(c)
    PROVE  \/ Abandoned' \subseteq Abandoned
           \/ Abandoned' \subseteq Abandoned \union {Event(c)} /\ Spend("publish")
           \/ used'["restart"] # 0
<1>1. CASE Answer(c)
  BY <1>1, KeptAnswer
<1>2. CASE Enqueue(c)
  BY <1>2, KeptEnqueue
<1>3. CASE PublishFails(c)
  <2>1. CASE TpOf(Event(c))[1] \in closed /\ UNCHANGED used
    BY <2>1 DEF Inv1, TypeOK, Kinds, ShutdownOK
  <2>2. CASE Spend("publish")
    BY <1>3, <2>2, PublishFailsCosts
  <2> QED
    BY <1>3, <2>1, <2>2 DEF PublishFails
<1>4. CASE Read(c)
  <2>1. \A d \in Conns : d # c => h'[d] = h[d]
    BY <1>4 DEF Read, AfterRead, Inv1, TypeOK
  <2> QED
    BY <1>4, <2>1, KeptIdle DEF Read, AfterRead, At, sockets
<1>5. CASE Connect(c) \/ ReadFails(c) \/ Wake(c)
  <2>1. \A d \in Conns : d # c => h'[d] = h[d]
    BY <1>5, MovedOn DEF Connect, ReadFails, Wake
  <2> QED
    BY <1>5, <2>1, KeptIdle DEF Connect, ReadFails, Wake, At, sockets
<1>6. CASE AnswerFails(c) \/ Timeout(c)
  <2>1. \A d \in Conns : d # c => h'[d] = h[d]
    BY <1>6, MovedOn DEF AnswerFails, Timeout
  <2> QED
    BY <1>6, <2>1, KeptIdle DEF AnswerFails, Timeout, LeftAtDeadline, At, sockets
<1>7. CASE Drop(c)
  BY <1>7, StillKept DEF Drop
<1> QED
  BY <1>1, <1>2, <1>3, <1>4, <1>5, <1>6, <1>7 DEF Handle, HandleFault

LEMMA SpendGrows ==
    ASSUME Inv1, [Next]_vars
    PROVE  /\ used["publish"] \in Nat /\ used'["publish"] \in Nat
           /\ used["restart"] \in Nat /\ used'["restart"] \in Nat
           /\ used["publish"] =< used'["publish"] /\ used["restart"] =< used'["restart"]
           /\ Spend("publish") => used["publish"] + 1 =< used'["publish"]
<1>1. used \in [Kinds -> Nat] /\ used' \in [Kinds -> Nat]
  BY NextInv1 DEF Inv1, TypeOK
<1>2. (\E k \in Kinds : Spend(k)) \/ UNCHANGED used
  BY DEF Next, Connect, Handle, HandleFault, Read, ReadFails, Answer, Enqueue, Wake, Drop,
         AnswerFails, PublishFails, Timeout, Deliver, DeliverTwice, GiveUp, Crash, Quit,
         Exit, CloseWriter, Kinds, vars
<1>3. \A k \in Kinds : used[k] =< used'[k]
  BY <1>1, <1>2, SpendType
<1>4. Spend("publish") => used["publish"] + 1 =< used'["publish"]
  <2> SUFFICES ASSUME Spend("publish")
               PROVE  used["publish"] + 1 =< used'["publish"]
    OBVIOUS
  <2>1. used' = [used EXCEPT !["publish"] = @ + 1, !["any"] = @ + 1]
    BY DEF Spend
  <2>2. used'["publish"] = used["publish"] + 1
    BY <1>1, <2>1 DEF Kinds
  <2>3. \A n, m \in Nat : m = n + 1 => n + 1 =< m
    OBVIOUS
  <2> QED
    BY <1>1, <2>2, <2>3 DEF Kinds
<1> QED
  BY <1>1, <1>3, <1>4 DEF Kinds

LEMMA NextInv3 == Inv3 /\ [Next]_vars => Inv3'
<1> SUFFICES ASSUME Inv3, [Next]_vars, used'["restart"] = 0
             PROVE  IsFiniteSet(Abandoned') /\ Cardinality(Abandoned') =< used'["publish"]
  BY NextInv1 DEF Inv3, AbandonedOK
<1>0. /\ Inv1 /\ used["restart"] = 0
      /\ used["publish"] \in Nat /\ used'["publish"] \in Nat
      /\ used["publish"] =< used'["publish"]
      /\ Spend("publish") => used["publish"] + 1 =< used'["publish"]
  BY SpendGrows DEF Inv3
<1>1. /\ IsFiniteSet(Abandoned) /\ Cardinality(Abandoned) \in Nat
      /\ Cardinality(Abandoned) =< used["publish"]
  BY <1>0, FS_CardinalityType DEF Inv3, AbandonedOK
<1>2. ASSUME Abandoned' \subseteq Abandoned
      PROVE  IsFiniteSet(Abandoned') /\ Cardinality(Abandoned') =< used'["publish"]
  <2>1. /\ IsFiniteSet(Abandoned') /\ Cardinality(Abandoned') =< Cardinality(Abandoned)
        /\ Cardinality(Abandoned') \in Nat
    BY <1>1, <1>2, FS_Subset, FS_CardinalityType
  <2> QED
    BY <1>0, <1>1, <2>1
<1>3. ASSUME NEW x, Abandoned' \subseteq Abandoned \union {x}, Spend("publish")
      PROVE  IsFiniteSet(Abandoned') /\ Cardinality(Abandoned') =< used'["publish"]
  <2>1. /\ IsFiniteSet(Abandoned \union {x})
        /\ Cardinality(Abandoned \union {x}) \in {Cardinality(Abandoned), Cardinality(Abandoned) + 1}
    BY <1>1, FS_AddElement
  <2>2. /\ IsFiniteSet(Abandoned')
        /\ Cardinality(Abandoned') =< Cardinality(Abandoned \union {x})
    BY <1>3, <2>1, FS_Subset
  <2>3. Cardinality(Abandoned') \in Nat
    BY <2>2, FS_CardinalityType
  <2> QED
    BY <1>0, <1>1, <1>3, <2>1, <2>2, <2>3
<1>4. ASSUME NEW c \in Conns, Connect(c) \/ Handle(c) \/ HandleFault(c)
      PROVE  IsFiniteSet(Abandoned') /\ Cardinality(Abandoned') =< used'["publish"]
  BY <1>0, <1>2, <1>3, <1>4, KeptHandle
<1>5. ASSUME NEW tp \in TPs, Deliver(tp) \/ DeliverTwice(tp) \/ GiveUp(tp)
      PROVE  IsFiniteSet(Abandoned') /\ Cardinality(Abandoned') =< used'["publish"]
  <2>1. CASE GiveUp(tp)
    BY <1>0, <1>3, <2>1, GiveUpCosts DEF GiveUp
  <2>2. CASE Deliver(tp) \/ DeliverTwice(tp)
    BY <1>0, <1>2, <2>2, KeptWriter
  <2> QED
    BY <1>5, <2>1, <2>2
<1>6. ~Crash /\ ~Quit
  BY <1>0, SpendType DEF Crash, Quit, Kinds, Inv1, TypeOK
<1>7. ~Exit
  BY <1>0 DEF Exit, Inv1, TypeOK, Kinds, ShutdownOK
<1>8. ASSUME NEW t \in Topics, CloseWriter(t)
      PROVE  IsFiniteSet(Abandoned') /\ Cardinality(Abandoned') =< used'["publish"]
  BY <1>2, <1>8, StillKept DEF CloseWriter, sockets
<1>9. CASE UNCHANGED vars
  BY <1>2, <1>9, StillKept DEF vars, sockets
<1> QED
  BY <1>4, <1>5, <1>6, <1>7, <1>8, <1>9 DEF Next

\* As long as the process lives, the event of every CALL answered is in Kafka,
\* on its way there or about to be queued, but for one per publication given up:
\* lost connections, failed answers, deadlines and resent batches cost none
\* (main.go:157-181).
THEOREM NothingAnsweredIsLost == Spec => []AcknowledgedIsKept
<1>1. Inv3 => AcknowledgedIsKept
  BY DEF Inv3, AbandonedOK, AcknowledgedIsKept
<1> QED
  BY InitInv3, <1>1, NextInv3, PTL DEF Spec

-----------------------------------------------------------------------------
(* What is queued                                                          *)

\* A handler that is to answer or publish has a CALL that can be answered, and
\* a partition's queue holds the events of such CALLs that belong to it.
QueuedOK(s, tp) == \A i \in DOMAIN s : /\ s[i][1] \in Conns
                                       /\ s[i][2] \in DOMAIN Script[s[i][1]]
                                       /\ Answerable(FrameOf(s[i]))
                                       /\ TopicOf(FrameOf(s[i])) # ""
                                       /\ TpOf(s[i]) = tp
FlowOK == /\ \A c \in Conns : h[c].pc \in Busy => Answerable(FrameOf(Event(c)))
          /\ \A tp \in TPs : QueuedOK(queue[tp], tp)
Inv6 == Inv1 /\ FlowOK

LEMMA InitInv6 == Init => Inv6
<1> SUFFICES ASSUME Init PROVE FlowOK
  BY InitInv1 DEF Inv6
<1>1. DOMAIN <<>> = {}
  OBVIOUS
<1>2. \A tp \in TPs : queue[tp] = <<>>
  BY DEF Init
<1>3. \A c \in Conns : h[c].pc = "new"
  BY DEF Init
<1> QED
  BY <1>1, <1>2, <1>3 DEF FlowOK, QueuedOK, Busy

\* A handler that goes on goes on with its frame.
LEMMA FlowQuiet ==
    ASSUME FlowOK,
           \A d \in Conns : h'[d].pc \in Busy => h[d].pc \in Busy /\ h'[d].k = h[d].k,
           \A tp \in TPs : QueuedOK(queue'[tp], tp)
    PROVE  FlowOK'
<1>1. \A d \in Conns : h'[d].pc \in Busy => Answerable(FrameOf(Event(d)'))
  BY DEF FlowOK, Event
<1> QED
  BY <1>1 DEF FlowOK, Event, QueuedOK, FrameOf, TpOf, Key

LEMMA FlowMoves ==
    ASSUME Inv6, NEW c \in Conns, NEW pc, GoTo(c, pc), pc \in Busy => h[c].pc \in Busy,
           \A tp \in TPs : QueuedOK(queue'[tp], tp)
    PROVE  FlowOK'
<1>1. \A d \in Conns : h'[d].pc \in Busy => h[d].pc \in Busy /\ h'[d].k = h[d].k
  BY MovedOn DEF Inv6
<1> QED
  BY <1>1, FlowQuiet DEF Inv6

LEMMA AppendedOrOld ==
    ASSUME NEW s \in Seq(Events), NEW e \in Events
    PROVE  \A i \in DOMAIN Append(s, e) :
              Append(s, e)[i] = e \/ (i \in DOMAIN s /\ Append(s, e)[i] = s[i])
<1> DEFINE t == Append(s, e)
<1>1. /\ DOMAIN t = 1..(Len(s) + 1) /\ t[Len(s) + 1] = e /\ Len(s) \in Nat
      /\ DOMAIN s = 1..Len(s) /\ \A i \in 1..Len(s) : t[i] = s[i]
  OBVIOUS
<1> HIDE DEF t
<1>2. \A i \in DOMAIN t : t[i] = e \/ (i \in DOMAIN s /\ t[i] = s[i])
  BY <1>1
<1> QED
  BY <1>2 DEF t

LEMMA FlowEnqueue ==
    ASSUME Inv6, NEW c \in Conns, Enqueue(c)
    PROVE  \A tp \in TPs : QueuedOK(queue'[tp], tp)
<1>1. h[c].pc = "publish" /\ h[c].pc \in Busy
  BY DEF Enqueue, At, Busy
<1>2. Event(c) \in Events /\ TpOf(Event(c)) \in TPs
  BY <1>1, EventType DEF Inv6
<1>3. /\ Event(c)[1] \in Conns /\ Event(c)[2] \in DOMAIN Script[Event(c)[1]]
      /\ Answerable(FrameOf(Event(c))) /\ TopicOf(FrameOf(Event(c))) # ""
  BY <1>1 DEF Inv6, FlowOK, Inv1, HandlersOK, Event
<1>4. \A tp \in TPs : queue'[tp] = IF tp = TpOf(Event(c)) THEN Append(queue[tp], Event(c))
                                                            ELSE queue[tp]
  BY DEF Enqueue, Inv6, Inv1, TypeOK
<1> SUFFICES ASSUME NEW tp \in TPs
             PROVE  QueuedOK(queue'[tp], tp)
  OBVIOUS
<1>5. CASE tp # TpOf(Event(c))
  BY <1>4, <1>5 DEF Inv6, FlowOK
<1>6. CASE tp = TpOf(Event(c))
  <2>1. queue[tp] \in Seq(Events) /\ queue'[tp] = Append(queue[tp], Event(c))
    BY <1>4, <1>6 DEF Inv6, Inv1, TypeOK
  <2>2. \A i \in DOMAIN queue'[tp] :
           queue'[tp][i] = Event(c) \/ (i \in DOMAIN queue[tp] /\ queue'[tp][i] = queue[tp][i])
    BY <1>2, <2>1, AppendedOrOld
  <2>3. QueuedOK(queue[tp], tp)
    BY DEF Inv6, FlowOK
  <2> SUFFICES ASSUME NEW i \in DOMAIN queue'[tp]
               PROVE  /\ queue'[tp][i][1] \in Conns
                      /\ queue'[tp][i][2] \in DOMAIN Script[queue'[tp][i][1]]
                      /\ Answerable(FrameOf(queue'[tp][i]))
                      /\ TopicOf(FrameOf(queue'[tp][i])) # ""
                      /\ TpOf(queue'[tp][i]) = tp
    BY DEF QueuedOK
  <2>4. CASE queue'[tp][i] = Event(c)
    BY <1>3, <1>6, <2>4
  <2>5. CASE i \in DOMAIN queue[tp] /\ queue'[tp][i] = queue[tp][i]
    BY <2>3, <2>5 DEF QueuedOK
  <2> QED
    BY <2>2, <2>4, <2>5
<1> QED
  BY <1>5, <1>6

LEMMA FlowDequeue ==
    ASSUME Inv6, NEW tp \in TPs, queue[tp] # <<>>, Dequeue(tp)
    PROVE  \A tq \in TPs : QueuedOK(queue'[tq], tq)
<1>1. queue[tp] \in Seq(Events)
  BY DEF Inv6, Inv1, TypeOK
<1>2. \A tq \in TPs : queue'[tq] = IF tq = tp THEN Tail(queue[tp]) ELSE queue[tq]
  BY DEF Dequeue, Inv6, Inv1, TypeOK
<1>3. \A i \in DOMAIN Tail(queue[tp]) :
         i + 1 \in DOMAIN queue[tp] /\ Tail(queue[tp])[i] = queue[tp][i + 1]
  BY <1>1
<1>4. QueuedOK(Tail(queue[tp]), tp)
  BY <1>3 DEF Inv6, FlowOK, QueuedOK
<1> QED
  BY <1>2, <1>4 DEF Inv6, FlowOK

LEMMA NextInv6 == Inv6 /\ [Next]_vars => Inv6'
<1> SUFFICES ASSUME Inv6, [Next]_vars PROVE FlowOK'
  BY NextInv1 DEF Inv6
<1> DEFINE Same == \A tp \in TPs : QueuedOK(queue'[tp], tp)
<1>1. UNCHANGED queue => Same
  BY DEF Inv6, FlowOK
<1>2. ASSUME NEW c \in Conns, Connect(c) \/ Handle(c) \/ HandleFault(c) PROVE FlowOK'
  <2>1. CASE Connect(c) \/ ReadFails(c) \/ Answer(c) \/ Wake(c) \/ AnswerFails(c)
             \/ PublishFails(c) \/ Timeout(c)
    <3>1. UNCHANGED queue
      BY <2>1 DEF Connect, ReadFails, Answer, Wake, AnswerFails, PublishFails, Timeout,
                  LeftAtDeadline
    <3>2. \E pc : GoTo(c, pc) /\ (pc \in Busy => h[c].pc \in Busy)
      <4>1. CASE Answer(c)
        BY <4>1 DEF Answer, At, Busy
      <4>2. GoTo(c, "reading") \/ GoTo(c, "closed") \/ Answer(c)
        BY <2>1 DEF Connect, ReadFails, Wake, AnswerFails, PublishFails, Timeout,
                    AfterFailedAnswer
      <4> QED
        BY <4>1, <4>2 DEF Busy
    <3> QED
      BY <1>1, <3>1, <3>2, FlowMoves
  <2>2. CASE Enqueue(c)
    BY <2>2, FlowEnqueue, FlowMoves DEF Enqueue, At, Busy
  <2>3. CASE Drop(c)
    BY <1>1, <2>3, FlowQuiet DEF Drop, Inv6
  <2>4. CASE Read(c)
    <3>1. h[c] \in Handler /\ h \in [Conns -> Handler]
      BY DEF Inv6, Inv1, TypeOK
    <3>2. /\ h'[c].pc = IF Answerable(Script[c][h[c].k + 1]) THEN "answer" ELSE "reading"
          /\ h'[c].k = h[c].k + 1
          /\ \A d \in Conns : d # c => h'[d] = h[d]
          /\ UNCHANGED queue
      BY <2>4, <3>1 DEF Read, AfterRead
    <3>3. \A d \in Conns : h'[d].pc \in Busy => Answerable(FrameOf(<<d, h'[d].k>>))
      BY <3>2 DEF Inv6, FlowOK, Event, FrameOf, Busy
    <3> QED
      BY <1>1, <3>2, <3>3 DEF FlowOK, Event, QueuedOK, FrameOf, TpOf, Key
  <2> QED
    BY <1>2, <2>1, <2>2, <2>3, <2>4 DEF Handle, HandleFault
<1>3. CASE UNCHANGED <<h, queue>>
  BY <1>1, <1>3, FlowQuiet DEF Inv6
<1>4. ASSUME NEW tp \in TPs, Deliver(tp) \/ DeliverTwice(tp) \/ GiveUp(tp) PROVE FlowOK'
  <2>1. /\ queue[tp] # <<>> /\ h' = h
        /\ Dequeue(tp) \/ UNCHANGED queue
    BY <1>4 DEF Deliver, DeliverTwice, GiveUp
  <2>2. Same
    BY <1>1, <2>1, FlowDequeue
  <2> QED
    BY <2>1, <2>2, FlowQuiet DEF Inv6
<1>5. CASE Crash \/ Exit
  <2>1. \A d \in Conns : h'[d].pc \in {"new", "closed"}
    BY <1>5 DEF Crash, Exit, Restart, At, Inv6, Inv1, TypeOK, Handler
  <2>2. \A tp \in TPs : queue'[tp] = <<>>
    BY <1>5 DEF Crash, Exit, Restart
  <2>3. DOMAIN <<>> = {}
    OBVIOUS
  <2>4. Same
    BY <2>2, <2>3 DEF QueuedOK
  <2> QED
    BY <2>1, <2>4, FlowQuiet DEF Busy, Inv6
<1>6. ASSUME NEW t \in Topics, CloseWriter(t) PROVE FlowOK'
  BY <1>3, <1>6 DEF CloseWriter
<1> QED
  BY <1>2, <1>3, <1>4, <1>5, <1>6 DEF Next, Quit, vars

-----------------------------------------------------------------------------
(* The order of a connection's events                                      *)

\* e does not come after f if they are of one connection
Below(e, f)  == e[1] = f[1] => e[2] <= f[2]
Ordered(s)   == \A i, j \in DOMAIN s : i <= j => Below(s[i], s[j])
Before(s, t) == \A i \in DOMAIN s, j \in DOMAIN t : Below(s[i], t[j])
\* with the handlers at g the frame of ev is behind its own, which may wait for
\* ev itself
Past(ev, g)   == /\ ev[2] <= g[ev[1]].k
                 /\ g[ev[1]].pc \in {"answer", "publish"} => ev[2] < g[ev[1]].k
AllPast(s, g) == \A i \in DOMAIN s : Past(s[i], g)
OfTp(s, tp)  == \A i \in DOMAIN s : TpOf(s[i]) = tp

\* A partition holds its own events, of frames that their handlers have been
\* at, in the order of the frames, first what is in Kafka and then what waits.
OrderOK == \A tp \in TPs :
    /\ OfTp(log[tp], tp) /\ OfTp(queue[tp], tp)
    /\ AllPast(log[tp], h) /\ AllPast(queue[tp], h)
    /\ Ordered(log[tp]) /\ Ordered(queue[tp]) /\ Before(log[tp], queue[tp])
Inv4 == Inv1 /\ OrderOK

LEMMA OrderedAppend ==
    ASSUME NEW s \in Seq(Events), NEW e \in Events, Ordered(s),
           \A i \in DOMAIN s : Below(s[i], e)
    PROVE  Ordered(Append(s, e))
<1> DEFINE t == Append(s, e)
<1>1. /\ DOMAIN t = 1..(Len(s) + 1) /\ t[Len(s) + 1] = e /\ Len(s) \in Nat
      /\ DOMAIN s = 1..Len(s) /\ \A i \in 1..Len(s) : t[i] = s[i]
  OBVIOUS
<1>2. Below(e, e)
  BY DEF Below, Events
<1> HIDE DEF t
<1>3. ASSUME NEW i \in DOMAIN t, NEW j \in DOMAIN t, i <= j
      PROVE  Below(t[i], t[j])
  <2>1. CASE j \in 1..Len(s)
    <3>1. i \in 1..Len(s)
      BY <1>1, <1>3, <2>1
    <3> QED
      BY <1>1, <1>3, <2>1, <3>1 DEF Ordered
  <2>2. CASE j = Len(s) + 1
    <3>1. i \in 1..Len(s) \/ i = Len(s) + 1
      BY <1>1, <1>3
    <3> QED
      BY <1>1, <1>2, <2>2, <3>1
  <2> QED
    BY <1>1, <2>1, <2>2
<1> QED
  BY <1>3 DEF Ordered, t

LEMMA BeforeAppend ==
    ASSUME NEW s \in Seq(Events), NEW t \in Seq(Events), NEW e \in Events, Before(s, t)
    PROVE  /\ (\A i \in DOMAIN s : Below(s[i], e)) => Before(s, Append(t, e))
           /\ (\A j \in DOMAIN t : Below(e, t[j])) => Before(Append(s, e), t)
<1>1. ASSUME NEW u \in Seq(Events)
      PROVE  \A i \in DOMAIN Append(u, e) :
                \/ i \in DOMAIN u /\ Append(u, e)[i] = u[i]
                \/ Append(u, e)[i] = e
  OBVIOUS
<1> QED
  BY <1>1 DEF Before

\* The head of a queue and what stays behind it.
LEMMA TailOrder ==
    ASSUME NEW s \in Seq(Events), s # <<>>
    PROVE  /\ Head(s) \in Events /\ Tail(s) \in Seq(Events)
           /\ 1 \in DOMAIN s /\ Head(s) = s[1]
           /\ \A i \in DOMAIN Tail(s) : i + 1 \in DOMAIN s /\ Tail(s)[i] = s[i + 1]
           /\ Ordered(s) => /\ Ordered(Tail(s))
                            /\ \A j \in DOMAIN s : Below(Head(s), s[j])
<1>1. /\ Head(s) \in Events /\ Tail(s) \in Seq(Events)
      /\ 1 \in DOMAIN s /\ Head(s) = s[1] /\ DOMAIN s = 1..Len(s) /\ Len(s) \in Nat
      /\ DOMAIN Tail(s) = 1..(Len(s) - 1)
      /\ \A i \in DOMAIN Tail(s) : i + 1 \in DOMAIN s /\ Tail(s)[i] = s[i + 1]
  OBVIOUS
<1>2. ASSUME Ordered(s), NEW i \in DOMAIN Tail(s), NEW j \in DOMAIN Tail(s), i <= j
      PROVE  Below(Tail(s)[i], Tail(s)[j])
  <2>1. i + 1 \in DOMAIN s /\ j + 1 \in DOMAIN s /\ i + 1 <= j + 1
    BY <1>1, <1>2
  <2> QED
    BY <1>1, <1>2, <2>1 DEF Ordered
<1>3. Ordered(s) => \A j \in DOMAIN s : Below(Head(s), s[j])
  BY <1>1 DEF Ordered
<1> QED
  BY <1>1, <1>2, <1>3 DEF Ordered

\* A handler's step forgets no frame it has been at.
LEMMA PastKept ==
    ASSUME Inv1, NEW s \in Seq(Events), AllPast(s, h),
           \A d \in Conns : /\ h'[d].k = h[d].k
                            /\ h'[d].pc \in {"answer", "publish"} =>
                                  h[d].pc \in {"answer", "publish"}
    PROVE  AllPast(s, h')
<1>1. \A i \in DOMAIN s : s[i][1] \in Conns
  BY DEF Events
<1> QED
  BY <1>1 DEF AllPast, Past

\* A step that leaves the log and the queue alone.
LEMMA OrderQuiet ==
    ASSUME Inv4, UNCHANGED <<queue, log>>,
           \A d \in Conns : /\ h'[d].k = h[d].k
                            /\ h'[d].pc \in {"answer", "publish"} =>
                                  h[d].pc \in {"answer", "publish"}
    PROVE  OrderOK'
<1>1. \A tp \in TPs : log[tp] \in Seq(Events) /\ queue[tp] \in Seq(Events)
  BY DEF Inv4, Inv1, TypeOK
<1>2. \A tp \in TPs : AllPast(log'[tp], h') /\ AllPast(queue'[tp], h')
  BY <1>1, PastKept DEF Inv4, OrderOK
<1>3. \A tp \in TPs : OfTp(log'[tp], tp) /\ OfTp(queue'[tp], tp)
  BY DEF Inv4, OrderOK, OfTp, TpOf, FrameOf, Key
<1> QED
  BY <1>2, <1>3 DEF Inv4, OrderOK

LEMMA OrderRead ==
    ASSUME Inv4, NEW c \in Conns, Read(c)
    PROVE  OrderOK'
<1>1. /\ h'[c].k = h[c].k + 1 /\ h[c].k \in Nat
      /\ \A d \in Conns : d # c => h'[d] = h[d]
      /\ UNCHANGED <<queue, log>>
  BY DEF Read, AfterRead, Inv4, Inv1, TypeOK, Handler
<1>2. \A tp \in TPs : log[tp] \in Seq(Events) /\ queue[tp] \in Seq(Events)
  BY DEF Inv4, Inv1, TypeOK
<1>3. ASSUME NEW s \in Seq(Events), AllPast(s, h)
      PROVE  AllPast(s, h')
  <2>1. ASSUME NEW i \in DOMAIN s
        PROVE  Past(s[i], h')
    <3>1. s[i][1] \in Conns /\ s[i][2] \in Nat /\ Past(s[i], h)
      BY <1>3 DEF Events, AllPast
    <3>2. CASE s[i][1] = c
      BY <1>1, <3>1, <3>2 DEF Past
    <3>3. CASE s[i][1] # c
      BY <1>1, <3>1, <3>3 DEF Past
    <3> QED
      BY <3>2, <3>3
  <2> QED
    BY <2>1 DEF AllPast
<1>4. \A tp \in TPs : AllPast(log'[tp], h') /\ AllPast(queue'[tp], h')
  BY <1>1, <1>2, <1>3 DEF Inv4, OrderOK, AllPast
<1> QED
  BY <1>1, <1>4 DEF Inv4, OrderOK, OfTp

LEMMA OrderEnqueue ==
    ASSUME Inv4, NEW c \in Conns, Enqueue(c)
    PROVE  OrderOK'
<1> DEFINE e  == Event(c)
           tq == TpOf(e)
<1>1. /\ h[c].pc = "publish" /\ queue' = [queue EXCEPT ![tq] = Append(@, e)]
      /\ GoTo(c, "waiting") /\ UNCHANGED log
  BY DEF Enqueue, At
<1>2. /\ h'[c].pc = "waiting" /\ h'[c].k = h[c].k /\ h[c].k \in Nat
      /\ \A d \in Conns : d # c => h'[d] = h[d]
  BY <1>1, MovedOn, HandlerType DEF Inv4
<1>3. e \in Events /\ tq \in TPs /\ e[1] = c /\ e[2] = h[c].k
  BY <1>1, EventType DEF Busy, Inv4, Event
<1> HIDE DEF e
<1>4. \A tp \in TPs : log[tp] \in Seq(Events) /\ queue[tp] \in Seq(Events)
  BY DEF Inv4, Inv1, TypeOK
<1>5. queue'[tq] = Append(queue[tq], e) /\ \A tp \in TPs : tp # tq => queue'[tp] = queue[tp]
  BY <1>1, <1>3 DEF Inv4, Inv1, TypeOK
<1> HIDE DEF tq
<1>6. ASSUME NEW s \in Seq(Events), AllPast(s, h)
      PROVE  AllPast(s, h') /\ \A i \in DOMAIN s : Below(s[i], e)
  <2>1. AllPast(s, h')
    <3>1. \A d \in Conns : /\ h'[d].k = h[d].k
                           /\ h'[d].pc \in {"answer", "publish"} =>
                                 h[d].pc \in {"answer", "publish"}
      BY <1>2
    <3> QED
      BY <1>6, <3>1, PastKept DEF Inv4
  <2>2. ASSUME NEW i \in DOMAIN s
        PROVE  Below(s[i], e)
    <3>1. s[i][2] \in Nat /\ Past(s[i], h)
      BY <1>6 DEF Events, AllPast
    <3> QED
      BY <1>1, <1>2, <1>3, <3>1 DEF Past, Below
  <2> QED
    BY <2>1, <2>2
<1>7. ASSUME NEW tp \in TPs
      PROVE  /\ OfTp(log'[tp], tp) /\ AllPast(log'[tp], h') /\ Ordered(log'[tp])
             /\ AllPast(queue[tp], h')
             /\ \A i \in DOMAIN log[tp] : Below(log[tp][i], e)
             /\ \A i \in DOMAIN queue[tp] : Below(queue[tp][i], e)
  BY <1>1, <1>4, <1>6 DEF Inv4, OrderOK, OfTp, TpOf, FrameOf, Key, AllPast
<1>8. ASSUME NEW tp \in TPs
      PROVE  /\ OfTp(queue'[tp], tp) /\ AllPast(queue'[tp], h')
             /\ Ordered(queue'[tp]) /\ Before(log[tp], queue'[tp])
  <2>1. CASE tp # tq
    BY <1>5, <1>7, <2>1 DEF Inv4, OrderOK
  <2>2. CASE tp = tq
    <3>1. \A i \in DOMAIN queue'[tp] :
             (i \in DOMAIN queue[tp] /\ queue'[tp][i] = queue[tp][i]) \/ queue'[tp][i] = e
      BY <1>3, <1>4, <1>5, <2>2
    <3>2. OfTp(queue'[tp], tp)
      BY <2>2, <3>1 DEF Inv4, OrderOK, OfTp, tq
    <3>3. Past(e, h')
      BY <1>2, <1>3 DEF Past
    <3>4. Ordered(queue'[tp])
      BY <1>3, <1>4, <1>5, <1>7, <2>2, OrderedAppend DEF Inv4, OrderOK
    <3>5. Before(log[tp], queue'[tp])
      BY <1>3, <1>4, <1>5, <1>7, <2>2, BeforeAppend DEF Inv4, OrderOK
    <3>6. \A i \in DOMAIN queue[tp] : Past(queue[tp][i], h')
      BY <1>4, <1>6, <2>2 DEF Inv4, OrderOK, AllPast
    <3>7. AllPast(queue'[tp], h')
      BY <3>1, <3>3, <3>6 DEF AllPast
    <3> QED
      BY <3>2, <3>4, <3>5, <3>7
  <2> QED
    BY <2>1, <2>2
<1> QED
  BY <1>1, <1>7, <1>8 DEF OrderOK, OfTp

LEMMA OrderWriter ==
    ASSUME Inv4, NEW tq \in TPs, Deliver(tq) \/ DeliverTwice(tq) \/ GiveUp(tq)
    PROVE  OrderOK'
<1> DEFINE s == log[tq]
           t == queue[tq]
           e == Head(t)
<1>1. /\ t # <<>> /\ UNCHANGED h
      /\ \/ Write(tq) /\ Dequeue(tq)
         \/ Write(tq) /\ UNCHANGED queue
         \/ Dequeue(tq) /\ UNCHANGED log
  BY DEF Deliver, DeliverTwice, GiveUp
<1>2. /\ log \in [TPs -> Seq(Events)] /\ queue \in [TPs -> Seq(Events)]
      /\ s \in Seq(Events) /\ t \in Seq(Events)
  BY DEF Inv4, Inv1, TypeOK
<1>3. Write(tq) => log'[tq] = Append(s, e) /\ \A tp \in TPs : tp # tq => log'[tp] = log[tp]
  BY <1>2 DEF Write
<1>4. Dequeue(tq) => queue'[tq] = Tail(t) /\ \A tp \in TPs : tp # tq => queue'[tp] = queue[tp]
  BY <1>2 DEF Dequeue
<1>5. /\ OfTp(s, tq) /\ OfTp(t, tq) /\ AllPast(s, h) /\ AllPast(t, h)
      /\ Ordered(s) /\ Ordered(t) /\ Before(s, t)
  BY DEF Inv4, OrderOK
<1> HIDE DEF s, t
<1>6. /\ e \in Events /\ Tail(t) \in Seq(Events) /\ 1 \in DOMAIN t /\ e = t[1]
      /\ \A i \in DOMAIN Tail(t) : i + 1 \in DOMAIN t /\ Tail(t)[i] = t[i + 1]
      /\ Ordered(Tail(t)) /\ \A j \in DOMAIN t : Below(e, t[j])
  BY <1>1, <1>2, <1>5, TailOrder
<1> HIDE DEF e
<1>7. \A i \in DOMAIN s : Below(s[i], e)
  BY <1>5, <1>6 DEF Before
<1>8. \A i \in DOMAIN Append(s, e) :
         (i \in DOMAIN s /\ Append(s, e)[i] = s[i]) \/ Append(s, e)[i] = e
  BY <1>2, <1>6
<1>9. /\ OfTp(Append(s, e), tq) /\ AllPast(Append(s, e), h)
      /\ Ordered(Append(s, e)) /\ Before(Append(s, e), t)
  <2>1. TpOf(e) = tq /\ Past(e, h)
    BY <1>5, <1>6 DEF OfTp, AllPast
  <2>2. OfTp(Append(s, e), tq) /\ AllPast(Append(s, e), h)
    BY <1>5, <1>8, <2>1 DEF OfTp, AllPast
  <2>3. Ordered(Append(s, e))
    BY <1>2, <1>5, <1>6, <1>7, OrderedAppend
  <2>4. Before(Append(s, e), t)
    BY <1>2, <1>5, <1>6, BeforeAppend
  <2> QED
    BY <2>2, <2>3, <2>4
<1>10. OfTp(Tail(t), tq) /\ AllPast(Tail(t), h)
  BY <1>5, <1>6 DEF OfTp, AllPast
<1>11. ASSUME NEW u, Before(u, t)
       PROVE  Before(u, Tail(t))
  BY <1>6, <1>11 DEF Before
<1>12. /\ \/ log'[tq] = Append(s, e) /\ (queue'[tq] = Tail(t) \/ queue'[tq] = t)
          \/ log'[tq] = s /\ queue'[tq] = Tail(t)
       /\ \A tp \in TPs : tp # tq => log'[tp] = log[tp] /\ queue'[tp] = queue[tp]
  BY <1>1, <1>3, <1>4 DEF s, t
<1>13. /\ OfTp(log'[tq], tq) /\ OfTp(queue'[tq], tq)
       /\ AllPast(log'[tq], h) /\ AllPast(queue'[tq], h)
       /\ Ordered(log'[tq]) /\ Ordered(queue'[tq]) /\ Before(log'[tq], queue'[tq])
  BY <1>5, <1>6, <1>9, <1>10, <1>11, <1>12
<1>14. \A tp \in TPs :
          /\ OfTp(log'[tp], tp) /\ OfTp(queue'[tp], tp)
          /\ AllPast(log'[tp], h) /\ AllPast(queue'[tp], h)
          /\ Ordered(log'[tp]) /\ Ordered(queue'[tp]) /\ Before(log'[tp], queue'[tp])
  BY <1>12, <1>13 DEF Inv4, OrderOK
<1> QED
  BY <1>1, <1>14 DEF OrderOK, OfTp

LEMMA OrderRestart ==
    ASSUME Inv4, Restart
    PROVE  OrderOK'
<1>1. /\ UNCHANGED log /\ queue' = [tp \in TPs |-> <<>>]
      /\ \A d \in Conns : /\ h'[d].k = h[d].k
                          /\ h'[d].pc \in {"answer", "publish"} =>
                                h[d].pc \in {"answer", "publish"}
  BY DEF Restart, At, Inv4, Inv1, TypeOK, Handler
<1>2. ASSUME NEW tp \in TPs
      PROVE  /\ OfTp(log'[tp], tp) /\ OfTp(queue'[tp], tp)
             /\ AllPast(log'[tp], h') /\ AllPast(queue'[tp], h')
             /\ Ordered(log'[tp]) /\ Ordered(queue'[tp]) /\ Before(log'[tp], queue'[tp])
  <2>1. log[tp] \in Seq(Events)
    BY DEF Inv4, Inv1, TypeOK
  <2>2. AllPast(log[tp], h')
    BY <1>1, <2>1, PastKept DEF Inv4, OrderOK
  <2>3. queue'[tp] = <<>> /\ DOMAIN queue'[tp] = {}
    BY <1>1
  <2> QED
    BY <1>1, <2>2, <2>3 DEF Inv4, OrderOK, OfTp, AllPast, Ordered, Before
<1> QED
  BY <1>2 DEF OrderOK, OfTp

LEMMA OrderHandle ==
    ASSUME Inv4, NEW c \in Conns, Connect(c) \/ Handle(c) \/ HandleFault(c)
    PROVE  OrderOK'
<1>1. CASE Read(c)
  BY <1>1, OrderRead
<1>2. CASE Enqueue(c)
  BY <1>2, OrderEnqueue
<1>3. CASE Answer(c)
  <2>1. h[c].pc = "answer" /\ GoTo(c, AfterAnswer(c)) /\ UNCHANGED <<queue, log>>
    BY <1>3 DEF Answer, At
  <2>2. \A d \in Conns : /\ h'[d].k = h[d].k
                         /\ h'[d].pc \in {"answer", "publish"} =>
                               h[d].pc \in {"answer", "publish"}
    BY <2>1, MovedOn DEF Inv4
  <2> QED
    BY <2>1, <2>2, OrderQuiet
<1>4. ASSUME NEW pc \in {"reading", "closed"}, GoTo(c, pc), UNCHANGED <<queue, log>>
      PROVE  OrderOK'
  <2>1. \A d \in Conns : /\ h'[d].k = h[d].k
                         /\ h'[d].pc \in {"answer", "publish"} =>
                               h[d].pc \in {"answer", "publish"}
    BY <1>4, MovedOn DEF Inv4
  <2> QED
    BY <1>4, <2>1, OrderQuiet
<1>5. CASE Connect(c) \/ ReadFails(c) \/ Wake(c)
  BY <1>4, <1>5 DEF Connect, ReadFails, Wake
<1>6. CASE AnswerFails(c) \/ PublishFails(c) \/ Timeout(c)
  BY <1>4, <1>6 DEF AnswerFails, AfterFailedAnswer, PublishFails, Timeout, LeftAtDeadline
<1>7. CASE Drop(c)
  BY <1>7, OrderQuiet DEF Drop
<1> QED
  BY <1>1, <1>2, <1>3, <1>5, <1>6, <1>7 DEF Handle, HandleFault

LEMMA NextInv4 == Inv4 /\ [Next]_vars => Inv4'
<1> SUFFICES ASSUME Inv4, [Next]_vars PROVE OrderOK'
  BY NextInv1 DEF Inv4
<1>1. ASSUME NEW c \in Conns, Connect(c) \/ Handle(c) \/ HandleFault(c)
      PROVE  OrderOK'
  BY <1>1, OrderHandle
<1>2. ASSUME NEW tp \in TPs, Deliver(tp) \/ DeliverTwice(tp) \/ GiveUp(tp)
      PROVE  OrderOK'
  BY <1>2, OrderWriter
<1>3. CASE Crash \/ Exit
  BY <1>3, OrderRestart DEF Crash, Exit
<1>4. CASE UNCHANGED <<h, queue, log>>
  BY <1>4, OrderQuiet
<1>5. CASE Quit
  BY <1>4, <1>5 DEF Quit
<1>6. ASSUME NEW t \in Topics, CloseWriter(t) PROVE OrderOK'
  BY <1>4, <1>6 DEF CloseWriter
<1>7. CASE UNCHANGED vars
  BY <1>4, <1>7 DEF vars
<1> QED
  BY <1>1, <1>2, <1>3, <1>5, <1>6, <1>7 DEF Next

\* What a partition holds and what waits to be written to it, one after the
\* other.
LEMMA PositionOrder ==
    ASSUME Inv4, NEW tp \in TPs
    PROVE  /\ \A i \in DOMAIN Position(tp) : TpOf(Position(tp)[i]) = tp
           /\ \A i, j \in DOMAIN Position(tp) : i <= j => Below(Position(tp)[i], Position(tp)[j])
<1> DEFINE s == log[tp]
           t == queue[tp]
           m == Len(s)
           n == Len(t)
           p == Position(tp)
<1>1. /\ s \in Seq(Events) /\ t \in Seq(Events) /\ m \in Nat /\ n \in Nat
      /\ DOMAIN s = 1..m /\ DOMAIN t = 1..n
  BY DEF Inv4, Inv1, TypeOK
<1>2. p = [i \in 1..(m + n) |-> IF i <= m THEN s[i] ELSE t[i - m]]
  BY DEF Position
<1>3. /\ OfTp(s, tp) /\ OfTp(t, tp) /\ Ordered(s) /\ Ordered(t) /\ Before(s, t)
  BY DEF Inv4, OrderOK
<1> HIDE DEF p, s, t, m, n
<1>4. ASSUME NEW i \in DOMAIN p
      PROVE  \/ i \in DOMAIN s /\ i <= m /\ p[i] = s[i]
             \/ i - m \in DOMAIN t /\ i > m /\ p[i] = t[i - m]
  BY <1>1, <1>2
<1>5. \A i \in DOMAIN p : TpOf(p[i]) = tp
  BY <1>3, <1>4 DEF OfTp
<1>6. ASSUME NEW i \in DOMAIN p, NEW j \in DOMAIN p, i <= j
      PROVE  Below(p[i], p[j])
  <2>1. i \in Nat /\ j \in Nat
    BY <1>1, <1>2
  <2>2. CASE j <= m
    <3>1. i <= m
      BY <1>1, <1>6, <2>1, <2>2
    <3>2. i \in DOMAIN s /\ j \in DOMAIN s /\ p[i] = s[i] /\ p[j] = s[j]
      BY <1>1, <1>4, <2>1, <2>2, <3>1
    <3> QED
      BY <1>3, <1>6, <3>2 DEF Ordered
  <2>3. CASE j > m
    <3>1. j - m \in DOMAIN t /\ p[j] = t[j - m]
      BY <1>1, <1>4, <2>1, <2>3
    <3>2. CASE i <= m
      <4>1. i \in DOMAIN s /\ p[i] = s[i]
        BY <1>1, <1>4, <2>1, <3>2
      <4> QED
        BY <1>3, <3>1, <4>1 DEF Before
    <3>3. CASE i > m
      <4>1. i - m \in DOMAIN t /\ p[i] = t[i - m] /\ i - m <= j - m
        BY <1>1, <1>4, <1>6, <2>1, <3>3
      <4> QED
        BY <1>3, <3>1, <4>1 DEF Ordered
    <3> QED
      BY <1>1, <2>1, <3>2, <3>3
  <2> QED
    BY <1>1, <2>1, <2>2, <2>3
<1> QED
  BY <1>5, <1>6 DEF p

\* A topic holds the events of one connection in one partition and in the order
\* of its frames, those still queued behind those written (ConnectionOrder):
\* the partition depends on the charger alone, and a handler comes to its next
\* frame only after it has queued or dropped the event of the last.
THEOREM ConnectionsAreOrdered == Spec => []ConnectionOrder
<1>1. Init => Inv4
  BY InitInv1 DEF Init, Inv4, OrderOK, OfTp, AllPast, Ordered, Before
<1>2. Inv4 => ConnectionOrder
  <2> SUFFICES ASSUME Inv4, NEW tp \in TPs, NEW tq \in TPs, tp[1] = tq[1],
                      NEW i \in DOMAIN Position(tp), NEW j \in DOMAIN Position(tq),
                      Position(tp)[i][1] = Position(tq)[j][1]
               PROVE  /\ tp = tq
                      /\ i <= j => Position(tp)[i][2] <= Position(tq)[j][2]
    BY DEF ConnectionOrder
  <2>1. TpOf(Position(tp)[i]) = tp /\ TpOf(Position(tq)[j]) = tq
    BY PositionOrder
  <2>2. tp[2] = tq[2]
    BY <2>1 DEF TpOf, Key
  <2>3. tp = tq
    BY <2>2 DEF TPs
  <2> QED
    BY <2>3, PositionOrder DEF Below
<1> QED
  BY <1>1, <1>2, NextInv4, PTL DEF Spec

-----------------------------------------------------------------------------
(* The replies on a connection                                             *)

\* The CALLs that can be answered, and the one that is yet to be.
CallsDue(c)   == {k \in 1..h[c].k : Answerable(Script[c][k])}
Unanswered(c) == IF At(c, "answer") THEN {h[c].k} ELSE {}

\* Replies come in the order of the CALLs; of those that can be answered all have
\* been but the one at hand.
RepliesOK ==
    /\ \A i, j \in DOMAIN replies :
          i < j /\ replies[i].ev[1] = replies[j].ev[1] => replies[i].ev[2] < replies[j].ev[2]
    /\ \A c \in Conns :
          /\ Answered(c) \subseteq CallsDue(c)
          /\ CallsDue(c) \ {h[c].k} \subseteq Answered(c)
          /\ ~At(c, "closed") => Answered(c) = CallsDue(c) \ Unanswered(c)
\* A handler about to answer is at a CALL that it can answer.
AnswerPending == \A c \in Conns : At(c, "answer") => h[c].k \in CallsDue(c)
Inv5 == Inv1 /\ AnswerPending /\ RepliesOK

\* A step that writes no reply and reads no frame: handlers stay, or close, or
\* move on where no answer is due.
LEMMA AnswersQuiet ==
    ASSUME Inv5, UNCHANGED replies,
           \A d \in Conns : /\ h'[d].k = h[d].k
                            /\ \/ h'[d].pc = h[d].pc
                               \/ h'[d].pc = "closed"
                               \/ h'[d].pc # "answer" /\ h[d].pc \notin {"answer", "closed"}
    PROVE  AnswerPending' /\ RepliesOK'
<1>1. \A c \in Conns : Answered(c)' = Answered(c) /\ CallsDue(c)' = CallsDue(c)
  BY DEF Answered, CallsDue
<1>2. \A c \in Conns : /\ At(c, "answer")' => At(c, "answer")
                       /\ ~At(c, "closed")' => ~At(c, "closed")
  BY DEF At
<1>3. ASSUME NEW c \in Conns, ~At(c, "closed")'
      PROVE  Unanswered(c)' = Unanswered(c)
  <2>1. At(c, "answer")' <=> At(c, "answer")
    BY <1>3 DEF At
  <2> QED
    BY <2>1 DEF Unanswered
<1>4. AnswerPending'
  BY <1>1, <1>2 DEF Inv5, AnswerPending
<1>5. ASSUME NEW c \in Conns
      PROVE  /\ Answered(c)' \subseteq CallsDue(c)'
             /\ CallsDue(c)' \ {h'[c].k} \subseteq Answered(c)'
             /\ ~At(c, "closed")' => Answered(c)' = CallsDue(c)' \ Unanswered(c)'
  BY <1>1, <1>2, <1>3 DEF Inv5, RepliesOK
<1> QED
  BY <1>4, <1>5 DEF Inv5, RepliesOK

LEMMA AnswersRead ==
    ASSUME Inv5, NEW c \in Conns, Read(c)
    PROVE  AnswerPending' /\ RepliesOK'
<1> DEFINE k == h[c].k + 1
           can == Answerable(Script[c][k])
<1>1. /\ At(c, "reading") /\ UNCHANGED replies
      /\ h'[c].k = k /\ h'[c].pc = IF can THEN "answer" ELSE "reading"
      /\ \A d \in Conns : d # c => h'[d] = h[d]
  BY DEF Read, AfterRead, sockets, Inv5, Inv1, TypeOK
<1>2. h[c].k \in Nat /\ k \in Nat
  BY HandlerType DEF Inv5
<1>3. CallsDue(c)' = CallsDue(c) \union (IF can THEN {k} ELSE {}) /\ k \notin CallsDue(c)
  <2>1. 1..k = 1..h[c].k \union {k} /\ k \notin 1..h[c].k
    BY <1>2
  <2>2. CallsDue(c)' = {n \in 1..k : Answerable(Script[c][n])}
    BY <1>1 DEF CallsDue
  <2> QED
    BY <2>1, <2>2 DEF CallsDue
<1>4. Answered(c) = CallsDue(c)
  BY <1>1 DEF Inv5, RepliesOK, Unanswered, At
<1>5. \A d \in Conns : Answered(d)' = Answered(d)
  BY <1>1 DEF Answered
<1>6. Unanswered(c)' = (IF can THEN {k} ELSE {}) /\ (At(c, "answer")' => can)
  BY <1>1 DEF Unanswered, At
<1> HIDE DEF can
<1>7. /\ Answered(c)' \subseteq CallsDue(c)'
      /\ CallsDue(c)' \ {h'[c].k} \subseteq Answered(c)'
      /\ Answered(c)' = CallsDue(c)' \ Unanswered(c)'
      /\ At(c, "answer")' => h'[c].k \in CallsDue(c)'
  BY <1>1, <1>3, <1>4, <1>5, <1>6
<1>8. ASSUME NEW d \in Conns, d # c
      PROVE  /\ Answered(d)' \subseteq CallsDue(d)'
             /\ CallsDue(d)' \ {h'[d].k} \subseteq Answered(d)'
             /\ ~At(d, "closed")' => Answered(d)' = CallsDue(d)' \ Unanswered(d)'
             /\ At(d, "answer")' => h'[d].k \in CallsDue(d)'
  <2>1. h'[d] = h[d]
    BY <1>1, <1>8
  <2>2. /\ CallsDue(d)' = CallsDue(d) /\ Unanswered(d)' = Unanswered(d)
        /\ At(d, "closed")' <=> At(d, "closed")
        /\ At(d, "answer")' <=> At(d, "answer")
    BY <2>1 DEF CallsDue, Unanswered, At
  <2> QED
    BY <1>5, <2>1, <2>2 DEF Inv5, RepliesOK, AnswerPending
<1>9. AnswerPending'
  BY <1>7, <1>8 DEF AnswerPending
<1> QED
  BY <1>1, <1>7, <1>8, <1>9 DEF Inv5, RepliesOK

LEMMA AnswersAnswer ==
    ASSUME Inv5, NEW c \in Conns, Answer(c)
    PROVE  AnswerPending' /\ RepliesOK'
<1> DEFINE new == [ev |-> Event(c), tx |-> h[c].tx, life |-> life]
           k   == h[c].k
           m   == Len(replies) + 1
<1>1. /\ replies' = Append(replies, new) /\ replies \in Seq(Reply)
      /\ At(c, "answer") /\ h'[c].pc = AfterAnswer(c) /\ h'[c].k = k
      /\ \A d \in Conns : d # c => h'[d] = h[d]
  BY MovedOn DEF Answer, Inv5, Inv1, TypeOK
<1>2. /\ Len(replies) \in Nat /\ DOMAIN replies = 1..Len(replies) /\ DOMAIN replies' = 1..m
      /\ \A i \in DOMAIN replies : replies'[i] = replies[i]
      /\ replies'[m] = new /\ new.ev[1] = c /\ new.ev[2] = k /\ k \in Nat
  <2>1. k \in Nat
    BY HandlerType DEF Inv5
  <2>2. new.ev[1] = c /\ new.ev[2] = k
    BY DEF Event
  <2> HIDE DEF new, k
  <2> QED
    BY <1>1, <2>1, <2>2
<1> HIDE DEF new
<1>3. \A d \in Conns : CallsDue(d)' = CallsDue(d)
  BY <1>1 DEF CallsDue
<1>4. /\ k \in CallsDue(c) /\ Answered(c) = CallsDue(c) \ {k}
  BY <1>1 DEF Inv5, AnswerPending, RepliesOK, Unanswered, At
<1>5. Answered(c)' = Answered(c) \union {k} /\ \A d \in Conns : d # c => Answered(d)' = Answered(d)
  <2>1. \A i : i \in 1..m <=> i \in 1..Len(replies) \/ i = m
    BY <1>2
  <2> HIDE DEF m
  <2>2. \A d : Answered(d)' = {replies'[i].ev[2] : i \in {j \in 1..m : replies'[j].ev[1] = d}}
    BY <1>2 DEF Answered
  <2>3. \A d : Answered(d) = {replies[i].ev[2] : i \in {j \in 1..Len(replies) : replies[j].ev[1] = d}}
    BY <1>2 DEF Answered
  <2>4. Answered(c)' = Answered(c) \union {k}
    <3>1. \A i : (i \in 1..m /\ replies'[i].ev[1] = c)
                  <=> (i \in 1..Len(replies) /\ replies[i].ev[1] = c) \/ i = m
      BY <1>2, <2>1
    <3>2. \A i \in 1..Len(replies) : replies'[i] = replies[i]
      BY <1>2
    <3>3. m \in 1..m /\ replies'[m].ev[2] = k
      BY <1>2, <2>1
    <3>4. \A x : x \in Answered(c)' <=> x \in Answered(c) \/ x = k
      <4>1. \A x : x \in Answered(c)' <=>
                    \E i : i \in 1..m /\ replies'[i].ev[1] = c /\ replies'[i].ev[2] = x
        BY <2>2
      <4>2. \A x : x \in Answered(c) <=>
                    \E i : /\ i \in 1..Len(replies) /\ replies[i].ev[1] = c
                           /\ replies[i].ev[2] = x
        BY <2>3
      <4> QED
        BY <3>1, <3>2, <3>3, <4>1, <4>2
    <3> QED
      BY <3>4
  <2>5. ASSUME NEW d \in Conns, d # c
        PROVE  Answered(d)' = Answered(d)
    <3>1. \A i : (i \in 1..m /\ replies'[i].ev[1] = d)
                  <=> (i \in 1..Len(replies) /\ replies[i].ev[1] = d)
      BY <1>2, <2>1, <2>5
    <3>2. \A i \in 1..Len(replies) : replies'[i] = replies[i]
      BY <1>2
    <3>3. \A x : x \in Answered(d)' <=>
                  \E i : i \in 1..m /\ replies'[i].ev[1] = d /\ replies'[i].ev[2] = x
      BY <2>2
    <3>4. \A x : x \in Answered(d) <=>
                  \E i : /\ i \in 1..Len(replies) /\ replies[i].ev[1] = d
                         /\ replies[i].ev[2] = x
      BY <2>3
    <3>5. \A x : x \in Answered(d)' <=> x \in Answered(d)
      BY <3>1, <3>2, <3>3, <3>4
    <3> QED
      BY <3>5, <2>2, <2>3
  <2> QED
    BY <2>4, <2>5
<1>6. h'[c].pc # "answer" /\ Unanswered(c)' = {}
  BY <1>1 DEF AfterAnswer, Unanswered, At
<1>7. ASSUME NEW d \in Conns
      PROVE  /\ Answered(d)' \subseteq CallsDue(d)'
             /\ CallsDue(d)' \ {h'[d].k} \subseteq Answered(d)'
             /\ ~At(d, "closed")' => Answered(d)' = CallsDue(d)' \ Unanswered(d)'
             /\ At(d, "answer")' => h'[d].k \in CallsDue(d)'
  <2>1. CASE d = c
    BY <1>1, <1>3, <1>4, <1>5, <1>6, <2>1 DEF At
  <2>2. CASE d # c
    <3>1. h'[d] = h[d]
      BY <1>1, <2>2
    <3>2. /\ Unanswered(d)' = Unanswered(d)
          /\ At(d, "closed")' <=> At(d, "closed")
          /\ At(d, "answer")' <=> At(d, "answer")
      BY <3>1 DEF Unanswered, At
    <3> QED
      BY <1>3, <1>5, <2>2, <3>1, <3>2 DEF Inv5, RepliesOK, AnswerPending
  <2> QED
    BY <2>1, <2>2
<1>8. ASSUME NEW i \in DOMAIN replies', NEW j \in DOMAIN replies', i < j,
             replies'[i].ev[1] = replies'[j].ev[1]
      PROVE  replies'[i].ev[2] < replies'[j].ev[2]
  <2>1. i \in DOMAIN replies /\ replies'[i] = replies[i]
    BY <1>2, <1>8
  <2>2. CASE j \in DOMAIN replies
    BY <1>2, <1>8, <2>1, <2>2 DEF Inv5, RepliesOK
  <2>3. CASE j = m
    <3>1. replies[i].ev[2] \in Answered(c)
      BY <1>2, <1>8, <2>1, <2>3 DEF Answered
    <3>2. replies[i].ev[2] \in 1..k /\ replies[i].ev[2] # k
      BY <1>4, <3>1 DEF CallsDue
    <3> QED
      BY <1>2, <2>1, <2>3, <3>2
  <2> QED
    BY <1>2, <2>2, <2>3
<1>9. AnswerPending'
  BY <1>7 DEF AnswerPending
<1> QED
  BY <1>7, <1>8, <1>9 DEF RepliesOK

LEMMA NextInv5 == Inv5 /\ [Next]_vars => Inv5'
<1> SUFFICES ASSUME Inv5, [Next]_vars PROVE AnswerPending' /\ RepliesOK'
  BY NextInv1 DEF Inv5
<1>1. ASSUME NEW c \in Conns, Connect(c) \/ Handle(c) \/ HandleFault(c)
      PROVE  AnswerPending' /\ RepliesOK'
  <2>1. ASSUME NEW pc, GoTo(c, pc), UNCHANGED replies,
               pc = "closed" \/ (pc # "answer" /\ h[c].pc \notin {"answer", "closed"})
        PROVE  AnswerPending' /\ RepliesOK'
    <3>1. \A d \in Conns :
             /\ h'[d].k = h[d].k
             /\ \/ h'[d].pc = h[d].pc
                \/ h'[d].pc = "closed"
                \/ h'[d].pc # "answer" /\ h[d].pc \notin {"answer", "closed"}
      BY <2>1, MovedOn DEF Inv5
    <3> QED
      BY <2>1, <3>1, AnswersQuiet
  <2>2. CASE Read(c)
    BY <2>2, AnswersRead
  <2>3. CASE Answer(c)
    BY <2>3, AnswersAnswer
  <2>4. CASE Connect(c) \/ Enqueue(c) \/ Wake(c)
    BY <2>1, <2>4 DEF Connect, Enqueue, Wake, At, sockets
  <2>5. CASE PublishFails(c) \/ Timeout(c)
    BY <2>1, <2>5 DEF PublishFails, Timeout, At, sockets
  <2>6. CASE ReadFails(c) \/ AnswerFails(c)
    BY <2>1, <2>6 DEF ReadFails, AnswerFails, AfterFailedAnswer, sockets
  <2>7. CASE Drop(c)
    BY <2>7, AnswersQuiet DEF Drop
  <2> QED
    BY <1>1, <2>2, <2>3, <2>4, <2>5, <2>6, <2>7 DEF Handle, HandleFault
<1>2. CASE UNCHANGED <<h, replies>>
  BY <1>2, AnswersQuiet
<1>3. ASSUME NEW tp \in TPs, Deliver(tp) \/ DeliverTwice(tp) \/ GiveUp(tp)
      PROVE  AnswerPending' /\ RepliesOK'
  BY <1>2, <1>3 DEF Deliver, DeliverTwice, GiveUp, sockets
<1>4. CASE Crash \/ Exit
  <2>1. UNCHANGED replies
    BY <1>4 DEF Crash, Exit, Restart, sockets
  <2>2. \A d \in Conns : h'[d] = h[d] \/ (h'[d].pc = "closed" /\ h'[d].k = h[d].k)
    BY <1>4 DEF Crash, Exit, Restart, At, Inv5, Inv1, TypeOK, Handler
  <2> QED
    BY <2>1, <2>2, AnswersQuiet
<1>5. CASE Quit
  BY <1>2, <1>5 DEF Quit, sockets
<1>6. ASSUME NEW t \in Topics, CloseWriter(t)
      PROVE  AnswerPending' /\ RepliesOK'
  BY <1>2, <1>6 DEF CloseWriter, sockets
<1>7. CASE UNCHANGED vars
  BY <1>2, <1>7 DEF vars, sockets
<1> QED
  BY <1>1, <1>3, <1>4, <1>5, <1>6, <1>7 DEF Next

\* The replies on a connection are those of its CALLs, each once and in their
\* order; only CALLs whose message id MakeCallResult makes no JSON of, and the last
\* one of a connection that ends, are left without (AnswersInOrder).
THEOREM CallsAnsweredInOrder == Spec => []AnswersInOrder
<1>1. Init => Inv5
  <2> SUFFICES ASSUME Init
               PROVE  AnswerPending /\ RepliesOK
    BY InitInv1 DEF Inv5
  <2>1. \A c \in Conns : h[c].pc = "new" /\ h[c].k = 0 /\ replies = <<>>
    BY DEF Init
  <2>2. \A c \in Conns : CallsDue(c) = {} /\ Answered(c) = {}
    BY <2>1 DEF CallsDue, Answered
  <2> QED
    BY <2>1, <2>2 DEF AnswerPending, RepliesOK, At, Unanswered, Init
<1>2. Inv5 => AnswersInOrder
  <2> SUFFICES ASSUME Inv5, NEW c \in Conns
               PROVE  /\ Answered(c) \subseteq CallsRead(c)
                      /\ \A k \in CallsRead(c) :
                            \/ k \in Answered(c) /\ Script[c][k].plainID
                            \/ k \notin Answered(c) /\ ~Script[c][k].plainID
                            \/ k \notin Answered(c) /\ k = h[c].k /\ h[c].pc \in {"answer", "closed"}
    BY DEF Inv5, RepliesOK, AnswersInOrder
  <2>1. CallsDue(c) = {k \in CallsRead(c) : Script[c][k].plainID}
    BY DEF CallsDue, CallsRead, Answerable
  <2>2. Answered(c) \subseteq CallsRead(c)
    BY <2>1 DEF Inv5, RepliesOK
  <2>3. ASSUME NEW k \in CallsRead(c), Script[c][k].plainID, k \notin Answered(c)
        PROVE  k = h[c].k /\ h[c].pc \in {"answer", "closed"}
    <3>1. k \in CallsDue(c) /\ k = h[c].k
      BY <2>1, <2>3 DEF Inv5, RepliesOK
    <3>2. CASE h[c].pc # "closed"
      BY <2>3, <3>1, <3>2 DEF Inv5, RepliesOK, Unanswered, At
    <3> QED
      BY <3>1, <3>2
  <2>4. ASSUME NEW k \in Answered(c)
        PROVE  Script[c][k].plainID
    BY <2>1 DEF Inv5, RepliesOK
  <2> QED
    BY <2>2, <2>3, <2>4
<1> QED
  BY <1>1, <1>2, NextInv5, PTL DEF Spec

-----------------------------------------------------------------------------
(* What is published was answered                                          *)

\* A handler publishes what it has answered.
PublishingAnswered == \A c \in Conns : At(c, "publish") => h[c].k \in Answered(c)
Inv7 == Inv1 /\ PublishingAnswered /\ OnlyAnsweredArePublished

LEMMA AnsweredGrows ==
    ASSUME Inv1, Inv1',
           UNCHANGED replies \/ \E r : replies' = Append(replies, r)
    PROVE  \A c : Answered(c) \subseteq Answered(c)'
<1>1. DOMAIN replies \subseteq DOMAIN replies' /\ \A i \in DOMAIN replies : replies'[i] = replies[i]
  <2>1. CASE UNCHANGED replies
    BY <2>1
  <2>2. ASSUME NEW r, replies' = Append(replies, r)
        PROVE  DOMAIN replies \subseteq DOMAIN replies' /\ \A i \in DOMAIN replies : replies'[i] = replies[i]
    <3>1. replies \in Seq(Reply)
      BY DEF Inv1, TypeOK
    <3> QED
      BY <2>2, <3>1
  <2> QED
    BY <2>1, <2>2
<1> QED
  BY <1>1 DEF Answered

LEMMA AnsweredByAnswer ==
    ASSUME Inv1, NEW c \in Conns, Answer(c)
    PROVE  h[c].k \in Answered(c)'
<1> DEFINE r == [ev |-> Event(c), tx |-> h[c].tx, life |-> life]
<1>1. replies' = Append(replies, r) /\ replies \in Seq(Reply)
  BY DEF Answer, Inv1, TypeOK
<1>2. r.ev[1] = c /\ r.ev[2] = h[c].k
  BY DEF Event
<1> HIDE DEF r
<1>3. Len(replies) + 1 \in DOMAIN replies' /\ replies'[Len(replies) + 1] = r
  BY <1>1
<1> QED
  BY <1>2, <1>3 DEF Answered

LEMMA QueuedWereAnswered ==
    ASSUME Inv7, NEW tp \in TPs, NEW i \in DOMAIN queue'[tp],
           \/ UNCHANGED queue
           \/ \E c \in Conns : Enqueue(c)
           \/ \E tq \in TPs : queue[tq] # <<>> /\ Dequeue(tq)
           \/ queue' = [tq \in TPs |-> <<>>]
    PROVE  queue'[tp][i][2] \in Answered(queue'[tp][i][1])
<1>1. CASE UNCHANGED queue
  BY <1>1 DEF Inv7, OnlyAnsweredArePublished
<1>2. ASSUME NEW c \in Conns, Enqueue(c)
      PROVE  queue'[tp][i][2] \in Answered(queue'[tp][i][1])
  <2>1. /\ At(c, "publish")
        /\ queue' = [queue EXCEPT ![TpOf(Event(c))] = Append(@, Event(c))]
    BY <1>2 DEF Enqueue
  <2>2. Event(c) \in Events /\ queue \in [TPs -> Seq(Events)]
    BY <2>1, EventType DEF At, Busy, Inv7, Inv1, TypeOK
  <2>3. Event(c)[2] \in Answered(Event(c)[1])
    BY <2>1 DEF Event, Inv7, PublishingAnswered
  <2>4. queue'[tp] = queue[tp] \/ queue'[tp] = Append(queue[tp], Event(c))
    BY <2>1, <2>2
  <2>5. queue[tp] \in Seq(Events)
    BY <2>2
  <2>6. queue'[tp][i] = Event(c) \/ (i \in DOMAIN queue[tp] /\ queue'[tp][i] = queue[tp][i])
    <3>1. \A j \in DOMAIN Append(queue[tp], Event(c)) :
             \/ Append(queue[tp], Event(c))[j] = Event(c)
             \/ j \in DOMAIN queue[tp] /\ Append(queue[tp], Event(c))[j] = queue[tp][j]
      BY <2>2, <2>5, AppendedOrOld
    <3>2. CASE queue'[tp] = queue[tp]
      BY <3>2
    <3>3. CASE queue'[tp] = Append(queue[tp], Event(c))
      BY <3>1, <3>3, Zenon
    <3> QED
      BY <2>4, <3>2, <3>3
  <2> QED
    BY <2>3, <2>6 DEF Inv7, OnlyAnsweredArePublished
<1>3. ASSUME NEW tq \in TPs, queue[tq] # <<>>, Dequeue(tq)
      PROVE  queue'[tp][i][2] \in Answered(queue'[tp][i][1])
  <2>1. queue \in [TPs -> Seq(Events)] /\ queue[tp] \in Seq(Events)
    BY DEF Inv7, Inv1, TypeOK
  <2>2. queue'[tp] = queue[tp] \/ (tp = tq /\ queue'[tp] = Tail(queue[tp]))
    BY <1>3, <2>1 DEF Dequeue
  <2>3. CASE queue'[tp] = queue[tp]
    BY <2>3 DEF Inv7, OnlyAnsweredArePublished
  <2>4. CASE tp = tq /\ queue'[tp] = Tail(queue[tp])
    <3>1. queue[tp] # <<>> /\ i \in DOMAIN Tail(queue[tp])
      BY <1>3, <2>4
    <3>2. i + 1 \in DOMAIN queue[tp] /\ Tail(queue[tp])[i] = queue[tp][i + 1]
      BY <2>1, <3>1
    <3> QED
      BY <2>4, <3>2 DEF Inv7, OnlyAnsweredArePublished
  <2> QED
    BY <2>2, <2>3, <2>4
<1>4. CASE queue' = [tq \in TPs |-> <<>>]
  BY <1>4
<1> QED
  BY <1>1, <1>2, <1>3, <1>4

LEMMA LoggedWereAnswered ==
    ASSUME Inv7, NEW tp \in TPs, NEW i \in DOMAIN log'[tp],
           UNCHANGED log \/ \E tq \in TPs : queue[tq] # <<>> /\ Write(tq)
    PROVE  log'[tp][i][2] \in Answered(log'[tp][i][1])
<1>1. CASE UNCHANGED log
  BY <1>1 DEF Inv7, OnlyAnsweredArePublished
<1>2. ASSUME NEW tq \in TPs, queue[tq] # <<>>, Write(tq)
      PROVE  log'[tp][i][2] \in Answered(log'[tp][i][1])
  <2>1. /\ log \in [TPs -> Seq(Events)] /\ log[tp] \in Seq(Events)
        /\ queue[tq] \in Seq(Events)
    BY DEF Inv7, Inv1, TypeOK
  <2>2. 1 \in DOMAIN queue[tq] /\ Head(queue[tq]) = queue[tq][1] /\ queue[tq][1] \in Events
    BY <1>2, <2>1
  <2>3. log'[tp] = log[tp] \/ log'[tp] = Append(log[tp], Head(queue[tq]))
    BY <1>2, <2>1 DEF Write
  <2>4. log'[tp][i] = Head(queue[tq]) \/ (i \in DOMAIN log[tp] /\ log'[tp][i] = log[tp][i])
    <3>1. \A j \in DOMAIN Append(log[tp], queue[tq][1]) :
             \/ Append(log[tp], queue[tq][1])[j] = queue[tq][1]
             \/ j \in DOMAIN log[tp] /\ Append(log[tp], queue[tq][1])[j] = log[tp][j]
      BY <2>1, <2>2, AppendedOrOld
    <3>2. CASE log'[tp] = log[tp]
      BY <3>2
    <3>3. CASE log'[tp] = Append(log[tp], queue[tq][1])
      BY <2>2, <3>1, <3>3, Zenon
    <3> QED
      BY <2>2, <2>3, <3>2, <3>3
  <2> QED
    BY <2>2, <2>4 DEF Inv7, OnlyAnsweredArePublished
<1> QED
  BY <1>1, <1>2

LEMMA NextInv7 == Inv7 /\ [Next]_vars => Inv7'
<1> SUFFICES ASSUME Inv7, [Next]_vars PROVE Inv7'
  OBVIOUS
<1>1. Inv1 /\ Inv1'
  BY NextInv1 DEF Inv7
<1>2. \A c : Answered(c) \subseteq Answered(c)'
  <2>1. UNCHANGED replies \/ \E r : replies' = Append(replies, r)
    BY DEF Next, Connect, Handle, HandleFault, Read, ReadFails, Answer, Enqueue, Wake, Drop,
           AnswerFails, PublishFails, Timeout, Deliver, DeliverTwice, GiveUp, Crash, Quit,
           Exit, Restart, CloseWriter, vars, sockets
  <2> QED
    BY <1>1, <2>1, AnsweredGrows
<1>3. ASSUME NEW c \in Conns, At(c, "publish")'
      PROVE  h'[c].k \in Answered(c)'
  <2>1. CASE At(c, "publish") /\ h'[c].k = h[c].k
    BY <1>2, <2>1 DEF Inv7, PublishingAnswered
  <2>2. CASE Answer(c)
    BY <1>1, <2>2, AnsweredByAnswer, MovedOn DEF Answer
  <2>3. (At(c, "publish") /\ h'[c].k = h[c].k) \/ Answer(c)
    <3>1. ASSUME NEW d \in Conns, NEW pc, GoTo(d, pc), pc # "publish"
          PROVE  At(c, "publish") /\ h'[c].k = h[c].k
      BY <1>1, <1>3, <3>1, MovedOn DEF At
    <3>2. ASSUME NEW d \in Conns, Connect(d) \/ Handle(d) \/ HandleFault(d)
          PROVE  (At(c, "publish") /\ h'[c].k = h[c].k) \/ Answer(c)
      <4>1. CASE Connect(d) \/ ReadFails(d) \/ Enqueue(d) \/ Wake(d)
        BY <3>1, <4>1 DEF Connect, ReadFails, Enqueue, Wake
      <4>2. CASE AnswerFails(d) \/ PublishFails(d) \/ Timeout(d)
        BY <3>1, <4>2 DEF AnswerFails, AfterFailedAnswer, PublishFails, Timeout
      <4>3. CASE Drop(d)
        BY <1>3, <4>3 DEF Drop, At
      <4>4. CASE Read(d)
        <5>1. h \in [Conns -> Handler]
          BY <1>1 DEF Inv1, TypeOK
        <5>2. h'[d].pc # "publish" /\ \A e \in Conns : e # d => h'[e] = h[e]
          BY <4>4, <5>1 DEF Read, AfterRead
        <5> QED
          BY <1>3, <5>2 DEF At
      <4>5. CASE Answer(d)
        <5>1. \A e \in Conns : e # d => h'[e] = h[e]
          BY <1>1, <4>5, MovedOn DEF Answer
        <5> QED
          BY <1>3, <4>5, <5>1 DEF At
      <4> QED
        BY <3>2, <4>1, <4>2, <4>3, <4>4, <4>5 DEF Handle, HandleFault
    <3>3. CASE UNCHANGED h
      BY <1>3, <3>3 DEF At
    <3>4. CASE Crash \/ Exit
      BY <1>1, <1>3, <3>4 DEF Crash, Exit, Restart, At, Inv1, TypeOK, Handler
    <3>5. CASE \/ \E tp \in TPs : Deliver(tp) \/ DeliverTwice(tp) \/ GiveUp(tp)
               \/ Quit \/ (\E t \in Topics : CloseWriter(t)) \/ UNCHANGED vars
      BY <3>3, <3>5 DEF Deliver, DeliverTwice, GiveUp, Quit, CloseWriter, vars
    <3> QED
      BY <3>2, <3>4, <3>5 DEF Next
  <2> QED
    BY <2>1, <2>2, <2>3
<1>4. ASSUME NEW tp \in TPs, NEW i \in DOMAIN queue'[tp]
      PROVE  (queue[tp][i][2] \in Answered(queue[tp][i][1]))'
  <2>1. \/ UNCHANGED queue
        \/ \E c \in Conns : Enqueue(c)
        \/ \E tq \in TPs : queue[tq] # <<>> /\ Dequeue(tq)
        \/ queue' = [tq \in TPs |-> <<>>]
    BY DEF Next, Connect, Handle, HandleFault, Read, ReadFails, Answer, Wake, Drop,
           AnswerFails, PublishFails, Timeout, LeftAtDeadline, Deliver, DeliverTwice, GiveUp,
           Crash, Quit, Exit, Restart, CloseWriter, vars
  <2> QED
    BY <1>2, <1>4, <2>1, QueuedWereAnswered
<1>5. ASSUME NEW tp \in TPs, NEW i \in DOMAIN log'[tp]
      PROVE  (log[tp][i][2] \in Answered(log[tp][i][1]))'
  <2>1. UNCHANGED log \/ \E tq \in TPs : queue[tq] # <<>> /\ Write(tq)
    BY DEF Next, Connect, Handle, HandleFault, Read, ReadFails, Answer, Enqueue, Wake, Drop,
           AnswerFails, PublishFails, Timeout, Deliver, DeliverTwice, GiveUp,
           Crash, Quit, Exit, Restart, CloseWriter, vars
  <2> QED
    BY <1>2, <1>5, <2>1, LoggedWereAnswered
<1> QED
  BY <1>1, <1>3, <1>4, <1>5 DEF Inv7, PublishingAnswered, OnlyAnsweredArePublished

\* What is in Kafka or on its way there are events of CALLs that were answered: one
\* for which MakeCallResult or WriteMessage fails leaves nothing behind
\* (OnlyAnsweredArePublished).
THEOREM UnansweredLeavesNothing == Spec => []OnlyAnsweredArePublished
<1>1. Init => Inv7
  <2> SUFFICES ASSUME Init
               PROVE  PublishingAnswered /\ OnlyAnsweredArePublished
    BY InitInv1 DEF Inv7
  <2>1. \A c \in Conns : h[c].pc = "new"
    BY DEF Init
  <2>2. \A tp \in TPs : log[tp] = <<>> /\ queue[tp] = <<>>
    BY DEF Init
  <2> QED
    BY <2>1, <2>2 DEF PublishingAnswered, OnlyAnsweredArePublished, At
<1>2. Inv7 => OnlyAnsweredArePublished
  BY DEF Inv7
<1> QED
  BY <1>1, <1>2, NextInv7, PTL DEF Spec
=============================================================================
