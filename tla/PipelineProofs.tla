---------------------------- MODULE PipelineProofs ----------------------------
(***************************************************************************)
(* Proof that the platform loses no more messages than its calls fail,     *)
(* from what is proved of the gateway and of the state-processor alone.    *)
(***************************************************************************)
EXTENDS Pipeline, TLAPS, FiniteSetTheorems

GP == INSTANCE GatewayProofs WITH
          Budget <- GatewayBudget, log <- kafka, used <- gatewayUsed
SP == INSTANCE StateProcessorLossProofs WITH
          Events <- {EventOf[ev] : ev \in DOMAIN EventOf},
          Feeds <- {<<>>}, feed <- <<>>, log <- Consumed,
          Chargers <- DOMAIN PartitionOf, Budget <- ProcessorBudget, used <- processorUsed

-----------------------------------------------------------------------------
(* The assumptions of the two modules hold.                                *)

LEMMA GatewayAssumed ==
    /\ Script \in [Conns -> Seq(GP!Frames)]
    /\ ChargerOf \in [Conns -> DOMAIN PartitionOf]
    /\ PartitionOf \in [DOMAIN PartitionOf -> Partitions]
    /\ GatewayBudget \in [GP!Kinds -> Nat]
BY GatewayAssumption DEF G!Frames, G!Actions, G!Calls, G!Kinds,
                         GP!Frames, GP!Actions, GP!Calls, GP!Kinds

Published == {EventOf[ev] : ev \in DOMAIN EventOf}
LEMMA ProcessorAssumed ==
    /\ \A e \in Published : /\ e.charger \in DOMAIN PartitionOf
                            /\ e.conn \in Connectors
                            /\ e.type \in SP!Types
                            /\ e.ts \in Nat
                            /\ e.body \in SP!Bodies
    /\ {<<>>} \subseteq Seq(Published)
    /\ 0 \in Connectors /\ Connectors \subseteq Nat
    /\ PartitionOf \in [DOMAIN PartitionOf -> Partitions]
    /\ Second \in Nat \ {0}
    /\ ProcessorBudget \in [SP!Kinds -> Nat]
    /\ None \notin Published
<1>1. \A ev \in DOMAIN EventOf : ev \in Frames /\ G!TopicOf(G!FrameOf(ev)) # ""
  BY EventAssumption, Zenon
<1>2. \A ev \in DOMAIN EventOf : EventOf[ev].charger \in DOMAIN PartitionOf
  <2>1. \A ev \in Frames : ev[1] \in Conns
    BY DEF Frames
  <2> QED
    BY <1>1, <2>1, EventAssumption, GatewayAssumption DEF G!Key
<1>3. \A ev \in DOMAIN EventOf : EventOf[ev].type \in SP!Types
  BY <1>1, EventAssumption DEF G!TopicOf, SP!Types
<1>4. \A ev \in DOMAIN EventOf : EventOf[ev].body \in SP!Bodies
  BY EventAssumption DEF S!Bodies, SP!Bodies
<1>5. {<<>>} \subseteq Seq(Published)
  OBVIOUS
<1>6. ProcessorBudget \in [SP!Kinds -> Nat]
  BY ProcessorAssumption DEF S!Kinds, SP!Kinds
<1>7. \A ev \in DOMAIN EventOf : EventOf[ev].conn \in Connectors /\ EventOf[ev].ts \in Nat
  BY EventAssumption
<1> QED
  BY <1>2, <1>3, <1>4, <1>5, <1>6, <1>7, ProcessorAssumption, GatewayAssumption DEF Published

-----------------------------------------------------------------------------
(* What the two modules prove.                                             *)

LEMMA GatewayKeeps ==
    ASSUME GP!Inv3, GP!Inv6, [GP!Next]_(GP!vars)
    PROVE  GP!Inv3' /\ GP!Inv6'
<1>1. GP!Inv3'
  BY GatewayAssumed, GP!NextInv3
<1>2. GP!Inv6'
  BY GatewayAssumed, GP!NextInv6
<1> QED
  BY <1>1, <1>2

LEMMA ProcessorKeeps ==
    ASSUME SP!Inv7, [SP!Next]_(SP!vars)
    PROVE  SP!Inv7'
BY ProcessorAssumed, SP!Inv7Step DEF Published

LEMMA ProcessorTakes ==
    ASSUME SP!Inv7, NEW e \in Published, SP!Arrives(e)
    PROVE  SP!Inv7'
BY ProcessorAssumed, SP!ArriveInv7 DEF Published

-----------------------------------------------------------------------------
(* The steps of the platform are steps of the one or the other.            *)

LEMMA GatewaySteps == G!Next => GP!Next
BY DEF G!Topics, GP!Topics, G!Kinds, GP!Kinds, G!TPs, GP!TPs, G!Parses, GP!Parses,
       G!IsCall, GP!IsCall, G!Answerable, GP!Answerable, G!TopicOf, GP!TopicOf, G!Key,
       GP!Key, G!FrameOf, GP!FrameOf, G!TpOf, GP!TpOf, G!sockets, GP!sockets,
       G!process, GP!process, G!vars, GP!vars, G!At, GP!At, G!GoTo, GP!GoTo, G!Spend,
       GP!Spend, G!Event, GP!Event, G!Queued, GP!Queued, G!Connect, GP!Connect,
       G!Drop, GP!Drop, G!ReadFails, GP!ReadFails, G!NewTx, GP!NewTx, G!Read, GP!Read, G!AfterRead, GP!AfterRead,
       G!AfterAnswer, GP!AfterAnswer, G!Answer, GP!Answer, G!AfterFailedAnswer,
       GP!AfterFailedAnswer, G!AnswerFails, GP!AnswerFails, G!Enqueue, GP!Enqueue,
       G!PublishFails, GP!PublishFails, G!Wake, GP!Wake, G!LeftAtDeadline,
       GP!LeftAtDeadline, G!Timeout, GP!Timeout, G!Handle, GP!Handle, G!HandleFault,
       GP!HandleFault, G!Write, GP!Write, G!Dequeue, GP!Dequeue, G!Deliver,
       GP!Deliver, G!DeliverTwice, GP!DeliverTwice, G!GiveUp, GP!GiveUp, G!Restart,
       GP!Restart, G!Crash, GP!Crash, G!Quit, GP!Quit, G!Drained, GP!Drained,
       G!CloseWriter, GP!CloseWriter, G!Exit, GP!Exit, G!Next, GP!Next

LEMMA ProcessorSteps == S!Next => SP!Next
BY DEF S!Topics, SP!Topics, S!Kinds, SP!Kinds, S!Msgs, SP!Msgs, S!TPs, SP!TPs,
       S!Readers, SP!Readers, S!TopicOf, SP!TopicOf, S!TpOf, SP!TpOf, S!Fields,
       SP!Fields, S!Slots, SP!Slots, S!Conn, SP!Conn, S!Charger, SP!Charger, S!Cmd,
       SP!Cmd, S!Apply, SP!Apply, S!Touch, SP!Touch, S!MarkUp, SP!MarkUp, S!AddConn,
       SP!AddConn, S!List, SP!List, S!BootPipe, SP!BootPipe, S!HeartbeatPipe,
       SP!HeartbeatPipe, S!StatusPipe, SP!StatusPipe, S!MeterPipe, SP!MeterPipe,
       S!StartPipe, SP!StartPipe, S!StopConn, SP!StopConn, S!FreeConn, SP!FreeConn,
       S!StopPipe, SP!StopPipe, S!Pipe, SP!Pipe, S!Trunc, SP!Trunc, S!IsNewer,
       SP!IsNewer, S!GuardSlot, SP!GuardSlot, S!kafka, SP!kafka, S!vars, SP!vars,
       S!Idle, SP!Idle, S!At, SP!At, S!Become, SP!Become, S!GoTo, SP!GoTo, S!GiveUp,
       SP!GiveUp, S!Spend, SP!Spend, S!Produce, SP!Produce, S!Fetch, SP!Fetch,
       S!Taken, SP!Taken, S!Claim, SP!Claim, S!Dedup, SP!Dedup, S!DedupFails,
       SP!DedupFails, S!DedupRetried, SP!DedupRetried, S!Rejected, SP!Rejected,
       S!NothingToShow, SP!NothingToShow, S!ReadsFirst, SP!ReadsFirst, S!BeginUpdate,
       SP!BeginUpdate, S!HistoryErrorReturned, SP!HistoryErrorReturned, S!Record,
       SP!Record, S!WriteHistory, SP!WriteHistory, S!HistoryFails, SP!HistoryFails,
       S!Passes, SP!Passes, S!ReadLatest, SP!ReadLatest, S!ReadStart, SP!ReadStart,
       S!ReadKind, SP!ReadKind, S!ReadFails, SP!ReadFails, S!AddSession,
       SP!AddSession, S!InsertCdr, SP!InsertCdr, S!CdrFails, SP!CdrFails, S!Command,
       SP!Command, S!LastCommand, SP!LastCommand, S!PipeStep, SP!PipeStep,
       S!PipeFails, SP!PipeFails, S!PipeRetried, SP!PipeRetried, S!Commit, SP!Commit,
       S!CommitFails, SP!CommitFails, S!Crash, SP!Crash, S!Rebalance, SP!Rebalance,
       S!DedupExpires, SP!DedupExpires, S!TxExpires, SP!TxExpires, S!Advance,
       SP!Advance, S!Fault, SP!Fault, S!Environment, SP!Environment, S!Next, SP!Next

-----------------------------------------------------------------------------
(* What Kafka passes from the one to the other.                            *)

\* A step of the gateway that puts nothing into Kafka is none of the
\* state-processor.
LEMMA NothingDelivered ==
    ASSUME UNCHANGED kafka, UNCHANGED processor
    PROVE  UNCHANGED SP!vars
BY DEF processor, Consumed, SP!vars, SP!kafka

LEMMA OnlyDeliver ==
    ASSUME GP!Next
    PROVE  \/ UNCHANGED kafka
           \/ \E tp \in GP!TPs : GP!Deliver(tp) \/ GP!DeliverTwice(tp)
<1>1. ASSUME NEW c \in Conns, GP!Connect(c) \/ GP!Handle(c) \/ GP!HandleFault(c)
      PROVE  UNCHANGED kafka
  BY <1>1 DEF GP!Connect, GP!Handle, GP!HandleFault, GP!Read, GP!ReadFails, GP!Answer,
              GP!Enqueue, GP!Wake, GP!Drop, GP!AnswerFails, GP!PublishFails, GP!Timeout
<1>2. ASSUME GP!Crash \/ GP!Quit \/ GP!Exit
      PROVE  UNCHANGED kafka
  BY <1>2 DEF GP!Crash, GP!Quit, GP!Exit, GP!Restart
<1>3. ASSUME NEW t \in GP!Topics, GP!CloseWriter(t)
      PROVE  UNCHANGED kafka
  BY <1>3 DEF GP!CloseWriter
<1>4. ASSUME NEW tp \in GP!TPs, GP!GiveUp(tp)
      PROVE  UNCHANGED kafka
  BY <1>4 DEF GP!GiveUp
<1> QED
  BY <1>1, <1>2, <1>3, <1>4 DEF GP!Next

LEMMA SamePartitions == GP!TPs = SP!TPs
BY DEF GP!TPs, SP!TPs, GP!Topics, SP!Topics

\* What the gateway queues has an event, and the gateway and the
\* state-processor agree on its partition.
LEMMA QueuedHasEvent ==
    ASSUME GP!Inv6, NEW tp \in GP!TPs, NEW i \in DOMAIN queue[tp]
    PROVE  /\ queue[tp][i] \in DOMAIN EventOf
           /\ SP!TpOf(EventOf[queue[tp][i]]) = tp
<1> DEFINE ev == queue[tp][i]
<1>1. /\ queue[tp] \in Seq(GP!Events)
      /\ GP!QueuedOK(queue[tp], tp)
  BY DEF GP!Inv6, GP!FlowOK, GP!Inv1, GP!TypeOK
<1>2. /\ ev \in GP!Events /\ ev[1] \in Conns /\ ev[2] \in DOMAIN Script[ev[1]]
      /\ GP!TpOf(ev) = tp
  <2>1. ev \in GP!Events
    BY <1>1
  <2>2. ev[1] \in Conns /\ ev[2] \in DOMAIN Script[ev[1]] /\ GP!TpOf(ev) = tp
    BY <1>1, Zenon DEF GP!QueuedOK
  <2> QED
    BY <2>1, <2>2
<1>3. GP!Answerable(GP!FrameOf(ev)) /\ GP!TopicOf(GP!FrameOf(ev)) # ""
  BY <1>1, Zenon DEF GP!QueuedOK
<1>4. ev \in Frames
  BY <1>2 DEF Frames, GP!Events
<1>5. G!Answerable(G!FrameOf(ev)) /\ G!TopicOf(G!FrameOf(ev)) # ""
  BY <1>3, Zenon DEF G!Answerable, G!IsCall, G!Parses, G!FrameOf, G!TopicOf,
                     GP!Answerable, GP!IsCall, GP!Parses, GP!FrameOf, GP!TopicOf
<1>6. ev \in DOMAIN EventOf
  BY <1>4, <1>5, EventAssumption, Zenon
<1>7. EventOf[ev].type = GP!FrameOf(ev).action /\ EventOf[ev].charger = GP!Key(ev)
  BY <1>6, EventAssumption DEF G!FrameOf, GP!FrameOf, G!Key, GP!Key
<1>8. SP!TopicOf(EventOf[ev].type) = GP!TopicOf(GP!FrameOf(ev))
  <2>1. EventOf[ev].type \in SP!Types
    BY <1>6, ProcessorAssumed DEF Published
  <2> QED
    BY <1>7, <2>1 DEF SP!TopicOf, GP!TopicOf, SP!Types
<1> QED
  BY <1>2, <1>6, <1>7, <1>8 DEF SP!TpOf, GP!TpOf

LEMMA MapAppend ==
    ASSUME NEW s \in Seq(GP!Events), NEW ev \in GP!Events
    PROVE  [i \in DOMAIN Append(s, ev) |-> EventOf[Append(s, ev)[i]]]
               = Append([i \in DOMAIN s |-> EventOf[s[i]]], EventOf[ev])
<1> DEFINE t == Append(s, ev)
           m == [i \in 1..Len(s) |-> EventOf[s[i]]]
<1>1. /\ DOMAIN t = 1..(Len(s) + 1) /\ t[Len(s) + 1] = ev /\ Len(s) \in Nat
      /\ DOMAIN s = 1..Len(s) /\ \A i \in 1..Len(s) : t[i] = s[i]
  OBVIOUS
<1>2. m \in Seq({EventOf[s[i]] : i \in 1..Len(s)}) /\ Len(m) = Len(s)
  BY <1>1
<1>3. Append(m, EventOf[ev]) = [i \in 1..(Len(s) + 1) |->
                                   IF i = Len(s) + 1 THEN EventOf[ev] ELSE EventOf[s[i]]]
  BY <1>1, <1>2
<1> QED
  BY <1>1, <1>3

\* What the gateway's writer puts into a partition arrives there as an event.
LEMMA DeliveredArrives ==
    ASSUME GP!Inv6, NEW tp \in GP!TPs, GP!Deliver(tp) \/ GP!DeliverTwice(tp),
           UNCHANGED processor
    PROVE  \E e \in Published : SP!Arrives(e)
<1> DEFINE ev == Head(queue[tp])
           e  == EventOf[ev]
<1>1. queue[tp] \in Seq(GP!Events) /\ queue[tp] # <<>>
  BY DEF GP!Inv6, GP!Inv1, GP!TypeOK, GP!Deliver, GP!DeliverTwice
<1>2. 1 \in DOMAIN queue[tp] /\ ev = queue[tp][1]
  BY <1>1
<1>3. ev \in DOMAIN EventOf /\ SP!TpOf(e) = tp
  BY <1>2, QueuedHasEvent
<1> HIDE DEF ev
<1>4. kafka' = [kafka EXCEPT ![tp] = Append(@, ev)] /\ kafka \in [GP!TPs -> Seq(GP!Events)]
  BY DEF GP!Deliver, GP!DeliverTwice, GP!Write, GP!Inv6, GP!Inv1, GP!TypeOK, ev
<1>5. ev \in GP!Events
  BY <1>1 DEF ev
<1>6. /\ DOMAIN Consumed = GP!TPs /\ DOMAIN Consumed' = GP!TPs
      /\ \A tq \in GP!TPs : tq # tp => Consumed'[tq] = Consumed[tq]
  BY <1>4 DEF Consumed
<1>7. Consumed'[tp] = Append(Consumed[tp], e)
  <2> DEFINE s == kafka[tp]
  <2>1. s \in Seq(GP!Events) /\ kafka'[tp] = Append(s, ev)
    BY <1>4
  <2>2. /\ Consumed[tp] = [i \in DOMAIN s |-> EventOf[s[i]]]
        /\ Consumed'[tp] = [i \in DOMAIN Append(s, ev) |-> EventOf[Append(s, ev)[i]]]
    BY <1>4, <2>1 DEF Consumed
  <2> HIDE DEF s
  <2>3. [i \in DOMAIN Append(s, ev) |-> EventOf[Append(s, ev)[i]]]
           = Append([i \in DOMAIN s |-> EventOf[s[i]]], EventOf[ev])
    BY <1>5, <2>1, MapAppend
  <2> QED
    BY <2>2, <2>3
<1>8. Consumed' = [Consumed EXCEPT ![SP!TpOf(e)] = Append(@, e)]
  BY <1>3, <1>6, <1>7 DEF Consumed
<1>9. SP!Arrives(e)
  BY <1>8 DEF SP!Arrives, processor
<1> QED
  BY <1>3, <1>9 DEF Published

-----------------------------------------------------------------------------
(* The platform keeps what its parts keep.                                 *)

PlatformInv == GP!Inv3 /\ GP!Inv6 /\ SP!Inv7

LEMMA InitPlatform == Init => PlatformInv
<1> SUFFICES ASSUME Init PROVE PlatformInv
  OBVIOUS
<1>1. GP!Init
  BY DEF Init, G!Init, GP!Init, G!TPs, GP!TPs, G!Topics, GP!Topics, G!Kinds, GP!Kinds
<1>2. GP!Inv3 /\ GP!Inv6
  BY <1>1, GatewayAssumed, GP!InitInv3, GP!InitInv6
<1>3. SP!Init
  BY DEF Init, S!Init, SP!Init, S!TPs, SP!TPs, S!Topics, SP!Topics, S!Kinds, SP!Kinds,
         S!Readers, SP!Readers, S!Idle, SP!Idle, S!Slots, SP!Slots, S!Fields, SP!Fields
<1>4. SP!Inv7
  BY <1>3, ProcessorAssumed, SP!InitInv7 DEF Published
<1> QED
  BY <1>2, <1>4 DEF PlatformInv

LEMMA NextPlatform == PlatformInv /\ [Next]_vars => PlatformInv'
<1> SUFFICES ASSUME PlatformInv, [Next]_vars PROVE PlatformInv'
  OBVIOUS
<1> USE DEF PlatformInv
<1>1. CASE GatewayStep
  <2>1. GP!Next /\ UNCHANGED processor
    BY <1>1, GatewaySteps DEF GatewayStep
  <2>2. GP!Inv3' /\ GP!Inv6'
    BY <2>1, GatewayKeeps
  <2>3. CASE UNCHANGED kafka
    BY <2>1, <2>2, <2>3, NothingDelivered, ProcessorKeeps
  <2>4. ASSUME NEW tp \in GP!TPs, GP!Deliver(tp) \/ GP!DeliverTwice(tp)
        PROVE  PlatformInv'
    BY <2>1, <2>2, <2>4, DeliveredArrives, ProcessorTakes
  <2> QED
    BY <2>1, <2>3, <2>4, OnlyDeliver
<1>2. CASE ProcessorStep
  <2>1. SP!Next /\ UNCHANGED GP!vars
    BY <1>2, ProcessorSteps DEF ProcessorStep, gateway, GP!vars, GP!sockets, GP!process
  <2> QED
    BY <2>1, GatewayKeeps, ProcessorKeeps
<1>3. CASE UNCHANGED vars
  <2>1. UNCHANGED GP!vars /\ UNCHANGED kafka /\ UNCHANGED processor
    BY <1>3 DEF vars, gateway, GP!vars, GP!sockets, GP!process
  <2>2. UNCHANGED SP!vars
    BY <2>1, NothingDelivered
  <2> QED
    BY <2>1, <2>2, GatewayKeeps, ProcessorKeeps
<1> QED
  BY <1>1, <1>2, <1>3 DEF Next

-----------------------------------------------------------------------------
(* The modules count alike.                                                *)

LEMMA SameFinite ==
    \A T : /\ GP!IsFiniteSet(T) <=> IsFiniteSet(T)
           /\ SP!IsFiniteSet(T) <=> IsFiniteSet(T)
BY DEF GP!IsFiniteSet, SP!IsFiniteSet, IsFiniteSet

LEMMA SameCardinality ==
    \A T : GP!Cardinality(T) = Cardinality(T) /\ SP!Cardinality(T) = Cardinality(T)
BY DEF GP!Cardinality, SP!Cardinality, Cardinality, GP!IsFiniteSet, SP!IsFiniteSet, IsFiniteSet

-----------------------------------------------------------------------------
(* Where a lost message got lost.                                          *)

MessagesOf(T) == {EventOf[ev].msg : ev \in T}

LEMMA MessagesCount ==
    ASSUME NEW T, IsFiniteSet(T)
    PROVE  IsFiniteSet(MessagesOf(T)) /\ Cardinality(MessagesOf(T)) <= Cardinality(T)
<1> DEFINE f == [ev \in T |-> EventOf[ev].msg]
<1>1. f \in Surjection(T, MessagesOf(T))
  BY DEF Surjection, MessagesOf
<1> QED
  BY <1>1, FS_Surjection

\* Either the gateway gave its publication up, or it is in a partition, behind
\* the group, and no goroutine has it.
LEMMA GoneAbandonedOrDoomed ==
    ASSUME PlatformInv, NEW ev \in Gone
    PROVE  ev \in GP!Abandoned \/ EventOf[ev].msg \in SP!Doomed
<1>1. /\ ev \in DOMAIN EventOf /\ \E i \in DOMAIN replies : replies[i].ev = ev
      /\ ~(h[ev[1]].k = ev[2] /\ h[ev[1]].pc = "publish")
      /\ ~G!Queued(ev)
      /\ \A i \in DOMAIN kafka[G!TpOf(ev)] :
             kafka[G!TpOf(ev)][i] = ev => i <= pos[G!TpOf(ev)]
      /\ ~S!InFlight(EventOf[ev].msg) /\ ~Recorded(ev)
  BY DEF Gone, Answered
<1>2. G!TpOf(ev) = GP!TpOf(ev) /\ (G!TopicOf(G!FrameOf(ev)) # "" => GP!TopicOf(GP!FrameOf(ev)) # "")
  BY Zenon DEF G!TpOf, GP!TpOf, G!TopicOf, GP!TopicOf, G!FrameOf, GP!FrameOf, G!Key, GP!Key
<1>3. ev \in GP!Acknowledged
  <2>1. GP!TopicOf(GP!FrameOf(ev)) # ""
    BY <1>1, <1>2, EventAssumption, Zenon
  <2>2. ev \in {replies[i].ev : i \in DOMAIN replies}
    BY <1>1
  <2> QED
    BY <2>1, <2>2, Zenon DEF GP!Acknowledged
<1>4. ~GP!Publishing(ev) /\ ~GP!Queued(ev)
  <2>1. ~GP!Queued(ev)
    BY <1>1, <1>2 DEF G!Queued, GP!Queued
  <2>2. ASSUME GP!Publishing(ev) PROVE FALSE
    <3>1. <<ev[1], h[ev[1]].k>> = ev /\ h[ev[1]].pc = "publish"
      BY <2>2 DEF GP!Publishing, GP!Event, GP!At
    <3>2. h[ev[1]].k = ev[2]
      BY <3>1
    <3> QED
      BY <1>1, <3>1, <3>2
  <2> QED
    BY <2>1, <2>2
<1>5. CASE ~GP!InLog(ev)
  BY <1>3, <1>4, <1>5 DEF GP!Abandoned, GP!Published
<1>6. CASE GP!InLog(ev)
  <2> DEFINE tp == GP!TpOf(ev)
             m  == EventOf[ev].msg
  <2>1. PICK i \in DOMAIN kafka[tp] : kafka[tp][i] = ev
    BY <1>6 DEF GP!InLog
  <2>2. i <= pos[tp]
    BY <1>1, <1>2, <2>1
  <2>3. tp \in SP!TPs /\ tp \in GP!TPs
    BY <1>3, GatewayAssumed, GP!AcknowledgedType, SamePartitions
       DEF PlatformInv, GP!Inv3
  <2> HIDE DEF tp
  <2>4. kafka \in [GP!TPs -> Seq(GP!Events)]
    BY DEF PlatformInv, GP!Inv3, GP!Inv1, GP!TypeOK
  <2>5. DOMAIN Consumed[tp] = DOMAIN kafka[tp] /\ Consumed[tp][i] = EventOf[ev]
    BY <2>1, <2>3, <2>4 DEF Consumed
  <2>6. SP!Behind(m)
    BY <2>1, <2>2, <2>3, <2>5 DEF SP!Behind, SP!Reached
  <2>7. ~SP!InFlight(m) /\ ~SP!Recorded(m)
    BY <1>1 DEF S!InFlight, SP!InFlight, Recorded, S!Recorded, SP!Recorded,
                S!Readers, SP!Readers, S!Topics, SP!Topics
  <2>8. m \in SP!Msgs
    BY <1>1 DEF SP!Msgs
  <2> QED
    BY <2>6, <2>7, <2>8 DEF SP!Doomed
<1> QED
  BY <1>5, <1>6

\* From the answer that a charger gets to the row in event_history no more
\* messages are lost than publications given up, calls of the state-processor
\* that fail, SETNX sent twice, and goroutines of crashed processes, unless the
\* gateway ends (LossEndToEnd).
THEOREM CallsAreLostOnlyToFailures == Spec => []LossEndToEnd
<1>1. PlatformInv => LossEndToEnd
  <2> SUFFICES ASSUME PlatformInv, gatewayUsed["restart"] = 0
               PROVE  Cardinality(MessagesOf(Gone)) <=
                         gatewayUsed["publish"] + processorUsed["error"]
                         + processorUsed["retry"]
                         + Cardinality(S!Topics) * processorUsed["crash"]
    BY DEF LossEndToEnd, MessagesOf
  <2> DEFINE A == MessagesOf(GP!Abandoned)
             n == Cardinality(A \union SP!Doomed)
  <2>1. /\ IsFiniteSet(GP!Abandoned) /\ Cardinality(GP!Abandoned) <= gatewayUsed["publish"]
        /\ gatewayUsed["publish"] \in Nat
    BY SameFinite, SameCardinality
       DEF PlatformInv, GP!Inv3, GP!AbandonedOK, GP!Inv1, GP!TypeOK, GP!Kinds
  <2>2. IsFiniteSet(A) /\ Cardinality(A) <= Cardinality(GP!Abandoned)
    BY <2>1, MessagesCount
  <2>3. IsFiniteSet(SP!Doomed) /\ Cardinality(SP!Doomed) <= SP!Losses
    BY SameFinite, SameCardinality DEF PlatformInv, SP!Inv7
  <2>4. MessagesOf(Gone) \subseteq A \union SP!Doomed
    BY GoneAbandonedOrDoomed DEF MessagesOf
  <2> HIDE DEF A
  <2>5. /\ IsFiniteSet(A \union SP!Doomed)
        /\ n = Cardinality(A) + Cardinality(SP!Doomed) - Cardinality(A \cap SP!Doomed)
    BY <2>2, <2>3, FS_Union
  <2>6. Cardinality(MessagesOf(Gone)) <= n /\ IsFiniteSet(MessagesOf(Gone))
    BY <2>4, <2>5, FS_Subset
  <2>7. IsFiniteSet(A \cap SP!Doomed)
    BY <2>2, FS_Intersection
  <2>8. /\ Cardinality(A) \in Nat /\ Cardinality(SP!Doomed) \in Nat
        /\ Cardinality(A \cap SP!Doomed) \in Nat
        /\ Cardinality(GP!Abandoned) \in Nat /\ n \in Nat
        /\ Cardinality(MessagesOf(Gone)) \in Nat
    BY <2>1, <2>2, <2>3, <2>5, <2>6, <2>7, FS_CardinalityType
  <2>9. SP!Losses \in Nat
    BY ProcessorAssumed, SP!LossesType DEF Published, PlatformInv, SP!Inv7
  <2>10. SP!Losses = processorUsed["error"] + processorUsed["retry"]
                        + Cardinality(S!Topics) * processorUsed["crash"]
    BY SameCardinality DEF SP!Losses, SP!Topics, S!Topics
  <2> HIDE DEF n
  <2>11. Cardinality(MessagesOf(Gone)) <= gatewayUsed["publish"] + SP!Losses
    BY <2>1, <2>2, <2>3, <2>5, <2>6, <2>8, <2>9
  <2>12. /\ processorUsed["error"] \in Nat /\ processorUsed["retry"] \in Nat
         /\ Cardinality(S!Topics) * processorUsed["crash"] \in Nat
    <3>1. /\ processorUsed["error"] \in Nat /\ processorUsed["retry"] \in Nat
          /\ processorUsed["crash"] \in Nat
      BY DEF PlatformInv, SP!Inv7, SP!Inv1, SP!TypeOK, SP!Kinds
    <3>2. Cardinality(S!Topics) \in Nat
      BY ProcessorAssumed, SP!TopicsFinite, SameCardinality DEF Published, S!Topics, SP!Topics
    <3> QED
      BY <3>1, <3>2
  <2> QED
    BY <2>1, <2>8, <2>10, <2>11, <2>12
<1> QED
  BY <1>1, InitPlatform, NextPlatform, PTL DEF Spec
=============================================================================
