------------------------ MODULE StateProcessorProofs ------------------------
(***************************************************************************)
(* Proofs of the properties of StateProcessorProperties, for any events,   *)
(* feeds, chargers, connectors, partitions, instances and fault budgets.   *)
(***************************************************************************)
EXTENDS StateProcessorProperties, TLAPS

CommandRecord == [slots : SUBSET Slots, val : Events \union {None}]

\* Every command of a pipeline writes slots of Redis with an event, or with
\* None where it deletes, and no pipeline is empty.
LEMMA PipeType ==
    ASSUME NEW e \in Events, NEW start \in Events \union {None}
    PROVE  /\ Pipe(e, start) \in Seq(CommandRecord)
           /\ Len(Pipe(e, start)) \in Nat \ {0}
<1> USE DEF CommandRecord, Cmd
<1>1. e.charger \in Chargers /\ e.conn \in Connectors /\ 0 \in Connectors
  BY EventsAssumption, ConnectorAssumption
<1>2. \A f \in Fields : Conn(f, e) \in Slots /\ Charger(f, e) \in Slots
  BY <1>1 DEF Conn, Charger, Slots
<1>3. <<"active", e.charger, StopConn(e, start)>> \in Slots
  BY <1>1, EventsAssumption DEF StopConn, Slots, Fields
<1>4. /\ Touch(e) \in CommandRecord /\ MarkUp(e) \in CommandRecord
      /\ AddConn(e) \in CommandRecord /\ List(e) \in CommandRecord
      /\ FreeConn(e, start) \in CommandRecord
  BY <1>2, <1>3 DEF Touch, MarkUp, AddConn, List, FreeConn, Fields
<1>5. /\ \A f \in Fields : Cmd({Conn(f, e)}, e) \in CommandRecord
      /\ \A f \in Fields : Cmd({Charger(f, e)}, e) \in CommandRecord
      /\ Cmd({Charger("boot", e), Charger("online", e), Charger("seen", e)}, e)
            \in CommandRecord
      /\ Cmd({Charger("tx", e), Charger("txttl", e)}, None) \in CommandRecord
  BY <1>2 DEF Fields
<1> HIDE DEF CommandRecord, Cmd
<1> DEFINE IsPipe(p) == p \in Seq(CommandRecord) /\ Len(p) \in Nat \ {0}
<1>6. IsPipe(BootPipe(e))
  BY <1>5 DEF BootPipe
<1>7. IsPipe(HeartbeatPipe(e))
  BY <1>4 DEF HeartbeatPipe
<1>8. IsPipe(StatusPipe(e))
  BY <1>4, <1>5 DEF StatusPipe, Fields
<1>9. IsPipe(MeterPipe(e))
  BY <1>4, <1>5 DEF MeterPipe, Fields
<1>10. IsPipe(StartPipe(e))
  BY <1>4, <1>5 DEF StartPipe, Fields
<1>11. IsPipe(StopPipe(e, start))
  BY <1>4, <1>5 DEF StopPipe
<1> HIDE DEF IsPipe
<1>12. IsPipe(Pipe(e, start))
  BY <1>6, <1>7, <1>8, <1>9, <1>10, <1>11 DEF Pipe
<1> QED
  BY <1>12 DEF IsPipe

LEMMA TopicType == \A e \in Events : TpOf(e) \in TPs
BY EventsAssumption, PartitionAssumption DEF TpOf, TPs, TopicOf, Topics


\* A goroutine at work holds an event of its topic, and in a pipeline it is at
\* one of its commands.
ReaderOK(r, w) ==
    /\ w.pc # "idle" => w.ev \in Events /\ TopicOf(w.ev.type) = r[2]
    /\ w.pc = "cdr" => w.start \in Events /\ w.n = 1
    /\ w.pc = "pipe" => w.n \in 1..Len(Pipe(w.ev, w.start))
WorkOK == \A r \in Readers : ReaderOK(r, work[r])

\* A partition holds the events that hash to it.
LogOK == \A tp \in TPs : \A k \in DOMAIN log[tp] : TpOf(log[tp][k]) = tp

Inv1 == TypeOK /\ WorkOK /\ LogOK

WorkInv == work \in [Readers -> WorkRecord] /\ WorkOK

LEMMA IdleOK == Idle \in WorkRecord /\ \A r \in Readers : ReaderOK(r, Idle)
BY DEF Idle, WorkRecord, PCs, ReaderOK

LEMMA BecomeOK ==
    ASSUME WorkInv, NEW r \in Readers, NEW w \in WorkRecord, ReaderOK(r, w),
           Become(r, w)
    PROVE  WorkInv'
BY DEF WorkInv, WorkOK, Become

LEMMA GiveUpOK ==
    ASSUME WorkInv, NEW r \in Readers, GiveUp(r)
    PROVE  WorkInv'
BY IdleOK, BecomeOK DEF GiveUp

\* going to a place where nothing more is asked of the record
LEMMA GoToOK ==
    ASSUME WorkInv, NEW r \in Readers, work[r].pc # "idle",
           NEW pc \in {"history", "read", "commit"}, GoTo(r, pc)
    PROVE  WorkInv'
<1> DEFINE w == [work[r] EXCEPT !.pc = pc]
<1>1. w \in WorkRecord /\ ReaderOK(r, w)
  BY DEF WorkInv, WorkOK, WorkRecord, PCs, ReaderOK
<1> QED
  BY <1>1, BecomeOK DEF GoTo

\* starting the pipeline of the event at hand, with or without a start
LEMMA ToPipeOK ==
    ASSUME WorkInv, NEW r \in Readers, work[r].pc # "idle",
           NEW start \in Events \union {None},
           NEW pc \in {"pipe", "cdr"}, pc = "cdr" => start \in Events,
           Become(r, [work[r] EXCEPT !.pc = pc, !.start = start, !.n = 1])
    PROVE  WorkInv'
<1> DEFINE w == [work[r] EXCEPT !.pc = pc, !.start = start, !.n = 1]
<1>1. work[r].ev \in Events
  BY DEF WorkInv, WorkOK, ReaderOK
<1>2. 1 \in 1..Len(Pipe(work[r].ev, start))
  BY <1>1, PipeType
<1>3. w \in WorkRecord /\ w.ev = work[r].ev /\ w.start = start
      /\ w.n = 1 /\ w.pc = pc
  BY DEF WorkInv, WorkRecord, PCs
<1>4. ReaderOK(r, w)
  BY <1>2, <1>3 DEF WorkInv, WorkOK, ReaderOK
<1> QED
  BY <1>3, <1>4, BecomeOK

\* the same, with the start the goroutine already has
LEMMA RestartPipeOK ==
    ASSUME WorkInv, NEW r \in Readers, work[r].pc # "idle",
           Become(r, [work[r] EXCEPT !.pc = "pipe", !.n = 1])
    PROVE  WorkInv'
<1> DEFINE w == [work[r] EXCEPT !.pc = "pipe", !.n = 1]
<1>1. work[r].ev \in Events /\ work[r].start \in Events \union {None}
  BY DEF WorkInv, WorkOK, ReaderOK, WorkRecord
<1>2. 1 \in 1..Len(Pipe(work[r].ev, work[r].start))
  BY <1>1, PipeType
<1>3. w \in WorkRecord /\ w.ev = work[r].ev /\ w.start = work[r].start
      /\ w.n = 1 /\ w.pc = "pipe"
  BY DEF WorkInv, WorkRecord, PCs
<1>4. ReaderOK(r, w)
  BY <1>2, <1>3 DEF WorkInv, WorkOK, ReaderOK
<1> QED
  BY <1>3, <1>4, BecomeOK

LEMMA SpendOK ==
    ASSUME used \in [Kinds -> Nat], NEW k \in Kinds, Spend(k)
    PROVE  used' \in [Kinds -> Nat]
BY DEF Spend, Kinds

-----------------------------------------------------------------------------
(* Type correctness                                                        *)

\* A step of Kafka's that hands a goroutine the next event of its partition
LEMMA FetchOK ==
    ASSUME Inv1, NEW r \in Readers, Fetch(r)
    PROVE  Inv1'
<1> USE DEF Inv1, TypeOK
<1>1. PICK p \in Partitions : LET tp == <<r[2], p>> IN
         /\ pos[tp] < Len(log[tp])
         /\ pos' = [pos EXCEPT ![tp] = @ + 1]
         /\ Become(r, [Idle EXCEPT !.pc = "dedup", !.ev = log[tp][pos[tp] + 1],
                                   !.off = pos[tp] + 1])
  BY DEF Fetch
<1> DEFINE tp == <<r[2], p>>
           w  == [Idle EXCEPT !.pc = "dedup", !.ev = log[tp][pos[tp] + 1],
                              !.off = pos[tp] + 1]
<1>2. tp \in TPs
  BY DEF Readers, TPs
<1>3. pos[tp] + 1 \in DOMAIN log[tp] /\ pos[tp] + 1 \in Nat
  BY <1>1, <1>2
<1>4. log[tp][pos[tp] + 1] \in Events
  BY <1>2, <1>3
<1>5. TpOf(log[tp][pos[tp] + 1]) = tp
  BY <1>2, <1>3 DEF LogOK
<1>6. w \in WorkRecord /\ ReaderOK(r, w)
  BY <1>3, <1>4, <1>5 DEF Idle, WorkRecord, PCs, ReaderOK, TpOf
<1>7. WorkInv'
  BY <1>1, <1>6, BecomeOK DEF WorkInv
<1>8. pos' \in [TPs -> Nat]
  BY <1>1, <1>2
<1> QED
  BY <1>7, <1>8 DEF Fetch, WorkInv, LogOK

\* Kafka has one more event, whoever published it.
Arrives(e) ==
    /\ log' = [log EXCEPT ![TpOf(e)] = Append(@, e)]
    /\ feed' \in Seq(Events)
    /\ UNCHANGED <<committed, pos, owner, work, dedup, redis, history, sessions, used>>

LEMMA ProduceArrives ==
    ASSUME Inv1, Produce
    PROVE  Head(feed) \in Events /\ Arrives(Head(feed))
BY DEF Inv1, TypeOK, Produce, Arrives

LEMMA ArriveOK ==
    ASSUME Inv1, NEW e \in Events, Arrives(e)
    PROVE  Inv1'
<1> USE DEF Inv1, TypeOK, Arrives
<1>1. TpOf(e) \in TPs
  BY TopicType
<1>2. log' \in [TPs -> Seq(Events)]
  BY <1>1
<1>3. LogOK'
  BY <1>1 DEF LogOK
<1> QED
  BY <1>2, <1>3 DEF WorkOK

LEMMA EnvironmentOK ==
    ASSUME Inv1, Environment
    PROVE  Inv1'
<1> USE DEF Inv1, TypeOK
<1>1. CASE Produce
  BY <1>1, ProduceArrives, ArriveOK
<1>2. ASSUME NEW i \in Instances, Crash(i)
      PROVE  Inv1'
  <2>1. WorkInv'
    BY <1>2, IdleOK DEF Crash, WorkInv, WorkOK
  <2>2. used' \in [Kinds -> Nat]
    BY <1>2, SpendOK DEF Crash, Kinds
  <2> QED
    BY <1>2, <2>1, <2>2 DEF Crash, WorkInv, LogOK
<1>3. ASSUME NEW i \in Instances, NEW tp \in TPs, Rebalance(tp, i)
      PROVE  Inv1'
  <2>1. used' \in [Kinds -> Nat]
    BY <1>3, SpendOK DEF Rebalance, Kinds
  <2> QED
    BY <1>3, <2>1 DEF Rebalance, WorkOK, LogOK
<1>4. ASSUME NEW m \in Msgs, DedupExpires(m)
      PROVE  Inv1'
  <2>1. used' \in [Kinds -> Nat]
    BY <1>4, SpendOK DEF DedupExpires, Kinds
  <2> QED
    BY <1>4, <2>1 DEF DedupExpires, kafka, WorkOK, LogOK
<1>5. ASSUME NEW c \in Chargers, TxExpires(c)
      PROVE  Inv1'
  <2>1. used' \in [Kinds -> Nat]
    BY <1>5, SpendOK DEF TxExpires, Kinds
  <2>2. redis' \in [Slots -> Events \union {None}]
    BY <1>5 DEF TxExpires, Apply, Cmd
  <2> QED
    BY <1>5, <2>1, <2>2 DEF TxExpires, kafka, WorkOK, LogOK
<1> QED
  BY <1>1, <1>2, <1>3, <1>4, <1>5 DEF Environment

\* After the history is written the goroutine is done, gives up, reads or
\* starts its pipeline.
LEMMA BeginUpdateOK ==
    ASSUME WorkInv, NEW r \in Readers, work[r].pc # "idle",
           Become(r, BeginUpdate(work[r]))
    PROVE  WorkInv'
<1>1. CASE Rejected(work[r].ev)
  BY <1>1, GiveUpOK DEF BeginUpdate, GiveUp
<1>2. CASE BeginUpdate(work[r]) = [work[r] EXCEPT !.pc = "commit"]
  BY <1>2, GoToOK DEF GoTo
<1>3. CASE BeginUpdate(work[r]) = [work[r] EXCEPT !.pc = "read"]
  BY <1>3, GoToOK DEF GoTo
<1>4. CASE BeginUpdate(work[r]) = [work[r] EXCEPT !.pc = "pipe", !.n = 1]
  BY <1>4, RestartPipeOK
<1> QED
  BY <1>1, <1>2, <1>3, <1>4 DEF BeginUpdate

LEMMA ReadStartOK ==
    ASSUME Inv1, NEW r \in Readers, ReadStart(r)
    PROVE  Inv1'
<1> USE DEF Inv1, TypeOK
<1> DEFINE start == redis[Charger("tx", work[r].ev)]
<1>1. work[r].ev \in Events
  BY DEF ReadStart, At, WorkOK, ReaderOK
<1>2. Charger("tx", work[r].ev) \in Slots
  BY <1>1, EventsAssumption, ConnectorAssumption DEF Charger, Slots, Fields
<1>3. start \in Events \union {None}
  BY <1>2
<1>4. WorkInv'
  <2>1. CASE start = None
    <3>1. Become(r, [work[r] EXCEPT !.pc = "pipe", !.start = start, !.n = 1])
      BY <2>1 DEF ReadStart
    <3> QED
      BY <3>1, <1>3, ToPipeOK DEF ReadStart, At, WorkInv
  <2>2. CASE start # None
    <3>1. Become(r, [work[r] EXCEPT !.pc = "cdr", !.start = start, !.n = 1])
      BY <2>2 DEF ReadStart
    <3> QED
      BY <3>1, <1>3, <2>2, ToPipeOK DEF ReadStart, At, WorkInv
  <2> QED
    BY <2>1, <2>2
<1> QED
  BY <1>4 DEF ReadStart, kafka, WorkInv, LogOK

LEMMA PipeStepOK ==
    ASSUME Inv1, NEW r \in Readers, PipeStep(r)
    PROVE  Inv1'
<1> USE DEF Inv1, TypeOK
<1> DEFINE e == work[r].ev
           p == Pipe(e, work[r].start)
           w == [work[r] EXCEPT !.n = @ + 1]
<1>1. e \in Events /\ work[r].start \in Events \union {None}
  BY DEF PipeStep, At, WorkOK, ReaderOK, WorkRecord
<1>2. p \in Seq(CommandRecord) /\ Len(p) \in Nat
  BY <1>1, PipeType
<1>3. work[r].n \in 1..Len(p)
  BY DEF PipeStep, At, WorkOK, ReaderOK
<1>4. Command(work[r]) \in CommandRecord
  BY <1>2, <1>3 DEF Command
<1>5. redis' \in [Slots -> Events \union {None}]
  BY <1>4 DEF PipeStep, Apply, CommandRecord
<1>6. WorkInv'
  <2>1. CASE LastCommand(work[r])
    BY <2>1, GoToOK DEF PipeStep, At, WorkInv
  <2>2. CASE ~LastCommand(work[r])
    <3>1. w \in WorkRecord /\ w.ev = e /\ w.start = work[r].start
          /\ w.n = work[r].n + 1 /\ w.pc = "pipe"
      <4>1. work[r] \in WorkRecord /\ work[r].pc = "pipe"
        BY DEF PipeStep, At
      <4>2. work[r].n + 1 \in Nat
        BY <4>1 DEF WorkRecord
      <4> QED
        BY <4>1, <4>2 DEF WorkRecord
    <3>2. w.n \in 1..Len(p)
      BY <1>2, <1>3, <2>2, <3>1 DEF LastCommand
    <3>3. ReaderOK(r, w)
      BY <3>1, <3>2 DEF PipeStep, At, WorkOK, ReaderOK
    <3> QED
      BY <2>2, <3>1, <3>3, BecomeOK DEF PipeStep, WorkInv
  <2> QED
    BY <2>1, <2>2
<1> QED
  BY <1>5, <1>6 DEF PipeStep, kafka, WorkInv, LogOK

LEMMA AdvanceOK ==
    ASSUME Inv1, NEW r \in Readers, Advance(r)
    PROVE  Inv1'
<1> USE DEF Inv1, TypeOK
<1> DEFINE e == work[r].ev
<1>1. CASE Fetch(r)
  BY <1>1, FetchOK
<1>2. CASE Dedup(r)
  <2>1. WorkInv'
    BY <1>2, GoToOK DEF Dedup, At, WorkInv
  <2>2. e \in Events
    BY <1>2 DEF Dedup, At, WorkOK, ReaderOK
  <2>3. dedup' \subseteq Msgs
    BY <1>2, <2>2 DEF Dedup, Claim, Msgs
  <2> QED
    BY <1>2, <2>1, <2>3 DEF Dedup, kafka, WorkInv, LogOK
<1>3. CASE WriteHistory(r)
  <2>1. WorkInv'
    BY <1>3, BeginUpdateOK DEF WriteHistory, At, WorkInv
  <2>2. history' \subseteq Events
    BY <1>3 DEF WriteHistory, At, Record, WorkOK, ReaderOK
  <2> QED
    BY <1>3, <2>1, <2>2 DEF WriteHistory, kafka, WorkInv, LogOK
<1>4. CASE ReadLatest(r)
  <2>1. WorkInv'
    BY <1>4, GoToOK, RestartPipeOK DEF ReadLatest, At, WorkInv
  <2> QED
    BY <1>4, <2>1 DEF ReadLatest, kafka, WorkInv, LogOK
<1>5. CASE ReadStart(r)
  BY <1>5, ReadStartOK
<1>6. CASE InsertCdr(r)
  <2>1. WorkInv'
    <3>1. Become(r, [work[r] EXCEPT !.pc = "pipe", !.n = 1])
      BY <1>6 DEF InsertCdr, GoTo, Become, At, WorkOK, ReaderOK, WorkRecord
    <3> QED
      BY <1>6, <3>1, RestartPipeOK DEF InsertCdr, At, WorkInv
  <2>2. sessions' \subseteq SessionRecord
    BY <1>6 DEF InsertCdr, AddSession, At, WorkOK, ReaderOK, SessionRecord
  <2> QED
    BY <1>6, <2>1, <2>2 DEF InsertCdr, kafka, WorkInv, LogOK
<1>7. CASE PipeStep(r)
  BY <1>7, PipeStepOK
<1>8. CASE Commit(r)
  <2>1. WorkInv'
    BY <1>8, IdleOK, BecomeOK DEF Commit, WorkInv
  <2>2. committed' \in [TPs -> Nat]
    BY <1>8 DEF Commit, WorkRecord
  <2> QED
    BY <1>8, <2>1, <2>2 DEF Commit, WorkInv, LogOK
<1> QED
  BY <1>1, <1>2, <1>3, <1>4, <1>5, <1>6, <1>7, <1>8 DEF Advance

LEMMA FaultOK ==
    ASSUME Inv1, NEW r \in Readers, Fault(r)
    PROVE  Inv1'
<1> USE DEF Inv1, TypeOK
<1>1. CASE DedupFails(r)
  <2>1. WorkInv' /\ used' \in [Kinds -> Nat]
    BY <1>1, GiveUpOK, SpendOK DEF DedupFails, WorkInv, Kinds
  <2>2. dedup' \subseteq Msgs
    BY <1>1 DEF DedupFails, At, Claim, Msgs, WorkOK, ReaderOK
  <2> QED
    BY <1>1, <2>1, <2>2 DEF DedupFails, kafka, WorkInv, LogOK
<1>2. CASE DedupRetried(r)
  <2>1. WorkInv' /\ used' \in [Kinds -> Nat]
    BY <1>2, GoToOK, SpendOK DEF DedupRetried, At, WorkInv, Kinds
  <2>2. dedup' \subseteq Msgs
    BY <1>2 DEF DedupRetried, At, Claim, Msgs, WorkOK, ReaderOK
  <2> QED
    BY <1>2, <2>1, <2>2 DEF DedupRetried, kafka, WorkInv, LogOK
<1>3. CASE HistoryFails(r)
  <2>1. WorkInv' /\ used' \in [Kinds -> Nat]
    BY <1>3, GiveUpOK, SpendOK
       DEF HistoryFails, HistoryErrorReturned, GiveUp, WorkInv, Kinds
  <2>2. history' \subseteq Events
    BY <1>3 DEF HistoryFails, At, Record, WorkOK, ReaderOK
  <2> QED
    BY <1>3, <2>1, <2>2 DEF HistoryFails, kafka, WorkInv, LogOK
<1>4. CASE ReadFails(r)
  <2>1. WorkInv' /\ used' \in [Kinds -> Nat]
    BY <1>4, RestartPipeOK, SpendOK DEF ReadFails, ReadKind, At, WorkInv, Kinds
  <2> QED
    BY <1>4, <2>1 DEF ReadFails, kafka, WorkInv, LogOK
<1>5. CASE CdrFails(r)
  <2>1. Become(r, [work[r] EXCEPT !.pc = "pipe", !.n = 1])
    BY <1>5 DEF CdrFails, GoTo, Become, At, WorkOK, ReaderOK, WorkRecord
  <2>2. WorkInv' /\ used' \in [Kinds -> Nat]
    BY <1>5, <2>1, RestartPipeOK, SpendOK DEF CdrFails, At, WorkInv, Kinds
  <2>3. sessions' \subseteq SessionRecord
    <3>1. work[r].ev \in Events /\ work[r].start \in Events
      BY <1>5 DEF CdrFails, At, WorkOK, ReaderOK
    <3> QED
      BY <1>5, <3>1 DEF CdrFails, AddSession, SessionRecord
  <2> QED
    BY <1>5, <2>2, <2>3 DEF CdrFails, kafka, WorkInv, LogOK
<1>6. CASE PipeFails(r)
  <2>1. WorkInv' /\ used' \in [Kinds -> Nat]
    BY <1>6, GiveUpOK, SpendOK DEF PipeFails, WorkInv, Kinds
  <2> QED
    BY <1>6, <2>1 DEF PipeFails, kafka, WorkInv, LogOK
<1>7. CASE PipeRetried(r)
  <2>1. Become(r, [work[r] EXCEPT !.pc = "pipe", !.n = 1])
    BY <1>7 DEF PipeRetried, Become, At, WorkRecord
  <2>2. WorkInv' /\ used' \in [Kinds -> Nat]
    BY <1>7, <2>1, RestartPipeOK, SpendOK DEF PipeRetried, At, WorkInv, Kinds
  <2> QED
    BY <1>7, <2>2 DEF PipeRetried, kafka, WorkInv, LogOK
<1>8. CASE CommitFails(r)
  <2>1. WorkInv' /\ used' \in [Kinds -> Nat]
    BY <1>8, GiveUpOK, SpendOK DEF CommitFails, GiveUp, WorkInv, Kinds
  <2> QED
    BY <1>8, <2>1 DEF CommitFails, kafka, WorkInv, LogOK
<1> QED
  BY <1>1, <1>2, <1>3, <1>4, <1>5, <1>6, <1>7, <1>8 DEF Fault

LEMMA Inv1Init == Init => Inv1
BY FeedsAssumption, IdleOK DEF Init, Inv1, TypeOK, WorkOK, LogOK

LEMMA Inv1Step == Inv1 /\ [Next]_vars => Inv1'
<1> SUFFICES ASSUME Inv1, [Next]_vars PROVE Inv1'
  OBVIOUS
<1>1. CASE UNCHANGED vars
  BY <1>1 DEF Inv1, TypeOK, WorkOK, LogOK, vars, kafka
<1>2. CASE Next
  BY <1>2, AdvanceOK, FaultOK, EnvironmentOK DEF Next
<1> QED
  BY <1>1, <1>2

LEMMA Inv1Always == Spec => []Inv1
BY Inv1Init, Inv1Step, PTL DEF Spec

\* Every variable keeps its type (TypeOK), for any instance.
THEOREM TypeCorrect == Spec => []TypeOK
<1>1. Inv1 => TypeOK
  BY DEF Inv1
<1> QED
  BY <1>1, Inv1Always, PTL

-----------------------------------------------------------------------------
(* What is shown was recorded                                              *)

\* A command writes the event at hand or deletes.
LEMMA PipeValue ==
    ASSUME NEW e \in Events, NEW start \in Events \union {None},
           NEW n \in 1..Len(Pipe(e, start))
    PROVE  Pipe(e, start)[n].val \in {e, None}
<1> DEFINE Writes(p) == \A k \in 1..Len(p) : p[k].val \in {e, None}
<1>1. Writes(BootPipe(e))
  BY DEF BootPipe, Cmd
<1>2. Writes(HeartbeatPipe(e))
  BY DEF HeartbeatPipe, MarkUp, Cmd
<1>3. Writes(StatusPipe(e))
  BY DEF StatusPipe, MarkUp, AddConn, List, Cmd
<1>4. Writes(MeterPipe(e))
  BY DEF MeterPipe, Touch, AddConn, List, Cmd
<1>5. Writes(StartPipe(e))
  BY DEF StartPipe, Touch, AddConn, List, Cmd
<1>6. Writes(StopPipe(e, start))
  BY DEF StopPipe, FreeConn, Touch, List, Cmd
<1> HIDE DEF Writes
<1>7. Writes(Pipe(e, start))
  BY <1>1, <1>2, <1>3, <1>4, <1>5, <1>6 DEF Pipe
<1> QED
  BY <1>7 DEF Writes

\* A goroutine past writeHistory holds a recorded event, and a start it has
\* read from Redis was recorded.
HeldRecorded(w) ==
    /\ w.pc \in {"read", "cdr", "pipe"} => w.ev \in history
    /\ w.start # None => w.start \in history
Inv2 == Inv1 /\ StateFromHistory /\ \A r \in Readers : HeldRecorded(work[r])

\* One goroutine moves and history only grows.
LEMMA MoveRecorded ==
    ASSUME Inv2, NEW r \in Readers, NEW w, work' = [work EXCEPT ![r] = w],
           history \subseteq history',
           w.pc \in {"read", "cdr", "pipe"} => w.ev \in history',
           w.start # None => w.start \in history'
    PROVE  \A x \in Readers : HeldRecorded(work[x])'
BY DEF Inv2, Inv1, TypeOK, HeldRecorded

LEMMA SessionsRecorded ==
    ASSUME Inv2, NEW r \in Readers, work[r].pc = "cdr", history' = history,
           UNCHANGED sessions \/ AddSession(work[r].ev, work[r].start)
    PROVE  \A s \in sessions' : s.stop \in history' /\ s.start \in history'
<1>1. work[r].ev \in history
  BY DEF Inv2, HeldRecorded
<1>2. work[r].start \in history
  BY NoneAssumption DEF Inv2, Inv1, WorkOK, ReaderOK, HeldRecorded
<1> QED
  BY <1>1, <1>2 DEF Inv2, StateFromHistory, AddSession

LEMMA AdvanceRecorded ==
    ASSUME Inv2, NEW r \in Readers, Advance(r)
    PROVE  StateFromHistory' /\ \A x \in Readers : HeldRecorded(work[x])'
<1> USE DEF Inv2
<1> DEFINE e == work[r].ev
<1>0. work[r] \in WorkRecord /\ HeldRecorded(work[r])
  BY DEF Inv1, TypeOK
<1>1. CASE Fetch(r)
  <2>1. PICK p \in Partitions :
          Become(r, [Idle EXCEPT !.pc = "dedup", !.ev = log[<<r[2], p>>][pos[<<r[2], p>>] + 1],
                                 !.off = pos[<<r[2], p>>] + 1])
    BY <1>1 DEF Fetch
  <2> QED
    BY <1>1, <2>1, MoveRecorded DEF Fetch, Become, Idle, StateFromHistory
<1>2. CASE Dedup(r)
  BY <1>0, <1>2, MoveRecorded
     DEF Dedup, GoTo, Become, WorkRecord, HeldRecorded, StateFromHistory
<1>3. CASE WriteHistory(r)
  <2>1. history \subseteq history' /\ e \in history'
    BY <1>3 DEF WriteHistory, Record
  <2>2. \A x \in Readers : HeldRecorded(work[x])'
    <3> DEFINE w == BeginUpdate(work[r])
    <3>1. w.ev \in {e, None} /\ w.start \in {work[r].start, None}
          /\ (w.pc # "idle" => w.ev = e)
      BY <1>0 DEF BeginUpdate, Idle, WorkRecord
    <3> QED
      BY <1>0, <1>3, <2>1, <3>1, MoveRecorded DEF WriteHistory, Become, HeldRecorded
  <2> QED
    BY <1>3, <2>1, <2>2 DEF WriteHistory, StateFromHistory
<1>4. CASE ReadLatest(r)
  BY <1>0, <1>4, MoveRecorded
     DEF ReadLatest, At, GoTo, Become, WorkRecord, HeldRecorded, StateFromHistory
<1>5. CASE ReadStart(r)
  <2> DEFINE start == redis[Charger("tx", e)]
             w == [work[r] EXCEPT !.pc = IF start = None THEN "pipe" ELSE "cdr",
                                  !.start = start, !.n = 1]
  <2>1. e \in Events
    BY <1>5 DEF ReadStart, At, Inv1, WorkOK, ReaderOK
  <2>2. Charger("tx", e) \in Slots
    BY <2>1, EventsAssumption, ConnectorAssumption DEF Charger, Slots, Fields
  <2>3. start # None => start \in history
    BY <2>2 DEF StateFromHistory
  <2>4. w.ev = e /\ w.start = start
    BY <1>0 DEF WorkRecord
  <2>5. e \in history
    <3>1. work[r].pc = "read"
      BY <1>5 DEF ReadStart, At
    <3> QED
      BY <1>0, <3>1 DEF HeldRecorded
  <2>6. /\ work' = [work EXCEPT ![r] = w]
        /\ history' = history /\ redis' = redis /\ sessions' = sessions
    BY <1>5 DEF ReadStart, Become
  <2> HIDE DEF w, start
  <2>7. \A x \in Readers : HeldRecorded(work[x])'
    BY <2>3, <2>4, <2>5, <2>6, MoveRecorded
  <2> QED
    BY <2>6, <2>7 DEF StateFromHistory
<1>6. CASE InsertCdr(r)
  BY <1>0, <1>6, MoveRecorded, SessionsRecorded
     DEF InsertCdr, At, GoTo, Become, WorkRecord, HeldRecorded, StateFromHistory
<1>7. CASE PipeStep(r)
  <2>1. e \in Events /\ work[r].start \in Events \union {None}
        /\ work[r].n \in 1..Len(Pipe(e, work[r].start)) /\ e \in history
    BY <1>0, <1>7 DEF PipeStep, At, Inv1, WorkOK, ReaderOK, WorkRecord, HeldRecorded
  <2>2. Command(work[r]).val \in {e, None}
    BY <2>1, PipeValue DEF Command
  <2>3. \A s \in Slots : redis'[s] # None => redis'[s] \in history
    BY <1>7, <2>1, <2>2 DEF PipeStep, Apply, StateFromHistory
  <2>4. \A x \in Readers : HeldRecorded(work[x])'
    BY <1>0, <1>7, MoveRecorded DEF PipeStep, At, GoTo, Become, WorkRecord, HeldRecorded
  <2> QED
    BY <1>7, <2>3, <2>4 DEF PipeStep, StateFromHistory
<1>8. CASE Commit(r)
  BY <1>8, MoveRecorded DEF Commit, Become, Idle, StateFromHistory
<1> QED
  BY <1>1, <1>2, <1>3, <1>4, <1>5, <1>6, <1>7, <1>8 DEF Advance

LEMMA FaultRecorded ==
    ASSUME Inv2, NEW r \in Readers, Fault(r)
    PROVE  StateFromHistory' /\ \A x \in Readers : HeldRecorded(work[x])'
<1> USE DEF Inv2
<1>0. work[r] \in WorkRecord /\ HeldRecorded(work[r])
  BY DEF Inv1, TypeOK
<1>1. CASE DedupFails(r)
  BY <1>1, MoveRecorded DEF DedupFails, GiveUp, Become, Idle, StateFromHistory
<1>2. CASE DedupRetried(r)
  BY <1>0, <1>2, MoveRecorded
     DEF DedupRetried, GoTo, Become, WorkRecord, HeldRecorded, StateFromHistory
<1>3. CASE HistoryFails(r)
  <2>1. history \subseteq history'
    BY <1>3 DEF HistoryFails, Record
  <2>2. \A x \in Readers : HeldRecorded(work[x])'
    BY <1>3, <2>1, MoveRecorded DEF HistoryFails, HistoryErrorReturned, Become, Idle
  <2> QED
    BY <1>3, <2>1, <2>2 DEF HistoryFails, StateFromHistory
<1>4. CASE ReadFails(r)
  BY <1>0, <1>4, MoveRecorded
     DEF ReadFails, At, Become, WorkRecord, HeldRecorded, StateFromHistory
<1>5. CASE CdrFails(r)
  <2>1. \A x \in Readers : HeldRecorded(work[x])'
    BY <1>0, <1>5, MoveRecorded DEF CdrFails, At, GoTo, Become, WorkRecord, HeldRecorded
  <2> QED
    BY <1>5, <2>1, SessionsRecorded DEF CdrFails, At, StateFromHistory
<1>6. CASE PipeFails(r)
  BY <1>6, MoveRecorded DEF PipeFails, GiveUp, Become, Idle, StateFromHistory
<1>7. CASE PipeRetried(r)
  BY <1>0, <1>7, MoveRecorded
     DEF PipeRetried, At, Become, WorkRecord, HeldRecorded, StateFromHistory
<1>8. CASE CommitFails(r)
  BY <1>8, MoveRecorded DEF CommitFails, Become, Idle, StateFromHistory
<1> QED
  BY <1>1, <1>2, <1>3, <1>4, <1>5, <1>6, <1>7, <1>8 DEF Fault

LEMMA EnvironmentRecorded ==
    ASSUME Inv2, Environment
    PROVE  StateFromHistory' /\ \A x \in Readers : HeldRecorded(work[x])'
<1> USE DEF Inv2
<1>1. CASE Produce
  BY <1>1 DEF Produce, StateFromHistory, HeldRecorded
<1>2. ASSUME NEW i \in Instances, Crash(i)
      PROVE  StateFromHistory' /\ \A x \in Readers : HeldRecorded(work[x])'
  BY <1>2 DEF Crash, StateFromHistory, HeldRecorded, Idle
<1>3. ASSUME NEW i \in Instances, NEW tp \in TPs, Rebalance(tp, i)
      PROVE  StateFromHistory' /\ \A x \in Readers : HeldRecorded(work[x])'
  BY <1>3 DEF Rebalance, StateFromHistory, HeldRecorded
<1>4. ASSUME NEW m \in Msgs, DedupExpires(m)
      PROVE  StateFromHistory' /\ \A x \in Readers : HeldRecorded(work[x])'
  BY <1>4 DEF DedupExpires, StateFromHistory, HeldRecorded
<1>5. ASSUME NEW c \in Chargers, TxExpires(c)
      PROVE  StateFromHistory' /\ \A x \in Readers : HeldRecorded(work[x])'
  BY <1>5 DEF TxExpires, Apply, Cmd, StateFromHistory, HeldRecorded
<1> QED
  BY <1>1, <1>2, <1>3, <1>4, <1>5 DEF Environment

LEMMA Inv2Always == Spec => []Inv2
<1>1. Init => Inv2
  BY Inv1Init DEF Init, Inv2, StateFromHistory, HeldRecorded, Idle
<1>2. Inv2 /\ [Next]_vars => Inv2'
  <2> SUFFICES ASSUME Inv2, [Next]_vars PROVE Inv2'
    OBVIOUS
  <2>1. Inv1'
    BY Inv1Step DEF Inv2
  <2>2. CASE UNCHANGED vars
    BY <2>1, <2>2 DEF Inv2, StateFromHistory, HeldRecorded, vars
  <2>3. CASE Next
    BY <2>1, <2>3, AdvanceRecorded, FaultRecorded, EnvironmentRecorded DEF Next, Inv2
  <2> QED
    BY <2>2, <2>3
<1> QED
  BY <1>1, <1>2, PTL DEF Spec

\* Everything in Redis and every half of a charge session was recorded in
\* event_history before (StateFromHistory), under any number of faults.
THEOREM ShownWasRecorded == Spec => []StateFromHistory
<1>1. Inv2 => StateFromHistory
  BY DEF Inv2
<1> QED
  BY <1>1, Inv2Always, PTL

-----------------------------------------------------------------------------
(* One row of history per message                                          *)

\* While no key expires, a recorded message has its key, and a goroutine about
\* to record one is the only one with that message, which has no row yet.
Once ==
    /\ \A e \in history : e.msg \in dedup
    /\ \A r \in Readers : work[r].pc = "history" =>
          /\ work[r].ev.msg \in dedup
          /\ \A e \in history : e.msg # work[r].ev.msg
    /\ \A r, x \in Readers :
          work[r].pc = "history" /\ work[x].pc = "history"
          /\ work[r].ev.msg = work[x].ev.msg => r = x
    /\ \A e, f \in history : e.msg = f.msg => e = f
Inv3 == Inv1 /\ (used["ttl"] = 0 => Once)

\* A step that records nothing and claims nothing keeps it.
LEMMA KeepsOnce ==
    ASSUME Once, history' = history, dedup \subseteq dedup',
           \A x \in Readers : work'[x].pc = "history" =>
               work[x].pc = "history" /\ work'[x].ev = work[x].ev
    PROVE  Once'
BY DEF Once

LEMMA MoveKeepsOnce ==
    ASSUME Inv1, Once, NEW r \in Readers, history' = history,
           dedup' = dedup \/ Claim(work[r].ev),
           \A x \in Readers : x # r => work'[x] = work[x],
           work'[r].pc # "history"
    PROVE  Once'
BY KeepsOnce DEF Claim

LEMMA DedupOnce ==
    ASSUME Inv1, Once, NEW r \in Readers, Dedup(r)
    PROVE  Once'
<1>0. work \in [Readers -> WorkRecord]
  BY DEF Inv1, TypeOK
<1> DEFINE e == work[r].ev
<1>1. CASE Taken(e)
  BY <1>0, <1>1, MoveKeepsOnce DEF Dedup, GoTo, Become, WorkRecord
<1>2. CASE ~Taken(e)
  <2> DEFINE w == [work[r] EXCEPT !.pc = "history"]
  <2>1. /\ dedup' = dedup \union {e.msg} /\ history' = history
        /\ work' = [work EXCEPT ![r] = w]
    BY <1>2 DEF Dedup, Claim, GoTo, Become
  <2>2. w.pc = "history" /\ w.ev = e
    BY <1>0 DEF WorkRecord
  <2>3. \A x \in Readers : work'[x] = IF x = r THEN w ELSE work[x]
    BY <2>1 DEF Inv1, TypeOK
  <2> HIDE DEF w
  <2> QED
    BY <1>2, <2>1, <2>2, <2>3 DEF Taken, Once
<1> QED
  BY <1>1, <1>2

\* Recording, with or without going on
LEMMA RecordOnce ==
    ASSUME Inv1, Once, NEW r \in Readers, work[r].pc = "history",
           NEW w, w.pc # "history", work' = [work EXCEPT ![r] = w],
           Record(work[r].ev), dedup' = dedup
    PROVE  Once'
<1>1. \A x \in Readers : work'[x] = IF x = r THEN w ELSE work[x]
  BY DEF Inv1, TypeOK
<1> QED
  BY <1>1 DEF Once, Record

LEMMA BeginUpdateLeaves ==
    ASSUME Inv1, NEW r \in Readers
    PROVE  BeginUpdate(work[r]).pc # "history"
BY DEF Inv1, TypeOK, BeginUpdate, Idle, WorkRecord

LEMMA AdvanceOnce ==
    ASSUME Inv1, Once, NEW r \in Readers, Advance(r)
    PROVE  Once'
<1>0. work \in [Readers -> WorkRecord]
  BY DEF Inv1, TypeOK
<1>1. CASE Fetch(r)
  <2>1. PICK e, off :
          /\ work' = [work EXCEPT ![r] = [Idle EXCEPT !.pc = "dedup", !.ev = e, !.off = off]]
          /\ history' = history /\ dedup' = dedup
    BY <1>1 DEF Fetch, Become
  <2> QED
    BY <1>0, <2>1, MoveKeepsOnce DEF Idle
<1>2. CASE Dedup(r)
  BY <1>2, DedupOnce
<1>3. CASE WriteHistory(r)
  <2>1. BeginUpdate(work[r]).pc # "history"
    BY BeginUpdateLeaves
  <2> QED
    BY <1>3, <2>1, RecordOnce DEF WriteHistory, At, Become
<1>4. CASE ReadLatest(r)
  BY <1>0, <1>4, MoveKeepsOnce DEF ReadLatest, GoTo, Become, WorkRecord
<1>5. CASE ReadStart(r)
  <2> DEFINE start == redis[Charger("tx", work[r].ev)]
             w == [work[r] EXCEPT !.pc = IF start = None THEN "pipe" ELSE "cdr",
                                  !.start = start, !.n = 1]
  <2>1. work' = [work EXCEPT ![r] = w] /\ history' = history /\ dedup' = dedup
    BY <1>5 DEF ReadStart, Become
  <2>2. w.pc # "history"
    BY <1>0 DEF WorkRecord
  <2> HIDE DEF w
  <2> QED
    BY <1>0, <2>1, <2>2, MoveKeepsOnce
<1>6. CASE InsertCdr(r)
  BY <1>0, <1>6, MoveKeepsOnce DEF InsertCdr, GoTo, Become, WorkRecord
<1>7. CASE PipeStep(r)
  BY <1>0, <1>7, MoveKeepsOnce DEF PipeStep, At, GoTo, Become, WorkRecord
<1>8. CASE Commit(r)
  BY <1>0, <1>8, MoveKeepsOnce DEF Commit, Become, Idle
<1> QED
  BY <1>1, <1>2, <1>3, <1>4, <1>5, <1>6, <1>7, <1>8 DEF Advance

LEMMA FaultOnce ==
    ASSUME Inv1, Once, NEW r \in Readers, Fault(r)
    PROVE  Once'
<1>0. work \in [Readers -> WorkRecord]
  BY DEF Inv1, TypeOK
<1>1. CASE DedupFails(r)
  BY <1>0, <1>1, MoveKeepsOnce DEF DedupFails, GiveUp, Become, Idle
<1>2. CASE DedupRetried(r)
  BY <1>0, <1>2, MoveKeepsOnce DEF DedupRetried, GoTo, Become, WorkRecord
<1>3. CASE HistoryFails(r)
  <2>1. work' = [work EXCEPT ![r] = Idle] /\ dedup' = dedup /\ Idle.pc # "history"
    BY <1>3 DEF HistoryFails, HistoryErrorReturned, Become, Idle
  <2>2. CASE UNCHANGED history
    BY <1>0, <2>1, <2>2, MoveKeepsOnce
  <2>3. CASE Record(work[r].ev)
    BY <1>3, <2>1, <2>3, RecordOnce DEF HistoryFails, At
  <2> QED
    BY <1>3, <2>2, <2>3 DEF HistoryFails
<1>4. CASE ReadFails(r)
  BY <1>0, <1>4, MoveKeepsOnce DEF ReadFails, Become, WorkRecord
<1>5. CASE CdrFails(r)
  BY <1>0, <1>5, MoveKeepsOnce DEF CdrFails, GoTo, Become, WorkRecord
<1>6. CASE PipeFails(r)
  BY <1>0, <1>6, MoveKeepsOnce DEF PipeFails, GiveUp, Become, Idle
<1>7. CASE PipeRetried(r)
  BY <1>0, <1>7, MoveKeepsOnce DEF PipeRetried, At, Become, WorkRecord
<1>8. CASE CommitFails(r)
  BY <1>0, <1>8, MoveKeepsOnce DEF CommitFails, Become, Idle
<1> QED
  BY <1>1, <1>2, <1>3, <1>4, <1>5, <1>6, <1>7, <1>8 DEF Fault

LEMMA EnvironmentOnce ==
    ASSUME Inv1, Once, Environment, used'["ttl"] = 0
    PROVE  Once'
<1> USE DEF Inv1, TypeOK
<1>1. CASE Produce
  BY <1>1, KeepsOnce DEF Produce
<1>2. ASSUME NEW i \in Instances, Crash(i)
      PROVE  Once'
  BY <1>2, KeepsOnce DEF Crash, Idle
<1>3. ASSUME NEW i \in Instances, NEW tp \in TPs, Rebalance(tp, i)
      PROVE  Once'
  BY <1>3, KeepsOnce DEF Rebalance
<1>4. ASSUME NEW m \in Msgs, DedupExpires(m)
      PROVE  FALSE
  BY <1>4 DEF DedupExpires, Spend, Kinds
<1>5. ASSUME NEW c \in Chargers, TxExpires(c)
      PROVE  Once'
  BY <1>5, KeepsOnce DEF TxExpires, kafka
<1> QED
  BY <1>1, <1>2, <1>3, <1>4, <1>5 DEF Environment

LEMMA UsedGrows ==
    ASSUME Inv1, [Next]_vars, NEW j \in Kinds
    PROVE  used[j] =< used'[j]
<1>1. used' = used \/ \E k \in Kinds : Spend(k)
  BY DEF Next, vars, Kinds, Advance, Fetch, Dedup, WriteHistory, ReadLatest,
         ReadStart, InsertCdr, PipeStep, Commit, Fault, DedupFails, DedupRetried,
         HistoryFails, ReadFails, ReadKind, CdrFails, PipeFails, PipeRetried, CommitFails,
         Environment, Produce, Crash, Rebalance, DedupExpires, TxExpires
<1>2. used \in [Kinds -> Nat]
  BY DEF Inv1, TypeOK
<1>3. ASSUME NEW k \in Kinds, Spend(k)
      PROVE  used[j] =< used'[j]
  <2>1. used' = [used EXCEPT ![k] = @ + 1, !["any"] = @ + 1]
    BY <1>3 DEF Spend
  <2>2. used'[j] \in {used[j], used[j] + 1, used[j] + 2}
    BY <1>2, <2>1
  <2>3. used[j] \in Nat
    BY <1>2
  <2> QED
    BY <2>2, <2>3
<1>4. used[j] =< used[j]
  BY <1>2
<1> QED
  BY <1>1, <1>3, <1>4

LEMMA Inv3Always == Spec => []Inv3
<1>1. Init => Inv3
  BY Inv1Init DEF Init, Inv3, Once, Idle
<1>2. Inv3 /\ [Next]_vars => Inv3'
  <2> SUFFICES ASSUME Inv3, [Next]_vars, used'["ttl"] = 0
               PROVE  Once'
    BY Inv1Step DEF Inv3
  <2>1. Inv1 /\ Once
    BY SMTT(20), UsedGrows DEF Inv3, Inv1, TypeOK, Kinds
  <2>2. CASE UNCHANGED vars
    BY <2>1, <2>2, KeepsOnce DEF vars
  <2>3. CASE Next
    BY <2>1, <2>3, AdvanceOnce, FaultOnce, EnvironmentOnce DEF Next
  <2> QED
    BY <2>2, <2>3
<1> QED
  BY <1>1, <1>2, PTL DEF Spec

\* A message has one row of history while no dedup key has expired
\* (HistoryOncePerMessage), for any number of instances, crashes, rebalances,
\* duplicates and failed calls.
THEOREM OneRowPerMessage == Spec => []HistoryOncePerMessage
<1>1. Inv3 => HistoryOncePerMessage
  BY DEF Inv3, Once, HistoryOncePerMessage
<1> QED
  BY <1>1, Inv3Always, PTL

-----------------------------------------------------------------------------
(* The latest state: read, check and write refine one step                 *)

LEMMA Multiples ==
    ASSUME NEW p \in Nat, NEW q \in Nat, p < q
    PROVE  Second * p + Second =< Second * q
<1> USE SecondAssumption
<1>1. PICK d \in Nat : q = p + 1 + d
  <2>1. q - p - 1 \in Nat
    OBVIOUS
  <2> QED
    BY <2>1
<1>2. Second * q = Second * p + Second + Second * d
  BY <1>1
<1>3. Second * d \in Nat /\ Second * p \in Nat
  OBVIOUS
<1> QED
  BY <1>2, <1>3

LEMMA TruncDiv ==
    ASSUME NEW t \in Nat
    PROVE  /\ t \div Second \in Nat
           /\ Trunc(t) = Second * (t \div Second)
           /\ Trunc(t) =< t /\ t < Trunc(t) + Second
           /\ Trunc(t) \in Nat
<1>1. /\ t \div Second \in Nat /\ t % Second \in Nat /\ t % Second < Second
      /\ t = Second * (t \div Second) + (t % Second)
  BY SecondAssumption
<1>2. Second * (t \div Second) \in Nat
  BY <1>1, SecondAssumption
<1> QED
  BY <1>1, <1>2, SecondAssumption DEF Trunc

\* What passes the guard is at least as recent, to the second.
LEMMA NewerRank ==
    ASSUME NEW e \in Events, NEW old \in Events, IsNewer(e, old)
    PROVE  Trunc(old.ts) =< Trunc(e.ts)
<1> DEFINE p == e.ts \div Second
           q == old.ts \div Second
<1>1. e.ts \in Nat /\ old.ts \in Nat
  BY EventsAssumption
<1>2. /\ p \in Nat /\ Trunc(e.ts) = Second * p
      /\ e.ts < Second * p + Second
      /\ q \in Nat /\ Trunc(old.ts) = Second * q
  BY <1>1, TruncDiv
<1>3. Second * p \in Nat /\ Second * q \in Nat
  BY <1>2, SecondAssumption
<1>4. Second * q < e.ts
  BY <1>2 DEF IsNewer
<1> HIDE DEF p, q
<1>5. CASE p < q
  BY <1>1, <1>2, <1>3, <1>4, <1>5, Multiples, SecondAssumption
<1>6. CASE q = p
  BY <1>2, <1>3, <1>6
<1>7. CASE q < p
  BY <1>2, <1>3, <1>7, Multiples, SecondAssumption
<1> QED
  BY <1>2, <1>5, <1>6, <1>7

\* A pipeline writes a guarded slot only for its own event, if at all.
WritesGuarded(p, e) ==
    \A k \in 1..Len(p) : \A s \in GuardedSlots :
        s \in p[k].slots =>
            e.type \in GuardedTypes /\ s = GuardSlot(e) /\ p[k].val = e

LEMMA PipeGuarded ==
    ASSUME NEW e \in Events, NEW start \in Events \union {None}
    PROVE  WritesGuarded(Pipe(e, start), e)
<1> USE DEF WritesGuarded, GuardedSlots, GuardedTypes, Conn, Charger, Cmd
<1>1. CASE e.type = "BootNotification"
  BY <1>1 DEF Pipe, BootPipe
<1>2. CASE e.type = "StatusNotification"
  BY <1>2 DEF Pipe, StatusPipe, GuardSlot, MarkUp, AddConn, List
<1>3. CASE e.type = "MeterValues"
  BY <1>3 DEF Pipe, MeterPipe, GuardSlot, Touch, AddConn, List
<1>4. CASE e.type = "Heartbeat"
  BY <1>4 DEF Pipe, HeartbeatPipe, MarkUp
<1>5. CASE e.type = "StartTransaction"
  BY <1>5 DEF Pipe, StartPipe, Touch, AddConn, List
<1>6. CASE e.type = "StopTransaction"
  <2>1. Pipe(e, start) = StopPipe(e, start)
    BY <1>6 DEF Pipe
  <2>2. WritesGuarded(StopPipe(e, start), e)
    BY DEF StopPipe, FreeConn, Touch, List
  <2> QED
    BY <2>1, <2>2
<1> QED
  BY <1>1, <1>2, <1>3, <1>4, <1>5, <1>6, EventsAssumption DEF Types

\* A status or meter that a goroutine is about to write still passes the
\* guard, or is already written.
GuardOK(w) ==
    w.pc \in {"cdr", "pipe"} /\ w.ev.type \in GuardedTypes =>
        redis[GuardSlot(w.ev)] = w.ev \/ Passes(w.ev, redis[GuardSlot(w.ev)])
GuardHeld == \A r \in Readers : GuardOK(work[r])
Inv4 == Inv2 /\ used["read"] =< Budget["read"] /\ GuardHeld

OneInstance   == \E i : Instances = {i}
NoFailedReads == Budget["read"] = 0

LEMMA MoveKeepsGuard ==
    ASSUME GuardHeld, redis' = redis, NEW r \in Readers,
           \A x \in Readers : x # r => work'[x] = work[x],
           GuardOK(work[r])'
    PROVE  GuardHeld'
BY DEF GuardHeld, GuardOK

\* With one instance, one goroutine handles all events of a topic.
LEMMA OneReader ==
    ASSUME OneInstance, NEW r \in Readers, NEW x \in Readers, r[2] = x[2]
    PROVE  r = x
BY DEF OneInstance, Readers

LEMMA PipeStepKeepsGuard ==
    ASSUME OneInstance, Inv2, GuardHeld, NEW x \in Readers, PipeStep(x)
    PROVE  GuardHeld'
<1> DEFINE e == work[x].ev
<1>0. /\ e \in Events /\ work[x].start \in Events \union {None}
      /\ work[x].n \in 1..Len(Pipe(e, work[x].start))
      /\ work[x].pc = "pipe" /\ TopicOf(e.type) = x[2]
      /\ work \in [Readers -> WorkRecord]
      /\ redis \in [Slots -> Events \union {None}]
  BY DEF Inv2, Inv1, TypeOK, WorkOK, ReaderOK, WorkRecord, PipeStep, At
<1>1. \A s \in GuardedSlots : s \in Command(work[x]).slots =>
          /\ e.type \in GuardedTypes /\ s = GuardSlot(e)
          /\ Command(work[x]).val = e
  BY <1>0, PipeGuarded DEF WritesGuarded, Command
<1>2. \A s \in GuardedSlots : s \in Slots /\ (redis'[s] = redis[s]
          \/ (redis'[s] = e /\ e.type \in GuardedTypes /\ s = GuardSlot(e)))
  BY <1>0, <1>1 DEF PipeStep, Apply, GuardedSlots
<1>3. ASSUME NEW r \in Readers, work'[r].pc \in {"cdr", "pipe"},
             work'[r].ev.type \in GuardedTypes
      PROVE  redis'[GuardSlot(work'[r].ev)] = work'[r].ev
             \/ Passes(work'[r].ev, redis'[GuardSlot(work'[r].ev)])
  <2>1. work'[r].ev = work[r].ev /\ work[r].pc \in {"cdr", "pipe"}
    <3>1. PICK w : work' = [work EXCEPT ![x] = w] /\ w.ev = e
      BY <1>0 DEF PipeStep, GoTo, Become, WorkRecord
    <3>2. work'[x].ev = e /\ (r # x => work'[r] = work[r])
      BY <1>0, <3>1
    <3> QED
      BY <1>0, <1>3, <3>2
  <2> DEFINE d == work[r].ev
             g == GuardSlot(d)
  <2>2. d \in Events /\ TopicOf(d.type) = r[2] /\ d.type \in GuardedTypes
    BY <1>3, <2>1 DEF Inv2, Inv1, WorkOK, ReaderOK
  <2>3. g \in GuardedSlots
    BY <2>2, EventsAssumption
       DEF GuardSlot, GuardedSlots, GuardedTypes, Conn, Slots, Fields
  <2>4. redis[g] = d \/ Passes(d, redis[g])
    BY <2>1, <2>2 DEF GuardHeld, GuardOK
  <2>5. CASE redis'[g] = redis[g]
    BY <2>1, <2>4, <2>5
  <2>6. CASE redis'[g] = e /\ e.type \in GuardedTypes /\ g = GuardSlot(e)
    <3>1. e.type = d.type
      BY <2>2, <2>6 DEF GuardSlot, Conn, GuardedTypes
    <3>2. r = x
      BY <1>0, <2>2, <3>1, OneReader
    <3> QED
      BY <2>1, <2>6, <3>2
  <2> QED
    BY <1>2, <2>3, <2>5, <2>6
<1> QED
  BY <1>3 DEF GuardHeld, GuardOK

LEMMA AdvanceKeepsGuard ==
    ASSUME OneInstance, Inv2, GuardHeld, NEW r \in Readers, Advance(r)
    PROVE  GuardHeld'
<1>0. work \in [Readers -> WorkRecord] /\ GuardOK(work[r])
  BY DEF Inv2, Inv1, TypeOK, GuardHeld
<1>1. CASE Fetch(r)
  <2>1. PICK d, off :
          /\ work' = [work EXCEPT ![r] = [Idle EXCEPT !.pc = "dedup", !.ev = d, !.off = off]]
          /\ redis' = redis
    BY <1>1 DEF Fetch, Become
  <2> QED
    BY <1>0, <2>1, MoveKeepsGuard DEF Idle, GuardOK
<1>2. CASE Dedup(r)
  BY <1>0, <1>2, MoveKeepsGuard DEF Dedup, GoTo, Become, WorkRecord, GuardOK
<1>3. CASE WriteHistory(r)
  <2> DEFINE w == BeginUpdate(work[r])
  <2>1. w.pc \in {"cdr", "pipe"} => w.ev.type \notin GuardedTypes \/ work[r].pc # "history"
    BY <1>0 DEF BeginUpdate, ReadsFirst, Idle, WorkRecord, GuardedTypes
  <2>2. work' = [work EXCEPT ![r] = w] /\ redis' = redis /\ work[r].pc = "history"
    BY <1>3 DEF WriteHistory, Become, At
  <2> HIDE DEF w
  <2> QED
    BY <1>0, <2>1, <2>2, MoveKeepsGuard DEF GuardOK
<1>4. CASE ReadLatest(r)
  BY <1>0, <1>4, MoveKeepsGuard DEF ReadLatest, GoTo, Become, WorkRecord, GuardOK
<1>5. CASE ReadStart(r)
  <2> DEFINE start == redis[Charger("tx", work[r].ev)]
             w == [work[r] EXCEPT !.pc = IF start = None THEN "pipe" ELSE "cdr",
                                  !.start = start, !.n = 1]
  <2>1. work' = [work EXCEPT ![r] = w] /\ redis' = redis
    BY <1>5 DEF ReadStart, Become
  <2>2. w.ev.type \notin GuardedTypes
    BY <1>0, <1>5 DEF ReadStart, WorkRecord, GuardedTypes
  <2> HIDE DEF w
  <2> QED
    BY <1>0, <2>1, <2>2, MoveKeepsGuard DEF GuardOK
<1>6. CASE InsertCdr(r)
  BY <1>0, <1>6, MoveKeepsGuard DEF InsertCdr, At, GoTo, Become, WorkRecord, GuardOK
<1>7. CASE PipeStep(r)
  BY <1>7, PipeStepKeepsGuard
<1>8. CASE Commit(r)
  BY <1>0, <1>8, MoveKeepsGuard DEF Commit, Become, Idle, GuardOK
<1> QED
  BY <1>1, <1>2, <1>3, <1>4, <1>5, <1>6, <1>7, <1>8 DEF Advance

LEMMA FaultKeepsGuard ==
    ASSUME NoFailedReads, Inv4, NEW r \in Readers, Fault(r)
    PROVE  GuardHeld'
<1>0. work \in [Readers -> WorkRecord] /\ GuardOK(work[r]) /\ GuardHeld
  BY DEF Inv4, Inv2, Inv1, TypeOK, GuardHeld
<1>1. CASE DedupFails(r)
  BY <1>0, <1>1, MoveKeepsGuard DEF DedupFails, GiveUp, Become, Idle, GuardOK
<1>2. CASE DedupRetried(r)
  BY <1>0, <1>2, MoveKeepsGuard DEF DedupRetried, GoTo, Become, WorkRecord, GuardOK
<1>3. CASE HistoryFails(r)
  BY <1>0, <1>3, MoveKeepsGuard
     DEF HistoryFails, HistoryErrorReturned, Become, Idle, GuardOK
<1>4. CASE ReadFails(r)
  <2>1. CASE work[r].ev.type = "StopTransaction"
    <3> DEFINE w == [work[r] EXCEPT !.pc = "pipe", !.n = 1]
    <3>1. work' = [work EXCEPT ![r] = w] /\ redis' = redis
      BY <1>4 DEF ReadFails, Become
    <3>2. w.ev.type \notin GuardedTypes
      BY <1>0, <2>1 DEF WorkRecord, GuardedTypes
    <3> HIDE DEF w
    <3> QED
      BY <1>0, <3>1, <3>2, MoveKeepsGuard DEF GuardOK
  <2>2. CASE work[r].ev.type # "StopTransaction"
    <3>1. used["read"] < Budget["read"] /\ used["read"] \in Nat
      BY <1>4, <2>2 DEF ReadFails, ReadKind, Spend, Inv4, Inv2, Inv1, TypeOK, Kinds
    <3> QED
      BY <3>1 DEF NoFailedReads
  <2> QED
    BY <2>1, <2>2
<1>5. CASE CdrFails(r)
  BY <1>0, <1>5, MoveKeepsGuard DEF CdrFails, At, GoTo, Become, WorkRecord, GuardOK
<1>6. CASE PipeFails(r)
  BY <1>0, <1>6, MoveKeepsGuard DEF PipeFails, GiveUp, Become, Idle, GuardOK
<1>7. CASE PipeRetried(r)
  BY <1>0, <1>7, MoveKeepsGuard DEF PipeRetried, At, Become, WorkRecord, GuardOK
<1>8. CASE CommitFails(r)
  BY <1>0, <1>8, MoveKeepsGuard DEF CommitFails, Become, Idle, GuardOK
<1> QED
  BY <1>1, <1>2, <1>3, <1>4, <1>5, <1>6, <1>7, <1>8 DEF Fault

LEMMA EnvironmentKeepsGuard ==
    ASSUME Inv2, GuardHeld, Environment
    PROVE  GuardHeld'
<1> USE DEF GuardHeld, GuardOK
<1>1. CASE Produce
  BY <1>1 DEF Produce
<1>2. ASSUME NEW i \in Instances, Crash(i)
      PROVE  GuardHeld'
  BY <1>2 DEF Crash, Idle
<1>3. ASSUME NEW i \in Instances, NEW tp \in TPs, Rebalance(tp, i)
      PROVE  GuardHeld'
  BY <1>3 DEF Rebalance
<1>4. ASSUME NEW m \in Msgs, DedupExpires(m)
      PROVE  GuardHeld'
  BY <1>4 DEF DedupExpires
<1>5. ASSUME NEW c \in Chargers, TxExpires(c)
      PROVE  GuardHeld'
  <2>1. \A s \in GuardedSlots : redis'[s] = redis[s]
    BY <1>5 DEF TxExpires, Apply, Cmd, GuardedSlots, Inv2, Inv1, TypeOK
  <2>2. \A r \in Readers : work[r].pc \in {"cdr", "pipe"}
          /\ work[r].ev.type \in GuardedTypes => GuardSlot(work[r].ev) \in GuardedSlots
    BY EventsAssumption
       DEF Inv2, Inv1, WorkOK, ReaderOK, GuardSlot, GuardedSlots, GuardedTypes,
           Conn, Slots, Fields
  <2> QED
    BY <1>5, <2>1, <2>2 DEF TxExpires
<1> QED
  BY <1>1, <1>2, <1>3, <1>4, <1>5 DEF Environment

LEMMA Inv4Init == Init => Inv4
<1>1. Init => Inv2
  BY Inv1Init DEF Init, Inv2, StateFromHistory, HeldRecorded, Idle
<1> QED
  BY <1>1, BudgetAssumption DEF Init, Inv4, GuardHeld, GuardOK, Idle, Kinds

LEMMA UsedBounded ==
    ASSUME Inv1, used["read"] =< Budget["read"], [Next]_vars
    PROVE  used'["read"] =< Budget["read"]
<1>1. used' = used \/ \E k \in Kinds : Spend(k)
  BY DEF Next, vars, Kinds, Advance, Fetch, Dedup, WriteHistory, ReadLatest,
         ReadStart, InsertCdr, PipeStep, Commit, Fault, DedupFails, DedupRetried,
         HistoryFails, ReadFails, ReadKind, CdrFails, PipeFails, PipeRetried, CommitFails,
         Environment, Produce, Crash, Rebalance, DedupExpires, TxExpires
<1>2. used \in [Kinds -> Nat]
  BY DEF Inv1, TypeOK
<1>3. ASSUME NEW k \in Kinds \ {"any"}, Spend(k)
      PROVE  used'["read"] =< Budget["read"]
  BY <1>2, <1>3, BudgetAssumption DEF Spend, Kinds
<1>4. ASSUME Spend("any")
      PROVE  used'["read"] =< Budget["read"]
  BY <1>2, <1>4, BudgetAssumption DEF Spend, Kinds
<1> QED
  BY <1>1, <1>3, <1>4

LEMMA Inv2Step == Inv2 /\ [Next]_vars => Inv2'
<1> SUFFICES ASSUME Inv2, [Next]_vars PROVE Inv2'
  OBVIOUS
<1>1. Inv1'
  BY Inv1Step DEF Inv2
<1>2. CASE UNCHANGED vars
  BY <1>1, <1>2 DEF Inv2, StateFromHistory, HeldRecorded, vars
<1>3. CASE Next
  BY <1>1, <1>3, AdvanceRecorded, FaultRecorded, EnvironmentRecorded DEF Next, Inv2
<1> QED
  BY <1>2, <1>3

LEMMA Inv4Step ==
    ASSUME OneInstance, NoFailedReads
    PROVE  Inv4 /\ [Next]_vars => Inv4'
<1> SUFFICES ASSUME Inv4, [Next]_vars PROVE Inv4'
  OBVIOUS
<1>1. Inv2' /\ used'["read"] =< Budget["read"]
  BY Inv2Step, UsedBounded DEF Inv4, Inv2
<1>2. CASE UNCHANGED vars
  BY <1>1, <1>2 DEF Inv4, GuardHeld, GuardOK, vars
<1>3. CASE Next
  BY <1>1, <1>3, AdvanceKeepsGuard, FaultKeepsGuard, EnvironmentKeepsGuard
     DEF Next, Inv4
<1> QED
  BY <1>2, <1>3

Shown == [s \in GuardedSlots |-> redis[s]]

\* The steps that do not touch Redis record an event or nothing.
LEMMA OtherStepsRecord ==
    ASSUME Inv2, NEW r \in Readers, Advance(r) \/ Fault(r), ~PipeStep(r)
    PROVE  /\ redis' = redis
           /\ history' = history \/ \E e \in Events : history' = history \union {e}
<1>1. work[r].pc # "idle" => work[r].ev \in Events
  BY DEF Inv2, Inv1, WorkOK, ReaderOK
<1>2. CASE WriteHistory(r) \/ HistoryFails(r)
  BY <1>1, <1>2 DEF WriteHistory, HistoryFails, At, Record
<1>3. CASE ~(WriteHistory(r) \/ HistoryFails(r))
  BY <1>3 DEF Advance, Fetch, Dedup, ReadLatest, ReadStart, InsertCdr, Commit, Fault,
              DedupFails, DedupRetried, ReadFails, CdrFails, PipeFails, PipeRetried,
              CommitFails, kafka
<1> QED
  BY <1>2, <1>3

\* One command of a pipeline shows a recorded event that is recent enough, or
\* leaves status and meter alone.
LEMMA PipeStepShows ==
    ASSUME Inv4, NEW r \in Readers, PipeStep(r)
    PROVE  /\ history' = history
           /\ Shown' = Shown \/ \E e \in GuardedEvents : Latest!Show(e)
<1> DEFINE e == work[r].ev
           g == GuardSlot(e)
<1>0. /\ e \in Events /\ work[r].start \in Events \union {None}
      /\ work[r].n \in 1..Len(Pipe(e, work[r].start))
      /\ work[r].pc = "pipe" /\ e \in history
      /\ redis \in [Slots -> Events \union {None}]
  BY DEF Inv4, Inv2, Inv1, TypeOK, WorkOK, ReaderOK, WorkRecord, PipeStep, At,
         HeldRecorded
<1>1. \A s \in GuardedSlots : s \in Command(work[r]).slots =>
          e.type \in GuardedTypes /\ s = g /\ Command(work[r]).val = e
  BY <1>0, PipeGuarded DEF WritesGuarded, Command
<1>2. redis' = [s \in Slots |-> IF s \in Command(work[r]).slots
                                THEN Command(work[r]).val ELSE redis[s]]
      /\ history' = history
  BY DEF PipeStep, Apply
<1>3. CASE \E s \in GuardedSlots : s \in Command(work[r]).slots
  <2>1. e \in GuardedEvents /\ g \in GuardedSlots /\ g \in Command(work[r]).slots
        /\ Command(work[r]).val = e
    BY <1>0, <1>1, <1>3 DEF GuardedEvents
  <2>2. Shown' = [Shown EXCEPT ![g] = e]
    BY <1>1, <1>2, <2>1 DEF Shown, GuardedSlots
  <2>3. redis[g] = None \/ Trunc(redis[g].ts) =< Trunc(e.ts)
    <3>1. redis[g] = e \/ Passes(e, redis[g])
      BY <1>0, <2>1 DEF Inv4, GuardHeld, GuardOK, GuardedEvents
    <3>2. redis[g] \in Events \union {None}
      BY <1>0, <2>1 DEF GuardedSlots
    <3>3. CASE redis[g] = e
      <4>1. Trunc(e.ts) \in Nat
        BY <1>0, TruncDiv, EventsAssumption
      <4> QED
        BY <3>3, <4>1
    <3> QED
      BY <1>0, <3>1, <3>2, <3>3, NewerRank DEF Passes
  <2>4. redis[g] \in Events \union {None}
    BY <1>0, <2>1 DEF GuardedSlots
  <2>5. Latest!Show(e)
    <3>1. [d \in GuardedEvents |-> GuardSlot(d)][e] = g
      BY <2>1
    <3>2. Shown[g] = redis[g]
      BY <2>1 DEF Shown
    <3>3. redis[g] # None =>
             [d \in Events |-> Trunc(d.ts)][redis[g]] =< [d \in Events |-> Trunc(d.ts)][e]
      BY <1>0, <2>3, <2>4
    <3> HIDE DEF g
    <3> QED
      BY <1>0, <1>2, <2>2, <3>1, <3>2, <3>3 DEF Latest!Show, Shown
  <2>6. \E d \in GuardedEvents : Latest!Show(d)
    BY <2>1, <2>5 DEF Latest!Show
  <2> QED
    BY <1>2, <2>6
<1>4. CASE ~\E s \in GuardedSlots : s \in Command(work[r]).slots
  BY <1>2, <1>4 DEF Shown, GuardedSlots
<1> QED
  BY <1>2, <1>3, <1>4

\* With one instance and no failed read, the guarded part of Redis behaves as
\* LatestState (RefinesLatestState): the read, the check and the write, in
\* steps of their own, amount to one atomic update that never goes back.
THEOREM GuardRefinesLatest ==
    ASSUME OneInstance, NoFailedReads
    PROVE  Spec => RefinesLatestState
<1>1. Init => Latest!Init
  BY DEF Init, Latest!Init, GuardedSlots
<1>2. Inv4 /\ [Next]_vars => [Latest!Next]_<<history, Shown>>
  <2> SUFFICES ASSUME Inv4, [Next]_vars
               PROVE  Latest!Next \/ UNCHANGED <<history, Shown>>
    OBVIOUS
  <2>1. CASE UNCHANGED vars
    BY <2>1 DEF vars, Shown
  <2>2. ASSUME NEW r \in Readers, PipeStep(r)
        PROVE  Latest!Next \/ UNCHANGED <<history, Shown>>
    BY <2>2, PipeStepShows DEF Latest!Next
  <2>3. ASSUME NEW r \in Readers, Advance(r) \/ Fault(r), ~PipeStep(r)
        PROVE  Latest!Next \/ UNCHANGED <<history, Shown>>
    <3>1. Shown' = Shown
          /\ (history' = history \/ \E e \in Events : history' = history \union {e})
      BY <2>3, OtherStepsRecord DEF Inv4, Shown
    <3> QED
      BY <3>1 DEF Latest!Next, Latest!Record, Shown
  <2>4. CASE Environment
    <3>1. history' = history
      BY <2>4 DEF Environment, Produce, Crash, Rebalance, DedupExpires, TxExpires
    <3>2. \A s \in GuardedSlots : redis'[s] = redis[s]
      <4>1. ASSUME NEW c \in Chargers, TxExpires(c)
            PROVE  \A s \in GuardedSlots : redis'[s] = redis[s]
        BY <4>1 DEF TxExpires, Apply, Cmd, GuardedSlots
      <4> QED
        BY <2>4, <4>1 DEF Environment, Produce, Crash, Rebalance, DedupExpires
    <3> QED
      BY <3>1, <3>2 DEF Shown
  <2> QED
    BY <2>1, <2>2, <2>3, <2>4 DEF Next
<1>3. Spec => []Inv4
  BY Inv4Init, Inv4Step, PTL DEF Spec
<1> QED
  BY <1>1, <1>2, <1>3, PTL DEF Spec, RefinesLatestState, Latest!Spec, Shown

-----------------------------------------------------------------------------
(* What is listed can be read, and with one instance the newest event       *)
(* handled is shown.                                                        *)

\* The fields that a command may delete
Transient == {"tx", "txttl"}
Lasting   == {s \in Slots : s[1] \notin Transient}

\* Of a pipeline, a command that deletes deletes transient fields only.
LEMMA PipeFills ==
    ASSUME NEW e \in Events, NEW start \in Events \union {None},
           NEW n \in 1..Len(Pipe(e, start)), NEW s \in Lasting,
           s \in Pipe(e, start)[n].slots
    PROVE  Pipe(e, start)[n].val = e
<1> DEFINE Fills(p) == \A k \in 1..Len(p) : s \in p[k].slots => p[k].val = e
<1> USE DEF Lasting, Transient, Charger, Conn, Cmd
<1>1. Fills(BootPipe(e)) /\ Fills(HeartbeatPipe(e))
  BY DEF BootPipe, HeartbeatPipe, MarkUp
<1>2. Fills(StatusPipe(e))
  BY DEF StatusPipe, MarkUp, AddConn, List
<1>3. Fills(MeterPipe(e))
  BY DEF MeterPipe, Touch, AddConn, List
<1>4. Fills(StartPipe(e))
  BY DEF StartPipe, Touch, AddConn, List
<1>5. Fills(StopPipe(e, start))
  BY DEF StopPipe, FreeConn, Touch, List
<1> HIDE DEF Fills
<1>6. Fills(Pipe(e, start))
  BY <1>1, <1>2, <1>3, <1>4, <1>5 DEF Pipe
<1> QED
  BY <1>6 DEF Fills

\* A charger or connector is listed by a later command than the one that gives
\* it something to show.
ListsLate(p) ==
    \A k \in 1..Len(p) : \A c \in Chargers :
        /\ <<"listed", c, 0>> \in p[k].slots =>
              \E j \in 1..(k - 1) : <<"seen", c, 0>> \in p[j].slots
        /\ \A i \in Connectors : <<"member", c, i>> \in p[k].slots =>
              \E f \in {"status", "meter", "active"} :
                 \E j \in 1..(k - 1) : <<f, c, i>> \in p[j].slots

LEMMA PipeOrder ==
    ASSUME NEW e \in Events, NEW start \in Events \union {None}
    PROVE  ListsLate(Pipe(e, start))
<1> USE DEF ListsLate, Charger, Conn, Cmd
<1>1. ListsLate(BootPipe(e)) /\ ListsLate(HeartbeatPipe(e))
  BY DEF BootPipe, HeartbeatPipe, MarkUp
<1>2. ListsLate(StatusPipe(e))
  BY DEF StatusPipe, MarkUp, AddConn, List
<1>3. ListsLate(MeterPipe(e))
  BY SMTT(20) DEF MeterPipe, Touch, AddConn, List
<1>4. ListsLate(StartPipe(e))
  <2> DEFINE p == StartPipe(e)
  <2>1. /\ Len(p) = 6
        /\ p[1].slots = {<<"active", e.charger, e.conn>>}
        /\ p[2].slots = {<<"member", e.charger, e.conn>>}
        /\ p[3].slots = {<<"tx", e.charger, 0>>}
        /\ p[4].slots = {<<"txttl", e.charger, 0>>}
        /\ p[5].slots = {<<"seen", e.charger, 0>>}
        /\ p[6].slots = {<<"listed", e.charger, 0>>}
    BY DEF StartPipe, Touch, AddConn, List
  <2> HIDE DEF p
  <2>2. \A k \in 1..6 : k \in {1, 2, 3, 4, 5, 6}
    OBVIOUS
  <2>3. 5 \in 1..(6 - 1) /\ 1 \in 1..(2 - 1)
    OBVIOUS
  <2> QED
    BY <2>1, <2>2, <2>3 DEF p
<1>5. ListsLate(StopPipe(e, start))
  <2> DEFINE p == StopPipe(e, start)
             n == Len(p)
  <2>1. /\ n \in {3, 4}
        /\ \A k \in 1..n : \A s \in p[k].slots : s[1] = "listed" => k = n
        /\ \A k \in 1..n : \A s \in p[k].slots : s[1] # "member"
        /\ p[n].slots = {<<"listed", e.charger, 0>>}
        /\ p[n - 1].slots = {<<"seen", e.charger, 0>>}
    BY DEF StopPipe, FreeConn, Touch, List
  <2> HIDE DEF p
  <2>2. n - 1 \in 1..(n - 1)
    BY <2>1
  <2>3. \A c, i : <<"listed", c, i>>[1] = "listed" /\ <<"member", c, i>>[1] = "member"
    OBVIOUS
  <2> QED
    BY <2>1, <2>2, <2>3 DEF p
<1> HIDE DEF ListsLate
<1> QED
  BY <1>1, <1>2, <1>3, <1>4, <1>5 DEF Pipe

\* Outside of a pipeline a goroutine writes nothing to Redis, and it starts a
\* pipeline with its first command.
LEMMA PipeEntry ==
    ASSUME Inv1, NEW r \in Readers, Advance(r) \/ Fault(r), ~PipeStep(r)
    PROVE  /\ redis' = redis
           /\ \A x \in Readers : x # r => work'[x] = work[x]
           /\ work'[r].pc = "pipe" => work'[r].n = 1
<1>0. work \in [Readers -> WorkRecord] /\ work[r] \in WorkRecord /\ ReaderOK(r, work[r])
  BY DEF Inv1, TypeOK, WorkOK
<1>1. ASSUME NEW w, Become(r, w)
      PROVE  /\ \A x \in Readers : x # r => work'[x] = work[x]
             /\ work'[r] = w
  BY <1>0, <1>1 DEF Become
<1>2. ASSUME NEW pc, GoTo(r, pc)
      PROVE  /\ \A x \in Readers : x # r => work'[x] = work[x]
             /\ work'[r].pc = pc /\ work'[r].n = work[r].n
  BY <1>0, <1>2 DEF GoTo, Become, WorkRecord
<1>3. CASE Fetch(r)
  <2>1. PICK e, off : Become(r, [Idle EXCEPT !.pc = "dedup", !.ev = e, !.off = off])
    BY <1>3 DEF Fetch
  <2>2. work'[r] = [Idle EXCEPT !.pc = "dedup", !.ev = e, !.off = off]
        /\ \A x \in Readers : x # r => work'[x] = work[x]
    BY <1>1, <2>1
  <2>3. work'[r].pc = "dedup"
    BY <2>2 DEF Idle
  <2> QED
    BY <1>3, <2>2, <2>3 DEF Fetch
<1>4. CASE Dedup(r) \/ DedupFails(r) \/ DedupRetried(r)
  BY <1>1, <1>2, <1>4 DEF Dedup, DedupFails, DedupRetried, GiveUp, Idle
<1>5. CASE WriteHistory(r) \/ HistoryFails(r)
  <2>1. BeginUpdate(work[r]).pc = "pipe" => BeginUpdate(work[r]).n = 1
    BY <1>0 DEF BeginUpdate, Idle, WorkRecord
  <2> QED
    BY <1>1, <1>5, <2>1 DEF WriteHistory, HistoryFails, HistoryErrorReturned, Idle
<1>6. CASE ReadLatest(r) \/ ReadFails(r)
  <2>1. [work[r] EXCEPT !.pc = "pipe", !.n = 1].n = 1
    BY <1>0 DEF WorkRecord
  <2>2. Become(r, [work[r] EXCEPT !.pc = "pipe", !.n = 1]) \/ GoTo(r, "commit")
    BY <1>6 DEF ReadLatest, ReadFails
  <2>3. redis' = redis
    BY <1>6 DEF ReadLatest, ReadFails
  <2>4. CASE Become(r, [work[r] EXCEPT !.pc = "pipe", !.n = 1])
    BY <1>1, <2>1, <2>3, <2>4
  <2>5. CASE GoTo(r, "commit")
    <3>1. work'[r].pc = "commit"
      BY <1>2, <2>5
    <3> QED
      BY <1>2, <2>3, <2>5, <3>1
  <2> QED
    BY <2>2, <2>4, <2>5
<1>10. CASE PipeRetried(r)
  <2>1. [work[r] EXCEPT !.n = 1].n = 1
    BY <1>0 DEF WorkRecord
  <2> QED
    BY <1>1, <1>10, <2>1 DEF PipeRetried
<1>7. CASE ReadStart(r)
  <2>1. PICK pc, start : Become(r, [work[r] EXCEPT !.pc = pc, !.start = start, !.n = 1])
    BY <1>7 DEF ReadStart
  <2>2. [work[r] EXCEPT !.pc = pc, !.start = start, !.n = 1].n = 1
    BY <1>0 DEF WorkRecord
  <2> QED
    BY <1>1, <1>7, <2>1, <2>2 DEF ReadStart
<1>8. CASE InsertCdr(r) \/ CdrFails(r)
  BY <1>0, <1>2, <1>8 DEF InsertCdr, CdrFails, At, ReaderOK
<1>9. CASE Commit(r) \/ CommitFails(r) \/ PipeFails(r)
  BY <1>1, <1>9 DEF Commit, CommitFails, PipeFails, GiveUp, Idle
<1> QED
  BY <1>3, <1>4, <1>5, <1>6, <1>7, <1>8, <1>9, <1>10 DEF Advance, Fault

-----------------------------------------------------------------------------
(* What is listed can be read                                              *)

\* The commands of a pipeline that were executed have left something in the
\* fields that last.
Written(w) == w.pc = "pipe" =>
    \A j \in 1..(w.n - 1) : \A s \in Lasting :
        s \in Pipe(w.ev, w.start)[j].slots => redis[s] # None
Inv5 == Inv1 /\ ListedIsReadable /\ \A r \in Readers : Written(work[r])

\* A goroutine in a pipeline is at one of its commands.
LEMMA AtCommand ==
    ASSUME Inv1, NEW r \in Readers, work[r].pc = "pipe"
    PROVE  /\ work[r].ev \in Events /\ work[r].start \in Events \union {None}
           /\ work[r].n \in 1..Len(Pipe(work[r].ev, work[r].start))
           /\ work[r].ev # None
BY NoneAssumption DEF Inv1, TypeOK, WorkOK, ReaderOK, WorkRecord

LEMMA PipeStepFills ==
    ASSUME Inv1, NEW r \in Readers, PipeStep(r), NEW s \in Lasting
    PROVE  /\ redis'[s] = IF s \in Command(work[r]).slots THEN work[r].ev ELSE redis[s]
           /\ s \in Command(work[r]).slots => redis'[s] # None
<1>1. /\ work[r].pc = "pipe" /\ s \in Slots
      /\ redis' = Apply(redis, Command(work[r]))
  BY DEF PipeStep, At, Lasting
<1>2. s \in Command(work[r]).slots => Command(work[r]).val = work[r].ev
  BY <1>1, AtCommand, PipeFills DEF Command
<1> QED
  BY <1>1, <1>2, AtCommand DEF Apply

\* A field that lasts is never emptied again.
LEMMA LastingKept ==
    ASSUME Inv1, [Next]_vars, NEW s \in Lasting, redis[s] # None
    PROVE  redis'[s] # None
<1>1. ASSUME NEW r \in Readers, PipeStep(r)
      PROVE  redis'[s] # None
  BY <1>1, PipeStepFills
<1>2. ASSUME NEW r \in Readers, Advance(r) \/ Fault(r), ~PipeStep(r)
      PROVE  redis'[s] # None
  BY <1>2, PipeEntry
<1>3. ASSUME NEW c \in Chargers, TxExpires(c)
      PROVE  redis'[s] # None
  BY <1>3 DEF TxExpires, Apply, Cmd, Lasting, Transient
<1>4. CASE Environment
  BY <1>3, <1>4 DEF Environment, Produce, Crash, Rebalance, DedupExpires
<1>5. CASE UNCHANGED vars
  BY <1>5 DEF vars
<1> QED
  BY <1>1, <1>2, <1>4, <1>5 DEF Next

LEMMA LastingSlots ==
    ASSUME NEW c \in Chargers, NEW n \in Connectors,
           NEW f \in {"seen", "listed", "member", "status", "meter", "active"}
    PROVE  <<f, c, n>> \in Lasting /\ <<f, c, 0>> \in Lasting
BY ConnectorAssumption DEF Lasting, Transient, Slots, Fields

\* When a command lists a charger or a connector, an earlier command of the
\* same pipeline has given it something to show.
LEMMA PipeStepReadable ==
    ASSUME Inv5, NEW r \in Readers, PipeStep(r)
    PROVE  ListedIsReadable'
<1> DEFINE p == Pipe(work[r].ev, work[r].start)
           k == work[r].n
<1>0. Inv1 /\ [Next]_vars /\ work[r].pc = "pipe"
  BY DEF Inv5, PipeStep, At, Next, Advance
<1>1. ListsLate(p) /\ k \in 1..Len(p) /\ Command(work[r]) = p[k]
  BY <1>0, AtCommand, PipeOrder DEF Command
<1>2. \A j \in 1..(k - 1) : \A s \in Lasting : s \in p[j].slots => redis[s] # None
  BY <1>0 DEF Inv5, Written
<1> HIDE DEF p, k
<1>3. ASSUME NEW c \in Chargers, redis'[<<"listed", c, 0>>] # None
      PROVE  redis'[<<"seen", c, 0>>] # None
  <2>1. <<"seen", c, 0>> \in Lasting /\ <<"listed", c, 0>> \in Lasting
    BY LastingSlots, ConnectorAssumption
  <2>2. CASE redis[<<"listed", c, 0>>] # None
    <3>1. redis[<<"seen", c, 0>>] # None
      BY <2>2 DEF Inv5, ListedIsReadable
    <3> QED
      BY <1>0, <2>1, <3>1, LastingKept
  <2>3. CASE redis[<<"listed", c, 0>>] = None
    <3>1. <<"listed", c, 0>> \in p[k].slots
      BY <1>0, <1>1, <1>3, <2>1, <2>3, PipeStepFills
    <3>2. \E j \in 1..(k - 1) : <<"seen", c, 0>> \in p[j].slots
      BY <1>1, <3>1 DEF ListsLate
    <3>3. redis[<<"seen", c, 0>>] # None
      BY <1>2, <2>1, <3>2
    <3> QED
      BY <1>0, <2>1, <3>3, LastingKept
  <2> QED
    BY <2>2, <2>3
<1>4. ASSUME NEW c \in Chargers, NEW n \in Connectors,
             redis'[<<"member", c, n>>] # None
      PROVE  \E f \in {"status", "meter", "active"} : redis'[<<f, c, n>>] # None
  <2> DEFINE shows == {"status", "meter", "active"}
  <2>1. <<"member", c, n>> \in Lasting /\ \A f \in shows : <<f, c, n>> \in Lasting
    BY LastingSlots
  <2>2. \E f \in shows : redis[<<f, c, n>>] # None
    <3>1. CASE redis[<<"member", c, n>>] # None
      BY <3>1 DEF Inv5, ListedIsReadable
    <3>2. CASE redis[<<"member", c, n>>] = None
      <4>1. <<"member", c, n>> \in p[k].slots
        BY <1>0, <1>1, <1>4, <2>1, <3>2, PipeStepFills
      <4>2. \E f \in shows : \E j \in 1..(k - 1) : <<f, c, n>> \in p[j].slots
        BY <1>1, <4>1 DEF ListsLate
      <4> QED
        BY <1>2, <2>1, <4>2
    <3> QED
      BY <3>1, <3>2
  <2> QED
    BY <1>0, <2>1, <2>2, LastingKept
<1> QED
  BY <1>3, <1>4 DEF ListedIsReadable

LEMMA PipeStepWritten ==
    ASSUME Inv5, NEW r \in Readers, PipeStep(r), NEW x \in Readers
    PROVE  Written(work[x])'
<1>0. /\ Inv1 /\ [Next]_vars /\ work[r].pc = "pipe"
      /\ work \in [Readers -> WorkRecord]
  BY DEF Inv5, Inv1, TypeOK, PipeStep, At, Next, Advance
<1>1. CASE x # r
  <2>1. work'[x] = work[x]
    BY <1>0, <1>1 DEF PipeStep, GoTo, Become
  <2> QED
    BY <1>0, <2>1, LastingKept DEF Inv5, Written
<1>2. CASE x = r
  <2> DEFINE k == work[r].n
  <2>1. CASE LastCommand(work[r])
    <3>1. work'[r].pc = "commit"
      BY <1>0, <2>1 DEF PipeStep, GoTo, Become, WorkRecord
    <3> QED
      BY <1>2, <3>1 DEF Written
  <2>2. CASE ~LastCommand(work[r])
    <3>1. /\ work'[r].ev = work[r].ev /\ work'[r].start = work[r].start
          /\ work'[r].n = k + 1
      BY <1>0, <2>2 DEF PipeStep, Become, WorkRecord
    <3>2. k \in Nat /\ Command(work[r]) = Pipe(work[r].ev, work[r].start)[k]
      BY <1>0 DEF WorkRecord, Command
    <3>3. ASSUME NEW j \in 1..k, NEW s \in Lasting,
                 s \in Pipe(work[r].ev, work[r].start)[j].slots
          PROVE  redis'[s] # None
      <4>1. CASE j = k
        BY <1>0, <3>2, <3>3, <4>1, PipeStepFills
      <4>2. CASE j # k
        <5>1. j \in 1..(k - 1)
          BY <3>2, <4>2
        <5>2. redis[s] # None
          BY <1>0, <3>3, <5>1 DEF Inv5, Written
        <5> QED
          BY <1>0, <5>2, LastingKept
      <4> QED
        BY <4>1, <4>2
    <3>4. (k + 1) - 1 = k
      BY <3>2
    <3> QED
      BY <1>2, <3>1, <3>3, <3>4 DEF Written
  <2> QED
    BY <2>1, <2>2
<1> QED
  BY <1>1, <1>2

LEMMA OtherStepsWritten ==
    ASSUME Inv5, [Next]_vars, NEW x \in Readers,
           work'[x] = work[x] \/ (work'[x].pc = "pipe" => work'[x].n = 1)
    PROVE  Written(work[x])'
<1>1. CASE work'[x] = work[x]
  BY <1>1, LastingKept DEF Inv5, Written
<1>2. CASE work'[x].pc = "pipe" => work'[x].n = 1
  BY <1>2 DEF Written
<1> QED
  BY <1>1, <1>2

LEMMA Inv5Step == Inv5 /\ [Next]_vars => Inv5'
<1> SUFFICES ASSUME Inv5, [Next]_vars
             PROVE  Inv5'
  OBVIOUS
<1>1. Inv1 /\ Inv1'
  BY Inv1Step DEF Inv5
<1>2. ASSUME NEW r \in Readers, PipeStep(r)
      PROVE  Inv5'
  BY <1>1, <1>2, PipeStepReadable, PipeStepWritten DEF Inv5
<1>3. ASSUME NEW r \in Readers, Advance(r) \/ Fault(r), ~PipeStep(r)
      PROVE  Inv5'
  <2>1. redis' = redis
    BY <1>1, <1>3, PipeEntry
  <2>2. \A x \in Readers : work'[x] = work[x]
          \/ (work'[x].pc = "pipe" => work'[x].n = 1)
    BY <1>1, <1>3, PipeEntry
  <2>3. \A x \in Readers : Written(work[x])'
    BY <2>2, OtherStepsWritten
  <2> QED
    BY <1>1, <2>1, <2>3 DEF Inv5, ListedIsReadable
<1>4. ASSUME Environment \/ UNCHANGED vars
      PROVE  Inv5'
  <2>1. \A x \in Readers : work'[x] = work[x]
          \/ (work'[x].pc = "pipe" => work'[x].n = 1)
    <3>1. ASSUME NEW i \in Instances, Crash(i)
          PROVE  \A x \in Readers : work'[x] = work[x] \/ work'[x] = Idle
      BY <3>1 DEF Crash
    <3>2. (\E i \in Instances : Crash(i)) \/ work' = work
      BY <1>4 DEF Environment, Produce, Rebalance, DedupExpires, TxExpires, vars
    <3>3. Idle.pc # "pipe"
      BY DEF Idle
    <3> QED
      BY <3>1, <3>2, <3>3
  <2>2. \A x \in Readers : Written(work[x])'
    BY <2>1, OtherStepsWritten
  <2>3. \A c \in Chargers : \A n \in Connectors :
          \A f \in {"seen", "listed", "member", "status", "meter", "active"} :
             redis'[<<f, c, n>>] = redis[<<f, c, n>>]
    <3>1. ASSUME NEW d \in Chargers, TxExpires(d)
          PROVE  \A s \in Lasting : redis'[s] = redis[s]
      BY <1>1, <3>1 DEF TxExpires, Apply, Cmd, Lasting, Transient, Inv1, TypeOK
    <3>2. \A s \in Lasting : redis'[s] = redis[s]
      BY <1>4, <3>1 DEF Environment, Produce, Crash, Rebalance, DedupExpires, vars
    <3> QED
      BY <3>2, LastingSlots
  <2>4. ListedIsReadable'
    <3>1. ASSUME NEW c \in Chargers, redis'[<<"listed", c, 0>>] # None
          PROVE  redis'[<<"seen", c, 0>>] # None
      <4>1. redis[<<"listed", c, 0>>] # None
        BY <2>3, <3>1, ConnectorAssumption
      <4>2. redis[<<"seen", c, 0>>] # None
        BY <4>1 DEF Inv5, ListedIsReadable
      <4> QED
        BY <2>3, <4>2, ConnectorAssumption
    <3>2. ASSUME NEW c \in Chargers, NEW n \in Connectors,
                 redis'[<<"member", c, n>>] # None
          PROVE  \E f \in {"status", "meter", "active"} : redis'[<<f, c, n>>] # None
      <4>1. redis[<<"member", c, n>>] # None
        BY <2>3, <3>2
      <4>2. \E f \in {"status", "meter", "active"} : redis[<<f, c, n>>] # None
        BY <4>1 DEF Inv5, ListedIsReadable
      <4> QED
        BY <2>3, <4>2
    <3> QED
      BY <3>1, <3>2 DEF ListedIsReadable
  <2> QED
    BY <1>1, <2>2, <2>4 DEF Inv5
<1> QED
  BY <1>2, <1>3, <1>4 DEF Next

LEMMA EmptyIsReadable ==
    ASSUME \A s \in Slots : redis[s] = None
    PROVE  ListedIsReadable
<1>1. \A c \in Chargers : \A n \in Connectors :
         redis[<<"listed", c, 0>>] = None /\ redis[<<"member", c, n>>] = None
  BY ConnectorAssumption DEF Slots, Fields
<1> QED
  BY <1>1, ConnectorAssumption DEF ListedIsReadable

LEMMA Inv5Always == Spec => []Inv5
<1>1. Init => Inv5
  <2>1. Init => ListedIsReadable /\ \A r \in Readers : Written(work[r])
    BY EmptyIsReadable DEF Init, Written, Idle
  <2> QED
    BY <2>1, Inv1Init DEF Inv5
<1> QED
  BY <1>1, Inv5Step, PTL DEF Spec

\* What the API lists it can also read (ListedIsReadable): a pipeline that stops
\* half way, is sent again or runs among others' commands has never listed a
\* charger or a connector before it had something to show.
THEOREM ListedCanBeRead == Spec => []ListedIsReadable
<1>1. Inv5 => ListedIsReadable
  BY DEF Inv5
<1> QED
  BY <1>1, Inv5Always, PTL
-----------------------------------------------------------------------------
(* With one instance, the newest event handled is shown                    *)

FaultFree == used["error"] + used["crash"] + used["read"] = 0

Covers(s, e)  == s # None /\ Trunc(e.ts) =< Trunc(s.ts)
\* e is about to be compared, or has passed the guard and is not yet written
Pending(w, e) == w.ev = e /\ (w.pc = "read" \/ (w.pc = "pipe" /\ w.n = 1))
Accounted(e)  == \/ Covers(redis[GuardSlot(e)], e)
                 \/ \E r \in Readers : Pending(work[r], e)
ShownOrPending == \A e \in history : Shows(e) => Accounted(e)
Inv6 == Inv2 /\ (FaultFree => GuardHeld /\ ShownOrPending)

LEMMA GuardSlotOK ==
    ASSUME NEW e \in Events, e.type \in GuardedTypes
    PROVE  GuardSlot(e) \in GuardedSlots /\ GuardSlot(e) \in Slots
BY EventsAssumption DEF GuardSlot, GuardedSlots, GuardedTypes, Conn, Slots, Fields

\* The first command of a status or meter pipeline writes the guarded field.
LEMMA FirstCommand ==
    ASSUME NEW e \in Events, NEW start \in Events \union {None}, e.type \in GuardedTypes
    PROVE  GuardSlot(e) \in Pipe(e, start)[1].slots /\ Pipe(e, start)[1].val = e
<1> USE DEF GuardSlot, Conn, Cmd, Pipe
<1>1. CASE e.type = "StatusNotification"
  BY <1>1 DEF StatusPipe
<1>2. CASE e.type = "MeterValues"
  BY <1>2 DEF MeterPipe
<1> QED
  BY <1>1, <1>2 DEF GuardedTypes

\* A command leaves a guarded field alone or moves it forward.
LEMMA PipeStepForward ==
    ASSUME Inv2, GuardHeld, NEW r \in Readers, PipeStep(r), NEW s \in GuardedSlots
    PROVE  \/ redis'[s] = redis[s]
           \/ /\ redis'[s] = work[r].ev
              /\ redis[s] # None => Trunc(redis[s].ts) =< Trunc(work[r].ev.ts)
<1> DEFINE e == work[r].ev
<1>0. /\ e \in Events /\ work[r].start \in Events \union {None}
      /\ work[r].n \in 1..Len(Pipe(e, work[r].start))
      /\ work[r].pc = "pipe"
      /\ redis[s] \in Events \union {None} /\ s \in Slots
  BY AtCommand DEF Inv2, Inv1, TypeOK, PipeStep, At, GuardedSlots
<1>1. s \in Command(work[r]).slots =>
          e.type \in GuardedTypes /\ s = GuardSlot(e) /\ Command(work[r]).val = e
  BY <1>0, PipeGuarded DEF WritesGuarded, Command
<1>2. redis'[s] = IF s \in Command(work[r]).slots
                  THEN Command(work[r]).val ELSE redis[s]
  BY <1>0 DEF PipeStep, Apply
<1>3. CASE s \in Command(work[r]).slots
  <2>1. redis[s] = e \/ Passes(e, redis[s])
    BY <1>0, <1>1, <1>3 DEF GuardHeld, GuardOK
  <2>2. Trunc(e.ts) \in Nat
    BY <1>0, TruncDiv, EventsAssumption
  <2>3. redis[s] # None => Trunc(redis[s].ts) =< Trunc(e.ts)
    <3>1. CASE redis[s] = e
      BY <2>2, <3>1
    <3>2. CASE redis[s] # None /\ redis[s] # e
      BY <1>0, <2>1, <3>2, NewerRank DEF Passes
    <3> QED
      BY <3>1, <3>2
  <2> QED
    BY <1>1, <1>2, <1>3, <2>3
<1> QED
  BY <1>2, <1>3

\* A later event of a guarded field covers what the field covered.
LEMMA CoversOn ==
    ASSUME NEW e \in Events, NEW s \in Events, NEW t \in Events,
           Covers(s, e), Trunc(s.ts) =< Trunc(t.ts)
    PROVE  Covers(t, e)
<1>1. Trunc(e.ts) \in Nat /\ Trunc(s.ts) \in Nat /\ Trunc(t.ts) \in Nat
  BY TruncDiv, EventsAssumption
<1> QED
  BY <1>1, NoneAssumption DEF Covers

LEMMA PipeStepAccounts ==
    ASSUME Inv2, GuardHeld, ShownOrPending, NEW r \in Readers, PipeStep(r)
    PROVE  ShownOrPending'
<1>0. /\ history' = history /\ history \subseteq Events
      /\ work[r].pc = "pipe" /\ work[r].ev \in Events
      /\ work[r].start \in Events \union {None}
      /\ redis \in [Slots -> Events \union {None}]
      /\ \A x \in Readers : x # r => work'[x] = work[x]
  BY AtCommand DEF Inv2, Inv1, TypeOK, PipeStep, At, GoTo, Become
<1> SUFFICES ASSUME NEW e \in history, Shows(e)
             PROVE  Accounted(e)'
  BY <1>0 DEF ShownOrPending
<1> DEFINE g == GuardSlot(e)
<1>1. e \in Events /\ e.type \in GuardedTypes /\ g \in GuardedSlots /\ g \in Slots
  BY <1>0, GuardSlotOK DEF Shows
<1>2. CASE Covers(redis[g], e)
  <2>1. redis[g] \in Events
    BY <1>0, <1>1, <1>2 DEF Covers
  <2>2. redis'[g] = redis[g]
        \/ (redis'[g] = work[r].ev /\ Trunc(redis[g].ts) =< Trunc(work[r].ev.ts))
    BY <1>1, <2>1, PipeStepForward, NoneAssumption
  <2>3. Covers(redis'[g], e)
    BY <1>0, <1>1, <1>2, <2>1, <2>2, CoversOn
  <2> QED
    BY <2>3 DEF Accounted
<1>3. ASSUME NEW x \in Readers, Pending(work[x], e)
      PROVE  Accounted(e)'
  <2>1. CASE x # r
    <3>1. Pending(work'[x], e)
      BY <1>0, <1>3, <2>1
    <3> QED
      BY <3>1 DEF Accounted
  <2>2. CASE x = r
    <3>1. work[r].ev = e /\ work[r].n = 1
      BY <1>0, <1>3, <2>2 DEF Pending
    <3>2. g \in Command(work[r]).slots /\ Command(work[r]).val = e
      BY <1>0, <1>1, <3>1, FirstCommand DEF Command
    <3>3. redis'[g] = e
      BY <1>1, <3>2 DEF PipeStep, Apply
    <3>4. Covers(e, e)
      <4>1. Trunc(e.ts) \in Nat
        BY <1>1, TruncDiv, EventsAssumption
      <4> QED
        BY <1>1, <4>1, NoneAssumption DEF Covers
    <3> QED
      BY <3>3, <3>4 DEF Accounted
  <2> QED
    BY <2>1, <2>2
<1> QED
  BY <1>2, <1>3 DEF ShownOrPending, Accounted

\* A goroutine that leaves the reads without going on to the pipeline has found
\* something as recent.
LEMMA NotPassedIsCovered ==
    ASSUME NEW e \in Events, NEW old \in Events \union {None}, ~Passes(e, old)
    PROVE  Covers(old, e)
<1>1. old \in Events /\ old # None /\ ~(e.ts > Trunc(old.ts))
  BY DEF Passes, IsNewer
<1>2. /\ e.ts \in Nat /\ Trunc(e.ts) \in Nat /\ Trunc(old.ts) \in Nat
      /\ Trunc(e.ts) =< e.ts
  BY <1>1, TruncDiv, EventsAssumption
<1> QED
  BY <1>1, <1>2 DEF Covers

\* A goroutine moves without writing to Redis: what is recorded now is pending
\* at it, and what was pending at it still is, or was found to be covered.
LEMMA MoveAccounts ==
    ASSUME ShownOrPending, redis' = redis, NEW r \in Readers,
           \A x \in Readers : x # r => work'[x] = work[x],
           \A e \in history' \ history : Shows(e) => Pending(work'[r], e),
           \A e \in history : Shows(e) /\ Pending(work[r], e) =>
               Pending(work'[r], e) \/ Covers(redis[GuardSlot(e)], e)
    PROVE  ShownOrPending'
<1> SUFFICES ASSUME NEW e \in history', Shows(e)
             PROVE  Accounted(e)'
  BY DEF ShownOrPending
<1>1. CASE e \notin history
  BY <1>1 DEF Accounted
<1>2. CASE e \in history
  <2>1. Accounted(e)
    BY <1>2 DEF ShownOrPending
  <2>2. CASE Covers(redis[GuardSlot(e)], e)
    BY <2>2 DEF Accounted
  <2>3. ASSUME NEW x \in Readers, Pending(work[x], e)
        PROVE  Accounted(e)'
    <3>1. CASE x = r
      BY <1>2, <2>3, <3>1 DEF Accounted
    <3>2. CASE x # r
      <4>1. Pending(work'[x], e)
        BY <2>3, <3>2
      <4> QED
        BY <4>1 DEF Accounted
    <3> QED
      BY <3>1, <3>2
  <2> QED
    BY <2>1, <2>2, <2>3 DEF Accounted
<1> QED
  BY <1>1, <1>2

LEMMA FaultFreeBefore ==
    ASSUME Inv1, [Next]_vars, FaultFree'
    PROVE  /\ FaultFree /\ used["read"] = 0
           /\ \A k \in {"error", "crash", "read"} : ~Spend(k)
<1>1. \A k \in {"error", "crash", "read"} :
         /\ k \in Kinds /\ used[k] \in Nat /\ used'[k] \in Nat
         /\ used[k] =< used'[k]
  BY Inv1Step, UsedGrows DEF Inv1, TypeOK, Kinds
<1>2. \A k \in {"error", "crash", "read"} : used[k] = 0 /\ used'[k] = 0
  <2>1. used'["error"] = 0 /\ used'["crash"] = 0 /\ used'["read"] = 0
    <3>1. /\ used'["error"] \in Nat /\ used'["crash"] \in Nat /\ used'["read"] \in Nat
          /\ used'["error"] + used'["crash"] + used'["read"] = 0
      BY <1>1 DEF FaultFree
    <3> QED
      BY <3>1
  <2>2. \A k \in {"error", "crash", "read"} : used'[k] = 0
    BY <2>1
  <2> QED
    BY <1>1, <2>2
<1>3. ASSUME NEW k \in {"error", "crash", "read"}, Spend(k)
      PROVE  FALSE
  <2>1. used'[k] = used[k] + 1
    BY <1>3 DEF Spend, Inv1, TypeOK, Kinds
  <2> QED
    BY <1>2, <2>1
<1> QED
  BY <1>2, <1>3 DEF FaultFree

LEMMA AdvanceAccounts ==
    ASSUME Inv2, GuardHeld, ShownOrPending, NEW r \in Readers, Advance(r), ~PipeStep(r)
    PROVE  ShownOrPending'
<1> DEFINE e == work[r].ev
<1>0. /\ work \in [Readers -> WorkRecord] /\ work[r] \in WorkRecord
      /\ redis' = redis /\ \A x \in Readers : x # r => work'[x] = work[x]
      /\ redis \in [Slots -> Events \union {None}]
  BY PipeEntry DEF Inv2, Inv1, TypeOK
<1>1. CASE WriteHistory(r)
  <2>1. history' = history \union {e} /\ work'[r] = BeginUpdate(work[r])
        /\ work[r].pc = "history"
    BY <1>0, <1>1 DEF WriteHistory, Record, Become, At
  <2>2. Shows(e) => Pending(BeginUpdate(work[r]), e)
    BY <1>0 DEF Shows, GuardedTypes, BeginUpdate, ReadsFirst, Pending, WorkRecord
  <2>3. \A f : ~Pending(work[r], f)
    BY <2>1 DEF Pending
  <2> QED
    BY <1>0, <2>1, <2>2, <2>3, MoveAccounts
<1>2. CASE ReadLatest(r)
  <2>1. history' = history /\ work[r].pc = "read"
    BY <1>2 DEF ReadLatest, At
  <2>2. CASE Passes(e, redis[GuardSlot(e)])
    <3>1. work'[r] = [work[r] EXCEPT !.pc = "pipe", !.n = 1]
      BY <1>0, <1>2, <2>2 DEF ReadLatest, Become
    <3>2. \A f : Pending(work[r], f) => Pending(work'[r], f)
      BY <1>0, <3>1 DEF Pending, WorkRecord
    <3> QED
      BY <1>0, <2>1, <3>2, MoveAccounts
  <2>3. CASE ~Passes(e, redis[GuardSlot(e)])
    <3>1. \A f \in history : Shows(f) /\ Pending(work[r], f) => Covers(redis[GuardSlot(f)], f)
      <4> SUFFICES ASSUME Shows(e), e \in history
                   PROVE  Covers(redis[GuardSlot(e)], e)
        BY DEF Pending
      <4>1. e \in Events /\ GuardSlot(e) \in Slots
        BY GuardSlotOK DEF Shows, Inv2, Inv1, TypeOK
      <4> QED
        BY <1>0, <2>3, <4>1, NotPassedIsCovered
    <3> QED
      BY <1>0, <2>1, <3>1, MoveAccounts
  <2> QED
    BY <2>2, <2>3
<1>3. CASE ReadStart(r)
  <2>1. history' = history /\ work[r].ev.type = "StopTransaction"
    BY <1>3 DEF ReadStart
  <2>2. \A f : Pending(work[r], f) => ~Shows(f)
    BY <2>1 DEF Pending, Shows, GuardedTypes
  <2> QED
    BY <1>0, <2>1, <2>2, MoveAccounts
<1>4. CASE Fetch(r) \/ Dedup(r) \/ InsertCdr(r) \/ Commit(r)
  <2>1. history' = history /\ work[r].pc \in {"idle", "dedup", "cdr", "commit"}
    BY <1>4 DEF Fetch, Dedup, InsertCdr, Commit, At
  <2>2. \A f : ~Pending(work[r], f)
    BY <2>1 DEF Pending
  <2> QED
    BY <1>0, <2>1, <2>2, MoveAccounts
<1> QED
  BY <1>1, <1>2, <1>3, <1>4 DEF Advance

\* The faults that cost nothing: re-sent commands and a stop's failed lookup
LEMMA FaultAccounts ==
    ASSUME Inv2, GuardHeld, ShownOrPending, NEW r \in Readers, Fault(r),
           ~Spend("error"), ~Spend("read")
    PROVE  GuardHeld' /\ ShownOrPending'
<1>0. /\ work \in [Readers -> WorkRecord] /\ work[r] \in WorkRecord
      /\ GuardOK(work[r]) /\ Inv1
  BY DEF Inv2, Inv1, TypeOK, GuardHeld
<1>1. DedupRetried(r) \/ ReadFails(r) \/ PipeRetried(r) \/ CommitFails(r)
  BY DEF Fault, DedupFails, HistoryFails, CdrFails, PipeFails
<1>2. /\ redis' = redis /\ history' = history
      /\ \A x \in Readers : x # r => work'[x] = work[x]
  BY <1>0, <1>1 DEF DedupRetried, ReadFails, PipeRetried, CommitFails, GoTo, Become
<1>3. CASE DedupRetried(r) \/ CommitFails(r)
  <2>1. work[r].pc \in {"dedup", "commit"} /\ work'[r].pc \in {"commit", "idle"}
    BY <1>0, <1>3 DEF DedupRetried, CommitFails, At, GoTo, Become, WorkRecord, Idle
  <2>2. GuardOK(work[r])' /\ \A f : ~Pending(work[r], f)
    BY <2>1 DEF GuardOK, Pending
  <2> QED
    BY <1>2, <2>2, MoveKeepsGuard, MoveAccounts
<1>4. CASE ReadFails(r)
  <2>1. work[r].ev.type = "StopTransaction"
    BY <1>4 DEF ReadFails, ReadKind
  <2>2. work'[r].ev = work[r].ev
    BY <1>0, <1>4 DEF ReadFails, Become, WorkRecord
  <2>3. GuardOK(work[r])' /\ \A f : Pending(work[r], f) => ~Shows(f)
    BY <2>1, <2>2 DEF GuardOK, Pending, GuardedTypes, Shows
  <2> QED
    BY <1>2, <2>3, MoveKeepsGuard, MoveAccounts
<1>5. CASE PipeRetried(r)
  <2>1. work'[r].ev = work[r].ev /\ work[r].pc = "pipe" /\ work'[r].pc = "pipe"
        /\ work'[r].n = 1
    BY <1>0, <1>5 DEF PipeRetried, At, Become, WorkRecord
  <2>2. GuardOK(work[r])'
    BY <1>0, <1>2, <2>1 DEF GuardOK
  <2>3. \A f : Pending(work[r], f) => Pending(work'[r], f)
    BY <2>1 DEF Pending
  <2> QED
    BY <1>2, <2>2, <2>3, MoveKeepsGuard, MoveAccounts
<1> QED
  BY <1>1, <1>3, <1>4, <1>5

LEMMA EnvironmentAccounts ==
    ASSUME Inv2, ShownOrPending, Environment, ~Spend("crash")
    PROVE  ShownOrPending'
<1>1. work' = work /\ history' = history
  BY DEF Environment, Produce, Crash, Rebalance, DedupExpires, TxExpires
<1>2. \A s \in GuardedSlots : redis'[s] = redis[s]
  <2>1. ASSUME NEW c \in Chargers, TxExpires(c)
        PROVE  \A s \in GuardedSlots : redis'[s] = redis[s]
    BY <2>1 DEF TxExpires, Apply, Cmd, GuardedSlots
  <2> QED
    BY <2>1 DEF Environment, Produce, Crash, Rebalance, DedupExpires
<1>3. ASSUME NEW e \in history, Shows(e)
      PROVE  Accounted(e)'
  <2>1. GuardSlot(e) \in GuardedSlots
    BY <1>3, GuardSlotOK DEF Inv2, Inv1, TypeOK, Shows
  <2>2. Accounted(e)
    BY <1>3 DEF ShownOrPending
  <2> QED
    BY <1>1, <1>2, <2>1, <2>2 DEF Accounted
<1> QED
  BY <1>1, <1>3 DEF ShownOrPending

LEMMA Inv6Step ==
    ASSUME OneInstance
    PROVE  Inv6 /\ [Next]_vars => Inv6'
<1> SUFFICES ASSUME Inv6, [Next]_vars, FaultFree'
             PROVE  GuardHeld' /\ ShownOrPending'
  BY Inv2Step DEF Inv6
<1>1. /\ Inv2 /\ Inv1 /\ GuardHeld /\ ShownOrPending
      /\ ~Spend("error") /\ ~Spend("read") /\ ~Spend("crash")
  BY FaultFreeBefore DEF Inv6, Inv2
<1>2. ASSUME NEW r \in Readers, PipeStep(r)
      PROVE  GuardHeld' /\ ShownOrPending'
  BY <1>1, <1>2, PipeStepKeepsGuard, PipeStepAccounts
<1>3. ASSUME NEW r \in Readers, Advance(r), ~PipeStep(r)
      PROVE  GuardHeld' /\ ShownOrPending'
  BY <1>1, <1>3, AdvanceKeepsGuard, AdvanceAccounts
<1>4. ASSUME NEW r \in Readers, Fault(r)
      PROVE  GuardHeld' /\ ShownOrPending'
  BY <1>1, <1>4, FaultAccounts
<1>5. CASE Environment
  BY <1>1, <1>5, EnvironmentKeepsGuard, EnvironmentAccounts
<1>6. CASE UNCHANGED vars
  BY <1>1, <1>6 DEF GuardHeld, GuardOK, ShownOrPending, Accounted, vars
<1> QED
  BY <1>2, <1>3, <1>4, <1>5, <1>6 DEF Next

\* With one instance a status or meter that was recorded and handled is shown,
\* or one as recent to the second is (ShowsNewestHandled), in whatever order
\* events, resends and expiries come, for any number of them.
THEOREM NewestIsShown ==
    ASSUME OneInstance
    PROVE  Spec => []ShowsNewestHandled
<1>1. Init => Inv6
  <2>1. Init => ShownOrPending /\ GuardHeld
    BY DEF Init, ShownOrPending, GuardHeld, GuardOK, Idle
  <2>2. Init => Inv2
    BY Inv1Init DEF Init, Inv2, StateFromHistory, HeldRecorded, Idle
  <2> QED
    BY <2>1, <2>2 DEF Inv6
<1>2. Inv6 => ShowsNewestHandled
  BY DEF Inv6, ShowsNewestHandled, FaultFree, ShownOrPending, Accounted, Pending,
         Covers, BeingHandled
<1> QED
  BY <1>1, <1>2, Inv6Step, PTL DEF Spec
=============================================================================
