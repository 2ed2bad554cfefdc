--------------------- MODULE StateProcessorSessionProofs ---------------------
(***************************************************************************)
(* Proofs that charge sessions join a stop to its own start, and that each *)
(* fault costs a charger one session at most, for one instance and         *)
(* chargers that have one transaction at a time.                           *)
(***************************************************************************)
EXTENDS StateProcessorLossProofs

TxTypes == {"StartTransaction", "StopTransaction"}
IsTx(e) == e.type \in TxTypes
SameCharger(d, e) == IsTx(d) /\ IsTx(e) /\ d.charger = e.charger

\* What a charger with one transaction at a time has published: no other message
\* has the id of a start or a stop, and its starts and stops alternate.
OwnIds(s) == \A i, j \in DOMAIN s : IsTx(s[i]) /\ s[i].msg = s[j].msg => i = j
Between(s, i, j, e) ==
    \E k \in DOMAIN s : i < k /\ k < j /\ SameCharger(e, s[k]) /\ s[k].type # e.type
Alternates(s) ==
    \A i, j \in DOMAIN s : /\ i < j /\ SameCharger(s[i], s[j]) /\ s[i].type = s[j].type
                           => Between(s, i, j, s[i])
OneTransactionAtATime == \A s \in Feeds : OwnIds(s) /\ Alternates(s)

\* The same of what is in Kafka together with what is still to come.
FeedOK ==
    /\ OwnIds(feed) /\ Alternates(feed)
    /\ \A tp \in TPs : Alternates(log[tp])
    /\ \A tp, tq \in TPs : \A i \in DOMAIN log[tp], j \in DOMAIN log[tq] :
          IsTx(log[tp][i]) /\ log[tp][i].msg = log[tq][j].msg => tp = tq /\ i = j
    /\ \A tp \in TPs : \A i \in DOMAIN log[tp], j \in DOMAIN feed :
          /\ IsTx(log[tp][i]) \/ IsTx(feed[j]) => log[tp][i].msg # feed[j].msg
          /\ SameCharger(log[tp][i], feed[j]) /\ log[tp][i].type = feed[j].type =>
                \/ Between(log[tp], i, Len(log[tp]) + 1, log[tp][i])
                \/ Between(feed, 0, j, log[tp][i])

\* A goroutine at work is at the event its offset names, keys and sessions belong
\* to events in Kafka, and only stops read a start.
PlacesOK ==
    /\ \A r \in Readers : work[r].pc # "idle" =>
          LET l == log[TpOf(work[r].ev)] IN
          work[r].off \in DOMAIN l /\ l[work[r].off] = work[r].ev
    /\ \A m \in dedup : \E tp \in TPs : \E k \in DOMAIN log[tp] : log[tp][k].msg = m
    /\ \A s \in sessions : \E tp \in TPs : \E k \in DOMAIN log[tp] : log[tp][k] = s.stop
    /\ \A r \in Readers : /\ work[r].pc = "read" => work[r].ev.type # "StartTransaction"
                          /\ work[r].pc = "cdr" => work[r].ev.type = "StopTransaction"

Inv8 == Inv1 /\ OffsetsOK /\ FeedOK /\ PlacesOK


LEMMA FirstFeedOK == ASSUME OneTransactionAtATime, Init PROVE FeedOK
<1>1. feed \in Feeds /\ \A tp \in TPs : log[tp] = <<>>
  BY DEF Init
<1>2. OwnIds(feed) /\ Alternates(feed)
  BY <1>1 DEF OneTransactionAtATime
<1>3. Alternates(<<>>)
  BY DEF Alternates
<1>4. \A tp \in TPs : DOMAIN log[tp] = {}
  BY <1>1
<1> QED
  BY <1>1, <1>2, <1>3, <1>4 DEF FeedOK

\* A start or a stop goes to the partition its charger hashes to.
LEMMA SamePartition ==
    ASSUME NEW d \in Events, NEW e \in Events, SameCharger(d, e)
    PROVE  TpOf(d) = TpOf(e)
BY DEF SameCharger, IsTx, TxTypes, TpOf, TopicOf

LEMMA ProduceKeepsFeed ==
    ASSUME Inv1, FeedOK, Produce
    PROVE  FeedOK'
<1> DEFINE h  == Head(feed)
           ht == TpOf(h)
           N  == Len(log[ht])
<1>1. /\ feed \in Seq(Events) /\ feed # <<>> /\ log \in [TPs -> Seq(Events)]
      /\ h \in Events /\ h = feed[1] /\ ht \in TPs /\ 1 \in DOMAIN feed
  BY TopicType DEF Produce, Inv1, TypeOK
<1>2. /\ feed' \in Seq(Events) /\ Len(feed') = Len(feed) - 1
      /\ \A j \in DOMAIN feed' : j + 1 \in DOMAIN feed /\ j + 1 > 1 /\ feed'[j] = feed[j + 1]
      /\ \A j \in DOMAIN feed : j # 1 => j - 1 \in DOMAIN feed' /\ feed'[j - 1] = feed[j]
  BY <1>1 DEF Produce
<1>3. /\ N \in Nat /\ DOMAIN log'[ht] = 1..(N + 1) /\ log'[ht][N + 1] = h
      /\ \A i \in 1..N : log'[ht][i] = log[ht][i]
      /\ DOMAIN log[ht] = 1..N
      /\ \A tp \in TPs : tp # ht => log'[tp] = log[tp]
      /\ Len(log'[ht]) = N + 1
  BY <1>1 DEF Produce
<1>3a. \A tp \in TPs : DOMAIN log[tp] = 1..Len(log[tp]) /\ Len(log[tp]) \in Nat
  BY <1>1
<1> HIDE DEF h, ht, N
<1>4. OwnIds(feed')
  <2> SUFFICES ASSUME NEW i \in DOMAIN feed', NEW j \in DOMAIN feed', IsTx(feed'[i]),
                      feed'[i].msg = feed'[j].msg
               PROVE  i = j
    BY DEF OwnIds
  <2>1. i + 1 \in DOMAIN feed /\ j + 1 \in DOMAIN feed /\ i \in Nat /\ j \in Nat
    BY <1>1, <1>2
  <2>2. i + 1 = j + 1
    BY <1>2, <2>1 DEF OwnIds, FeedOK
  <2> QED
    BY <2>1, <2>2
<1>5. \A e : \A i, j \in DOMAIN feed : i > 0 /\ Between(feed, i, j, e) => Between(feed', i - 1, j - 1, e)
  <2> SUFFICES ASSUME NEW e, NEW i \in DOMAIN feed, NEW j \in DOMAIN feed, Between(feed, i, j, e)
               PROVE  Between(feed', i - 1, j - 1, e)
    OBVIOUS
  <2>1. PICK k \in DOMAIN feed : i < k /\ k < j /\ SameCharger(e, feed[k]) /\ feed[k].type # e.type
    BY DEF Between
  <2>2. k # 1 /\ i \in Nat /\ j \in Nat /\ k \in Nat /\ i >= 1
    <3>1. i \in Nat /\ j \in Nat /\ k \in Nat /\ i >= 1
      BY <1>1
    <3> QED
      BY <2>1, <3>1
  <2>3. k - 1 \in DOMAIN feed' /\ feed'[k - 1] = feed[k] /\ i - 1 < k - 1 /\ k - 1 < j - 1
    BY <1>2, <2>1, <2>2
  <2> QED
    BY <2>1, <2>3 DEF Between
<1>6. Alternates(feed')
  <2> SUFFICES ASSUME NEW i \in DOMAIN feed', NEW j \in DOMAIN feed', i < j,
                      SameCharger(feed'[i], feed'[j]), feed'[i].type = feed'[j].type
               PROVE  Between(feed', i, j, feed'[i])
    BY DEF Alternates
  <2>1. i + 1 \in DOMAIN feed /\ j + 1 \in DOMAIN feed /\ i \in Nat /\ j \in Nat
        /\ feed'[i] = feed[i + 1] /\ feed'[j] = feed[j + 1]
    BY <1>1, <1>2
  <2>2. Between(feed, i + 1, j + 1, feed[i + 1])
    BY <2>1 DEF FeedOK, Alternates
  <2>3. Between(feed', (i + 1) - 1, (j + 1) - 1, feed[i + 1])
    BY <1>5, <2>1, <2>2
  <2> QED
    BY <2>1, <2>3
<1>7. \A tp \in TPs : \A e : \A i, j : Between(log[tp], i, j, e) => Between(log'[tp], i, j, e)
  <2> SUFFICES ASSUME NEW tp \in TPs, NEW e, NEW i, NEW j, Between(log[tp], i, j, e)
               PROVE  Between(log'[tp], i, j, e)
    OBVIOUS
  <2>1. PICK k \in DOMAIN log[tp] : i < k /\ k < j /\ SameCharger(e, log[tp][k]) /\ log[tp][k].type # e.type
    BY DEF Between
  <2>2. k \in DOMAIN log'[tp] /\ log'[tp][k] = log[tp][k]
    BY <1>3
  <2> QED
    BY <2>1, <2>2 DEF Between
<1>8. ASSUME NEW tp \in TPs
      PROVE  Alternates(log'[tp])
  <2> SUFFICES ASSUME NEW i \in DOMAIN log'[tp], NEW j \in DOMAIN log'[tp], i < j,
                      SameCharger(log'[tp][i], log'[tp][j]), log'[tp][i].type = log'[tp][j].type
               PROVE  Between(log'[tp], i, j, log'[tp][i])
    BY DEF Alternates
  <2>1. CASE tp # ht \/ j # N + 1
    <3>1. i \in DOMAIN log[tp] /\ j \in DOMAIN log[tp] /\ log'[tp][i] = log[tp][i] /\ log'[tp][j] = log[tp][j]
      BY <1>3, <2>1
    <3>2. Between(log[tp], i, j, log[tp][i])
      BY <3>1 DEF FeedOK, Alternates
    <3> QED
      BY <1>7, <3>1, <3>2
  <2>2. CASE tp = ht /\ j = N + 1
    <3>1. i \in DOMAIN log[tp] /\ log'[tp][i] = log[tp][i] /\ log'[tp][j] = feed[1] /\ Len(log[tp]) = N
      BY <1>1, <1>3, <2>2 DEF N
    <3>2. Between(log[tp], i, N + 1, log[tp][i]) \/ Between(feed, 0, 1, log[tp][i])
      BY <1>1, <3>1 DEF FeedOK
    <3>3. ~Between(feed, 0, 1, log[tp][i])
      BY <1>1 DEF Between
    <3> QED
      BY <1>7, <2>2, <3>1, <3>2, <3>3
  <2> QED
    BY <2>1, <2>2
<1>9. ASSUME NEW tp \in TPs, NEW tq \in TPs, NEW i \in DOMAIN log'[tp], NEW j \in DOMAIN log'[tq],
             IsTx(log'[tp][i]), log'[tp][i].msg = log'[tq][j].msg
      PROVE  tp = tq /\ i = j
  <2>1. CASE ~(tp = ht /\ i = N + 1) /\ ~(tq = ht /\ j = N + 1)
    <3>1. i \in DOMAIN log[tp] /\ j \in DOMAIN log[tq] /\ log'[tp][i] = log[tp][i] /\ log'[tq][j] = log[tq][j]
      BY <1>3, <2>1
    <3> QED
      BY <1>9, <3>1 DEF FeedOK
  <2>2. CASE ~(tp = ht /\ i = N + 1) /\ tq = ht /\ j = N + 1
    <3>1. i \in DOMAIN log[tp] /\ log'[tp][i] = log[tp][i] /\ log'[tq][j] = feed[1]
      BY <1>1, <1>3, <2>2
    <3> QED
      BY <1>1, <1>9, <3>1 DEF FeedOK
  <2>3. CASE tp = ht /\ i = N + 1 /\ ~(tq = ht /\ j = N + 1)
    <3>1. j \in DOMAIN log[tq] /\ log'[tq][j] = log[tq][j] /\ log'[tp][i] = feed[1]
      BY <1>1, <1>3, <2>3
    <3> QED
      BY <1>1, <1>9, <3>1 DEF FeedOK
  <2> QED
    BY <2>1, <2>2, <2>3
<1>10. ASSUME NEW tp \in TPs, NEW i \in DOMAIN log'[tp], NEW j \in DOMAIN feed',
              IsTx(log'[tp][i]) \/ IsTx(feed'[j])
       PROVE  log'[tp][i].msg # feed'[j].msg
  <2>1. j + 1 \in DOMAIN feed /\ j + 1 # 1 /\ feed'[j] = feed[j + 1]
    BY <1>1, <1>2
  <2>2. CASE tp = ht /\ i = N + 1
    <3>1. log'[tp][i] = feed[1]
      BY <1>1, <1>3, <2>2
    <3>2. OwnIds(feed)
      BY DEF FeedOK
    <3>3. CASE IsTx(feed[1])
      BY <1>1, <2>1, <3>1, <3>2, <3>3 DEF OwnIds
    <3>4. CASE IsTx(feed[j + 1])
      BY <1>1, <2>1, <3>1, <3>2, <3>4 DEF OwnIds
    <3> QED
      BY <1>10, <2>1, <3>1, <3>3, <3>4
  <2>3. CASE ~(tp = ht /\ i = N + 1)
    <3>1. i \in DOMAIN log[tp] /\ log'[tp][i] = log[tp][i]
      BY <1>3, <2>3
    <3> QED
      BY <1>10, <2>1, <3>1 DEF FeedOK
  <2> QED
    BY <2>2, <2>3
<1>11. ASSUME NEW tp \in TPs, NEW i \in DOMAIN log'[tp], NEW j \in DOMAIN feed',
              SameCharger(log'[tp][i], feed'[j]), log'[tp][i].type = feed'[j].type
       PROVE  \/ Between(log'[tp], i, Len(log'[tp]) + 1, log'[tp][i])
              \/ Between(feed', 0, j, log'[tp][i])
  <2>1. /\ j + 1 \in DOMAIN feed /\ j + 1 > 1 /\ feed'[j] = feed[j + 1] /\ j \in Nat
        /\ (j + 1) - 1 = j
    BY <1>1, <1>2
  <2>2. CASE tp = ht /\ i = N + 1
    <3>1. log'[tp][i] = feed[1]
      BY <1>1, <1>3, <2>2
    <3>2. Between(feed, 1, j + 1, feed[1])
      BY <1>1, <1>11, <2>1, <3>1 DEF FeedOK, Alternates
    <3>3. Between(feed', 0, j, feed[1])
      BY <1>1, <1>5, <2>1, <3>2
    <3> QED
      BY <3>1, <3>3
  <2>3. CASE ~(tp = ht /\ i = N + 1)
    <3>1. i \in DOMAIN log[tp] /\ log'[tp][i] = log[tp][i]
      BY <1>3, <2>3
    <3> DEFINE e == log[tp][i]
    <3>2. Between(log[tp], i, Len(log[tp]) + 1, e) \/ Between(feed, 0, j + 1, e)
      BY <1>11, <2>1, <3>1 DEF FeedOK
    <3>3. CASE Between(log[tp], i, Len(log[tp]) + 1, e)
      <4>1. PICK k \in DOMAIN log[tp] : i < k /\ SameCharger(e, log[tp][k]) /\ log[tp][k].type # e.type
        BY <3>3 DEF Between
      <4>2. k \in DOMAIN log'[tp] /\ log'[tp][k] = log[tp][k] /\ k < Len(log'[tp]) + 1
        BY <1>3, <1>3a
      <4> QED
        BY <3>1, <4>1, <4>2 DEF Between
    <3>4. CASE Between(feed, 0, j + 1, e)
      <4>1. PICK k \in DOMAIN feed : k < j + 1 /\ SameCharger(e, feed[k]) /\ feed[k].type # e.type
        BY <3>4 DEF Between
      <4>2. CASE k = 1
        <5>1. SameCharger(e, h) /\ h.type # e.type
          BY <1>1, <4>1, <4>2
        <5>2. e \in Events /\ TpOf(e) = tp
          BY <1>1, <3>1 DEF Inv1, LogOK
        <5>3. tp = ht
          BY <1>1, <5>1, <5>2, SamePartition DEF ht
        <5>4. N + 1 \in DOMAIN log'[tp] /\ log'[tp][N + 1] = h /\ i < N + 1 /\ N + 1 < Len(log'[tp]) + 1
          BY <1>3, <3>1, <5>3
        <5> QED
          BY <3>1, <5>1, <5>4 DEF Between
      <4>3. CASE k # 1
        <5>1. /\ k - 1 \in DOMAIN feed' /\ feed'[k - 1] = feed[k] /\ 0 < k - 1 /\ k - 1 < j
          BY <1>1, <1>2, <2>1, <4>1, <4>3
        <5> QED
          BY <3>1, <4>1, <5>1 DEF Between
      <4> QED
        BY <4>2, <4>3
    <3> QED
      BY <3>2, <3>3, <3>4
  <2> QED
    BY <2>2, <2>3
<1> QED
  BY <1>4, <1>6, <1>8, <1>9, <1>10, <1>11 DEF FeedOK

-----------------------------------------------------------------------------
(* What a goroutine's step changes                                         *)

AtWork(r) == Dedup(r) \/ DedupFails(r) \/ DedupRetried(r) \/ WriteHistory(r) \/ HistoryFails(r)
             \/ ReadLatest(r) \/ ReadStart(r) \/ ReadFails(r) \/ InsertCdr(r) \/ CdrFails(r)
             \/ PipeStep(r) \/ PipeFails(r) \/ PipeRetried(r) \/ Commit(r) \/ CommitFails(r)

LEMMA AdvanceOrFault ==
    ASSUME NEW r \in Readers, Advance(r) \/ Fault(r)
    PROVE  Fetch(r) \/ (AtWork(r) /\ ~Fetch(r))
<1>1. AtWork(r) \/ Fetch(r)
  BY DEF AtWork, Advance, Fault
<1> QED
  BY <1>1

\* Only a start writes tx:active, at its third command, and only a stop that
\* read a start deletes it, at its second.
TxWrite(w) ==
    \/ w.ev.type = "StartTransaction" /\ w.n = 3
    \/ w.ev.type = "StopTransaction" /\ w.start # None /\ w.n = 2

LEMMA PipeWritesTx ==
    ASSUME Inv1, NEW r \in Readers, work[r].pc = "pipe", NEW c \in Chargers
    PROVE  LET w == work[r] IN
           /\ <<"tx", c, 0>> \in Slots
           /\ <<"tx", c, 0>> \in Command(w).slots <=> TxWrite(w) /\ w.ev.charger = c
           /\ TxWrite(w) => Command(w).val = IF w.ev.type = "StartTransaction" THEN w.ev ELSE None
           /\ w.ev.type = "StartTransaction" => Len(Pipe(w.ev, w.start)) = 6
           /\ w.ev.type = "StopTransaction" => Len(Pipe(w.ev, w.start)) = IF w.start = None THEN 3 ELSE 4
<1> DEFINE w == work[r]
           e == w.ev
<1>1. /\ e \in Events /\ w.start \in Events \union {None}
      /\ w.n \in 1..Len(Pipe(e, w.start)) /\ w.n \in Nat
  BY DEF Inv1, TypeOK, WorkOK, ReaderOK, WorkRecord
<1>2. <<"tx", c, 0>> \in Slots
  BY ConnectorAssumption DEF Slots, Fields
<1> USE DEF Command, TxWrite, Conn, Charger, Cmd, Touch, MarkUp, AddConn, List, FreeConn
<1>3. CASE e.type = "StartTransaction"
  <2>1. Pipe(e, w.start) = StartPipe(e) /\ Len(StartPipe(e)) = 6
    BY <1>3 DEF Pipe, StartPipe
  <2>2. w.n \in 1..6
    BY <1>1, <2>1
  <2>3. w.n = 1 \/ w.n = 2 \/ w.n = 3 \/ w.n = 4 \/ w.n = 5 \/ w.n = 6
    BY <2>2
  <2>4. StartPipe(e)[3].val = e
    BY DEF StartPipe
  <2>5. <<"tx", c, 0>> \in StartPipe(e)[w.n].slots <=> w.n = 3 /\ e.charger = c
    BY <2>3 DEF StartPipe
  <2> QED
    BY <1>2, <1>3, <2>1, <2>4, <2>5
<1>4. CASE e.type = "StopTransaction"
  <2>1. Pipe(e, w.start) = StopPipe(e, w.start)
    BY <1>4 DEF Pipe
  <2>2. CASE w.start = None
    <3>1. Len(StopPipe(e, w.start)) = 3
      BY <2>2 DEF StopPipe
    <3>2. w.n = 1 \/ w.n = 2 \/ w.n = 3
      BY <1>1, <2>1, <3>1
    <3>3. <<"tx", c, 0>> \notin StopPipe(e, w.start)[w.n].slots
      BY <2>2, <3>2 DEF StopPipe
    <3> QED
      BY <1>2, <1>4, <2>1, <2>2, <3>1, <3>3
  <2>3. CASE w.start # None
    <3>1. Len(StopPipe(e, w.start)) = 4
      BY <2>3 DEF StopPipe
    <3>2. w.n = 1 \/ w.n = 2 \/ w.n = 3 \/ w.n = 4
      BY <1>1, <2>1, <3>1
    <3>3. /\ <<"tx", c, 0>> \in StopPipe(e, w.start)[w.n].slots <=> w.n = 2 /\ e.charger = c
          /\ StopPipe(e, w.start)[2].val = None
      BY <2>3, <3>2 DEF StopPipe
    <3> QED
      BY <1>2, <1>4, <2>1, <2>3, <3>1, <3>3
  <2> QED
    BY <2>2, <2>3
<1>5. CASE e.type \notin TxTypes
  <2>1. CASE e.type = "BootNotification"
    <3>1. Pipe(e, w.start) = BootPipe(e) /\ Len(BootPipe(e)) = 1
      BY <2>1 DEF Pipe, BootPipe
    <3>2. w.n = 1
      BY <1>1, <3>1
    <3>3. <<"tx", c, 0>> \notin BootPipe(e)[w.n].slots
      BY <3>2 DEF BootPipe
    <3> QED
      BY <1>2, <2>1, <3>1, <3>3
  <2>2. CASE e.type = "StatusNotification"
    <3>1. Pipe(e, w.start) = StatusPipe(e) /\ Len(StatusPipe(e)) = 4
      BY <2>2 DEF Pipe, StatusPipe
    <3>2. w.n = 1 \/ w.n = 2 \/ w.n = 3 \/ w.n = 4
      BY <1>1, <3>1
    <3>3. <<"tx", c, 0>> \notin StatusPipe(e)[w.n].slots
      BY <3>2 DEF StatusPipe
    <3> QED
      BY <1>2, <2>2, <3>1, <3>3
  <2>3. CASE e.type = "MeterValues"
    <3>1. Pipe(e, w.start) = MeterPipe(e) /\ Len(MeterPipe(e)) = 4
      BY <2>3 DEF Pipe, MeterPipe
    <3>2. w.n = 1 \/ w.n = 2 \/ w.n = 3 \/ w.n = 4
      BY <1>1, <3>1
    <3>3. <<"tx", c, 0>> \notin MeterPipe(e)[w.n].slots
      BY <3>2 DEF MeterPipe
    <3> QED
      BY <1>2, <2>3, <3>1, <3>3
  <2>4. CASE e.type = "Heartbeat"
    <3>1. Pipe(e, w.start) = HeartbeatPipe(e) /\ Len(HeartbeatPipe(e)) = 1
      BY <2>4 DEF Pipe, HeartbeatPipe
    <3>2. w.n = 1
      BY <1>1, <3>1
    <3>3. <<"tx", c, 0>> \notin HeartbeatPipe(e)[w.n].slots
      BY <3>2 DEF HeartbeatPipe
    <3> QED
      BY <1>2, <2>4, <3>1, <3>3
  <2> QED
    BY <1>1, <1>5, <2>1, <2>2, <2>3, <2>4, EventsAssumption DEF Types, TxTypes
<1> QED
  BY <1>1, <1>3, <1>4, <1>5 DEF TxTypes

\* A goroutine takes and writes only what its own event names.
LEMMA ReaderWrites ==
    ASSUME Inv1, PlacesOK, NEW r \in Readers, AtWork(r)
    PROVE  LET e == work[r].ev IN
           /\ work[r].pc # "idle" /\ e \in Events /\ work[r] \in WorkRecord
           /\ TopicOf(e.type) = r[2]
           /\ dedup \subseteq dedup' /\ dedup' \subseteq dedup \union {e.msg}
           /\ sessions \subseteq sessions'
           /\ \A s \in sessions' : s \in sessions \/ (s.stop = e /\ e.type = "StopTransaction")
           /\ \A c \in Chargers : ~(IsTx(e) /\ e.charger = c) =>
                 redis'[<<"tx", c, 0>>] = redis[<<"tx", c, 0>>]
<1> USE DEF AtWork, At
<1>1. work[r].pc # "idle"
  BY DEF Dedup, WriteHistory, ReadLatest, ReadStart,
         InsertCdr, PipeStep, Commit, DedupFails, DedupRetried, HistoryFails, ReadFails,
         CdrFails, PipeFails, PipeRetried, CommitFails
<1>2. work[r].ev \in Events /\ work[r] \in WorkRecord /\ TopicOf(work[r].ev.type) = r[2]
  BY <1>1 DEF Inv1, TypeOK, WorkOK, ReaderOK
<1>3. dedup \subseteq dedup' /\ dedup' \subseteq dedup \union {work[r].ev.msg}
  BY DEF Dedup, WriteHistory, ReadLatest, ReadStart, Claim,
         InsertCdr, PipeStep, Commit, DedupFails, DedupRetried, HistoryFails, ReadFails,
         CdrFails, PipeFails, PipeRetried, CommitFails
<1>4. /\ sessions \subseteq sessions'
      /\ \A s \in sessions' : s \in sessions
            \/ (s.stop = work[r].ev /\ work[r].ev.type = "StopTransaction")
  <2>1. CASE InsertCdr(r) \/ CdrFails(r)
    <3>1. work[r].pc = "cdr" /\ work[r].ev.type = "StopTransaction"
      BY <2>1 DEF InsertCdr, CdrFails, PlacesOK
    <3>2. sessions' = sessions \/ AddSession(work[r].ev, work[r].start)
      BY <2>1 DEF InsertCdr, CdrFails
    <3> QED
      BY <3>1, <3>2 DEF AddSession
  <2>2. CASE ~(InsertCdr(r) \/ CdrFails(r))
    <3>1. sessions' = sessions
      BY <2>2 DEF Dedup, WriteHistory, ReadLatest, ReadStart,
         PipeStep, Commit, DedupFails, DedupRetried, HistoryFails, ReadFails,
         PipeFails, PipeRetried, CommitFails
    <3> QED
      BY <3>1
  <2> QED
    BY <2>1, <2>2
<1>5. ASSUME NEW c \in Chargers, ~(IsTx(work[r].ev) /\ work[r].ev.charger = c)
      PROVE  redis'[<<"tx", c, 0>>] = redis[<<"tx", c, 0>>]
  <2>1. CASE PipeStep(r)
    <3>1. work[r].pc = "pipe" /\ redis' = Apply(redis, Command(work[r]))
      BY <2>1 DEF PipeStep
    <3>2. <<"tx", c, 0>> \in Slots /\ <<"tx", c, 0>> \notin Command(work[r]).slots
      BY <1>5, <3>1, PipeWritesTx DEF TxWrite, IsTx, TxTypes
    <3> QED
      BY <3>1, <3>2 DEF Apply
  <2>2. CASE ~PipeStep(r)
    BY <2>2 DEF Dedup, WriteHistory, ReadLatest, ReadStart,
         InsertCdr, Commit, DedupFails, DedupRetried, HistoryFails, ReadFails,
         CdrFails, PipeFails, PipeRetried, CommitFails
  <2> QED
    BY <2>1, <2>2
<1> QED
  BY <1>1, <1>2, <1>3, <1>4, <1>5

\* A fetched event: the next of one partition of the reader's topic.
Fetched(r, tp) ==
    /\ tp \in TPs /\ tp[1] = r[2] /\ work[r].pc = "idle"
    /\ pos[tp] + 1 \in DOMAIN log[tp] /\ pos[tp] \in Nat
    /\ TpOf(log[tp][pos[tp] + 1]) = tp
    /\ \A q \in TPs : pos'[q] = IF q = tp THEN pos[tp] + 1 ELSE pos[q]
    /\ \A x \in Readers : x # r => work'[x] = work[x]
    /\ work'[r] = [Idle EXCEPT !.pc = "dedup", !.ev = log[tp][pos[tp] + 1], !.off = pos[tp] + 1]
    /\ work'[r].pc = "dedup" /\ work'[r].ev = log[tp][pos[tp] + 1] /\ work'[r].off = pos[tp] + 1
    /\ UNCHANGED <<feed, log, committed, owner, dedup, redis, history, sessions, used>>

LEMMA FetchFacts ==
    ASSUME Inv1, NEW r \in Readers, Fetch(r)
    PROVE  \E tp \in TPs : Fetched(r, tp)
<1>1. PICK p \in Partitions :
         /\ At(r, "idle") /\ pos[<<r[2], p>>] < Len(log[<<r[2], p>>])
         /\ pos' = [pos EXCEPT ![<<r[2], p>>] = @ + 1]
         /\ Become(r, [Idle EXCEPT !.pc = "dedup", !.ev = log[<<r[2], p>>][pos[<<r[2], p>>] + 1],
                                   !.off = pos[<<r[2], p>>] + 1])
  BY DEF Fetch
<1> DEFINE tp == <<r[2], p>>
<1>2. tp \in TPs /\ tp[1] = r[2] /\ log[tp] \in Seq(Events) /\ pos \in [TPs -> Nat] /\ pos[tp] \in Nat
  BY DEF Readers, TPs, Inv1, TypeOK
<1>3. pos[tp] + 1 \in DOMAIN log[tp]
  BY <1>1, <1>2
<1>4. TpOf(log[tp][pos[tp] + 1]) = tp
  BY <1>2, <1>3 DEF Inv1, LogOK
<1>5. /\ \A x \in Readers : x # r => work'[x] = work[x]
      /\ work'[r] = [Idle EXCEPT !.pc = "dedup", !.ev = log[tp][pos[tp] + 1], !.off = pos[tp] + 1]
  BY <1>1 DEF Become, Inv1, TypeOK
<1>6. work'[r].pc = "dedup" /\ work'[r].ev = log[tp][pos[tp] + 1] /\ work'[r].off = pos[tp] + 1
  BY <1>5 DEF Idle
<1>7. \A q \in TPs : pos'[q] = IF q = tp THEN pos[tp] + 1 ELSE pos[q]
  BY <1>1, <1>2
<1> HIDE DEF tp
<1>8. Fetched(r, tp)
  <2>1. work[r].pc = "idle" /\ UNCHANGED <<feed, log, committed, owner, dedup, redis, history, sessions, used>>
    BY <1>1 DEF Fetch, At
  <2> QED
    BY <1>2, <1>3, <1>4, <1>5, <1>6, <1>7, <2>1 DEF Fetched
<1> QED
  BY <1>2, <1>8

\* How the goroutine at hand reaches the reads
LEMMA ReaderReads ==
    ASSUME Inv1, PlacesOK, NEW r \in Readers, AtWork(r)
    PROVE  /\ work'[r].pc = "read" => work'[r].ev.type # "StartTransaction"
           /\ work'[r].pc = "cdr" => work'[r].ev.type = "StopTransaction"
<1>0. work \in [Readers -> WorkRecord] /\ work[r] \in WorkRecord /\ Idle.pc = "idle"
  BY DEF Inv1, TypeOK, Idle
<1>1. CASE Dedup(r) \/ DedupFails(r) \/ DedupRetried(r)
  <2>1. work'[r].pc \in {"idle", "history", "commit"}
    BY <1>0, <1>1 DEF Dedup, DedupFails, DedupRetried, GoTo, GiveUp, Become, WorkRecord
  <2> QED
    BY <2>1
<1>2. CASE WriteHistory(r) \/ HistoryFails(r)
  <2>1. work'[r] = BeginUpdate(work[r]) \/ work'[r] = Idle
    BY <1>0, <1>2 DEF WriteHistory, HistoryFails, Become, HistoryErrorReturned
  <2>2. BeginUpdate(work[r]).pc = "read" =>
           /\ BeginUpdate(work[r]).ev = work[r].ev /\ work[r].ev.type # "StartTransaction"
    BY <1>0 DEF BeginUpdate, ReadsFirst, WorkRecord
  <2>3. BeginUpdate(work[r]).pc # "cdr"
    BY <1>0 DEF BeginUpdate, WorkRecord
  <2> QED
    BY <1>0, <2>1, <2>2, <2>3
<1>3. CASE ReadStart(r)
  <2>1. work'[r].ev = work[r].ev /\ work'[r].pc \in {"pipe", "cdr"} /\ work[r].ev.type = "StopTransaction"
    BY <1>0, <1>3 DEF ReadStart, Become, WorkRecord
  <2> QED
    BY <2>1
<1>4. CASE ReadLatest(r) \/ ReadFails(r) \/ InsertCdr(r) \/ CdrFails(r)
  <2>1. work'[r].pc \in {"pipe", "commit"}
    BY <1>0, <1>4 DEF ReadLatest, ReadFails, InsertCdr, CdrFails, GoTo, Become, WorkRecord
  <2> QED
    BY <2>1
<1>5. CASE PipeStep(r) \/ PipeFails(r) \/ PipeRetried(r)
  <2>1. work'[r].pc \in {"pipe", "commit", "idle"}
    BY <1>0, <1>5 DEF PipeStep, PipeFails, PipeRetried, GoTo, GiveUp, Become, At, WorkRecord
  <2> QED
    BY <2>1
<1>6. CASE Commit(r) \/ CommitFails(r)
  <2>1. work'[r].pc = "idle"
    BY <1>0, <1>6 DEF Commit, CommitFails, Become
  <2> QED
    BY <2>1
<1> QED
  BY <1>1, <1>2, <1>3, <1>4, <1>5, <1>6 DEF AtWork

LEMMA AtWorkMoves == ASSUME Inv1, NEW r \in Readers, AtWork(r) PROVE Moves(r)
<1>1. work[r].pc # "idle"
  BY DEF AtWork, At, Dedup, WriteHistory, ReadLatest, ReadStart,
         InsertCdr, PipeStep, Commit, DedupFails, DedupRetried, HistoryFails, ReadFails,
         CdrFails, PipeFails, PipeRetried, CommitFails
<1>2. ~Fetch(r)
  BY <1>1 DEF Fetch, At
<1>3. Advance(r) \/ Fault(r)
  BY DEF AtWork, Advance, Fault
<1> QED
  BY <1>2, <1>3, ReaderMoves

LEMMA AtWorkPlaces ==
    ASSUME Inv1, PlacesOK, NEW r \in Readers, AtWork(r)
    PROVE  PlacesOK'
<1>1. Moves(r) /\ log' = log
  BY AtWorkMoves DEF Moves
<1>2. ASSUME NEW x \in Readers, work'[x].pc # "idle"
      PROVE  /\ work'[x].off \in DOMAIN log'[TpOf(work'[x].ev)]
             /\ log'[TpOf(work'[x].ev)][work'[x].off] = work'[x].ev
  <2>1. work[x].pc # "idle" /\ work'[x].ev = work[x].ev /\ work'[x].off = work[x].off
    BY <1>1, <1>2 DEF Moves, SameOrIdle
  <2> QED
    BY <1>1, <2>1 DEF PlacesOK
<1>3. \A m \in dedup' : \E tp \in TPs : \E k \in DOMAIN log'[tp] : log'[tp][k].msg = m
  <2>1. dedup' \subseteq dedup \union {work[r].ev.msg} /\ work[r].pc # "idle" /\ work[r].ev \in Events
    BY ReaderWrites
  <2>2. /\ TpOf(work[r].ev) \in TPs /\ work[r].off \in DOMAIN log[TpOf(work[r].ev)]
        /\ log[TpOf(work[r].ev)][work[r].off] = work[r].ev
    BY <2>1, TopicType DEF PlacesOK
  <2> QED
    BY <1>1, <2>1, <2>2 DEF PlacesOK
<1>4. \A x \in Readers : /\ work'[x].pc = "read" => work'[x].ev.type # "StartTransaction"
                         /\ work'[x].pc = "cdr" => work'[x].ev.type = "StopTransaction"
  BY <1>1, ReaderReads DEF PlacesOK, Moves
<1>5. \A s \in sessions' : \E tp \in TPs : \E k \in DOMAIN log'[tp] : log'[tp][k] = s.stop
  <2>1. /\ \A s \in sessions' : s \in sessions \/ s.stop = work[r].ev
        /\ work[r].pc # "idle" /\ work[r].ev \in Events
    BY ReaderWrites
  <2>2. /\ TpOf(work[r].ev) \in TPs /\ work[r].off \in DOMAIN log[TpOf(work[r].ev)]
        /\ log[TpOf(work[r].ev)][work[r].off] = work[r].ev
    BY <2>1, TopicType DEF PlacesOK
  <2> QED
    BY <1>1, <2>1, <2>2 DEF PlacesOK
<1> QED
  BY <1>2, <1>3, <1>4, <1>5 DEF PlacesOK

LEMMA FetchPlaces ==
    ASSUME Inv1, PlacesOK, NEW r \in Readers, Fetch(r)
    PROVE  PlacesOK'
<1>1. PICK tp \in TPs : Fetched(r, tp)
  BY FetchFacts
<1>2. \A x \in Readers : work'[x].pc # "idle" =>
         /\ work'[x].off \in DOMAIN log'[TpOf(work'[x].ev)]
         /\ log'[TpOf(work'[x].ev)][work'[x].off] = work'[x].ev
  <2> SUFFICES ASSUME NEW x \in Readers, work'[x].pc # "idle"
               PROVE  /\ work'[x].off \in DOMAIN log[TpOf(work'[x].ev)]
                      /\ log[TpOf(work'[x].ev)][work'[x].off] = work'[x].ev
    BY <1>1 DEF Fetched
  <2>1. CASE x = r
    BY <1>1, <2>1 DEF Fetched
  <2>2. CASE x # r
    <3>1. work'[x] = work[x]
      BY <1>1, <2>2 DEF Fetched
    <3> QED
      BY <3>1 DEF PlacesOK
  <2> QED
    BY <2>1, <2>2
<1>3. \A x \in Readers : /\ work'[x].pc = "read" => work'[x].ev.type # "StartTransaction"
                         /\ work'[x].pc = "cdr" => work'[x].ev.type = "StopTransaction"
  <2>1. \A x \in Readers : work'[x] = work[x] \/ work'[x].pc = "dedup"
    BY <1>1 DEF Fetched
  <2> QED
    BY <2>1 DEF PlacesOK
<1>4. /\ \A m \in dedup' : \E q \in TPs : \E k \in DOMAIN log'[q] : log'[q][k].msg = m
      /\ \A s \in sessions' : \E q \in TPs : \E k \in DOMAIN log'[q] : log'[q][k] = s.stop
  BY <1>1 DEF Fetched, PlacesOK
<1> QED
  BY <1>2, <1>3, <1>4 DEF PlacesOK

LEMMA ArrivePlaces ==
    ASSUME Inv1, PlacesOK, NEW e \in Events, Arrives(e)
    PROVE  PlacesOK'
<1>1. \A tp \in TPs : \A k \in DOMAIN log[tp] : k \in DOMAIN log'[tp] /\ log'[tp][k] = log[tp][k]
  <2>1. log \in [TPs -> Seq(Events)] /\ TpOf(e) \in TPs
    BY TopicType DEF Inv1, TypeOK
  <2>2. \A tp \in TPs : log'[tp] = IF tp = TpOf(e) THEN Append(log[tp], e) ELSE log[tp]
    BY <2>1 DEF Arrives
  <2>3. \A q \in Seq(Events) : \A k \in DOMAIN q : k \in DOMAIN Append(q, e) /\ Append(q, e)[k] = q[k]
    OBVIOUS
  <2>4. \A tp \in TPs : log[tp] \in Seq(Events)
    BY <2>1
  <2> QED
    BY <2>2, <2>3, <2>4
<1>2. \A x \in Readers : work[x].pc # "idle" => TpOf(work[x].ev) \in TPs
  BY TopicType DEF Inv1, WorkOK, ReaderOK
<1>3. work' = work /\ dedup' = dedup /\ sessions' = sessions
  BY DEF Arrives
<1>4. \A m \in dedup' : \E q \in TPs : \E k \in DOMAIN log'[q] : log'[q][k].msg = m
  <2> SUFFICES ASSUME NEW m \in dedup
               PROVE  \E q \in TPs : \E k \in DOMAIN log'[q] : log'[q][k].msg = m
    BY <1>3
  <2>1. PICK q \in TPs : \E k \in DOMAIN log[q] : log[q][k].msg = m
    BY DEF PlacesOK
  <2> QED
    BY <1>1, <2>1
<1>5. \A x \in Readers : work'[x].pc # "idle" =>
         /\ work'[x].off \in DOMAIN log'[TpOf(work'[x].ev)]
         /\ log'[TpOf(work'[x].ev)][work'[x].off] = work'[x].ev
  BY <1>1, <1>2, <1>3 DEF PlacesOK
<1>6. \A s \in sessions' : \E q \in TPs : \E k \in DOMAIN log'[q] : log'[q][k] = s.stop
  <2> SUFFICES ASSUME NEW s \in sessions
               PROVE  \E q \in TPs : \E k \in DOMAIN log'[q] : log'[q][k] = s.stop
    BY <1>3
  <2>1. PICK q \in TPs : \E k \in DOMAIN log[q] : log[q][k] = s.stop
    BY DEF PlacesOK
  <2> QED
    BY <1>1, <2>1
<1> QED
  BY <1>3, <1>4, <1>5, <1>6 DEF PlacesOK

LEMMA CrashPlaces ==
    ASSUME Inv1, PlacesOK, NEW i \in Instances, Crash(i)
    PROVE  PlacesOK'
<1>1. \A x \in Readers : work'[x] = work[x] \/ work'[x].pc = "idle"
  BY DEF Crash, Idle
<1>2. log' = log /\ dedup' = dedup /\ sessions' = sessions
  BY DEF Crash
<1> QED
  BY <1>1, <1>2 DEF PlacesOK

LEMMA Inv8Step == Inv8 /\ [Next]_vars => Inv8'
<1> SUFFICES ASSUME Inv8, [Next]_vars
             PROVE  Inv8'
  OBVIOUS
<1>0. Inv1 /\ OffsetsOK /\ FeedOK /\ PlacesOK
  BY DEF Inv8
<1>1. Inv1'
  BY <1>0, Inv1Step
<1>2. FeedOK'
  <2>1. CASE Produce
    BY <1>0, <2>1, ProduceKeepsFeed
  <2>2. CASE ~Produce
    <3>1. UNCHANGED <<feed, log>>
      BY <2>2 DEF Next, Advance, Fault, Environment, Fetch, Dedup, WriteHistory, ReadLatest,
         ReadStart, InsertCdr, PipeStep, Commit, DedupFails, DedupRetried, HistoryFails,
         ReadFails, CdrFails, PipeFails, PipeRetried, CommitFails, Crash, Rebalance,
         DedupExpires, TxExpires, kafka, vars
    <3> QED
      BY <1>0, <3>1 DEF FeedOK
  <2> QED
    BY <2>1, <2>2
<1>3. OffsetsOK' /\ PlacesOK'
  <2>1. ASSUME NEW r \in Readers, Advance(r) \/ Fault(r)
        PROVE  OffsetsOK' /\ PlacesOK'
    BY <1>0, <2>1, AdvanceOrFault, ReaderDooms, AtWorkPlaces, FetchPlaces
  <2>2. CASE Produce
    BY <1>0, <2>2, ProduceArrives, ArriveDooms, ArrivePlaces
  <2>3. ASSUME NEW i \in Instances, Crash(i)
        PROVE  OffsetsOK' /\ PlacesOK'
    BY <1>0, <2>3, CrashDooms, CrashPlaces
  <2>4. ASSUME NEW i \in Instances, NEW tp \in TPs, Rebalance(tp, i)
        PROVE  OffsetsOK' /\ PlacesOK'
    BY <1>0, <2>4 DEF Rebalance, OffsetsOK, PlacesOK
  <2>5. ASSUME NEW m \in Msgs, DedupExpires(m)
        PROVE  OffsetsOK' /\ PlacesOK'
    BY <1>0, <2>5 DEF DedupExpires, kafka, OffsetsOK, PlacesOK
  <2>6. ASSUME NEW c \in Chargers, TxExpires(c)
        PROVE  OffsetsOK' /\ PlacesOK'
    BY <1>0, <2>6 DEF TxExpires, kafka, OffsetsOK, PlacesOK
  <2>7. CASE UNCHANGED vars
    BY <1>0, <2>7 DEF vars, kafka, OffsetsOK, PlacesOK
  <2> QED
    BY <2>1, <2>2, <2>3, <2>4, <2>5, <2>6, <2>7 DEF Next, Environment
<1> QED
  BY <1>1, <1>2, <1>3 DEF Inv8

LEMMA Inv8Init == ASSUME OneTransactionAtATime PROVE Init => Inv8
<1> SUFFICES ASSUME Init PROVE Inv8
  OBVIOUS
<1>1. Inv1 /\ OffsetsOK
  BY InitInv7 DEF Inv7
<1>2. PlacesOK
  BY DEF Init, PlacesOK, Idle
<1> QED
  BY <1>1, <1>2, FirstFeedOK DEF Inv8

-----------------------------------------------------------------------------
(* The transactions of a charger, by their offsets in its partition        *)

Tp(c) == <<"transactions", PartitionOf[c]>>
L(c)  == log[Tp(c)]
Handler == <<CHOOSE i \in Instances : TRUE, "transactions">>
W     == work[Handler]
TxSlot(c) == redis[<<"tx", c, 0>>]

Tx(c, k)     == k \in DOMAIN L(c) /\ IsTx(L(c)[k]) /\ L(c)[k].charger = c
StartAt(c, k) == Tx(c, k) /\ L(c)[k].type = "StartTransaction"
StopAt(c, k)  == Tx(c, k) /\ L(c)[k].type = "StopTransaction"
Claimed(c, k) == L(c)[k].msg \in dedup

\* the stop at n ends the transaction that the start at k begins
Ends(c, k, n) ==
    /\ StartAt(c, k) /\ StopAt(c, n) /\ k < n
    /\ \A x \in DOMAIN L(c) : k < x /\ x < n => ~StartAt(c, x)

\* the goroutine is at work in the charger's partition, on its own event
Busy(c)  == W.pc # "idle" /\ TpOf(W.ev) = Tp(c)
On(c, k) == Busy(c) /\ W.off = k
\* ... and has not found the event's key taken
Active(c, k) ==
    /\ On(c, k) /\ W.pc # "commit"
    /\ W.pc = "dedup" => ~Claimed(c, k)

Past(c, k)  == k =< pos[Tp(c)] \/ k =< committed[Tp(c)] \/ (Busy(c) /\ k =< W.off)
Fresh(c, k) == ~Past(c, k) /\ ~Claimed(c, k)

-----------------------------------------------------------------------------
(* Transactions that still get their session unless something fails        *)

HasSession(c, n) == \E s \in sessions : s.stop = L(c)[n]
Joined(c, k) ==
    \E n \in DOMAIN L(c) : Ends(c, k, n) /\ [stop |-> L(c)[n], start |-> L(c)[k]] \in sessions

\* neither the group nor a goroutine has seen a later stop
Awaits(c, k) == \A n \in DOMAIN L(c) : StopAt(c, n) /\ k < n => Fresh(c, n) /\ ~HasSession(c, n)
\* an event before k is going to be handled once more
Returns(c, k) == \E x \in DOMAIN L(c) : Tx(c, x) /\ pos[Tp(c)] < x /\ x < k /\ ~Claimed(c, x)
\* the start is going to be written to tx:active
Writing(c, k) == Active(c, k) /\ (W.pc = "pipe" => W.n =< 3)
\* another event at hand overwrites tx:active, or reads and deletes it
Threat(c, k) ==
    \E x \in DOMAIN L(c) : /\ Tx(c, x) /\ x # k /\ Active(c, x)
                           /\ ~(StopAt(c, x) /\ W.pc = "pipe" /\ W.start = None)
Coming(c, k) == Fresh(c, k) /\ Awaits(c, k)
Begun(c, k)  == /\ Awaits(c, k) /\ ~Returns(c, k)
                /\ Writing(c, k) \/ (TxSlot(c) = L(c)[k] /\ ~Threat(c, k))
Ending(c, k) ==
    \E n \in DOMAIN L(c) :
        /\ Ends(c, k, n) /\ Active(c, n) /\ ~HasSession(c, n)
        /\ \/ W.pc \in {"dedup", "history", "read"} /\ TxSlot(c) = L(c)[k]
           \/ W.pc = "cdr" /\ W.start = L(c)[k]
Safe(c, k) == Joined(c, k) \/ Coming(c, k) \/ Begun(c, k) \/ Ending(c, k)

Broken(c) == {k \in DOMAIN L(c) : StartAt(c, k) /\ ~Safe(c, k)}
Costs   == used["any"] - used["commit"]
Inv9(c)   == /\ Inv8 /\ used["any"] \in Nat /\ Costs \in Nat
             /\ IsFiniteSet(Broken(c)) /\ Cardinality(Broken(c)) =< Costs

-----------------------------------------------------------------------------
(* At most one fault                                                       *)

\* the group has been at k
Seen(c, k) == k =< pos[Tp(c)] \/ Claimed(c, k) \/ On(c, k)

\* Without a fault the goroutine, if at work, is at the position ...
InStep(c) == /\ committed[Tp(c)] =< pos[Tp(c)]
             /\ Busy(c) => W.off = pos[Tp(c)]
\* ... the events up to it, and no others, have their key ...
KeysBehind(c) ==
    \A k \in DOMAIN L(c) : Tx(c, k) =>
       (Claimed(c, k) <=> k =< pos[Tp(c)] /\ ~(On(c, k) /\ W.pc = "dedup"))
\* ... a stop has read what is in tx:active until it deletes it ...
ReadsSlot(c) ==
    \A k \in DOMAIN L(c) :
       StopAt(c, k) /\ On(c, k) /\ W.pc \in {"cdr", "pipe"} /\ W.n =< 2 => W.start = TxSlot(c)
\* ... and that is the start before the position, unless what follows is at hand.
SlotLast(c) ==
    TxSlot(c) # None =>
       \E j \in DOMAIN L(c) :
          /\ StartAt(c, j) /\ TxSlot(c) = L(c)[j] /\ Claimed(c, j)
          /\ \A k \in DOMAIN L(c) : Tx(c, k) /\ j < k /\ k =< pos[Tp(c)] =>
                Active(c, k) /\ (W.pc = "pipe" => W.n =< IF StartAt(c, k) THEN 3 ELSE 2)
Faultless(c) == InStep(c) /\ KeysBehind(c) /\ ReadsSlot(c) /\ SlotLast(c)

\* With one fault at most: what the group is to go back to has its key up to where
\* it was ...
NoGap(c) ==
    \A j, k \in DOMAIN L(c) :
       Tx(c, j) /\ Tx(c, k) /\ pos[Tp(c)] < j /\ j < k /\ (Claimed(c, k) \/ On(c, k)) => Claimed(c, j)
\* ... nothing after the event at hand was handled before it ...
NoneAhead(c) ==
    \A j, k \in DOMAIN L(c) :
       Tx(c, j) /\ Tx(c, k) /\ Active(c, j) /\ j < k => pos[Tp(c)] < k /\ ~Claimed(c, k)
\* ... no start after the one in tx:active was handled ...
SlotNewest(c) ==
    TxSlot(c) # None =>
       \E j \in DOMAIN L(c) :
          /\ StartAt(c, j) /\ TxSlot(c) = L(c)[j]
          /\ j =< pos[Tp(c)] \/ Claimed(c, j)
          /\ \A k \in DOMAIN L(c) : StartAt(c, k) /\ j < k /\ Seen(c, k) => Writing(c, k)
\* ... a stop has read its own start ...
ReadsOwn(c) ==
    \A k \in DOMAIN L(c) : StopAt(c, k) /\ On(c, k) /\ W.pc = "cdr" =>
       \E j \in DOMAIN L(c) : Ends(c, j, k) /\ W.start = L(c)[j]
\* ... and what is at hand has its key or is behind the position.
Counted(c) ==
    \A k \in DOMAIN L(c) : Tx(c, k) /\ On(c, k) /\ W.pc # "dedup" =>
       k =< pos[Tp(c)] \/ Claimed(c, k)
OneFault(c) == NoGap(c) /\ NoneAhead(c) /\ SlotNewest(c) /\ ReadsOwn(c) /\ Counted(c)

SessionsPaired == \A s \in sessions : Pairs(s.start, s.stop)
Inv10 == /\ Inv8
         /\ used["any"] = 0 => \A c \in Chargers : Faultless(c)
         /\ used["any"] =< 1 => SessionsPaired /\ \A c \in Chargers : OneFault(c)
-----------------------------------------------------------------------------
(* One goroutine handles a charger's transactions                          *)

LEMMA HandlerFacts ==
    ASSUME OneInstance
    PROVE  /\ Handler \in Readers
           /\ \A r \in Readers : r[2] = "transactions" => r = Handler
BY DEF OneInstance, Handler, Readers, Topics

LEMMA TpFacts ==
    ASSUME Inv1, NEW c \in Chargers
    PROVE  /\ Tp(c) \in TPs /\ L(c) \in Seq(Events) /\ DOMAIN L(c) = 1..Len(L(c))
           /\ pos[Tp(c)] \in Nat /\ committed[Tp(c)] \in Nat
           /\ <<"tx", c, 0>> \in Slots
           /\ \A k \in DOMAIN L(c) : k \in Nat /\ L(c)[k] \in Events /\ L(c)[k] # None
           /\ \A e \in Events : IsTx(e) /\ e.charger = c => TpOf(e) = Tp(c)
<1>1. Tp(c) \in TPs
  BY PartitionAssumption DEF Tp, TPs, Topics
<1>2. L(c) \in Seq(Events) /\ DOMAIN L(c) = 1..Len(L(c)) /\ pos[Tp(c)] \in Nat /\ committed[Tp(c)] \in Nat
  BY <1>1 DEF Inv1, TypeOK, L
<1>3. <<"tx", c, 0>> \in Slots
  BY ConnectorAssumption DEF Slots, Fields
<1>4. \A e \in Events : IsTx(e) /\ e.charger = c => TpOf(e) = Tp(c)
  BY DEF IsTx, TxTypes, TpOf, TopicOf, Tp
<1> QED
  BY <1>1, <1>2, <1>3, <1>4, NoneAssumption

\* A start or stop is known by its message id, and by its offset.
LEMMA TxIds ==
    ASSUME Inv1, FeedOK, NEW c \in Chargers, NEW k, Tx(c, k)
    PROVE  \A tp \in TPs : \A j \in DOMAIN log[tp] :
              log[tp][j].msg = L(c)[k].msg => tp = Tp(c) /\ j = k
BY TpFacts DEF FeedOK, Tx, L

\* The handler's own event, by its offset
Own(c, q) == Tx(c, q) /\ On(c, q) /\ W.ev = L(c)[q]

LEMMA OnOwn ==
    ASSUME Inv8, NEW c \in Chargers, NEW q, On(c, q), OneInstance
    PROVE  /\ q \in DOMAIN L(c) /\ W.ev = L(c)[q]
           /\ Tx(c, q) <=> W.ev.charger = c
<1>1. W.pc # "idle" /\ TpOf(W.ev) = Tp(c) /\ W.off = q
  BY DEF On, Busy
<1>2. q \in DOMAIN L(c) /\ W.ev = L(c)[q]
  BY <1>1, HandlerFacts DEF Inv8, PlacesOK, W, L
<1>3. TopicOf(W.ev.type) = "transactions" /\ W.ev \in Events
  BY <1>1, HandlerFacts DEF Inv8, Inv1, WorkOK, ReaderOK, W, Handler
<1>4. IsTx(W.ev)
  BY <1>3, EventsAssumption DEF IsTx, TxTypes, TopicOf, Types
<1> QED
  BY <1>2, <1>4 DEF Tx

\* Starts and stops alternate in the partition.
LEMMA StopBetween ==
    ASSUME Inv8, NEW c \in Chargers, NEW j, NEW k, StartAt(c, j), StartAt(c, k), j < k
    PROVE  \E n \in DOMAIN L(c) : StopAt(c, n) /\ j < n /\ n < k
<1>1. Between(L(c), j, k, L(c)[j])
  BY TpFacts DEF Inv8, FeedOK, Alternates, StartAt, Tx, SameCharger, L
<1>2. PICK n \in DOMAIN L(c) : j < n /\ n < k /\ SameCharger(L(c)[j], L(c)[n]) /\ L(c)[n].type # L(c)[j].type
  BY <1>1 DEF Between
<1> QED
  BY <1>2 DEF SameCharger, IsTx, TxTypes, StartAt, StopAt, Tx

LEMMA StartBetween ==
    ASSUME Inv8, NEW c \in Chargers, NEW j, NEW k, StopAt(c, j), StopAt(c, k), j < k
    PROVE  \E n \in DOMAIN L(c) : StartAt(c, n) /\ j < n /\ n < k
<1>1. Between(L(c), j, k, L(c)[j])
  BY TpFacts DEF Inv8, FeedOK, Alternates, StopAt, Tx, SameCharger, L
<1>2. PICK n \in DOMAIN L(c) : j < n /\ n < k /\ SameCharger(L(c)[j], L(c)[n]) /\ L(c)[n].type # L(c)[j].type
  BY <1>1 DEF Between
<1> QED
  BY <1>2 DEF SameCharger, IsTx, TxTypes, StartAt, StopAt, Tx

\* A transaction ends once, and a stop ends one transaction.
LEMMA EndsOnce ==
    ASSUME Inv8, NEW c \in Chargers
    PROVE  /\ \A j, k, n : Ends(c, j, k) /\ Ends(c, j, n) => k = n
           /\ \A j, k, n : Ends(c, j, n) /\ Ends(c, k, n) => j = k
<1>0. \A k : Tx(c, k) => k \in Nat
  BY TpFacts DEF Inv8, Tx
<1>1. ASSUME NEW j, NEW k, NEW n, Ends(c, j, k), Ends(c, j, n), k < n
      PROVE  FALSE
  <2>1. PICK x \in DOMAIN L(c) : StartAt(c, x) /\ k < x /\ x < n
    BY <1>1, StartBetween DEF Ends
  <2>2. j \in Nat /\ k \in Nat /\ x \in Nat /\ j < k
    BY <1>0, <1>1, <2>1 DEF Ends, StartAt, StopAt
  <2>3. j < x
    BY <2>1, <2>2
  <2> QED
    BY <1>1, <2>1, <2>3 DEF Ends
<1>2. \A j, k, n : Ends(c, j, k) /\ Ends(c, j, n) => k = n
  <2> SUFFICES ASSUME NEW j, NEW k, NEW n, Ends(c, j, k), Ends(c, j, n)
               PROVE  k = n
    OBVIOUS
  <2>1. k \in Nat /\ n \in Nat
    BY <1>0 DEF Ends, StopAt
  <2>2. ~(k < n) /\ ~(n < k)
    BY <1>1
  <2> QED
    BY <2>1, <2>2
<1>3. \A j, k, n : Ends(c, j, n) /\ Ends(c, k, n) => j = k
  <2> SUFFICES ASSUME NEW j, NEW k, NEW n, Ends(c, j, n), Ends(c, k, n)
               PROVE  j = k
    OBVIOUS
  <2>1. j \in Nat /\ k \in Nat /\ j \in DOMAIN L(c) /\ k \in DOMAIN L(c) /\ j < n /\ k < n
        /\ StartAt(c, j) /\ StartAt(c, k)
    BY <1>0 DEF Ends, StartAt, Tx
  <2>2. ~(j < k) /\ ~(k < j)
    BY <2>1 DEF Ends
  <2> QED
    BY <2>1, <2>2
<1> QED
  BY <1>2, <1>3

-----------------------------------------------------------------------------
(* Steps that keep what is joined or still to come                         *)

SameTx(c) == \A k : /\ Tx(c, k)' <=> Tx(c, k)
                    /\ Tx(c, k) => L(c)'[k] = L(c)[k]

\* A step that sees no transaction of c but the one at hand, if any.
Quiet(c) ==
    /\ SameTx(c)
    /\ sessions \subseteq sessions'
    /\ \A k : Tx(c, k) => /\ Past(c, k)' => Past(c, k)
                          /\ Claimed(c, k)' => Claimed(c, k) \/ On(c, k)
                          /\ HasSession(c, k)' => HasSession(c, k) \/ On(c, k)

\* Such a step that does nothing to the one at hand either.
Aside(c) ==
    /\ Quiet(c)
    /\ TxSlot(c)' = TxSlot(c)
    /\ \A k : Tx(c, k) => /\ Claimed(c, k)' <=> Claimed(c, k)
                          /\ HasSession(c, k)' => HasSession(c, k)
                          /\ pos'[Tp(c)] < k <=> pos[Tp(c)] < k
                          /\ Active(c, k)' <=> Active(c, k)
                          /\ Active(c, k) => W' = W
                          /\ On(c, k)' => On(c, k) /\ (W' = W \/ W'.pc = "commit")

LEMMA SameTxFacts ==
    ASSUME NEW c \in Chargers, SameTx(c)
    PROVE  /\ \A k : StartAt(c, k)' <=> StartAt(c, k)
           /\ \A k : StopAt(c, k)' <=> StopAt(c, k)
           /\ \A j, k : Ends(c, j, k)' <=> Ends(c, j, k)
<1>1. /\ \A k : StartAt(c, k)' <=> StartAt(c, k)
      /\ \A k : StopAt(c, k)' <=> StopAt(c, k)
  BY DEF SameTx, StartAt, StopAt
<1>2. ASSUME NEW j, NEW k
      PROVE  Ends(c, j, k)' <=> Ends(c, j, k)
  <2> DEFINE Clear == \A x \in DOMAIN L(c) : j < x /\ x < k => ~StartAt(c, x)
  <2>1. Clear <=> \A x : StartAt(c, x) => ~(j < x /\ x < k)
    BY DEF StartAt, Tx
  <2>2. Clear' <=> \A x : StartAt(c, x)' => ~(j < x /\ x < k)
    BY DEF StartAt, Tx
  <2>3. Clear' <=> Clear
    BY <1>1, <2>1, <2>2
  <2>4. Ends(c, j, k) <=> StartAt(c, j) /\ StopAt(c, k) /\ j < k /\ Clear
    BY DEF Ends
  <2>5. Ends(c, j, k)' <=> StartAt(c, j)' /\ StopAt(c, k)' /\ j < k /\ Clear'
    BY DEF Ends
  <2> HIDE DEF Clear
  <2> QED
    BY <1>1, <2>3, <2>4, <2>5
<1> QED
  BY <1>1, <1>2

LEMMA OnIsPast ==
    ASSUME Inv8, NEW c \in Chargers, NEW k, Tx(c, k), On(c, k)
    PROVE  Past(c, k)
<1>1. k \in Nat
  BY TpFacts DEF Inv8, Tx
<1>2. Busy(c) /\ k =< W.off
  BY <1>1 DEF On
<1> QED
  BY <1>2 DEF Past

LEMMA QuietAwaits ==
    ASSUME Inv8, NEW c \in Chargers, NEW k, Quiet(c), Awaits(c, k)
    PROVE  Awaits(c, k)'
<1>1. \A n : StopAt(c, n)' <=> StopAt(c, n)
  BY SameTxFacts DEF Quiet
<1>2. \A n : StopAt(c, n) => n \in DOMAIN L(c) /\ Tx(c, n)
  BY DEF StopAt, Tx
<1>3. \A n : StopAt(c, n) /\ On(c, n) => Past(c, n)
  BY OnIsPast DEF StopAt
<1> SUFFICES ASSUME NEW n, StopAt(c, n), k < n
             PROVE  Fresh(c, n)' /\ ~HasSession(c, n)'
  BY <1>1 DEF Awaits
<1>4. Fresh(c, n) /\ ~HasSession(c, n)
  BY <1>2 DEF Awaits
<1> QED
  BY <1>2, <1>3, <1>4 DEF Fresh, Quiet

LEMMA QuietKeeps ==
    ASSUME Inv8, NEW c \in Chargers, NEW k, Quiet(c), StartAt(c, k)
    PROVE  (Joined(c, k) => Joined(c, k)') /\ (Coming(c, k) => Coming(c, k)')
<1>1. ASSUME Joined(c, k) PROVE Joined(c, k)'
  <2>1. PICK n \in DOMAIN L(c) : Ends(c, k, n) /\ [stop |-> L(c)[n], start |-> L(c)[k]] \in sessions
    BY <1>1 DEF Joined
  <2>2. Tx(c, n) /\ Tx(c, k)
    BY <2>1 DEF Ends, StartAt, StopAt
  <2>3. n \in DOMAIN L(c)' /\ L(c)'[n] = L(c)[n] /\ L(c)'[k] = L(c)[k]
    BY <2>2 DEF Quiet, SameTx, Tx
  <2>4. Ends(c, k, n)'
    BY <2>1, SameTxFacts DEF Quiet
  <2>5. [stop |-> L(c)'[n], start |-> L(c)'[k]] \in sessions'
    BY <2>1, <2>3 DEF Quiet
  <2> QED
    BY <2>3, <2>4, <2>5 DEF Joined
<1>2. ASSUME Coming(c, k) PROVE Coming(c, k)'
  <2>1. k \in DOMAIN L(c) /\ Tx(c, k)
    BY DEF StartAt, Tx
  <2>2. On(c, k) => Past(c, k)
    BY <2>1, OnIsPast
  <2>3. Fresh(c, k)'
    BY <1>2, <2>1, <2>2 DEF Coming, Fresh, Quiet
  <2> QED
    BY <1>2, <2>3, QuietAwaits DEF Coming
<1> QED
  BY <1>1, <1>2

\* One transaction at a time is neither joined nor to come, and not broken.
LEMMA OneAtRisk ==
    ASSUME Inv8, NEW c \in Chargers, NEW j, NEW k, StartAt(c, j), StartAt(c, k),
           Begun(c, j) \/ Ending(c, j), Begun(c, k) \/ Ending(c, k)
    PROVE  j = k
<1>0. \A x : Tx(c, x) => x \in DOMAIN L(c) /\ x \in Nat
  BY TpFacts DEF Inv8, Tx
<1>1. ASSUME NEW x, NEW y, StartAt(c, x), StartAt(c, y), x < y,
             Begun(c, x) \/ Ending(c, x), Begun(c, y) \/ Ending(c, y)
      PROVE  FALSE
  <2>1. PICK n \in DOMAIN L(c) : StopAt(c, n) /\ x < n /\ n < y
    BY <1>1, StopBetween
  <2>2. CASE Begun(c, x)
    <3>1. ~Past(c, n) /\ ~Claimed(c, n)
      BY <2>1, <2>2 DEF Begun, Awaits, Fresh
    <3>2. n \in Nat /\ pos[Tp(c)] \in Nat /\ x \in Nat /\ y \in Nat
      BY <1>0, <1>1, <2>1, TpFacts DEF Inv8, StopAt, StartAt
    <3>3. CASE Begun(c, y)
      <4>1. pos[Tp(c)] < n
        BY <3>1, <3>2 DEF Past
      <4>2. Returns(c, y)
        BY <2>1, <3>1, <4>1 DEF Returns, StopAt
      <4> QED
        BY <3>3, <4>2 DEF Begun
    <3>4. CASE Ending(c, y)
      <4>1. PICK m \in DOMAIN L(c) : y < m /\ Active(c, m)
        BY <3>4 DEF Ending, Ends
      <4>2. Busy(c) /\ W.off = m /\ m \in Nat
        BY <4>1, TpFacts DEF Inv8, Active, On
      <4>3. n =< W.off
        BY <2>1, <3>2, <4>1, <4>2
      <4> QED
        BY <3>1, <4>2, <4>3 DEF Past
    <3> QED
      BY <1>1, <3>3, <3>4
  <2>3. CASE Ending(c, x)
    <3>1. PICK m \in DOMAIN L(c) : Ends(c, x, m) /\ Active(c, m) /\ W.pc \in {"dedup", "history", "read", "cdr"}
      BY <2>3 DEF Ending
    <3>2. CASE Ending(c, y)
      <4>1. PICK l \in DOMAIN L(c) : Ends(c, y, l) /\ Active(c, l)
        BY <3>2 DEF Ending
      <4>2. l = m
        BY <3>1, <4>1 DEF Active, On
      <4>3. x = y
        BY <3>1, <4>1, <4>2, EndsOnce
      <4> QED
        BY <1>0, <1>1, <4>3 DEF StartAt
    <3>3. CASE Begun(c, y)
      <4>1. StopAt(c, m) /\ m # y
        BY <1>1, <3>1 DEF Ends, StopAt, StartAt
      <4>2. ~Writing(c, y)
        BY <3>1, <4>1 DEF Writing, Active, On
      <4>3. Threat(c, y)
        BY <3>1, <4>1 DEF Threat, StopAt
      <4> QED
        BY <3>3, <4>2, <4>3 DEF Begun
    <3> QED
      BY <1>1, <3>2, <3>3
  <2> QED
    BY <1>1, <2>2, <2>3
<1>2. ~(j < k) /\ ~(k < j)
  BY <1>1
<1>3. j \in Nat /\ k \in Nat
  BY <1>0 DEF StartAt
<1> QED
  BY <1>2, <1>3

\* So whatever a quiet step does, it breaks one transaction at most.
LEMMA QuietBreaksOne ==
    ASSUME Inv8, NEW c \in Chargers, Quiet(c)
    PROVE  \E x : Broken(c)' \subseteq Broken(c) \union {x}
<1> DEFINE x == CHOOSE k : StartAt(c, k) /\ (Begun(c, k) \/ Ending(c, k))
<1>1. ASSUME NEW k, k \in Broken(c)', k \notin Broken(c)
      PROVE  k = x
  <2>1. StartAt(c, k)' /\ ~Safe(c, k)'
    BY <1>1 DEF Broken
  <2>2. StartAt(c, k) /\ k \in DOMAIN L(c)
    BY <2>1, SameTxFacts DEF Quiet, StartAt, Tx
  <2>3. Safe(c, k)
    BY <1>1, <2>2 DEF Broken
  <2>4. Begun(c, k) \/ Ending(c, k)
    BY <2>1, <2>2, <2>3, QuietKeeps DEF Safe
  <2>5. StartAt(c, x) /\ (Begun(c, x) \/ Ending(c, x))
    BY <2>2, <2>4
  <2> QED
    BY <2>2, <2>4, <2>5, OneAtRisk
<1> QED
  BY <1>1

\* A step aside breaks none.
LEMMA AsideBreaksNone ==
    ASSUME Inv8, NEW c \in Chargers, Aside(c)
    PROVE  Broken(c)' \subseteq Broken(c)
<1> SUFFICES ASSUME NEW k, k \in Broken(c)', k \notin Broken(c)
             PROVE  FALSE
  OBVIOUS
<1>1. StartAt(c, k)' /\ ~Safe(c, k)'
  BY DEF Broken
<1>2. StartAt(c, k) /\ k \in DOMAIN L(c) /\ Quiet(c) /\ SameTx(c)
  BY <1>1, SameTxFacts DEF Aside, Quiet, StartAt, Tx
<1>3. Begun(c, k) \/ Ending(c, k)
  BY <1>1, <1>2, QuietKeeps DEF Broken, Safe
<1>4. L(c)'[k] = L(c)[k] /\ \A y : Tx(c, y)' <=> Tx(c, y)
  BY <1>2 DEF SameTx, StartAt
<1>5. CASE Begun(c, k)
  <2>1. Awaits(c, k)'
    BY <1>2, <1>5, QuietAwaits DEF Begun
  <2>2. ~Returns(c, k)'
    BY <1>2, <1>4, <1>5 DEF Begun, Returns, Aside, Tx
  <2>3. CASE Writing(c, k)
    <3>1. Active(c, k)' /\ W' = W
      BY <1>2, <2>3 DEF Writing, Aside, StartAt
    <3>2. Writing(c, k)'
      BY <2>3, <3>1 DEF Writing
    <3> QED
      BY <1>1, <2>1, <2>2, <3>2 DEF Begun, Safe
  <2>4. CASE TxSlot(c) = L(c)[k] /\ ~Threat(c, k)
    <3>1. TxSlot(c)' = L(c)'[k]
      BY <1>4, <2>4 DEF Aside
    <3>2. ASSUME Threat(c, k)' PROVE FALSE
      <4>1. PICK y : /\ Tx(c, y)' /\ y # k /\ Active(c, y)'
                     /\ ~(StopAt(c, y)' /\ W'.pc = "pipe" /\ W'.start = None)
        BY <3>2 DEF Threat
      <4>2. Tx(c, y) /\ y \in DOMAIN L(c) /\ Active(c, y) /\ W' = W /\ (StopAt(c, y)' <=> StopAt(c, y))
        BY <1>2, <1>4, <4>1, SameTxFacts DEF Aside, Tx
      <4> QED
        BY <2>4, <4>1, <4>2 DEF Threat
    <3> QED
      BY <1>1, <2>1, <2>2, <3>1, <3>2 DEF Begun, Safe
  <2> QED
    BY <1>5, <2>3, <2>4 DEF Begun
<1>6. CASE Ending(c, k)
  <2>1. PICK n \in DOMAIN L(c) :
           /\ Ends(c, k, n) /\ Active(c, n) /\ ~HasSession(c, n)
           /\ \/ W.pc \in {"dedup", "history", "read"} /\ TxSlot(c) = L(c)[k]
              \/ W.pc = "cdr" /\ W.start = L(c)[k]
    BY <1>6 DEF Ending
  <2>2. Tx(c, n)
    BY <2>1 DEF Ends, StopAt
  <2>3. n \in DOMAIN L(c)' /\ Ends(c, k, n)' /\ Active(c, n)' /\ ~HasSession(c, n)' /\ W' = W
    BY <1>2, <1>4, <2>1, <2>2, SameTxFacts DEF Aside, Tx
  <2>4. TxSlot(c)' = TxSlot(c)
    BY DEF Aside
  <2>5. Ending(c, k)'
    BY <1>4, <2>1, <2>3, <2>4 DEF Ending
  <2> QED
    BY <1>1, <2>5 DEF Safe
<1> QED
  BY <1>3, <1>5, <1>6

-----------------------------------------------------------------------------
(* Which steps are quiet, and which are aside                              *)

\* Only the handler can hold the message of a start or a stop.
LEMMA OneEvent ==
    ASSUME Inv8, OneInstance, NEW c \in Chargers, NEW k, Tx(c, k),
           NEW r \in Readers, work[r].pc # "idle", work[r].ev.msg = L(c)[k].msg
    PROVE  r = Handler /\ On(c, k) /\ W.ev = L(c)[k]
<1>1. /\ work[r].ev \in Events /\ TopicOf(work[r].ev.type) = r[2]
      /\ work[r].off \in DOMAIN log[TpOf(work[r].ev)]
      /\ log[TpOf(work[r].ev)][work[r].off] = work[r].ev
  BY DEF Inv8, Inv1, WorkOK, ReaderOK, PlacesOK
<1>2. TpOf(work[r].ev) = Tp(c) /\ work[r].off = k
  BY <1>1, TxIds, TopicType DEF Inv8
<1>3. r[2] = "transactions"
  BY <1>1, <1>2 DEF TpOf, Tp
<1>4. r = Handler
  BY <1>3, HandlerFacts
<1> QED
  BY <1>1, <1>2, <1>4 DEF On, Busy, W, L

\* The handler's place, from the partition's side
LEMMA BusyMoves ==
    ASSUME Inv8, OneInstance, NEW r \in Readers, AtWork(r), NEW c \in Chargers
    PROVE  /\ L(c)' = L(c) /\ pos' = pos
           /\ Busy(c)' => Busy(c) /\ W'.off = W.off /\ W'.ev = W.ev
           /\ \A k : On(c, k)' => On(c, k)
           /\ r # Handler => W' = W
           /\ committed'[Tp(c)] # committed[Tp(c)] =>
                 Busy(c) /\ r = Handler /\ committed'[Tp(c)] = W.off
<1>1. Moves(r)
  BY AtWorkMoves DEF Inv8
<1>2. Handler \in Readers /\ (r[2] = "transactions" => r = Handler)
  BY HandlerFacts
<1>3. SameOrIdle(W, W') /\ (r # Handler => W' = W)
  BY <1>1, <1>2 DEF Moves, W, SameOrIdle
<1>4. Busy(c)' => Busy(c) /\ W'.off = W.off /\ W'.ev = W.ev
  BY <1>3 DEF Busy, SameOrIdle
<1>5. \A k : On(c, k)' => On(c, k)
  BY <1>4 DEF On
<1>6. ASSUME committed'[Tp(c)] # committed[Tp(c)]
      PROVE  Busy(c) /\ r = Handler /\ committed'[Tp(c)] = W.off
  <2>1. work[r].pc # "idle" /\ Tp(c) = TpOf(work[r].ev) /\ committed'[Tp(c)] = work[r].off
    BY <1>1, <1>6, TpFacts DEF Moves, Inv8
  <2>2. TopicOf(work[r].ev.type) = r[2]
    BY <2>1 DEF Inv8, Inv1, WorkOK, ReaderOK
  <2>3. r = Handler
    BY <1>2, <2>1, <2>2 DEF TpOf, Tp
  <2> QED
    BY <2>1, <2>3 DEF Busy, W
<1> QED
  BY <1>1, <1>3, <1>4, <1>5, <1>6 DEF Moves, L

\* Every step of a goroutine at work is quiet, failed calls included ...
LEMMA AtWorkQuiet ==
    ASSUME Inv8, OneInstance, NEW r \in Readers, AtWork(r), NEW c \in Chargers
    PROVE  Quiet(c)
<1>1. SameTx(c)
  BY BusyMoves DEF SameTx, Tx
<1>2. LET e == work[r].ev IN
      /\ work[r].pc # "idle"
      /\ dedup' \subseteq dedup \union {e.msg} /\ sessions \subseteq sessions'
      /\ \A s \in sessions' : s \in sessions \/ s.stop = e
  BY ReaderWrites DEF Inv8
<1>3. \A k : Past(c, k)' => Past(c, k)
  BY BusyMoves DEF Past
<1> SUFFICES ASSUME NEW k, Tx(c, k)
             PROVE  /\ Claimed(c, k)' => Claimed(c, k) \/ On(c, k)
                    /\ HasSession(c, k)' => HasSession(c, k) \/ On(c, k)
  BY <1>1, <1>2, <1>3 DEF Quiet
<1>4. L(c)'[k] = L(c)[k]
  BY <1>1 DEF SameTx
<1>5. work[r].ev.msg = L(c)[k].msg => On(c, k)
  BY <1>2, OneEvent
<1>6. Claimed(c, k)' => Claimed(c, k) \/ On(c, k)
  BY <1>2, <1>4, <1>5 DEF Claimed
<1>7. HasSession(c, k)' => HasSession(c, k) \/ On(c, k)
  BY <1>2, <1>4, <1>5 DEF HasSession
<1> QED
  BY <1>6, <1>7

\* ... and aside unless it is the handler's, at an event of the charger's.
LEMMA OtherAside ==
    ASSUME Inv8, OneInstance, NEW r \in Readers, AtWork(r), NEW c \in Chargers,
           ~(r = Handler /\ \E k : Tx(c, k) /\ On(c, k))
    PROVE  Aside(c)
<1>1. Quiet(c) /\ SameTx(c)
  BY AtWorkQuiet DEF Quiet
<1>2. LET e == work[r].ev IN
      /\ work[r].pc # "idle" /\ e \in Events /\ TopicOf(e.type) = r[2]
      /\ dedup \subseteq dedup' /\ dedup' \subseteq dedup \union {e.msg}
      /\ \A s \in sessions' : s \in sessions \/ s.stop = e
      /\ ~(IsTx(e) /\ e.charger = c) => TxSlot(c)' = TxSlot(c)
  BY ReaderWrites DEF Inv8, TxSlot
<1>3. ASSUME NEW k, Tx(c, k)
      PROVE  work[r].ev.msg # L(c)[k].msg
  BY <1>2, <1>3, OneEvent
<1>4. ~(IsTx(work[r].ev) /\ work[r].ev.charger = c)
  <2> SUFFICES ASSUME IsTx(work[r].ev), work[r].ev.charger = c
               PROVE  FALSE
    OBVIOUS
  <2>1. TpOf(work[r].ev) = Tp(c)
    BY <1>2, TpFacts DEF Inv8
  <2>2. work[r].off \in DOMAIN L(c) /\ L(c)[work[r].off] = work[r].ev
    BY <1>2, <2>1 DEF Inv8, PlacesOK, L
  <2>3. Tx(c, work[r].off)
    BY <2>2 DEF Tx
  <2> QED
    BY <1>3, <2>2, <2>3
<1>5. ASSUME NEW k, Tx(c, k)
      PROVE  /\ Claimed(c, k)' <=> Claimed(c, k)
             /\ HasSession(c, k)' => HasSession(c, k)
             /\ pos'[Tp(c)] < k <=> pos[Tp(c)] < k
             /\ Active(c, k)' <=> Active(c, k)
             /\ Active(c, k) => W' = W
             /\ On(c, k)' => On(c, k) /\ W' = W
  <2>1. L(c)'[k] = L(c)[k] /\ pos' = pos
    BY <1>1, <1>5, BusyMoves DEF SameTx
  <2>2. Claimed(c, k)' <=> Claimed(c, k)
    BY <1>2, <1>3, <1>5, <2>1 DEF Claimed
  <2>3. HasSession(c, k)' => HasSession(c, k)
    BY <1>2, <1>3, <1>5, <2>1 DEF HasSession
  <2>4. CASE r # Handler
    <3>1. W' = W
      BY <2>4, BusyMoves
    <3>2. (Active(c, k)' <=> Active(c, k)) /\ (On(c, k)' <=> On(c, k))
      BY <2>2, <3>1 DEF Active, On, Busy
    <3> QED
      BY <2>1, <2>2, <2>3, <3>1, <3>2
  <2>5. CASE r = Handler
    <3>1. ~On(c, k) /\ ~On(c, k)'
      BY <1>5, <2>5, BusyMoves
    <3>2. ~Active(c, k) /\ ~Active(c, k)'
      BY <3>1 DEF Active
    <3> QED
      BY <2>1, <2>2, <2>3, <3>1, <3>2
  <2> QED
    BY <2>4, <2>5
<1> QED
  BY <1>1, <1>2, <1>4, <1>5 DEF Aside

\* So are a duplicate that is found, a commit, and one that fails.
LEMMA DoneAside ==
    ASSUME Inv8, OneInstance, NEW r \in Readers, NEW c \in Chargers,
           (Dedup(r) /\ Taken(work[r].ev)) \/ Commit(r) \/ CommitFails(r)
    PROVE  Aside(c)
<1>0. AtWork(r)
  BY DEF AtWork
<1>1. CASE ~(r = Handler /\ \E k : Tx(c, k) /\ On(c, k))
  BY <1>0, <1>1, OtherAside
<1>2. CASE r = Handler /\ \E k : Tx(c, k) /\ On(c, k)
  <2>1. PICK q : Tx(c, q) /\ On(c, q)
    BY <1>2
  <2>2. W.ev = L(c)[q] /\ Handler \in Readers
    BY <2>1, OnOwn, HandlerFacts
  <2>3. /\ dedup' = dedup /\ sessions' = sessions /\ redis' = redis /\ pos' = pos
        /\ W.pc = "commit" \/ (W.pc = "dedup" /\ Claimed(c, q))
        /\ W'.pc \in {"commit", "idle"}
    <3>1. work \in [Readers -> WorkRecord] /\ Handler \in Readers
      BY <2>2 DEF Inv8, Inv1, TypeOK
    <3>2. CASE Dedup(r) /\ Taken(work[r].ev)
      <4>1. GoTo(r, "commit") /\ dedup' = dedup /\ W.pc = "dedup" /\ Claimed(c, q)
            /\ sessions' = sessions /\ redis' = redis /\ pos' = pos
        BY <1>2, <2>2, <3>2 DEF Dedup, At, W, Taken, Claimed, kafka
      <4>2. W'.pc = "commit"
        BY <1>2, <3>1, <4>1 DEF GoTo, Become, W, WorkRecord
      <4> QED
        BY <4>1, <4>2
    <3>3. CASE Commit(r) \/ CommitFails(r)
      <4>1. Become(r, Idle) /\ dedup' = dedup /\ W.pc = "commit"
            /\ sessions' = sessions /\ redis' = redis /\ pos' = pos
        BY <1>2, <3>3 DEF Commit, CommitFails, At, W, kafka
      <4>2. W'.pc = "idle"
        BY <1>2, <3>1, <4>1 DEF Become, W, Idle
      <4> QED
        BY <4>1, <4>2
    <3> QED
      BY <3>2, <3>3
  <2>4. Quiet(c) /\ L(c)' = L(c)
    BY <1>0, AtWorkQuiet, BusyMoves
  <2>5. ASSUME NEW k
        PROVE  ~Active(c, k) /\ ~Active(c, k)'
    <3>1. ~Active(c, k)
      BY <2>1, <2>3 DEF Active, On
    <3>2. ~Active(c, k)'
      BY <2>3 DEF Active, On, Busy
    <3> QED
      BY <3>1, <3>2
  <2>6. \A k : /\ Claimed(c, k)' <=> Claimed(c, k)
               /\ HasSession(c, k)' <=> HasSession(c, k)
    BY <2>3, <2>4 DEF Claimed, HasSession
  <2>7. \A k : On(c, k)' => On(c, k) /\ W'.pc = "commit"
    <3>1. \A k : On(c, k)' => On(c, k)
      BY <1>0, BusyMoves
    <3>2. \A k : On(c, k)' => W'.pc # "idle"
      BY DEF On, Busy
    <3> QED
      BY <2>3, <3>1, <3>2
  <2> QED
    BY <2>3, <2>4, <2>5, <2>6, <2>7 DEF Aside, TxSlot
<1> QED
  BY <1>1, <1>2

LEMMA CrashQuiet ==
    ASSUME Inv8, OneInstance, NEW i \in Instances, Crash(i), NEW c \in Chargers
    PROVE  Quiet(c)
<1>1. UNCHANGED <<feed, log, committed, owner, dedup, redis, history, sessions>>
  BY DEF Crash
<1>2. Busy(c)' => Busy(c) /\ W' = W
  BY HandlerFacts DEF Crash, W, Busy, Idle
<1>3. SameTx(c)
  BY <1>1 DEF SameTx, Tx, L
<1>4. pos'[Tp(c)] = pos[Tp(c)] \/ pos'[Tp(c)] = committed[Tp(c)]
  BY TpFacts DEF Crash, Inv8
<1>5. \A k : Past(c, k)' => Past(c, k)
  BY <1>1, <1>2, <1>4 DEF Past
<1>6. \A k : /\ Claimed(c, k)' <=> Claimed(c, k)
             /\ HasSession(c, k)' <=> HasSession(c, k)
  BY <1>1 DEF Claimed, HasSession, L
<1> QED
  BY <1>1, <1>3, <1>5, <1>6 DEF Quiet

LEMMA RebalanceQuiet ==
    ASSUME Inv8, NEW i \in Instances, NEW tp \in TPs, Rebalance(tp, i), NEW c \in Chargers
    PROVE  Quiet(c)
<1>1. UNCHANGED <<log, committed, work, dedup, sessions>> /\ pos' = committed
  BY DEF Rebalance
<1>2. SameTx(c)
  BY <1>1 DEF SameTx, Tx, L
<1>3. \A k : Past(c, k)' => Past(c, k)
  BY <1>1 DEF Past, Busy, W
<1>4. \A k : /\ Claimed(c, k)' <=> Claimed(c, k)
             /\ HasSession(c, k)' <=> HasSession(c, k)
  BY <1>1 DEF Claimed, HasSession, L
<1> QED
  BY <1>1, <1>2, <1>3, <1>4 DEF Quiet

LEMMA ExpiryQuiet ==
    ASSUME UNCHANGED <<kafka, work, sessions>>, dedup' \subseteq dedup, NEW c \in Chargers
    PROVE  Quiet(c)
<1>1. UNCHANGED <<log, committed, pos, work, sessions>>
  BY DEF kafka
<1>2. SameTx(c)
  BY <1>1 DEF SameTx, Tx, L
<1>3. \A k : Past(c, k)' <=> Past(c, k)
  BY <1>1 DEF Past, Busy, W
<1>4. \A k : /\ Claimed(c, k)' => Claimed(c, k)
             /\ HasSession(c, k)' <=> HasSession(c, k)
  BY <1>1 DEF Claimed, HasSession, L
<1> QED
  BY <1>1, <1>2, <1>3, <1>4 DEF Quiet

LEMMA StutterAside ==
    ASSUME UNCHANGED vars, NEW c \in Chargers
    PROVE  Aside(c)
<1>1. UNCHANGED <<log, committed, pos, work, sessions, dedup, redis>>
  BY DEF vars, kafka
<1>2. Quiet(c)
  BY ExpiryQuiet DEF vars
<1>3. \A k : /\ Claimed(c, k)' <=> Claimed(c, k)
             /\ HasSession(c, k)' <=> HasSession(c, k)
             /\ Active(c, k)' <=> Active(c, k)
             /\ On(c, k)' <=> On(c, k)
  BY <1>1 DEF Claimed, HasSession, L, Active, On, Busy, W
<1> QED
  BY <1>1, <1>2, <1>3 DEF Aside, TxSlot, W

\* A fetch of another event, by any reader
LEMMA FetchAside ==
    ASSUME Inv8, OneInstance, NEW c \in Chargers, NEW r \in Readers, NEW tp, Fetched(r, tp),
           ~(tp = Tp(c) /\ Tx(c, pos[tp] + 1))
    PROVE  Aside(c)
<1>1. UNCHANGED <<log, committed, sessions, dedup, redis>>
  BY DEF Fetched
<1>2. /\ SameTx(c) /\ TxSlot(c)' = TxSlot(c)
      /\ \A k : /\ Claimed(c, k)' <=> Claimed(c, k)
                /\ HasSession(c, k)' <=> HasSession(c, k)
  BY <1>1 DEF Claimed, HasSession, L, SameTx, Tx, TxSlot
<1>3. Handler \in Readers /\ (r[2] = "transactions" => r = Handler) /\ Tp(c)[1] = "transactions"
  BY HandlerFacts DEF Tp
<1>4. \A k : Tx(c, k) => k \in Nat
  BY TpFacts DEF Inv8, Tx
<1>5. pos[Tp(c)] \in Nat /\ pos'[Tp(c)] = IF Tp(c) = tp THEN pos[Tp(c)] + 1 ELSE pos[Tp(c)]
  BY TpFacts DEF Fetched, Inv8
<1>6. ASSUME NEW k, Tx(c, k)
      PROVE  (pos'[Tp(c)] < k <=> pos[Tp(c)] < k) /\ (k =< pos'[Tp(c)] <=> k =< pos[Tp(c)])
  BY <1>4, <1>5, <1>6
<1>7. CASE tp = Tp(c) \/ r = Handler
  <2>1. r = Handler
    BY <1>3, <1>7 DEF Fetched
  <2>2. W.pc = "idle" /\ W'.off = pos[tp] + 1 /\ TpOf(W'.ev) = tp
    BY <2>1 DEF Fetched, W
  <2>3. ASSUME NEW k, Tx(c, k)
        PROVE  ~On(c, k) /\ ~On(c, k)' /\ (Past(c, k)' => Past(c, k))
    <3>1. ~Busy(c) /\ (Busy(c)' => tp = Tp(c) /\ W'.off = pos'[Tp(c)])
      BY <1>5, <2>2 DEF Busy
    <3>2. ~On(c, k)'
      BY <1>5, <2>2, <2>3, <3>1 DEF On
    <3>3. Past(c, k)' => Past(c, k)
      BY <1>1, <1>6, <2>3, <3>1 DEF Past
    <3> QED
      BY <3>1, <3>2, <3>3 DEF On
  <2>4. \A k : Tx(c, k) => ~Active(c, k) /\ ~Active(c, k)'
    BY <2>3 DEF Active
  <2> QED
    BY <1>1, <1>2, <1>6, <2>3, <2>4 DEF Aside, Quiet
<1>8. CASE ~(tp = Tp(c) \/ r = Handler)
  <2>1. W' = W /\ pos'[Tp(c)] = pos[Tp(c)]
    BY <1>3, <1>5, <1>8 DEF Fetched, W
  <2>2. \A k : /\ Active(c, k)' <=> Active(c, k)
               /\ On(c, k)' <=> On(c, k)
               /\ Past(c, k)' <=> Past(c, k)
    BY <1>1, <1>2, <2>1 DEF Active, On, Busy, Past
  <2> QED
    BY <1>1, <1>2, <2>1, <2>2 DEF Aside, Quiet
<1> QED
  BY <1>7, <1>8

\* An event of another charger arrives, or another event of this one.
LEMMA ProduceAside ==
    ASSUME Inv8, NEW c \in Chargers, NEW e \in Events, Arrives(e), ~(IsTx(e) /\ e.charger = c)
    PROVE  Aside(c)
<1>1. /\ UNCHANGED <<committed, pos, work, sessions, dedup, redis>>
      /\ log' = [log EXCEPT ![TpOf(e)] = Append(@, e)]
  BY DEF Arrives
<1>2. L(c)' = L(c) \/ L(c)' = Append(L(c), e)
  BY <1>1, TpFacts DEF L, Inv8, Inv1, TypeOK
<1>3. SameTx(c)
  <2>0. L(c) \in Seq(Events) /\ DOMAIN L(c) = 1..Len(L(c))
    BY TpFacts DEF Inv8
  <2>1. L(c) \in Seq(Events) /\ DOMAIN L(c) = 1..Len(L(c)) /\ Len(L(c)) \in Nat
    BY <2>0
  <2>2. CASE L(c)' = L(c)
    BY <2>2 DEF SameTx, Tx
  <2>3. CASE L(c)' = Append(L(c), e)
    <3>1. /\ DOMAIN L(c)' = 1..(Len(L(c)) + 1)
          /\ \A k \in 1..Len(L(c)) : L(c)'[k] = L(c)[k]
          /\ L(c)'[Len(L(c)) + 1] = e
      BY <2>1, <2>3
    <3>2. ASSUME NEW k, k \in DOMAIN L(c)', IsTx(L(c)'[k]), L(c)'[k].charger = c
          PROVE  k \in DOMAIN L(c)
      BY <2>1, <3>1, <3>2
    <3>3. DOMAIN L(c) \subseteq DOMAIN L(c)'
      BY <2>1, <3>1
    <3>4. \A k : Tx(c, k) => L(c)'[k] = L(c)[k]
      BY <2>1, <3>1 DEF Tx
    <3>5. \A k : Tx(c, k)' => Tx(c, k)
      BY <2>1, <3>1, <3>2 DEF Tx
    <3>6. \A k : Tx(c, k) => Tx(c, k)'
      BY <3>3, <3>4 DEF Tx
    <3> QED
      BY <3>4, <3>5, <3>6 DEF SameTx
  <2> QED
    BY <1>2, <2>2, <2>3
<1>4. \A k : Tx(c, k) => /\ Claimed(c, k)' <=> Claimed(c, k)
                         /\ HasSession(c, k)' <=> HasSession(c, k)
                         /\ Active(c, k)' <=> Active(c, k)
                         /\ On(c, k)' <=> On(c, k)
                         /\ Past(c, k)' <=> Past(c, k)
  BY <1>1, <1>3 DEF Claimed, HasSession, SameTx, Active, On, Busy, Past, W
<1> QED
  BY <1>1, <1>3, <1>4 DEF Aside, Quiet, TxSlot, W

-----------------------------------------------------------------------------
(* The handler's steps at an event q of the charger's                      *)

OwnStep == Dedup(Handler) \/ WriteHistory(Handler) \/ ReadStart(Handler)
           \/ InsertCdr(Handler) \/ PipeStep(Handler)

LEMMA OwnFacts ==
    ASSUME Inv8, OneInstance, NEW c \in Chargers, NEW q, Tx(c, q), On(c, q)
    PROVE  /\ W.pc # "idle" /\ W.ev = L(c)[q] /\ W.off = q /\ TpOf(W.ev) = Tp(c)
           /\ W.ev \in Events /\ W.ev.charger = c
           /\ W.ev.type \in TxTypes
           /\ StartAt(c, q) <=> W.ev.type = "StartTransaction"
           /\ StopAt(c, q) <=> W.ev.type = "StopTransaction"
           /\ StartAt(c, q) <=> ~StopAt(c, q)
           /\ q \in DOMAIN L(c) /\ q \in Nat
           /\ work \in [Readers -> WorkRecord] /\ W \in WorkRecord /\ Handler \in Readers
<1>1. W.ev = L(c)[q] /\ q \in DOMAIN L(c) /\ Handler \in Readers /\ W.ev \in Events /\ q \in Nat
  BY OnOwn, HandlerFacts, TpFacts DEF Inv8
<1>2. work \in [Readers -> WorkRecord] /\ W \in WorkRecord
  BY <1>1 DEF Inv8, Inv1, TypeOK, W
<1> QED
  BY <1>1, <1>2 DEF Tx, StartAt, StopAt, On, Busy, IsTx, TxTypes

LEMMA OwnDedup ==
    ASSUME Inv8, OneInstance, NEW c \in Chargers, NEW q, Tx(c, q), On(c, q),
           Dedup(Handler), ~Claimed(c, q)
    PROVE  /\ W.pc = "dedup" /\ W' = [W EXCEPT !.pc = "history"]
           /\ dedup' = dedup \union {L(c)[q].msg}
           /\ UNCHANGED <<kafka, redis, sessions, used>>
<1>1. /\ W.pc = "dedup" /\ GoTo(Handler, "history") /\ Claim(W.ev)
      /\ UNCHANGED <<kafka, redis, sessions, used>>
  BY OwnFacts DEF Dedup, At, W, Taken, Claimed
<1> QED
  BY <1>1, OwnFacts DEF GoTo, Become, W, Claim

LEMMA OwnHistory ==
    ASSUME Inv8, OneInstance, NEW c \in Chargers, NEW q, Tx(c, q), On(c, q),
           WriteHistory(Handler)
    PROVE  /\ W.pc = "history"
           /\ W' = IF StartAt(c, q) THEN [W EXCEPT !.pc = "pipe", !.n = 1]
                                    ELSE [W EXCEPT !.pc = "read"]
           /\ UNCHANGED <<kafka, dedup, redis, sessions, used>>
<1>1. W.pc = "history" /\ W' = BeginUpdate(W) /\ UNCHANGED <<kafka, dedup, redis, sessions, used>>
  BY OwnFacts DEF WriteHistory, At, Become, W
<1>2. BeginUpdate(W) = IF W.ev.type = "StartTransaction" THEN [W EXCEPT !.pc = "pipe", !.n = 1]
                                                         ELSE [W EXCEPT !.pc = "read"]
  BY OwnFacts DEF BeginUpdate, Rejected, NothingToShow, ReadsFirst, TxTypes
<1> QED
  BY <1>1, <1>2, OwnFacts

LEMMA OwnRead ==
    ASSUME Inv8, OneInstance, NEW c \in Chargers, NEW q, Tx(c, q), On(c, q),
           ReadStart(Handler)
    PROVE  /\ W.pc = "read" /\ StopAt(c, q)
           /\ W' = [W EXCEPT !.pc = IF TxSlot(c) = None THEN "pipe" ELSE "cdr",
                             !.start = TxSlot(c), !.n = 1]
           /\ UNCHANGED <<kafka, dedup, redis, sessions, used>>
<1>1. redis[Charger("tx", W.ev)] = TxSlot(c)
  BY OwnFacts DEF Charger, TxSlot
<1> QED
  BY <1>1, OwnFacts DEF ReadStart, At, Become, W

LEMMA OwnInsert ==
    ASSUME Inv8, OneInstance, NEW c \in Chargers, NEW q, Tx(c, q), On(c, q),
           InsertCdr(Handler)
    PROVE  /\ W.pc = "cdr" /\ StopAt(c, q)
           /\ W' = [W EXCEPT !.pc = "pipe"]
           /\ sessions' = IF HasSession(c, q) THEN sessions
                          ELSE sessions \union {[stop |-> L(c)[q], start |-> W.start]}
           /\ UNCHANGED <<kafka, dedup, redis, used>>
<1>1. W.pc = "cdr" /\ AddSession(W.ev, W.start) /\ GoTo(Handler, "pipe") /\ UNCHANGED <<kafka, dedup, redis, used>>
  BY DEF InsertCdr, At, W
<1>2. StopAt(c, q)
  BY <1>1, OwnFacts DEF Inv8, PlacesOK, W
<1>3. W' = [W EXCEPT !.pc = "pipe"]
  BY <1>1, OwnFacts DEF GoTo, Become, W
<1>4. sessions' = IF HasSession(c, q) THEN sessions
                  ELSE sessions \union {[stop |-> L(c)[q], start |-> W.start]}
  BY <1>1, OwnFacts DEF AddSession, HasSession
<1> QED
  BY <1>1, <1>2, <1>3, <1>4

LEMMA OwnPipe ==
    ASSUME Inv8, OneInstance, NEW c \in Chargers, NEW q, Tx(c, q), On(c, q),
           PipeStep(Handler)
    PROVE  /\ W.pc = "pipe" /\ W.n \in Nat
           /\ W'.ev = W.ev /\ W'.off = W.off /\ W'.start = W.start
           /\ \/ W'.pc = "pipe" /\ W'.n = W.n + 1
              \/ W'.pc = "commit" /\ W.n >= 3 /\ (StartAt(c, q) => W.n = 6)
           /\ TxSlot(c)' = IF StartAt(c, q) THEN IF W.n = 3 THEN L(c)[q] ELSE TxSlot(c)
                           ELSE IF W.start # None /\ W.n = 2 THEN None ELSE TxSlot(c)
           /\ UNCHANGED <<kafka, dedup, sessions, used>>
<1> DEFINE Last == LastCommand(W)
<1>1. /\ W.pc = "pipe" /\ redis' = Apply(redis, Command(W))
      /\ W' = IF Last THEN [W EXCEPT !.pc = "commit"] ELSE [W EXCEPT !.n = @ + 1]
      /\ UNCHANGED <<kafka, dedup, sessions, used>>
  BY OwnFacts DEF PipeStep, At, GoTo, Become, W
<1>2. W.n \in 1..Len(Pipe(W.ev, W.start)) /\ W.n \in Nat
  BY <1>1, OwnFacts DEF Inv8, Inv1, WorkOK, ReaderOK, W, WorkRecord
<1>3. /\ <<"tx", c, 0>> \in Slots
      /\ <<"tx", c, 0>> \in Command(W).slots <=> TxWrite(W)
      /\ TxWrite(W) => Command(W).val = IF W.ev.type = "StartTransaction" THEN W.ev ELSE None
      /\ W.ev.type = "StartTransaction" => Len(Pipe(W.ev, W.start)) = 6
      /\ W.ev.type = "StopTransaction" => Len(Pipe(W.ev, W.start)) = IF W.start = None THEN 3 ELSE 4
  BY <1>1, OwnFacts, PipeWritesTx DEF Inv8, W
<1>4. W'.ev = W.ev /\ W'.off = W.off /\ W'.start = W.start
  BY <1>1, OwnFacts DEF WorkRecord
<1>5. \/ W'.pc = "pipe" /\ W'.n = W.n + 1
      \/ W'.pc = "commit" /\ W.n >= 3 /\ (StartAt(c, q) => W.n = 6)
  <2>1. CASE Last
    <3>1. W'.pc = "commit" /\ W.n = Len(Pipe(W.ev, W.start))
      BY <1>1, <2>1, OwnFacts DEF WorkRecord, LastCommand
    <3>2. \/ StartAt(c, q) /\ W.ev.type = "StartTransaction"
          \/ ~StartAt(c, q) /\ W.ev.type = "StopTransaction"
      BY OwnFacts DEF TxTypes
    <3>3. W.n = 6 \/ (~StartAt(c, q) /\ (W.n = 3 \/ W.n = 4))
      BY <1>3, <3>1, <3>2
    <3>4. W.n >= 3 /\ (StartAt(c, q) => W.n = 6)
      BY <3>3
    <3>5. W'.pc = "commit"
      BY <3>1
    <3> QED
      BY <3>4, <3>5
  <2>2. CASE ~Last
    BY <1>1, <2>2, OwnFacts DEF WorkRecord
  <2> QED
    BY <2>1, <2>2
<1>6. TxSlot(c)' = IF TxWrite(W) THEN Command(W).val ELSE TxSlot(c)
  BY <1>1, <1>3 DEF TxSlot, Apply
<1>7. TxSlot(c)' = IF StartAt(c, q) THEN IF W.n = 3 THEN L(c)[q] ELSE TxSlot(c)
                   ELSE IF W.start # None /\ W.n = 2 THEN None ELSE TxSlot(c)
  BY <1>3, <1>6, OwnFacts DEF TxWrite, TxTypes
<1> QED
  BY <1>1, <1>2, <1>4, <1>5, <1>7

\* After such a step the handler is still at q, and nothing else is at hand.
LEMMA OwnPlace ==
    ASSUME Inv8, OneInstance, NEW c \in Chargers, NEW q, Tx(c, q), On(c, q),
           UNCHANGED kafka, W'.ev = W.ev, W'.off = W.off, W'.pc # "idle"
    PROVE  /\ L(c)' = L(c) /\ pos' = pos
           /\ On(c, q)' /\ W'.off = q
           /\ \A k : On(c, k)' <=> On(c, k)
           /\ \A k : k # q => ~On(c, k)
           /\ \A k : Past(c, k)' <=> Past(c, k)
<1>1. UNCHANGED <<log, pos, committed>>
  BY DEF kafka
<1>2. Busy(c) /\ Busy(c)' /\ W.off = q
  BY DEF On, Busy
<1> QED
  BY <1>1, <1>2 DEF L, On, Past

LEMMA OwnBreaksNone ==
    ASSUME Inv8, OneInstance, NEW c \in Chargers, NEW q, Tx(c, q), Active(c, q), OwnStep
    PROVE  Broken(c)' \subseteq Broken(c)
<1>0. AtWork(Handler) /\ Handler \in Readers /\ On(c, q)
  BY HandlerFacts DEF OwnStep, AtWork, Active
<1>1. Quiet(c) /\ SameTx(c) /\ (\A k : StartAt(c, k)' <=> StartAt(c, k)) /\ (\A k : StopAt(c, k)' <=> StopAt(c, k))
      /\ (\A j, k : Ends(c, j, k)' <=> Ends(c, j, k))
  BY <1>0, AtWorkQuiet, SameTxFacts DEF Quiet
<1>2. /\ W \in WorkRecord /\ W.off = q /\ W.ev = L(c)[q] /\ q \in DOMAIN L(c)
      /\ StartAt(c, q) <=> ~StopAt(c, q)
  BY <1>0, OwnFacts
<1> SUFFICES ASSUME NEW k, StartAt(c, k), Begun(c, k) \/ Ending(c, k)
             PROVE  Begun(c, k)' \/ Ending(c, k)' \/ Joined(c, k)'
  <2> SUFFICES ASSUME NEW k, k \in Broken(c)', k \notin Broken(c)
               PROVE  FALSE
    OBVIOUS
  <2>1. StartAt(c, k) /\ k \in DOMAIN L(c) /\ ~Safe(c, k)'
    BY <1>1 DEF Broken, StartAt, Tx
  <2>2. Begun(c, k) \/ Ending(c, k)
    BY <1>1, <2>1, QuietKeeps DEF Broken, Safe
  <2> QED
    BY <2>1, <2>2 DEF Safe
<1>3. /\ k # q => ~Active(c, k)
      /\ StopAt(c, q) => k # q
      /\ \A x : Active(c, x) => x = q
  BY <1>0 DEF Active, On, StartAt, StopAt
<1>4. Begun(c, k) => Awaits(c, k)'
  BY <1>1, QuietAwaits DEF Begun
<1>5. Ending(c, k) => Ends(c, k, q) /\ ~HasSession(c, q) /\ StopAt(c, q)
                      /\ \/ W.pc \in {"dedup", "history", "read"} /\ TxSlot(c) = L(c)[k]
                         \/ W.pc = "cdr" /\ W.start = L(c)[k]
  BY <1>3 DEF Ending, Ends
<1>6. k \in DOMAIN L(c) /\ L(c)'[k] = L(c)[k] /\ q \in DOMAIN L(c)' /\ L(c)'[q] = L(c)[q]
      /\ L(c)[k] # None /\ Tx(c, q)' /\ (\A x : Tx(c, x)' <=> Tx(c, x))
  BY <1>1, <1>2, TpFacts DEF SameTx, StartAt, Tx, Inv8
\* a start in tx:active is threatened by what is at hand
<1>7. Begun(c, k) => \/ k = q /\ Writing(c, k)
                     \/ TxSlot(c) = L(c)[k] /\ ~Threat(c, k)
                        /\ (k # q => StopAt(c, q) /\ W.pc = "pipe" /\ W.start = None)
  BY <1>2, <1>3 DEF Begun, Writing, Threat
<1>8. ASSUME Begun(c, k), pos' = pos, \A x : Tx(c, x) /\ Claimed(c, x) => Claimed(c, x)'
      PROVE  ~Returns(c, k)'
  BY <1>6, <1>8 DEF Begun, Returns, Tx
<1>9. \A x : Tx(c, x) => (Claimed(c, x) => Claimed(c, x)')
  <2>1. dedup \subseteq dedup'
    BY <1>0, ReaderWrites DEF Inv8
  <2> QED
    BY <1>1, <2>1 DEF Claimed, SameTx
<1>10. CASE Dedup(Handler)
  <2>1. CASE Claimed(c, q)
    BY <1>0, <1>10, <2>1 DEF Active, Dedup, At, W
  <2>2. CASE ~Claimed(c, q)
    <3>1. W.pc = "dedup" /\ W' = [W EXCEPT !.pc = "history"] /\ UNCHANGED <<kafka, redis, sessions>>
      BY <1>0, <1>10, <2>2, OwnDedup
    <3>2. W'.pc = "history" /\ W'.ev = W.ev /\ W'.off = W.off
      BY <1>2, <3>1 DEF WorkRecord
    <3>3. On(c, q)' /\ Active(c, q)' /\ pos' = pos /\ L(c)' = L(c) /\ \A x : Active(c, x)' => x = q
      BY <1>0, <3>1, <3>2, OwnPlace DEF Active
    <3>4. CASE Begun(c, k)
      <4>1. Writing(c, k)' \/ (TxSlot(c)' = L(c)'[k] /\ ~Threat(c, k)')
        BY <1>2, <1>6, <1>7, <3>1, <3>2, <3>3, <3>4 DEF Writing, Threat, TxSlot
      <4> QED
        BY <1>4, <1>8, <1>9, <3>3, <3>4, <4>1 DEF Begun
    <3>5. CASE Ending(c, k)
      <4>1. ~HasSession(c, q)' /\ TxSlot(c)' = L(c)'[k] /\ Ends(c, k, q)'
        BY <1>1, <1>5, <1>6, <3>1, <3>5 DEF HasSession, TxSlot
      <4> QED
        BY <1>6, <3>2, <3>3, <4>1 DEF Ending
    <3> QED
      BY <3>4, <3>5
  <2> QED
    BY <2>1, <2>2
<1>11. CASE WriteHistory(Handler)
  <2>1. W.pc = "history" /\ UNCHANGED <<kafka, dedup, redis, sessions>>
        /\ W' = IF StartAt(c, q) THEN [W EXCEPT !.pc = "pipe", !.n = 1] ELSE [W EXCEPT !.pc = "read"]
    BY <1>0, <1>11, OwnHistory
  <2>2. W'.ev = W.ev /\ W'.off = W.off /\ W'.pc \in {"pipe", "read"}
        /\ (StartAt(c, q) => W'.n = 1) /\ (StopAt(c, q) => W'.pc = "read")
    BY <1>2, <2>1 DEF WorkRecord
  <2>3. On(c, q)' /\ Active(c, q)' /\ pos' = pos /\ L(c)' = L(c) /\ \A x : Active(c, x)' => x = q
    BY <1>0, <2>1, <2>2, OwnPlace DEF Active
  <2>4. CASE Begun(c, k)
    <3>1. k = q
      BY <1>7, <2>1, <2>4
    <3>2. Writing(c, k)'
      BY <2>2, <2>3, <3>1 DEF Writing
    <3> QED
      BY <1>4, <1>8, <1>9, <2>3, <2>4, <3>2 DEF Begun
  <2>5. CASE Ending(c, k)
    <3>1. ~HasSession(c, q)' /\ TxSlot(c)' = L(c)'[k] /\ Ends(c, k, q)' /\ W'.pc = "read"
      BY <1>1, <1>5, <1>6, <2>1, <2>2, <2>5 DEF HasSession, TxSlot
    <3> QED
      BY <1>6, <2>3, <3>1 DEF Ending
  <2> QED
    BY <2>4, <2>5
<1>12. CASE ReadStart(Handler)
  <2>1. /\ W.pc = "read" /\ StopAt(c, q) /\ UNCHANGED <<kafka, dedup, redis, sessions>>
        /\ W' = [W EXCEPT !.pc = IF TxSlot(c) = None THEN "pipe" ELSE "cdr", !.start = TxSlot(c), !.n = 1]
    BY <1>0, <1>12, OwnRead
  <2>2. Ending(c, k) /\ TxSlot(c) = L(c)[k]
    BY <1>3, <1>5, <1>7, <2>1
  <2>3. W'.pc = "cdr" /\ W'.start = L(c)[k] /\ W'.ev = W.ev /\ W'.off = W.off
    BY <1>2, <1>6, <2>1, <2>2 DEF WorkRecord
  <2>4. Active(c, q)'
    BY <1>0, <2>1, <2>3, OwnPlace DEF Active
  <2>5. ~HasSession(c, q)' /\ Ends(c, k, q)'
    BY <1>1, <1>5, <1>6, <2>1, <2>2 DEF HasSession
  <2> QED
    BY <1>6, <2>3, <2>4, <2>5 DEF Ending
<1>13. CASE InsertCdr(Handler)
  <2>1. /\ W.pc = "cdr" /\ StopAt(c, q)
        /\ sessions' = IF HasSession(c, q) THEN sessions
                       ELSE sessions \union {[stop |-> L(c)[q], start |-> W.start]}
    BY <1>0, <1>13, OwnInsert
  <2>2. Ending(c, k) /\ W.start = L(c)[k] /\ ~HasSession(c, q) /\ Ends(c, k, q)
    BY <1>3, <1>5, <1>7, <2>1
  <2>3. [stop |-> L(c)'[q], start |-> L(c)'[k]] \in sessions' /\ Ends(c, k, q)'
    BY <1>1, <1>6, <2>1, <2>2
  <2> QED
    BY <1>6, <2>3 DEF Joined
<1>14. CASE PipeStep(Handler)
  <2>1. /\ W.pc = "pipe" /\ W.n \in Nat
        /\ W'.ev = W.ev /\ W'.off = W.off /\ W'.start = W.start
        /\ \/ W'.pc = "pipe" /\ W'.n = W.n + 1
           \/ W'.pc = "commit" /\ W.n >= 3 /\ (StartAt(c, q) => W.n = 6)
        /\ TxSlot(c)' = IF StartAt(c, q) THEN IF W.n = 3 THEN L(c)[q] ELSE TxSlot(c)
                        ELSE IF W.start # None /\ W.n = 2 THEN None ELSE TxSlot(c)
        /\ UNCHANGED <<kafka, dedup, sessions>>
    BY <1>0, <1>14, OwnPipe
  <2>2. On(c, q)' /\ pos' = pos /\ L(c)' = L(c) /\ \A x : Active(c, x)' => x = q
    BY <1>0, <2>1, OwnPlace DEF Active
  <2>3. Begun(c, k)
    BY <1>5, <2>1
  <2>4. Awaits(c, k)' /\ ~Returns(c, k)'
    BY <1>4, <1>8, <1>9, <2>2, <2>3
  <2>5. CASE k = q
    <3>1. CASE Writing(c, k) /\ W.n < 3
      <4>1. W'.pc = "pipe" /\ W'.n =< 3
        BY <2>1, <3>1
      <4>2. Writing(c, k)'
        BY <2>2, <2>5, <4>1 DEF Writing, Active
      <4> QED
        BY <2>4, <4>2 DEF Begun
    <3>2. CASE ~(Writing(c, k) /\ W.n < 3)
      <4>1. TxSlot(c)' = L(c)[k]
        <5>1. CASE TxSlot(c) = L(c)[k]
          BY <2>1, <2>5, <5>1
        <5>2. CASE Writing(c, k)
          <6>1. W.n = 3
            BY <2>1, <3>2, <5>2 DEF Writing
          <6> QED
            BY <2>1, <2>5, <6>1
        <5> QED
          BY <1>7, <2>3, <5>1, <5>2
      <4>2. ~Threat(c, k)'
        BY <2>2, <2>5 DEF Threat
      <4> QED
        BY <1>6, <2>4, <4>1, <4>2 DEF Begun
    <3> QED
      BY <3>1, <3>2
  <2>6. CASE k # q
    <3>1. TxSlot(c) = L(c)[k] /\ StopAt(c, q) /\ W.start = None
      BY <1>7, <2>3, <2>6
    <3>2. TxSlot(c)' = L(c)'[k]
      BY <1>2, <1>6, <2>1, <3>1
    <3>3. ~Threat(c, k)'
      <4> SUFFICES ASSUME Threat(c, k)'
                   PROVE  FALSE
        OBVIOUS
      <4>1. Active(c, q)' /\ ~(StopAt(c, q)' /\ W'.pc = "pipe" /\ W'.start = None)
        BY <2>2 DEF Threat
      <4>2. StopAt(c, q)' /\ W'.start = None /\ W'.pc # "commit"
        BY <1>1, <2>1, <3>1, <4>1 DEF Active
      <4> QED
        BY <2>1, <4>1, <4>2
    <3> QED
      BY <2>4, <3>2, <3>3 DEF Begun
  <2> QED
    BY <2>5, <2>6
<1> QED
  BY <1>10, <1>11, <1>12, <1>13, <1>14 DEF OwnStep

LEMMA FetchBreaksNone ==
    ASSUME Inv8, OneInstance, NEW c \in Chargers, NEW r \in Readers, Fetched(r, Tp(c)),
           Tx(c, pos[Tp(c)] + 1)
    PROVE  Broken(c)' \subseteq Broken(c)
<1> DEFINE p == pos[Tp(c)]
           q == p + 1
<1>1. /\ UNCHANGED <<log, committed, sessions, dedup, redis>>
      /\ r = Handler /\ W.pc = "idle" /\ W'.pc = "dedup" /\ W'.ev = L(c)[q] /\ W'.off = q
      /\ pos'[Tp(c)] = q /\ TpOf(W'.ev) = Tp(c) /\ p \in Nat
  <2>1. r = Handler
    BY HandlerFacts DEF Fetched, Tp
  <2> QED
    BY <2>1, TpFacts DEF Fetched, W, L, Inv8
<1> HIDE DEF p
<1>2. /\ L(c)' = L(c) /\ TxSlot(c)' = TxSlot(c) /\ SameTx(c)
      /\ \A x : /\ Claimed(c, x)' <=> Claimed(c, x)
                /\ HasSession(c, x)' <=> HasSession(c, x)
                /\ Tx(c, x)' <=> Tx(c, x)
  BY <1>1 DEF Claimed, HasSession, L, SameTx, Tx, TxSlot
<1>3. /\ \A x : StartAt(c, x)' <=> StartAt(c, x)
      /\ \A x : StopAt(c, x)' <=> StopAt(c, x)
      /\ \A x, y : Ends(c, x, y)' <=> Ends(c, x, y)
  BY <1>2, SameTxFacts
<1>4. \A x : Tx(c, x) => x \in Nat /\ x \in DOMAIN L(c)
  BY TpFacts DEF Inv8, Tx
<1>5. \A x : /\ On(c, x)' <=> x = q
             /\ ~Active(c, x)
             /\ Active(c, x)' <=> x = q /\ ~Claimed(c, x)
  BY <1>1, <1>2 DEF On, Busy, Active
<1>6. \A x : Tx(c, x) => /\ Past(c, x)' => Past(c, x) \/ x = q
                         /\ x =< q /\ x # q => Past(c, x)
                         /\ ~Past(c, x) => p < x
  <2> SUFFICES ASSUME NEW x, Tx(c, x)
               PROVE  /\ Past(c, x)' => Past(c, x) \/ x = q
                      /\ x =< q /\ x # q => Past(c, x)
                      /\ ~Past(c, x) => p < x
    OBVIOUS
  <2>1. x =< q /\ x # q => x =< p
    BY <1>1, <1>4
  <2>2. ~(x =< p) => p < x
    BY <1>1, <1>4
  <2>3. Busy(c)' /\ W'.off = q
    BY <1>1 DEF Busy
  <2> QED
    BY <1>1, <2>1, <2>2, <2>3 DEF Past, p
<1> SUFFICES ASSUME NEW k, StartAt(c, k), Safe(c, k)
             PROVE  Safe(c, k)'
  BY <1>2, <1>3 DEF Broken
<1>7. Tx(c, k) /\ k \in Nat /\ k \in DOMAIN L(c) /\ Tx(c, q) /\ q \in Nat /\ q \in DOMAIN L(c)
  BY <1>1, <1>4 DEF StartAt, p
<1>8. CASE Joined(c, k)
  BY <1>1, <1>2, <1>3, <1>8 DEF Joined, Safe
<1>9. ASSUME Awaits(c, k), q =< k \/ ~StopAt(c, q)
      PROVE  Awaits(c, k)'
  <2> SUFFICES ASSUME NEW n, StopAt(c, n), k < n
               PROVE  Fresh(c, n)' /\ ~HasSession(c, n)'
    BY <1>3 DEF Awaits
  <2>1. Fresh(c, n) /\ ~HasSession(c, n) /\ Tx(c, n) /\ n \in Nat
    BY <1>4, <1>9 DEF Awaits, StopAt, Tx
  <2>2. n # q
    BY <1>7, <1>9, <2>1
  <2> QED
    BY <1>2, <1>6, <2>1, <2>2 DEF Fresh
<1>10. ~Returns(c, k) => ~Returns(c, k)'
  <2> SUFFICES ASSUME Returns(c, k)'
               PROVE  Returns(c, k)
    OBVIOUS
  <2>1. PICK x \in DOMAIN L(c) : Tx(c, x) /\ q < x /\ x < k /\ ~Claimed(c, x)
    BY <1>1, <1>2 DEF Returns
  <2>2. p < x
    BY <1>1, <1>4, <2>1
  <2> QED
    BY <2>1, <2>2 DEF Returns, p
<1>11. CASE Coming(c, k)
  <2>1. ~Past(c, k) /\ ~Claimed(c, k) /\ Awaits(c, k)
    BY <1>11 DEF Coming, Fresh
  <2>2. q =< k
    BY <1>1, <1>6, <1>7, <2>1
  <2>3. Awaits(c, k)'
    BY <1>9, <2>1, <2>2
  <2>4. CASE k = q
    <3>1. Writing(c, k)'
      BY <1>1, <1>5, <2>1, <2>4 DEF Writing
    <3>2. ~Returns(c, k)'
      <4> SUFFICES ASSUME Returns(c, k)'
                   PROVE  FALSE
        OBVIOUS
      <4>1. PICK x \in DOMAIN L(c) : Tx(c, x) /\ q < x /\ x < k
        BY <1>1, <1>2 DEF Returns
      <4> QED
        BY <1>4, <1>7, <2>4, <4>1
    <3> QED
      BY <2>3, <3>1, <3>2 DEF Begun, Safe
  <2>5. CASE k # q
    BY <1>2, <1>6, <1>7, <2>1, <2>3, <2>5 DEF Coming, Fresh, Safe
  <2> QED
    BY <2>4, <2>5
<1>12. CASE Begun(c, k)
  <2>1. Awaits(c, k) /\ ~Returns(c, k) /\ TxSlot(c)' = L(c)'[k]
    BY <1>2, <1>5, <1>12 DEF Begun, Writing
  <2>2. CASE q < k
    <3>1. Claimed(c, q)
      BY <1>1, <1>7, <2>1, <2>2 DEF Returns, p
    <3>2. ~Threat(c, k)'
      BY <1>2, <1>5, <3>1 DEF Threat
    <3> QED
      BY <1>7, <1>9, <1>10, <2>1, <2>2, <3>2 DEF Begun, Safe
  <2>3. CASE q = k
    <3>1. ~Threat(c, k)'
      BY <1>2, <1>5, <2>3 DEF Threat
    <3> QED
      BY <1>7, <1>9, <1>10, <2>1, <2>3, <3>1 DEF Begun, Safe
  <2>4. CASE k < q
    <3>1. ASSUME NEW x, StartAt(c, x), k < x, x =< q
          PROVE  FALSE
      <4>1. PICK n \in DOMAIN L(c) : StopAt(c, n) /\ k < n /\ n < x
        BY <3>1, StopBetween
      <4>2. Tx(c, n) /\ Tx(c, x) /\ n \in Nat /\ x \in Nat
        BY <1>4, <3>1, <4>1 DEF StopAt, StartAt
      <4>3. n =< q /\ n # q
        BY <1>7, <3>1, <4>1, <4>2
      <4>4. Past(c, n)
        BY <1>6, <4>2, <4>3
      <4> QED
        BY <2>1, <4>1, <4>4 DEF Awaits, Fresh
    <3>2. ~StartAt(c, q) /\ StopAt(c, q)
      <4>1. ~StartAt(c, q)
        BY <1>7, <2>4, <3>1
      <4> QED
        BY <1>7, <4>1 DEF StartAt, StopAt, Tx, IsTx, TxTypes
    <3>3. Ends(c, k, q)
      BY <1>4, <1>7, <2>4, <3>1, <3>2 DEF Ends, StartAt
    <3>4. ~Claimed(c, q) /\ ~HasSession(c, q)
      BY <1>7, <2>1, <2>4, <3>2 DEF Awaits, Fresh
    <3>5. Ending(c, k)'
      BY <1>1, <1>2, <1>3, <1>5, <1>7, <2>1, <3>3, <3>4 DEF Ending
    <3> QED
      BY <3>5 DEF Safe
  <2> QED
    BY <1>7, <2>2, <2>3, <2>4
<1>13. CASE Ending(c, k)
  BY <1>5, <1>13 DEF Ending
<1> QED
  BY <1>8, <1>11, <1>12, <1>13 DEF Safe

\* An event of the charger's arrives: it is new to everyone.
LEMMA ArrivesNew ==
    ASSUME Inv8, OneInstance, NEW c \in Chargers, Produce,
           NEW e, e = Head(feed), IsTx(e), e.charger = c, NEW q, q = Len(L(c)) + 1
    PROVE  /\ UNCHANGED <<committed, pos, work, sessions, dedup, redis, used>>
           /\ q \in Nat /\ q \notin DOMAIN L(c) /\ Tx(c, q)' /\ L(c)'[q] = e
           /\ \A k : Tx(c, k)' <=> Tx(c, k) \/ k = q
           /\ \A k : Tx(c, k) => k < q /\ L(c)'[k] = L(c)[k]
           /\ ~Past(c, q) /\ ~On(c, q) /\ pos[Tp(c)] < q /\ e.msg \notin dedup
           /\ \A s \in sessions : s.stop # e
<1>1. /\ UNCHANGED <<committed, pos, work, sessions, dedup, redis, used>>
      /\ log' = [log EXCEPT ![TpOf(e)] = Append(@, e)]
      /\ feed # <<>> /\ feed \in Seq(Events)
  BY DEF Produce, Inv8, Inv1, TypeOK
<1>2. e \in Events /\ 1 \in DOMAIN feed /\ feed[1] = e
  BY <1>1
<1>3. TpOf(e) = Tp(c) /\ Tp(c) \in TPs /\ L(c) \in Seq(Events) /\ DOMAIN L(c) = 1..Len(L(c))
  BY <1>2, TpFacts DEF Inv8
<1>4. L(c)' = Append(L(c), e)
  BY <1>1, <1>3 DEF L, Inv8, Inv1, TypeOK
<1>5. q \in Nat /\ q \notin DOMAIN L(c) /\ Len(L(c)) \in Nat
  BY <1>3
<1>6. DOMAIN L(c)' = DOMAIN L(c) \union {q} /\ L(c)'[q] = e
  BY <1>3, <1>4, <1>5
<1>7. \A k \in DOMAIN L(c) : L(c)'[k] = L(c)[k] /\ k < q /\ k \in Nat
  BY <1>3, <1>4, <1>5
<1>8. /\ \A k : Tx(c, k)' <=> Tx(c, k) \/ k = q
      /\ \A k : Tx(c, k) => k < q /\ L(c)'[k] = L(c)[k]
      /\ Tx(c, q)'
  BY <1>5, <1>6, <1>7 DEF Tx
<1>9. pos[Tp(c)] < q /\ committed[Tp(c)] < q /\ (Busy(c) => W.off < q)
  <2>1. pos[Tp(c)] =< Len(L(c)) /\ committed[Tp(c)] =< Len(L(c)) /\ pos[Tp(c)] \in Nat /\ committed[Tp(c)] \in Nat
    BY <1>3, TpFacts DEF Inv8, OffsetsOK, L
  <2>2. ASSUME Busy(c)
        PROVE  W.off < q
    <3>1. W.off \in DOMAIN L(c)
      BY <2>2, HandlerFacts DEF Busy, Inv8, PlacesOK, W, L
    <3> QED
      BY <1>7, <3>1
  <2> QED
    BY <1>5, <2>1, <2>2
<1>10. ~Past(c, q) /\ ~On(c, q)
  <2>1. /\ ~(q =< pos[Tp(c)]) /\ ~(q =< committed[Tp(c)])
        /\ Busy(c) => ~(q =< W.off) /\ W.off # q
    <3>1. Busy(c) => W.off \in Nat
      BY HandlerFacts, TpFacts DEF Inv8, Inv1, TypeOK, W, WorkRecord
    <3>2. pos[Tp(c)] \in Nat /\ committed[Tp(c)] \in Nat
      BY TpFacts DEF Inv8
    <3>3. \A a, b \in Nat : a < b => ~(b =< a) /\ a # b
      OBVIOUS
    <3>4. q \in Nat
      BY <1>5
    <3> QED
      BY <1>9, <3>1, <3>2, <3>3, <3>4
  <2> QED
    BY <2>1 DEF Past, On
<1>11. \A tp \in TPs : \A k \in DOMAIN log[tp] : log[tp][k].msg # e.msg
  BY <1>2 DEF Inv8, FeedOK
<1>12. e.msg \notin dedup
  BY <1>11 DEF Inv8, PlacesOK
<1>13. \A s \in sessions : s.stop # e
  BY <1>11 DEF Inv8, PlacesOK
<1> QED
  BY <1>1, <1>5, <1>6, <1>8, <1>9, <1>10, <1>12, <1>13

LEMMA ArrivalBreaksNone ==
    ASSUME Inv8, OneInstance, NEW c \in Chargers, Produce,
           NEW e, e = Head(feed), IsTx(e), e.charger = c, NEW q, q = Len(L(c)) + 1
    PROVE  Broken(c)' \subseteq Broken(c)
<1>1. /\ UNCHANGED <<committed, pos, work, sessions, dedup, redis, used>>
      /\ q \in Nat /\ q \notin DOMAIN L(c) /\ Tx(c, q)' /\ L(c)'[q] = e
      /\ \A k : Tx(c, k)' <=> Tx(c, k) \/ k = q
      /\ \A k : Tx(c, k) => k < q /\ L(c)'[k] = L(c)[k]
      /\ ~Past(c, q) /\ ~On(c, q) /\ pos[Tp(c)] < q /\ e.msg \notin dedup
      /\ \A s \in sessions : s.stop # e
  BY ArrivesNew
<1>2. /\ \A k : Past(c, k)' <=> Past(c, k)
      /\ \A k : On(c, k)' <=> On(c, k)
      /\ TxSlot(c)' = TxSlot(c)
  BY <1>1 DEF Past, On, Busy, W, TxSlot
<1>3. /\ \A k : Tx(c, k) => k \in Nat /\ k \in DOMAIN L(c) /\ k # q
      /\ \A k : Tx(c, k)' => k \in DOMAIN L(c)'
  BY <1>1, TpFacts DEF Inv8, Tx
<1>4. \A k : Tx(c, k) => /\ StartAt(c, k)' <=> StartAt(c, k)
                         /\ StopAt(c, k)' <=> StopAt(c, k)
                         /\ Claimed(c, k)' <=> Claimed(c, k)
                         /\ HasSession(c, k)' <=> HasSession(c, k)
                         /\ Active(c, k)' <=> Active(c, k)
  <2> SUFFICES ASSUME NEW k, Tx(c, k)
               PROVE  /\ StartAt(c, k)' <=> StartAt(c, k)
                      /\ StopAt(c, k)' <=> StopAt(c, k)
                      /\ Claimed(c, k)' <=> Claimed(c, k)
                      /\ HasSession(c, k)' <=> HasSession(c, k)
                      /\ Active(c, k)' <=> Active(c, k)
    OBVIOUS
  <2>1. L(c)'[k] = L(c)[k] /\ (Tx(c, k)' <=> Tx(c, k))
    BY <1>1
  <2>2. /\ StartAt(c, k)' <=> StartAt(c, k)
        /\ StopAt(c, k)' <=> StopAt(c, k)
        /\ Claimed(c, k)' <=> Claimed(c, k)
        /\ HasSession(c, k)' <=> HasSession(c, k)
    BY <1>1, <2>1 DEF StartAt, StopAt, Claimed, HasSession
  <2> QED
    BY <1>1, <1>2, <2>2 DEF Active, W
<1>5. Fresh(c, q)' /\ ~HasSession(c, q)' /\ ~Active(c, q)'
  BY <1>1, <1>2 DEF Fresh, Claimed, HasSession, Active
<1> SUFFICES ASSUME NEW k, StartAt(c, k)', ~Safe(c, k)'
             PROVE  StartAt(c, k) /\ ~Safe(c, k)
  BY <1>3 DEF Broken, StartAt
<1>6. k # q
  <2> SUFFICES ASSUME k = q
               PROVE  FALSE
    OBVIOUS
  <2>1. Awaits(c, q)'
    <3> SUFFICES ASSUME NEW n, StopAt(c, n)', q < n
                 PROVE  FALSE
      BY DEF Awaits
    <3>1. n = q \/ (n \in Nat /\ n < q)
      BY <1>1, <1>3 DEF StopAt
    <3> QED
      BY <1>1, <3>1
  <2> QED
    BY <1>5, <2>1 DEF Safe, Coming
<1>7. StartAt(c, k) /\ Tx(c, k) /\ k \in Nat /\ k \in DOMAIN L(c) /\ L(c)'[k] = L(c)[k]
  BY <1>1, <1>3, <1>4, <1>6 DEF StartAt
<1> SUFFICES ASSUME Safe(c, k)
             PROVE  Safe(c, k)'
  BY <1>7
<1>8. ASSUME NEW n, Ends(c, k, n)
      PROVE  Ends(c, k, n)' /\ Tx(c, n) /\ n \in DOMAIN L(c)' /\ L(c)'[n] = L(c)[n]
  <2>1. Tx(c, n) /\ n < q /\ n \in Nat
    BY <1>1, <1>3, <1>8 DEF Ends, StopAt
  <2>2. ASSUME NEW x, StartAt(c, x)', k < x, x < n
        PROVE  FALSE
    <3>1. x # q
      BY <1>1, <2>1, <2>2
    <3>2. StartAt(c, x) /\ x \in DOMAIN L(c)
      BY <1>1, <1>3, <1>4, <2>2, <3>1 DEF StartAt
    <3> QED
      BY <1>8, <2>2, <3>2 DEF Ends
  <2>3. StartAt(c, k)' /\ StopAt(c, n)'
    BY <1>4, <1>8, <2>1 DEF Ends
  <2>4. Ends(c, k, n)'
    BY <1>8, <2>2, <2>3 DEF Ends
  <2> QED
    BY <1>1, <1>3, <2>1, <2>4
<1>9. Awaits(c, k) => Awaits(c, k)'
  <2> SUFFICES ASSUME Awaits(c, k), NEW n, StopAt(c, n)', k < n
               PROVE  Fresh(c, n)' /\ ~HasSession(c, n)'
    BY DEF Awaits
  <2>1. CASE n = q
    BY <1>5, <2>1
  <2>2. CASE n # q
    <3>1. Tx(c, n) /\ StopAt(c, n) /\ n \in DOMAIN L(c)
      BY <1>1, <1>3, <1>4, <2>2 DEF StopAt
    <3> QED
      BY <1>2, <1>4, <3>1 DEF Awaits, Fresh
  <2> QED
    BY <2>1, <2>2
<1>10. CASE Joined(c, k)
  BY <1>1, <1>7, <1>8, <1>10 DEF Joined, Safe
<1>11. CASE Coming(c, k)
  BY <1>2, <1>4, <1>7, <1>9, <1>11 DEF Coming, Fresh, Safe
<1>12. CASE Begun(c, k)
  <2>1. ~Returns(c, k)'
    <3> SUFFICES ASSUME Returns(c, k)'
                 PROVE  FALSE
      OBVIOUS
    <3>1. PICK x : Tx(c, x)' /\ pos[Tp(c)] < x /\ x < k /\ ~Claimed(c, x)'
      BY <1>1 DEF Returns
    <3>2. x # q
      BY <1>1, <1>7, <3>1
    <3>3. Tx(c, x) /\ x \in DOMAIN L(c) /\ ~Claimed(c, x)
      BY <1>1, <1>3, <1>4, <3>1, <3>2
    <3> QED
      BY <1>12, <3>1, <3>3 DEF Begun, Returns
  <2>2. CASE Writing(c, k)
    <3>1. Writing(c, k)'
      BY <1>1, <1>4, <1>7, <2>2 DEF Writing, W
    <3> QED
      BY <1>9, <1>12, <2>1, <3>1 DEF Begun, Safe
  <2>3. CASE TxSlot(c) = L(c)[k] /\ ~Threat(c, k)
    <3>1. ~Threat(c, k)'
      <4> SUFFICES ASSUME Threat(c, k)'
                   PROVE  FALSE
        OBVIOUS
      <4>1. PICK x : /\ Tx(c, x)' /\ x # k /\ Active(c, x)'
                     /\ ~(StopAt(c, x)' /\ W.pc = "pipe" /\ W.start = None)
        BY <1>1 DEF Threat, W
      <4>2. x # q
        BY <1>5, <4>1
      <4>3. Tx(c, x) /\ x \in DOMAIN L(c) /\ Active(c, x) /\ (StopAt(c, x)' <=> StopAt(c, x))
        BY <1>1, <1>3, <1>4, <4>1, <4>2
      <4> QED
        BY <2>3, <4>1, <4>3 DEF Threat
    <3> QED
      BY <1>2, <1>7, <1>9, <1>12, <2>1, <2>3, <3>1 DEF Begun, Safe
  <2> QED
    BY <1>12, <2>2, <2>3 DEF Begun
<1>13. CASE Ending(c, k)
  <2>1. PICK n \in DOMAIN L(c) :
           /\ Ends(c, k, n) /\ Active(c, n) /\ ~HasSession(c, n)
           /\ \/ W.pc \in {"dedup", "history", "read"} /\ TxSlot(c) = L(c)[k]
              \/ W.pc = "cdr" /\ W.start = L(c)[k]
    BY <1>13 DEF Ending
  <2>2. Ends(c, k, n)' /\ Active(c, n)' /\ ~HasSession(c, n)' /\ n \in DOMAIN L(c)'
    BY <1>4, <1>8, <2>1
  <2>3. W' = W
    BY <1>1 DEF W
  <2> QED
    BY <1>2, <1>7, <2>1, <2>2, <2>3 DEF Ending, Safe
<1> QED
  BY <1>10, <1>11, <1>12, <1>13 DEF Safe

-----------------------------------------------------------------------------
(* What a step costs                                                       *)

LEMMA SpendCounts ==
    ASSUME Inv1, NEW k \in Kinds \ {"any"}, Spend(k)
    PROVE  /\ used'["any"] = used["any"] + 1
           /\ used'["commit"] = IF k = "commit" THEN used["commit"] + 1 ELSE used["commit"]
BY DEF Inv1, TypeOK, Spend, Kinds

LEMMA UsedNat == Inv1 => used["any"] \in Nat /\ used["commit"] \in Nat
BY DEF Inv1, TypeOK, Kinds

\* A step without a failure breaks no transaction.
LEMMA AdvanceBreaksNone ==
    ASSUME Inv8, OneInstance, NEW c \in Chargers, NEW r \in Readers, Advance(r)
    PROVE  Broken(c)' \subseteq Broken(c) /\ used' = used
<1>1. used' = used
  BY DEF Advance, Fetch, Dedup, WriteHistory, ReadLatest, ReadStart, InsertCdr, PipeStep, Commit
<1>2. CASE Fetch(r)
  <2>1. PICK tp \in TPs : Fetched(r, tp)
    BY <1>2, FetchFacts DEF Inv8
  <2>2. CASE tp = Tp(c) /\ Tx(c, pos[tp] + 1)
    BY <1>1, <2>1, <2>2, FetchBreaksNone
  <2>3. CASE ~(tp = Tp(c) /\ Tx(c, pos[tp] + 1))
    BY <1>1, <2>1, <2>3, FetchAside, AsideBreaksNone
  <2> QED
    BY <2>2, <2>3
<1>3. CASE ~Fetch(r)
  <2>1. AtWork(r)
    BY <1>3 DEF Advance, AtWork
  <2>2. CASE ~(r = Handler /\ \E k : Tx(c, k) /\ On(c, k))
    BY <1>1, <2>1, <2>2, OtherAside, AsideBreaksNone
  <2>3. CASE r = Handler /\ \E k : Tx(c, k) /\ On(c, k)
    <3>1. PICK q : Tx(c, q) /\ On(c, q)
      BY <2>3
    <3>2. CASE Commit(r) \/ (Dedup(r) /\ Taken(work[r].ev))
      BY <1>1, <3>2, DoneAside, AsideBreaksNone
    <3>3. CASE Dedup(r) /\ ~Taken(work[r].ev)
      <4>1. W.pc = "dedup" /\ ~Claimed(c, q)
        BY <2>3, <3>1, <3>3, OwnFacts DEF Dedup, At, W, Taken, Claimed
      <4>2. Active(c, q)
        BY <3>1, <4>1 DEF Active
      <4> QED
        BY <1>1, <2>3, <3>1, <3>3, <4>2, OwnBreaksNone DEF OwnStep
    <3>4. CASE WriteHistory(r) \/ ReadStart(r) \/ InsertCdr(r) \/ PipeStep(r)
      <4>1. W.pc \notin {"dedup", "commit"}
        BY <2>3, <3>4 DEF WriteHistory, ReadStart, InsertCdr, PipeStep, At, W
      <4>2. Active(c, q)
        BY <3>1, <4>1 DEF Active
      <4> QED
        BY <1>1, <2>3, <3>1, <3>4, <4>2, OwnBreaksNone DEF OwnStep
    <3>5. CASE ReadLatest(r)
      <4>1. W.pc = "read" /\ W.ev.type # "StopTransaction"
        BY <2>3, <3>5 DEF ReadLatest, At, W
      <4>2. W.ev.type # "StartTransaction"
        BY <4>1, HandlerFacts DEF Inv8, PlacesOK, W
      <4> QED
        BY <3>1, <4>1, <4>2, OwnFacts DEF TxTypes
    <3> QED
      BY <1>3, <3>2, <3>3, <3>4, <3>5 DEF Advance
  <2> QED
    BY <2>2, <2>3
<1> QED
  BY <1>2, <1>3

\* A fault breaks one at most, and a commit that fails none.
CostsNone(c) == Broken(c)' \subseteq Broken(c) /\ Costs' = Costs
CostsOne(c)  == /\ \E x : Broken(c)' \subseteq Broken(c) \union {x}
                /\ Costs' = Costs + 1 /\ used'["any"] = used["any"] + 1

LEMMA FaultCosts ==
    ASSUME Inv8, OneInstance, NEW c \in Chargers, NEW r \in Readers, Fault(r)
    PROVE  CostsNone(c) \/ CostsOne(c)
<1>1. AtWork(r)
  BY DEF Fault, AtWork
<1>2. CASE CommitFails(r)
  <2>1. Broken(c)' \subseteq Broken(c)
    BY <1>2, DoneAside, AsideBreaksNone
  <2>2. Spend("commit")
    BY <1>2 DEF CommitFails
  <2>3. Costs' = Costs
    BY <2>2, SpendCounts, UsedNat DEF Inv8, Costs, Kinds
  <2> QED
    BY <2>1, <2>3 DEF CostsNone
<1>3. CASE ~CommitFails(r)
  <2>1. \E x : Broken(c)' \subseteq Broken(c) \union {x}
    BY <1>1, AtWorkQuiet, QuietBreaksOne
  <2>2. Spend("error") \/ Spend("retry") \/ Spend("read") \/ Spend("lookup")
    <3>1. CASE ReadFails(r)
      <4>1. Spend(ReadKind(work[r].ev))
        BY <3>1 DEF ReadFails
      <4> QED
        BY <4>1 DEF ReadKind
    <3>2. CASE ~ReadFails(r)
      BY <1>3, <3>2 DEF Fault, DedupFails, DedupRetried, HistoryFails, CdrFails, PipeFails, PipeRetried
    <3> QED
      BY <3>1, <3>2
  <2>3. used'["any"] = used["any"] + 1 /\ used'["commit"] = used["commit"]
    BY <2>2, SpendCounts DEF Inv8, Kinds
  <2>4. Costs' = Costs + 1
    BY <2>3, UsedNat DEF Inv8, Costs
  <2> QED
    BY <2>1, <2>3, <2>4 DEF CostsOne
<1> QED
  BY <1>2, <1>3

LEMMA StepCosts ==
    ASSUME Inv8, OneInstance, NEW c \in Chargers, [Next]_vars
    PROVE  CostsNone(c) \/ CostsOne(c)
<1>1. ASSUME NEW k \in {"crash", "rebalance", "ttl"}, Spend(k), Quiet(c)
      PROVE  CostsOne(c)
  <2>1. \E x : Broken(c)' \subseteq Broken(c) \union {x}
    BY <1>1, QuietBreaksOne
  <2>2. used'["any"] = used["any"] + 1 /\ used'["commit"] = used["commit"]
    BY <1>1, SpendCounts DEF Inv8, Kinds
  <2>3. Costs' = Costs + 1
    BY <2>2, UsedNat DEF Inv8, Costs
  <2> QED
    BY <2>1, <2>2, <2>3 DEF CostsOne
<1>2. ASSUME NEW r \in Readers, Advance(r) \/ Fault(r)
      PROVE  CostsNone(c) \/ CostsOne(c)
  BY <1>2, AdvanceBreaksNone, FaultCosts DEF CostsNone, Costs
<1>3. CASE Produce
  <2>1. used' = used /\ Head(feed) \in Events /\ Arrives(Head(feed))
    BY <1>3, ProduceArrives DEF Inv8, Produce
  <2>2. CASE IsTx(Head(feed)) /\ Head(feed).charger = c
    BY <1>3, <2>1, <2>2, ArrivalBreaksNone DEF CostsNone, Costs
  <2>3. CASE ~(IsTx(Head(feed)) /\ Head(feed).charger = c)
    BY <2>1, <2>3, ProduceAside, AsideBreaksNone DEF CostsNone, Costs
  <2> QED
    BY <2>2, <2>3
<1>4. ASSUME NEW i \in Instances, Crash(i)
      PROVE  CostsOne(c)
  BY <1>1, <1>4, CrashQuiet DEF Crash
<1>5. ASSUME NEW i \in Instances, NEW tp \in TPs, Rebalance(tp, i)
      PROVE  CostsOne(c)
  BY <1>1, <1>5, RebalanceQuiet DEF Rebalance
<1>6. ASSUME NEW m \in Msgs, DedupExpires(m)
      PROVE  CostsOne(c)
  BY <1>1, <1>6, ExpiryQuiet DEF DedupExpires
<1>7. ASSUME NEW d \in Chargers, TxExpires(d)
      PROVE  CostsOne(c)
  BY <1>1, <1>7, ExpiryQuiet DEF TxExpires
<1>8. CASE UNCHANGED vars
  BY <1>8, StutterAside, AsideBreaksNone DEF CostsNone, Costs, vars
<1> QED
  BY <1>2, <1>3, <1>4, <1>5, <1>6, <1>7, <1>8 DEF Next, Environment

LEMMA Inv9Init == ASSUME OneTransactionAtATime, NEW c \in Chargers PROVE Init => Inv9(c)
<1> SUFFICES ASSUME Init PROVE Inv9(c)
  OBVIOUS
<1>1. Inv8
  BY Inv8Init
<1>2. Broken(c) = {}
  <2>1. L(c) = <<>>
    BY <1>1, TpFacts DEF Init, L, Inv8
  <2> QED
    BY <2>1 DEF Broken
<1>3. used["any"] = 0 /\ used["commit"] = 0
  BY DEF Init, Kinds
<1> QED
  BY <1>1, <1>2, <1>3, FS_EmptySet DEF Inv9, Costs

LEMMA Inv9Step ==
    ASSUME OneInstance, NEW c \in Chargers
    PROVE  Inv9(c) /\ [Next]_vars => Inv9(c)'
<1> SUFFICES ASSUME Inv9(c), [Next]_vars PROVE Inv9(c)'
  OBVIOUS
<1>1. Inv8 /\ Inv8' /\ used["any"] \in Nat /\ Costs \in Nat
      /\ IsFiniteSet(Broken(c)) /\ Cardinality(Broken(c)) =< Costs /\ Cardinality(Broken(c)) \in Nat
  BY Inv8Step, FS_CardinalityType DEF Inv9
<1>2. used'["any"] \in Nat
  BY <1>1, UsedNat DEF Inv8, Inv1, TypeOK, Kinds
<1>3. CASE CostsNone(c)
  <2>1. IsFiniteSet(Broken(c)') /\ Cardinality(Broken(c)') =< Cardinality(Broken(c))
    BY <1>1, <1>3, FS_Subset DEF CostsNone
  <2>2. Cardinality(Broken(c)') \in Nat
    BY <2>1, FS_CardinalityType
  <2> QED
    BY <1>1, <1>2, <1>3, <2>1, <2>2 DEF CostsNone, Inv9
<1>4. CASE CostsOne(c)
  <2>1. PICK x : Broken(c)' \subseteq Broken(c) \union {x}
    BY <1>4 DEF CostsOne
  <2>2. /\ IsFiniteSet(Broken(c) \union {x})
        /\ Cardinality(Broken(c) \union {x}) =< Cardinality(Broken(c)) + 1
        /\ Cardinality(Broken(c) \union {x}) \in Nat
    <3>1. /\ IsFiniteSet(Broken(c) \union {x})
          /\ \/ Cardinality(Broken(c) \union {x}) = Cardinality(Broken(c))
             \/ Cardinality(Broken(c) \union {x}) = Cardinality(Broken(c)) + 1
      BY <1>1, FS_AddElement
    <3> QED
      BY <1>1, <3>1
  <2>3. IsFiniteSet(Broken(c)') /\ Cardinality(Broken(c)') =< Cardinality(Broken(c) \union {x})
    BY <2>1, <2>2, FS_Subset
  <2>4. Cardinality(Broken(c)') \in Nat
    BY <2>3, FS_CardinalityType
  <2> QED
    BY <1>1, <1>2, <1>4, <2>2, <2>3, <2>4 DEF CostsOne, Inv9
<1> QED
  BY <1>1, <1>3, <1>4, StepCosts

\* A stop that ends a start with offset j, and got no session, breaks j.
Lacks(c, e, j) == \E k \in DOMAIN L(c) : Ends(c, j, k) /\ L(c)[k] = e

LEMMA PairsEnds ==
    ASSUME Inv8, NEW c \in Chargers, NEW e \in Events, e.charger = c, e.type = "StopTransaction",
           NEW start, Pairs(start, e)
    PROVE  \E k \in DOMAIN L(c) : \E j \in DOMAIN L(c) :
              Ends(c, j, k) /\ L(c)[k] = e /\ L(c)[j] = start
<1>1. TpOf(e) = Tp(c) /\ L(c) \in Seq(Events) /\ DOMAIN L(c) = 1..Len(L(c))
  BY TpFacts DEF Inv8, IsTx, TxTypes
<1>2. PICK k \in DOMAIN L(c) : \E j \in 1..(k - 1) :
         /\ L(c)[k] = e
         /\ L(c)[j] = start /\ StartsFor(start, c)
         /\ \A x \in (j + 1)..(k - 1) : ~StartsFor(L(c)[x], c)
  BY <1>1 DEF Pairs, L
<1>3. PICK j \in 1..(k - 1) :
         /\ L(c)[k] = e
         /\ L(c)[j] = start /\ StartsFor(start, c)
         /\ \A x \in (j + 1)..(k - 1) : ~StartsFor(L(c)[x], c)
  BY <1>2
<1>4. Len(L(c)) \in Nat
  BY <1>1
<1>5. j \in DOMAIN L(c) /\ j < k
  BY <1>1, <1>4
<1>6. \A x \in DOMAIN L(c) : j < x /\ x < k => x \in (j + 1)..(k - 1)
  BY <1>1, <1>4
<1>7. StartAt(c, j) /\ StopAt(c, k)
  BY <1>3, <1>5 DEF StartAt, StopAt, Tx, IsTx, TxTypes, StartsFor
<1>8. \A x \in DOMAIN L(c) : j < x /\ x < k => ~StartAt(c, x)
  BY <1>3, <1>6 DEF StartAt, Tx, StartsFor
<1> QED
  BY <1>3, <1>5, <1>7, <1>8 DEF Ends

LEMMA MissingIsBroken ==
    ASSUME Inv8, OneInstance, NEW c \in Chargers, NEW e \in MissingSessions(c)
    PROVE  \E j \in Broken(c) : Lacks(c, e, j)
<1>1. PICK start \in Events : Pairs(start, e) /\ [stop |-> e, start |-> start] \notin sessions
  BY DEF MissingSessions
<1>2. /\ e \in Events /\ e.charger = c /\ e.type = "StopTransaction" /\ Handled(e)
  BY DEF MissingSessions
<1>3. PICK k \in DOMAIN L(c), j \in DOMAIN L(c) : Ends(c, j, k) /\ L(c)[k] = e /\ L(c)[j] = start
  BY <1>1, <1>2, PairsEnds
<1>4. Past(c, k) /\ ~BeingHandled(e)
  <2>1. TpOf(e) = Tp(c)
    BY <1>2, TpFacts DEF Inv8, IsTx, TxTypes
  <2>2. PICK x \in Passed(Tp(c)) : L(c)[x] = e
    BY <1>2, <2>1 DEF Handled, L
  <2>3. x = k
    BY <1>3, <2>2, TxIds, TpFacts DEF Inv8, Passed, Ends, StopAt, L
  <2> QED
    BY <1>2, <2>2, <2>3 DEF Handled, Passed, Past
<1>5. ~Joined(c, j)
  <2> SUFFICES ASSUME NEW n \in DOMAIN L(c), Ends(c, j, n),
                      [stop |-> L(c)[n], start |-> L(c)[j]] \in sessions
               PROVE  FALSE
    BY DEF Joined
  <2>1. n = k
    BY <1>3, EndsOnce
  <2> QED
    BY <1>1, <1>3, <2>1
<1>6. ~Awaits(c, j)
  BY <1>3, <1>4 DEF Awaits, Fresh, Ends
<1>7. ~Ending(c, j)
  <2> SUFFICES ASSUME NEW n \in DOMAIN L(c), Ends(c, j, n), Active(c, n)
               PROVE  FALSE
    BY DEF Ending
  <2>1. n = k /\ On(c, n)
    BY <1>3, EndsOnce DEF Active
  <2>2. W.ev = e /\ Handler \in Readers
    BY <1>3, <2>1, OnOwn, HandlerFacts
  <2> QED
    BY <1>4, <2>2 DEF BeingHandled, W
<1>8. j \in Broken(c)
  BY <1>3, <1>5, <1>6, <1>7 DEF Broken, Safe, Coming, Begun, Ends
<1> QED
  BY <1>3, <1>8 DEF Lacks

LEMMA MissingBound ==
    ASSUME OneInstance, NEW c \in Chargers, Inv9(c)
    PROVE  Cardinality(MissingSessions(c)) =< used["any"] - used["commit"]
<1> DEFINE f == [e \in MissingSessions(c) |-> CHOOSE j \in Broken(c) : Lacks(c, e, j)]
<1>1. Inv8 /\ IsFiniteSet(Broken(c)) /\ Cardinality(Broken(c)) =< Costs /\ Costs \in Nat
  BY DEF Inv9
<1>2. \A e \in MissingSessions(c) : f[e] \in Broken(c) /\ Lacks(c, e, f[e])
  BY <1>1, MissingIsBroken
<1>3. \A d, e \in MissingSessions(c) : f[d] = f[e] => d = e
  <2> SUFFICES ASSUME NEW d \in MissingSessions(c), NEW e \in MissingSessions(c), f[d] = f[e]
               PROVE  d = e
    OBVIOUS
  <2>1. PICK k : Ends(c, f[d], k) /\ L(c)[k] = d
    BY <1>2 DEF Lacks
  <2>2. PICK n : Ends(c, f[d], n) /\ L(c)[n] = e
    BY <1>2 DEF Lacks
  <2>3. k = n
    BY <1>1, <2>1, <2>2, EndsOnce
  <2> QED
    BY <2>1, <2>2, <2>3
<1>4. f \in Injection(MissingSessions(c), Broken(c))
  <2>1. f \in [MissingSessions(c) -> Broken(c)]
    BY <1>2
  <2> QED
    BY <1>3, <2>1 DEF Injection, IsInjective
<1> HIDE DEF f
<1>5. IsFiniteSet(MissingSessions(c)) /\ Cardinality(MissingSessions(c)) =< Cardinality(Broken(c))
  BY <1>1, <1>4, FS_Injection
<1>6. Cardinality(MissingSessions(c)) \in Nat /\ Cardinality(Broken(c)) \in Nat
  BY <1>1, <1>5, FS_CardinalityType
<1> QED
  BY <1>1, <1>5, <1>6 DEF Costs

\* With one instance, and chargers that have one transaction at a time, a fault
\* costs each charger one session at most, and a commit that fails none
\* (SessionLossBounded).
THEOREM SessionLossIsBounded ==
    ASSUME OneInstance, OneTransactionAtATime
    PROVE  Spec => []SessionLossBounded
<1> DEFINE I == \A c \in Chargers : Inv9(c)
<1>1. Init => I
  BY Inv9Init
<1>2. I /\ [Next]_vars => I'
  BY Inv9Step
<1>3. I => SessionLossBounded
  BY MissingBound DEF SessionLossBounded
<1> QED
  BY <1>1, <1>2, <1>3, PTL DEF Spec

-----------------------------------------------------------------------------
(* One fault at most: steps that do not fail                               *)

LEMMA PosNat ==
    ASSUME Inv8, Inv8', NEW c \in Chargers
    PROVE  pos[Tp(c)] \in Nat /\ pos'[Tp(c)] \in Nat
BY TpFacts DEF Inv8, Inv1, TypeOK

\* What a step aside leaves as it was
LEMMA AsideFacts ==
    ASSUME Inv8, Inv8', NEW c \in Chargers, Aside(c)
    PROVE  /\ SameTx(c) /\ TxSlot(c)' = TxSlot(c)
           /\ \A k : /\ Tx(c, k)' <=> Tx(c, k)
                     /\ StartAt(c, k)' <=> StartAt(c, k)
                     /\ StopAt(c, k)' <=> StopAt(c, k)
           /\ \A j, k : Ends(c, j, k)' <=> Ends(c, j, k)
           /\ \A k : StartAt(c, k) \/ StopAt(c, k) => Tx(c, k)
           /\ \A k : Tx(c, k) => /\ k \in DOMAIN L(c) /\ k \in DOMAIN L(c)'
                                 /\ L(c)'[k] = L(c)[k] /\ k \in Nat
                                 /\ pos'[Tp(c)] < k <=> pos[Tp(c)] < k
                                 /\ k =< pos'[Tp(c)] <=> k =< pos[Tp(c)]
                                 /\ Claimed(c, k)' <=> Claimed(c, k)
                                 /\ Active(c, k)' <=> Active(c, k)
                                 /\ Active(c, k) => W' = W
                                 /\ On(c, k)' => On(c, k) /\ (W' = W \/ W'.pc = "commit")
<1>1. /\ SameTx(c) /\ TxSlot(c)' = TxSlot(c)
      /\ \A k : StartAt(c, k)' <=> StartAt(c, k)
      /\ \A k : StopAt(c, k)' <=> StopAt(c, k)
      /\ \A j, k : Ends(c, j, k)' <=> Ends(c, j, k)
  BY SameTxFacts DEF Aside, Quiet
<1>2. \A k : Tx(c, k)' <=> Tx(c, k)
  BY <1>1 DEF SameTx
<1>3. \A k : Tx(c, k) => /\ k \in DOMAIN L(c) /\ k \in DOMAIN L(c)' /\ L(c)'[k] = L(c)[k]
                         /\ k \in Nat
  <2> SUFFICES ASSUME NEW k, Tx(c, k)
               PROVE  /\ k \in DOMAIN L(c) /\ k \in DOMAIN L(c)' /\ L(c)'[k] = L(c)[k]
                      /\ k \in Nat
    OBVIOUS
  <2>1. Tx(c, k)'
    BY <1>2
  <2>2. k \in DOMAIN L(c)'
    BY <2>1 DEF Tx
  <2> QED
    BY <1>1, <2>2, TpFacts DEF SameTx, Tx, Inv8
<1>4. \A k : Tx(c, k) => (k =< pos'[Tp(c)] <=> k =< pos[Tp(c)])
  BY <1>3, PosNat DEF Aside
<1>5. \A k : StartAt(c, k) \/ StopAt(c, k) => Tx(c, k)
  BY DEF StartAt, StopAt
<1> QED
  BY <1>1, <1>2, <1>3, <1>4, <1>5 DEF Aside

LEMMA AsideKeepsOneFault ==
    ASSUME Inv8, Inv8', NEW c \in Chargers, Aside(c), OneFault(c)
    PROVE  OneFault(c)'
<1>1. NoGap(c)'
  <2> SUFFICES ASSUME NEW j, NEW k, Tx(c, j)', Tx(c, k)', pos'[Tp(c)] < j, j < k,
                      Claimed(c, k)' \/ On(c, k)'
               PROVE  Claimed(c, j)'
    BY DEF NoGap
  <2> QED
    BY AsideFacts DEF OneFault, NoGap
<1>2. NoneAhead(c)'
  <2> SUFFICES ASSUME NEW j, NEW k, Tx(c, j)', Tx(c, k)', Active(c, j)', j < k
               PROVE  pos'[Tp(c)] < k /\ ~Claimed(c, k)'
    BY DEF NoneAhead
  <2> QED
    BY AsideFacts DEF OneFault, NoneAhead
<1>3. SlotNewest(c)'
  <2> SUFFICES ASSUME TxSlot(c)' # None
               PROVE  \E j \in DOMAIN L(c)' :
                         /\ StartAt(c, j)' /\ TxSlot(c)' = L(c)'[j]
                         /\ j =< pos'[Tp(c)] \/ Claimed(c, j)'
                         /\ \A k \in DOMAIN L(c)' : StartAt(c, k)' /\ j < k /\ Seen(c, k)' => Writing(c, k)'
    BY DEF SlotNewest
  <2>1. PICK j \in DOMAIN L(c) :
           /\ StartAt(c, j) /\ TxSlot(c) = L(c)[j]
           /\ j =< pos[Tp(c)] \/ Claimed(c, j)
           /\ \A k \in DOMAIN L(c) : StartAt(c, k) /\ j < k /\ Seen(c, k) => Writing(c, k)
    BY AsideFacts DEF OneFault, SlotNewest
  <2>2. ASSUME NEW k, StartAt(c, k)', j < k, Seen(c, k)'
        PROVE  Writing(c, k)'
    <3>1. StartAt(c, k) /\ Tx(c, k) /\ k \in DOMAIN L(c)
      BY <2>2, AsideFacts
    <3>2. Seen(c, k)
      BY <2>2, <3>1, AsideFacts DEF Seen
    <3>3. Writing(c, k)
      BY <2>1, <2>2, <3>1, <3>2
    <3>4. Active(c, k)' /\ W' = W
      BY <3>1, <3>3, AsideFacts DEF Writing
    <3> QED
      BY <3>3, <3>4 DEF Writing
  <2> QED
    BY <2>1, <2>2, AsideFacts
<1>4. ReadsOwn(c)'
  <2> SUFFICES ASSUME NEW k, StopAt(c, k)', On(c, k)', W'.pc = "cdr"
               PROVE  \E j \in DOMAIN L(c)' : Ends(c, j, k)' /\ W'.start = L(c)'[j]
    BY DEF ReadsOwn
  <2>1. StopAt(c, k) /\ Tx(c, k) /\ On(c, k) /\ W' = W /\ k \in DOMAIN L(c)
    BY AsideFacts
  <2>2. PICK j \in DOMAIN L(c) : Ends(c, j, k) /\ W.start = L(c)[j]
    BY <2>1 DEF OneFault, ReadsOwn
  <2>3. Tx(c, j)
    BY <2>2 DEF Ends, StartAt
  <2> QED
    BY <2>1, <2>2, <2>3, AsideFacts
<1>5. Counted(c)'
  <2> SUFFICES ASSUME NEW k, Tx(c, k)', On(c, k)', W'.pc # "dedup"
               PROVE  k =< pos'[Tp(c)] \/ Claimed(c, k)'
    BY DEF Counted
  <2>1. Tx(c, k) /\ On(c, k) /\ k \in DOMAIN L(c)
    BY AsideFacts
  <2>2. CASE W' = W
    BY <2>1, <2>2, AsideFacts DEF OneFault, Counted
  <2>3. CASE W' # W
    <3>1. ~Active(c, k)
      BY <2>1, <2>3, AsideFacts
    <3>2. W.pc = "commit" \/ Claimed(c, k)
      BY <2>1, <3>1 DEF Active
    <3> QED
      BY <2>1, <3>2, AsideFacts DEF OneFault, Counted
  <2> QED
    BY <2>2, <2>3
<1> QED
  BY <1>1, <1>2, <1>3, <1>4, <1>5 DEF OneFault

\* A step of the handler's at q, put in terms of what it changes
LEMMA OwnChange ==
    ASSUME Inv8, OneInstance, NEW c \in Chargers, NEW q, Tx(c, q), Active(c, q), OwnStep
    PROVE  /\ UNCHANGED kafka /\ W'.ev = W.ev /\ W'.off = W.off /\ W'.pc \notin {"idle", "dedup"}
           /\ \A k : Tx(c, k) => (Claimed(c, k)' <=> Claimed(c, k) \/ (k = q /\ Dedup(Handler)))
           /\ ~Dedup(Handler) => W.pc # "dedup"
           /\ W'.pc = "cdr" => /\ ReadStart(Handler) /\ W.pc = "read" /\ StopAt(c, q)
                               /\ TxSlot(c) # None /\ W'.start = TxSlot(c)
           /\ \/ TxSlot(c)' = TxSlot(c)
              \/ PipeStep(Handler) /\ W.pc = "pipe" /\ StartAt(c, q) /\ W.n = 3 /\ TxSlot(c)' = L(c)[q]
              \/ TxSlot(c)' = None
           /\ W.pc = "pipe" /\ StartAt(c, q) /\ W.n < 3 => W'.pc = "pipe" /\ W'.n = W.n + 1
           /\ W.pc = "pipe" /\ StartAt(c, q) /\ W.n = 3 => TxSlot(c)' = L(c)[q]
           /\ W.pc # "pipe" /\ StartAt(c, q) => (W'.pc = "pipe" => W'.n = 1)
           /\ StartAt(c, q) => W.n \in Nat
<1>0. /\ On(c, q) /\ W \in WorkRecord /\ W.ev = L(c)[q] /\ (StartAt(c, q) <=> ~StopAt(c, q))
      /\ W.n \in Nat /\ q \in DOMAIN L(c)
      /\ \A k : Tx(c, k) /\ L(c)[k].msg = L(c)[q].msg => k = q
  <2>1. /\ On(c, q) /\ W \in WorkRecord /\ W.ev = L(c)[q] /\ (StartAt(c, q) <=> ~StopAt(c, q))
        /\ q \in DOMAIN L(c)
    BY OwnFacts DEF Active
  <2>2. W.n \in Nat
    BY <2>1 DEF WorkRecord
  <2>3. \A k : Tx(c, k) /\ L(c)[k].msg = L(c)[q].msg => k = q
    BY TxIds, TpFacts DEF Inv8, Tx, L
  <2> QED
    BY <2>1, <2>2, <2>3
<1>1. CASE Dedup(Handler)
  <2>1. W.pc = "dedup" /\ ~Claimed(c, q)
    BY <1>0, <1>1 DEF Active, Dedup, At, W
  <2>2. /\ W' = [W EXCEPT !.pc = "history"]
        /\ dedup' = dedup \union {L(c)[q].msg} /\ UNCHANGED <<kafka, redis>>
    BY <1>0, <1>1, <2>1, OwnDedup
  <2>3. W'.pc = "history" /\ W'.ev = W.ev /\ W'.off = W.off /\ L(c)' = L(c)
    BY <1>0, <2>2 DEF WorkRecord, L, kafka
  <2>4. \A k : Tx(c, k) => (Claimed(c, k)' <=> Claimed(c, k) \/ k = q)
    BY <1>0, <2>2, <2>3 DEF Claimed
  <2> QED
    BY <1>0, <1>1, <2>1, <2>2, <2>3, <2>4 DEF TxSlot
<1>2. CASE WriteHistory(Handler)
  <2>1. /\ W.pc = "history" /\ UNCHANGED <<kafka, dedup, redis>>
        /\ W' = IF StartAt(c, q) THEN [W EXCEPT !.pc = "pipe", !.n = 1] ELSE [W EXCEPT !.pc = "read"]
    BY <1>0, <1>2, OwnHistory
  <2>2. W'.pc \in {"pipe", "read"} /\ W'.ev = W.ev /\ W'.off = W.off /\ L(c)' = L(c) /\ TxSlot(c)' = TxSlot(c)
        /\ (StartAt(c, q) => W'.n = 1)
    BY <1>0, <2>1 DEF WorkRecord, L, kafka, TxSlot
  <2>3. ~Dedup(Handler) /\ ~PipeStep(Handler)
    BY <2>1 DEF Dedup, PipeStep, At, W
  <2>4. \A k : Claimed(c, k)' <=> Claimed(c, k)
    BY <2>1, <2>2 DEF Claimed
  <2> QED
    BY <1>0, <2>1, <2>2, <2>3, <2>4
<1>3. CASE ReadStart(Handler)
  <2>1. /\ W.pc = "read" /\ StopAt(c, q) /\ UNCHANGED <<kafka, dedup, redis>>
        /\ W' = [W EXCEPT !.pc = IF TxSlot(c) = None THEN "pipe" ELSE "cdr", !.start = TxSlot(c), !.n = 1]
    BY <1>0, <1>3, OwnRead
  <2>2. W'.pc = (IF TxSlot(c) = None THEN "pipe" ELSE "cdr") /\ W'.start = TxSlot(c)
        /\ W'.ev = W.ev /\ W'.off = W.off /\ L(c)' = L(c) /\ TxSlot(c)' = TxSlot(c)
    BY <1>0, <2>1 DEF WorkRecord, L, kafka, TxSlot
  <2>3. ~Dedup(Handler)
    BY <2>1 DEF Dedup, At, W
  <2>4. \A k : Claimed(c, k)' <=> Claimed(c, k)
    BY <2>1, <2>2 DEF Claimed
  <2> QED
    BY <1>0, <1>3, <2>1, <2>2, <2>3, <2>4
<1>4. CASE InsertCdr(Handler)
  <2>1. /\ W.pc = "cdr" /\ StopAt(c, q) /\ UNCHANGED <<kafka, dedup, redis>>
        /\ W' = [W EXCEPT !.pc = "pipe"]
    BY <1>0, <1>4, OwnInsert
  <2>2. W'.pc = "pipe" /\ W'.ev = W.ev /\ W'.off = W.off /\ L(c)' = L(c) /\ TxSlot(c)' = TxSlot(c)
    BY <1>0, <2>1 DEF WorkRecord, L, kafka, TxSlot
  <2>3. ~Dedup(Handler)
    BY <2>1 DEF Dedup, At, W
  <2>4. \A k : Claimed(c, k)' <=> Claimed(c, k)
    BY <2>1, <2>2 DEF Claimed
  <2> QED
    BY <1>0, <2>1, <2>2, <2>3, <2>4
<1>5. CASE PipeStep(Handler)
  <2>1. /\ W.pc = "pipe" /\ W.n \in Nat
        /\ W'.ev = W.ev /\ W'.off = W.off
        /\ \/ W'.pc = "pipe" /\ W'.n = W.n + 1
           \/ W'.pc = "commit" /\ W.n >= 3 /\ (StartAt(c, q) => W.n = 6)
        /\ TxSlot(c)' = IF StartAt(c, q) THEN IF W.n = 3 THEN L(c)[q] ELSE TxSlot(c)
                        ELSE IF W.start # None /\ W.n = 2 THEN None ELSE TxSlot(c)
        /\ UNCHANGED <<kafka, dedup>>
    BY <1>0, <1>5, OwnPipe
  <2>2. L(c)' = L(c)
    BY <2>1 DEF L, kafka
  <2>3. ~Dedup(Handler)
    BY <2>1 DEF Dedup, At, W
  <2>4. \A k : Claimed(c, k)' <=> Claimed(c, k)
    BY <2>1, <2>2 DEF Claimed
  <2> QED
    BY <1>0, <1>5, <2>1, <2>2, <2>3, <2>4
<1> QED
  BY <1>1, <1>2, <1>3, <1>4, <1>5 DEF OwnStep

LEMMA OwnKeepsOneFault ==
    ASSUME Inv8, OneInstance, NEW c \in Chargers, NEW q, Tx(c, q), Active(c, q), OwnStep,
           OneFault(c)
    PROVE  OneFault(c)'
<1>0. /\ On(c, q) /\ W \in WorkRecord /\ (StartAt(c, q) <=> ~StopAt(c, q))
      /\ q \in DOMAIN L(c) /\ q \in Nat /\ pos[Tp(c)] \in Nat
  BY OwnFacts, TpFacts DEF Active, Inv8
<1>1. /\ L(c)' = L(c) /\ pos' = pos
      /\ \A k : On(c, k)' <=> On(c, k)
      /\ \A k : k # q => ~On(c, k)
      /\ On(c, q)'
  BY <1>0, OwnChange, OwnPlace
<1>2. /\ \A k : Tx(c, k)' <=> Tx(c, k)
      /\ \A k : StartAt(c, k)' <=> StartAt(c, k)
      /\ \A k : StopAt(c, k)' <=> StopAt(c, k)
      /\ \A j, k : Ends(c, j, k)' <=> Ends(c, j, k)
      /\ \A k : StartAt(c, k) \/ StopAt(c, k) => Tx(c, k)
      /\ \A k : Tx(c, k) => k \in Nat /\ k \in DOMAIN L(c)
  <2>1. SameTx(c)
    BY <1>1 DEF SameTx, Tx
  <2> QED
    BY <1>1, <2>1, SameTxFacts, TpFacts DEF SameTx, Tx, StartAt, StopAt, Inv8
<1>3. \A k : Tx(c, k) => /\ Claimed(c, k) => Claimed(c, k)'
                         /\ Claimed(c, k)' => Claimed(c, k) \/ k = q
  BY OwnChange
<1>4. \A k : Active(c, k)' => k = q
  BY <1>1 DEF Active
<1>5. NoGap(c)'
  <2> SUFFICES ASSUME NEW j, NEW k, Tx(c, j)', Tx(c, k)', pos'[Tp(c)] < j, j < k,
                      Claimed(c, k)' \/ On(c, k)'
               PROVE  Claimed(c, j)'
    BY DEF NoGap
  <2>1. Claimed(c, k) \/ On(c, k)
    BY <1>0, <1>1, <1>2, <1>3
  <2> QED
    BY <1>1, <1>2, <1>3, <2>1 DEF OneFault, NoGap
<1>6. NoneAhead(c)'
  <2> SUFFICES ASSUME NEW j, NEW k, Tx(c, j)', Tx(c, k)', Active(c, j)', j < k
               PROVE  pos'[Tp(c)] < k /\ ~Claimed(c, k)'
    BY DEF NoneAhead
  <2>1. j = q /\ k # q
    BY <1>0, <1>2, <1>4
  <2> QED
    BY <1>1, <1>2, <1>3, <2>1 DEF OneFault, NoneAhead
<1>7. ASSUME NEW j, NEW k, StartAt(c, j), Tx(c, j), Tx(c, k), q < k
      PROVE  ~Seen(c, k) /\ pos[Tp(c)] < k /\ ~Claimed(c, k)
  <2>1. pos[Tp(c)] < k /\ ~Claimed(c, k)
    BY <1>0, <1>2, <1>7 DEF OneFault, NoneAhead
  <2>2. ~On(c, k) /\ ~(k =< pos[Tp(c)])
    BY <1>0, <1>1, <1>2, <1>7, <2>1
  <2> QED
    BY <2>1, <2>2 DEF Seen
<1>8. \A k : Tx(c, k) => (Seen(c, k)' <=> Seen(c, k))
  BY <1>0, <1>1, <1>3 DEF Seen
<1>9. SlotNewest(c)'
  <2> SUFFICES ASSUME TxSlot(c)' # None
               PROVE  \E j \in DOMAIN L(c) :
                         /\ StartAt(c, j) /\ TxSlot(c)' = L(c)[j]
                         /\ j =< pos[Tp(c)] \/ Claimed(c, j)'
                         /\ \A k \in DOMAIN L(c) : StartAt(c, k) /\ j < k /\ Seen(c, k) => Writing(c, k)'
    BY <1>1, <1>2, <1>8 DEF SlotNewest
  <2>1. CASE PipeStep(Handler) /\ W.pc = "pipe" /\ StartAt(c, q) /\ W.n = 3
    <3>1. TxSlot(c)' = L(c)[q]
      BY <2>1, OwnChange
    <3>2. q =< pos[Tp(c)] \/ Claimed(c, q)
      BY <1>0, <2>1 DEF OneFault, Counted
    <3>3. \A k : StartAt(c, k) /\ q < k => ~Seen(c, k)
      BY <1>2, <1>7, <2>1
    <3> QED
      BY <1>0, <1>3, <2>1, <3>1, <3>2, <3>3
  <2>2. CASE ~(PipeStep(Handler) /\ W.pc = "pipe" /\ StartAt(c, q) /\ W.n = 3)
    <3>1. TxSlot(c)' = TxSlot(c)
      BY <2>2, OwnChange
    <3>2. PICK j \in DOMAIN L(c) :
             /\ StartAt(c, j) /\ TxSlot(c) = L(c)[j]
             /\ j =< pos[Tp(c)] \/ Claimed(c, j)
             /\ \A k \in DOMAIN L(c) : StartAt(c, k) /\ j < k /\ Seen(c, k) => Writing(c, k)
      BY <3>1 DEF OneFault, SlotNewest
    <3>3. ASSUME NEW k, StartAt(c, k), j < k, Writing(c, k)
          PROVE  Writing(c, k)'
      <4>1. k = q /\ StartAt(c, q)
        BY <1>1, <3>3 DEF Writing, Active
      <4>2. W'.pc = "pipe" => W'.n =< 3
        <5>1. CASE W.pc = "pipe"
          <6>1. W.n \in Nat /\ W.n < 3
            <7>1. W.n \in Nat /\ W.n =< 3
              BY <3>3, <4>1, <5>1, OwnChange DEF Writing
            <7>2. W.n # 3
              BY <2>2, <4>1, <5>1 DEF OwnStep, Dedup, WriteHistory, ReadStart, InsertCdr, At, W
            <7> QED
              BY <7>1, <7>2
          <6>2. W'.n = W.n + 1
            BY <4>1, <5>1, <6>1, OwnChange
          <6> QED
            BY <6>1, <6>2
        <5>2. CASE W.pc # "pipe"
          BY <4>1, <5>2, OwnChange
        <5> QED
          BY <5>1, <5>2
      <4>3. W'.pc # "commit"
        <5>1. CASE W.pc = "pipe"
          <6>1. PipeStep(Handler) /\ W.n =< 3 /\ W.n \in Nat
            BY <3>3, <4>1, <5>1, OwnChange DEF Writing, OwnStep, Dedup, WriteHistory, ReadStart, InsertCdr, At, W
          <6>2. W'.pc = "commit" => W.n = 6
            BY <1>0, <4>1, <6>1, OwnPipe
          <6> QED
            BY <6>1, <6>2
        <5>2. CASE W.pc # "pipe"
          <6>1. Dedup(Handler) \/ WriteHistory(Handler)
            BY <1>0, <4>1, <5>2, OwnRead, OwnInsert DEF OwnStep, PipeStep, At, W
          <6>2. W'.pc \in {"history", "pipe"}
            <7>1. CASE Dedup(Handler)
              <8>1. W.pc = "dedup" /\ ~Claimed(c, q)
                BY <1>0, <7>1 DEF Active, Dedup, At, W
              <8> QED
                BY <1>0, <7>1, <8>1, OwnDedup DEF WorkRecord
            <7>2. CASE WriteHistory(Handler)
              BY <1>0, <4>1, <7>2, OwnHistory DEF WorkRecord
            <7> QED
              BY <6>1, <7>1, <7>2
          <6> QED
            BY <6>2
        <5> QED
          BY <5>1, <5>2
      <4>4. Active(c, q)'
        BY <1>1, <4>3, OwnChange DEF Active
      <4> QED
        BY <4>1, <4>2, <4>4 DEF Writing
    <3> QED
      BY <1>2, <1>3, <3>1, <3>2, <3>3
  <2> QED
    BY <2>1, <2>2
<1>10. ReadsOwn(c)'
  <2> SUFFICES ASSUME NEW k, StopAt(c, k)', On(c, k)', W'.pc = "cdr"
               PROVE  \E j \in DOMAIN L(c) : Ends(c, j, k)' /\ W'.start = L(c)[j]
    BY <1>1 DEF ReadsOwn
  <2>1. k = q /\ W.pc = "read" /\ StopAt(c, q) /\ TxSlot(c) # None /\ W'.start = TxSlot(c)
    BY <1>1, OwnChange
  <2>2. PICK j \in DOMAIN L(c) :
           /\ StartAt(c, j) /\ TxSlot(c) = L(c)[j]
           /\ j =< pos[Tp(c)] \/ Claimed(c, j)
           /\ \A x \in DOMAIN L(c) : StartAt(c, x) /\ j < x /\ Seen(c, x) => Writing(c, x)
    BY <2>1 DEF OneFault, SlotNewest
  <2>3. j < q
    <3>1. j # q
      BY <1>0, <2>1, <2>2
    <3>2. ~(q < j)
      BY <1>0, <1>2, <1>7, <2>2 DEF Seen
    <3> QED
      BY <1>0, <1>2, <2>2, <3>1, <3>2
  <2>4. ASSUME NEW x \in DOMAIN L(c), j < x, x < q, StartAt(c, x)
        PROVE  FALSE
    <3>1. Seen(c, x)
      <4>1. CASE pos[Tp(c)] < x
        BY <1>0, <1>2, <2>4, <4>1 DEF OneFault, NoGap, Seen
      <4>2. CASE ~(pos[Tp(c)] < x)
        BY <1>0, <1>2, <2>4, <4>2 DEF Seen
      <4> QED
        BY <4>1, <4>2
    <3>2. x = q
      BY <1>1, <2>2, <2>4, <3>1 DEF Writing, Active
    <3> QED
      BY <1>0, <2>1, <2>4, <3>2
  <2>5. Ends(c, j, q)
    BY <2>1, <2>2, <2>3, <2>4 DEF Ends
  <2> QED
    BY <1>2, <2>1, <2>2, <2>5
<1>11. Counted(c)'
  <2> SUFFICES ASSUME NEW k, Tx(c, k), On(c, k)
               PROVE  k =< pos[Tp(c)] \/ Claimed(c, k)'
    BY <1>1, <1>2 DEF Counted
  <2>1. k = q
    BY <1>1
  <2>2. CASE Dedup(Handler)
    BY <2>1, <2>2, OwnChange
  <2>3. CASE ~Dedup(Handler)
    BY <1>0, <1>3, <2>1, <2>3, OwnChange DEF OneFault, Counted
  <2> QED
    BY <2>2, <2>3
<1> QED
  BY <1>5, <1>6, <1>9, <1>10, <1>11 DEF OneFault

\* The charger's next event is fetched.
LEMMA FetchOwn ==
    ASSUME Inv8, OneInstance, NEW c \in Chargers, NEW r \in Readers, Fetched(r, Tp(c)),
           NEW q, q = pos[Tp(c)] + 1, Tx(c, q)
    PROVE  /\ W.pc = "idle" /\ W'.pc = "dedup" /\ W'.off = q /\ Busy(c)'
           /\ pos'[Tp(c)] = q /\ pos[Tp(c)] \in Nat /\ q \in Nat
           /\ L(c)' = L(c) /\ TxSlot(c)' = TxSlot(c)
           /\ UNCHANGED <<committed, sessions, dedup, used>>
           /\ \A k : Tx(c, k)' <=> Tx(c, k)
           /\ \A k : StartAt(c, k)' <=> StartAt(c, k)
           /\ \A k : StopAt(c, k)' <=> StopAt(c, k)
           /\ \A j, k : Ends(c, j, k)' <=> Ends(c, j, k)
           /\ \A k : Claimed(c, k)' <=> Claimed(c, k)
           /\ \A k : ~On(c, k) /\ ~Active(c, k)
           /\ \A k : On(c, k)' <=> k = q
           /\ \A k : Active(c, k)' <=> k = q /\ ~Claimed(c, k)
           /\ \A k : StartAt(c, k) \/ StopAt(c, k) => Tx(c, k)
           /\ \A k : Tx(c, k) => k \in Nat /\ k \in DOMAIN L(c)
<1>1. r = Handler
  BY HandlerFacts DEF Fetched, Tp
<1>2. /\ UNCHANGED <<log, committed, sessions, dedup, redis, used>>
      /\ W.pc = "idle" /\ W'.pc = "dedup" /\ W'.ev = L(c)[q] /\ W'.off = q
      /\ pos'[Tp(c)] = q /\ TpOf(W'.ev) = Tp(c) /\ pos[Tp(c)] \in Nat
  BY <1>1, TpFacts DEF Fetched, W, L, Inv8
<1>3. L(c)' = L(c) /\ TxSlot(c)' = TxSlot(c) /\ SameTx(c) /\ (\A k : Claimed(c, k)' <=> Claimed(c, k))
  BY <1>2 DEF L, TxSlot, SameTx, Tx, Claimed
<1>4. /\ Busy(c)'
      /\ \A k : ~On(c, k) /\ ~Active(c, k)
      /\ \A k : On(c, k)' <=> k = q
      /\ \A k : Active(c, k)' <=> k = q /\ ~Claimed(c, k)
  BY <1>2, <1>3 DEF On, Active, Busy
<1>5. /\ \A k : StartAt(c, k) \/ StopAt(c, k) => Tx(c, k)
      /\ \A k : Tx(c, k) => k \in Nat /\ k \in DOMAIN L(c)
  BY TpFacts DEF StartAt, StopAt, Tx, Inv8
<1> QED
  BY <1>2, <1>3, <1>4, <1>5, SameTxFacts DEF SameTx

LEMMA FetchKeepsOneFault ==
    ASSUME Inv8, OneInstance, NEW c \in Chargers, NEW r \in Readers, Fetched(r, Tp(c)),
           NEW q, q = pos[Tp(c)] + 1, Tx(c, q), OneFault(c)
    PROVE  OneFault(c)'
<1>1. NoGap(c)'
  <2> SUFFICES ASSUME NEW j, NEW k, Tx(c, j), Tx(c, k), q < j, j < k,
                      Claimed(c, k) \/ k = q
               PROVE  Claimed(c, j)
    BY FetchOwn DEF NoGap
  <2>1. k # q /\ pos[Tp(c)] < j
    BY FetchOwn
  <2> QED
    BY <2>1, FetchOwn DEF OneFault, NoGap
<1>2. NoneAhead(c)'
  <2> SUFFICES ASSUME NEW k, Tx(c, k), ~Claimed(c, q), q < k
               PROVE  ~Claimed(c, k)
    BY FetchOwn DEF NoneAhead
  <2>1. pos[Tp(c)] < q
    BY FetchOwn
  <2> QED
    BY <2>1, FetchOwn DEF OneFault, NoGap
<1>3. SlotNewest(c)'
  <2> SUFFICES ASSUME TxSlot(c) # None
               PROVE  \E j \in DOMAIN L(c) :
                         /\ StartAt(c, j) /\ TxSlot(c) = L(c)[j]
                         /\ j =< q \/ Claimed(c, j)
                         /\ \A k \in DOMAIN L(c) : StartAt(c, k) /\ j < k /\ Seen(c, k)' => Writing(c, k)'
    BY FetchOwn DEF SlotNewest
  <2>1. PICK j \in DOMAIN L(c) :
           /\ StartAt(c, j) /\ TxSlot(c) = L(c)[j]
           /\ j =< pos[Tp(c)] \/ Claimed(c, j)
           /\ \A k \in DOMAIN L(c) : StartAt(c, k) /\ j < k /\ Seen(c, k) => Writing(c, k)
    BY DEF OneFault, SlotNewest
  <2>2. ASSUME NEW k \in DOMAIN L(c), StartAt(c, k), j < k, Seen(c, k)'
        PROVE  Writing(c, k)'
    <3>1. ~Seen(c, k)
      BY <2>1, <2>2, FetchOwn DEF Writing
    <3>2. k = q
      <4>1. k =< q
        BY <2>2, <3>1, FetchOwn DEF Seen
      <4>2. ~(k =< pos[Tp(c)])
        BY <3>1 DEF Seen
      <4> QED
        BY <2>2, <4>1, <4>2, FetchOwn
    <3>3. ~Claimed(c, q)
      BY <3>1, <3>2 DEF Seen
    <3>4. Active(c, q)' /\ W'.pc = "dedup"
      BY <3>3, FetchOwn
    <3> QED
      BY <3>2, <3>4 DEF Writing
  <2>3. j =< pos[Tp(c)] => j =< q
    BY <2>1, FetchOwn
  <2> QED
    BY <2>1, <2>2, <2>3
<1>4. ReadsOwn(c)' /\ Counted(c)'
  BY FetchOwn DEF ReadsOwn, Counted
<1> QED
  BY <1>1, <1>2, <1>3, <1>4 DEF OneFault

\* The charger's next event arrives.
LEMMA ArrivesOwn ==
    ASSUME Inv8, OneInstance, NEW c \in Chargers, Produce,
           NEW e, e = Head(feed), IsTx(e), e.charger = c, NEW q, q = Len(L(c)) + 1
    PROVE  /\ UNCHANGED <<committed, pos, work, sessions, dedup, redis, used>>
           /\ TxSlot(c)' = TxSlot(c) /\ W' = W /\ (Busy(c)' <=> Busy(c))
           /\ q \in Nat /\ pos[Tp(c)] < q /\ ~On(c, q)' /\ ~Claimed(c, q)' /\ ~Seen(c, q)' /\ ~Active(c, q)'
           /\ pos[Tp(c)] \in Nat
           /\ \A k : Tx(c, k)' <=> Tx(c, k) \/ k = q
           /\ \A k : Tx(c, k)' => k \in DOMAIN L(c)'
           /\ \A k : StartAt(c, k)' \/ StopAt(c, k)' => Tx(c, k)'
           /\ \A k : Tx(c, k) => /\ k \in Nat /\ k < q /\ k \in DOMAIN L(c) /\ k \in DOMAIN L(c)'
                                 /\ L(c)'[k] = L(c)[k]
                                 /\ StartAt(c, k)' <=> StartAt(c, k)
                                 /\ StopAt(c, k)' <=> StopAt(c, k)
                                 /\ Claimed(c, k)' <=> Claimed(c, k)
                                 /\ On(c, k)' <=> On(c, k)
                                 /\ Active(c, k)' <=> Active(c, k)
                                 /\ Seen(c, k)' <=> Seen(c, k)
                                 /\ Writing(c, k)' <=> Writing(c, k)
           /\ \A j, k : Ends(c, j, k) => Ends(c, j, k)'
<1>1. /\ UNCHANGED <<committed, pos, work, sessions, dedup, redis, used>>
      /\ q \in Nat /\ q \notin DOMAIN L(c) /\ Tx(c, q)' /\ L(c)'[q] = e
      /\ \A k : Tx(c, k)' <=> Tx(c, k) \/ k = q
      /\ \A k : Tx(c, k) => k < q /\ L(c)'[k] = L(c)[k]
      /\ ~Past(c, q) /\ ~On(c, q) /\ pos[Tp(c)] < q /\ e.msg \notin dedup
  BY ArrivesNew
<1>2. /\ TxSlot(c)' = TxSlot(c) /\ W' = W /\ (Busy(c)' <=> Busy(c)) /\ pos[Tp(c)] \in Nat
      /\ \A k : On(c, k)' <=> On(c, k)
  BY <1>1, TpFacts DEF On, Busy, W, TxSlot, Inv8
<1>3. /\ \A k : Tx(c, k) => k \in Nat /\ k \in DOMAIN L(c)
      /\ \A k : Tx(c, k)' => k \in DOMAIN L(c)'
      /\ \A k : StartAt(c, k)' \/ StopAt(c, k)' => Tx(c, k)'
  BY TpFacts DEF Inv8, Tx, StartAt, StopAt
<1>4. ~On(c, q)' /\ ~Claimed(c, q)' /\ ~Seen(c, q)' /\ ~Active(c, q)'
  <2>1. ~On(c, q)' /\ ~Claimed(c, q)'
    BY <1>1, <1>2 DEF Claimed
  <2>2. ~(q =< pos'[Tp(c)])
    BY <1>1, <1>2
  <2> QED
    BY <2>1, <2>2 DEF Seen, Active
<1>5. ASSUME NEW k, Tx(c, k)
      PROVE  /\ StartAt(c, k)' <=> StartAt(c, k)
             /\ StopAt(c, k)' <=> StopAt(c, k)
             /\ Claimed(c, k)' <=> Claimed(c, k)
             /\ Active(c, k)' <=> Active(c, k)
             /\ Seen(c, k)' <=> Seen(c, k)
             /\ Writing(c, k)' <=> Writing(c, k)
  <2>1. L(c)'[k] = L(c)[k] /\ Tx(c, k)'
    BY <1>1, <1>5
  <2>2. /\ StartAt(c, k)' <=> StartAt(c, k)
        /\ StopAt(c, k)' <=> StopAt(c, k)
        /\ Claimed(c, k)' <=> Claimed(c, k)
    BY <1>1, <1>5, <2>1 DEF StartAt, StopAt, Claimed
  <2>3. Active(c, k)' <=> Active(c, k)
    BY <1>2, <2>2 DEF Active
  <2>4. Seen(c, k)' <=> Seen(c, k)
    BY <1>1, <1>2, <2>2 DEF Seen
  <2>5. Writing(c, k)' <=> Writing(c, k)
    BY <1>2, <2>3 DEF Writing
  <2> QED
    BY <2>2, <2>3, <2>4, <2>5
<1>6. ASSUME NEW j, NEW k, Ends(c, j, k)
      PROVE  Ends(c, j, k)'
  <2>1. StartAt(c, j) /\ StopAt(c, k) /\ j < k /\ Tx(c, j) /\ Tx(c, k)
    BY <1>6 DEF Ends, StartAt, StopAt
  <2>2. ASSUME NEW x, StartAt(c, x)', j < x, x < k
        PROVE  FALSE
    <3>1. x # q
      BY <1>1, <1>3, <2>1, <2>2
    <3>2. Tx(c, x)
      BY <1>1, <1>3, <2>2, <3>1
    <3>3. StartAt(c, x) /\ x \in DOMAIN L(c)
      BY <1>3, <1>5, <2>2, <3>2
    <3> QED
      BY <1>6, <2>2, <3>3 DEF Ends
  <2> QED
    BY <1>5, <2>1, <2>2 DEF Ends
<1> QED
  BY <1>1, <1>2, <1>3, <1>4, <1>5, <1>6

LEMMA ArrivalKeepsOneFault ==
    ASSUME Inv8, OneInstance, NEW c \in Chargers, Produce,
           NEW e, e = Head(feed), IsTx(e), e.charger = c, NEW q, q = Len(L(c)) + 1,
           OneFault(c)
    PROVE  OneFault(c)'
<1>1. NoGap(c)'
  <2> SUFFICES ASSUME NEW j, NEW k, Tx(c, j)', Tx(c, k)', pos[Tp(c)] < j, j < k,
                      Claimed(c, k)' \/ On(c, k)'
               PROVE  Claimed(c, j)'
    BY ArrivesOwn DEF NoGap
  <2>1. Tx(c, k) /\ k < q /\ k \in Nat
    BY ArrivesOwn
  <2>2. j # q /\ Tx(c, j)
    BY <2>1, ArrivesOwn
  <2> QED
    BY <2>1, <2>2, ArrivesOwn DEF OneFault, NoGap
<1>2. NoneAhead(c)'
  <2> SUFFICES ASSUME NEW j, NEW k, Tx(c, j)', Tx(c, k)', Active(c, j)', j < k
               PROVE  pos[Tp(c)] < k /\ ~Claimed(c, k)'
    BY ArrivesOwn DEF NoneAhead
  <2>1. Tx(c, j) /\ Active(c, j)
    BY ArrivesOwn
  <2>2. CASE k = q
    BY <2>2, ArrivesOwn
  <2>3. CASE k # q
    BY <2>1, <2>3, ArrivesOwn DEF OneFault, NoneAhead
  <2> QED
    BY <2>2, <2>3
<1>3. SlotNewest(c)'
  <2> SUFFICES ASSUME TxSlot(c) # None
               PROVE  \E j \in DOMAIN L(c)' :
                         /\ StartAt(c, j)' /\ TxSlot(c) = L(c)'[j]
                         /\ j =< pos[Tp(c)] \/ Claimed(c, j)'
                         /\ \A k \in DOMAIN L(c)' : StartAt(c, k)' /\ j < k /\ Seen(c, k)' => Writing(c, k)'
    BY ArrivesOwn DEF SlotNewest
  <2>1. PICK j \in DOMAIN L(c) :
           /\ StartAt(c, j) /\ TxSlot(c) = L(c)[j]
           /\ j =< pos[Tp(c)] \/ Claimed(c, j)
           /\ \A k \in DOMAIN L(c) : StartAt(c, k) /\ j < k /\ Seen(c, k) => Writing(c, k)
    BY DEF OneFault, SlotNewest
  <2>2. Tx(c, j)
    BY <2>1 DEF StartAt
  <2>3. ASSUME NEW k, StartAt(c, k)', j < k, Seen(c, k)'
        PROVE  Writing(c, k)'
    <3>1. Tx(c, k) /\ StartAt(c, k) /\ Seen(c, k) /\ k \in DOMAIN L(c)
      BY <2>3, ArrivesOwn
    <3> QED
      BY <2>1, <2>3, <3>1, ArrivesOwn
  <2> QED
    BY <2>1, <2>2, <2>3, ArrivesOwn
<1>4. ReadsOwn(c)'
  <2> SUFFICES ASSUME NEW k, StopAt(c, k)', On(c, k)', W.pc = "cdr"
               PROVE  \E j \in DOMAIN L(c)' : Ends(c, j, k)' /\ W.start = L(c)'[j]
    BY ArrivesOwn DEF ReadsOwn
  <2>1. Tx(c, k) /\ StopAt(c, k) /\ On(c, k) /\ k \in DOMAIN L(c)
    BY ArrivesOwn
  <2>2. PICK j \in DOMAIN L(c) : Ends(c, j, k) /\ W.start = L(c)[j]
    BY <2>1 DEF OneFault, ReadsOwn
  <2>3. Tx(c, j)
    BY <2>2 DEF Ends, StartAt
  <2> QED
    BY <2>2, <2>3, ArrivesOwn
<1>5. Counted(c)'
  <2> SUFFICES ASSUME NEW k, Tx(c, k)', On(c, k)', W.pc # "dedup"
               PROVE  k =< pos[Tp(c)] \/ Claimed(c, k)'
    BY ArrivesOwn DEF Counted
  <2>1. Tx(c, k) /\ On(c, k) /\ k \in DOMAIN L(c)
    BY ArrivesOwn
  <2> QED
    BY <2>1, ArrivesOwn DEF OneFault, Counted
<1> QED
  BY <1>1, <1>2, <1>3, <1>4, <1>5 DEF OneFault

-----------------------------------------------------------------------------
(* No fault: steps that do not fail                                        *)

LEMMA AtWorkInStep ==
    ASSUME Inv8, OneInstance, NEW c \in Chargers, NEW r \in Readers, AtWork(r), InStep(c)
    PROVE  InStep(c)'
<1>1. /\ pos' = pos
      /\ Busy(c)' => Busy(c) /\ W'.off = W.off
      /\ committed'[Tp(c)] # committed[Tp(c)] => Busy(c) /\ committed'[Tp(c)] = W.off
      /\ pos[Tp(c)] \in Nat
  BY BusyMoves, TpFacts DEF Inv8
<1>2. committed'[Tp(c)] =< pos[Tp(c)]
  BY <1>1 DEF InStep
<1> QED
  BY <1>1, <1>2 DEF InStep

LEMMA FetchInStep ==
    ASSUME Inv8, OneInstance, NEW c \in Chargers, NEW r \in Readers, NEW tp, Fetched(r, tp), InStep(c)
    PROVE  InStep(c)'
<1>1. /\ committed' = committed /\ pos[Tp(c)] \in Nat /\ committed[Tp(c)] \in Nat
      /\ pos'[Tp(c)] = IF Tp(c) = tp THEN pos[Tp(c)] + 1 ELSE pos[Tp(c)]
  BY TpFacts DEF Fetched, Inv8
<1>2. committed'[Tp(c)] =< pos'[Tp(c)]
  BY <1>1 DEF InStep
<1>3. Handler \in Readers /\ (tp = Tp(c) => r = Handler)
  BY HandlerFacts DEF Fetched, Tp
<1>4. Busy(c)' => W'.off = pos'[Tp(c)]
  <2>1. CASE r = Handler
    <3>1. W'.off = pos[tp] + 1 /\ TpOf(W'.ev) = tp
      BY <2>1 DEF Fetched, W
    <3> QED
      BY <1>1, <3>1 DEF Busy
  <2>2. CASE r # Handler
    <3>1. W' = W /\ tp # Tp(c)
      BY <1>3, <2>2 DEF Fetched, W
    <3> QED
      BY <1>1, <3>1 DEF Busy, InStep
  <2> QED
    BY <2>1, <2>2
<1> QED
  BY <1>2, <1>4 DEF InStep

LEMMA RestInStep ==
    ASSUME UNCHANGED <<committed, pos, work>>, NEW c \in Chargers, InStep(c)
    PROVE  InStep(c)'
BY DEF InStep, Busy, W

LEMMA AsideKeepsFaultless ==
    ASSUME Inv8, Inv8', NEW c \in Chargers, Aside(c), Faultless(c), InStep(c)'
    PROVE  Faultless(c)'
<1>1. KeysBehind(c)'
  <2> SUFFICES ASSUME NEW k, Tx(c, k)'
               PROVE  Claimed(c, k)' <=> k =< pos'[Tp(c)] /\ ~(On(c, k)' /\ W'.pc = "dedup")
    BY DEF KeysBehind
  <2>1. /\ Tx(c, k) /\ k \in DOMAIN L(c)
        /\ Claimed(c, k) <=> k =< pos[Tp(c)] /\ ~(On(c, k) /\ W.pc = "dedup")
    BY AsideFacts DEF Faultless, KeysBehind
  <2>2. CASE On(c, k)' /\ W'.pc = "dedup"
    <3>1. On(c, k) /\ W' = W
      BY <2>1, <2>2, AsideFacts
    <3> QED
      BY <2>1, <2>2, <3>1, AsideFacts
  <2>3. CASE ~(On(c, k)' /\ W'.pc = "dedup")
    <3>1. ~(On(c, k) /\ W.pc = "dedup")
      <4> SUFFICES ASSUME On(c, k), W.pc = "dedup"
                   PROVE  FALSE
        OBVIOUS
      <4>1. Active(c, k)
        BY <2>1 DEF Active
      <4>2. Active(c, k)' /\ W' = W
        BY <2>1, <4>1, AsideFacts
      <4> QED
        BY <2>3, <4>2 DEF Active
    <3> QED
      BY <2>1, <2>3, <3>1, AsideFacts
  <2> QED
    BY <2>2, <2>3
<1>2. ReadsSlot(c)'
  <2> SUFFICES ASSUME NEW k, StopAt(c, k)', On(c, k)', W'.pc \in {"cdr", "pipe"}, W'.n =< 2
               PROVE  W'.start = TxSlot(c)'
    BY DEF ReadsSlot
  <2>1. StopAt(c, k) /\ k \in DOMAIN L(c) /\ On(c, k) /\ W' = W
    BY AsideFacts
  <2> QED
    BY <2>1, AsideFacts DEF Faultless, ReadsSlot
<1>3. SlotLast(c)'
  <2> SUFFICES ASSUME TxSlot(c)' # None
               PROVE  \E j \in DOMAIN L(c)' :
                         /\ StartAt(c, j)' /\ TxSlot(c)' = L(c)'[j] /\ Claimed(c, j)'
                         /\ \A k \in DOMAIN L(c)' : Tx(c, k)' /\ j < k /\ k =< pos'[Tp(c)] =>
                               /\ Active(c, k)'
                               /\ W'.pc = "pipe" => W'.n =< IF StartAt(c, k)' THEN 3 ELSE 2
    BY DEF SlotLast
  <2>1. PICK j \in DOMAIN L(c) :
           /\ StartAt(c, j) /\ TxSlot(c) = L(c)[j] /\ Claimed(c, j)
           /\ \A k \in DOMAIN L(c) : Tx(c, k) /\ j < k /\ k =< pos[Tp(c)] =>
                 Active(c, k) /\ (W.pc = "pipe" => W.n =< IF StartAt(c, k) THEN 3 ELSE 2)
    BY AsideFacts DEF Faultless, SlotLast
  <2>2. ASSUME NEW k, Tx(c, k)', j < k, k =< pos'[Tp(c)]
        PROVE  /\ Active(c, k)'
               /\ W'.pc = "pipe" => W'.n =< IF StartAt(c, k)' THEN 3 ELSE 2
    <3>1. Tx(c, k) /\ k \in DOMAIN L(c) /\ k =< pos[Tp(c)] /\ (StartAt(c, k)' <=> StartAt(c, k))
      BY <2>2, AsideFacts
    <3>2. Active(c, k) /\ (W.pc = "pipe" => W.n =< IF StartAt(c, k) THEN 3 ELSE 2)
      BY <2>1, <2>2, <3>1
    <3>3. Active(c, k)' /\ W' = W
      BY <3>1, <3>2, AsideFacts
    <3> QED
      BY <3>1, <3>2, <3>3
  <2>3. Tx(c, j)
    BY <2>1 DEF StartAt
  <2> QED
    BY <2>1, <2>2, <2>3, AsideFacts
<1> QED
  BY <1>1, <1>2, <1>3 DEF Faultless

LEMMA FetchKeepsFaultless ==
    ASSUME Inv8, OneInstance, NEW c \in Chargers, NEW r \in Readers, Fetched(r, Tp(c)),
           NEW q, q = pos[Tp(c)] + 1, Tx(c, q), Faultless(c)
    PROVE  Faultless(c)'
<1>1. InStep(c)'
  BY FetchInStep DEF Faultless
<1>2. \A k : Tx(c, k) => (Claimed(c, k) <=> k =< pos[Tp(c)])
  BY FetchOwn DEF Faultless, KeysBehind
<1>3. \A k \in Nat : /\ k =< q /\ k # q <=> k =< pos[Tp(c)]
                     /\ k =< q => k = q \/ k =< pos[Tp(c)]
                     /\ ~(q =< pos[Tp(c)])
  BY FetchOwn
<1>4. KeysBehind(c)'
  <2> SUFFICES ASSUME NEW k, Tx(c, k)
               PROVE  Claimed(c, k) <=> k =< q /\ k # q
    BY FetchOwn DEF KeysBehind
  <2> QED
    BY <1>2, <1>3, FetchOwn
<1>5. ReadsSlot(c)'
  BY FetchOwn DEF ReadsSlot
<1>6. SlotLast(c)'
  <2> SUFFICES ASSUME TxSlot(c) # None
               PROVE  \E j \in DOMAIN L(c) :
                         /\ StartAt(c, j) /\ TxSlot(c) = L(c)[j] /\ Claimed(c, j)
                         /\ \A k \in DOMAIN L(c) : Tx(c, k) /\ j < k /\ k =< q => Active(c, k)'
    BY FetchOwn DEF SlotLast
  <2>1. PICK j \in DOMAIN L(c) :
           /\ StartAt(c, j) /\ TxSlot(c) = L(c)[j] /\ Claimed(c, j)
           /\ \A k \in DOMAIN L(c) : Tx(c, k) /\ j < k /\ k =< pos[Tp(c)] => Active(c, k)
    BY DEF Faultless, SlotLast
  <2>2. ASSUME NEW k \in DOMAIN L(c), Tx(c, k), j < k, k =< q
        PROVE  Active(c, k)'
    <3>1. k = q
      BY <1>3, <2>1, <2>2, FetchOwn
    <3> QED
      BY <1>2, <1>3, <3>1, FetchOwn
  <2> QED
    BY <2>1, <2>2
<1> QED
  BY <1>1, <1>4, <1>5, <1>6 DEF Faultless

LEMMA ArrivalKeepsFaultless ==
    ASSUME Inv8, OneInstance, NEW c \in Chargers, Produce,
           NEW e, e = Head(feed), IsTx(e), e.charger = c, NEW q, q = Len(L(c)) + 1,
           Faultless(c)
    PROVE  Faultless(c)'
<1>1. InStep(c)'
  BY ArrivesOwn, RestInStep DEF Faultless
<1>2. ~(q =< pos[Tp(c)])
  BY ArrivesOwn
<1>3. KeysBehind(c)'
  <2> SUFFICES ASSUME NEW k, Tx(c, k)'
               PROVE  Claimed(c, k)' <=> k =< pos[Tp(c)] /\ ~(On(c, k)' /\ W.pc = "dedup")
    BY ArrivesOwn DEF KeysBehind
  <2>1. CASE k = q
    BY <1>2, <2>1, ArrivesOwn
  <2>2. CASE k # q
    BY <2>2, ArrivesOwn DEF Faultless, KeysBehind
  <2> QED
    BY <2>1, <2>2
<1>4. ReadsSlot(c)'
  <2> SUFFICES ASSUME NEW k, StopAt(c, k)', On(c, k)', W.pc \in {"cdr", "pipe"}, W.n =< 2
               PROVE  W.start = TxSlot(c)
    BY ArrivesOwn DEF ReadsSlot
  <2>1. Tx(c, k) /\ StopAt(c, k) /\ On(c, k) /\ k \in DOMAIN L(c)
    BY ArrivesOwn
  <2> QED
    BY <2>1 DEF Faultless, ReadsSlot
<1>5. SlotLast(c)'
  <2> SUFFICES ASSUME TxSlot(c) # None
               PROVE  \E j \in DOMAIN L(c)' :
                         /\ StartAt(c, j)' /\ TxSlot(c) = L(c)'[j] /\ Claimed(c, j)'
                         /\ \A k \in DOMAIN L(c)' : Tx(c, k)' /\ j < k /\ k =< pos[Tp(c)] =>
                               /\ Active(c, k)'
                               /\ W.pc = "pipe" => W.n =< IF StartAt(c, k)' THEN 3 ELSE 2
    BY ArrivesOwn DEF SlotLast
  <2>1. PICK j \in DOMAIN L(c) :
           /\ StartAt(c, j) /\ TxSlot(c) = L(c)[j] /\ Claimed(c, j)
           /\ \A k \in DOMAIN L(c) : Tx(c, k) /\ j < k /\ k =< pos[Tp(c)] =>
                 Active(c, k) /\ (W.pc = "pipe" => W.n =< IF StartAt(c, k) THEN 3 ELSE 2)
    BY DEF Faultless, SlotLast
  <2>2. Tx(c, j)
    BY <2>1 DEF StartAt
  <2>3. ASSUME NEW k, Tx(c, k)', j < k, k =< pos[Tp(c)]
        PROVE  /\ Active(c, k)'
               /\ W.pc = "pipe" => W.n =< IF StartAt(c, k)' THEN 3 ELSE 2
    <3>1. Tx(c, k) /\ k \in DOMAIN L(c)
      BY <1>2, <2>3, ArrivesOwn
    <3> QED
      BY <2>1, <2>3, <3>1, ArrivesOwn
  <2> QED
    BY <2>1, <2>2, <2>3, ArrivesOwn
<1> QED
  BY <1>1, <1>3, <1>4, <1>5 DEF Faultless

-----------------------------------------------------------------------------
(* No fault: the handler's own steps                                       *)

\* A step of the handler's at q, by where it is in handleMessage
OwnAt(c, q) ==
    \/ W.pc = "dedup" /\ W'.pc = "history" /\ Dedup(Handler) /\ TxSlot(c)' = TxSlot(c)
    \/ /\ W.pc = "history" /\ TxSlot(c)' = TxSlot(c)
       /\ \/ StartAt(c, q) /\ W'.pc = "pipe" /\ W'.n = 1
          \/ ~StartAt(c, q) /\ W'.pc = "read"
    \/ /\ W.pc = "read" /\ ~StartAt(c, q) /\ TxSlot(c)' = TxSlot(c)
       /\ W'.pc \in {"cdr", "pipe"} /\ W'.n = 1 /\ W'.start = TxSlot(c)
    \/ /\ W.pc = "cdr" /\ ~StartAt(c, q) /\ TxSlot(c)' = TxSlot(c)
       /\ W'.pc = "pipe" /\ W.n = 1 /\ W'.n = 1 /\ W'.start = W.start
    \/ /\ W.pc = "pipe" /\ W.n \in Nat /\ W'.start = W.start
       /\ \/ W'.pc = "pipe" /\ W'.n = W.n + 1
          \/ W'.pc = "commit" /\ W.n >= 3 /\ (StartAt(c, q) => W.n = 6)
       /\ TxSlot(c)' = IF StartAt(c, q) THEN IF W.n = 3 THEN L(c)[q] ELSE TxSlot(c)
                       ELSE IF W.start # None /\ W.n = 2 THEN None ELSE TxSlot(c)

LEMMA OwnPlaces ==
    ASSUME Inv8, OneInstance, NEW c \in Chargers, NEW q, Tx(c, q), Active(c, q), OwnStep
    PROVE  OwnAt(c, q)
<1>0. On(c, q) /\ W \in WorkRecord /\ (StartAt(c, q) <=> ~StopAt(c, q))
  BY OwnFacts DEF Active
<1>1. CASE Dedup(Handler)
  <2>1. W.pc = "dedup" /\ ~Claimed(c, q)
    BY <1>0, <1>1 DEF Active, Dedup, At, W
  <2>2. W' = [W EXCEPT !.pc = "history"] /\ redis' = redis
    BY <1>0, <1>1, <2>1, OwnDedup
  <2>3. W'.pc = "history" /\ TxSlot(c)' = TxSlot(c)
    BY <1>0, <2>2 DEF WorkRecord, TxSlot
  <2> QED
    BY <1>1, <2>1, <2>3 DEF OwnAt
<1>2. CASE WriteHistory(Handler)
  <2>1. /\ W.pc = "history" /\ redis' = redis
        /\ W' = IF StartAt(c, q) THEN [W EXCEPT !.pc = "pipe", !.n = 1] ELSE [W EXCEPT !.pc = "read"]
    BY <1>0, <1>2, OwnHistory
  <2>2. /\ TxSlot(c)' = TxSlot(c)
        /\ StartAt(c, q) => W'.pc = "pipe" /\ W'.n = 1
        /\ ~StartAt(c, q) => W'.pc = "read"
    BY <1>0, <2>1 DEF WorkRecord, TxSlot
  <2> QED
    BY <2>1, <2>2 DEF OwnAt
<1>3. CASE ReadStart(Handler)
  <2>1. /\ W.pc = "read" /\ StopAt(c, q) /\ redis' = redis
        /\ W' = [W EXCEPT !.pc = IF TxSlot(c) = None THEN "pipe" ELSE "cdr", !.start = TxSlot(c), !.n = 1]
    BY <1>0, <1>3, OwnRead
  <2>2. TxSlot(c)' = TxSlot(c) /\ W'.pc \in {"cdr", "pipe"} /\ W'.n = 1 /\ W'.start = TxSlot(c)
    BY <1>0, <2>1 DEF WorkRecord, TxSlot
  <2> QED
    BY <1>0, <2>1, <2>2 DEF OwnAt
<1>4. CASE InsertCdr(Handler)
  <2>1. W.pc = "cdr" /\ StopAt(c, q) /\ redis' = redis /\ W' = [W EXCEPT !.pc = "pipe"]
    BY <1>0, <1>4, OwnInsert
  <2>2. W.n = 1
    BY <2>1, HandlerFacts DEF Inv8, Inv1, WorkOK, ReaderOK, W
  <2>3. TxSlot(c)' = TxSlot(c) /\ W'.pc = "pipe" /\ W'.n = 1 /\ W'.start = W.start
    BY <1>0, <2>1, <2>2 DEF WorkRecord, TxSlot
  <2> QED
    BY <1>0, <2>1, <2>2, <2>3 DEF OwnAt
<1>5. CASE PipeStep(Handler)
  <2>1. /\ W.pc = "pipe" /\ W.n \in Nat /\ W'.start = W.start
        /\ \/ W'.pc = "pipe" /\ W'.n = W.n + 1
           \/ W'.pc = "commit" /\ W.n >= 3 /\ (StartAt(c, q) => W.n = 6)
        /\ TxSlot(c)' = IF StartAt(c, q) THEN IF W.n = 3 THEN L(c)[q] ELSE TxSlot(c)
                        ELSE IF W.start # None /\ W.n = 2 THEN None ELSE TxSlot(c)
    BY <1>0, <1>5, OwnPipe
  <2> QED
    BY <2>1 DEF OwnAt
<1> QED
  BY <1>1, <1>2, <1>3, <1>4, <1>5 DEF OwnStep

LEMMA OwnKeepsFaultless ==
    ASSUME Inv8, OneInstance, NEW c \in Chargers, NEW q, Tx(c, q), Active(c, q), OwnStep,
           Faultless(c)
    PROVE  Faultless(c)'
<1>0. /\ On(c, q) /\ W \in WorkRecord /\ (StartAt(c, q) <=> ~StopAt(c, q))
      /\ q \in DOMAIN L(c) /\ q \in Nat /\ q = pos[Tp(c)] /\ L(c)[q] # None
  BY OwnFacts, TpFacts DEF Active, Inv8, Faultless, InStep, On
<1>1. /\ L(c)' = L(c) /\ pos' = pos
      /\ \A k : On(c, k)' <=> On(c, k)
      /\ \A k : k # q => ~On(c, k)
      /\ On(c, q)' /\ W'.pc \notin {"idle", "dedup"}
  BY <1>0, OwnChange, OwnPlace
<1>2. /\ \A k : Tx(c, k)' <=> Tx(c, k)
      /\ \A k : StartAt(c, k)' <=> StartAt(c, k)
      /\ \A k : StopAt(c, k)' <=> StopAt(c, k)
      /\ \A k : StartAt(c, k) \/ StopAt(c, k) => Tx(c, k)
      /\ \A k : Tx(c, k) => k \in Nat /\ k \in DOMAIN L(c)
  <2>1. SameTx(c)
    BY <1>1 DEF SameTx, Tx
  <2> QED
    BY <1>1, <2>1, SameTxFacts, TpFacts DEF SameTx, Tx, StartAt, StopAt, Inv8
<1>3. OwnAt(c, q)
  BY OwnPlaces
<1>4. InStep(c)'
  BY HandlerFacts, AtWorkInStep DEF OwnStep, AtWork, Faultless
<1>5. \A k : Tx(c, k) => (Claimed(c, k)' <=> k =< pos[Tp(c)])
  <2> SUFFICES ASSUME NEW k, Tx(c, k)
               PROVE  Claimed(c, k)' <=> k =< pos[Tp(c)]
    OBVIOUS
  <2>1. Claimed(c, k) <=> k =< pos[Tp(c)] /\ ~(On(c, k) /\ W.pc = "dedup")
    BY <1>2 DEF Faultless, KeysBehind
  <2>2. Claimed(c, k)' <=> Claimed(c, k) \/ (k = q /\ Dedup(Handler))
    BY OwnChange
  <2>3. (~Dedup(Handler) => W.pc # "dedup") /\ q =< pos[Tp(c)]
    BY <1>0, OwnChange
  <2>4. Dedup(Handler) => W.pc = "dedup"
    BY DEF Dedup, At, W
  <2> QED
    BY <1>0, <1>1, <2>1, <2>2, <2>3, <2>4
<1>6. KeysBehind(c)'
  BY <1>1, <1>2, <1>5 DEF KeysBehind
<1>7. ASSUME StopAt(c, q), W'.pc \in {"cdr", "pipe"}, W'.n =< 2
      PROVE  W'.start = TxSlot(c)'
  <2>1. W.pc \in {"cdr", "pipe"} /\ W.n =< 2 => W.start = TxSlot(c)
    BY <1>0, <1>7 DEF Faultless, ReadsSlot
  <2>2. CASE W.pc = "pipe"
    <3>1. /\ W.n \in Nat /\ W'.start = W.start /\ W'.n = W.n + 1
          /\ TxSlot(c)' = IF W.start # None /\ W.n = 2 THEN None ELSE TxSlot(c)
      BY <1>0, <1>3, <1>7, <2>2 DEF OwnAt
    <3>2. W.n =< 2 /\ W.n # 2
      BY <1>7, <3>1
    <3> QED
      BY <2>1, <2>2, <3>1, <3>2
  <2>3. CASE W.pc # "pipe"
    BY <1>0, <1>3, <1>7, <2>1, <2>3 DEF OwnAt
  <2> QED
    BY <2>2, <2>3
<1>8. ReadsSlot(c)'
  BY <1>1, <1>2, <1>7 DEF ReadsSlot
<1>9. SlotLast(c)'
  <2> SUFFICES ASSUME TxSlot(c)' # None
               PROVE  \E j \in DOMAIN L(c) :
                         /\ StartAt(c, j) /\ TxSlot(c)' = L(c)[j] /\ Claimed(c, j)'
                         /\ \A k \in DOMAIN L(c) : Tx(c, k) /\ j < k /\ k =< pos[Tp(c)] =>
                               /\ Active(c, k)'
                               /\ W'.pc = "pipe" => W'.n =< IF StartAt(c, k) THEN 3 ELSE 2
    BY <1>1, <1>2 DEF SlotLast
  <2>1. CASE W.pc = "pipe" /\ StartAt(c, q) /\ W.n = 3
    <3>1. TxSlot(c)' = L(c)[q]
      BY <2>1, OwnChange
    <3>2. Claimed(c, q)'
      BY <1>0, <1>5
    <3>3. \A k : Tx(c, k) /\ q < k => ~(k =< pos[Tp(c)])
      BY <1>0, <1>2
    <3> QED
      BY <1>0, <2>1, <3>1, <3>2, <3>3
  <2>2. CASE ~(W.pc = "pipe" /\ StartAt(c, q) /\ W.n = 3)
    <3>1. TxSlot(c)' = TxSlot(c) /\ ~(W.pc = "pipe" /\ ~StartAt(c, q) /\ W.start # None /\ W.n = 2)
      BY <1>3, <2>2 DEF OwnAt
    <3>2. PICK j \in DOMAIN L(c) :
             /\ StartAt(c, j) /\ TxSlot(c) = L(c)[j] /\ Claimed(c, j)
             /\ \A k \in DOMAIN L(c) : Tx(c, k) /\ j < k /\ k =< pos[Tp(c)] =>
                   Active(c, k) /\ (W.pc = "pipe" => W.n =< IF StartAt(c, k) THEN 3 ELSE 2)
      BY <3>1 DEF Faultless, SlotLast
    <3>3. ASSUME NEW k, Tx(c, k), j < k, k =< pos[Tp(c)]
          PROVE  /\ Active(c, k)'
                 /\ W'.pc = "pipe" => W'.n =< IF StartAt(c, k) THEN 3 ELSE 2
      <4>1. k = q /\ (W.pc = "pipe" => W.n =< IF StartAt(c, q) THEN 3 ELSE 2)
        BY <1>1, <1>2, <3>2, <3>3 DEF Active
      <4>2. CASE W.pc = "pipe"
        <5>1. /\ W.n \in Nat
              /\ \/ W'.pc = "pipe" /\ W'.n = W.n + 1
                 \/ W'.pc = "commit" /\ W.n >= 3 /\ (StartAt(c, q) => W.n = 6)
          BY <1>3, <4>2 DEF OwnAt
        <5>2. W.n < IF StartAt(c, q) THEN 3 ELSE 2
          <6>1. ~StartAt(c, q) => W.n # 2
            <7> SUFFICES ASSUME ~StartAt(c, q), W.n = 2
                         PROVE  FALSE
              OBVIOUS
            <7>1. W.start = TxSlot(c)
              BY <1>0, <4>2 DEF Faultless, ReadsSlot
            <7> QED
              BY <3>1, <4>2, <7>1
          <6>2. StartAt(c, q) => W.n # 3
            BY <2>2, <4>2
          <6> QED
            BY <4>1, <4>2, <5>1, <6>1, <6>2
        <5>3. W'.pc = "pipe" /\ W'.n =< IF StartAt(c, q) THEN 3 ELSE 2
          BY <5>1, <5>2
        <5> QED
          BY <1>1, <4>1, <5>3 DEF Active
      <4>3. CASE W.pc # "pipe"
        <5>1. W'.pc # "commit" /\ (W'.pc = "pipe" => W'.n = 1)
          BY <1>0, <1>3, <4>3 DEF OwnAt, Active
        <5> QED
          BY <1>1, <4>1, <5>1 DEF Active
      <4> QED
        BY <4>2, <4>3
    <3>4. Claimed(c, j)'
      BY <1>2, <3>2, OwnChange
    <3> QED
      BY <3>1, <3>2, <3>3, <3>4
  <2> QED
    BY <2>1, <2>2
<1> QED
  BY <1>4, <1>6, <1>8, <1>9 DEF Faultless

-----------------------------------------------------------------------------
(* The first fault                                                         *)

\* What a failure does to a charger's transactions: the group may go back, the
\* goroutine may stop or skip what it was doing, and tx:active may be deleted.
Mishap(c) ==
    /\ SameTx(c)
    /\ pos'[Tp(c)] =< pos[Tp(c)]
    /\ TxSlot(c)' \in {TxSlot(c), None}
    /\ \A k : Tx(c, k) => /\ Claimed(c, k)' => Claimed(c, k) \/ On(c, k)
                          /\ On(c, k)' => On(c, k)
                          /\ \/ pos'[Tp(c)] = pos[Tp(c)]
                             \/ (Claimed(c, k)' <=> Claimed(c, k)) /\ (On(c, k)' => W' = W)
                          /\ On(c, k)' /\ W'.pc = "cdr" => W' = W

LEMMA MishapFacts ==
    ASSUME Inv8, Inv8', OneInstance, NEW c \in Chargers, Mishap(c), Faultless(c)
    PROVE  /\ \A k : Tx(c, k)' <=> Tx(c, k)
           /\ \A k : StartAt(c, k)' <=> StartAt(c, k)
           /\ \A k : StopAt(c, k)' <=> StopAt(c, k)
           /\ \A j, k : Ends(c, j, k)' <=> Ends(c, j, k)
           /\ \A k : StartAt(c, k) \/ StopAt(c, k) => Tx(c, k)
           /\ \A k : Tx(c, k) => /\ k \in Nat /\ k \in DOMAIN L(c) /\ k \in DOMAIN L(c)'
                                 /\ L(c)'[k] = L(c)[k]
           /\ pos[Tp(c)] \in Nat /\ pos'[Tp(c)] \in Nat
           /\ \A k : Tx(c, k) /\ Seen(c, k)' => k =< pos[Tp(c)]
           /\ \A k : Tx(c, k) /\ Claimed(c, k) => k =< pos[Tp(c)]
           /\ \A k : Tx(c, k) /\ On(c, k) => k = pos[Tp(c)]
           /\ \A k : Tx(c, k) /\ On(c, k)' => k = pos[Tp(c)]
           /\ \A k : Tx(c, k) /\ k =< pos[Tp(c)] =>
                 Claimed(c, k) \/ (k = pos[Tp(c)] /\ W.pc = "dedup")
<1>1. /\ \A k : Tx(c, k)' <=> Tx(c, k)
      /\ \A k : StartAt(c, k)' <=> StartAt(c, k)
      /\ \A k : StopAt(c, k)' <=> StopAt(c, k)
      /\ \A j, k : Ends(c, j, k)' <=> Ends(c, j, k)
      /\ \A k : StartAt(c, k) \/ StopAt(c, k) => Tx(c, k)
  BY SameTxFacts DEF Mishap, SameTx, StartAt, StopAt
<1>2. \A k : Tx(c, k) => /\ k \in Nat /\ k \in DOMAIN L(c) /\ k \in DOMAIN L(c)'
                         /\ L(c)'[k] = L(c)[k]
  <2> SUFFICES ASSUME NEW k, Tx(c, k)
               PROVE  /\ k \in Nat /\ k \in DOMAIN L(c) /\ k \in DOMAIN L(c)'
                      /\ L(c)'[k] = L(c)[k]
    OBVIOUS
  <2>1. Tx(c, k)' /\ L(c)'[k] = L(c)[k]
    BY DEF Mishap, SameTx
  <2>2. k \in DOMAIN L(c)'
    BY <2>1 DEF Tx
  <2> QED
    BY <2>1, <2>2, TpFacts DEF Tx, Inv8
<1>3. pos[Tp(c)] \in Nat /\ pos'[Tp(c)] \in Nat
  BY PosNat
<1>4. \A k : Tx(c, k) /\ On(c, k) => k = pos[Tp(c)]
  BY DEF Faultless, InStep, On
<1>5. \A k : Tx(c, k) =>
         (Claimed(c, k) <=> k =< pos[Tp(c)] /\ ~(On(c, k) /\ W.pc = "dedup"))
  BY <1>2 DEF Faultless, KeysBehind
<1>6. \A k : Tx(c, k) /\ On(c, k)' => k = pos[Tp(c)]
  BY <1>4 DEF Mishap
<1>7. \A k : Tx(c, k) /\ Claimed(c, k) => k =< pos[Tp(c)]
  BY <1>5
<1>8. \A k : Tx(c, k) /\ k =< pos[Tp(c)] =>
         Claimed(c, k) \/ (k = pos[Tp(c)] /\ W.pc = "dedup")
  BY <1>4, <1>5
<1>9. \A k : Tx(c, k) /\ Seen(c, k)' => k =< pos[Tp(c)]
  <2> SUFFICES ASSUME NEW k, Tx(c, k), Seen(c, k)'
               PROVE  k =< pos[Tp(c)]
    OBVIOUS
  <2>1. CASE k =< pos'[Tp(c)]
    <3>1. pos'[Tp(c)] =< pos[Tp(c)] /\ k \in Nat
      BY <1>2 DEF Mishap
    <3> QED
      BY <1>3, <2>1, <3>1
  <2>2. CASE Claimed(c, k)' \/ On(c, k)'
    <3>1. Claimed(c, k) \/ On(c, k)
      BY <2>2 DEF Mishap
    <3>2. On(c, k) => k =< pos[Tp(c)]
      BY <1>3, <1>4
    <3> QED
      BY <1>7, <3>1, <3>2
  <2> QED
    BY <2>1, <2>2 DEF Seen
<1> QED
  BY <1>1, <1>2, <1>3, <1>4, <1>6, <1>7, <1>8, <1>9

LEMMA MishapLeavesOneFault ==
    ASSUME Inv8, Inv8', OneInstance, NEW c \in Chargers, Mishap(c), Faultless(c), OneFault(c)
    PROVE  OneFault(c)'
<1>1. NoGap(c)'
  <2> SUFFICES ASSUME NEW j, NEW k, Tx(c, j), Tx(c, k), pos'[Tp(c)] < j, j < k,
                      Claimed(c, k)' \/ On(c, k)'
               PROVE  Claimed(c, j)'
    BY MishapFacts DEF NoGap
  <2>1. k =< pos[Tp(c)]
    BY MishapFacts DEF Seen
  <2>2. j < pos[Tp(c)] /\ pos'[Tp(c)] # pos[Tp(c)]
    BY <2>1, MishapFacts
  <2>3. Claimed(c, j)
    BY <2>2, MishapFacts
  <2> QED
    BY <2>2, <2>3 DEF Mishap
<1>2. NoneAhead(c)'
  <2> SUFFICES ASSUME NEW j, NEW k, Tx(c, j), Tx(c, k), Active(c, j)', j < k
               PROVE  pos'[Tp(c)] < k /\ ~Claimed(c, k)'
    BY MishapFacts DEF NoneAhead
  <2>1. j = pos[Tp(c)]
    BY MishapFacts DEF Active
  <2>2. ~(k =< pos[Tp(c)]) /\ pos'[Tp(c)] =< pos[Tp(c)]
    BY <2>1, MishapFacts DEF Mishap
  <2>3. ~Seen(c, k)'
    BY <2>2, MishapFacts
  <2> QED
    BY <2>2, <2>3, MishapFacts DEF Seen
<1>3. SlotNewest(c)'
  <2> SUFFICES ASSUME TxSlot(c)' # None
               PROVE  \E j \in DOMAIN L(c)' :
                         /\ StartAt(c, j)' /\ TxSlot(c)' = L(c)'[j]
                         /\ j =< pos'[Tp(c)] \/ Claimed(c, j)'
                         /\ \A k \in DOMAIN L(c)' : StartAt(c, k)' /\ j < k /\ Seen(c, k)' => Writing(c, k)'
    BY DEF SlotNewest
  <2>1. TxSlot(c)' = TxSlot(c) /\ TxSlot(c) # None
    BY DEF Mishap
  <2>2. PICK j \in DOMAIN L(c) :
           /\ StartAt(c, j) /\ TxSlot(c) = L(c)[j] /\ Claimed(c, j)
           /\ \A k \in DOMAIN L(c) : Tx(c, k) /\ j < k /\ k =< pos[Tp(c)] => Active(c, k)
    BY <2>1 DEF Faultless, SlotLast
  <2>3. Tx(c, j)
    BY <2>2 DEF StartAt
  <2>4. j =< pos'[Tp(c)] \/ Claimed(c, j)'
    <3>1. j =< pos[Tp(c)]
      BY <2>2, <2>3, MishapFacts
    <3> QED
      BY <2>2, <2>3, <3>1 DEF Mishap
  <2>5. ASSUME NEW k, StartAt(c, k), j < k, Seen(c, k)'
        PROVE  FALSE
    <3>1. Tx(c, k) /\ k =< pos[Tp(c)] /\ k \in DOMAIN L(c)
      BY <2>5, MishapFacts
    <3>2. PICK n \in DOMAIN L(c) : StopAt(c, n) /\ j < n /\ n < k
      BY <2>2, <2>5, StopBetween
    <3>3. Tx(c, n) /\ n =< pos[Tp(c)] /\ n # k
      BY <3>1, <3>2, MishapFacts
    <3>4. Active(c, k) /\ Active(c, n)
      BY <2>2, <2>5, <3>1, <3>2, <3>3
    <3> QED
      BY <3>3, <3>4 DEF Active, On
  <2> QED
    BY <2>1, <2>2, <2>3, <2>4, <2>5, MishapFacts
<1>4. ReadsOwn(c)'
  <2> SUFFICES ASSUME NEW k, StopAt(c, k)', On(c, k)', W'.pc = "cdr"
               PROVE  \E j \in DOMAIN L(c)' : Ends(c, j, k)' /\ W'.start = L(c)'[j]
    BY DEF ReadsOwn
  <2>1. StopAt(c, k) /\ Tx(c, k) /\ k \in DOMAIN L(c)
    BY MishapFacts
  <2>2. W' = W /\ On(c, k)
    BY <2>1 DEF Mishap
  <2>3. PICK j \in DOMAIN L(c) : Ends(c, j, k) /\ W.start = L(c)[j]
    BY <2>1, <2>2 DEF OneFault, ReadsOwn
  <2>4. Tx(c, j)
    BY <2>3 DEF Ends, StartAt
  <2> QED
    BY <2>2, <2>3, <2>4, MishapFacts
<1>5. Counted(c)'
  <2> SUFFICES ASSUME NEW k, Tx(c, k), On(c, k)', W'.pc # "dedup"
               PROVE  k =< pos'[Tp(c)] \/ Claimed(c, k)'
    BY MishapFacts DEF Counted
  <2>1. k = pos[Tp(c)] /\ k \in Nat
    BY MishapFacts
  <2>2. CASE pos'[Tp(c)] = pos[Tp(c)]
    BY <2>1, <2>2
  <2>3. CASE pos'[Tp(c)] # pos[Tp(c)]
    <3>1. W' = W /\ (Claimed(c, k)' <=> Claimed(c, k))
      BY <2>3 DEF Mishap
    <3>2. Claimed(c, k)
      BY <2>1, <3>1, MishapFacts
    <3> QED
      BY <3>1, <3>2
  <2> QED
    BY <2>2, <2>3
<1> QED
  BY <1>1, <1>2, <1>3, <1>4, <1>5 DEF OneFault

\* Failed calls, a crash, a rebalance and an expiry are such mishaps.
LEMMA FaultMishap ==
    ASSUME Inv8, OneInstance, NEW c \in Chargers, NEW q, Tx(c, q), On(c, q),
           Fault(Handler), ~CommitFails(Handler)
    PROVE  Mishap(c)
<1>0. /\ AtWork(Handler) /\ Handler \in Readers /\ W \in WorkRecord /\ work \in [Readers -> WorkRecord]
      /\ pos[Tp(c)] \in Nat
  BY HandlerFacts, OwnFacts, TpFacts DEF Fault, AtWork, Inv8
<1>1. Quiet(c) /\ pos' = pos /\ \A k : On(c, k)' => On(c, k)
  BY <1>0, AtWorkQuiet, BusyMoves
<1>2. redis' = redis
  BY DEF Fault, DedupFails, DedupRetried, HistoryFails, ReadFails, CdrFails, PipeFails, PipeRetried
<1>3. W'.pc # "cdr"
  <2>1. CASE DedupFails(Handler) \/ HistoryFails(Handler) \/ PipeFails(Handler)
    <3>1. W' = Idle
      BY <1>0, <2>1 DEF DedupFails, HistoryFails, PipeFails, GiveUp, HistoryErrorReturned, Become, W
    <3> QED
      BY <3>1 DEF Idle
  <2>2. CASE DedupRetried(Handler) \/ CdrFails(Handler)
    <3>1. W' = [W EXCEPT !.pc = "commit"] \/ W' = [W EXCEPT !.pc = "pipe"]
      BY <1>0, <2>2 DEF DedupRetried, CdrFails, GoTo, Become, W
    <3> QED
      BY <1>0, <3>1 DEF WorkRecord
  <2>3. CASE ReadFails(Handler)
    <3>1. W' = [W EXCEPT !.pc = "pipe", !.n = 1]
      BY <1>0, <2>3 DEF ReadFails, Become, W
    <3> QED
      BY <1>0, <3>1 DEF WorkRecord
  <2>4. CASE PipeRetried(Handler)
    <3>1. W' = [W EXCEPT !.n = 1] /\ W.pc = "pipe"
      BY <1>0, <2>4 DEF PipeRetried, Become, At, W
    <3> QED
      BY <1>0, <3>1 DEF WorkRecord
  <2> QED
    BY <2>1, <2>2, <2>3, <2>4 DEF Fault
<1>4. TxSlot(c)' = TxSlot(c) /\ pos'[Tp(c)] = pos[Tp(c)] /\ pos'[Tp(c)] =< pos[Tp(c)]
  BY <1>0, <1>1, <1>2 DEF TxSlot
<1> QED
  BY <1>1, <1>3, <1>4 DEF Mishap, Quiet

LEMMA RestartMishap ==
    ASSUME Inv8, OneInstance, NEW c \in Chargers, Faultless(c),
           \/ \E i \in Instances : Crash(i)
           \/ \E i \in Instances : \E tp \in TPs : Rebalance(tp, i)
    PROVE  Mishap(c)
<1>0. pos[Tp(c)] \in Nat /\ committed[Tp(c)] \in Nat /\ committed[Tp(c)] =< pos[Tp(c)]
  BY TpFacts DEF Inv8, Faultless, InStep
<1>1. Quiet(c)
  BY CrashQuiet, RebalanceQuiet
<1>2. UNCHANGED <<log, dedup, redis>>
  BY DEF Crash, Rebalance
<1>3. /\ pos'[Tp(c)] =< pos[Tp(c)]
      /\ Busy(c)' => Busy(c) /\ W' = W
  <2>1. ASSUME NEW i \in Instances, Crash(i)
        PROVE  pos'[Tp(c)] =< pos[Tp(c)] /\ (Busy(c)' => Busy(c) /\ W' = W)
    <3>1. pos'[Tp(c)] = pos[Tp(c)] \/ pos'[Tp(c)] = committed[Tp(c)]
      BY <2>1, TpFacts DEF Crash, Inv8
    <3>2. Busy(c)' => Busy(c) /\ W' = W
      BY <2>1, HandlerFacts DEF Crash, W, Busy, Idle
    <3> QED
      BY <1>0, <3>1, <3>2
  <2>2. ASSUME NEW i \in Instances, NEW tp \in TPs, Rebalance(tp, i)
        PROVE  pos'[Tp(c)] =< pos[Tp(c)] /\ (Busy(c)' => Busy(c) /\ W' = W)
    BY <1>0, <2>2 DEF Rebalance, Busy, W
  <2> QED
    BY <2>1, <2>2
<1>4. TxSlot(c)' = TxSlot(c)
  BY <1>2 DEF TxSlot
<1>5. \A k : Claimed(c, k)' <=> Claimed(c, k)
  BY <1>2 DEF Claimed, L
<1>6. \A k : On(c, k)' => On(c, k) /\ W' = W
  BY <1>3 DEF On
<1> QED
  BY <1>1, <1>3, <1>4, <1>5, <1>6 DEF Mishap, Quiet

LEMMA ExpiryMishap ==
    ASSUME Inv8, NEW c \in Chargers,
           \/ \E m \in Msgs : DedupExpires(m)
           \/ \E d \in Chargers : TxExpires(d)
    PROVE  Mishap(c)
<1>1. UNCHANGED <<kafka, work, sessions>> /\ dedup' \subseteq dedup
  BY DEF DedupExpires, TxExpires
<1>2. Quiet(c)
  BY <1>1, ExpiryQuiet
<1>3. pos'[Tp(c)] = pos[Tp(c)] /\ pos[Tp(c)] \in Nat /\ W' = W
  BY <1>1, TpFacts DEF kafka, W, Inv8
<1>4. TxSlot(c)' \in {TxSlot(c), None}
  <2>1. CASE \E m \in Msgs : DedupExpires(m)
    BY <2>1 DEF DedupExpires, TxSlot
  <2>2. ASSUME NEW d \in Chargers, TxExpires(d)
        PROVE  TxSlot(c)' \in {TxSlot(c), None}
    BY <2>2, TpFacts DEF TxExpires, Apply, Cmd, TxSlot, Inv8
  <2> QED
    BY <2>1, <2>2
<1>5. \A k : On(c, k)' <=> On(c, k)
  BY <1>1, <1>3 DEF On, Busy
<1> QED
  BY <1>2, <1>3, <1>4, <1>5 DEF Mishap, Quiet

-----------------------------------------------------------------------------
(* Sessions                                                                *)

LEMMA EndsPairs ==
    ASSUME Inv8, NEW c \in Chargers, NEW j, NEW k, Ends(c, j, k)
    PROVE  Pairs(L(c)[j], L(c)[k])
<1>1. /\ StartAt(c, j) /\ StopAt(c, k) /\ j < k
      /\ j \in DOMAIN L(c) /\ k \in DOMAIN L(c) /\ j \in Nat /\ k \in Nat /\ j # 0
      /\ DOMAIN L(c) = 1..Len(L(c)) /\ Len(L(c)) \in Nat
  <2>1. StartAt(c, j) /\ StopAt(c, k) /\ j < k /\ j \in DOMAIN L(c) /\ k \in DOMAIN L(c)
    BY DEF Ends, StartAt, StopAt, Tx
  <2>2. DOMAIN L(c) = 1..Len(L(c)) /\ Len(L(c)) \in Nat
    BY TpFacts DEF Inv8
  <2> QED
    BY <2>1, <2>2
<1>2. TpOf(L(c)[k]) = Tp(c) /\ L(c)[k].charger = c /\ StartsFor(L(c)[j], c)
  BY <1>1, TpFacts DEF Inv8, StartAt, StopAt, Tx, StartsFor
<1>3. j \in 1..(k - 1)
  BY <1>1
<1>4. ASSUME NEW x \in (j + 1)..(k - 1)
      PROVE  ~StartsFor(L(c)[x], c)
  <2>1. x \in DOMAIN L(c) /\ j < x /\ x < k
    BY <1>1
  <2>2. ~StartAt(c, x)
    BY <2>1 DEF Ends
  <2> QED
    BY <2>1, <2>2 DEF StartAt, Tx, StartsFor, IsTx, TxTypes
<1> QED
  BY <1>1, <1>2, <1>3, <1>4 DEF Pairs, L

\* Partitions only grow, and what is paired stays so.
LEMMA PairsStay ==
    ASSUME Inv1, [Next]_vars, NEW start \in Events, NEW stop \in Events, Pairs(start, stop)
    PROVE  Pairs(start, stop)'
<1> DEFINE tp == TpOf(stop)
<1>1. tp \in TPs /\ log[tp] \in Seq(Events)
  BY TopicType DEF Inv1, TypeOK
<1>2. \/ log'[tp] = log[tp]
      \/ \E e \in Events : log'[tp] = Append(log[tp], e)
  <2>1. CASE Produce
    <3>1. Head(feed) \in Events /\ Arrives(Head(feed))
      BY <2>1, ProduceArrives
    <3>2. log' = [log EXCEPT ![TpOf(Head(feed))] = Append(@, Head(feed))]
      BY <3>1 DEF Arrives
    <3> QED
      BY <1>1, <3>1, <3>2 DEF Inv1, TypeOK
  <2>2. CASE UNCHANGED vars
    BY <2>2 DEF vars, kafka
  <2>3. ASSUME NEW r \in Readers, Advance(r) \/ Fault(r)
        PROVE  log' = log
    BY <2>3 DEF Advance, Fault, Fetch, Dedup, WriteHistory, ReadLatest, ReadStart, InsertCdr,
         PipeStep, Commit, DedupFails, DedupRetried, HistoryFails, ReadFails, CdrFails,
         PipeFails, PipeRetried, CommitFails, kafka
  <2>4. ASSUME NEW i \in Instances, Crash(i) \/ \E tq \in TPs : Rebalance(tq, i)
        PROVE  log' = log
    BY <2>4 DEF Crash, Rebalance
  <2>5. ASSUME (\E m \in Msgs : DedupExpires(m)) \/ (\E c \in Chargers : TxExpires(c))
        PROVE  log' = log
    BY <2>5 DEF DedupExpires, TxExpires, kafka
  <2> QED
    BY <2>1, <2>2, <2>3, <2>4, <2>5 DEF Next, Environment
<1>3. /\ DOMAIN log[tp] \subseteq DOMAIN log'[tp]
      /\ \A k \in DOMAIN log[tp] : log'[tp][k] = log[tp][k]
      /\ DOMAIN log[tp] = 1..Len(log[tp]) /\ Len(log[tp]) \in Nat
  BY <1>1, <1>2
<1> HIDE DEF tp
<1>4. PICK k \in DOMAIN log[tp] : \E j \in 1..(k - 1) :
         /\ log[tp][k] = stop
         /\ log[tp][j] = start /\ StartsFor(start, stop.charger)
         /\ \A x \in (j + 1)..(k - 1) : ~StartsFor(log[tp][x], stop.charger)
  BY DEF Pairs, tp
<1>5. PICK j \in 1..(k - 1) :
         /\ log[tp][k] = stop
         /\ log[tp][j] = start /\ StartsFor(start, stop.charger)
         /\ \A x \in (j + 1)..(k - 1) : ~StartsFor(log[tp][x], stop.charger)
  BY <1>4
<1>6. \A x \in 1..k : log'[tp][x] = log[tp][x]
  BY <1>3
<1>7. k \in DOMAIN log'[tp]
  BY <1>3
<1>8. k \in Nat /\ k =< k /\ j \in 1..k /\ k \in 1..k /\ \A x \in (j + 1)..(k - 1) : x \in 1..k
  BY <1>3
<1>9. /\ log'[tp][k] = stop
      /\ log'[tp][j] = start /\ StartsFor(start, stop.charger)
      /\ \A x \in (j + 1)..(k - 1) : ~StartsFor(log'[tp][x], stop.charger)
  BY <1>5, <1>6, <1>8
<1> QED
  BY <1>7, <1>9 DEF Pairs, tp

\* Only a stop with a start in hand becomes a session.
LEMMA NewSession ==
    ASSUME Inv8, OneInstance, [Next]_vars, NEW s \in sessions', s \notin sessions
    PROVE  \E c \in Chargers : \E k :
              /\ StopAt(c, k) /\ On(c, k) /\ W.pc = "cdr"
              /\ s = [stop |-> L(c)[k], start |-> W.start]
<1>1. PICK r \in Readers : InsertCdr(r) \/ CdrFails(r)
  <2>1. CASE UNCHANGED vars \/ Environment
    BY <2>1 DEF vars, Environment, Produce, Crash, Rebalance, DedupExpires, TxExpires
  <2>2. ASSUME NEW r \in Readers, Advance(r) \/ Fault(r), ~(InsertCdr(r) \/ CdrFails(r))
        PROVE  FALSE
    BY <2>2 DEF Advance, Fault, Fetch, Dedup, WriteHistory, ReadLatest, ReadStart,
         PipeStep, Commit, DedupFails, DedupRetried, HistoryFails, ReadFails,
         PipeFails, PipeRetried, CommitFails
  <2> QED
    BY <2>1, <2>2 DEF Next
<1>2. /\ work[r].pc = "cdr" /\ AddSession(work[r].ev, work[r].start)
      /\ work[r].ev.type = "StopTransaction" /\ work[r].ev \in Events
      /\ TopicOf(work[r].ev.type) = r[2]
      /\ work[r].off \in DOMAIN log[TpOf(work[r].ev)]
      /\ log[TpOf(work[r].ev)][work[r].off] = work[r].ev
  <2>1. work[r].pc = "cdr" /\ AddSession(work[r].ev, work[r].start)
    BY <1>1 DEF InsertCdr, CdrFails, At
  <2> QED
    BY <2>1 DEF Inv8, Inv1, WorkOK, ReaderOK, PlacesOK
<1>3. r = Handler
  BY <1>2, HandlerFacts DEF TopicOf
<1>4. s = [stop |-> W.ev, start |-> W.start]
  BY <1>2, <1>3 DEF AddSession, W
<1>5. PICK c \in Chargers : W.ev.charger = c
  BY <1>2, <1>3, EventsAssumption DEF W
<1>6. TpOf(W.ev) = Tp(c)
  BY <1>2, <1>3, <1>5, TpFacts DEF Inv8, W, IsTx, TxTypes
<1>7. On(c, W.off) /\ W.ev = L(c)[W.off] /\ StopAt(c, W.off)
  BY <1>2, <1>3, <1>5, <1>6 DEF On, Busy, W, L, StopAt, Tx, IsTx, TxTypes
<1> QED
  BY <1>2, <1>3, <1>4, <1>7 DEF W

LEMMA SessionsStayPaired ==
    ASSUME Inv8, Inv8', OneInstance, [Next]_vars, SessionsPaired,
           \A c \in Chargers : OneFault(c)
    PROVE  SessionsPaired'
<1> SUFFICES ASSUME NEW s \in sessions'
             PROVE  Pairs(s.start, s.stop)'
  BY DEF SessionsPaired
<1>1. s.start \in Events /\ s.stop \in Events
  BY DEF Inv8, Inv1, TypeOK, SessionRecord
<1>2. Pairs(s.start, s.stop)
  <2>1. CASE s \in sessions
    BY <2>1 DEF SessionsPaired
  <2>2. CASE s \notin sessions
    <3>1. PICK c \in Chargers : \E k :
             /\ StopAt(c, k) /\ On(c, k) /\ W.pc = "cdr"
             /\ s = [stop |-> L(c)[k], start |-> W.start]
      BY <2>2, NewSession
    <3>2. PICK k :
             /\ StopAt(c, k) /\ On(c, k) /\ W.pc = "cdr"
             /\ s = [stop |-> L(c)[k], start |-> W.start]
      BY <3>1
    <3>3. PICK j \in DOMAIN L(c) : Ends(c, j, k) /\ W.start = L(c)[j]
      BY <3>2 DEF OneFault, ReadsOwn, StopAt, Tx
    <3>4. Pairs(L(c)[j], L(c)[k])
      BY <3>3, EndsPairs
    <3> QED
      BY <3>2, <3>3, <3>4
  <2> QED
    BY <2>1, <2>2
<1> QED
  BY <1>1, <1>2, PairsStay DEF Inv8

LEMMA Inv10Init == ASSUME OneInstance, OneTransactionAtATime PROVE Init => Inv10
<1> SUFFICES ASSUME Init PROVE Inv10
  OBVIOUS
<1>1. Inv8
  BY Inv8Init
<1>2. SessionsPaired
  BY DEF Init, SessionsPaired
<1>3. ASSUME NEW c \in Chargers
      PROVE  Faultless(c) /\ OneFault(c)
  <2>1. L(c) = <<>> /\ pos[Tp(c)] = 0 /\ committed[Tp(c)] = 0 /\ TxSlot(c) = None
    BY <1>1, TpFacts DEF Init, L, Inv8, TxSlot
  <2>2. ~Busy(c)
    BY HandlerFacts DEF Init, Busy, W, Idle
  <2>3. \A k : ~Tx(c, k) /\ ~StartAt(c, k) /\ ~StopAt(c, k)
    BY <2>1 DEF Tx, StartAt, StopAt
  <2>4. InStep(c) /\ KeysBehind(c) /\ ReadsSlot(c) /\ SlotLast(c)
    BY <2>1, <2>2, <2>3 DEF InStep, KeysBehind, ReadsSlot, SlotLast
  <2>5. NoGap(c) /\ NoneAhead(c) /\ SlotNewest(c) /\ ReadsOwn(c) /\ Counted(c)
    BY <2>1, <2>2, <2>3 DEF NoGap, NoneAhead, SlotNewest, ReadsOwn, Counted
  <2> QED
    BY <2>4, <2>5 DEF Faultless, OneFault
<1> QED
  BY <1>1, <1>2, <1>3 DEF Inv10

-----------------------------------------------------------------------------
(* Every step                                                              *)

\* A step without a failure keeps both ...
Keeps(c) == /\ OneFault(c) => OneFault(c)'
            /\ Faultless(c) => Faultless(c)'

LEMMA AdvanceKeeps ==
    ASSUME Inv8, Inv8', OneInstance, NEW c \in Chargers, NEW r \in Readers, Advance(r)
    PROVE  Keeps(c)
<1>1. CASE Fetch(r)
  <2>1. PICK tp \in TPs : Fetched(r, tp)
    BY <1>1, FetchFacts DEF Inv8
  <2>2. CASE tp = Tp(c) /\ Tx(c, pos[tp] + 1)
    BY <2>1, <2>2, FetchKeepsOneFault, FetchKeepsFaultless DEF Keeps
  <2>3. CASE ~(tp = Tp(c) /\ Tx(c, pos[tp] + 1))
    <3>1. Aside(c)
      BY <2>1, <2>3, FetchAside
    <3>2. InStep(c) => InStep(c)'
      BY <2>1, FetchInStep
    <3> QED
      BY <3>1, <3>2, AsideKeepsOneFault, AsideKeepsFaultless DEF Keeps, Faultless
  <2> QED
    BY <2>2, <2>3
<1>2. CASE ~Fetch(r)
  <2>1. AtWork(r)
    BY <1>2 DEF Advance, AtWork
  <2>2. ASSUME Aside(c)
        PROVE  Keeps(c)
    BY <2>1, <2>2, AtWorkInStep, AsideKeepsOneFault, AsideKeepsFaultless DEF Keeps, Faultless
  <2>3. ASSUME NEW q, Tx(c, q), Active(c, q), OwnStep
        PROVE  Keeps(c)
    BY <2>3, OwnKeepsOneFault, OwnKeepsFaultless DEF Keeps
  <2>4. CASE ~(r = Handler /\ \E k : Tx(c, k) /\ On(c, k))
    BY <2>1, <2>2, <2>4, OtherAside
  <2>5. CASE r = Handler /\ \E k : Tx(c, k) /\ On(c, k)
    <3>1. PICK q : Tx(c, q) /\ On(c, q)
      BY <2>5
    <3>2. CASE Commit(r) \/ (Dedup(r) /\ Taken(work[r].ev))
      BY <2>2, <3>2, DoneAside
    <3>3. CASE Dedup(r) /\ ~Taken(work[r].ev)
      <4>1. W.pc = "dedup" /\ ~Claimed(c, q)
        BY <2>5, <3>1, <3>3, OwnFacts DEF Dedup, At, W, Taken, Claimed
      <4>2. Active(c, q)
        BY <3>1, <4>1 DEF Active
      <4> QED
        BY <2>3, <2>5, <3>1, <3>3, <4>2 DEF OwnStep
    <3>4. CASE WriteHistory(r) \/ ReadStart(r) \/ InsertCdr(r) \/ PipeStep(r)
      <4>1. W.pc \notin {"dedup", "commit"}
        BY <2>5, <3>4 DEF WriteHistory, ReadStart, InsertCdr, PipeStep, At, W
      <4>2. Active(c, q)
        BY <3>1, <4>1 DEF Active
      <4> QED
        BY <2>3, <2>5, <3>1, <3>4, <4>2 DEF OwnStep
    <3>5. CASE ReadLatest(r)
      <4>1. W.pc = "read" /\ W.ev.type # "StopTransaction"
        BY <2>5, <3>5 DEF ReadLatest, At, W
      <4>2. W.ev.type # "StartTransaction"
        BY <4>1, HandlerFacts DEF Inv8, PlacesOK, W
      <4> QED
        BY <3>1, <4>1, <4>2, OwnFacts DEF TxTypes
    <3> QED
      BY <1>2, <3>2, <3>3, <3>4, <3>5 DEF Advance
  <2> QED
    BY <2>4, <2>5
<1> QED
  BY <1>1, <1>2

LEMMA ProduceKeeps ==
    ASSUME Inv8, Inv8', OneInstance, NEW c \in Chargers, Produce
    PROVE  Keeps(c)
<1>1. /\ Head(feed) \in Events /\ Arrives(Head(feed))
      /\ UNCHANGED <<committed, pos, work>>
  BY ProduceArrives DEF Inv8, Produce
<1>2. CASE IsTx(Head(feed)) /\ Head(feed).charger = c
  BY <1>2, ArrivalKeepsOneFault, ArrivalKeepsFaultless DEF Keeps
<1>3. CASE ~(IsTx(Head(feed)) /\ Head(feed).charger = c)
  <2>1. Aside(c)
    BY <1>1, <1>3, ProduceAside
  <2> QED
    BY <1>1, <2>1, RestInStep, AsideKeepsOneFault, AsideKeepsFaultless DEF Keeps, Faultless
<1> QED
  BY <1>2, <1>3

LEMMA StutterKeeps ==
    ASSUME Inv8, Inv8', NEW c \in Chargers, UNCHANGED vars
    PROVE  Keeps(c)
<1>1. Aside(c) /\ UNCHANGED <<committed, pos, work>>
  BY StutterAside DEF vars, kafka
<1> QED
  BY <1>1, RestInStep, AsideKeepsOneFault, AsideKeepsFaultless DEF Keeps, Faultless

\* ... and the first failure leaves the weaker one.
LEMMA FirstFault ==
    ASSUME Inv8, Inv8', OneInstance, NEW c \in Chargers, Faultless(c), OneFault(c),
           \/ \E r \in Readers : Fault(r)
           \/ \E i \in Instances : Crash(i) \/ \E tp \in TPs : Rebalance(tp, i)
           \/ \E m \in Msgs : DedupExpires(m)
           \/ \E d \in Chargers : TxExpires(d)
    PROVE  OneFault(c)'
<1>1. ASSUME NEW r \in Readers, Fault(r)
      PROVE  OneFault(c)'
  <2>1. AtWork(r)
    BY <1>1 DEF Fault, AtWork
  <2>2. CASE CommitFails(r)
    BY <2>2, DoneAside, AsideKeepsOneFault
  <2>3. CASE ~(r = Handler /\ \E k : Tx(c, k) /\ On(c, k))
    BY <2>1, <2>3, OtherAside, AsideKeepsOneFault
  <2>4. CASE ~CommitFails(r) /\ r = Handler /\ \E k : Tx(c, k) /\ On(c, k)
    BY <1>1, <2>4, FaultMishap, MishapLeavesOneFault
  <2> QED
    BY <2>2, <2>3, <2>4
<1>2. CASE \E i \in Instances : Crash(i) \/ \E tp \in TPs : Rebalance(tp, i)
  BY <1>2, RestartMishap, MishapLeavesOneFault
<1>3. CASE (\E m \in Msgs : DedupExpires(m)) \/ (\E d \in Chargers : TxExpires(d))
  BY <1>3, ExpiryMishap, MishapLeavesOneFault
<1> QED
  BY <1>1, <1>2, <1>3

\* Faults are counted, one at a time.
LEMMA StepCounts ==
    ASSUME Inv1, [Next]_vars
    PROVE  \/ /\ used' = used
              /\ (\E r \in Readers : Advance(r)) \/ Produce \/ UNCHANGED vars
           \/ /\ used'["any"] = used["any"] + 1
              /\ \/ \E r \in Readers : Fault(r)
                 \/ \E i \in Instances : Crash(i) \/ \E tp \in TPs : Rebalance(tp, i)
                 \/ \E m \in Msgs : DedupExpires(m)
                 \/ \E c \in Chargers : TxExpires(c)
<1>1. ASSUME NEW k \in Kinds \ {"any"}, Spend(k)
      PROVE  used'["any"] = used["any"] + 1
  BY <1>1, SpendCounts
<1>2. ASSUME NEW r \in Readers, Advance(r)
      PROVE  used' = used
  BY <1>2 DEF Advance, Fetch, Dedup, WriteHistory, ReadLatest, ReadStart, InsertCdr, PipeStep, Commit
<1>3. ASSUME NEW r \in Readers, Fault(r)
      PROVE  used'["any"] = used["any"] + 1
  <2>1. Spend("error") \/ Spend("retry") \/ Spend("read") \/ Spend("lookup") \/ Spend("commit")
    <3>1. CASE ReadFails(r)
      <4>1. Spend(ReadKind(work[r].ev))
        BY <3>1 DEF ReadFails
      <4> QED
        BY <4>1 DEF ReadKind
    <3>2. CASE ~ReadFails(r)
      BY <1>3, <3>2 DEF Fault, DedupFails, DedupRetried, HistoryFails, CdrFails, PipeFails,
                        PipeRetried, CommitFails
    <3> QED
      BY <3>1, <3>2
  <2> QED
    BY <1>1, <2>1 DEF Kinds
<1>4. ASSUME NEW i \in Instances, Crash(i) \/ \E tp \in TPs : Rebalance(tp, i)
      PROVE  used'["any"] = used["any"] + 1
  BY <1>1, <1>4 DEF Crash, Rebalance, Kinds
<1>5. ASSUME (\E m \in Msgs : DedupExpires(m)) \/ (\E c \in Chargers : TxExpires(c))
      PROVE  used'["any"] = used["any"] + 1
  BY <1>1, <1>5 DEF DedupExpires, TxExpires, Kinds
<1>6. Produce \/ UNCHANGED vars => used' = used
  BY DEF Produce, vars
<1> QED
  BY <1>2, <1>3, <1>4, <1>5, <1>6 DEF Next, Environment

LEMMA Inv10Step == ASSUME OneInstance PROVE Inv10 /\ [Next]_vars => Inv10'
<1> SUFFICES ASSUME Inv10, [Next]_vars PROVE Inv10'
  OBVIOUS
<1>1. Inv8 /\ Inv8' /\ Inv1 /\ used["any"] \in Nat
  BY Inv8Step, UsedNat DEF Inv10, Inv8
<1>2. CASE /\ used' = used
           /\ (\E r \in Readers : Advance(r)) \/ Produce \/ UNCHANGED vars
  <2>1. \A c \in Chargers : Keeps(c)
    BY <1>1, <1>2, AdvanceKeeps, ProduceKeeps, StutterKeeps
  <2>2. used["any"] = 0 => \A c \in Chargers : Faultless(c)'
    BY <2>1 DEF Inv10, Keeps
  <2>3. used["any"] =< 1 => \A c \in Chargers : OneFault(c)'
    BY <2>1 DEF Inv10, Keeps
  <2>4. used["any"] =< 1 => SessionsPaired'
    BY <1>1, SessionsStayPaired DEF Inv10
  <2> QED
    BY <1>1, <1>2, <2>2, <2>3, <2>4 DEF Inv10
<1>3. CASE /\ used'["any"] = used["any"] + 1
           /\ \/ \E r \in Readers : Fault(r)
              \/ \E i \in Instances : Crash(i) \/ \E tp \in TPs : Rebalance(tp, i)
              \/ \E m \in Msgs : DedupExpires(m)
              \/ \E c \in Chargers : TxExpires(c)
  <2>1. ASSUME used'["any"] =< 1
        PROVE  SessionsPaired' /\ \A c \in Chargers : OneFault(c)'
    <3>1. used["any"] = 0 /\ used["any"] =< 1
      BY <1>1, <1>3, <2>1
    <3>2. SessionsPaired /\ \A c \in Chargers : Faultless(c) /\ OneFault(c)
      BY <3>1 DEF Inv10
    <3>3. SessionsPaired'
      BY <1>1, <3>2, SessionsStayPaired
    <3>4. \A c \in Chargers : OneFault(c)'
      BY <1>1, <1>3, <3>2, FirstFault
    <3> QED
      BY <3>3, <3>4
  <2>2. used'["any"] # 0
    BY <1>1, <1>3
  <2> QED
    BY <1>1, <2>1, <2>2 DEF Inv10
<1> QED
  BY <1>1, <1>2, <1>3, StepCounts

\* With one instance, and chargers that have one transaction at a time under ids
\* of their own, a session joins a stop to its own start as long as no more than
\* one thing has failed (updateTransaction).  A failure can leave a start behind
\* in tx:active, or take the group back to events before it; only both together
\* give a stop another transaction's start.
THEOREM SessionsPairOwnStart ==
    ASSUME OneInstance, OneTransactionAtATime
    PROVE  Spec => []SessionPairsOwnStart
<1>1. Init => Inv10
  BY Inv10Init
<1>2. Inv10 /\ [Next]_vars => Inv10'
  BY Inv10Step
<1>3. Inv10 => SessionPairsOwnStart
  BY DEF Inv10, SessionsPaired, SessionPairsOwnStart
<1> QED
  BY <1>1, <1>2, <1>3, PTL DEF Spec

=============================================================================
