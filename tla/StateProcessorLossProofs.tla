----------------------- MODULE StateProcessorLossProofs -----------------------
(***************************************************************************)
(* Proof that the state-processor loses no more messages than calls fail   *)
(* and goroutines are killed, for any instances, partitions and faults.    *)
(***************************************************************************)
EXTENDS StateProcessorProofs, FiniteSetTheorems

\* The group, or a goroutine that has still to commit, is at or past offset k.
Reached(tp, k) ==
    \/ k =< pos[tp] \/ k =< committed[tp]
    \/ \E r \in Readers : work[r].pc # "idle" /\ TpOf(work[r].ev) = tp /\ k =< work[r].off
Behind(m) == \E tp \in TPs : \E k \in DOMAIN log[tp] : log[tp][k].msg = m /\ Reached(tp, k)
Holds(w, m)   == w.pc \in {"dedup", "history"} /\ w.ev.msg = m
Recording(m)  == \E r \in Readers : work[r].pc = "history" /\ work[r].ev.msg = m

\* The messages without a row that nobody is going to record: the key is taken
\* and no goroutine is at writeHistory with it, or the group is past it.
Doomed == {m \in Msgs : /\ ~Recorded(m)
                        /\ \/ m \in dedup /\ ~Recording(m)
                           \/ Behind(m) /\ ~InFlight(m)}

\* No offset is past the end of its partition.
OffsetsOK ==
    /\ \A tp \in TPs : pos[tp] =< Len(log[tp]) /\ committed[tp] =< Len(log[tp])
    /\ \A r \in Readers : work[r].pc # "idle" => work[r].off =< Len(log[TpOf(work[r].ev)])

Losses == used["error"] + used["retry"] + Cardinality(Topics) * used["crash"]
Inv7 == Inv1 /\ OffsetsOK /\ IsFiniteSet(Doomed) /\ Cardinality(Doomed) =< Losses

LEMMA TopicsFinite == IsFiniteSet(Topics) /\ Cardinality(Topics) \in Nat
<1>1. /\ IsFiniteSet({"boot"} \union {"status"})
      /\ IsFiniteSet({"boot", "status"} \union {"meter"})
      /\ IsFiniteSet({"boot", "status", "meter"} \union {"heartbeat"})
      /\ IsFiniteSet({"boot", "status", "meter", "heartbeat"} \union {"transactions"})
  <2>1. IsFiniteSet({"boot"} \union {"status"})
    BY FS_Singleton, FS_AddElement
  <2>2. IsFiniteSet({"boot", "status"} \union {"meter"})
    <3>1. {"boot", "status"} = {"boot"} \union {"status"}
      OBVIOUS
    <3> QED
      BY <2>1, <3>1, FS_AddElement
  <2>3. IsFiniteSet({"boot", "status", "meter"} \union {"heartbeat"})
    <3>1. {"boot", "status", "meter"} = {"boot", "status"} \union {"meter"}
      OBVIOUS
    <3> QED
      BY <2>2, <3>1, FS_AddElement
  <2>4. IsFiniteSet({"boot", "status", "meter", "heartbeat"} \union {"transactions"})
    <3>1. {"boot", "status", "meter", "heartbeat"}
             = {"boot", "status", "meter"} \union {"heartbeat"}
      OBVIOUS
    <3> QED
      BY <2>3, <3>1, FS_AddElement
  <2> QED
    BY <2>1, <2>2, <2>3, <2>4
<1>2. Topics = {"boot", "status", "meter", "heartbeat"} \union {"transactions"}
  BY DEF Topics
<1> QED
  BY <1>1, <1>2, FS_CardinalityType

-----------------------------------------------------------------------------
(* How a goroutine moves                                                   *)

\* A goroutine keeps its event until it is idle, and commits its own offset.
SameOrIdle(w, v) == v.pc # "idle" => w.pc # "idle" /\ v.ev = w.ev /\ v.off = w.off
Moves(r) ==
    /\ \A x \in Readers : x # r => work'[x] = work[x]
    /\ SameOrIdle(work[r], work'[r])
    /\ log' = log /\ pos' = pos
    /\ \A tp \in TPs : committed'[tp] # committed[tp] =>
          work[r].pc # "idle" /\ tp = TpOf(work[r].ev) /\ committed'[tp] = work[r].off
    /\ history \subseteq history'

LEMMA GoToMoves ==
    ASSUME Inv1, NEW r \in Readers, work[r].pc # "idle", NEW w,
           w = Idle \/ (w.ev = work[r].ev /\ w.off = work[r].off),
           Become(r, w)
    PROVE  /\ \A x \in Readers : x # r => work'[x] = work[x]
           /\ work'[r] = w /\ SameOrIdle(work[r], work'[r])
<1>1. \A x \in Readers : work'[x] = IF x = r THEN w ELSE work[x]
  BY DEF Inv1, TypeOK, Become
<1> QED
  BY <1>1 DEF SameOrIdle, Idle

LEMMA ReaderMoves ==
    ASSUME Inv1, NEW r \in Readers, Advance(r) \/ Fault(r), ~Fetch(r)
    PROVE  Moves(r)
<1>0. work[r] \in WorkRecord /\ work[r].pc # "idle"
  BY DEF Inv1, TypeOK, Advance, Fault, Dedup, WriteHistory, ReadLatest, ReadStart,
         InsertCdr, PipeStep, Commit, DedupFails, DedupRetried, HistoryFails, ReadFails,
         CdrFails, PipeFails, PipeRetried, CommitFails, At
<1> DEFINE Stays == /\ \A x \in Readers : x # r => work'[x] = work[x]
                    /\ SameOrIdle(work[r], work'[r])
<1>1. ASSUME NEW pc, GoTo(r, pc)
      PROVE  Stays
  BY <1>0, <1>1, GoToMoves DEF GoTo, WorkRecord
<1>2. ASSUME GiveUp(r) \/ Become(r, Idle)
      PROVE  Stays
  BY <1>0, <1>2, GoToMoves DEF GiveUp
<1>3. ASSUME NEW pc, NEW start, NEW n,
             Become(r, [work[r] EXCEPT !.pc = pc, !.start = start, !.n = n])
      PROVE  Stays
  BY <1>0, <1>3, GoToMoves DEF WorkRecord
<1>4. ASSUME NEW pc, NEW n, Become(r, [work[r] EXCEPT !.pc = pc, !.n = n])
      PROVE  Stays
  BY <1>0, <1>4, GoToMoves DEF WorkRecord
<1>5. ASSUME NEW n, Become(r, [work[r] EXCEPT !.n = n])
      PROVE  Stays
  BY <1>0, <1>5, GoToMoves DEF WorkRecord
<1>6. ASSUME Become(r, BeginUpdate(work[r]))
      PROVE  Stays
  <2>1. BeginUpdate(work[r]) = Idle \/ (/\ BeginUpdate(work[r]).ev = work[r].ev
                                        /\ BeginUpdate(work[r]).off = work[r].off)
    BY <1>0 DEF BeginUpdate, WorkRecord
  <2> QED
    BY <1>0, <1>6, <2>1, GoToMoves
<1> HIDE DEF Stays
<1>7. CASE Dedup(r) \/ DedupFails(r) \/ DedupRetried(r)
  <2>1. Stays
    BY <1>1, <1>2, <1>7 DEF Dedup, DedupFails, DedupRetried
  <2> QED
    BY <1>7, <2>1 DEF Dedup, DedupFails, DedupRetried, kafka, Moves, Stays
<1>8. CASE WriteHistory(r) \/ HistoryFails(r)
  <2>1. Stays
    BY <1>2, <1>6, <1>8 DEF WriteHistory, HistoryFails, HistoryErrorReturned
  <2> QED
    BY <1>8, <2>1 DEF WriteHistory, HistoryFails, Record, kafka, Moves, Stays
<1>9. CASE ReadLatest(r) \/ ReadStart(r) \/ ReadFails(r)
  <2>1. Stays
    BY <1>1, <1>3, <1>4, <1>9 DEF ReadLatest, ReadStart, ReadFails
  <2> QED
    BY <1>9, <2>1 DEF ReadLatest, ReadStart, ReadFails, kafka, Moves, Stays
<1>10. CASE InsertCdr(r) \/ CdrFails(r)
  <2>1. Stays
    BY <1>1, <1>10 DEF InsertCdr, CdrFails
  <2> QED
    BY <1>10, <2>1 DEF InsertCdr, CdrFails, kafka, Moves, Stays
<1>11. CASE PipeStep(r) \/ PipeFails(r) \/ PipeRetried(r)
  <2>1. Stays
    BY <1>1, <1>2, <1>5, <1>11 DEF PipeStep, PipeFails, PipeRetried
  <2> QED
    BY <1>11, <2>1 DEF PipeStep, PipeFails, PipeRetried, kafka, Moves, Stays
<1>12. CASE Commit(r)
  <2>1. Stays
    BY <1>2, <1>12 DEF Commit
  <2>2. \A tp \in TPs : committed'[tp] # committed[tp] =>
           tp = TpOf(work[r].ev) /\ committed'[tp] = work[r].off
    BY <1>12 DEF Commit, Inv1, TypeOK
  <2> QED
    BY <1>0, <1>12, <2>1, <2>2 DEF Commit, Moves, Stays
<1>13. CASE CommitFails(r)
  <2>1. Stays
    BY <1>2, <1>13 DEF CommitFails
  <2> QED
    BY <1>13, <2>1 DEF CommitFails, kafka, Moves, Stays
<1> QED
  BY <1>7, <1>8, <1>9, <1>10, <1>11, <1>12, <1>13 DEF Advance, Fault

\* Such a step gets the group past nothing it was not past.
LEMMA MovesBehind ==
    ASSUME Inv1, OffsetsOK, NEW r \in Readers, Moves(r)
    PROVE  OffsetsOK' /\ \A m : Behind(m)' => Behind(m)
<1>1. \A tp \in TPs : \A k : Reached(tp, k)' => Reached(tp, k)
  BY DEF Moves, SameOrIdle, Reached
<1>2. \A m : Behind(m)' => Behind(m)
  BY <1>1 DEF Behind, Moves
<1>3. \A tp \in TPs : committed'[tp] =< Len(log'[tp])
  BY DEF OffsetsOK, Moves
<1>4. \A x \in Readers : work'[x].pc # "idle" =>
         work'[x].off =< Len(log'[TpOf(work'[x].ev)])
  BY DEF OffsetsOK, Moves, SameOrIdle
<1> QED
  BY <1>2, <1>3, <1>4 DEF OffsetsOK, Moves

-----------------------------------------------------------------------------
(* Which messages a step dooms                                             *)

\* A step that gets the group past nothing new dooms no message but the one
\* its goroutine is to deduplicate or record.
LEMMA Unaffected ==
    ASSUME Inv1, NEW r \in Readers, NEW m \in Msgs,
           \A x \in Readers : x # r => work'[x] = work[x],
           ~Holds(work[r], m),
           history \subseteq history', m \in dedup' => m \in dedup,
           Behind(m)' => Behind(m), m \notin Doomed
    PROVE  m \notin Doomed'
<1>1. Recorded(m) => Recorded(m)'
  BY DEF Recorded
<1>2. Recording(m) => Recording(m)'
  BY DEF Recording, Holds
<1>3. InFlight(m) => InFlight(m)'
  BY DEF InFlight, Holds
<1> QED
  BY <1>1, <1>2, <1>3 DEF Doomed

LEMMA FetchDooms ==
    ASSUME Inv1, OffsetsOK, NEW r \in Readers, Fetch(r)
    PROVE  OffsetsOK' /\ Doomed' \subseteq Doomed
<1>1. PICK p \in Partitions :
         /\ At(r, "idle") /\ pos[<<r[2], p>>] < Len(log[<<r[2], p>>])
         /\ pos' = [pos EXCEPT ![<<r[2], p>>] = @ + 1]
         /\ Become(r, [Idle EXCEPT !.pc = "dedup", !.ev = log[<<r[2], p>>][pos[<<r[2], p>>] + 1],
                                   !.off = pos[<<r[2], p>>] + 1])
  BY DEF Fetch
<1> DEFINE tp == <<r[2], p>>
           k  == pos[tp] + 1
           e  == log[tp][k]
<1>2. tp \in TPs /\ pos[tp] \in Nat /\ k \in DOMAIN log[tp] /\ e \in Events /\ TpOf(e) = tp
  <2>1. tp \in TPs /\ log[tp] \in Seq(Events) /\ pos[tp] \in Nat
    BY DEF Readers, TPs, Inv1, TypeOK
  <2>2. k \in DOMAIN log[tp]
    BY <1>1, <2>1
  <2> QED
    BY <2>1, <2>2 DEF Inv1, LogOK
<1>3. /\ \A x \in Readers : x # r => work'[x] = work[x]
      /\ work'[r].pc = "dedup" /\ work'[r].ev = e /\ work'[r].off = k
      /\ work[r].pc = "idle"
  BY <1>1 DEF Become, Idle, At, Inv1, TypeOK
<1>4. /\ \A q \in TPs : pos'[q] = IF q = tp THEN k ELSE pos[q]
      /\ UNCHANGED <<log, committed, history, dedup>>
  BY <1>1 DEF Fetch, Inv1, TypeOK
<1> HIDE DEF tp, k, e
<1>5. OffsetsOK'
  <2>1. k =< Len(log[tp])
    BY <1>2 DEF Inv1, TypeOK
  <2>2. \A q \in TPs : pos'[q] =< Len(log'[q]) /\ committed'[q] =< Len(log'[q])
    BY <1>4, <2>1 DEF OffsetsOK
  <2>3. \A x \in Readers : work'[x].pc # "idle" =>
           work'[x].off =< Len(log'[TpOf(work'[x].ev)])
    BY <1>2, <1>3, <1>4, <2>1 DEF OffsetsOK
  <2> QED
    BY <2>2, <2>3 DEF OffsetsOK
<1>6. \A q \in TPs : \A j \in DOMAIN log[q] :
         Reached(q, j)' => Reached(q, j) \/ (q = tp /\ j = k)
  <2> SUFFICES ASSUME NEW q \in TPs, NEW j \in DOMAIN log[q], Reached(q, j)'
               PROVE  Reached(q, j) \/ (q = tp /\ j = k)
    OBVIOUS
  <2>1. j \in Nat /\ pos[q] \in Nat
    BY DEF Inv1, TypeOK
  <2>2. CASE j =< pos'[q]
    <3>1. CASE q = tp
      <4>1. j =< pos[q] \/ j = k
        BY <1>4, <2>1, <2>2, <3>1 DEF k
      <4> QED
        BY <3>1, <4>1 DEF Reached
    <3>2. CASE q # tp
      BY <1>4, <2>2, <3>2 DEF Reached
    <3> QED
      BY <3>1, <3>2
  <2>3. CASE j =< committed'[q]
    BY <1>4, <2>3 DEF Reached
  <2>4. ASSUME NEW x \in Readers, work'[x].pc # "idle", TpOf(work'[x].ev) = q,
               j =< work'[x].off
        PROVE  Reached(q, j) \/ (q = tp /\ j = k)
    <3>1. CASE x # r
      BY <1>3, <2>4, <3>1 DEF Reached
    <3>2. CASE x = r
      <4>1. q = tp /\ j =< k
        BY <1>2, <1>3, <2>4, <3>2
      <4>2. j =< pos[q] \/ j = k
        BY <2>1, <4>1 DEF k
      <4> QED
        BY <4>1, <4>2 DEF Reached
    <3> QED
      BY <3>1, <3>2
  <2> QED
    BY <2>2, <2>3, <2>4 DEF Reached
<1>7. \A m : Behind(m)' => Behind(m) \/ m = e.msg
  BY <1>4, <1>6 DEF Behind, e
<1>8. ASSUME NEW m \in Msgs, m \notin Doomed
      PROVE  m \notin Doomed'
  <2>1. Recorded(m)' <=> Recorded(m)
    BY <1>4 DEF Recorded
  <2>2. Recording(m) => Recording(m)'
    BY <1>3 DEF Recording
  <2>3. InFlight(m) \/ m = e.msg => InFlight(m)'
    BY <1>3 DEF InFlight
  <2> QED
    BY <1>4, <1>7, <1>8, <2>1, <2>2, <2>3 DEF Doomed
<1>9. Doomed' \subseteq Msgs
  BY DEF Doomed, Msgs
<1> QED
  BY <1>5, <1>8, <1>9

\* A step dooms at most the message at hand, and only a failed or re-sent call
\* dooms that one.
LEMMA ReaderDooms ==
    ASSUME Inv1, OffsetsOK, NEW r \in Readers, Advance(r) \/ Fault(r)
    PROVE  /\ OffsetsOK'
           /\ \/ Doomed' \subseteq Doomed
              \/ /\ Doomed' \subseteq Doomed \union {work[r].ev.msg}
                 /\ Spend("error") \/ Spend("retry")
<1>0. Doomed' \subseteq Msgs
  BY DEF Doomed, Msgs
<1>1. CASE Fetch(r)
  BY <1>1, FetchDooms
<1>2. ASSUME ~Fetch(r)
      PROVE  Moves(r) /\ OffsetsOK' /\ \A m : Behind(m)' => Behind(m)
  BY <1>2, ReaderMoves, MovesBehind
<1>3. ASSUME NEW m \in Msgs, m \notin Doomed, ~Fetch(r), ~Holds(work[r], m)
      PROVE  m \notin Doomed'
  <2>1. m \in dedup' => m \in dedup
    BY <1>3 DEF Advance, Fault, Dedup, WriteHistory, ReadLatest, ReadStart, InsertCdr,
                PipeStep, Commit, DedupFails, DedupRetried, HistoryFails, ReadFails,
                CdrFails, PipeFails, PipeRetried, CommitFails, Claim, At, Holds
  <2> QED
    BY <1>2, <1>3, <2>1, Unaffected DEF Moves
<1>4. ASSUME NEW m \in Msgs, m \notin Doomed, Dedup(r), Holds(work[r], m)
      PROVE  m \notin Doomed'
  <2>1. work[r].pc = "dedup" /\ work[r].ev.msg = m /\ ~Fetch(r) /\ history' = history
    BY <1>4 DEF Dedup, Holds, At, Fetch
  <2>2. \A x \in Readers : x # r => work'[x] = work[x]
    BY <1>2, <2>1 DEF Moves
  <2>3. CASE Taken(work[r].ev)
    <3>1. m \in dedup /\ dedup' = dedup
      BY <1>4, <2>1, <2>3 DEF Dedup, Taken
    <3>2. CASE Recorded(m)
      BY <2>1, <3>2 DEF Doomed, Recorded
    <3>3. CASE ~Recorded(m)
      <4>1. PICK x \in Readers : work[x].pc = "history" /\ work[x].ev.msg = m
        BY <1>4, <3>1, <3>3 DEF Doomed, Recording
      <4>2. work'[x] = work[x]
        BY <2>1, <2>2, <4>1
      <4>3. Recording(m)' /\ InFlight(m)'
        BY <4>1, <4>2 DEF Recording, InFlight
      <4> QED
        BY <4>3 DEF Doomed
    <3> QED
      BY <3>2, <3>3
  <2>4. CASE ~Taken(work[r].ev)
    <3>1. work'[r].pc = "history" /\ work'[r].ev = work[r].ev
      BY <1>4, <2>4 DEF Dedup, GoTo, Become, Inv1, TypeOK, WorkRecord
    <3>2. Recording(m)' /\ InFlight(m)'
      BY <2>1, <3>1 DEF Recording, InFlight
    <3> QED
      BY <3>2 DEF Doomed
  <2> QED
    BY <2>3, <2>4
<1>5. ASSUME NEW m \in Msgs, WriteHistory(r), Holds(work[r], m)
      PROVE  m \notin Doomed'
  BY <1>5 DEF WriteHistory, Record, Holds, Doomed, Recorded
<1>6. CASE Dedup(r) \/ WriteHistory(r)
  <2>1. ~Fetch(r)
    BY <1>6 DEF Dedup, WriteHistory, Fetch, At
  <2>2. Doomed' \subseteq Doomed
    BY <1>0, <1>3, <1>4, <1>5, <1>6, <2>1
  <2> QED
    BY <1>2, <2>1, <2>2
<1>7. CASE DedupFails(r) \/ DedupRetried(r) \/ HistoryFails(r)
  <2>1. ~Fetch(r) /\ (Spend("error") \/ Spend("retry"))
    BY <1>7 DEF DedupFails, DedupRetried, HistoryFails, Fetch, At
  <2>2. Doomed' \subseteq Doomed \union {work[r].ev.msg}
    BY <1>0, <1>3, <2>1 DEF Holds
  <2> QED
    BY <1>2, <2>1, <2>2
<1>8. CASE work[r].pc \notin {"idle", "dedup", "history"}
  <2>1. ~Fetch(r) /\ \A m : ~Holds(work[r], m)
    BY <1>8 DEF Fetch, At, Holds
  <2>2. Doomed' \subseteq Doomed
    BY <1>0, <1>3, <2>1
  <2> QED
    BY <1>2, <2>1, <2>2
<1> QED
  BY <1>1, <1>6, <1>7, <1>8
     DEF Advance, Fault, ReadLatest, ReadStart, InsertCdr, PipeStep, Commit, ReadFails,
         CdrFails, PipeFails, PipeRetried, CommitFails, At

-----------------------------------------------------------------------------
(* The environment                                                         *)

LEMMA ArriveDooms ==
    ASSUME Inv1, OffsetsOK, NEW e \in Events, Arrives(e)
    PROVE  OffsetsOK' /\ Doomed' \subseteq Doomed
<1> DEFINE t == TpOf(e)
<1>1. t \in TPs
  BY TopicType
<1>2. /\ log' = [log EXCEPT ![t] = Append(@, e)]
      /\ UNCHANGED <<committed, pos, work, dedup, history>>
  BY DEF Arrives
<1> HIDE DEF t
<1>3. \A q \in TPs : /\ log[q] \in Seq(Events)
                     /\ log'[q] = IF q = t THEN Append(log[q], e) ELSE log[q]
                     /\ pos[q] \in Nat /\ committed[q] \in Nat
  BY <1>1, <1>2 DEF Inv1, TypeOK
<1>4. \A q \in TPs : /\ Len(log[q]) \in Nat /\ Len(log[q]) =< Len(log'[q])
                     /\ \A k \in DOMAIN log'[q] :
                           \/ k \in DOMAIN log[q] /\ log'[q][k] = log[q][k]
                           \/ k = Len(log[q]) + 1
  <2> SUFFICES ASSUME NEW q \in TPs
               PROVE  /\ Len(log[q]) \in Nat /\ Len(log[q]) =< Len(log'[q])
                      /\ \A k \in DOMAIN log'[q] :
                            \/ k \in DOMAIN log[q] /\ log'[q][k] = log[q][k]
                            \/ k = Len(log[q]) + 1
    OBVIOUS
  <2>1. log[q] \in Seq(Events) /\ (log'[q] = log[q] \/ log'[q] = Append(log[q], e))
    BY <1>3
  <2> QED
    BY <1>1, <2>1
<1>5. \A r \in Readers : work[r].pc # "idle" => TpOf(work[r].ev) \in TPs /\ work[r].off \in Nat
  BY TopicType DEF Inv1, TypeOK, WorkOK, ReaderOK, WorkRecord
<1>6. OffsetsOK'
  <2>1. \A q \in TPs : pos'[q] =< Len(log'[q]) /\ committed'[q] =< Len(log'[q])
    BY <1>2, <1>3, <1>4 DEF OffsetsOK
  <2>2. \A r \in Readers : work'[r].pc # "idle" =>
           work'[r].off =< Len(log'[TpOf(work'[r].ev)])
    BY <1>2, <1>4, <1>5 DEF OffsetsOK
  <2> QED
    BY <2>1, <2>2 DEF OffsetsOK
<1>7. \A q \in TPs : \A k : Reached(q, k)' <=> Reached(q, k)
  BY <1>2 DEF Reached
<1>8. \A q \in TPs : ~Reached(q, Len(log[q]) + 1)
  BY <1>3, <1>4, <1>5 DEF Reached, OffsetsOK
<1>9. \A m : Behind(m)' => Behind(m)
  BY <1>4, <1>7, <1>8 DEF Behind
<1> QED
  BY <1>2, <1>6, <1>9 DEF Doomed, Recorded, Recording, InFlight, Msgs

LEMMA RebalanceDooms ==
    ASSUME Inv1, OffsetsOK, NEW tp \in TPs, NEW i \in Instances, Rebalance(tp, i)
    PROVE  OffsetsOK' /\ Doomed' \subseteq Doomed
<1>1. pos' = committed /\ UNCHANGED <<log, committed, work, dedup, history>>
  BY DEF Rebalance
<1>2. \A m : Behind(m)' => Behind(m)
  BY <1>1 DEF Behind, Reached
<1> QED
  BY <1>1, <1>2 DEF OffsetsOK, Doomed, Recorded, Recording, InFlight, Msgs

LEMMA ExpiryDooms ==
    ASSUME OffsetsOK, (\E m \in Msgs : DedupExpires(m)) \/ (\E c \in Chargers : TxExpires(c))
    PROVE  OffsetsOK' /\ Doomed' \subseteq Doomed
<1>1. UNCHANGED <<log, committed, pos, work, history>> /\ dedup' \subseteq dedup
  BY DEF DedupExpires, TxExpires, kafka
<1> QED
  BY <1>1 DEF OffsetsOK, Doomed, Recorded, Recording, InFlight, Behind, Reached, Msgs

\* The message that the goroutine of each topic holds when its process dies
Dropped(i) == [t \in Topics |-> work[<<i, t>>].ev.msg]

LEMMA DroppedBound ==
    ASSUME NEW i
    PROVE  LET D == {Dropped(i)[t] : t \in Topics} IN
           IsFiniteSet(D) /\ Cardinality(D) =< Cardinality(Topics)
<1> DEFINE f == Dropped(i)
           D == {f[t] : t \in Topics}
<1>1. f \in [Topics -> D]
  BY DEF Dropped
<1> HIDE DEF f
<1>2. f \in Surjection(Topics, D)
  BY <1>1 DEF Surjection
<1> HIDE DEF D
<1>3. IsFiniteSet(D) /\ Cardinality(D) =< Cardinality(Topics)
  BY <1>2, TopicsFinite, FS_Surjection
<1> QED
  BY <1>3 DEF D, f

LEMMA CrashDooms ==
    ASSUME Inv1, OffsetsOK, NEW i \in Instances, Crash(i)
    PROVE  /\ OffsetsOK'
           /\ Doomed' \subseteq Doomed \union {Dropped(i)[t] : t \in Topics}
<1>1. /\ UNCHANGED <<log, committed, history, dedup>>
      /\ \A r \in Readers : work'[r] = IF r[1] = i THEN Idle ELSE work[r]
      /\ \A tp \in TPs : pos'[tp] = pos[tp] \/ pos'[tp] = committed[tp]
  BY DEF Crash
<1>2. OffsetsOK'
  BY <1>1 DEF OffsetsOK, Idle
<1>3. \A m : Behind(m)' => Behind(m)
  <2>1. \A tp \in TPs : \A k : Reached(tp, k)' => Reached(tp, k)
    BY <1>1 DEF Reached, Idle
  <2> QED
    BY <1>1, <2>1 DEF Behind
<1>4. ASSUME NEW m \in Msgs, m \notin Doomed,
             \A t \in Topics : Dropped(i)[t] # m
      PROVE  m \notin Doomed'
  <2>1. \A r \in Readers : Holds(work[r], m) => work'[r] = work[r]
    BY <1>1, <1>4 DEF Dropped, Holds, Readers
  <2>2. Recorded(m)' <=> Recorded(m)
    BY <1>1 DEF Recorded
  <2>3. Recording(m) => Recording(m)'
    BY <2>1 DEF Recording, Holds
  <2>4. InFlight(m) => InFlight(m)'
    BY <2>1 DEF InFlight, Holds
  <2> QED
    BY <1>1, <1>3, <1>4, <2>2, <2>3, <2>4 DEF Doomed
<1>5. Doomed' \subseteq Msgs
  BY DEF Doomed, Msgs
<1> QED
  BY <1>2, <1>4, <1>5

-----------------------------------------------------------------------------
(* Counting                                                                *)

LEMMA LossesType == Inv1 => Losses \in Nat
<1> SUFFICES ASSUME Inv1
             PROVE  Losses \in Nat
  OBVIOUS
<1>1. /\ used["error"] \in Nat /\ used["retry"] \in Nat /\ used["crash"] \in Nat
      /\ Cardinality(Topics) \in Nat
  BY TopicsFinite DEF Inv1, TypeOK, Kinds
<1> QED
  BY <1>1 DEF Losses

LEMMA LossesGrow ==
    ASSUME Inv1, [Next]_vars
    PROVE  /\ Losses \in Nat /\ Losses' \in Nat /\ Losses =< Losses'
           /\ Spend("error") \/ Spend("retry") => Losses + 1 =< Losses'
           /\ Spend("crash") => Losses + Cardinality(Topics) =< Losses'
<1> DEFINE n == Cardinality(Topics)
           C(u) == n * u["crash"]
<1>1. /\ n \in Nat
      /\ \A k \in Kinds : used[k] \in Nat /\ used'[k] \in Nat /\ used[k] =< used'[k]
  BY TopicsFinite, Inv1Step, UsedGrows DEF Inv1, TypeOK
<1>2. \A k \in Kinds : Spend(k) => used'[k] >= used[k] + 1
  <2> SUFFICES ASSUME NEW k \in Kinds, Spend(k)
               PROVE  used'[k] >= used[k] + 1
    OBVIOUS
  <2>1. used' = [used EXCEPT ![k] = @ + 1, !["any"] = @ + 1] /\ used \in [Kinds -> Nat]
    BY DEF Spend, Inv1, TypeOK
  <2>2. used'[k] = used[k] + 1 \/ used'[k] = used[k] + 2
    BY <2>1
  <2> QED
    BY <1>1, <2>2
<1>3. /\ used["error"] \in Nat /\ used["retry"] \in Nat /\ used["crash"] \in Nat
      /\ used'["error"] \in Nat /\ used'["retry"] \in Nat /\ used'["crash"] \in Nat
      /\ used["error"] =< used'["error"] /\ used["retry"] =< used'["retry"]
      /\ used["crash"] =< used'["crash"]
      /\ Spend("error") => used["error"] + 1 =< used'["error"]
      /\ Spend("retry") => used["retry"] + 1 =< used'["retry"]
      /\ Spend("crash") => used["crash"] + 1 =< used'["crash"]
  BY <1>1, <1>2 DEF Kinds
<1>4. /\ C(used) \in Nat /\ C(used') \in Nat /\ C(used) =< C(used')
      /\ Spend("crash") => C(used) + n =< C(used')
  <2>1. PICK d \in Nat : used'["crash"] = used["crash"] + d /\ (Spend("crash") => d >= 1)
    <3>1. used'["crash"] - used["crash"] \in Nat
      BY <1>3
    <3> QED
      BY <1>3, <3>1
  <2>2. C(used') = C(used) + n * d
    BY <1>1, <1>3, <2>1
  <2>3. n * d \in Nat /\ C(used) \in Nat
    BY <1>1, <1>3
  <2>4. Spend("crash") => n =< n * d
    <3> SUFFICES ASSUME d >= 1
                 PROVE  n =< n * d
      BY <2>1
    <3>1. PICK f \in Nat : d = f + 1
      <4>1. d - 1 \in Nat
        OBVIOUS
      <4> QED
        BY <4>1
    <3>2. n * d = n * f + n /\ n * f \in Nat
      BY <1>1, <3>1
    <3> QED
      BY <1>1, <3>2
  <2> HIDE DEF C
  <2> QED
    BY <1>1, <2>2, <2>3, <2>4
<1>5. Losses = used["error"] + used["retry"] + C(used)
      /\ Losses' = used'["error"] + used'["retry"] + C(used')
  BY DEF Losses
<1> HIDE DEF C
<1> QED
  BY <1>1, <1>3, <1>4, <1>5

LEMMA Inv7Step == Inv7 /\ [Next]_vars => Inv7'
<1> SUFFICES ASSUME Inv7, [Next]_vars
             PROVE  Inv7'
  OBVIOUS
<1>1. /\ Inv1 /\ Inv1' /\ OffsetsOK
      /\ IsFiniteSet(Doomed) /\ Cardinality(Doomed) \in Nat /\ Cardinality(Doomed) =< Losses
  BY Inv1Step, FS_CardinalityType DEF Inv7
<1>2. /\ Losses \in Nat /\ Losses' \in Nat /\ Losses =< Losses'
      /\ Spend("error") \/ Spend("retry") => Losses + 1 =< Losses'
      /\ Spend("crash") => Losses + Cardinality(Topics) =< Losses'
  BY <1>1, LossesGrow
<1> HIDE DEF Losses
<1>3. ASSUME OffsetsOK', Doomed' \subseteq Doomed
      PROVE  Inv7'
  <2>1. IsFiniteSet(Doomed') /\ Cardinality(Doomed') =< Cardinality(Doomed)
    BY <1>1, <1>3, FS_Subset
  <2>2. Cardinality(Doomed') \in Nat
    BY <2>1, FS_CardinalityType
  <2> QED
    BY <1>1, <1>2, <1>3, <2>1, <2>2 DEF Inv7
<1>4. ASSUME OffsetsOK', NEW m, Doomed' \subseteq Doomed \union {m},
             Spend("error") \/ Spend("retry")
      PROVE  Inv7'
  <2>1. /\ IsFiniteSet(Doomed \union {m})
        /\ Cardinality(Doomed \union {m}) \in {Cardinality(Doomed), Cardinality(Doomed) + 1}
    BY <1>1, FS_AddElement
  <2>2. IsFiniteSet(Doomed') /\ Cardinality(Doomed') =< Cardinality(Doomed \union {m})
    BY <1>4, <2>1, FS_Subset
  <2>3. Cardinality(Doomed') \in Nat
    BY <2>2, FS_CardinalityType
  <2> QED
    BY <1>1, <1>2, <1>4, <2>1, <2>2, <2>3 DEF Inv7
<1>5. ASSUME NEW i \in Instances, Crash(i)
      PROVE  Inv7'
  <2> DEFINE D == {Dropped(i)[t] : t \in Topics}
  <2>1. OffsetsOK' /\ Doomed' \subseteq Doomed \union D /\ Spend("crash")
    BY <1>1, <1>5, CrashDooms DEF Crash
  <2>2. IsFiniteSet(D) /\ Cardinality(D) =< Cardinality(Topics)
    BY DroppedBound
  <2> HIDE DEF D
  <2>3. /\ Cardinality(D) \in Nat /\ Cardinality(Topics) \in Nat
        /\ IsFiniteSet(Doomed \union D) /\ Cardinality(Doomed \union D) \in Nat
        /\ Cardinality(Doomed \union D) =< Cardinality(Doomed) + Cardinality(D)
    <3>1. IsFiniteSet(Doomed \intersect D)
      BY <1>1, FS_Subset
    <3>2. /\ Cardinality(D) \in Nat /\ Cardinality(Doomed \intersect D) \in Nat
          /\ Cardinality(Topics) \in Nat
      BY <2>2, <3>1, TopicsFinite, FS_CardinalityType
    <3>3. /\ IsFiniteSet(Doomed \union D)
          /\ Cardinality(Doomed \union D) =
                Cardinality(Doomed) + Cardinality(D) - Cardinality(Doomed \intersect D)
      BY <1>1, <2>2, FS_Union
    <3>4. Cardinality(Doomed \union D) \in Nat
      BY <3>3, FS_CardinalityType
    <3> QED
      BY <1>1, <3>2, <3>3, <3>4
  <2>4. IsFiniteSet(Doomed') /\ Cardinality(Doomed') =< Cardinality(Doomed \union D)
    BY <2>1, <2>3, FS_Subset
  <2>5. Cardinality(Doomed') \in Nat
    BY <2>4, FS_CardinalityType
  <2>6. Cardinality(Doomed') =< Losses'
    BY <1>1, <1>2, <2>1, <2>2, <2>3, <2>4, <2>5
  <2> QED
    BY <1>1, <2>1, <2>4, <2>6 DEF Inv7
<1>6. ASSUME NEW r \in Readers, Advance(r) \/ Fault(r)
      PROVE  Inv7'
  BY <1>1, <1>3, <1>4, <1>6, ReaderDooms
<1>7. CASE Environment
  BY <1>1, <1>3, <1>5, <1>7, ProduceArrives, ArriveDooms, RebalanceDooms, ExpiryDooms
     DEF Environment
<1>8. CASE UNCHANGED vars
  <2>1. OffsetsOK' /\ Doomed' = Doomed
    BY <1>1, <1>8
       DEF OffsetsOK, Doomed, Recorded, Recording, InFlight, Behind, Reached, vars, kafka
  <2> QED
    BY <1>3, <2>1
<1> QED
  BY <1>6, <1>7, <1>8 DEF Next

\* The log may as well be filled by another program.
LEMMA ArriveInv7 ==
    ASSUME Inv7, NEW e \in Events, Arrives(e)
    PROVE  Inv7'
<1>1. Inv1' /\ OffsetsOK' /\ Doomed' \subseteq Doomed
  BY ArriveOK, ArriveDooms DEF Inv7
<1>2. /\ IsFiniteSet(Doomed') /\ Cardinality(Doomed') =< Cardinality(Doomed)
      /\ Cardinality(Doomed') \in Nat /\ Cardinality(Doomed) \in Nat
  BY <1>1, FS_Subset, FS_CardinalityType DEF Inv7
<1>3. Losses' = Losses /\ Losses \in Nat
  BY LossesType DEF Arrives, Losses, Inv7
<1> QED
  BY <1>1, <1>2, <1>3 DEF Inv7

LEMMA InitInv7 == Init => Inv7
<1> SUFFICES ASSUME Init PROVE Inv7
  OBVIOUS
<1>1. Inv1 /\ OffsetsOK
  BY Inv1Init DEF Init, OffsetsOK, Idle
<1>2. Doomed = {}
  BY DEF Init, Doomed, Behind
<1>3. Losses \in Nat
  <2>1. /\ used["error"] = 0 /\ used["retry"] = 0 /\ used["crash"] = 0
        /\ Cardinality(Topics) \in Nat
    BY TopicsFinite DEF Init, Kinds
  <2> QED
    BY <2>1 DEF Losses
<1> QED
  BY <1>1, <1>2, <1>3, FS_EmptySet DEF Inv7

LEMMA LostAreDoomed == LostMessages \subseteq Doomed
BY DEF LostMessages, Doomed, Passed, Behind, Reached

\* However many instances, rebalances, resends and expiries there are, the
\* messages the group has moved past without a row are no more than the calls
\* that failed or were sent again, plus one per goroutine of a crashed process
\* (LossBounded).
THEOREM LossIsBounded == Spec => []LossBounded
<1>1. Inv7 => LossBounded
  <2> SUFFICES ASSUME Inv7
               PROVE  LossBounded
    OBVIOUS
  <2>1. IsFiniteSet(LostMessages) /\ Cardinality(LostMessages) =< Cardinality(Doomed)
    BY LostAreDoomed, FS_Subset DEF Inv7
  <2>2. Cardinality(LostMessages) \in Nat /\ Cardinality(Doomed) \in Nat
    BY <2>1, FS_CardinalityType DEF Inv7
  <2>3. Losses \in Nat
    BY LossesType DEF Inv7
  <2>4. Cardinality(LostMessages) =< Losses
    BY <2>1, <2>2, <2>3 DEF Inv7
  <2> QED
    BY <2>4 DEF LossBounded, Losses
<1> QED
  BY InitInv7, <1>1, Inv7Step, PTL DEF Spec
=============================================================================
