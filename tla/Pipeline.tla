------------------------------- MODULE Pipeline -------------------------------
(***************************************************************************)
(* From a charger's CALL to what the API can show: Gateway and             *)
(* StateProcessor with Kafka between them.  Both describe Kafka: what the  *)
(* gateway's writer has put into a partition is what the state-processor's *)
(* readers fetch from it, as the event that makeEvent has built.           *)
(***************************************************************************)
EXTENDS Naturals, Sequences, FiniteSets

CONSTANTS
    Conns, ChargerOf, Script, Partitions, PartitionOf, GatewayBudget,
    EventOf,      \* connection and place of a frame -> its event.Event
    Connectors, Instances, Second, ProcessorBudget, None

VARIABLES
    h, lost, txCounter, life, replies, queue, kafka, closed, stage, gatewayUsed,
    committed, pos, owner, work, dedup, redis, history, sessions, processorUsed

G == INSTANCE Gateway WITH Budget <- GatewayBudget, log <- kafka, used <- gatewayUsed

\* the topics and partitions, with events in the place of frames
Consumed == [tp \in DOMAIN kafka |-> [i \in DOMAIN kafka[tp] |-> EventOf[kafka[tp][i]]]]

S == INSTANCE StateProcessorProperties WITH
         Events <- {EventOf[ev] : ev \in DOMAIN EventOf},
         Feeds <- {<<>>}, feed <- <<>>, log <- Consumed,
         Chargers <- DOMAIN PartitionOf, Budget <- ProcessorBudget, used <- processorUsed

gateway   == <<h, lost, txCounter, life, replies, queue, kafka, closed, stage, gatewayUsed>>
processor == <<committed, pos, owner, work, dedup, redis, history, sessions, processorUsed>>
vars      == <<gateway, processor>>

ASSUME GatewayAssumption ==
    /\ Script \in [Conns -> Seq(G!Frames)]
    /\ ChargerOf \in [Conns -> DOMAIN PartitionOf]
    /\ PartitionOf \in [DOMAIN PartitionOf -> Partitions]
    /\ GatewayBudget \in [G!Kinds -> Nat]

ASSUME ProcessorAssumption ==
    /\ 0 \in Connectors /\ Connectors \subseteq Nat
    /\ Second \in Nat \ {0}
    /\ ProcessorBudget \in [S!Kinds -> Nat]
    /\ \A ev \in DOMAIN EventOf : EventOf[ev] # None

\* makeEvent: the CALLs that can be answered and have a topic become events of
\* their charger
Frames == UNION {{c} \X DOMAIN Script[c] : c \in Conns}
ASSUME EventAssumption ==
    /\ DOMAIN EventOf = {ev \in Frames : /\ G!Answerable(G!FrameOf(ev))
                                         /\ G!TopicOf(G!FrameOf(ev)) # ""}
    /\ \A ev \in DOMAIN EventOf :
          /\ EventOf[ev].type = G!FrameOf(ev).action
          /\ EventOf[ev].charger = G!Key(ev)
          /\ EventOf[ev].conn \in Connectors
          /\ EventOf[ev].ts \in Nat
          /\ EventOf[ev].body \in S!Bodies

Init == G!Init /\ S!Init

GatewayStep   == G!Next /\ UNCHANGED processor
ProcessorStep == UNCHANGED gateway /\ S!Next

Next == GatewayStep \/ ProcessorStep

Spec == Init /\ [][Next]_vars

\* While some goroutine, of either side, can go on, one does.  There is only so
\* much to do, so that each gets its turn.
Work == \/ (\E c \in Conns : G!Handle(c)) /\ UNCHANGED processor
        \/ (\E tp \in G!TPs : G!Deliver(tp)) /\ UNCHANGED processor
        \/ UNCHANGED gateway /\ \E r \in S!Readers : S!Advance(r)
FairSpec == Spec /\ WF_vars(Work)

-----------------------------------------------------------------------------
Answered     == {ev \in DOMAIN EventOf : \E i \in DOMAIN replies : replies[i].ev = ev}
Recorded(ev) == S!Recorded(EventOf[ev].msg)

\* the CALLs answered whose event is nowhere any more: not in the gateway's
\* hands, nor to be fetched from Kafka, nor being recorded, nor in the history
Gone == {ev \in Answered :
            /\ ~(h[ev[1]].k = ev[2] /\ h[ev[1]].pc = "publish")
            /\ ~G!Queued(ev)
            /\ \A i \in DOMAIN kafka[G!TpOf(ev)] :
                   kafka[G!TpOf(ev)][i] = ev => i <= pos[G!TpOf(ev)]
            /\ ~S!InFlight(EventOf[ev].msg)
            /\ ~Recorded(ev)}

\* From the answer to the row in event_history a message is lost only by a
\* publication given up, a call of the state-processor that fails or a SETNX
\* sent twice, each of which costs one, a crash of the state-processor, which
\* costs one per goroutine, or the end of the gateway.
LossEndToEnd ==
    gatewayUsed["restart"] = 0 =>
        Cardinality({EventOf[ev].msg : ev \in Gone}) <= gatewayUsed["publish"] + processorUsed["error"]
            + processorUsed["retry"] + Cardinality(S!Topics) * processorUsed["crash"]

Lossy == \/ gatewayUsed["publish"] + gatewayUsed["restart"] > 0
         \/ processorUsed["error"] + processorUsed["retry"] + processorUsed["crash"] > 0

\* Without those, every CALL that is answered and has a topic gets its row,
\* though its connection is lost meanwhile, its publication exceeds the deadline
\* or is written twice, or its partition moves to another instance while the
\* first still handles it (handleOCPP to writeHistory).
AnsweredIsRecorded ==
    <>[](Lossy \/ \A ev \in Answered : Recorded(ev))

OneOwner == \E i \in Instances : [](\A tp \in S!TPs : owner[tp] = i)

\* The events of a charger that has reconnected can reach Kafka out of order
\* (ClaimOrder), twice, or be read again.  As long as one instance owns the
\* partitions and no read of its guard fails, a connector comes to show its newest
\* answered status or meter values, to the second, all the same (handleOCPP to
\* updateConnectorStatus).  With a second owner it need not (ClaimLatest), nor when
\* two of its messages share an id, which makes the second a duplicate.
ShownCatchesUp ==
    OneOwner =>
        <>[](\/ Lossy \/ processorUsed["read"] > 0
             \/ \A ev \in Answered : LET e == EventOf[ev] IN
                    S!Shows(e) => LET old == redis[S!GuardSlot(e)] IN
                        old # None /\ S!Trunc(e.ts) <= S!Trunc(old.ts))
=============================================================================
