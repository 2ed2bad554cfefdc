------------------------------- MODULE Gateway -------------------------------
(***************************************************************************)
(* The WebSocket gateway (cmd/wsgw/main.go): one handler goroutine per     *)
(* connection reads frames, answers each CALL and then publishes its event *)
(* to Kafka, waiting at most five seconds for the writer                   *)
(* (internal/kafka/producer.go).  A charger that loses its connection      *)
(* opens another, whose handler runs beside the one it left behind.        *)
(***************************************************************************)
EXTENDS Naturals, Sequences, FiniteSets

CONSTANTS
    Conns,        \* WebSocket connections, each used once
    ChargerOf,    \* connection -> the chargePointId of its URL
    Script,       \* connection -> the frames its charger sends, in order
    Partitions,
    PartitionOf,  \* Kafka's Hash balancer: charger -> partition
    Budget        \* how many faults of each kind may happen

Calls  == {"BootNotification", "StatusNotification", "MeterValues", "Heartbeat",
           "StartTransaction", "StopTransaction"}
\* "Other" stands for the actions processCall does not know
Actions == Calls \union {"Other"}
\* what ParseMessage looks at in a JSON array: how many elements it has, its
\* type (2: CALL, 3: CALLRESULT, 4: CALLERROR), whether its message id is text
\* that %q quotes as JSON does, and a CALL's action
Frames == [elements : Nat, typeID : Nat, plainID : BOOLEAN, action : Actions]
Topics == {"boot", "status", "meter", "heartbeat", "transactions"}
\* kinds of fault; "any" counts all of them
Kinds  == {"drop", "write", "timeout", "publish", "resend", "restart", "any"}

ASSUME ScriptAssumption    == Script \in [Conns -> Seq(Frames)]
ASSUME PartitionAssumption == /\ ChargerOf \in [Conns -> DOMAIN PartitionOf]
                              /\ PartitionOf \in [DOMAIN PartitionOf -> Partitions]
ASSUME BudgetAssumption    == Budget \in [Kinds -> Nat]

TPs    == Topics \X Partitions
\* makeEvent gives each frame handled an event id of its own: the frame's place
Events == Conns \X (Nat \ {0})

\* ParseMessage returns no error
Parses(frame) == /\ frame.elements >= 3
                 /\ frame.typeID \in {2, 3, 4}
                 /\ frame.typeID = 2 => frame.elements >= 4
IsCall(frame) == Parses(frame) /\ frame.typeID = 2
\* a CALL is answered unless MakeCallResult makes no JSON of its message id
Answerable(frame) == IsCall(frame) /\ frame.plainID

\* processCall: the topic a CALL is published to; "" if the action is unknown
TopicOf(frame) ==
    CASE frame.action = "BootNotification"   -> "boot"
      [] frame.action = "StatusNotification" -> "status"
      [] frame.action = "MeterValues"        -> "meter"
      [] frame.action = "Heartbeat"          -> "heartbeat"
      [] frame.action \in {"StartTransaction", "StopTransaction"} -> "transactions"
      [] OTHER                               -> ""

\* Mutant: the key alternates with the frame
KeyOfFrame(ev) == CHOOSE x \in DOMAIN PartitionOf :
                      (PartitionOf[x] = PartitionOf[ChargerOf[ev[1]]]) <=> (ev[2] % 2 = 0)
\* Publish is keyed by the charger
Key(ev)  == ChargerOf[ev[1]]
FrameOf(ev) == Script[ev[1]][ev[2]]
TpOf(ev) == <<TopicOf(FrameOf(ev)), PartitionOf[Key(ev)]>>

VARIABLES
    h,          \* where each connection's handler is in handleOCPP
    lost,       \* connections that broke or were left by their charger
    txCounter,  \* the last transaction id given; a process starts from 0
    life,       \* how often the gateway has been restarted
    replies,    \* every CALLRESULT written, over all connections, in order
    queue,      \* per partition, what the Kafka writer still has to write
    log,        \* per partition, what is in Kafka
    closed,     \* topics whose writer the shutdown has closed
    stage,      \* "up", or "down" once main has been told to quit
    used        \* faults so far, by kind

sockets == <<lost, replies>>
process == <<txCounter, life, closed, stage>>
vars    == <<h, sockets, process, queue, log, used>>

\* the frame at hand is the connection's k-th; tx is the transaction id of its
\* CALLRESULT, 0 if it carries none
Handler == [pc : {"new", "reading", "answer", "publish", "waiting", "closed"},
            k : Nat, tx : Nat]
Reply   == [ev : Events, tx : Nat, life : Nat]

Init ==
    /\ h = [c \in Conns |-> [pc |-> "new", k |-> 0, tx |-> 0]]
    /\ lost = {}
    /\ txCounter = 0
    /\ life = 0
    /\ replies = <<>>
    /\ queue = [tp \in TPs |-> <<>>]
    /\ log = [tp \in TPs |-> <<>>]
    /\ closed = {}
    /\ stage = "up"
    /\ used = [k \in Kinds |-> 0]

At(c, pc)   == h[c].pc = pc
GoTo(c, pc) == h' = [h EXCEPT ![c].pc = pc]
Spend(k)    == /\ used[k] < Budget[k]
               /\ used["any"] < Budget["any"]
               /\ used' = [used EXCEPT ![k] = @ + 1, !["any"] = @ + 1]
Event(c)    == <<c, h[c].k>>
Queued(ev)  == \E i \in DOMAIN queue[TpOf(ev)] : queue[TpOf(ev)][i] = ev

-----------------------------------------------------------------------------
(* The connection                                                          *)

\* A charger opens a connection once it has given up its earlier ones
Connect(c) ==
    /\ At(c, "new")
    /\ stage = "up"
    /\ \A d \in Conns : ChargerOf[d] = ChargerOf[c] /\ d # c =>
          At(d, "new") \/ At(d, "closed") \/ d \in lost
    /\ GoTo(c, "reading")
    /\ UNCHANGED <<sockets, process, queue, log, used>>

\* The connection breaks, or the charger leaves it; the handler finds out when
\* it next reads or writes
Drop(c) ==
    /\ ~At(c, "new") /\ ~At(c, "closed") /\ c \notin lost
    /\ Spend("drop")
    /\ lost' = lost \union {c}
    /\ UNCHANGED <<h, replies, process, queue, log>>

\* ReadMessage fails, and the handler returns
ReadFails(c) ==
    /\ At(c, "reading")
    /\ c \in lost
    /\ GoTo(c, "closed")
    /\ UNCHANGED <<sockets, process, queue, log, used>>

-----------------------------------------------------------------------------
(* The loop of handleOCPP                                                  *)

\* Mutant: the id counts the starts answered, not the starts taken
NewTxOfReplies == 1 + Cardinality({i \in DOMAIN replies : replies[i].tx # 0})
\* Mutant: the counter counts down
NewTxBelow == txCounter - 1
\* atomic.AddInt64(&txCounter, 1)
NewTx == txCounter + 1

\* Mutant: a CALL for which MakeCallResult fails is published all the same
AfterReadPublishing(frame) ==
    IF Answerable(frame) THEN "answer"
    ELSE IF IsCall(frame) /\ TopicOf(frame) # "" THEN "publish" ELSE "reading"
AfterRead(frame) == IF Answerable(frame) THEN "answer" ELSE "reading"

\* The next frame, even of a connection lost meanwhile if it had arrived.  What
\* is no CALL is skipped; a StartTransaction takes a transaction id, before
\* MakeCallResult can fail.
Read(c) ==
    LET k     == h[c].k + 1
        frame == Script[c][k]
        start == IsCall(frame) /\ frame.action = "StartTransaction"
    IN  /\ At(c, "reading")
        /\ k <= Len(Script[c])
        /\ txCounter' = IF start THEN NewTx ELSE txCounter
        /\ h' = [h EXCEPT ![c] =
                    [pc |-> AfterRead(frame), k |-> k, tx |-> IF start THEN NewTx ELSE 0]]
        /\ UNCHANGED <<sockets, life, closed, stage, queue, log, used>>

\* Mutant: a CALL whose charger has gone meanwhile is not published
AfterAnswerUnlessLost(c) ==
    IF TopicOf(FrameOf(Event(c))) = "" \/ c \in lost THEN "reading" ELSE "publish"
AfterAnswer(c) == IF TopicOf(FrameOf(Event(c))) = "" THEN "reading" ELSE "publish"

\* WriteMessage hands the CALLRESULT to the socket, which may be broken already
Answer(c) ==
    /\ At(c, "answer")
    /\ replies' = Append(replies, [ev |-> Event(c), tx |-> h[c].tx, life |-> life])
    /\ GoTo(c, AfterAnswer(c))
    /\ UNCHANGED <<lost, process, queue, log, used>>

\* Mutant: a CALL that cannot be answered is skipped
AfterFailedAnswerNext == "reading"
\* the handler returns without publishing
AfterFailedAnswer == "closed"

\* WriteMessage fails
AnswerFails(c) ==
    /\ At(c, "answer")
    /\ \/ c \in lost /\ UNCHANGED used
       \/ Spend("write")
    /\ GoTo(c, AfterFailedAnswer)
    /\ UNCHANGED <<sockets, process, queue, log>>

\* Publish: WriteMessages queues the event behind those of its partition ...
Enqueue(c) ==
    /\ At(c, "publish")
    /\ TpOf(Event(c))[1] \notin closed
    /\ queue' = [queue EXCEPT ![TpOf(Event(c))] = Append(@, Event(c))]
    /\ GoTo(c, "waiting")
    /\ UNCHANGED <<sockets, process, log, used>>

\* ... unless its writer is closed, or the partitions of the topic cannot be
\* had in time; the error is logged and the event is gone
PublishFails(c) ==
    /\ At(c, "publish")
    /\ \/ TpOf(Event(c))[1] \in closed /\ UNCHANGED used
       \/ Spend("publish")
    /\ GoTo(c, "reading")
    /\ UNCHANGED <<sockets, process, queue, log>>

\* WriteMessages returns when the event's batch is written or given up
Wake(c) ==
    /\ At(c, "waiting")
    /\ ~Queued(Event(c))
    /\ GoTo(c, "reading")
    /\ UNCHANGED <<sockets, process, queue, log, used>>

\* Mutant: the deadline takes the event out of the queue
WithdrawnAtDeadline(ev) ==
    queue' = [queue EXCEPT ![TpOf(ev)] = SelectSeq(@, LAMBDA x : x # ev)]
\* The deadline only ends the wait: the event stays queued
LeftAtDeadline(ev) == UNCHANGED queue

\* Five seconds have passed
Timeout(c) ==
    /\ At(c, "waiting")
    /\ Queued(Event(c))
    /\ Spend("timeout")
    /\ LeftAtDeadline(Event(c))
    /\ GoTo(c, "reading")
    /\ UNCHANGED <<sockets, process, log>>

Handle(c) == Read(c) \/ ReadFails(c) \/ Answer(c) \/ Enqueue(c) \/ Wake(c)
HandleFault(c) == Drop(c) \/ AnswerFails(c) \/ PublishFails(c) \/ Timeout(c)

-----------------------------------------------------------------------------
(* The Kafka writer: one goroutine per partition sends batches in order    *)

Write(tp) == log' = [log EXCEPT ![tp] = Append(@, Head(queue[tp]))]
Dequeue(tp) == queue' = [queue EXCEPT ![tp] = Tail(@)]

Deliver(tp) ==
    /\ queue[tp] # <<>>
    /\ Write(tp)
    /\ Dequeue(tp)
    /\ UNCHANGED <<h, sockets, process, used>>

\* The broker's answer is lost and the batch is sent again
DeliverTwice(tp) ==
    /\ queue[tp] # <<>>
    /\ Spend("resend")
    /\ Write(tp)
    /\ UNCHANGED <<h, sockets, process, queue>>

\* The writer's attempts are exhausted
GiveUp(tp) ==
    /\ queue[tp] # <<>>
    /\ Spend("publish")
    /\ Dequeue(tp)
    /\ UNCHANGED <<h, sockets, process, log>>

-----------------------------------------------------------------------------
(* The end of the process                                                  *)

\* The next process starts with no connection, no queue and txCounter = 0
Restart ==
    /\ h' = [c \in Conns |-> IF At(c, "new") THEN h[c] ELSE [h[c] EXCEPT !.pc = "closed"]]
    /\ txCounter' = 0
    /\ life' = life + 1
    /\ queue' = [tp \in TPs |-> <<>>]
    /\ closed' = {}
    /\ stage' = "up"
    /\ UNCHANGED <<sockets, log>>

Crash == Spend("restart") /\ Restart

\* SIGTERM: server.Shutdown stops the listener and does not wait for WebSocket
\* handlers; they go on while main closes the producer
Quit ==
    /\ stage = "up"
    /\ Spend("restart")
    /\ stage' = "down"
    /\ UNCHANGED <<h, sockets, txCounter, life, closed, queue, log>>

Drained(t) == \A p \in Partitions : queue[<<t, p>>] = <<>>

\* producer.Close closes the writers one after the other, in any order; each
\* Close returns when what is queued has been written or given up
CloseWriter(t) ==
    /\ stage = "down"
    /\ t \notin closed
    /\ \A d \in closed : Drained(d)
    /\ closed' = closed \union {t}
    /\ UNCHANGED <<h, sockets, txCounter, life, stage, queue, log, used>>

Exit ==
    /\ stage = "down"
    /\ closed = Topics
    /\ \A t \in Topics : Drained(t)
    /\ Restart
    /\ UNCHANGED used

Next ==
    \/ \E c \in Conns : Connect(c) \/ Handle(c) \/ HandleFault(c)
    \/ \E tp \in TPs : Deliver(tp) \/ DeliverTwice(tp) \/ GiveUp(tp)
    \/ Crash \/ Quit \/ Exit
    \/ \E t \in Topics : CloseWriter(t)

Spec == Init /\ [][Next]_vars

\* Handlers and the writer's goroutines run; nothing is assumed of faults, of
\* chargers that connect or of a shutdown
FairSpec == /\ Spec
            /\ \A c \in Conns : WF_vars(Handle(c))
            /\ \A tp \in TPs : WF_vars(Deliver(tp))
=============================================================================
