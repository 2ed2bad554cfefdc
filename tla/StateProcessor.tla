--------------------------- MODULE StateProcessor ---------------------------
(***************************************************************************)
(* The state-processor: every instance runs one goroutine per Kafka topic  *)
(* (internal/kafka/consumer.go, Run) that fetches an event, claims its     *)
(* message id in Redis, records it in PostgreSQL, updates the latest state *)
(* in Redis and commits the offset (cmd/state-processor/main.go).  Every   *)
(* call to Kafka, Redis or PostgreSQL is a step of its own, so that other  *)
(* readers, a crash or a rebalance can come between any two of them.       *)
(*                                                                         *)
(* A Redis field is a slot holding the event that wrote it: the value the  *)
(* code stores is a function of that event.  Faults are actions too; each  *)
(* kind has a budget, without which a model could fail for ever.           *)
(***************************************************************************)
EXTENDS Integers, Sequences, FiniteSets

CONSTANTS
    Events,       \* events the gateway may publish (event.Event)
    Feeds,        \* the orders in which they may be published
    Chargers,
    Connectors,   \* connector numbers; 0 is the charger as a whole
    Partitions,
    PartitionOf,  \* the Hash balancer: charger -> partition
    Instances,    \* processes in the consumer group "state-processor"
    Second,       \* ticks per second of an event's timestamp
    Budget,       \* how many faults of each kind may happen
    None

Types  == {"BootNotification", "StatusNotification", "MeterValues",
           "Heartbeat", "StartTransaction", "StopTransaction"}
Topics == {"boot", "status", "meter", "heartbeat", "transactions"}
\* "bad": does not unmarshal; "empty": a MeterValues without a sample
Bodies == {"full", "empty", "bad"}
\* kinds of fault; "any" counts all of them
Kinds  == {"error", "read", "lookup", "retry", "commit", "crash", "rebalance", "ttl", "any"}

ASSUME EventsAssumption ==
    \A e \in Events : /\ e.charger \in Chargers
                      /\ e.conn \in Connectors
                      /\ e.type \in Types
                      /\ e.ts \in Nat
                      /\ e.body \in Bodies
ASSUME FeedsAssumption     == Feeds \subseteq Seq(Events)
ASSUME ConnectorAssumption == 0 \in Connectors /\ Connectors \subseteq Nat
ASSUME PartitionAssumption == PartitionOf \in [Chargers -> Partitions]
ASSUME SecondAssumption    == Second \in Nat \ {0}
ASSUME BudgetAssumption    == Budget \in [Kinds -> Nat]
ASSUME NoneAssumption      == None \notin Events

Msgs    == {e.msg : e \in Events}
TPs     == Topics \X Partitions
Readers == Instances \X Topics

\* topics.go: a transaction's start and stop share one topic
TopicOf(type) ==
    CASE type = "BootNotification"   -> "boot"
      [] type = "StatusNotification" -> "status"
      [] type = "MeterValues"        -> "meter"
      [] type = "Heartbeat"          -> "heartbeat"
      [] OTHER                       -> "transactions"
TpOf(e) == <<TopicOf(e.type), PartitionOf[e.charger]>>

-----------------------------------------------------------------------------
(* Redis: the fields of charger:{c}:conn:{n} ("status", "meter", "active"), *)
(* membership of n in charger:{c}:connectors ("member"), and, at n = 0, the *)
(* fields of charger:{c} ("boot", "seen", "online"), membership of c in     *)
(* chargers ("listed"), tx:active:{c} ("tx") and its expiry ("txttl").      *)

Fields == {"status", "meter", "active", "member",
           "boot", "seen", "online", "listed", "tx", "txttl"}
Slots  == Fields \X Chargers \X Connectors

Conn(f, e)    == <<f, e.charger, e.conn>>
Charger(f, e) == <<f, e.charger, 0>>
Cmd(S, v)     == [slots |-> S, val |-> v]
Apply(db, c)  == [s \in Slots |-> IF s \in c.slots THEN c.val ELSE db[s]]

\* A pipeline is a sequence of commands: other clients' commands may come
\* between them (it is not MULTI/EXEC).  One HSET sets its fields together.
Touch(e)    == Cmd({Charger("seen", e)}, e)
MarkUp(e)   == Cmd({Charger("seen", e), Charger("online", e)}, e)
AddConn(e)  == Cmd({Conn("member", e)}, e)
List(e)     == Cmd({Charger("listed", e)}, e)

BootPipe(e) ==
    <<Cmd({Charger("boot", e), Charger("online", e), Charger("seen", e)}, e)>>
HeartbeatPipe(e) == <<MarkUp(e)>>
\* Mutant: the charger and its connector are listed before they have fields
StatusPipeListsFirst(e) ==
    <<AddConn(e), List(e), Cmd({Conn("status", e)}, e), MarkUp(e)>>
StatusPipe(e) ==
    <<Cmd({Conn("status", e)}, e), MarkUp(e), AddConn(e), List(e)>>
MeterPipe(e) ==
    <<Cmd({Conn("meter", e)}, e), Touch(e), AddConn(e), List(e)>>
StartPipe(e) ==
    <<Cmd({Conn("active", e)}, e), AddConn(e), Cmd({Charger("tx", e)}, e),
      Cmd({Charger("txttl", e)}, e), Touch(e), List(e)>>

\* Mutant: the stop's own connectorId, which a stop does not have
StopConnOfEvent(e, start) == e.conn
\* the connector a stop frees: the one its start names, unless that is 0
StopConn(e, start) ==
    IF start # None /\ start.conn > 0 THEN start.conn ELSE e.conn
FreeConn(e, start) == Cmd({<<"active", e.charger, StopConn(e, start)>>}, e)
\* Mutant: tx:active stays after the stop
StopPipeKeepsTx(e, start) == <<FreeConn(e, start), Touch(e), List(e)>>
StopPipe(e, start) ==
    IF start = None
    THEN <<FreeConn(e, start), Touch(e), List(e)>>
    ELSE <<FreeConn(e, start),
           Cmd({Charger("tx", e), Charger("txttl", e)}, None),
           Touch(e), List(e)>>

Pipe(e, start) ==
    CASE e.type = "BootNotification"   -> BootPipe(e)
      [] e.type = "StatusNotification" -> StatusPipe(e)
      [] e.type = "MeterValues"        -> MeterPipe(e)
      [] e.type = "Heartbeat"          -> HeartbeatPipe(e)
      [] e.type = "StartTransaction"   -> StartPipe(e)
      [] OTHER                         -> StopPipe(e, start)

\* status_ts and meter_ts are formatted as RFC 3339: whole seconds
Trunc(t) == t - (t % Second)
\* Mutant: the two sides of After swapped
IsOlder(e, old) == e.ts < Trunc(old.ts)
\* !evt.Timestamp.After(existingTime) returns early
IsNewer(e, old) == e.ts > Trunc(old.ts)
GuardSlot(e) == IF e.type = "StatusNotification" THEN Conn("status", e)
                                                 ELSE Conn("meter", e)

-----------------------------------------------------------------------------
VARIABLES
    feed,       \* what the gateway has still to publish, in order
    log,        \* the events of each topic partition
    committed,  \* how many of them the consumer group has committed
    pos,        \* how many of them the partition's owner has fetched
    owner,      \* the instance each partition is assigned to
    work,       \* where each goroutine is in Run and handleMessage
    dedup,      \* message ids whose key dedup:{id} is in Redis
    redis,
    history,    \* rows of event_history; event_id is the event itself
    sessions,   \* rows of charge_sessions, keyed by the stop's event_id
    used        \* faults so far, by kind

kafka == <<feed, log, committed, pos, owner>>
vars  == <<kafka, work, dedup, redis, history, sessions, used>>

PCs  == {"idle", "dedup", "history", "read", "cdr", "pipe", "commit"}
Idle == [pc |-> "idle", ev |-> None, off |-> 0, start |-> None, n |-> 0]
WorkRecord == [pc : PCs, ev : Events \union {None}, off : Nat,
               start : Events \union {None}, n : Nat]

Init ==
    /\ feed \in Feeds
    /\ log = [tp \in TPs |-> <<>>]
    /\ committed = [tp \in TPs |-> 0]
    /\ pos = [tp \in TPs |-> 0]
    /\ owner \in [TPs -> Instances]
    /\ work = [r \in Readers |-> Idle]
    /\ dedup = {}
    /\ redis = [s \in Slots |-> None]
    /\ history = {}
    /\ sessions = {}
    /\ used = [k \in Kinds |-> 0]

At(r, pc)   == work[r].pc = pc
Become(r, w) == work' = [work EXCEPT ![r] = w]
GoTo(r, pc) == Become(r, [work[r] EXCEPT !.pc = pc])
\* Run logs the handler's error and goes on to the next message: no commit
GiveUp(r)   == Become(r, Idle)
Spend(k)    == /\ used[k] < Budget[k]
               /\ used["any"] < Budget["any"]
               /\ used' = [used EXCEPT ![k] = @ + 1, !["any"] = @ + 1]

\* Published by the gateway, to the partition its charger hashes to
Produce ==
    /\ feed # <<>>
    /\ feed' = Tail(feed)
    /\ log' = [log EXCEPT ![TpOf(Head(feed))] = Append(@, Head(feed))]
    /\ UNCHANGED <<committed, pos, owner, work, dedup, redis, history, sessions, used>>

Fetch(r) ==
    \E p \in Partitions : LET tp == <<r[2], p>> IN
        /\ At(r, "idle")
        /\ owner[tp] = r[1]
        /\ pos[tp] < Len(log[tp])
        /\ pos' = [pos EXCEPT ![tp] = @ + 1]
        /\ Become(r, [Idle EXCEPT !.pc = "dedup", !.ev = log[tp][pos[tp] + 1],
                                  !.off = pos[tp] + 1])
        /\ UNCHANGED <<feed, log, committed, owner, dedup, redis, history, sessions, used>>

-----------------------------------------------------------------------------
(* handleMessage: deduplicate                                              *)

\* SETNX dedup:{message id}; a key that exists makes the event a duplicate,
\* which handleMessage reports as handled
\* Mutant: the check asks event_history, and the key is set apart from it
TakenInHistory(e) == \E f \in history : f.msg = e.msg
Taken(e) == e.msg \in dedup
\* Mutant: the key is made of the event id, which a resent message has anew
ClaimEventId(e) == dedup' = dedup \union {e.id}
\* Mutant: the key is made of the charger
ClaimCharger(e) ==
    dedup' = dedup \union {f.msg : f \in {g \in Events : g.charger = e.charger}}
Claim(e) == dedup' = dedup \union {e.msg}

Dedup(r) ==
    /\ At(r, "dedup")
    /\ IF Taken(work[r].ev) THEN GoTo(r, "commit") /\ UNCHANGED dedup
                            ELSE GoTo(r, "history") /\ Claim(work[r].ev)
    /\ UNCHANGED <<kafka, redis, history, sessions, used>>

\* The call fails before or after Redis has set the key
DedupFails(r) ==
    /\ At(r, "dedup")
    /\ Spend("error")
    /\ UNCHANGED dedup \/ Claim(work[r].ev)
    /\ GiveUp(r)
    /\ UNCHANGED <<kafka, redis, history, sessions>>

\* go-redis sends the command again after a lost reply, and the second SETNX
\* finds the key the first one set
DedupRetried(r) ==
    /\ At(r, "dedup")
    /\ Spend("retry")
    /\ Claim(work[r].ev)
    /\ GoTo(r, "commit")
    /\ UNCHANGED <<kafka, redis, history, sessions>>

-----------------------------------------------------------------------------
(* handleMessage: writeHistory, then the dispatch of updateLatestState      *)

\* A payload that does not unmarshal is an error for these types only
Rejected(e) == /\ e.body = "bad"
               /\ e.type \in {"BootNotification", "StatusNotification", "MeterValues"}
NothingToShow(e) == e.type = "MeterValues" /\ e.body = "empty"
ReadsFirst(e) == e.type \in {"StatusNotification", "MeterValues", "StopTransaction"}

\* Mutant: a payload that does not unmarshal is handled again at once
BeginUpdateRetrying(w) ==
    IF Rejected(w.ev) THEN [w EXCEPT !.pc = "history"]
    ELSE IF NothingToShow(w.ev) THEN [w EXCEPT !.pc = "commit"]
    ELSE IF ReadsFirst(w.ev) THEN [w EXCEPT !.pc = "read"]
    ELSE [w EXCEPT !.pc = "pipe", !.n = 1]
BeginUpdate(w) ==
    IF Rejected(w.ev) THEN Idle
    ELSE IF NothingToShow(w.ev) THEN [w EXCEPT !.pc = "commit"]
    ELSE IF ReadsFirst(w.ev) THEN [w EXCEPT !.pc = "read"]
    ELSE [w EXCEPT !.pc = "pipe", !.n = 1]

\* Mutant: an error of writeHistory is only logged
HistoryErrorIgnored(w) == BeginUpdate(w)
\* An error of writeHistory ends handleMessage
HistoryErrorReturned(w) == Idle

\* ON CONFLICT (event_id) DO NOTHING
Record(e) == history' = history \union {e}

WriteHistory(r) ==
    /\ At(r, "history")
    /\ Record(work[r].ev)
    /\ Become(r, BeginUpdate(work[r]))
    /\ UNCHANGED <<kafka, dedup, redis, sessions, used>>

HistoryFails(r) ==
    /\ At(r, "history")
    /\ Spend("error")
    /\ UNCHANGED history \/ Record(work[r].ev)
    /\ Become(r, HistoryErrorReturned(work[r]))
    /\ UNCHANGED <<kafka, dedup, redis, sessions>>

-----------------------------------------------------------------------------
(* updateLatestState: the reads                                            *)

\* Mutant: no guard
PassesAlways(e, old) == TRUE
\* What the guard of updateConnectorStatus and updateMeterValues lets through
Passes(e, old) == old = None \/ IsNewer(e, old)

ReadLatest(r) == LET e == work[r].ev IN
    /\ At(r, "read")
    /\ e.type # "StopTransaction"
    /\ IF Passes(e, redis[GuardSlot(e)])
       THEN Become(r, [work[r] EXCEPT !.pc = "pipe", !.n = 1])
       ELSE GoTo(r, "commit")
    /\ UNCHANGED <<kafka, dedup, redis, history, sessions, used>>

\* A stop reads the transaction its charger has open
ReadStart(r) == LET start == redis[Charger("tx", work[r].ev)] IN
    /\ At(r, "read")
    /\ work[r].ev.type = "StopTransaction"
    /\ Become(r, [work[r] EXCEPT !.pc = IF start = None THEN "pipe" ELSE "cdr",
                                 !.start = start, !.n = 1])
    /\ UNCHANGED <<kafka, dedup, redis, history, sessions, used>>

\* Both reads ignore their error: the guard is skipped, or the stop finds nothing
ReadKind(e) == IF e.type = "StopTransaction" THEN "lookup" ELSE "read"
ReadFails(r) ==
    /\ At(r, "read")
    /\ Spend(ReadKind(work[r].ev))
    /\ Become(r, [work[r] EXCEPT !.pc = "pipe", !.n = 1])
    /\ UNCHANGED <<kafka, dedup, redis, history, sessions>>

-----------------------------------------------------------------------------
(* updateTransaction: the charge detail record of a stop                   *)

\* Mutant: a charger has one row
AddSessionOfCharger(e, start) ==
    sessions' = IF \E s \in sessions : s.stop.charger = e.charger THEN sessions
                ELSE sessions \union {[stop |-> e, start |-> start]}
\* ON CONFLICT (session_id) DO NOTHING, session_id being the stop's event id
AddSession(e, start) ==
    sessions' = IF \E s \in sessions : s.stop = e THEN sessions
                ELSE sessions \union {[stop |-> e, start |-> start]}

InsertCdr(r) ==
    /\ At(r, "cdr")
    /\ AddSession(work[r].ev, work[r].start)
    /\ GoTo(r, "pipe")
    /\ UNCHANGED <<kafka, dedup, redis, history, used>>

\* The error of the INSERT is dropped: the stop goes on and deletes tx:active
CdrFails(r) ==
    /\ At(r, "cdr")
    /\ Spend("error")
    /\ UNCHANGED sessions \/ AddSession(work[r].ev, work[r].start)
    /\ GoTo(r, "pipe")
    /\ UNCHANGED <<kafka, dedup, redis, history>>

-----------------------------------------------------------------------------
(* pipe.Exec, one command per step                                         *)

Command(w) == Pipe(w.ev, w.start)[w.n]
LastCommand(w) == w.n = Len(Pipe(w.ev, w.start))

PipeStep(r) ==
    /\ At(r, "pipe")
    /\ redis' = Apply(redis, Command(work[r]))
    /\ IF LastCommand(work[r]) THEN GoTo(r, "commit")
       ELSE Become(r, [work[r] EXCEPT !.n = @ + 1])
    /\ UNCHANGED <<kafka, dedup, history, sessions, used>>

\* The connection is lost with the commands from n on not executed
PipeFails(r) ==
    /\ At(r, "pipe")
    /\ Spend("error")
    /\ GiveUp(r)
    /\ UNCHANGED <<kafka, dedup, redis, history, sessions>>

\* go-redis sends the whole pipeline again after a lost connection
PipeRetried(r) ==
    /\ At(r, "pipe")
    /\ Spend("retry")
    /\ Become(r, [work[r] EXCEPT !.n = 1])
    /\ UNCHANGED <<kafka, dedup, redis, history, sessions>>

-----------------------------------------------------------------------------
(* Run: the commit.  A goroutine that lost its partition still commits.    *)

Commit(r) ==
    /\ At(r, "commit")
    /\ committed' = [committed EXCEPT ![TpOf(work[r].ev)] = work[r].off]
    /\ Become(r, Idle)
    /\ UNCHANGED <<feed, log, pos, owner, dedup, redis, history, sessions, used>>

\* The error is only logged
CommitFails(r) ==
    /\ At(r, "commit")
    /\ Spend("commit")
    /\ Become(r, Idle)
    /\ UNCHANGED <<kafka, dedup, redis, history, sessions>>

-----------------------------------------------------------------------------
(* The environment                                                         *)

\* A crash, and equally a SIGTERM, which cancels the context of the calls in
\* flight: what the goroutines of i were doing is lost, and its readers
\* start again from the committed offsets
Crash(i) ==
    /\ Spend("crash")
    /\ work' = [r \in Readers |-> IF r[1] = i THEN Idle ELSE work[r]]
    /\ pos' = [tp \in TPs |-> IF owner[tp] = i THEN committed[tp] ELSE pos[tp]]
    /\ UNCHANGED <<feed, log, committed, owner, dedup, redis, history, sessions>>

\* A new generation of the group: one partition moves (or stays), all readers
\* start from the committed offsets, handlers that run are not interrupted
Rebalance(tp, i) ==
    /\ Spend("rebalance")
    /\ owner' = [owner EXCEPT ![tp] = i]
    /\ pos' = committed
    /\ UNCHANGED <<feed, log, committed, work, dedup, redis, history, sessions>>

\* dedup:{id} lives one hour, tx:active:{c} 24 hours
DedupExpires(m) ==
    /\ m \in dedup
    /\ Spend("ttl")
    /\ dedup' = dedup \ {m}
    /\ UNCHANGED <<kafka, work, redis, history, sessions>>

TxExpires(c) ==
    /\ redis[<<"txttl", c, 0>>] # None
    /\ Spend("ttl")
    /\ redis' = Apply(redis, Cmd({<<"tx", c, 0>>, <<"txttl", c, 0>>}, None))
    /\ UNCHANGED <<kafka, work, dedup, history, sessions>>

-----------------------------------------------------------------------------
Advance(r) ==
    \/ Fetch(r) \/ Dedup(r) \/ WriteHistory(r) \/ ReadLatest(r) \/ ReadStart(r)
    \/ InsertCdr(r) \/ PipeStep(r) \/ Commit(r)

Fault(r) ==
    \/ DedupFails(r) \/ DedupRetried(r) \/ HistoryFails(r) \/ ReadFails(r)
    \/ CdrFails(r) \/ PipeFails(r) \/ PipeRetried(r) \/ CommitFails(r)

Environment ==
    \/ Produce
    \/ \E i \in Instances : Crash(i) \/ \E tp \in TPs : Rebalance(tp, i)
    \/ \E m \in Msgs : DedupExpires(m)
    \/ \E c \in Chargers : TxExpires(c)

Next == (\E r \in Readers : Advance(r) \/ Fault(r)) \/ Environment

Spec == Init /\ [][Next]_vars

\* The gateway keeps publishing and every goroutine keeps running; nothing is
\* assumed of faults
FairSpec == Spec /\ WF_vars(Produce) /\ \A r \in Readers : WF_vars(Advance(r))
=============================================================================
