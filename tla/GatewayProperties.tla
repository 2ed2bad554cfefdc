-------------------------- MODULE GatewayProperties --------------------------
(***************************************************************************)
(* What the gateway guarantees, and what its documentation says of it.     *)
(***************************************************************************)
EXTENDS Gateway

\* The shape of the state (cmd/wsgw/main.go).
TypeOK ==
    /\ h \in [Conns -> Handler]
    /\ lost \subseteq Conns
    /\ txCounter \in Nat
    /\ life \in Nat
    /\ replies \in Seq(Reply)
    /\ queue \in [TPs -> Seq(Events)]
    /\ log \in [TPs -> Seq(Events)]
    /\ closed \subseteq Topics
    /\ stage \in {"up", "down"}
    /\ used \in [Kinds -> Nat]

InLog(ev)      == \E i \in DOMAIN log[TpOf(ev)] : log[TpOf(ev)][i] = ev
Published(ev)  == InLog(ev) \/ Queued(ev)
Publishing(ev) == Event(ev[1]) = ev /\ At(ev[1], "publish")
\* the events of CALLs that were answered and have a topic
Acknowledged ==
    {ev \in {replies[i].ev : i \in DOMAIN replies} : TopicOf(FrameOf(ev)) # ""}

\* the events of answered CALLs that are in nobody's hands any more
Abandoned == {ev \in Acknowledged : ~Published(ev) /\ ~Publishing(ev)}

\* handleOCPP answers before it publishes.  A lost connection, a failed answer,
\* the five-second deadline and a resent batch never cost the event of a CALL
\* that was answered, and a publication that is given up costs one: only the end
\* of the process can cost more.
AcknowledgedIsKept ==
    used["restart"] = 0 => Cardinality(Abandoned) <= used["publish"]

Position(tp) == [i \in 1..(Len(log[tp]) + Len(queue[tp])) |->
                     IF i <= Len(log[tp]) THEN log[tp][i]
                                          ELSE queue[tp][i - Len(log[tp])]]

\* Publish keys every event by its charger, and the handler of a connection
\* waits for an event or its deadline before the next.  So whatever times out
\* or is written twice, a topic holds the events of one connection in one
\* partition and in the order of its frames, repetitions side by side.
ConnectionOrder ==
    \A tp, tq \in TPs : tp[1] = tq[1] =>
        \A i \in DOMAIN Position(tp), j \in DOMAIN Position(tq) :
            Position(tp)[i][1] = Position(tq)[j][1] =>
                /\ tp = tq
                /\ i <= j => Position(tp)[i][2] <= Position(tq)[j][2]

\* txCounter is incremented atomically (main.go:205): no two StartTransactions
\* that one process answers, on whatever connections, get the same id.
TransactionIdsDistinct ==
    \A i, j \in DOMAIN replies :
        /\ i # j
        /\ replies[i].life = replies[j].life
        /\ replies[i].tx # 0
        => replies[i].tx # replies[j].tx

CallsRead(c) == {k \in 1..h[c].k : IsCall(Script[c][k])}
Answered(c)  == {replies[i].ev[2] : i \in {j \in DOMAIN replies : replies[j].ev[1] = c}}

\* The replies on a connection answer its CALLs in their order, each once.  Of the
\* CALLs read two kinds have no reply: those whose message id %q does not quote as
\* JSON does, after which the connection goes on (docs/architecture.md:38 says that
\* each gets its CALLRESULT), and the last one of a connection that is about to
\* answer it or has ended.  Chargers rely on it, the simulator among them,
\* which takes the next reply for the answer (handleOCPP; MakeCallResult;
\* cp-simulator/main.go:340).
AnswersInOrder ==
    /\ \A i, j \in DOMAIN replies :
          i < j /\ replies[i].ev[1] = replies[j].ev[1] => replies[i].ev[2] < replies[j].ev[2]
    /\ \A c \in Conns :
          /\ Answered(c) \subseteq CallsRead(c)
          /\ \A k \in CallsRead(c) :
                \/ k \in Answered(c) /\ Script[c][k].plainID
                \/ k \notin Answered(c) /\ ~Script[c][k].plainID
                \/ k \notin Answered(c) /\ k = h[c].k /\ h[c].pc \in {"answer", "closed"}

\* A CALL that gets no reply, since MakeCallResult or WriteMessage fails, leaves no
\* event in Kafka or on its way there: the charger takes it for lost and may send it
\* again, and the resent one must be the only one (handleOCPP).
OnlyAnsweredArePublished ==
    \A tp \in TPs :
        /\ \A i \in DOMAIN log[tp] : log[tp][i][2] \in Answered(log[tp][i][1])
        /\ \A i \in DOMAIN queue[tp] : queue[tp][i][2] \in Answered(queue[tp][i][1])

\* docs/architecture.md:40: "Events are produced to Kafka, partitioned by
\* `chargePointId`. This guarantees per-charger ordering": a topic holds the
\* events of a charger in the order in which its CALLs were answered.
ChargerOrder ==
    \A tp \in TPs : \A i, j \in DOMAIN log[tp] : \A m, n \in DOMAIN replies :
        /\ i < j
        /\ ChargerOf[log[tp][i][1]] = ChargerOf[log[tp][j][1]]
        /\ replies[m].ev = log[tp][i]
        /\ replies[n].ev = log[tp][j]
        => m <= n
=============================================================================
