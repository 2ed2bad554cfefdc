--------------------------- MODULE SimulatorProofs ---------------------------
(***************************************************************************)
(* Proofs about the charge point simulator, for any number of connectors,  *)
(* sessions and faults: its shape, which reply sendAndWait takes for the   *)
(* answer, the status the platform shows of a connector, and that a fault  *)
(* costs one session at most.                                              *)
(***************************************************************************)
EXTENDS Simulator, Integers, TLAPS, FiniteSetTheorems

Alive   == link = "up" /\ step # "down"
\* the CALLs of a session with readings to come
Metered == SessionSends \ {"finishing", "stop", "free"}

TypeInv ==
    /\ step \in Steps /\ waiting \in BOOLEAN
    /\ conn \in 0..MaxConns /\ link \in {"up", "silent", "broken"}
    /\ connector \in Connectors /\ left \in Nat /\ begun \in 0..MaxSessions
    /\ completed \subseteq 1..begun /\ started \subseteq 1..begun /\ stopped \subseteq 1..begun
    /\ calls \in [Conns -> Seq(Call)]
    /\ wire \in Seq(Nat) /\ responses \in Seq(Nat) /\ ended \in BOOLEAN /\ late \in Nat
    /\ shown \in [Connectors -> [status : Statuses, conn : 0..MaxConns]]
    /\ used \in [Kinds -> Nat]

\* A charger dials once more than connections have failed; a session has begun
\* before it sends, and readings are left while it sends any.
PlaceOK ==
    /\ waiting => step \in Sends
    /\ step \in SessionSends => begun >= 1
    /\ step \in Metered => left >= 1
    /\ step # "down" => conn >= 1
    /\ ended /\ step # "down" => link = "broken"
DialsOK ==
    /\ used["any"] =< Budget["any"]
    /\ conn =< used["any"] + 1
    /\ ~Alive => conn =< used["any"]

\* A CALL in flight is of a session that has begun; connections that are not
\* dialled have none.
CallOK(k) == k.session =< begun /\ (k.send \in SessionSends => k.session >= 1)
CallsOK ==
    \A c \in Conns : /\ \A i \in 1..Len(calls[c]) : CallOK(calls[c][i])
                     /\ c > conn => calls[c] = <<>>

Inv1 == TypeInv /\ PlaceOK /\ DialsOK /\ CallsOK

LEMMA SessionsAre ==
    /\ SessionSends = {"preparing", "leave", "start", "charging", "sessionBeat",
                       "suspended", "resumed", "meter", "finishing", "stop", "free"}
    /\ Metered = {"preparing", "leave", "start", "charging", "sessionBeat",
                  "suspended", "resumed", "meter"}
    /\ Sends = {"boot", "available", "beat"} \union SessionSends
    /\ Steps = Sends \union {"down", "idle"}
BY DEF SessionSends, Metered, Sends, Steps

\* What follows a CALL.
LEMMA ThenAre ==
    ASSUME NEW s \in Sends, NEW t \in Then(s)
    PROVE  /\ t \in SessionSends \union {"idle"}
           /\ t \in SessionSends => s \in SessionSends
           /\ t \in Metered => s \in Metered
           /\ s = "meter" /\ t \in Metered => left > 1
           /\ t # "preparing"
           /\ t = "idle" <=> s \in {"available", "beat", "leave", "free"} \/ s = "boot"
<1> USE SessionsAre
<1>1. CASE s = "preparing"
  BY <1>1 DEF Then
<1>2. CASE s = "start"
  BY <1>2 DEF Then
<1>3. CASE s = "charging"
  BY <1>3 DEF Then, Turn
<1>4. CASE s = "sessionBeat"
  BY <1>4 DEF Then, Turn
<1>5. CASE s = "suspended"
  BY <1>5 DEF Then
<1>6. CASE s = "resumed"
  BY <1>6 DEF Then
<1>7. CASE s = "meter"
  <2>1. Then(s) = AfterMeter(left)
    BY <1>7 DEF Then
  <2> QED
    BY <1>7, <2>1 DEF AfterMeter, Turn
<1>8. CASE s = "finishing"
  BY <1>8 DEF Then
<1>9. CASE s = "stop"
  BY <1>9 DEF Then
<1>10. CASE s \in {"boot", "available", "beat", "leave", "free"}
  BY <1>10 DEF Then
<1> QED
  BY <1>1, <1>2, <1>3, <1>4, <1>5, <1>6, <1>7, <1>8, <1>9, <1>10

\* What comes after a CALL that is answered, or whose error is dropped.
LEMMA ProceedOK ==
    ASSUME TypeInv, PlaceOK, step \in Sends, Proceed
    PROVE  /\ waiting' = FALSE /\ begun' = begun
           /\ step' \in Steps \ {"down", "boot"} /\ connector' \in Connectors /\ left' \in Nat
           /\ completed' \subseteq 1..begun
           /\ step' \in SessionSends => begun >= 1
           /\ step' \in Metered => left' >= 1
<1> USE SessionsAre
<1>1. waiting' = FALSE /\ begun' = begun /\ begun \in Nat /\ completed \subseteq 1..begun
  BY SessionsAssumption DEF Proceed, TypeInv
<1>2. left' \in Nat /\ (step # "meter" => left' = left) /\ (step = "meter" => left' = left - 1)
      /\ (step \in Metered => left >= 1)
  BY DEF Proceed, TypeInv, PlaceOK
<1>3. completed' \subseteq 1..begun
  <2>1. CASE step = "free"
    BY <1>1, <2>1 DEF Proceed, PlaceOK
  <2>2. CASE step # "free"
    BY <1>1, <2>2 DEF Proceed
  <2> QED
    BY <2>1, <2>2
<1>4. CASE step = "boot" /\ Announce
  BY <1>1, <1>2, <1>3, <1>4, ConnectorsAssumption DEF Announce, Connectors
<1>5. CASE AnnouncesMore /\ connector' = connector + 1 /\ UNCHANGED step
  BY <1>1, <1>2, <1>3, <1>5, ConnectorsAssumption DEF AnnouncesMore, Connectors, TypeInv
<1>6. CASE step' \in Then(step) /\ UNCHANGED connector
  <2>1. /\ step' \in SessionSends \union {"idle"}
        /\ step' \in SessionSends => step \in SessionSends
        /\ step' \in Metered => step \in Metered
        /\ step = "meter" /\ step' \in Metered => left > 1
    BY <1>6, ThenAre
  <2>2. step' \in SessionSends => begun >= 1
    BY <2>1 DEF PlaceOK
  <2>3. step' \in Metered => left' >= 1
    BY <1>2, <2>1 DEF TypeInv
  <2> QED
    BY <1>1, <1>2, <1>3, <1>6, <2>1, <2>2, <2>3 DEF TypeInv
<1> QED
  BY <1>4, <1>5, <1>6 DEF Proceed

LEMMA FailedOK ==
    ASSUME TypeInv, PlaceOK, step \in Sends, Failed
    PROVE  /\ waiting' = FALSE /\ begun' = begun
           /\ step' \in Steps \ {"boot"} /\ connector' \in Connectors /\ left' \in Nat
           /\ completed' \subseteq 1..begun
           /\ step' \in SessionSends => begun >= 1
           /\ step' \in Metered => left' >= 1
           /\ Abort \/ Proceed
<1>1. CASE Proceed
  BY <1>1, ProceedOK
<1>2. CASE Abort
  BY <1>2, SessionsAre DEF Abort, TypeInv
<1> QED
  BY <1>1, <1>2 DEF Failed

LEMMA SpendOK ==
    ASSUME used \in [Kinds -> Nat], NEW k \in Kinds, k # "any", Spend(k)
    PROVE  /\ used' \in [Kinds -> Nat]
           /\ used'["any"] = used["any"] + 1 /\ used'["any"] =< Budget["any"]
BY BudgetAssumption DEF Spend, Kinds

LEMMA OlderOK ==
    ASSUME NEW s \in Seq(Nat)
    PROVE  /\ Older(s) \in Seq(Nat) /\ Len(Older(s)) = Len(s)
           /\ \A i \in 1..Len(s) : Older(s)[i] = s[i] + 1
<1>1. DOMAIN s = 1..Len(s) /\ Len(s) \in Nat /\ \A i \in 1..Len(s) : s[i] \in Nat
  OBVIOUS
<1>2. Older(s) = [i \in 1..Len(s) |-> s[i] + 1]
  BY <1>1 DEF Older
<1> QED
  BY <1>1, <1>2

LEMMA AgedOK ==
    ASSUME NEW s \in Seq(Call)
    PROVE  /\ Aged(s) \in Seq(Call) /\ Len(Aged(s)) = Len(s)
           /\ \A i \in 1..Len(s) :
                 /\ Aged(s)[i].age = s[i].age + 1 /\ Aged(s)[i].send = s[i].send
                 /\ Aged(s)[i].connector = s[i].connector /\ Aged(s)[i].session = s[i].session
<1>1. DOMAIN s = 1..Len(s) /\ Len(s) \in Nat /\ \A i \in 1..Len(s) : s[i] \in Call
  OBVIOUS
<1>2. ASSUME NEW k \in Call
      PROVE  /\ [k EXCEPT !.age = @ + 1] \in Call
             /\ [k EXCEPT !.age = @ + 1].age = k.age + 1
             /\ [k EXCEPT !.age = @ + 1].send = k.send
             /\ [k EXCEPT !.age = @ + 1].connector = k.connector
             /\ [k EXCEPT !.age = @ + 1].session = k.session
  <2>1. k.age + 1 \in Nat
    BY DEF Call
  <2> QED
    BY <2>1 DEF Call
<1>3. Aged(s) = [i \in 1..Len(s) |-> [s[i] EXCEPT !.age = @ + 1]]
  BY <1>1 DEF Aged
<1>4. \A i \in 1..Len(s) : Aged(s)[i] = [s[i] EXCEPT !.age = @ + 1]
  BY <1>3
<1>5. Aged(s) \in Seq(Call) /\ Len(Aged(s)) = Len(s)
  BY <1>1, <1>2, <1>3
<1> QED
  BY <1>1, <1>2, <1>4, <1>5

LEMMA ThisCallOK ==
    ASSUME TypeInv, PlaceOK, step \in Sends
    PROVE  ThisCall \in Call /\ CallOK(ThisCall)
BY SessionsAssumption, SessionsAre
   DEF ThisCall, Call, CallOK, Session, TypeInv, PlaceOK

\* What Send does to the connection.
LEMMA SendWrites ==
    ASSUME TypeInv, PlaceOK, DialsOK, Send
    PROVE  /\ conn \in Conns /\ conn \in Nat /\ calls[conn] \in Seq(Call)
           /\ \A c \in Conns : c # conn => calls'[c] = calls[c]
           /\ calls'[conn] = IF link = "up" THEN Append(Aged(calls[conn]), ThisCall)
                                            ELSE Aged(calls[conn])
           /\ calls' \in [Conns -> Seq(Call)]
<1>1. conn \in Conns /\ conn \in Nat
  <2>1. step # "down" /\ conn \in 0..MaxConns
    BY SessionsAre DEF Send, TypeInv
  <2>2. conn >= 1
    BY <2>1 DEF PlaceOK
  <2>3. MaxConns \in Nat
    BY BudgetAssumption DEF MaxConns, Kinds
  <2> QED
    BY <2>1, <2>2, <2>3 DEF Conns
<1>2. calls[conn] \in Seq(Call)
  BY <1>1 DEF TypeInv
<1> DEFINE a == Aged(calls[conn])
           new == IF link = "up" THEN Append(a, ThisCall) ELSE a
<1>3. calls' = [calls EXCEPT ![conn] = new]
  BY DEF Send
<1>4. a \in Seq(Call)
  BY <1>2, AgedOK
<1>5. ThisCall \in Call
  BY ThisCallOK DEF Send
<1> HIDE DEF a
<1>6. new \in Seq(Call)
  BY <1>4, <1>5
<1> HIDE DEF new
<1>7. calls \in [Conns -> Seq(Call)]
  BY DEF TypeInv
<1>8. calls'[conn] = new /\ \A c \in Conns : c # conn => calls'[c] = calls[c]
  BY <1>1, <1>3, <1>7
<1>9. calls' \in [Conns -> Seq(Call)]
  BY <1>3, <1>6, <1>7
<1> QED
  BY <1>1, <1>2, <1>8, <1>9 DEF new, a

\* k sets the status of connector n
Concerns(k, n) == k.connector = n /\ StatusOf(k.send) # "none"
LEMMA ShowOK ==
    ASSUME TypeInv, NEW k \in Call, NEW c \in Conns
    PROVE  /\ Show(k, c) \in [Connectors -> [status : Statuses, conn : 0..MaxConns]]
           /\ \A n \in Connectors :
                 Show(k, c)[n] = IF Concerns(k, n) /\ c >= shown[n].conn
                                 THEN [status |-> StatusOf(k.send), conn |-> c] ELSE shown[n]
<1>1. k.connector \in Connectors /\ k.send \in Sends /\ c \in 0..MaxConns /\ c \in Nat
  BY BudgetAssumption DEF Call, Conns, MaxConns, Kinds
<1>2. StatusOf(k.send) \in Statuses
  BY <1>1 DEF StatusOf, Statuses
<1>3. \A n \in Connectors : shown[n].conn \in Nat
  BY BudgetAssumption DEF TypeInv, MaxConns, Kinds
<1>4. CASE StatusOf(k.send) = "none" \/ c < shown[k.connector].conn
  <2>1. Show(k, c) = shown
    BY <1>4 DEF Show
  <2>2. ASSUME NEW n \in Connectors
        PROVE  ~(Concerns(k, n) /\ c >= shown[n].conn)
    BY <1>1, <1>3, <1>4 DEF Concerns
  <2> QED
    BY <2>1, <2>2 DEF TypeInv
<1>5. CASE ~(StatusOf(k.send) = "none" \/ c < shown[k.connector].conn)
  <2> DEFINE v == [status |-> StatusOf(k.send), conn |-> c]
  <2>1. Show(k, c) = [shown EXCEPT ![k.connector] = v]
    BY <1>5 DEF Show
  <2>2. v \in [status : Statuses, conn : 0..MaxConns]
    BY <1>1, <1>2
  <2>3. c >= shown[k.connector].conn
    BY <1>1, <1>3, <1>5
  <2> HIDE DEF v
  <2>4. Show(k, c) \in [Connectors -> [status : Statuses, conn : 0..MaxConns]]
    BY <2>1, <2>2 DEF TypeInv
  <2>5. \A n \in Connectors : Show(k, c)[n] = IF n = k.connector THEN v ELSE shown[n]
    BY <2>1 DEF TypeInv
  <2> QED
    BY <1>5, <2>3, <2>4, <2>5 DEF v, Concerns
<1> QED
  BY <1>4, <1>5

-----------------------------------------------------------------------------
LEMMA BudgetIs == /\ MaxConns \in Nat /\ MaxConns = Budget["any"] + 1
                  /\ Budget["any"] \in Nat
BY BudgetAssumption DEF MaxConns, Kinds

\* The steps of the program between CALLs.
LEMMA DialKeeps == ASSUME Inv1, Dial PROVE Inv1'
<1> USE SessionsAre, BudgetIs
<1>1. conn \in Nat /\ used["any"] \in Nat /\ conn =< used["any"] /\ used["any"] =< Budget["any"]
  BY DEF Inv1, TypeInv, DialsOK, Alive, Dial, Kinds
<1>2. conn' \in 0..MaxConns /\ conn' >= 1
  BY <1>1 DEF Dial
<1>3. TypeInv'
  <2>1. /\ step' = "boot" /\ link' = "up" /\ wire' = <<>> /\ responses' = <<>>
        /\ ended' = FALSE /\ late' = 0
        /\ UNCHANGED <<waiting, connector, left, begun, completed, calls, platform, used>>
    BY DEF Dial, NewChannel
  <2>2. <<>> \in Seq(Nat)
    OBVIOUS
  <2> QED
    BY <1>2, <2>1, <2>2 DEF Inv1, TypeInv, platform
<1>4. PlaceOK' /\ DialsOK'
  BY <1>1, <1>2 DEF Inv1, PlaceOK, DialsOK, Dial, Alive, Metered, TypeInv
<1>5. CallsOK'
  BY <1>1 DEF Inv1, CallsOK, CallOK, Dial, Conns
<1> QED
  BY <1>3, <1>4, <1>5 DEF Inv1

LEMMA TickBeginKeeps == ASSUME Inv1, Tick \/ Begin PROVE Inv1'
<1> USE SessionsAre, BudgetIs
<1>1. /\ step = "idle" /\ step' \in {"beat", "preparing"} /\ connector' \in Connectors
      /\ left' \in Nat /\ begun' \in 0..MaxSessions /\ begun' \in Nat /\ begun \in Nat
      /\ begun =< begun' /\ UNCHANGED <<completed, waiting, socket, late, platform, used>>
  <2>1. connector \in Connectors /\ left \in Nat /\ begun \in 0..MaxSessions /\ begun \in Nat
    BY SessionsAssumption DEF Inv1, TypeInv
  <2>2. CASE Tick
    BY <2>1, <2>2 DEF Tick
  <2>3. CASE Begin
    BY <2>1, <2>3, SessionsAssumption, ReadingsAssumption DEF Begin
  <2> QED
    BY <2>2, <2>3
<1>2. step' \in SessionSends => begun' >= 1 /\ left' >= 1
  BY <1>1, ReadingsAssumption DEF Tick, Begin
<1>3. /\ completed \subseteq 1..begun' /\ started \subseteq 1..begun'
      /\ stopped \subseteq 1..begun'
  <2>1. 1..begun \subseteq 1..begun'
    BY <1>1
  <2> QED
    BY <2>1 DEF Inv1, TypeInv
<1>4. TypeInv'
  BY <1>1, <1>3 DEF Inv1, TypeInv, socket, channel, platform
<1>5. PlaceOK'
  BY <1>1, <1>2 DEF Inv1, PlaceOK, socket, channel
<1>6. DialsOK'
  BY <1>1 DEF Inv1, DialsOK, Alive, socket
<1>7. CallsOK'
  <2>1. ASSUME NEW c \in Conns, NEW i \in 1..Len(calls[c])
        PROVE  CallOK(calls[c][i])'
    <3>1. calls[c][i] \in Call /\ CallOK(calls[c][i]) /\ calls' = calls
      BY <1>1 DEF Inv1, TypeInv, CallsOK, socket
    <3>2. calls[c][i].session \in Nat
      BY <3>1, SessionsAssumption DEF Call
    <3> QED
      BY <1>1, <3>1, <3>2 DEF CallOK
  <2> QED
    BY <1>1, <2>1 DEF Inv1, CallsOK, socket
<1> QED
  BY <1>4, <1>5, <1>6, <1>7 DEF Inv1

LEMMA SendKeeps == ASSUME Inv1, Send PROVE Inv1'
<1>1. /\ conn \in Conns /\ calls[conn] \in Seq(Call)
      /\ \A c \in Conns : c # conn => calls'[c] = calls[c]
      /\ calls'[conn] = IF link = "up" THEN Append(Aged(calls[conn]), ThisCall)
                                       ELSE Aged(calls[conn])
      /\ calls' \in [Conns -> Seq(Call)]
  BY SendWrites DEF Inv1
<1>2. /\ waiting' = TRUE /\ step \in Sends /\ wire' = Older(wire)
      /\ responses' = Older(responses)
      /\ UNCHANGED <<place, conn, link, ended, late, platform, used>>
  BY DEF Send
<1>3. TypeInv'
  BY <1>1, <1>2, OlderOK DEF Inv1, TypeInv, place, platform
<1>4. PlaceOK' /\ DialsOK'
  BY <1>2 DEF Inv1, PlaceOK, DialsOK, Alive, place
<1>5. CallsOK'
  <2>1. ASSUME NEW i \in 1..Len(Aged(calls[conn]))
        PROVE  CallOK(Aged(calls[conn])[i])
    <3>1. /\ Aged(calls[conn])[i].send = calls[conn][i].send
          /\ Aged(calls[conn])[i].session = calls[conn][i].session
          /\ i \in 1..Len(calls[conn])
      BY SMTT(20), <1>1, AgedOK
    <3>2. CallOK(calls[conn][i])
      BY <1>1, <3>1 DEF Inv1, CallsOK
    <3> QED
      BY <3>1, <3>2 DEF CallOK
  <2>2. CallOK(ThisCall)
    BY <1>2, ThisCallOK DEF Inv1
  <2>3. Aged(calls[conn]) \in Seq(Call)
    BY <1>1, AgedOK
  <2>4. \A i \in 1..Len(calls'[conn]) : CallOK(calls'[conn][i])
    <3>1. CASE link = "up"
      <4>1. \A i \in 1..Len(Append(Aged(calls[conn]), ThisCall)) :
               Append(Aged(calls[conn]), ThisCall)[i] =
                  IF i \in 1..Len(Aged(calls[conn])) THEN Aged(calls[conn])[i] ELSE ThisCall
        BY <2>3
      <4> QED
        BY <1>1, <2>1, <2>2, <3>1, <4>1
    <3>2. CASE link # "up"
      BY <1>1, <2>1, <3>2
    <3> QED
      BY <3>1, <3>2
  <2>5. begun' = begun /\ conn' = conn
    BY <1>2 DEF place
  <2>6. ASSUME NEW c \in Conns
        PROVE  /\ \A i \in 1..Len(calls'[c]) : CallOK(calls'[c][i])
               /\ c > conn => calls'[c] = <<>>
    <3>1. CASE c = conn
      <4>1. ~(c > conn)
        BY <3>1 DEF Conns
      <4> QED
        BY <2>4, <3>1, <4>1
    <3>2. CASE c # conn
      BY <1>1, <3>2 DEF Inv1, CallsOK
    <3> QED
      BY <3>1, <3>2
  <2> QED
    BY <2>5, <2>6 DEF CallsOK, CallOK
<1> QED
  BY <1>3, <1>4, <1>5 DEF Inv1

\* The ways in which sendAndWait returns: with a reply or with an error.
Returns == SendFails \/ Receive \/ ChannelClosed \/ Timeout
LEMMA ReturnIs ==
    ASSUME Inv1, Returns
    PROVE  /\ step \in Sends /\ (Failed \/ Proceed)
           /\ UNCHANGED <<conn, link, calls, wire, ended, platform>>
           /\ responses' \in Seq(Nat) /\ late' \in Nat /\ used' \in [Kinds -> Nat]
           /\ ~Alive \/ Proceed \/ (used'["any"] = used["any"] + 1)
           /\ used'["any"] =< Budget["any"]
           /\ used'["any"] = used["any"] \/ (used'["any"] = used["any"] + 1)
<1> USE SessionsAre
<1>0. used \in [Kinds -> Nat] /\ used["any"] =< Budget["any"] /\ late \in Nat
      /\ responses \in Seq(Nat)
  BY DEF Inv1, TypeInv, DialsOK
<1>1. CASE SendFails
  BY <1>0, <1>1 DEF SendFails, socket, channel, Alive, platform
<1>2. CASE Receive
  <2>1. Tail(responses) \in Seq(Nat) /\ step \in Sends
    BY <1>0, <1>2 DEF Receive, Inv1, PlaceOK
  <2> QED
    BY <1>0, <1>2, <2>1 DEF Receive, platform
<1>3. CASE ChannelClosed
  <2>1. step \in Sends /\ ~Alive
    BY <1>3 DEF ChannelClosed, Inv1, PlaceOK, Alive
  <2> QED
    BY <1>0, <1>3, <2>1 DEF ChannelClosed, socket, channel, platform
<1>4. CASE Timeout
  <2>1. step \in Sends /\ late' \in Nat /\ Failed
        /\ UNCHANGED <<conn, link, calls, wire, responses, ended, platform>>
    BY <1>0, <1>4 DEF Timeout, Inv1, PlaceOK, socket, channel
  <2>2. CASE link = "silent" /\ UNCHANGED used
    BY <1>0, <2>1, <2>2 DEF Alive
  <2>3. CASE Spend("late")
    BY <1>0, <2>1, <2>3, SpendOK DEF Kinds
  <2> QED
    BY <1>4, <2>2, <2>3 DEF Timeout
<1> QED
  BY <1>1, <1>2, <1>3, <1>4 DEF Returns

LEMMA ReturnKeeps == ASSUME Inv1, Returns PROVE Inv1'
<1> USE SessionsAre
<1>1. /\ step \in Sends /\ UNCHANGED <<conn, link, calls, wire, ended, platform>>
      /\ responses' \in Seq(Nat) /\ late' \in Nat /\ used' \in [Kinds -> Nat]
      /\ used'["any"] =< Budget["any"]
  BY ReturnIs
<1>2. /\ waiting' = FALSE /\ begun' = begun
      /\ step' \in Steps \ {"boot"} /\ connector' \in Connectors /\ left' \in Nat
      /\ completed' \subseteq 1..begun
      /\ step' \in SessionSends => begun >= 1
      /\ step' \in Metered => left' >= 1
      /\ step' # "down" \/ Abort
  BY ReturnIs, FailedOK, ProceedOK DEF Inv1
<1>3. TypeInv'
  BY <1>1, <1>2 DEF Inv1, TypeInv, platform
<1>4. step # "down"
  BY <1>1
<1>5. PlaceOK'
  BY <1>1, <1>2, <1>4 DEF Inv1, PlaceOK
<1>6. DialsOK'
  <2>1. /\ conn \in Nat /\ used["any"] \in Nat /\ used'["any"] \in Nat
        /\ conn =< used["any"] + 1 /\ (~Alive => conn =< used["any"])
    BY <1>1, BudgetIs DEF Inv1, TypeInv, DialsOK, Kinds
  <2>2. used'["any"] = used["any"] \/ (used'["any"] = used["any"] + 1)
    BY ReturnIs
  <2>3. ~Alive \/ step' # "down" \/ (used'["any"] = used["any"] + 1)
    BY ReturnIs, ProceedOK DEF Inv1
  <2>4. ~Alive' => conn' =< used'["any"]
    <3>1. CASE step' # "down"
      BY <1>1, <1>4, <2>1, <2>2, <3>1 DEF Alive
    <3>2. CASE step' = "down"
      BY <1>1, <2>1, <2>2, <2>3, <3>2
    <3> QED
      BY <3>1, <3>2
  <2> QED
    BY <1>1, <2>1, <2>2, <2>4 DEF DialsOK
<1>7. CallsOK'
  BY <1>1, <1>2 DEF Inv1, CallsOK, CallOK
<1> QED
  BY <1>3, <1>5, <1>6, <1>7 DEF Inv1

LEMMA ReaderKeeps == ASSUME Inv1, Read \/ ReadFails PROVE Inv1'
<1>1. /\ UNCHANGED <<place, waiting, conn, link, calls, late, platform, used>>
      /\ wire' \in Seq(Nat) /\ responses' \in Seq(Nat) /\ ended' \in BOOLEAN
      /\ ended' /\ step # "down" => ended \/ link = "broken"
  <2>1. wire \in Seq(Nat) /\ responses \in Seq(Nat) /\ ended \in BOOLEAN
    BY DEF Inv1, TypeInv
  <2>2. CASE Read
    <3>1. Head(wire) \in Nat /\ Tail(wire) \in Seq(Nat)
      BY <2>1, <2>2 DEF Read
    <3> QED
      BY <2>1, <2>2, <3>1 DEF Read
  <2>3. CASE ReadFails
    BY <2>1, <2>3 DEF ReadFails
  <2> QED
    BY <2>2, <2>3
<1>2. TypeInv'
  BY <1>1 DEF Inv1, TypeInv, place, platform
<1>3. PlaceOK' /\ DialsOK' /\ CallsOK'
  BY <1>1 DEF Inv1, PlaceOK, DialsOK, CallsOK, CallOK, Alive, place
<1> QED
  BY <1>2, <1>3 DEF Inv1

\* The gateway takes the first CALL of a connection.
LEMMA HandleTakes ==
    ASSUME Inv1, NEW c \in Conns, Handle(c)
    PROVE  /\ c \in Nat /\ c =< conn
           /\ calls[c] \in Seq(Call) /\ calls[c] # <<>> /\ calls[c][1] \in Call
           /\ CallOK(calls[c][1]) /\ calls' \in [Conns -> Seq(Call)]
           /\ \A d \in Conns : d # c => calls'[d] = calls[d]
           /\ calls'[c] \in Seq(Call) /\ Len(calls'[c]) = Len(calls[c]) - 1
           /\ \A i \in 1..Len(calls'[c]) : calls'[c][i] = calls[c][i + 1]
           /\ wire' = IF Live(c) THEN Append(wire, calls[c][1].age) ELSE wire
           /\ shown' = Show(calls[c][1], c)
<1>1. /\ calls \in [Conns -> Seq(Call)] /\ calls[c] \in Seq(Call) /\ c \in Nat /\ conn \in Nat
  <2>1. c \in Nat
    BY BudgetIs DEF Conns
  <2>2. conn \in Nat /\ calls \in [Conns -> Seq(Call)]
    BY BudgetIs DEF Inv1, TypeInv
  <2> QED
    BY <2>1, <2>2
<1>2. calls[c] # <<>> /\ calls' = [calls EXCEPT ![c] = Tail(@)]
  BY DEF Handle
<1>3. Head(calls[c]) = calls[c][1] /\ calls[c][1] \in Call /\ Len(calls[c]) >= 1
  BY <1>1, <1>2
<1>4. /\ Tail(calls[c]) \in Seq(Call) /\ Len(Tail(calls[c])) = Len(calls[c]) - 1
      /\ \A i \in 1..Len(Tail(calls[c])) : Tail(calls[c])[i] = calls[c][i + 1]
  BY <1>1, <1>2
<1>5. calls'[c] = Tail(calls[c]) /\ \A d \in Conns : d # c => calls'[d] = calls[d]
  BY <1>1, <1>2
<1>6. calls' \in [Conns -> Seq(Call)]
  BY <1>1, <1>2, <1>4
<1>7. CallOK(calls[c][1]) /\ ~(c > conn)
  BY <1>1, <1>2, <1>3 DEF Inv1, CallsOK
<1> QED
  BY <1>1, <1>2, <1>3, <1>4, <1>5, <1>6, <1>7 DEF Handle

LEMMA HandleKeeps == ASSUME Inv1, NEW c \in Conns, Handle(c) PROVE Inv1'
<1> DEFINE k == calls[c][1]
<1>1. /\ k \in Call /\ CallOK(k) /\ calls' \in [Conns -> Seq(Call)]
      /\ calls[c] \in Seq(Call) /\ calls'[c] \in Seq(Call)
      /\ UNCHANGED <<place, waiting, conn, link, responses, ended, late, used>>
  BY HandleTakes DEF Handle
<1>2. wire' \in Seq(Nat)
  <2>1. k.age \in Nat /\ wire \in Seq(Nat)
    BY <1>1 DEF Call, Inv1, TypeInv
  <2> QED
    <3>1. wire' = IF Live(c) THEN Append(wire, k.age) ELSE wire
      BY HandleTakes
    <3> HIDE DEF k
    <3>2. Append(wire, k.age) \in Seq(Nat)
      BY <2>1
    <3> QED
      BY <2>1, <3>1, <3>2
<1>3. shown' \in [Connectors -> [status : Statuses, conn : 0..MaxConns]]
  <2>1. shown' = Show(k, c)
    BY HandleTakes
  <2> HIDE DEF k
  <2> QED
    BY <1>1, <2>1, ShowOK DEF Inv1
<1>4. started' \subseteq 1..begun /\ stopped' \subseteq 1..begun
  <2>1. Head(calls[c]) = k
    BY <1>1
  <2>2. k.send \in {"start", "stop"} => k.session \in 1..begun
    BY <1>1, SessionsAre, SessionsAssumption DEF CallOK, Call, Inv1, TypeInv
  <2> QED
    BY <2>1, <2>2 DEF Handle, Inv1, TypeInv
<1>5. TypeInv'
  BY <1>1, <1>2, <1>3, <1>4 DEF Inv1, TypeInv, place
<1>6. PlaceOK' /\ DialsOK'
  BY <1>1 DEF Inv1, PlaceOK, DialsOK, Alive, place
<1>7. CallsOK'
  <2>1. ASSUME NEW d \in Conns
        PROVE  /\ \A i \in 1..Len(calls'[d]) : CallOK(calls'[d][i])
               /\ d > conn => calls'[d] = <<>>
    <3>1. CASE d = c
      <4>1. \A i \in 1..Len(calls'[c]) :
               calls'[c][i] = calls[c][i + 1] /\ i + 1 \in 1..Len(calls[c])
        BY <1>1, HandleTakes
      <4>2. ~(c > conn)
        BY HandleTakes DEF Inv1, TypeInv
      <4> QED
        BY <3>1, <4>1, <4>2 DEF Inv1, CallsOK
    <3>2. CASE d # c
      BY <3>2, HandleTakes DEF Inv1, CallsOK
    <3> QED
      BY <3>1, <3>2
  <2> QED
    BY <1>1, <2>1 DEF CallsOK, CallOK, place
<1> QED
  BY <1>5, <1>6, <1>7 DEF Inv1

LEMMA DiscardKeeps == ASSUME Inv1, NEW c \in Conns, Discard(c) PROVE Inv1'
<1>1. /\ calls' = [calls EXCEPT ![c] = <<>>]
      /\ UNCHANGED <<place, waiting, conn, link, channel, late, platform, used>>
  BY DEF Discard
<1>2. /\ calls' \in [Conns -> Seq(Call)] /\ calls'[c] = <<>>
      /\ \A d \in Conns : d # c => calls'[d] = calls[d]
  <2>1. <<>> \in Seq(Call)
    OBVIOUS
  <2> QED
    BY <1>1, <2>1 DEF Inv1, TypeInv
<1>3. TypeInv'
  BY <1>1, <1>2 DEF Inv1, TypeInv, place, platform, channel
<1>4. PlaceOK' /\ DialsOK'
  BY <1>1 DEF Inv1, PlaceOK, DialsOK, Alive, place, channel
<1>5. CallsOK'
  <2>1. ASSUME NEW d \in Conns
        PROVE  /\ \A i \in 1..Len(calls'[d]) : CallOK(calls'[d][i])
               /\ d > conn => calls'[d] = <<>>
    <3>1. CASE d = c
      BY <1>2, <3>1
    <3>2. CASE d # c
      BY <1>2, <3>2 DEF Inv1, CallsOK
    <3> QED
      BY <3>1, <3>2
  <2> QED
    BY <1>1, <2>1 DEF CallsOK, CallOK, place
<1> QED
  BY <1>3, <1>4, <1>5 DEF Inv1

LEMMA CutIs ==
    ASSUME Inv1, Break \/ Silence
    PROVE  /\ Alive /\ ~Alive' /\ link' \in {"silent", "broken"}
           /\ used' \in [Kinds -> Nat] /\ used'["any"] = used["any"] + 1
           /\ used'["any"] =< Budget["any"] /\ wire' \in {wire, <<>>}
           /\ UNCHANGED <<place, waiting, conn, calls, responses, ended, late, platform>>
<1>1. PICK k \in {"break", "silence"} : \E end \in {"broken", "silent"} : Cut(k, end)
  BY DEF Break, Silence
<1>2. PICK end \in {"broken", "silent"} : Cut(k, end)
  BY <1>1
<1>3. k \in Kinds /\ k # "any" /\ Spend(k)
  BY <1>2 DEF Cut, Kinds
<1> QED
  BY <1>2, <1>3, SpendOK DEF Cut, Inv1, TypeInv, Alive, place

LEMMA CutKeeps == ASSUME Inv1, Break \/ Silence PROVE Inv1'
<1>1. TypeInv'
  <2>1. wire' \in Seq(Nat)
    <3>1. wire \in Seq(Nat) /\ <<>> \in Seq(Nat)
      BY DEF Inv1, TypeInv
    <3> QED
      BY <3>1, CutIs
  <2> QED
    BY <2>1, CutIs DEF Inv1, TypeInv, place, platform
<1>2. PlaceOK'
  BY CutIs DEF Inv1, PlaceOK, place, Alive
<1>3. DialsOK'
  <2>1. conn \in Nat /\ used["any"] \in Nat /\ conn =< used["any"] + 1 /\ conn' = conn
    BY SMTT(20), CutIs, BudgetIs DEF Inv1, TypeInv, DialsOK, Kinds
  <2> QED
    BY <2>1, CutIs DEF DialsOK
<1>4. CallsOK'
  BY CutIs DEF Inv1, CallsOK, CallOK, place
<1> QED
  BY <1>1, <1>2, <1>3, <1>4 DEF Inv1

LEMMA Inv1Init == Init => Inv1
<1> SUFFICES ASSUME Init
             PROVE  Inv1
  OBVIOUS
<1> USE SessionsAre, BudgetIs
<1>1. 1 \in Connectors
  BY ConnectorsAssumption DEF Connectors
<1>2. <<>> \in Seq(Nat) /\ <<>> \in Seq(Call)
  OBVIOUS
<1>3. [status |-> "none", conn |-> 0] \in [status : Statuses, conn : 0..MaxConns]
  BY DEF Statuses
<1>4. TypeInv
  <2>1. /\ step \in Steps /\ waiting \in BOOLEAN /\ connector \in Connectors
        /\ conn \in 0..MaxConns /\ link \in {"up", "silent", "broken"}
        /\ left \in Nat /\ begun \in 0..MaxSessions
        /\ completed \subseteq 1..begun /\ started \subseteq 1..begun
        /\ stopped \subseteq 1..begun
    <3>1. step \in Steps
      BY DEF Init, Steps
    <3>2. begun \in 0..MaxSessions /\ conn \in 0..MaxConns
      BY SessionsAssumption DEF Init
    <3> QED
      BY <1>1, <3>1, <3>2 DEF Init
  <2>2. calls \in [Conns -> Seq(Call)]
    BY <1>2 DEF Init
  <2>3. wire \in Seq(Nat) /\ responses \in Seq(Nat) /\ ended \in BOOLEAN /\ late \in Nat
    BY <1>2 DEF Init
  <2>4. shown \in [Connectors -> [status : Statuses, conn : 0..MaxConns]]
    BY <1>3 DEF Init
  <2>5. used \in [Kinds -> Nat]
    BY DEF Init
  <2> QED
    BY <2>1, <2>2, <2>3, <2>4, <2>5 DEF TypeInv
<1>5. PlaceOK /\ CallsOK
  BY DEF Init, PlaceOK, CallsOK, Metered
<1>6. DialsOK
  BY DEF Init, DialsOK, Kinds
<1> QED
  BY <1>4, <1>5, <1>6 DEF Inv1

\* The steps of the simulator, as the proofs below take them apart.
LEMMA Steps1 ==
    ASSUME Next
    PROVE  \/ Dial \/ Tick \/ Begin \/ Send \/ Returns \/ Read \/ ReadFails
           \/ \E c \in Conns : Handle(c) \/ Discard(c)
           \/ Break \/ Silence
BY DEF Next, Charger, Returns

LEMMA Inv1Step == Inv1 /\ [Next]_vars => Inv1'
<1> SUFFICES ASSUME Inv1, [Next]_vars
             PROVE  Inv1'
  OBVIOUS
<1>1. CASE UNCHANGED vars
  BY <1>1 DEF vars, place, channel, socket, platform, Inv1, TypeInv, PlaceOK, DialsOK,
              CallsOK, CallOK, Alive
<1>2. CASE Next
  BY <1>2, Steps1, DialKeeps, TickBeginKeeps, SendKeeps, ReturnKeeps, ReaderKeeps,
     HandleKeeps, DiscardKeeps, CutKeeps
<1> QED
  BY <1>1, <1>2

LEMMA Inv1Always == Spec => []Inv1
BY Inv1Init, Inv1Step, PTL DEF Spec

\* The state keeps its shape (TypeOK): the meter loop never counts below its
\* last reading, and each fault costs one connection at most.
THEOREM TypeCorrect == Spec => []TypeOK
<1>1. Inv1 => TypeOK
  <2> SUFFICES ASSUME Inv1
               PROVE  TypeOK
    OBVIOUS
  <2>1. \A c \in Conns : \A i \in DOMAIN calls[c] : calls[c][i] \in Call
    BY DEF Inv1, TypeInv
  <2> QED
    BY <2>1 DEF Inv1, TypeInv, TypeOK
<1> QED
  BY <1>1, Inv1Always, PTL

-----------------------------------------------------------------------------
(* The reply that sendAndWait takes for the answer                         *)

\* s counts down, one by one, from below f
Numbered(s, f) == \A i \in 1..Len(s) : s[i] = f - i
Ages(s) == [i \in 1..Len(s) |-> s[i].age]

LEMMA NumberedOlder ==
    ASSUME NEW s \in Seq(Nat), NEW f \in Int, Numbered(s, f)
    PROVE  Numbered(Older(s), f + 1)
<1>1. /\ Len(Older(s)) = Len(s) /\ Len(s) \in Nat
      /\ \A i \in 1..Len(s) : Older(s)[i] = s[i] + 1
  BY OlderOK
<1> SUFFICES ASSUME NEW i \in 1..Len(s)
             PROVE  Older(s)[i] = (f + 1) - i
  BY <1>1 DEF Numbered
<1>2. s[i] = f - i /\ s[i] \in Nat /\ Older(s)[i] = s[i] + 1 /\ i \in Int
  BY <1>1 DEF Numbered
<1> QED
  BY <1>2

LEMMA NumberedTail ==
    ASSUME NEW s \in Seq(Nat), NEW f \in Int, Numbered(s, f), s # <<>>
    PROVE  /\ Head(s) = f - 1 /\ Len(s) >= 1
           /\ Tail(s) \in Seq(Nat) /\ Len(Tail(s)) = Len(s) - 1
           /\ Numbered(Tail(s), f - 1)
<1>1. /\ Len(s) \in Nat /\ Len(s) >= 1 /\ Head(s) = s[1] /\ Tail(s) \in Seq(Nat)
      /\ Len(Tail(s)) = Len(s) - 1
      /\ \A i \in 1..Len(Tail(s)) : Tail(s)[i] = s[i + 1]
  OBVIOUS
<1>2. Head(s) = f - 1
  BY <1>1 DEF Numbered
<1>3. ASSUME NEW i \in 1..Len(Tail(s))
      PROVE  Tail(s)[i] = (f - 1) - i
  <2>1. i \in Int /\ i + 1 \in 1..Len(s)
    BY <1>1
  <2>2. s[i + 1] = f - (i + 1)
    BY <2>1 DEF Numbered
  <2> QED
    BY <1>1, <2>1, <2>2
<1> QED
  BY <1>1, <1>2, <1>3 DEF Numbered

LEMMA NumberedAppend ==
    ASSUME NEW s \in Seq(Nat), NEW f \in Int, Numbered(s, f),
           NEW x \in Nat, x = f - (Len(s) + 1)
    PROVE  /\ Append(s, x) \in Seq(Nat) /\ Len(Append(s, x)) = Len(s) + 1
           /\ Numbered(Append(s, x), f)
<1>1. /\ Append(s, x) \in Seq(Nat) /\ Len(Append(s, x)) = Len(s) + 1 /\ Len(s) \in Nat
      /\ \A i \in 1..(Len(s) + 1) :
            Append(s, x)[i] = IF i = Len(s) + 1 THEN x ELSE s[i]
  OBVIOUS
<1>2. ASSUME NEW i \in 1..(Len(s) + 1)
      PROVE  Append(s, x)[i] = f - i
  <2>1. CASE i = Len(s) + 1
    BY <1>1, <2>1
  <2>2. CASE i # Len(s) + 1
    <3>1. i \in 1..Len(s)
      BY <1>1, <2>2
    <3> QED
      BY <1>1, <2>2, <3>1 DEF Numbered
  <2> QED
    BY <2>1, <2>2
<1> QED
  BY <1>1, <1>2 DEF Numbered

\* The ages of CALLs are as older as the CALLs are, and one less with one taken.
LEMMA AgesOK ==
    ASSUME NEW s \in Seq(Call)
    PROVE  /\ Ages(s) \in Seq(Nat) /\ Len(Ages(s)) = Len(s) /\ Len(s) \in Nat
           /\ Ages(Aged(s)) = Older(Ages(s))
           /\ s # <<>> => Ages(s) # <<>> /\ Head(Ages(s)) = s[1].age
<1>1. \A i \in 1..Len(s) : s[i] \in Call /\ s[i].age \in Nat
  <2>1. \A k \in Call : k.age \in Nat
    BY DEF Call
  <2> QED
    BY <2>1
<1>2. Ages(s) \in Seq(Nat) /\ Len(Ages(s)) = Len(s) /\ Len(s) \in Nat
      /\ \A i \in 1..Len(s) : Ages(s)[i] = s[i].age
  BY <1>1 DEF Ages
<1>3. Ages(Aged(s)) = Older(Ages(s))
  <2>1. /\ Len(Aged(s)) = Len(s) /\ \A i \in 1..Len(s) : Aged(s)[i].age = s[i].age + 1
    BY AgedOK
  <2>2. Ages(Aged(s)) = [i \in 1..Len(s) |-> s[i].age + 1]
    BY <2>1 DEF Ages
  <2>3. Older(Ages(s)) = [i \in 1..Len(s) |-> Ages(s)[i] + 1]
    BY <1>2 DEF Older
  <2> QED
    BY <1>2, <2>2, <2>3
<1>4. s # <<>> => Ages(s) # <<>> /\ Head(Ages(s)) = s[1].age
  BY <1>2
<1> QED
  BY <1>2, <1>3, <1>4

LEMMA AgesAppend ==
    ASSUME NEW s \in Seq(Call), NEW k \in Call
    PROVE  Ages(Append(s, k)) = Append(Ages(s), k.age)
<1>1. /\ Len(Append(s, k)) = Len(s) + 1 /\ Len(s) \in Nat
      /\ \A i \in 1..(Len(s) + 1) : Append(s, k)[i] = IF i = Len(s) + 1 THEN k ELSE s[i]
  OBVIOUS
<1>2. /\ Ages(s) \in Seq(Nat) /\ Len(Ages(s)) = Len(s) /\ k.age \in Nat
      /\ \A i \in 1..Len(s) : Ages(s)[i] = s[i].age
  BY AgesOK DEF Ages, Call
<1>3. Ages(Append(s, k)) = [i \in 1..(Len(s) + 1) |-> Append(s, k)[i].age]
  BY <1>1 DEF Ages
<1>4. /\ Append(Ages(s), k.age) = [i \in 1..(Len(s) + 1) |->
                                      IF i = Len(s) + 1 THEN k.age ELSE Ages(s)[i]]
  BY <1>2
<1>5. ASSUME NEW i \in 1..(Len(s) + 1)
      PROVE  Append(s, k)[i].age = IF i = Len(s) + 1 THEN k.age ELSE Ages(s)[i]
  <2>1. i # Len(s) + 1 => i \in 1..Len(s)
    BY <1>1
  <2> QED
    BY <1>1, <1>2, <2>1
<1> QED
  BY <1>3, <1>4, <1>5

LEMMA AgesTail ==
    ASSUME NEW s \in Seq(Call), s # <<>>, NEW f \in Int, Numbered(Ages(s), f)
    PROVE  s[1].age = f - 1 /\ Numbered(Ages(Tail(s)), f - 1)
<1>1. /\ Len(s) \in Nat /\ Len(s) >= 1 /\ Len(Tail(s)) = Len(s) - 1
      /\ \A i \in 1..(Len(s) - 1) : Tail(s)[i] = s[i + 1]
  OBVIOUS
<1>2. \A i \in 1..Len(s) : s[i].age = f - i
  BY AgesOK DEF Numbered, Ages
<1>3. Ages(Tail(s)) = [i \in 1..(Len(s) - 1) |-> Tail(s)[i].age]
  BY <1>1 DEF Ages
<1>4. Tail(s) \in Seq(Call)
  OBVIOUS
<1>5. Len(Ages(Tail(s))) = Len(s) - 1
  BY <1>1, <1>4, AgesOK
<1>6. ASSUME NEW i \in 1..(Len(s) - 1)
      PROVE  Ages(Tail(s))[i] = (f - 1) - i
  <2>1. i \in Int /\ i + 1 \in 1..Len(s)
    BY <1>1
  <2>2. s[i + 1].age = f - (i + 1)
    BY <1>2, <2>1
  <2> QED
    BY <1>1, <1>3, <2>1, <2>2
<1>7. s[1].age = f - 1
  BY <1>1, <1>2
<1> QED
  BY <1>5, <1>6, <1>7 DEF Numbered

\* How many CALLs of this connection still have a reply to come; the replies
\* read, those on the way and the CALLs not yet handled number them, without a
\* gap while the connection is alive.
Due == IF waiting THEN late + 1 ELSE late
Replies ==
    /\ Numbered(responses, Due)
    /\ Numbered(wire, Due - Len(responses))
    /\ ended => wire = <<>>
    /\ Alive => /\ Len(calls[conn]) = (Due - Len(responses)) - Len(wire)
                /\ Numbered(Ages(calls[conn]), (Due - Len(responses)) - Len(wire))

LEMMA Seqs ==
    ASSUME Inv1
    PROVE  /\ wire \in Seq(Nat) /\ responses \in Seq(Nat) /\ late \in Nat
           /\ Len(wire) \in Nat /\ Len(responses) \in Nat
           /\ Due \in Nat /\ conn \in Nat
           /\ Due - Len(responses) \in Int /\ (Due - Len(responses)) - Len(wire) \in Int
           /\ Alive => conn \in Conns /\ calls[conn] \in Seq(Call)
<1>1. wire \in Seq(Nat) /\ responses \in Seq(Nat) /\ late \in Nat
      /\ conn \in 0..MaxConns /\ conn \in Nat /\ calls \in [Conns -> Seq(Call)]
  BY BudgetIs DEF Inv1, TypeInv
<1>2. Alive => conn \in Conns
  BY <1>1, BudgetIs DEF Alive, Inv1, PlaceOK, Conns
<1>3. Alive => calls[conn] \in Seq(Call)
  BY <1>1, <1>2
<1>4. Due \in Nat
  BY <1>1 DEF Due
<1> QED
  BY <1>1, <1>2, <1>3, <1>4

\* Replies from its parts
LEMMA RepliesFrom ==
    ASSUME NEW d \in Int, NEW d2 \in Int, Due' = d,
           Numbered(responses', d), Numbered(wire', d - Len(responses')),
           ended' => wire' = <<>>,
           d2 = (d - Len(responses')) - Len(wire'),
           Alive' => /\ Len(calls'[conn']) = d2
                     /\ Numbered(Ages(calls'[conn']), d2)
    PROVE  Replies'
BY DEF Replies

LEMMA SendReplies == ASSUME Inv1, Replies, Send PROVE Replies'
<1> DEFINE d == Due
           e == d - Len(responses)
           g == e - Len(wire)
<1>1. /\ wire \in Seq(Nat) /\ responses \in Seq(Nat) /\ late \in Nat
      /\ conn \in Conns /\ calls[conn] \in Seq(Call)
      /\ calls'[conn] = IF link = "up" THEN Append(Aged(calls[conn]), ThisCall)
                                       ELSE Aged(calls[conn])
      /\ Len(wire) \in Nat /\ Len(responses) \in Nat /\ d \in Nat /\ e \in Int /\ g \in Int
  BY Seqs, SendWrites DEF Inv1
<1>2. /\ ~waiting /\ waiting' /\ step \in Sends /\ late' = late /\ step' = step
      /\ wire' = Older(wire) /\ responses' = Older(responses)
      /\ conn' = conn /\ link' = link
  BY DEF Send, place
<1>a. ended' <=> ended
  BY DEF Send
<1>3. Due' = d + 1
  BY <1>2 DEF Due
<1>4. Len(wire') = Len(wire) /\ Len(responses') = Len(responses)
  BY <1>1, <1>2, OlderOK
<1>b. (d + 1) - Len(responses') = e + 1 /\ ((d + 1) - Len(responses')) - Len(wire') = g + 1
  BY <1>1, <1>4
<1>c. Numbered(responses, d) /\ Numbered(wire, e)
  BY DEF Replies
<1>d. Alive => Len(calls[conn]) = g /\ Numbered(Ages(calls[conn]), g)
  BY DEF Replies
<1>e. ended => wire = <<>>
  BY DEF Replies
<1> HIDE DEF d, e, g
<1>5. Numbered(responses', d + 1) /\ Numbered(wire', e + 1)
  BY <1>1, <1>2, <1>c, NumberedOlder
<1>7. ended' => wire' = <<>>
  <2>1. Older(<<>>) = <<>>
    BY DEF Older
  <2> QED
    BY <1>2, <1>a, <1>e, <2>1
<1>8. ASSUME Alive'
      PROVE  Len(calls'[conn']) = g + 1 /\ Numbered(Ages(calls'[conn']), g + 1)
  <2> DEFINE a == Aged(calls[conn])
  <2>1. Alive /\ link = "up" /\ calls'[conn] = Append(a, ThisCall)
    BY <1>1, <1>2, <1>8 DEF Alive
  <2>2. a \in Seq(Call) /\ Len(a) = Len(calls[conn]) /\ Len(a) = g
    BY <1>1, <1>d, <2>1, AgedOK
  <2>3. Ages(calls[conn]) \in Seq(Nat) /\ Ages(a) = Older(Ages(calls[conn]))
    BY <1>1, AgesOK
  <2>4. Numbered(Ages(a), g + 1)
    BY <1>1, <1>d, <2>1, <2>3, NumberedOlder
  <2>5. Ages(a) \in Seq(Nat) /\ Len(Ages(a)) = g
    BY <2>2, AgesOK
  <2>6. ThisCall \in Call /\ ThisCall.age = 0
    BY ThisCallOK DEF Send, Inv1, ThisCall
  <2> HIDE DEF a
  <2>7. Ages(Append(a, ThisCall)) = Append(Ages(a), 0)
    BY <2>2, <2>6, AgesAppend
  <2>8. 0 = (g + 1) - (Len(Ages(a)) + 1) /\ g + 1 \in Int
    BY <1>1, <2>5
  <2>9. Numbered(Append(Ages(a), 0), g + 1)
    BY <2>4, <2>5, <2>8, NumberedAppend
  <2>10. Len(Append(a, ThisCall)) = g + 1
    BY <2>2, <2>6
  <2> QED
    BY <1>2, <2>1, <2>7, <2>9, <2>10
<1>9. d + 1 \in Int /\ g + 1 \in Int
  BY <1>1
<1> QED
  BY <1>3, <1>b, <1>5, <1>7, <1>8, <1>9, RepliesFrom

LEMMA ReturnReplies == ASSUME Inv1, Replies, Returns PROVE Replies'
<1>1. /\ step \in Sends /\ UNCHANGED <<conn, link, calls, wire, ended>> /\ waiting' = FALSE
      /\ step # "down"
  BY ReturnIs, FailedOK, ProceedOK, SessionsAre DEF Inv1
<1>2. (Alive' => Alive) /\ ~waiting'
  BY <1>1 DEF Alive
<1>3. CASE SendFails
  <2>1. ~waiting /\ late' = late /\ responses' = responses
    BY <1>3 DEF SendFails, socket, channel
  <2> QED
    BY <1>1, <1>2, <2>1 DEF Replies, Due
<1>4. CASE Receive
  <2> DEFINE d == Due
             g == (d - Len(responses)) - Len(wire)
  <2>1. /\ waiting /\ late' = late /\ responses' = Tail(responses) /\ responses # <<>>
    BY <1>4 DEF Receive
  <2>2. d = late + 1 /\ Due' = late /\ late \in Nat
    BY <1>2, <2>1, Seqs DEF Due
  <2>3. /\ responses \in Seq(Nat) /\ Len(responses) \in Nat /\ Len(wire) \in Nat
        /\ d \in Nat /\ g \in Int
    BY Seqs
  <2>4. Numbered(responses, d) /\ Numbered(wire, d - Len(responses))
        /\ (Alive => Len(calls[conn]) = g /\ Numbered(Ages(calls[conn]), g))
    BY DEF Replies
  <2> HIDE DEF d, g
  <2>5. Len(responses') = Len(responses) - 1 /\ Numbered(responses', d - 1)
    BY <2>1, <2>3, <2>4, NumberedTail
  <2>6. d - 1 \in Int /\ Due' = d - 1 /\ (d - 1) - Len(responses') = d - Len(responses)
    BY <2>2, <2>3, <2>5
  <2>7. ((d - 1) - Len(responses')) - Len(wire') = g
    BY <1>1, <2>6 DEF g
  <2>8. Numbered(wire', (d - 1) - Len(responses'))
    BY <1>1, <2>4, <2>6
  <2>9. ended' => wire' = <<>>
    BY <1>1 DEF Replies
  <2> QED
    BY <1>1, <1>2, <2>3, <2>4, <2>5, <2>6, <2>7, <2>8, <2>9, RepliesFrom
<1>5. CASE ChannelClosed
  <2>1. responses' = <<>> /\ wire' = <<>> /\ ~Alive'
    BY <1>1, <1>5 DEF ChannelClosed, socket, channel, Replies, Inv1, PlaceOK, Alive
  <2> QED
    BY <2>1 DEF Replies, Numbered
<1>6. CASE Timeout
  <2>1. waiting /\ late' = late + 1 /\ responses' = responses
    BY <1>6 DEF Timeout, socket, channel
  <2>2. Due' = Due
    BY <1>2, <2>1 DEF Due
  <2> QED
    BY <1>1, <1>2, <2>1, <2>2 DEF Replies
<1> QED
  BY <1>3, <1>4, <1>5, <1>6 DEF Returns

LEMMA ReaderReplies == ASSUME Inv1, Replies, Read \/ ReadFails PROVE Replies'
<1>1. UNCHANGED <<step, waiting, conn, link, calls, late>> /\ Due' = Due
  BY DEF Read, ReadFails, place, Due
<1>2. CASE Read
  <2> DEFINE d == Due
             e == d - Len(responses)
             g == e - Len(wire)
             h == Head(wire)
  <2>1. wire # <<>> /\ ~ended /\ responses' = Append(responses, h) /\ wire' = Tail(wire)
    BY <1>2 DEF Read
  <2>a. ~ended'
    BY <1>2 DEF Read
  <2>2. /\ responses \in Seq(Nat) /\ wire \in Seq(Nat) /\ Len(responses) \in Nat
        /\ Len(wire) \in Nat /\ d \in Nat /\ e \in Int /\ g \in Int
    BY Seqs
  <2>3. Numbered(responses, d) /\ Numbered(wire, e)
        /\ (Alive => Len(calls[conn]) = g /\ Numbered(Ages(calls[conn]), g))
    BY DEF Replies
  <2>4. h \in Nat
    BY <2>1, <2>2
  <2>b. /\ e = d - Len(responses) /\ g = e - Len(wire)
    OBVIOUS
  <2> HIDE DEF d, e, g
  <2>5. /\ h = e - 1 /\ Len(wire') = Len(wire) - 1 /\ Numbered(wire', e - 1)
    BY <2>1, <2>2, <2>3, NumberedTail
  <2> HIDE DEF h
  <2>6. h = d - (Len(responses) + 1)
    BY <2>2, <2>5, <2>b
  <2>7. Len(responses') = Len(responses) + 1 /\ Numbered(responses', d)
    BY <2>1, <2>2, <2>3, <2>4, <2>6, NumberedAppend
  <2>8. d - Len(responses') = e - 1 /\ (d - Len(responses')) - Len(wire') = g
    BY <2>2, <2>5, <2>7, <2>b
  <2>9. (Alive' => Alive) /\ Due' = d /\ d \in Int
    BY <1>1, <2>2 DEF Alive, d
  <2> QED
    BY <1>1, <2>a, <2>2, <2>3, <2>5, <2>7, <2>8, <2>9, RepliesFrom
<1>3. CASE ReadFails
  <2>1. UNCHANGED <<wire, responses>> /\ wire = <<>>
    BY <1>3 DEF ReadFails
  <2> QED
    BY <1>1, <2>1 DEF Replies, Alive
<1> QED
  BY <1>2, <1>3

LEMMA HandleReplies == ASSUME Inv1, Replies, NEW c \in Conns, Handle(c) PROVE Replies'
<1>1. UNCHANGED <<step, waiting, conn, link, responses, late>> /\ Due' = Due
  BY DEF Handle, place, Due
<1>a. ended' <=> ended
  BY DEF Handle
<1>2. CASE Live(c)
  <2> DEFINE d == Due
             e == d - Len(responses)
             g == e - Len(wire)
             s == calls[c]
             x == s[1].age
  <2>1. c = conn /\ Alive /\ link = "up" /\ step # "down"
    BY <1>2 DEF Live, Alive
  <2>2. /\ responses \in Seq(Nat) /\ wire \in Seq(Nat) /\ Len(responses) \in Nat
        /\ Len(wire) \in Nat /\ d \in Nat /\ e \in Int /\ g \in Int
    BY Seqs
  <2>3. Numbered(responses, d) /\ Numbered(wire, e) /\ Len(s) = g /\ Numbered(Ages(s), g)
    BY <2>1 DEF Replies
  <2>4. /\ s \in Seq(Call) /\ s # <<>> /\ s[1] \in Call /\ wire' = Append(wire, x)
        /\ calls'[c] = Tail(s)
    BY <1>2, HandleTakes DEF Handle, Inv1, TypeInv
  <2>5. x \in Nat
    BY <2>4 DEF Call
  <2>b. e = d - Len(responses) /\ g = e - Len(wire)
    OBVIOUS
  <2>c. x = s[1].age
    OBVIOUS
  <2> HIDE DEF d, e, g, s, x
  <2>d. /\ s[1].age = g - 1 /\ Numbered(Ages(Tail(s)), g - 1)
    BY <2>2, <2>3, <2>4, AgesTail
  <2>6. x = g - 1 /\ Numbered(Ages(Tail(s)), g - 1) /\ Len(Tail(s)) = g - 1
    BY <2>3, <2>4, <2>c, <2>d
  <2>7. x = e - (Len(wire) + 1)
    BY <2>2, <2>6, <2>b
  <2>8. Len(wire') = Len(wire) + 1 /\ Numbered(wire', e)
    BY <2>2, <2>3, <2>4, <2>5, <2>7, NumberedAppend
  <2>9. /\ d - Len(responses') = e /\ (d - Len(responses')) - Len(wire') = g - 1
        /\ g - 1 \in Int /\ d \in Int /\ Due' = d
    BY <1>1, <2>2, <2>8, <2>b DEF d
  <2>10. ~ended'
    BY <1>a, <2>1 DEF Inv1, PlaceOK
  <2>11. calls'[conn'] = Tail(s) /\ responses' = responses
    BY <1>1, <2>1, <2>4
  <2> QED
    BY <2>3, <2>6, <2>8, <2>9, <2>10, <2>11, RepliesFrom
<1>3. CASE ~Live(c)
  <2>1. wire' = wire /\ \A d \in Conns : d # c => calls'[d] = calls[d]
    BY <1>3, HandleTakes
  <2>2. Alive' => Alive /\ conn # c /\ conn \in Conns
    BY <1>1, <1>3, Seqs DEF Alive, Live
  <2> QED
    BY <1>1, <1>a, <2>1, <2>2 DEF Replies
<1> QED
  BY <1>2, <1>3

LEMMA RepliesStep == Inv1 /\ Replies /\ [Next]_vars => Replies'
<1> SUFFICES ASSUME Inv1, Replies, [Next]_vars
             PROVE  Replies'
  OBVIOUS
<1>1. CASE UNCHANGED vars
  BY <1>1 DEF vars, place, channel, socket, Replies, Due, Alive
<1>2. CASE Dial
  <2>1. /\ wire' = <<>> /\ responses' = <<>> /\ late' = 0
        /\ conn' = conn + 1 /\ calls' = calls /\ waiting' = waiting /\ step = "down"
    BY <1>2 DEF Dial, NewChannel
  <2>2. ~waiting /\ ~waiting'
    BY <2>1, SessionsAre DEF Inv1, PlaceOK
  <2>3. Due' = 0
    BY <2>1, <2>2 DEF Due
  <2>4. calls[conn + 1] = <<>>
    <3>1. conn \in Nat /\ used["any"] \in Nat /\ conn =< used["any"] /\ used["any"] =< Budget["any"]
      BY <2>1, BudgetIs DEF Inv1, TypeInv, DialsOK, Alive, Kinds
    <3>2. conn + 1 \in Conns /\ conn + 1 > conn
      BY <3>1, BudgetIs DEF Conns
    <3> QED
      BY <3>2 DEF Inv1, CallsOK
  <2>5. /\ Len(calls'[conn']) = 0 /\ Ages(calls'[conn']) = <<>>
        /\ (0 - Len(responses')) - Len(wire') = 0
    <3>1. calls'[conn'] = <<>> /\ responses' = <<>> /\ wire' = <<>>
      BY <2>1, <2>4
    <3>2. Ages(<<>>) = <<>> /\ Len(<<>>) = 0
      BY DEF Ages
    <3>3. Len(responses') = 0 /\ Len(wire') = 0 /\ (0 - 0) - 0 = 0
      BY <3>1, <3>2
    <3> QED
      BY <3>1, <3>2, <3>3
  <2>6. Numbered(<<>>, 0) /\ Numbered(<<>>, 0 - Len(responses'))
    BY DEF Numbered
  <2> QED
    BY <2>1, <2>3, <2>5, <2>6, RepliesFrom
<1>3. CASE Tick \/ Begin
  <2>1. /\ step # "down" /\ step' # "down"
        /\ UNCHANGED <<waiting, conn, link, calls, wire, responses, ended, late>>
    BY <1>3 DEF Tick, Begin, socket, channel
  <2> QED
    BY <2>1 DEF Replies, Due, Alive
<1>4. ASSUME NEW c \in Conns, Discard(c)
      PROVE  Replies'
  <2>1. /\ UNCHANGED <<step, waiting, conn, link, wire, responses, ended, late>>
        /\ calls' = [calls EXCEPT ![c] = <<>>] /\ ~Live(c)
    BY <1>4 DEF Discard, place, channel
  <2>2. Alive' => Alive /\ calls'[conn] = calls[conn]
    BY <2>1, Seqs DEF Alive, Live, Inv1, TypeInv
  <2> QED
    BY <2>1, <2>2 DEF Replies, Due
<1>5. CASE Break \/ Silence
  <2>1. ~Alive' /\ wire' \in {wire, <<>>} /\ UNCHANGED <<waiting, responses, ended, late>>
    BY <1>5, CutIs
  <2>2. Due' = Due /\ Numbered(<<>>, Due - Len(responses))
    BY <2>1 DEF Due, Numbered
  <2> QED
    BY <2>1, <2>2 DEF Replies
<1> QED
  BY <1>1, <1>2, <1>3, <1>4, <1>5, Steps1, SendReplies, ReturnReplies, ReaderReplies,
     HandleReplies

\* The reply that sendAndWait takes was asked for as many CALLs ago as it has
\* ignored timeouts on this connection (ReplyLag): the replies that are read,
\* on the way and still to be given number the CALLs, one each, without a gap.
THEOREM ReplyLagsByTimeouts == Spec => []ReplyLag
<1>1. Init => Replies
  BY DEF Init, Replies, Due, Alive, Numbered
<1>2. Inv1 /\ Replies => ReplyLag
  <2> SUFFICES ASSUME Inv1, Replies, waiting, responses # <<>>
               PROVE  Head(responses) = late
    BY DEF ReplyLag
  <2>1. /\ responses \in Seq(Nat) /\ late \in Nat /\ Due = late + 1
        /\ Numbered(responses, Due)
    BY Seqs DEF Replies, Due
  <2>2. Head(responses) = Due - 1
    BY <2>1, NumberedTail
  <2> QED
    BY <2>1, <2>2
<1> QED
  BY <1>1, <1>2, Inv1Always, RepliesStep, PTL DEF Spec

-----------------------------------------------------------------------------
(* The status the platform comes to show of a connector                    *)

\* Among the CALLs s: none sets the status of connector n; the last that does
\* sets Available.
Quiet(s, n) == \A i \in 1..Len(s) : ~Concerns(s[i], n)
EndsAvailable(s, n) ==
    \E i \in 1..Len(s) : /\ Concerns(s[i], n) /\ StatusOf(s[i].send) = "Available"
                         /\ \A j \in 1..Len(s) : j > i => ~Concerns(s[j], n)
\* with v shown now, n is shown Available once s is handled on connection c
Settles(s, v, c, n) ==
    (Quiet(s, n) /\ v = [status |-> "Available", conn |-> c]) \/ EndsAvailable(s, n)

\* n has been announced on this connection, and no session is on it
IsFree(n) ==
    /\ step \notin {"down", "boot"}
    /\ step = "available" => n < connector \/ (n = connector /\ waiting)
    /\ step \in SessionSends /\ n = connector =>
          (step = "preparing" /\ ~waiting) \/ (step \in {"leave", "free"} /\ waiting)
Statused ==
    /\ \A n \in Connectors : shown[n].conn =< conn
    /\ Alive => \A n \in Connectors : IsFree(n) => Settles(calls[conn], shown[n], conn, n)

LEMMA SettlesAged ==
    ASSUME NEW s \in Seq(Call), NEW v, NEW c, NEW n, Settles(s, v, c, n)
    PROVE  Settles(Aged(s), v, c, n)
<1>1. /\ Len(Aged(s)) = Len(s)
      /\ \A i \in 1..Len(s) : /\ Concerns(Aged(s)[i], n) <=> Concerns(s[i], n)
                              /\ Aged(s)[i].send = s[i].send
  BY AgedOK DEF Concerns
<1>2. CASE Quiet(s, n) /\ v = [status |-> "Available", conn |-> c]
  BY <1>1, <1>2 DEF Quiet, Settles
<1>3. CASE EndsAvailable(s, n)
  BY <1>1, <1>3 DEF EndsAvailable, Settles
<1> QED
  BY <1>2, <1>3 DEF Settles

LEMMA SettlesAppend ==
    ASSUME NEW s \in Seq(Call), NEW v, NEW c, NEW n, NEW k \in Call,
           \/ Settles(s, v, c, n) /\ ~Concerns(k, n)
           \/ Concerns(k, n) /\ StatusOf(k.send) = "Available"
    PROVE  Settles(Append(s, k), v, c, n)
<1> DEFINE t == Append(s, k)
<1>1. /\ Len(s) \in Nat /\ Len(t) = Len(s) + 1 /\ t[Len(s) + 1] = k
      /\ \A i \in 1..Len(s) : t[i] = s[i]
  OBVIOUS
<1> HIDE DEF t
<1>2. \A i \in 1..(Len(s) + 1) : i \in 1..Len(s) \/ i = Len(s) + 1
  BY <1>1
<1>3. CASE Concerns(k, n) /\ StatusOf(k.send) = "Available"
  <2>1. Len(s) + 1 \in 1..Len(t)
    BY <1>1
  <2>2. \A j \in 1..Len(t) : ~(j > Len(s) + 1)
    BY <1>1
  <2>3. EndsAvailable(t, n)
    BY <1>1, <1>3, <2>1, <2>2 DEF EndsAvailable
  <2> QED
    BY <2>3 DEF Settles, t
<1>4. CASE Quiet(s, n) /\ v = [status |-> "Available", conn |-> c] /\ ~Concerns(k, n)
  <2>1. Quiet(t, n)
    BY <1>1, <1>2, <1>4 DEF Quiet
  <2> QED
    BY <1>4, <2>1 DEF Settles, t
<1>5. CASE EndsAvailable(s, n) /\ ~Concerns(k, n)
  <2>1. PICK i \in 1..Len(s) : /\ Concerns(s[i], n) /\ StatusOf(s[i].send) = "Available"
                               /\ \A j \in 1..Len(s) : j > i => ~Concerns(s[j], n)
    BY <1>5 DEF EndsAvailable
  <2>2. i \in 1..Len(t) /\ t[i] = s[i]
    BY <1>1
  <2>3. \A j \in 1..Len(t) : j > i => ~Concerns(t[j], n)
    BY <1>1, <1>2, <1>5, <2>1
  <2>4. EndsAvailable(t, n)
    BY <2>1, <2>2, <2>3 DEF EndsAvailable
  <2> QED
    BY <2>4 DEF Settles, t
<1> QED
  BY <1>3, <1>4, <1>5 DEF Settles

LEMMA SettlesTail ==
    ASSUME NEW s \in Seq(Call), s # <<>>, NEW t, NEW v, NEW w, NEW c, NEW n,
           Settles(s, v, c, n),
           Len(t) = Len(s) - 1, \A i \in 1..Len(t) : t[i] = s[i + 1],
           w = IF Concerns(s[1], n) THEN [status |-> StatusOf(s[1].send), conn |-> c] ELSE v
    PROVE  Settles(t, w, c, n)
<1>1. Len(s) \in Nat /\ Len(s) >= 1 /\ Len(t) \in Nat
  OBVIOUS
<1>2. CASE Quiet(s, n) /\ v = [status |-> "Available", conn |-> c]
  <2>1. ~Concerns(s[1], n)
    BY <1>1, <1>2 DEF Quiet
  <2>2. Quiet(t, n)
    <3>1. ASSUME NEW i \in 1..Len(t)
          PROVE  ~Concerns(t[i], n)
      <4>1. i + 1 \in 1..Len(s)
        BY <1>1
      <4> QED
        BY <1>2, <4>1 DEF Quiet
    <3> QED
      BY <3>1 DEF Quiet
  <2> QED
    BY <1>2, <2>1, <2>2 DEF Settles
<1>3. CASE EndsAvailable(s, n)
  <2>1. PICK i \in 1..Len(s) : /\ Concerns(s[i], n) /\ StatusOf(s[i].send) = "Available"
                               /\ \A j \in 1..Len(s) : j > i => ~Concerns(s[j], n)
    BY <1>3 DEF EndsAvailable
  <2>2. CASE i = 1
    <3>1. ASSUME NEW j \in 1..Len(t)
          PROVE  ~Concerns(t[j], n)
      <4>1. j + 1 \in 1..Len(s) /\ j + 1 > 1
        BY <1>1
      <4> QED
        BY <2>1, <2>2, <4>1
    <3> QED
      BY <2>1, <2>2, <3>1 DEF Settles, Quiet
  <2>3. CASE i # 1
    <3>1. i - 1 \in 1..Len(t) /\ (i - 1) + 1 = i
      BY <1>1, <2>3
    <3>2. t[i - 1] = s[i]
      BY <3>1
    <3>3. ASSUME NEW j \in 1..Len(t), j > i - 1
          PROVE  ~Concerns(t[j], n)
      <4>1. j + 1 \in 1..Len(s) /\ j + 1 > i
        BY <1>1, <3>1, <3>3
      <4> QED
        BY <2>1, <4>1
    <3>4. EndsAvailable(t, n)
      BY <2>1, <3>1, <3>2, <3>3 DEF EndsAvailable
    <3> QED
      BY <3>4 DEF Settles
  <2> QED
    BY <2>2, <2>3
<1> QED
  BY <1>2, <1>3 DEF Settles

-----------------------------------------------------------------------------
LEMMA StatusOfs ==
    /\ \A s \in {"available", "leave", "free"} : StatusOf(s) = "Available"
    /\ \A s \in {"boot", "beat", "start", "sessionBeat", "meter", "stop"} : StatusOf(s) = "none"
BY DEF StatusOf

LEMMA SendStatused == ASSUME Inv1, Statused, Send PROVE Statused'
<1>1. /\ ~waiting /\ waiting' /\ step \in Sends
      /\ UNCHANGED <<step, connector, conn, link, shown>>
  BY DEF Send, place, platform
<1>2. ASSUME Alive', NEW n \in Connectors, IsFree(n)'
      PROVE  Settles(calls'[conn], shown[n], conn, n)
  <2>1. /\ Alive /\ link = "up" /\ calls[conn] \in Seq(Call)
        /\ calls'[conn] = Append(Aged(calls[conn]), ThisCall)
    BY <1>1, <1>2, SendWrites DEF Alive, Inv1
  <2>2. ThisCall \in Call /\ ThisCall.send = step /\ ThisCall.connector = connector
    BY <1>1, ThisCallOK DEF Inv1, ThisCall
  <2>3. n \in Nat /\ connector \in Nat
    BY DEF Connectors, Inv1, TypeInv
  <2>4. \/ IsFree(n) /\ ~Concerns(ThisCall, n)
        \/ Concerns(ThisCall, n) /\ StatusOf(ThisCall.send) = "Available"
    <3>1. CASE n = connector
      <4>1. step \in {"available", "beat", "leave", "free"}
        BY <1>1, <1>2, <3>1, SessionsAre DEF IsFree
      <4>2. CASE step = "beat"
        BY <2>2, <3>1, <4>2, StatusOfs, SessionsAre DEF IsFree, Concerns
      <4>3. CASE step \in {"available", "leave", "free"}
        BY <2>2, <3>1, <4>3, StatusOfs DEF Concerns
      <4> QED
        BY <4>1, <4>2, <4>3
    <3>2. CASE n # connector
      BY <1>1, <1>2, <2>2, <3>2 DEF IsFree, Concerns
    <3> QED
      BY <3>1, <3>2
  <2>5. IsFree(n) => Settles(calls[conn], shown[n], conn, n)
    BY <2>1 DEF Statused
  <2>6. Aged(calls[conn]) \in Seq(Call)
    BY <2>1, AgedOK
  <2>7. IsFree(n) => Settles(Aged(calls[conn]), shown[n], conn, n)
    BY <2>1, <2>5, SettlesAged
  <2> QED
    BY <2>1, <2>2, <2>4, <2>6, <2>7, SettlesAppend
<1> QED
  BY <1>1, <1>2 DEF Statused

\* A connector that is free after a step of the program was free before.
LEMMA FreeBefore ==
    ASSUME Inv1, waiting, step \in Sends, Proceed, NEW n \in Connectors, IsFree(n)'
    PROVE  IsFree(n)
<1>1. n \in Nat /\ n >= 1 /\ n =< NumConnectors /\ connector \in Nat /\ ~waiting'
      /\ connector =< NumConnectors /\ NumConnectors \in Nat
  BY ConnectorsAssumption DEF Connectors, Inv1, TypeInv, Proceed
<1>2. CASE step = "boot" /\ Announce
  BY <1>1, <1>2 DEF Announce, IsFree
<1>3. CASE AnnouncesMore /\ connector' = connector + 1 /\ UNCHANGED step
  <2>1. step = "available" /\ n < connector + 1
    BY <1>1, <1>3 DEF AnnouncesMore, IsFree
  <2> QED
    BY <1>1, <2>1, SessionsAre DEF IsFree
<1>4. CASE step # "boot" /\ ~AnnouncesMore /\ step' \in Then(step) /\ UNCHANGED connector
  <2>1. /\ step' \in SessionSends \union {"idle"} /\ step' # "preparing"
        /\ step' \in SessionSends => step \in SessionSends
        /\ step' = "idle" => step \in {"available", "beat", "leave", "free"}
    BY <1>4, ThenAre
  <2>2. CASE step' = "idle"
    <3>1. CASE step = "available"
      <4>1. connector = NumConnectors
        BY <1>1, <1>4, <3>1 DEF AnnouncesMore
      <4> QED
        BY <1>1, <3>1, <4>1, SessionsAre DEF IsFree
    <3>2. CASE step \in {"beat", "leave", "free"}
      BY <3>2, SessionsAre DEF IsFree
    <3> QED
      BY <2>1, <2>2, <3>1, <3>2
  <2>3. CASE step' \in SessionSends
    <3>1. n # connector
      BY <1>1, <1>4, <2>1, <2>3 DEF IsFree
    <3> QED
      BY <2>1, <2>3, <3>1, SessionsAre DEF IsFree
  <2> QED
    BY <2>1, <2>2, <2>3
<1> QED
  BY <1>2, <1>3, <1>4 DEF Proceed

LEMMA ReturnStatused == ASSUME Inv1, Statused, Returns PROVE Statused'
<1>1. step \in Sends /\ UNCHANGED <<conn, link, calls, shown>> /\ (Failed \/ Proceed)
  BY ReturnIs DEF platform
<1>2. step # "down"
  BY <1>1, SessionsAre
<1>3. ASSUME Alive', NEW n \in Connectors, IsFree(n)'
      PROVE  IsFree(n) /\ Alive
  <2>1. Alive /\ step' # "down"
    BY <1>1, <1>2, <1>3 DEF Alive
  <2>2. Proceed
    BY <1>1, <2>1 DEF Failed, Abort
  <2>3. waiting
    BY <2>1 DEF Returns, SendFails, Receive, ChannelClosed, Timeout, Alive
  <2> QED
    BY <1>1, <1>3, <2>1, <2>2, <2>3, FreeBefore
<1> QED
  BY <1>1, <1>3 DEF Statused

LEMMA HandleStatused == ASSUME Inv1, Statused, NEW c \in Conns, Handle(c) PROVE Statused'
<1> DEFINE s == calls[c]
<1>1. UNCHANGED <<step, waiting, conn, link, connector>>
  BY DEF Handle, place
<1>2. /\ c \in Nat /\ c =< conn /\ s \in Seq(Call) /\ s # <<>> /\ s[1] \in Call
      /\ shown' = Show(s[1], c) /\ Len(calls'[c]) = Len(s) - 1
      /\ \A i \in 1..Len(calls'[c]) : calls'[c][i] = s[i + 1]
      /\ \A d \in Conns : d # c => calls'[d] = calls[d]
  BY HandleTakes
<1> HIDE DEF s
<1>3. \A n \in Connectors :
         shown'[n] = IF Concerns(s[1], n) /\ c >= shown[n].conn
                     THEN [status |-> StatusOf(s[1].send), conn |-> c] ELSE shown[n]
  BY <1>2, ShowOK DEF Inv1
<1>4. \A n \in Connectors : shown[n].conn \in Nat /\ shown[n].conn =< conn
  BY BudgetIs DEF Inv1, TypeInv, Statused
<1>5. \A n \in Connectors : shown'[n].conn =< conn'
  <2> SUFFICES ASSUME NEW n \in Connectors
               PROVE  shown'[n].conn =< conn
    BY <1>1
  <2>1. CASE Concerns(s[1], n) /\ c >= shown[n].conn
    BY <1>2, <1>3, <2>1
  <2>2. CASE ~(Concerns(s[1], n) /\ c >= shown[n].conn)
    BY <1>3, <1>4, <2>2
  <2> QED
    BY <2>1, <2>2
<1>6. ASSUME Alive', NEW n \in Connectors, IsFree(n)'
      PROVE  Settles(calls'[conn], shown'[n], conn, n)
  <2>1. Alive /\ IsFree(n) /\ conn \in Conns /\ conn \in Nat
    BY <1>1, <1>6, Seqs DEF Alive, IsFree
  <2>2. Settles(calls[conn], shown[n], conn, n)
    BY <2>1 DEF Statused
  <2>3. CASE c = conn
    <3>1. shown'[n] = IF Concerns(s[1], n)
                      THEN [status |-> StatusOf(s[1].send), conn |-> conn] ELSE shown[n]
      BY <1>3, <1>4, <2>3
    <3> QED
      BY <1>2, <2>2, <2>3, <3>1, SettlesTail DEF s
  <2>4. CASE c # conn
    <3>1. calls'[conn] = calls[conn] /\ c < conn
      BY <1>2, <2>1, <2>4
    <3>2. CASE EndsAvailable(calls[conn], n)
      BY <3>1, <3>2 DEF Settles
    <3>3. CASE Quiet(calls[conn], n) /\ shown[n] = [status |-> "Available", conn |-> conn]
      <4>1. shown[n].conn = conn
        BY <3>3
      <4>2. shown'[n] = shown[n]
        BY <1>2, <1>3, <2>1, <3>1, <4>1
      <4> QED
        BY <2>2, <3>1, <4>2
    <3> QED
      BY <2>2, <3>2, <3>3 DEF Settles
  <2> QED
    BY <2>3, <2>4
<1> QED
  BY <1>1, <1>5, <1>6 DEF Statused

LEMMA StatusedStep == Inv1 /\ Statused /\ [Next]_vars => Statused'
<1> SUFFICES ASSUME Inv1, Statused, [Next]_vars
             PROVE  Statused'
  OBVIOUS
<1>1. CASE UNCHANGED vars
  BY <1>1 DEF vars, place, socket, platform, Statused, IsFree, Alive
<1>2. CASE Dial
  <2>1. step' = "boot" /\ conn' = conn + 1 /\ shown' = shown
    BY <1>2 DEF Dial, platform
  <2>2. \A n \in Connectors : shown[n].conn \in Nat /\ shown[n].conn =< conn /\ conn \in Nat
    BY BudgetIs DEF Inv1, TypeInv, Statused
  <2> QED
    BY <2>1, <2>2 DEF Statused, IsFree
<1>3. CASE Tick \/ Begin
  <2>1. /\ step = "idle" /\ step' \in {"beat", "preparing"}
        /\ UNCHANGED <<waiting, conn, link, calls, shown>>
    BY <1>3 DEF Tick, Begin, socket, platform
  <2>2. (Alive' => Alive) /\ \A n \in Connectors : IsFree(n)
    BY <2>1, SessionsAre DEF Alive, IsFree
  <2> QED
    BY <2>1, <2>2 DEF Statused
<1>4. CASE Read \/ ReadFails
  BY <1>4 DEF Read, ReadFails, place, platform, Statused, IsFree, Alive
<1>5. ASSUME NEW c \in Conns, Discard(c)
      PROVE  Statused'
  <2>1. /\ UNCHANGED <<step, waiting, connector, conn, link, shown>>
        /\ calls' = [calls EXCEPT ![c] = <<>>] /\ ~Live(c)
    BY <1>5 DEF Discard, place, platform
  <2>2. Alive' => Alive /\ calls'[conn] = calls[conn]
    BY <2>1, Seqs DEF Alive, Live, Inv1, TypeInv
  <2> QED
    BY <2>1, <2>2 DEF Statused, IsFree
<1>6. CASE Break \/ Silence
  BY <1>6, CutIs DEF Statused, platform
<1> QED
  BY <1>1, <1>2, <1>3, <1>4, <1>5, <1>6, Steps1, SendStatused, ReturnStatused, HandleStatused

\* While the charger is idle on a connection that works, the platform shows all
\* its connectors Available as soon as its CALLs are handled
\* (IdleShowsAvailable), whatever broke before and whatever comes late from
\* earlier connections.
THEOREM IdleIsAvailable == Spec => []IdleShowsAvailable
<1>1. Init => Statused
  BY DEF Init, Statused, Alive
<1>2. Inv1 /\ Statused => IdleShowsAvailable
  <2> SUFFICES ASSUME Inv1, Statused, link = "up", step = "idle",
                      \A c \in Conns : calls[c] = <<>>, NEW n \in Connectors
               PROVE  shown[n].status = "Available"
    BY DEF IdleShowsAvailable
  <2>1. Alive /\ IsFree(n) /\ conn \in Conns
    BY Seqs, SessionsAre DEF Alive, IsFree
  <2>2. Settles(<<>>, shown[n], conn, n)
    BY <2>1 DEF Statused
  <2>3. ~EndsAvailable(<<>>, n)
    BY DEF EndsAvailable
  <2> QED
    BY <2>2, <2>3 DEF Settles
<1> QED
  BY <1>1, <1>2, Inv1Always, StatusedStep, PTL DEF Spec

-----------------------------------------------------------------------------
(* A fault costs one session at most                                       *)

\* The steps of a session after its StartTransaction is written
AfterStart == SessionSends \ {"preparing", "leave", "start"}
Touched    == step \in AfterStart \/ (step = "start" /\ waiting)
Sent(s, send, n) == \E i \in 1..Len(s) : s[i].send = send /\ s[i].session = n

\* sessions that need a stop, and whose stop has not been handled; those of
\* them that this connection takes care of
Owed(n) == \/ n \in started \union completed
           \/ \E c \in Conns : Sent(calls[c], "start", n)
           \/ Touched /\ n = begun
Open    == {n \in 1..begun : Owed(n) /\ n \notin stopped}
Kept(n) == Sent(calls[conn], "stop", n) \/ (Touched /\ n = begun)
Mine    == {n \in Open : Kept(n)}
Lost    == Open \ Mine

Replied == Len(responses) + Len(wire)
\* replies that can take the session further, but for the CALL that waits
Spare == IF waiting /\ Replied > 0 THEN Replied - 1 ELSE Replied
\* a session is about to open
Opens == IF \/ step = "start" /\ ~waiting
            \/ step = "preparing" /\ waiting /\ Replied > 0
         THEN 1 ELSE 0

\* A stop follows its start, on its connection or in what has been handled.
Preceded(s, done) ==
    \A i \in 1..Len(s) : s[i].send = "stop" =>
        \/ s[i].session \in done
        \/ \E j \in 1..Len(s) : /\ j < i /\ s[j].send = "start"
                                /\ s[j].session = s[i].session
StartBefore ==
    /\ stopped \subseteq started
    /\ \A c \in Conns : Preceded(calls[c], started)
    /\ Alive /\ Touched => begun \in started \/ Sent(calls[conn], "start", begun)

\* On a connection that works the stop of a session is on its way once written,
\* and the CALL that waits is the last one.
StopKept ==
    /\ Alive /\ (step = "free" \/ (step = "stop" /\ waiting)) =>
           begun \in stopped \/ Sent(calls[conn], "stop", begun)
    /\ Alive /\ waiting /\ calls[conn] # <<>> =>
           calls[conn][Len(calls[conn])].session = Session

\* Faults pay for what is lost, and, once the connection is dead, for what its
\* replies can still begin.
Paid ==
    /\ Alive => Cardinality(Lost) + late =< used["any"]
    /\ step # "down" /\ link # "up" => (Cardinality(Open) + Spare) + Opens =< used["any"]
    /\ step = "down" => Cardinality(Open) =< used["any"]

LossInv == StartBefore /\ StopKept /\ Paid

-----------------------------------------------------------------------------
(* Counting                                                                *)

LEMMA SubsetCounts ==
    ASSUME NEW T, IsFiniteSet(T), NEW S, S \subseteq T
    PROVE  /\ IsFiniteSet(S) /\ Cardinality(S) \in Nat /\ Cardinality(T) \in Nat
           /\ Cardinality(S) =< Cardinality(T)
<1>1. S \in SUBSET T
  OBVIOUS
<1>2. IsFiniteSet(S) /\ Cardinality(S) =< Cardinality(T)
  BY <1>1, FS_Subset
<1> QED
  BY <1>2, FS_CardinalityType

LEMMA AddCounts ==
    ASSUME NEW T, IsFiniteSet(T), NEW x, NEW S, S \subseteq T \union {x}
    PROVE  /\ IsFiniteSet(S) /\ Cardinality(S) \in Nat /\ Cardinality(T) \in Nat
           /\ Cardinality(S) =< Cardinality(T) + 1
<1>1. /\ IsFiniteSet(T \union {x}) /\ Cardinality(T) \in Nat
      /\ Cardinality(T \union {x}) = IF x \in T THEN Cardinality(T) ELSE Cardinality(T) + 1
  BY FS_AddElement, FS_CardinalityType
<1>2. /\ IsFiniteSet(S) /\ Cardinality(S) \in Nat
      /\ Cardinality(S) =< Cardinality(T \union {x})
  BY <1>1, SubsetCounts
<1> QED
  BY <1>1, <1>2

\* The sessions of n CALLs, and one more.
LEMMA SessionsCount ==
    ASSUME NEW s \in Seq(Call), NEW S, \A n \in S : \E i \in 1..Len(s) : s[i].session = n
    PROVE  IsFiniteSet(S) /\ Cardinality(S) \in Nat /\ Cardinality(S) =< Len(s)
<1> DEFINE f == [i \in 1..Len(s) |-> s[i].session]
           T == {f[i] : i \in 1..Len(s)}
<1>1. Len(s) \in Nat
  OBVIOUS
<1>2. IsFiniteSet(1..Len(s)) /\ Cardinality(1..Len(s)) = Len(s)
  BY <1>1, FS_Interval
<1>3. f \in Surjection(1..Len(s), T)
  BY DEF Surjection
<1>4. IsFiniteSet(T) /\ Cardinality(T) =< Len(s)
  <2> HIDE DEF f, T
  <2>1. IsFiniteSet(T) /\ Cardinality(T) =< Cardinality(1..Len(s))
    BY <1>2, <1>3, FS_Surjection
  <2> QED
    BY <1>2, <2>1
<1>5. S \subseteq T
  <2>1. ASSUME NEW n \in S
        PROVE  n \in T
    <3>1. PICK i \in 1..Len(s) : s[i].session = n
      OBVIOUS
    <3> QED
      BY <3>1
  <2> QED
    BY <2>1
<1> HIDE DEF T
<1> QED
  BY <1>1, <1>4, <1>5, SubsetCounts

LEMMA Counts ==
    ASSUME Inv1
    PROVE  /\ Open \subseteq 1..begun /\ IsFiniteSet(Open) /\ IsFiniteSet(Lost)
           /\ Cardinality(Open) \in Nat /\ Cardinality(Lost) \in Nat
           /\ Cardinality(Mine) \in Nat
           /\ Cardinality(Open) =< Cardinality(Lost) + Cardinality(Mine)
           /\ used["any"] \in Nat /\ late \in Nat /\ begun \in Nat
           /\ Len(wire) \in Nat /\ Len(responses) \in Nat /\ Replied \in Nat
           /\ Spare \in Nat /\ Opens \in {0, 1}
<1>1. begun \in Nat /\ used["any"] \in Nat /\ late \in Nat
  BY SessionsAssumption DEF Inv1, TypeInv, Kinds
<1>2. Open \subseteq 1..begun /\ Lost \subseteq Open /\ Mine \subseteq Open
      /\ Open = Lost \union Mine /\ Lost \intersect Mine = {}
  BY DEF Open, Lost, Mine
<1>3. IsFiniteSet(1..begun)
  BY <1>1, FS_Interval
<1>4. IsFiniteSet(Open) /\ Cardinality(Open) \in Nat
  BY <1>2, <1>3, SubsetCounts
<1>5. /\ IsFiniteSet(Lost) /\ Cardinality(Lost) \in Nat
      /\ IsFiniteSet(Mine) /\ Cardinality(Mine) \in Nat
  BY <1>2, <1>4, SubsetCounts
<1>6. Cardinality(Open) = (Cardinality(Lost) + Cardinality(Mine)) - 0
  <2>1. Cardinality(Lost \union Mine) =
           Cardinality(Lost) + Cardinality(Mine) - Cardinality(Lost \intersect Mine)
    BY <1>5, FS_Union
  <2>2. Cardinality(Lost \intersect Mine) = 0
    BY <1>2, FS_EmptySet
  <2> QED
    BY <1>2, <1>5, <2>1, <2>2
<1>7. Len(wire) \in Nat /\ Len(responses) \in Nat
  BY Seqs
<1>8. Replied \in Nat /\ Spare \in Nat /\ Opens \in {0, 1}
  BY <1>7 DEF Replied, Spare, Opens
<1> QED
  BY <1>1, <1>2, <1>4, <1>5, <1>6, <1>7, <1>8

-----------------------------------------------------------------------------
(* CALLs in flight                                                         *)

LEMMA SentAged ==
    ASSUME NEW s \in Seq(Call), NEW x, NEW n
    PROVE  Sent(Aged(s), x, n) <=> Sent(s, x, n)
BY AgedOK DEF Sent

LEMMA SentAppend ==
    ASSUME NEW s \in Seq(Call), NEW k \in Call, NEW x, NEW n
    PROVE  Sent(Append(s, k), x, n) <=> Sent(s, x, n) \/ (k.send = x /\ k.session = n)
<1> DEFINE t == Append(s, k)
<1>1. /\ Len(s) \in Nat /\ Len(t) = Len(s) + 1 /\ t[Len(s) + 1] = k
      /\ \A i \in 1..Len(s) : t[i] = s[i]
  OBVIOUS
<1> HIDE DEF t
<1>2. \A i \in 1..Len(t) : i \in 1..Len(s) \/ i = Len(s) + 1
  BY <1>1
<1>3. ASSUME Sent(t, x, n)
      PROVE  Sent(s, x, n) \/ (k.send = x /\ k.session = n)
  BY <1>1, <1>2, <1>3 DEF Sent
<1>4. ASSUME Sent(s, x, n)
      PROVE  Sent(t, x, n)
  <2>1. \A i \in 1..Len(s) : i \in 1..Len(t)
    BY <1>1
  <2> QED
    BY <1>1, <1>4, <2>1 DEF Sent
<1>5. ASSUME k.send = x, k.session = n
      PROVE  Sent(t, x, n)
  <2>1. Len(s) + 1 \in 1..Len(t)
    BY <1>1
  <2> QED
    BY <1>1, <1>5, <2>1 DEF Sent
<1> QED
  BY <1>3, <1>4, <1>5 DEF t

LEMMA SentTail ==
    ASSUME NEW s \in Seq(Call), s # <<>>, NEW t, Len(t) = Len(s) - 1,
           \A i \in 1..Len(t) : t[i] = s[i + 1], NEW x, NEW n
    PROVE  Sent(s, x, n) <=> Sent(t, x, n) \/ (s[1].send = x /\ s[1].session = n)
<1>1. Len(s) \in Nat /\ Len(s) >= 1
  OBVIOUS
<1>2. \A i \in 1..Len(t) : i + 1 \in 1..Len(s)
  BY <1>1
<1>3. \A i \in 1..Len(s) : i = 1 \/ (i - 1 \in 1..Len(t) /\ (i - 1) + 1 = i)
  BY <1>1
<1>4. ASSUME Sent(t, x, n)
      PROVE  Sent(s, x, n)
  BY <1>2, <1>4 DEF Sent
<1>5. ASSUME s[1].send = x, s[1].session = n
      PROVE  Sent(s, x, n)
  <2>1. 1 \in 1..Len(s)
    BY <1>1
  <2> QED
    BY <1>5, <2>1 DEF Sent
<1>6. ASSUME Sent(s, x, n)
      PROVE  Sent(t, x, n) \/ (s[1].send = x /\ s[1].session = n)
  <2>1. PICK i \in 1..Len(s) : s[i].send = x /\ s[i].session = n
    BY <1>6 DEF Sent
  <2>2. CASE i = 1
    BY <2>1, <2>2
  <2>3. CASE i # 1
    <3>1. i - 1 \in 1..Len(t) /\ t[i - 1] = s[i]
      BY <1>3, <2>3
    <3> QED
      BY <2>1, <3>1 DEF Sent
  <2> QED
    BY <2>2, <2>3
<1> QED
  BY <1>4, <1>5, <1>6

\* What follows a CALL that is answered or whose error is dropped: a session
\* goes on with its stop to come, or ends with it written.
LEMMA ProceedTouches ==
    ASSUME Inv1, step \in Sends, waiting \/ step \in Ignored, Proceed
    PROVE  /\ ~waiting' /\ step' # "down" /\ begun' = begun
           /\ Touched' => Touched
           /\ Touched => Touched' \/ (step = "free" /\ completed' = completed \union {begun})
           /\ completed' \subseteq completed \union (IF Touched THEN {begun} ELSE {})
           /\ step' = "start" => step = "preparing"
           /\ step' = "free" => step = "stop"
<1> USE SessionsAre
<1>1. ~waiting' /\ begun' = begun /\ step' # "down"
  BY ProceedOK DEF Inv1
<1>2. /\ AfterStart = {"charging", "sessionBeat", "suspended", "resumed", "meter",
                       "finishing", "stop", "free"}
      /\ Touched' <=> step' \in AfterStart
  BY <1>1 DEF AfterStart, Touched
<1>3. completed' = IF step = "free" THEN completed \union {begun} ELSE completed
  BY DEF Proceed
<1>4. Touched <=> step \in AfterStart \union {"start"}
  BY DEF Touched, Ignored
<1>5. CASE step = "boot" /\ Announce
  BY <1>1, <1>2, <1>3, <1>4, <1>5 DEF Announce
<1>6. CASE AnnouncesMore /\ UNCHANGED step
  BY <1>1, <1>2, <1>3, <1>4, <1>6 DEF AnnouncesMore
<1>7. CASE step' \in Then(step)
  <2>1. CASE step \in {"boot", "available", "beat", "leave"}
    BY <1>1, <1>2, <1>3, <1>4, <1>7, <2>1 DEF Then
  <2>2. CASE step = "preparing"
    BY <1>1, <1>2, <1>3, <1>4, <1>7, <2>2 DEF Then
  <2>3. CASE step \in {"start", "suspended", "resumed", "finishing", "stop", "free"}
    BY <1>1, <1>2, <1>3, <1>4, <1>7, <2>3 DEF Then
  <2>4. CASE step \in {"charging", "sessionBeat"}
    <3>1. step' \in Turn(left)
      BY <1>7, <2>4 DEF Then
    <3> QED
      BY <1>1, <1>2, <1>3, <1>4, <2>4, <3>1 DEF Turn
  <2>5. CASE step = "meter"
    <3>1. step' \in AfterMeter(left)
      BY <1>7, <2>5 DEF Then
    <3> QED
      BY <1>1, <1>2, <1>3, <1>4, <2>5, <3>1 DEF AfterMeter, Turn
  <2> QED
    BY <2>1, <2>2, <2>3, <2>4, <2>5
<1> QED
  BY <1>5, <1>6, <1>7 DEF Proceed

-----------------------------------------------------------------------------
(* What a step does to the sessions that need a stop                       *)

LEMMA ReturnGoes ==
    ASSUME Inv1, Returns
    PROVE  /\ step \in Sends /\ step # "down" /\ ~waiting' /\ begun' = begun
           /\ UNCHANGED <<conn, link, calls, started, stopped, shown>>
           /\ Abort \/ (Proceed /\ (waiting \/ step \in Ignored))
<1>1. step \in Sends /\ UNCHANGED <<conn, link, calls, started, stopped, shown>>
  BY ReturnIs DEF platform
<1>2. Abort \/ (Proceed /\ (waiting \/ step \in Ignored))
  BY DEF Returns, SendFails, Receive, ChannelClosed, Timeout, Failed
<1>3. ~waiting' /\ begun' = begun
  BY ReturnIs, FailedOK, ProceedOK DEF Inv1
<1> QED
  BY <1>1, <1>2, <1>3, SessionsAre

LEMMA ReturnOpens ==
    ASSUME Inv1, StopKept, Returns
    PROVE  /\ Open' \subseteq Open
           /\ Alive' => Alive /\ Lost' \subseteq Lost
<1>1. /\ step \in Sends /\ step # "down" /\ ~waiting' /\ begun' = begun
      /\ UNCHANGED <<conn, link, calls, started, stopped>>
      /\ Abort \/ (Proceed /\ (waiting \/ step \in Ignored))
  BY ReturnGoes
<1>2. CASE Abort
  <2>1. step' = "down" /\ completed' = completed
    BY <1>2 DEF Abort
  <2>2. ~Touched' /\ ~Alive'
    BY <2>1, SessionsAre DEF Touched, AfterStart, Alive
  <2>3. \A n : Owed(n)' => Owed(n)
    BY <1>1, <2>1, <2>2 DEF Owed
  <2> QED
    BY <1>1, <2>2, <2>3 DEF Open
<1>3. CASE Proceed /\ (waiting \/ step \in Ignored)
  <2>1. /\ step' # "down" /\ (Touched' => Touched)
        /\ Touched => Touched' \/ (step = "free" /\ completed' = completed \union {begun})
        /\ completed' \subseteq completed \union (IF Touched THEN {begun} ELSE {})
    BY <1>1, <1>3, ProceedTouches
  <2>2. \A n : Owed(n)' => Owed(n)
    BY <1>1, <2>1 DEF Owed
  <2>3. Open' \subseteq Open
    BY <1>1, <2>2 DEF Open
  <2>4. ASSUME Alive', NEW n \in Open', Kept(n)
        PROVE  Kept(n)'
    <3>1. CASE Sent(calls[conn], "stop", n)
      BY <1>1, <3>1 DEF Kept
    <3>2. CASE Touched /\ n = begun /\ Touched'
      BY <1>1, <3>2 DEF Kept
    <3>3. CASE n = begun /\ step = "free"
      <4>1. Alive /\ n \notin stopped
        BY <1>1, <2>4 DEF Alive, Open
      <4>2. Sent(calls[conn], "stop", n)
        BY <3>3, <4>1 DEF StopKept
      <4> QED
        BY <1>1, <4>2 DEF Kept
    <3> QED
      BY <2>1, <2>4, <3>1, <3>2, <3>3 DEF Kept
  <2>5. Alive' => Alive
    BY <1>1 DEF Alive
  <2> QED
    BY <2>3, <2>4, <2>5 DEF Lost, Mine
<1> QED
  BY <1>1, <1>2, <1>3

LEMMA SendOpens ==
    ASSUME Inv1, Send
    PROVE  /\ Open' \subseteq Open \union {begun}
           /\ step # "start" => Open' \subseteq Open
           /\ Alive' => Alive /\ Lost' \subseteq Lost
           /\ step = "start" => Touched'
           /\ step # "start" => (Touched' <=> Touched)
<1>1. /\ ~waiting /\ waiting' /\ step \in Sends
      /\ UNCHANGED <<step, begun, completed, conn, link, started, stopped>>
  BY DEF Send, place, platform
<1>2. /\ conn \in Conns /\ calls[conn] \in Seq(Call)
      /\ \A c \in Conns : c # conn => calls'[c] = calls[c]
      /\ calls'[conn] = IF link = "up" THEN Append(Aged(calls[conn]), ThisCall)
                                       ELSE Aged(calls[conn])
  BY SendWrites DEF Inv1
<1>3. /\ ThisCall \in Call /\ ThisCall.send = step /\ ThisCall.session = Session
      /\ Aged(calls[conn]) \in Seq(Call)
  BY <1>1, <1>2, ThisCallOK, AgedOK DEF Inv1, ThisCall
<1>4. \A x, n : Sent(calls[conn], x, n) => Sent(calls'[conn], x, n)
  BY <1>2, <1>3, SentAged, SentAppend
<1>5. \A n : Sent(calls'[conn], "start", n) =>
               Sent(calls[conn], "start", n) \/ (step = "start" /\ n = begun)
  <2>1. step = "start" => Session = begun
    BY SessionsAre DEF Session
  <2> QED
    BY <1>2, <1>3, <2>1, SentAged, SentAppend
<1>6. Touched' <=> Touched \/ step = "start"
  BY <1>1, SessionsAre DEF Touched, AfterStart
<1>7. \A n : Owed(n)' => Owed(n) \/ (step = "start" /\ n = begun)
  BY <1>1, <1>2, <1>5, <1>6 DEF Owed
<1>8. Open' \subseteq Open \union {begun} /\ (step # "start" => Open' \subseteq Open)
  BY <1>1, <1>7 DEF Open
<1>9. \A n \in Open' : ~Kept(n)' => n \in Open /\ ~Kept(n)
  BY <1>1, <1>4, <1>6, <1>7 DEF Kept, Open
<1>10. Lost' \subseteq Lost
  BY <1>8, <1>9 DEF Lost, Mine
<1> QED
  BY <1>1, <1>6, <1>8, <1>10 DEF Alive

LEMMA HandleOpens ==
    ASSUME Inv1, NEW c \in Conns, Handle(c)
    PROVE  Open' \subseteq Open /\ (Alive' => Alive /\ Lost' \subseteq Lost)
<1> DEFINE s == calls[c]
<1>1. UNCHANGED <<step, waiting, conn, link, begun, completed>>
  BY DEF Handle, place
<1>2. /\ s \in Seq(Call) /\ s # <<>> /\ s[1] \in Call
      /\ Len(calls'[c]) = Len(s) - 1
      /\ \A i \in 1..Len(calls'[c]) : calls'[c][i] = s[i + 1]
      /\ \A d \in Conns : d # c => calls'[d] = calls[d]
  BY HandleTakes
<1>3. Head(s) = s[1]
  BY <1>2
<1>4. /\ started' = IF s[1].send = "start" THEN started \union {s[1].session} ELSE started
      /\ stopped' = IF s[1].send = "stop" THEN stopped \union {s[1].session} ELSE stopped
  BY <1>3 DEF Handle
<1>5. \A x, n : Sent(s, x, n) <=>
                Sent(calls'[c], x, n) \/ (s[1].send = x /\ s[1].session = n)
  <2> HIDE DEF s
  <2> QED
    BY <1>2, SentTail
<1>6. Touched' <=> Touched
  BY <1>1 DEF Touched
<1>7. \A n : Owed(n)' => Owed(n)
  <2> SUFFICES ASSUME NEW n, Owed(n)'
               PROVE  Owed(n)
    OBVIOUS
  <2>1. CASE n \in started' \union completed'
    <3>1. CASE n \in started \union completed
      BY <3>1 DEF Owed
    <3>2. CASE s[1].send = "start" /\ n = s[1].session
      BY <1>5, <3>2 DEF Owed
    <3> QED
      BY <1>1, <1>4, <2>1, <3>1, <3>2
  <2>2. ASSUME NEW d \in Conns, Sent(calls'[d], "start", n)
        PROVE  Owed(n)
    <3>1. CASE d = c
      BY <1>5, <2>2, <3>1 DEF Owed
    <3>2. CASE d # c
      BY <1>2, <2>2, <3>2 DEF Owed
    <3> QED
      BY <3>1, <3>2
  <2>3. CASE Touched' /\ n = begun'
    BY <1>1, <1>6, <2>3 DEF Owed
  <2> QED
    BY <2>1, <2>2, <2>3 DEF Owed
<1>8. stopped \subseteq stopped'
  BY <1>4
<1>9. Open' \subseteq Open
  BY <1>1, <1>7, <1>8 DEF Open
<1>10. \A n \in Open' : Kept(n) => Kept(n)'
  <2> SUFFICES ASSUME NEW n \in Open', Sent(calls[conn], "stop", n)
               PROVE  Sent(calls'[conn], "stop", n)
    BY <1>1, <1>6 DEF Kept
  <2>1. n \notin stopped'
    BY DEF Open
  <2>2. CASE c = conn
    <3>1. ~(s[1].send = "stop" /\ s[1].session = n)
      BY <1>4, <2>1
    <3> QED
      BY <1>5, <2>2, <3>1
  <2>3. CASE c # conn
    <3>1. CASE conn \in Conns
      BY <1>2, <2>3, <3>1
    <3>2. CASE conn \notin Conns
      <4>1. calls'[conn] = calls[conn]
        BY <2>3, <3>2 DEF Handle, Inv1, TypeInv
      <4> QED
        BY <4>1
    <3> QED
      BY <3>1, <3>2
  <2> QED
    BY <2>2, <2>3
<1> QED
  BY <1>1, <1>9, <1>10 DEF Lost, Mine, Alive

LEMMA DiscardOpens ==
    ASSUME Inv1, NEW c \in Conns, Discard(c)
    PROVE  Open' \subseteq Open /\ (Alive' => Alive /\ c # conn /\ Lost' \subseteq Lost)
<1>1. /\ calls' = [calls EXCEPT ![c] = <<>>] /\ ~Live(c)
      /\ UNCHANGED <<step, waiting, conn, link, begun, completed, started, stopped>>
  BY DEF Discard, place, platform
<1>2. calls'[c] = <<>> /\ \A d \in Conns : d # c => calls'[d] = calls[d]
  BY <1>1 DEF Inv1, TypeInv
<1>3. \A x, n : ~Sent(calls'[c], x, n)
  BY <1>2 DEF Sent
<1>4. \A n : Owed(n)' => Owed(n)
  BY <1>1, <1>2, <1>3 DEF Owed, Touched
<1>5. Open' \subseteq Open
  BY <1>1, <1>4 DEF Open
<1>6. ASSUME Alive'
      PROVE  Alive /\ c # conn /\ calls'[conn] = calls[conn]
  <2>1. Alive /\ c # conn
    BY <1>1, <1>6 DEF Alive, Live
  <2> QED
    BY <1>2, <2>1, Seqs
<1>7. Alive' => \A n \in Open' : Kept(n) => Kept(n)'
  BY <1>1, <1>6 DEF Kept, Touched
<1> QED
  BY <1>5, <1>6, <1>7 DEF Lost, Mine

LEMMA DialOpens == ASSUME Inv1, Dial PROVE Open' \subseteq Open /\ Lost' \subseteq Open
<1>1. step' = "boot" /\ UNCHANGED <<begun, completed, calls, started, stopped>>
  BY DEF Dial, platform
<1>2. ~Touched'
  BY <1>1, SessionsAre DEF Touched, AfterStart
<1>3. \A n : Owed(n)' => Owed(n)
  BY <1>1, <1>2 DEF Owed
<1> QED
  BY <1>1, <1>3 DEF Open, Lost

LEMMA TickBeginOpens ==
    ASSUME Inv1, Tick \/ Begin
    PROVE  Open' \subseteq Open /\ Lost' \subseteq Lost /\ (Alive' <=> Alive) /\ ~Touched'
<1>1. /\ step = "idle" /\ step' \in {"beat", "preparing"} /\ (begun' = begun \/ begun' = begun + 1)
      /\ UNCHANGED <<waiting, conn, link, completed, calls, started, stopped>>
  BY DEF Tick, Begin, socket, platform
<1>2. ~Touched /\ ~Touched'
  BY <1>1, SessionsAre DEF Touched, AfterStart
<1>3. \A n : Owed(n)' <=> Owed(n)
  BY <1>1, <1>2 DEF Owed
<1>4. ASSUME NEW n \in 1..begun', Owed(n)
      PROVE  n \in 1..begun
  <2>1. begun \in Nat /\ completed \subseteq 1..begun /\ started \subseteq 1..begun
    BY SessionsAssumption DEF Inv1, TypeInv
  <2>2. ASSUME NEW c \in Conns, Sent(calls[c], "start", n)
        PROVE  n \in 1..begun
    <3>1. PICK i \in 1..Len(calls[c]) : calls[c][i].send = "start" /\ calls[c][i].session = n
      BY <2>2 DEF Sent
    <3>2. CallOK(calls[c][i]) /\ n \in Nat
      BY <1>1, <2>1, <3>1 DEF Inv1, CallsOK
    <3> QED
      BY <2>1, <3>1, <3>2, SessionsAre DEF CallOK
  <2> QED
    BY <1>2, <1>4, <2>1, <2>2 DEF Owed
<1>5. Open' \subseteq Open
  BY <1>1, <1>3, <1>4 DEF Open
<1>6. \A n : Kept(n) => Kept(n)'
  BY <1>1, <1>2 DEF Kept
<1> QED
  BY <1>1, <1>2, <1>5, <1>6 DEF Lost, Mine, Alive

\* The other steps leave the sessions as they are.
LEMMA OthersOpen ==
    ASSUME Inv1, Read \/ ReadFails \/ Break \/ Silence \/ UNCHANGED vars
    PROVE  /\ UNCHANGED <<step, waiting, conn, begun, completed, calls, started, stopped, late>>
           /\ Open' = Open /\ Mine' = Mine /\ Lost' = Lost /\ (Touched' <=> Touched)
           /\ Alive' => Alive
<1>1. UNCHANGED <<step, waiting, conn, begun, completed, calls, started, stopped, late>>
  BY CutIs DEF Read, ReadFails, place, platform, vars, socket
<1>2. Alive' => Alive
  BY CutIs DEF Read, ReadFails, place, vars, socket, Alive
<1>3. Touched' <=> Touched
  BY <1>1 DEF Touched
<1>4. \A n : (Owed(n)' <=> Owed(n)) /\ (Kept(n)' <=> Kept(n))
  BY <1>1, <1>3 DEF Owed, Kept
<1>5. Open' = Open
  BY <1>1, <1>4 DEF Open
<1> QED
  BY <1>1, <1>2, <1>3, <1>4, <1>5 DEF Lost, Mine

-----------------------------------------------------------------------------
(* A stop follows its start                                                *)

LEMMA PrecededAged ==
    ASSUME NEW s \in Seq(Call), NEW D, Preceded(s, D)
    PROVE  Preceded(Aged(s), D)
BY AgedOK DEF Preceded

LEMMA PrecededAppend ==
    ASSUME NEW s \in Seq(Call), NEW D, Preceded(s, D), NEW k \in Call,
           k.send = "stop" => k.session \in D \/ Sent(s, "start", k.session)
    PROVE  Preceded(Append(s, k), D)
<1> DEFINE t == Append(s, k)
<1>1. /\ Len(s) \in Nat /\ Len(t) = Len(s) + 1 /\ t[Len(s) + 1] = k
      /\ \A i \in 1..Len(s) : t[i] = s[i]
  OBVIOUS
<1> HIDE DEF t
<1> SUFFICES ASSUME NEW i \in 1..Len(t), t[i].send = "stop", t[i].session \notin D
             PROVE  \E j \in 1..Len(t) : /\ j < i /\ t[j].send = "start"
                                         /\ t[j].session = t[i].session
  BY DEF Preceded, t
<1>2. CASE i \in 1..Len(s)
  <2>1. PICK j \in 1..Len(s) : j < i /\ s[j].send = "start" /\ s[j].session = s[i].session
    BY <1>1, <1>2 DEF Preceded
  <2>2. j \in 1..Len(t) /\ t[j] = s[j] /\ t[i] = s[i]
    BY <1>1, <1>2
  <2> QED
    BY <2>1, <2>2
<1>3. CASE i = Len(s) + 1
  <2>1. PICK j \in 1..Len(s) : s[j].send = "start" /\ s[j].session = k.session
    BY <1>1, <1>3 DEF Sent
  <2>2. j \in 1..Len(t) /\ t[j] = s[j] /\ t[i] = k /\ j < i
    BY <1>1, <1>3
  <2> QED
    BY <2>1, <2>2
<1> QED
  BY <1>1, <1>2, <1>3

LEMMA PrecededTail ==
    ASSUME NEW s \in Seq(Call), s # <<>>, NEW D, Preceded(s, D), NEW t, NEW E,
           Len(t) = Len(s) - 1, \A i \in 1..Len(t) : t[i] = s[i + 1],
           D \subseteq E, s[1].send = "start" => s[1].session \in E
    PROVE  Preceded(t, E)
<1>1. Len(s) \in Nat /\ Len(s) >= 1
  OBVIOUS
<1> SUFFICES ASSUME NEW i \in 1..Len(t), t[i].send = "stop", t[i].session \notin E
             PROVE  \E j \in 1..Len(t) : /\ j < i /\ t[j].send = "start"
                                         /\ t[j].session = t[i].session
  BY DEF Preceded
<1>2. i + 1 \in 1..Len(s) /\ t[i] = s[i + 1] /\ s[i + 1].session \notin D
  BY <1>1
<1>3. PICK j \in 1..Len(s) : j < i + 1 /\ s[j].send = "start" /\ s[j].session = s[i + 1].session
  BY <1>2 DEF Preceded
<1>4. j # 1
  BY <1>2, <1>3
<1>5. j - 1 \in 1..Len(t) /\ j - 1 < i /\ (j - 1) + 1 = j
  BY <1>1, <1>3, <1>4
<1>6. t[j - 1] = s[j]
  BY <1>5
<1> QED
  BY <1>2, <1>3, <1>5, <1>6

LEMMA StopsStarted ==
    ASSUME Inv1, StartBefore, NEW c \in Conns, Handle(c)
    PROVE  StartBefore'
<1> DEFINE s == calls[c]
<1>1. UNCHANGED <<step, waiting, conn, link, begun>>
  BY DEF Handle, place
<1>2. /\ s \in Seq(Call) /\ s # <<>> /\ s[1] \in Call
      /\ Len(calls'[c]) = Len(s) - 1
      /\ \A i \in 1..Len(calls'[c]) : calls'[c][i] = s[i + 1]
      /\ \A d \in Conns : d # c => calls'[d] = calls[d]
  BY HandleTakes
<1>3. Head(s) = s[1] /\ 1 \in 1..Len(s) /\ \A j \in 1..Len(s) : ~(j < 1)
  BY <1>2
<1>4. /\ started' = IF s[1].send = "start" THEN started \union {s[1].session} ELSE started
      /\ stopped' = IF s[1].send = "stop" THEN stopped \union {s[1].session} ELSE stopped
  BY <1>3 DEF Handle
<1>5. /\ Preceded(s, started) /\ stopped \subseteq started
      /\ \A d \in Conns : Preceded(calls[d], started)
  BY DEF StartBefore
<1> HIDE DEF s
<1>6. s[1].send = "stop" => s[1].session \in started
  BY <1>3, <1>5 DEF Preceded
<1>7. stopped' \subseteq started'
  BY <1>4, <1>5, <1>6
<1>8. Preceded(calls'[c], started')
  BY SMTT(20), <1>2, <1>4, <1>5, PrecededTail
<1>9. \A d \in Conns : d # c => Preceded(calls'[d], started')
  <2>1. ASSUME NEW d \in Conns, d # c
        PROVE  Preceded(calls'[d], started')
    <3>1. calls'[d] = calls[d] /\ Preceded(calls[d], started) /\ started \subseteq started'
      BY <1>2, <1>4, <1>5, <2>1
    <3> QED
      BY <3>1 DEF Preceded
  <2> QED
    BY <2>1
<1>10. ASSUME Alive', Touched'
       PROVE  begun \in started' \/ Sent(calls'[conn], "start", begun)
  <2>1. Alive /\ Touched /\ conn \in Conns
    BY <1>1, <1>10, Seqs DEF Alive, Touched
  <2>2. begun \in started \/ Sent(calls[conn], "start", begun)
    BY <2>1 DEF StartBefore
  <2>3. CASE c = conn
    <3>1. Sent(s, "start", begun) =>
             Sent(calls'[c], "start", begun) \/ (s[1].send = "start" /\ s[1].session = begun)
      BY <1>2, SentTail
    <3> QED
      BY <1>4, <2>2, <2>3, <3>1 DEF s
  <2>4. CASE c # conn
    BY <1>2, <1>4, <2>1, <2>2, <2>4
  <2> QED
    BY <2>3, <2>4
<1> QED
  BY <1>1, <1>7, <1>8, <1>9, <1>10 DEF StartBefore

LEMMA SendStartBefore == ASSUME Inv1, StartBefore, Send PROVE StartBefore'
<1>1. /\ ~waiting /\ waiting' /\ step \in Sends
      /\ UNCHANGED <<step, begun, conn, link, started, stopped>>
  BY DEF Send, place, platform
<1>2. /\ conn \in Conns /\ calls[conn] \in Seq(Call)
      /\ \A c \in Conns : c # conn => calls'[c] = calls[c]
      /\ calls'[conn] = IF link = "up" THEN Append(Aged(calls[conn]), ThisCall)
                                       ELSE Aged(calls[conn])
  BY SendWrites DEF Inv1
<1>3. /\ ThisCall \in Call /\ ThisCall.send = step /\ ThisCall.session = Session
      /\ Aged(calls[conn]) \in Seq(Call)
      /\ step # "down" /\ (step \in {"start", "stop"} => Session = begun)
  BY <1>1, <1>2, ThisCallOK, AgedOK, SessionsAre DEF Inv1, ThisCall, Session
<1>4. link = "up" /\ Touched => begun \in started \/ Sent(calls[conn], "start", begun)
  BY <1>3 DEF StartBefore, Alive
<1>5. Preceded(Aged(calls[conn]), started)
  BY <1>2, PrecededAged DEF StartBefore
<1>6. Preceded(calls'[conn], started)
  <2>1. ASSUME link = "up", step = "stop"
        PROVE  begun \in started \/ Sent(Aged(calls[conn]), "start", begun)
    <3>1. Touched
      BY <2>1, SessionsAre DEF Touched, AfterStart
    <3> QED
      BY <1>2, <1>4, <2>1, <3>1, SentAged
  <2>2. link = "up" => Preceded(Append(Aged(calls[conn]), ThisCall), started)
    BY <1>3, <1>5, <2>1, PrecededAppend
  <2> QED
    BY <1>2, <1>5, <2>2
<1>7. ASSUME Alive', Touched'
      PROVE  begun \in started \/ Sent(calls'[conn], "start", begun)
  <2>1. link = "up"
    BY <1>1, <1>7 DEF Alive
  <2>2. Sent(calls[conn], "start", begun) \/ step = "start" => Sent(calls'[conn], "start", begun)
    BY <1>2, <1>3, <2>1, SentAged, SentAppend
  <2>3. Touched \/ step = "start"
    BY <1>1, <1>7 DEF Touched
  <2> QED
    BY <1>4, <2>1, <2>2, <2>3
<1>8. \A c \in Conns : Preceded(calls'[c], started)
  BY <1>2, <1>6 DEF StartBefore
<1> QED
  BY <1>1, <1>7, <1>8 DEF StartBefore

LEMMA StartBeforeStep ==
    ASSUME Inv1, StartBefore, [Next]_vars
    PROVE  StartBefore'
<1>1. CASE Returns
  <2>1. /\ ~waiting' /\ begun' = begun /\ step \in Sends /\ step # "down"
        /\ UNCHANGED <<conn, link, calls, started, stopped>>
        /\ Abort \/ (Proceed /\ (waiting \/ step \in Ignored))
    BY <1>1, ReturnGoes
  <2>2. Alive' /\ Touched' => Alive /\ Touched
    <3>1. CASE Abort
      BY <3>1 DEF Abort, Alive
    <3>2. CASE Proceed /\ (waiting \/ step \in Ignored)
      BY <2>1, <3>2, ProceedTouches DEF Alive
    <3> QED
      BY <2>1, <3>1, <3>2
  <2> QED
    BY <2>1, <2>2 DEF StartBefore
<1>2. CASE Dial
  <2>1. step' = "boot" /\ UNCHANGED <<calls, started, stopped>>
    BY <1>2 DEF Dial, platform
  <2>2. ~Touched'
    BY <2>1, SessionsAre DEF Touched, AfterStart
  <2> QED
    BY <2>1, <2>2 DEF StartBefore
<1>3. CASE Tick \/ Begin
  <2>1. UNCHANGED <<calls, started, stopped>> /\ ~Touched'
    BY <1>3, TickBeginOpens DEF Tick, Begin, socket, platform
  <2> QED
    BY <2>1 DEF StartBefore
<1>4. ASSUME NEW c \in Conns, Discard(c)
      PROVE  StartBefore'
  <2>1. /\ calls' = [calls EXCEPT ![c] = <<>>] /\ ~Live(c)
        /\ UNCHANGED <<step, waiting, conn, link, begun, started, stopped>>
    BY <1>4 DEF Discard, place, platform
  <2>2. calls'[c] = <<>> /\ \A d \in Conns : d # c => calls'[d] = calls[d]
    BY <2>1 DEF Inv1, TypeInv
  <2>3. Preceded(<<>>, started)
    BY DEF Preceded
  <2>4. Alive' => Alive /\ calls'[conn] = calls[conn]
    BY <1>4, <2>1, <2>2, DiscardOpens, Seqs DEF Alive
  <2>5. \A d \in Conns : Preceded(calls'[d], started)
    BY <2>2, <2>3 DEF StartBefore
  <2> QED
    BY <2>1, <2>4, <2>5 DEF StartBefore, Touched
<1>5. CASE Read \/ ReadFails \/ Break \/ Silence \/ UNCHANGED vars
  BY <1>5, OthersOpen DEF StartBefore
<1> QED
  BY <1>1, <1>2, <1>3, <1>4, <1>5, Steps1, SendStartBefore, StopsStarted

-----------------------------------------------------------------------------
(* The stop of a session stays on its way                                  *)

LEMMA SendStopKept == ASSUME Inv1, StopKept, Send PROVE StopKept'
<1>1. /\ ~waiting /\ waiting' /\ step \in Sends
      /\ UNCHANGED <<step, begun, conn, link, started, stopped>>
  BY DEF Send, place, platform
<1>2. /\ conn \in Conns /\ calls[conn] \in Seq(Call)
      /\ calls'[conn] = IF link = "up" THEN Append(Aged(calls[conn]), ThisCall)
                                       ELSE Aged(calls[conn])
  BY SendWrites DEF Inv1
<1>3. /\ ThisCall \in Call /\ ThisCall.send = step /\ ThisCall.session = Session
      /\ Aged(calls[conn]) \in Seq(Call)
      /\ step = "stop" => Session = begun
  BY <1>1, <1>2, ThisCallOK, AgedOK, SessionsAre DEF Inv1, ThisCall, Session
<1>4. Alive' => Alive /\ calls'[conn] = Append(Aged(calls[conn]), ThisCall)
  BY <1>1, <1>2 DEF Alive
<1>5. ASSUME Alive', step = "free" \/ step = "stop"
      PROVE  begun \in stopped \/ Sent(calls'[conn], "stop", begun)
  <2>1. \A n : Sent(calls'[conn], "stop", n) <=>
                  Sent(calls[conn], "stop", n) \/ (step = "stop" /\ Session = n)
    BY <1>2, <1>3, <1>4, <1>5, SentAged, SentAppend
  <2> QED
    BY <1>3, <1>4, <1>5, <2>1 DEF StopKept
<1>6. Alive' => calls'[conn][Len(calls'[conn])] = ThisCall
  <2>1. LET t == Append(Aged(calls[conn]), ThisCall) IN t[Len(t)] = ThisCall
    BY <1>3
  <2> QED
    BY <1>4, <2>1
<1>7. Session' = Session
  BY <1>1 DEF Session
<1> QED
  BY <1>1, <1>3, <1>5, <1>6, <1>7 DEF StopKept

LEMMA HandleStopKept ==
    ASSUME Inv1, StopKept, NEW c \in Conns, Handle(c)
    PROVE  StopKept'
<1> DEFINE s == calls[c]
           t == calls'[c]
<1>1. UNCHANGED <<step, waiting, conn, link, begun>>
  BY DEF Handle, place
<1>2. /\ s \in Seq(Call) /\ s # <<>> /\ s[1] \in Call
      /\ Len(t) = Len(s) - 1 /\ t \in Seq(Call)
      /\ \A i \in 1..Len(t) : t[i] = s[i + 1]
      /\ \A d \in Conns : d # c => calls'[d] = calls[d]
  BY HandleTakes
<1>3. Head(s) = s[1]
  BY <1>2
<1>4. stopped' = IF s[1].send = "stop" THEN stopped \union {s[1].session} ELSE stopped
  BY <1>3 DEF Handle
<1> HIDE DEF s, t
<1>5. Sent(s, "stop", begun) => Sent(t, "stop", begun) \/ begun \in stopped'
  <2>1. Sent(s, "stop", begun) <=>
           Sent(t, "stop", begun) \/ (s[1].send = "stop" /\ s[1].session = begun)
    BY <1>2, SentTail
  <2> QED
    BY <1>4, <2>1
<1>6. t # <<>> => s[Len(s)] = t[Len(t)]
  <2>1. Len(s) \in Nat /\ (t # <<>> => Len(t) \in 1..Len(t) /\ Len(t) + 1 = Len(s))
    BY <1>2
  <2> QED
    BY <1>2, <2>1
<1>7. Alive' => Alive /\ conn \in Conns
  BY <1>1, Seqs DEF Alive
<1>8. Session' = Session
  BY <1>1 DEF Session
<1>9. ASSUME Alive', step = "free" \/ (step = "stop" /\ waiting)
      PROVE  begun \in stopped' \/ Sent(calls'[conn], "stop", begun)
  <2>1. begun \in stopped \/ Sent(calls[conn], "stop", begun)
    BY <1>7, <1>9 DEF StopKept
  <2>2. CASE conn = c
    BY <1>4, <1>5, <2>1, <2>2 DEF s, t
  <2>3. CASE conn # c
    BY <1>2, <1>4, <1>7, <1>9, <2>1, <2>3
  <2> QED
    BY <2>2, <2>3
<1>10. ASSUME Alive', waiting, calls'[conn] # <<>>
       PROVE  calls'[conn][Len(calls'[conn])].session = Session
  <2>1. CASE conn = c
    <3>1. s[Len(s)].session = Session
      BY <1>2, <1>7, <1>10, <2>1 DEF StopKept, s
    <3> QED
      BY <1>6, <1>10, <2>1, <3>1 DEF t
  <2>2. CASE conn # c
    BY <1>2, <1>7, <1>10, <2>2 DEF StopKept
  <2> QED
    BY <2>1, <2>2
<1> QED
  BY <1>1, <1>8, <1>9, <1>10 DEF StopKept

LEMMA StopKeptStep ==
    ASSUME Inv1, StopKept, [Next]_vars
    PROVE  StopKept'
<1>1. CASE Returns
  <2>1. /\ ~waiting' /\ begun' = begun /\ step \in Sends /\ step # "down"
        /\ UNCHANGED <<conn, link, calls, started, stopped>>
        /\ Abort \/ (Proceed /\ (waiting \/ step \in Ignored))
    BY <1>1, ReturnGoes
  <2>2. ASSUME Alive', step' = "free"
        PROVE  Alive /\ step = "stop" /\ waiting
    <3>1. Alive /\ ~Abort
      BY <2>1, <2>2 DEF Abort, Alive
    <3>2. waiting
      BY <1>1, <3>1 DEF Returns, SendFails, Receive, ChannelClosed, Timeout, Alive
    <3> QED
      BY <2>1, <2>2, <3>1, <3>2, ProceedTouches
  <2> QED
    BY <2>1, <2>2 DEF StopKept
<1>2. CASE Dial
  <2>1. step' = "boot" /\ waiting' = waiting /\ step = "down"
    BY <1>2 DEF Dial
  <2> QED
    BY <2>1, SessionsAre DEF StopKept, Inv1, PlaceOK
<1>3. CASE Tick \/ Begin
  <2>1. step' \in {"beat", "preparing"} /\ waiting' = waiting /\ step = "idle"
    BY <1>3 DEF Tick, Begin
  <2> QED
    BY <2>1, SessionsAre DEF StopKept, Inv1, PlaceOK
<1>4. ASSUME NEW c \in Conns, Discard(c)
      PROVE  StopKept'
  <2>1. /\ calls' = [calls EXCEPT ![c] = <<>>]
        /\ UNCHANGED <<step, waiting, conn, link, begun, started, stopped>>
    BY <1>4 DEF Discard, place, platform
  <2>2. \A d \in Conns : d # c => calls'[d] = calls[d]
    BY <2>1 DEF Inv1, TypeInv
  <2>3. Alive' => Alive /\ calls'[conn] = calls[conn]
    BY <1>4, <2>2, DiscardOpens, Seqs
  <2> QED
    BY <2>1, <2>3 DEF StopKept, Session
<1>5. CASE Read \/ ReadFails \/ Break \/ Silence \/ UNCHANGED vars
  BY <1>5, OthersOpen DEF StopKept, Session
<1> QED
  BY <1>1, <1>2, <1>3, <1>4, <1>5, Steps1, SendStopKept, HandleStopKept

-----------------------------------------------------------------------------
(* Every timeout that is ignored pays for a session on this connection     *)

LEMMA MineFew ==
    ASSUME Inv1, Replies, StopKept, Alive
    PROVE  (Cardinality(Mine) + Spare) + Opens =< late + 1
<1> DEFINE s == calls[conn]
           S == {n \in Mine : \E i \in 1..Len(s) : s[i].session = n}
<1>1. /\ s \in Seq(Call) /\ Len(s) \in Nat
      /\ Len(s) = (Due - Len(responses)) - Len(wire)
      /\ late \in Nat /\ Len(wire) \in Nat /\ Len(responses) \in Nat /\ Due \in Nat
  BY Seqs DEF Replies
<1> HIDE DEF s
<1>2. Len(s) + Replied = Due /\ Replied \in Nat
  BY <1>1 DEF Replied
<1>3. \A n \in Mine : n \in S \/ (Touched /\ n = begun)
  BY DEF Mine, Kept, Sent, s
<1>4. IsFiniteSet(S) /\ Cardinality(S) \in Nat /\ Cardinality(S) =< Len(s)
  BY <1>1, SessionsCount
<1> HIDE DEF S
<1>5. Mine \subseteq S \union {begun} /\ (~Touched => Mine \subseteq S)
  BY <1>3
<1>6. Cardinality(Mine) =< Len(s) + 1 /\ Cardinality(Mine) \in Nat
  <2>1. Cardinality(Mine) \in Nat /\ Cardinality(Mine) =< Cardinality(S) + 1
    <3>1. Mine \subseteq S \union {begun} /\ IsFiniteSet(S)
      BY <1>4, <1>5
    <3> HIDE DEF Mine
    <3> QED
      BY <3>1, AddCounts
  <2> QED
    BY <1>1, <1>4, <2>1
<1>7. ~Touched => Cardinality(Mine) =< Len(s)
  BY <1>1, <1>4, <1>5, SubsetCounts
<1>8. Opens = 1 => ~Touched
  BY SessionsAre DEF Opens, Touched, AfterStart
<1>9. Opens \in {0, 1} /\ Spare \in Nat
  BY Counts
<1>10. CASE ~waiting
  <2>1. Due = late /\ Spare = Replied
    BY <1>10 DEF Due, Spare
  <2> QED
    BY SMTT(20), <1>1, <1>2, <1>6, <1>7, <1>8, <1>9, <2>1
<1>11. CASE waiting /\ Replied > 0
  <2>1. Due = late + 1 /\ Spare = Replied - 1
    BY <1>11 DEF Due, Spare
  <2> QED
    BY <1>1, <1>2, <1>6, <1>7, <1>8, <1>9, <2>1
<1>12. CASE waiting /\ Replied = 0
  <2>1. Due = late + 1 /\ Spare = 0 /\ Opens = 0
    BY <1>12 DEF Due, Spare, Opens
  <2>2. s # <<>> /\ Len(s) \in 1..Len(s)
    BY <1>1, <1>2, <1>12, <2>1
  <2>3. s[Len(s)].session = Session
    BY <1>12, <2>2 DEF StopKept, s
  <2>4. Touched => Session = begun
    BY SessionsAre DEF Touched, AfterStart, Session
  <2>5. Mine \subseteq S
    BY <1>3, <2>2, <2>3, <2>4 DEF S
  <2>6. Cardinality(Mine) =< Len(s)
    BY <1>1, <1>4, <1>6, <2>5, SubsetCounts
  <2> QED
    BY <1>1, <1>2, <1>6, <1>12, <2>1, <2>6
<1> QED
  BY <1>2, <1>10, <1>11, <1>12

LEMMA SendPays == ASSUME Inv1, Paid, Send PROVE Paid'
<1>1. /\ ~waiting /\ waiting' /\ step \in Sends /\ step # "down"
      /\ UNCHANGED <<step, conn, link, late, used>>
      /\ wire' = Older(wire) /\ responses' = Older(responses)
  BY SessionsAre DEF Send, place
<1>2. /\ Open' \subseteq Open \union {begun} /\ (step # "start" => Open' \subseteq Open)
      /\ Alive' => Alive /\ Lost' \subseteq Lost
  BY <1>1, SendOpens DEF Alive
<1>3. /\ IsFiniteSet(Open) /\ IsFiniteSet(Lost)
      /\ Cardinality(Open) \in Nat /\ Cardinality(Lost) \in Nat
      /\ used["any"] \in Nat /\ late \in Nat /\ Replied \in Nat /\ Spare \in Nat
  BY Counts
<1>4. Replied' = Replied
  BY <1>1, OlderOK DEF Replied, Inv1, TypeInv
<1>5. Alive' => Cardinality(Lost') + late' =< used'["any"]
  <2>1. Alive' => Cardinality(Lost') =< Cardinality(Lost) /\ Cardinality(Lost') \in Nat
    BY <1>2, <1>3, SubsetCounts
  <2> QED
    BY <1>1, <1>2, <1>3, <2>1 DEF Paid
<1>6. Spare = Replied /\ Spare' = IF Replied > 0 THEN Replied - 1 ELSE 0
  BY <1>1, <1>3, <1>4 DEF Spare
<1>7. ASSUME link # "up"
      PROVE  (Cardinality(Open') + Spare') + Opens' =< used["any"]
  <2>1. (Cardinality(Open) + Spare) + Opens =< used["any"]
    BY <1>1, <1>7 DEF Paid
  <2>2. CASE step = "start"
    <3>1. Opens = 1 /\ Opens' = 0
      BY <1>1, <2>2 DEF Opens
    <3>2. Cardinality(Open') \in Nat /\ Cardinality(Open') =< Cardinality(Open) + 1
      BY <1>2, <1>3, AddCounts
    <3> QED
      BY <1>3, <1>6, <2>1, <3>1, <3>2
  <2>3. CASE step # "start"
    <3>1. Opens = 0 /\ Opens' = IF step = "preparing" /\ Replied > 0 THEN 1 ELSE 0
      BY <1>1, <1>4, <2>3 DEF Opens
    <3>2. Cardinality(Open') \in Nat /\ Cardinality(Open') =< Cardinality(Open)
      BY <1>2, <1>3, <2>3, SubsetCounts
    <3> QED
      BY <1>3, <1>6, <2>1, <3>1, <3>2
  <2> QED
    BY <2>2, <2>3
<1> QED
  BY <1>1, <1>5, <1>7 DEF Paid

\* A return on a dead connection uses up a reply, or ends the session that
\* waits, and no error is ignored just before a session opens.
LEMMA ReturnSpends ==
    ASSUME Inv1, Replies, Returns, step' # "down", link # "up"
    PROVE  Spare' =< Spare /\ Opens' =< Opens /\ Spare' \in Nat /\ Opens' \in Nat
<1>1. /\ step \in Sends /\ ~waiting' /\ wire' = wire
      /\ Abort \/ (Proceed /\ (waiting \/ step \in Ignored))
  BY ReturnGoes, ReturnIs
<1>2. /\ Len(wire) \in Nat /\ Len(responses) \in Nat /\ Replied \in Nat
      /\ wire \in Seq(Nat) /\ responses \in Seq(Nat)
  BY Seqs, Counts
<1>3. step' = "start" => step = "preparing"
  BY <1>1, ProceedTouches DEF Abort
<1>4. Spare' = Replied' /\ Opens' = IF step' = "start" THEN 1 ELSE 0
  BY <1>1, SessionsAre DEF Spare, Opens
<1>5. CASE Receive
  <2>1. /\ waiting /\ Len(responses) >= 1 /\ Len(responses') = Len(responses) - 1
    BY <1>2, <1>5 DEF Receive
  <2>2. Replied >= 1 /\ Replied' = Replied - 1 /\ Spare = Replied - 1
    BY <1>1, <1>2, <2>1 DEF Replied, Spare
  <2>3. step = "preparing" => Opens = 1
    BY <1>2, <2>1, <2>2 DEF Opens
  <2>4. Opens \in {0, 1}
    BY DEF Opens
  <2> QED
    BY <1>2, <1>3, <1>4, <2>2, <2>3, <2>4
<1>6. CASE SendFails \/ ChannelClosed \/ Timeout
  <2>1. Failed /\ responses' = responses
    BY <1>6 DEF SendFails, ChannelClosed, Timeout, socket, channel
  <2>2. step \in Ignored
    BY <2>1 DEF Failed, Abort
  <2>3. Opens' = 0 /\ Opens \in {0, 1}
    BY <1>3, <1>4, <2>2 DEF Ignored, Opens
  <2>4. Replied' = Replied
    BY <1>1, <2>1 DEF Replied
  <2>5. Spare = Replied
    <3>1. CASE SendFails
      BY <3>1 DEF SendFails, Spare
    <3>2. CASE ChannelClosed
      <4>1. responses = <<>> /\ wire = <<>>
        BY <3>2 DEF ChannelClosed, Replies
      <4>2. Replied = 0
        BY <4>1 DEF Replied
      <4> QED
        BY <4>2 DEF Spare
    <3>3. CASE Timeout
      <4>1. responses = <<>> /\ wire = <<>>
        BY <3>3 DEF Timeout
      <4>2. Replied = 0
        BY <4>1 DEF Replied
      <4> QED
        BY <4>2 DEF Spare
    <3> QED
      BY <1>6, <3>1, <3>2, <3>3
  <2> QED
    BY <1>2, <1>4, <2>3, <2>4, <2>5
<1> QED
  BY <1>5, <1>6 DEF Returns

LEMMA ReturnPays == ASSUME Inv1, Replies, StopKept, Paid, Returns PROVE Paid'
<1>1. /\ step # "down" /\ link' = link
      /\ Abort \/ (Proceed /\ (waiting \/ step \in Ignored))
  BY ReturnGoes
<1>2. Open' \subseteq Open /\ (Alive' => Alive /\ Lost' \subseteq Lost)
  BY ReturnOpens
<1>3. /\ IsFiniteSet(Open) /\ IsFiniteSet(Lost)
      /\ Cardinality(Open) \in Nat /\ Cardinality(Lost) \in Nat /\ Cardinality(Mine) \in Nat
      /\ Cardinality(Open) =< Cardinality(Lost) + Cardinality(Mine)
      /\ used["any"] \in Nat /\ late \in Nat /\ Spare \in Nat /\ Opens \in {0, 1}
  BY Counts
<1>4. Cardinality(Open') \in Nat /\ Cardinality(Open') =< Cardinality(Open)
  BY <1>2, <1>3, SubsetCounts
<1>5. Alive' => Cardinality(Lost') \in Nat /\ Cardinality(Lost') =< Cardinality(Lost)
  BY <1>2, <1>3, SubsetCounts
<1>6. /\ used'["any"] = used["any"] \/ (used'["any"] = used["any"] + 1)
      /\ ~Alive \/ Proceed \/ (used'["any"] = used["any"] + 1)
  BY ReturnIs
<1>7. CASE Alive
  <2>1. Cardinality(Lost) + late =< used["any"]
    BY <1>7 DEF Paid
  <2>2. \/ late' = late
        \/ late' = late + 1 /\ used'["any"] = used["any"] + 1
    <3>1. CASE Timeout
      <4>1. link = "up" /\ late' = late + 1
        BY <1>7, <3>1 DEF Timeout, Alive
      <4>2. Spend("late")
        BY <3>1, <4>1 DEF Timeout
      <4> QED
        BY <4>1, <4>2, SpendOK DEF Inv1, TypeInv, Kinds
    <3>2. CASE SendFails \/ Receive \/ ChannelClosed
      BY <3>2 DEF SendFails, Receive, ChannelClosed
    <3> QED
      BY <3>1, <3>2 DEF Returns
  <2>3. CASE step' # "down"
    <3>1. Alive' /\ ~(step' # "down" /\ link' # "up")
      BY <1>1, <1>7, <2>3 DEF Alive
    <3>2. Cardinality(Lost') + late' =< used'["any"]
      BY <1>3, <1>5, <1>6, <2>1, <2>2, <3>1
    <3> QED
      BY <2>3, <3>1, <3>2 DEF Paid
  <2>4. CASE step' = "down"
    <3>1. Abort
      BY <1>1, <2>4, ProceedTouches, ReturnGoes
    <3>2. used'["any"] = used["any"] + 1
      <4>1. Timeout
        <5>1. ~Receive
          BY <2>4, ProceedTouches, ReturnGoes DEF Receive
        <5>2. ~SendFails /\ ~ChannelClosed
          BY <1>7 DEF SendFails, ChannelClosed, Inv1, PlaceOK, Alive
        <5> QED
          BY <5>1, <5>2 DEF Returns
      <4>2. Spend("late")
        BY <1>7, <4>1 DEF Timeout, Alive
      <4> QED
        BY <4>2, SpendOK DEF Inv1, TypeInv, Kinds
    <3>3. (Cardinality(Mine) + Spare) + Opens =< late + 1
      BY <1>7, MineFew
    <3>4. Cardinality(Open') =< used'["any"]
      BY <1>3, <1>4, <2>1, <3>2, <3>3
    <3>5. ~Alive'
      BY <2>4 DEF Alive
    <3> QED
      BY <2>4, <3>4, <3>5 DEF Paid
  <2> QED
    BY <2>3, <2>4
<1>8. CASE ~Alive
  <2>1. link # "up" /\ (Cardinality(Open) + Spare) + Opens =< used["any"]
    BY <1>1, <1>8 DEF Alive, Paid
  <2>2. CASE step' # "down"
    <3>1. Spare' =< Spare /\ Opens' =< Opens /\ Spare' \in Nat /\ Opens' \in Nat
      BY <2>1, <2>2, ReturnSpends
    <3>2. (Cardinality(Open') + Spare') + Opens' =< used'["any"]
      BY <1>3, <1>4, <1>6, <2>1, <3>1
    <3> QED
      BY <1>1, <2>1, <2>2, <3>2 DEF Paid, Alive
  <2>3. CASE step' = "down"
    <3>1. Cardinality(Open') =< used'["any"]
      BY <1>3, <1>4, <1>6, <2>1
    <3> QED
      BY <2>3, <3>1 DEF Paid, Alive
  <2> QED
    BY <2>2, <2>3
<1> QED
  BY <1>7, <1>8

\* A step of the others leaves fewer sessions open.
LEMMA FewerPay ==
    ASSUME Inv1, Paid, Open' \subseteq Open, Alive' => Alive /\ Lost' \subseteq Lost,
           UNCHANGED <<link, late, used>>, (step' = "down") <=> (step = "down"),
           step # "down" /\ link # "up" => Spare' =< Spare /\ Opens' =< Opens
                                           /\ Spare' \in Nat /\ Opens' \in Nat
    PROVE  Paid'
<1>1. /\ IsFiniteSet(Open) /\ IsFiniteSet(Lost)
      /\ Cardinality(Open) \in Nat /\ Cardinality(Lost) \in Nat
      /\ used["any"] \in Nat /\ late \in Nat /\ Spare \in Nat /\ Opens \in {0, 1}
  BY Counts
<1>2. Cardinality(Open') \in Nat /\ Cardinality(Open') =< Cardinality(Open)
  BY <1>1, SubsetCounts
<1>3. Alive' => Cardinality(Lost') \in Nat /\ Cardinality(Lost') =< Cardinality(Lost)
  BY <1>1, SubsetCounts
<1>4. Alive' => Cardinality(Lost') + late' =< used'["any"]
  BY <1>1, <1>3 DEF Paid
<1>5. step' # "down" /\ link' # "up" => (Cardinality(Open') + Spare') + Opens' =< used'["any"]
  BY <1>1, <1>2 DEF Paid
<1>6. step' = "down" => Cardinality(Open') =< used'["any"]
  BY <1>1, <1>2 DEF Paid
<1> QED
  BY <1>4, <1>5, <1>6 DEF Paid

LEMMA DialPays == ASSUME Inv1, Paid, Dial PROVE Paid'
<1>1. step = "down" /\ step' = "boot" /\ link' = "up" /\ late' = 0 /\ used' = used
  BY DEF Dial
<1>2. IsFiniteSet(Open) /\ Cardinality(Open) \in Nat /\ used["any"] \in Nat
  BY Counts
<1>3. Cardinality(Lost') \in Nat /\ Cardinality(Lost') =< Cardinality(Open)
  BY <1>2, DialOpens, SubsetCounts
<1>4. Cardinality(Lost') + late' =< used'["any"]
  BY <1>1, <1>2, <1>3 DEF Paid
<1> QED
  BY <1>1, <1>4 DEF Paid

\* Sums and spare replies grow with what they are made of.
LEMMA Fewer ==
    /\ \A q, r \in Nat : q =< r =>
          LET spare(n) == IF n > 0 THEN n - 1 ELSE n
          IN  spare(q) \in Nat /\ spare(q) =< spare(r)
    /\ \A n, p, q, r, s \in Nat : p =< q /\ r =< s => (n + p) + r =< (n + q) + s
OBVIOUS

LEMMA CutPays == ASSUME Inv1, Replies, StopKept, Paid, Break \/ Silence PROVE Paid'
<1>1. /\ Alive /\ ~Alive' /\ link' # "up" /\ step # "down" /\ step' = step
      /\ used'["any"] = used["any"] + 1 /\ wire' \in {wire, <<>>}
      /\ UNCHANGED <<waiting, responses>>
  BY CutIs DEF place, Alive
<1>2. Open' = Open
  BY OthersOpen
<1>3. /\ Cardinality(Open) \in Nat /\ Cardinality(Lost) \in Nat /\ Cardinality(Mine) \in Nat
      /\ Cardinality(Open) =< Cardinality(Lost) + Cardinality(Mine)
      /\ used["any"] \in Nat /\ late \in Nat /\ Spare \in Nat /\ Opens \in {0, 1}
      /\ Len(wire) \in Nat /\ Len(responses) \in Nat
  BY Counts
<1>4. Replied \in Nat /\ Replied' \in Nat /\ Replied' =< Replied
  BY <1>1, <1>3 DEF Replied
<1>5. Spare' \in Nat /\ Spare' =< Spare
  <2>1. Spare = (IF waiting /\ Replied > 0 THEN Replied - 1 ELSE Replied)
    BY DEF Spare
  <2>2. Spare' = (IF waiting /\ Replied' > 0 THEN Replied' - 1 ELSE Replied')
    BY <1>1 DEF Spare
  <2>3. CASE waiting
    BY <1>4, <2>1, <2>2, <2>3, Fewer
  <2>4. CASE ~waiting
    BY <1>4, <2>1, <2>2, <2>4
  <2> QED
    BY <2>3, <2>4
<1>6. Opens' \in {0, 1} /\ Opens' =< Opens
  BY <1>1, <1>4 DEF Opens
<1>7. Cardinality(Lost) + late =< used["any"]
  BY <1>1 DEF Paid
<1>8. (Cardinality(Mine) + Spare) + Opens =< late + 1
  BY <1>1, MineFew
<1>9. (Cardinality(Open') + Spare') + Opens' =< used'["any"]
  <2>1. Opens' \in Nat /\ Opens \in Nat
    BY <1>3, <1>6
  <2>2. (Cardinality(Open) + Spare) + Opens =< used["any"] + 1
    BY SMTT(20), <1>3, <1>7, <1>8, <2>1
  <2>3. (Cardinality(Open) + Spare') + Opens' =< (Cardinality(Open) + Spare) + Opens
    BY <1>3, <1>5, <1>6, <2>1, Fewer
  <2>4. Cardinality(Open') = Cardinality(Open) /\ used'["any"] = used["any"] + 1
    BY <1>1, <1>2
  <2>5. (Cardinality(Open) + Spare') + Opens' \in Nat
    BY <1>3, <1>5, <2>1
  <2> QED
    BY <1>3, <2>1, <2>2, <2>3, <2>4, <2>5
<1> QED
  BY <1>1, <1>9 DEF Paid

LEMMA PaidStep ==
    ASSUME Inv1, Replies, StopKept, Paid, [Next]_vars
    PROVE  Paid'
<1>0. Spare \in Nat /\ Opens \in Nat /\ Replied \in Nat /\ Len(wire) \in Nat
      /\ Len(responses) \in Nat
  BY Counts
<1>1. CASE Tick \/ Begin
  <2>1. /\ step = "idle" /\ step' \in {"beat", "preparing"}
        /\ UNCHANGED <<waiting, link, wire, responses, late, used>>
    BY <1>1 DEF Tick, Begin, socket, channel
  <2>2. ~waiting
    BY <2>1, SessionsAre DEF Inv1, PlaceOK
  <2>3. Spare' = Spare /\ Opens' = Opens
    BY <2>1, <2>2 DEF Spare, Opens, Replied
  <2> QED
    BY <1>0, <1>1, <2>1, <2>3, TickBeginOpens, FewerPay
<1>2. CASE Read
  <2>1. /\ UNCHANGED <<step, waiting, link, late, used>>
        /\ wire # <<>> /\ responses' = Append(responses, Head(wire)) /\ wire' = Tail(wire)
    BY <1>2 DEF Read, place
  <2>2. wire \in Seq(Nat) /\ responses \in Seq(Nat)
    BY Seqs
  <2>3. Len(wire') = Len(wire) - 1 /\ Len(responses') = Len(responses) + 1
    BY <2>1, <2>2
  <2>4. Replied' = Replied
    BY <1>0, <2>3 DEF Replied
  <2>5. Spare' = Spare /\ Opens' = Opens
    BY <2>1, <2>4 DEF Spare, Opens
  <2> QED
    BY <1>0, <1>2, <2>1, <2>5, OthersOpen, FewerPay
<1>3. CASE ReadFails \/ UNCHANGED vars
  <2>1. UNCHANGED <<step, waiting, link, wire, responses, late, used>>
    BY <1>3 DEF ReadFails, place, vars, socket, channel
  <2>2. Spare' = Spare /\ Opens' = Opens
    BY <2>1 DEF Spare, Opens, Replied
  <2> QED
    BY <1>0, <1>3, <2>1, <2>2, OthersOpen, FewerPay
<1>4. ASSUME NEW c \in Conns, Handle(c)
      PROVE  Paid'
  <2>1. /\ UNCHANGED <<step, waiting, link, responses, late, used>>
        /\ ~Live(c) => wire' = wire
    BY <1>4 DEF Handle, place
  <2>2. link # "up" => wire' = wire
    BY <2>1 DEF Live
  <2>3. link # "up" => Spare' = Spare /\ Opens' = Opens
    BY <2>1, <2>2 DEF Spare, Opens, Replied
  <2> QED
    BY <1>0, <1>4, <2>1, <2>3, HandleOpens, FewerPay
<1>5. ASSUME NEW c \in Conns, Discard(c)
      PROVE  Paid'
  <2>1. UNCHANGED <<step, waiting, link, wire, responses, late, used>>
    BY <1>5 DEF Discard, place, channel
  <2>2. Spare' = Spare /\ Opens' = Opens
    BY <2>1 DEF Spare, Opens, Replied
  <2> QED
    BY <1>0, <1>5, <2>1, <2>2, DiscardOpens, FewerPay
<1> QED
  BY <1>1, <1>2, <1>3, <1>4, <1>5, Steps1, SendPays, ReturnPays, DialPays, CutPays

LEMMA LossInit == Init => LossInv
<1> SUFFICES ASSUME Init
             PROVE  LossInv
  OBVIOUS
<1>1. ~Alive /\ step = "down" /\ stopped = {} /\ \A c \in Conns : calls[c] = <<>>
  BY DEF Init, Alive
<1>2. StartBefore /\ StopKept
  BY <1>1 DEF StartBefore, StopKept, Preceded
<1>3. Open = {}
  BY DEF Open, Init
<1>4. Cardinality(Open) = 0 /\ used["any"] = 0
  BY <1>3, FS_EmptySet DEF Init, Kinds
<1>5. Paid
  BY <1>1, <1>4 DEF Paid
<1> QED
  BY <1>2, <1>5 DEF LossInv

\* What nobody will report any more is among the sessions that are lost.
LEMMA LossFew ==
    ASSUME Inv1, LossInv
    PROVE  SessionLossBounded
<1>1. /\ Open \subseteq 1..begun /\ IsFiniteSet(Open) /\ IsFiniteSet(Lost)
      /\ Cardinality(Open) \in Nat /\ Cardinality(Lost) \in Nat
      /\ used["any"] \in Nat /\ late \in Nat /\ Spare \in Nat /\ Opens \in {0, 1}
  BY Counts
<1>2. /\ Unreported \subseteq Open
      /\ \A n \in Unreported : ~StopOnTheWay(n) /\ ~InSession(n)
  BY DEF Unreported, Open, Owed, Inv1, TypeInv
<1>3. CASE Alive
  <2>1. conn \in Conns /\ calls[conn] \in Seq(Call)
    BY <1>3, Seqs
  <2>2. ASSUME NEW n \in Unreported
        PROVE  ~Kept(n)
    <3>1. ~Sent(calls[conn], "stop", n)
      BY <1>2, <2>1 DEF StopOnTheWay, Sent
    <3>2. ~(Touched /\ n = begun)
      BY <1>2, SessionsAre DEF InSession, Touched, AfterStart
    <3> QED
      BY <3>1, <3>2 DEF Kept
  <2>3. Unreported \subseteq Lost
    BY <1>2, <2>2 DEF Lost, Mine
  <2>4. Cardinality(Unreported) \in Nat /\ Cardinality(Unreported) =< Cardinality(Lost)
    BY <1>1, <2>3, SubsetCounts
  <2> QED
    BY <1>1, <1>3, <2>4 DEF LossInv, StartBefore, Paid, SessionLossBounded
<1>4. CASE ~Alive
  <2>1. Cardinality(Unreported) \in Nat /\ Cardinality(Unreported) =< Cardinality(Open)
    BY <1>1, <1>2, SubsetCounts
  <2>2. Cardinality(Open) =< used["any"]
    BY <1>1, <1>4 DEF LossInv, Paid, Alive
  <2>3. Cardinality(Unreported) =< used["any"]
    BY <1>1, <2>1, <2>2
  <2> QED
    BY <2>3 DEF LossInv, StartBefore, SessionLossBounded
<1> QED
  BY <1>3, <1>4

\* A connection that breaks or falls silent, or a reply that comes late, costs
\* one session at most, and no stop comes without its start
\* (SessionLossBounded): errors are ignored where a session ends, but what is
\* sent before the next session opens waits for a reply that is not there.
THEOREM FaultsCostOneSession == Spec => []SessionLossBounded
<1>1. Init => Replies
  BY DEF Init, Replies, Due, Alive, Numbered
<1>2. Inv1 /\ Replies /\ LossInv /\ [Next]_vars => LossInv'
  BY StartBeforeStep, StopKeptStep, PaidStep DEF LossInv
<1>3. Inv1 /\ LossInv => SessionLossBounded
  BY LossFew
<1> QED
  BY <1>1, <1>2, <1>3, LossInit, Inv1Always, RepliesStep, PTL DEF Spec
=============================================================================
