--------------------------- MODULE TcpLinkProofs ----------------------------
(***************************************************************************)
(* Proofs about TcpLink, for all blocks, values, widths of the transaction *)
(* id and numbers of calls an answer may be late.                          *)
(***************************************************************************)
EXTENDS TcpLink, SequenceTheorems, TLAPS

(* What is under way belongs to different calls, the oldest in front: an   *)
(* answer in the socket is older than one on its way, and that than a      *)
(* request.                                                                *)
Decreasing(s) == \A i, k \in 1..Len(s) : i < k => s[i].age > s[k].age
Above(s, t)   == \A i \in 1..Len(s), k \in 1..Len(t) : s[i].age > t[k].age

InOrder ==
    /\ Decreasing(stream) /\ Decreasing(inflight) /\ Decreasing(toDevice)
    /\ Above(stream, inflight) /\ Above(stream, toDevice) /\ Above(inflight, toDevice)

(* The id of a message tells the call it belongs to, as the counter has not*)
(* come round since.  Before a request is sent nothing belongs to its call,*)
(* and a call ends with nothing older than the next one may find.          *)
Sending(at) == at \in {"send", "retry", "reconnect"}
Ending(at)  == at \in {"idle", "recover", "reopen"}

Placed(m, id, at, b) ==
    /\ m.tid + m.age = id \/ m.tid + m.age = id + U16
    /\ Sending(at) => m.age > 0
    /\ Ending(at) => m.age < Window
    /\ m.age = 0 /\ at # "idle" => m.block = b

AllPlaced(s, id, at, b) == \A i \in 1..Len(s) : Placed(s[i], id, at, b)

InPlace ==
    /\ AllPlaced(stream, t_id, pc, request.block)
    /\ AllPlaced(inflight, t_id, pc, request.block)
    /\ AllPlaced(toDevice, t_id, pc, request.block)

(* Nothing is under way without a connection. *)
Connection ==
    /\ conn # "open" => ~peer
    /\ ~peer => toDevice = <<>>
    /\ conn \in {"reset", "none"} => inflight = <<>> /\ stream = <<>>
    /\ pc = "start" => conn = "none"

Requested ==
    /\ request.tid = t_id
    /\ request.block = NoBlock <=> pc \in {"start", "idle"}

Inv == TypeOK /\ Connection /\ Requested /\ InOrder /\ InPlace

-----------------------------------------------------------------------------
(* Sequences. *)

LEMMA Appended ==
    ASSUME NEW S, NEW s \in Seq(S), NEW m \in S
    PROVE  /\ Append(s, m) \in Seq(S) /\ Len(Append(s, m)) = Len(s) + 1
           /\ \A i \in 1..Len(s) : Append(s, m)[i] = s[i]
           /\ Append(s, m)[Len(s) + 1] = m
  OBVIOUS

LEMMA Dropped ==
    ASSUME NEW S, NEW s \in Seq(S), s # <<>>
    PROVE  /\ Len(s) \in Nat \ {0} /\ Head(s) = s[1] /\ Head(s) \in S
           /\ Tail(s) \in Seq(S) /\ Len(Tail(s)) = Len(s) - 1
           /\ \A i \in 1..Len(Tail(s)) : Tail(s)[i] = s[i + 1]
  OBVIOUS

LEMMA NothingLeft ==
    /\ \A s : Decreasing(<<>>) /\ Above(<<>>, s) /\ Above(s, <<>>)
    /\ \A id, at, b : AllPlaced(<<>>, id, at, b)
  BY DEF Decreasing, Above, AllPlaced

(* A message of the right age takes the last place. *)
LEMMA AppendedInOrder ==
    ASSUME NEW S, NEW s \in Seq(S), NEW m \in S, Decreasing(s),
           \A i \in 1..Len(s) : s[i].age > m.age
    PROVE  Decreasing(Append(s, m))
  BY Appended DEF Decreasing

LEMMA DroppedInOrder ==
    ASSUME NEW S, NEW s \in Seq(S), s # <<>>, Decreasing(s)
    PROVE  /\ Decreasing(Tail(s))
           /\ \A i \in 1..Len(Tail(s)) : Head(s).age > Tail(s)[i].age
  BY Dropped DEF Decreasing

LEMMA DroppedAbove ==
    ASSUME NEW S, NEW s \in Seq(S), s # <<>>, NEW t
    PROVE  /\ Above(s, t) => Above(Tail(s), t) /\ \A k \in 1..Len(t) : Head(s).age > t[k].age
           /\ Above(t, s) => Above(t, Tail(s)) /\ \A k \in 1..Len(t) : t[k].age > Head(s).age
  BY Dropped DEF Above

LEMMA AppendedAbove ==
    ASSUME NEW S, NEW s \in Seq(S), NEW m \in S, NEW T, NEW t \in Seq(T)
    PROVE  /\ Above(s, t) /\ (\A k \in 1..Len(t) : m.age > t[k].age) => Above(Append(s, m), t)
           /\ Above(t, s) /\ (\A k \in 1..Len(t) : t[k].age > m.age) => Above(t, Append(s, m))
  BY Appended DEF Above

LEMMA OneOlder ==
    ASSUME NEW S, S \in { RequestType, AnswerType }, NEW m \in S, m.age < Window
    PROVE  /\ [m EXCEPT !.age = @ + 1] \in S
           /\ [m EXCEPT !.age = @ + 1].age = m.age + 1
           /\ [m EXCEPT !.age = @ + 1].tid = m.tid
           /\ m.age \in Nat
<1>1. CASE S = RequestType
  <2>1. m \in RequestType
    BY <1>1
  <2>2. m.age \in 0..Window /\ m.age + 1 \in 0..Window
    BY <2>1, TcpAssumption DEF RequestType
  <2> QED
    BY <1>1, <2>1, <2>2 DEF RequestType
<1>2. CASE S = AnswerType
  <2>1. m \in AnswerType
    BY <1>2
  <2>2. m.age \in 0..Window /\ m.age + 1 \in 0..Window
    BY <2>1, TcpAssumption DEF AnswerType
  <2> QED
    BY <1>2, <2>1, <2>2 DEF AnswerType
<1> QED
  BY <1>1, <1>2

LEMMA OlderInOrder ==
    ASSUME NEW S, S \in { RequestType, AnswerType }, NEW s \in Seq(S),
           \A i \in 1..Len(s) : s[i].age < Window
    PROVE  /\ Older(s) \in Seq(S) /\ Len(Older(s)) = Len(s)
           /\ \A i \in 1..Len(s) : /\ Older(s)[i].age = s[i].age + 1
                                   /\ Older(s)[i].tid = s[i].tid
                                   /\ s[i].age \in Nat
<1>1. DOMAIN s = 1..Len(s) /\ Len(s) \in Nat /\ \A i \in 1..Len(s) : s[i] \in S
  OBVIOUS
<1>2. /\ DOMAIN Older(s) = 1..Len(s)
      /\ \A i \in 1..Len(s) : Older(s)[i] = [s[i] EXCEPT !.age = @ + 1]
      /\ Older(s) = [i \in 1..Len(s) |-> [s[i] EXCEPT !.age = @ + 1]]
  BY <1>1 DEF Older
<1>3. \A i \in 1..Len(s) : [s[i] EXCEPT !.age = @ + 1] \in S
  BY <1>1, OneOlder
<1>4. Older(s) \in Seq(S) /\ Len(Older(s)) = Len(s)
  BY <1>1, <1>2, <1>3
<1> QED
  BY <1>1, <1>2, <1>4, OneOlder

LEMMA Advanced ==
    ASSUME t_id \in 0..(U16 - 1)
    PROVE  NextTid = IF t_id + 1 = U16 THEN 0 ELSE t_id + 1
  BY TcpAssumption DEF NextTid

LEMMA PlacedDropped ==
    ASSUME NEW S, NEW s \in Seq(S), s # <<>>, NEW id, NEW at, NEW b, AllPlaced(s, id, at, b)
    PROVE  Placed(Head(s), id, at, b) /\ AllPlaced(Tail(s), id, at, b)
  BY Dropped DEF AllPlaced

LEMMA PlacedAppended ==
    ASSUME NEW S, NEW s \in Seq(S), NEW m \in S, NEW id, NEW at, NEW b,
           AllPlaced(s, id, at, b), Placed(m, id, at, b)
    PROVE  AllPlaced(Append(s, m), id, at, b)
  BY Appended DEF AllPlaced

(* The master moves on within a call, or ends it. *)
LEMMA PlacedOnward ==
    ASSUME NEW s, NEW id, NEW at, NEW b, NEW next, NEW c, AllPlaced(s, id, at, b),
           Sending(next) => Sending(at),
           Ending(next) => Ending(at) \/ \A i \in 1..Len(s) : s[i].age < Window,
           next # "idle" => at # "idle" /\ c = b
    PROVE  AllPlaced(s, id, next, c)
  BY DEF AllPlaced, Placed

LEMMA StillPlaced ==
    ASSUME NEW tid \in 0..(U16 - 1), NEW age \in 0..Window, t_id \in 0..(U16 - 1), age < Window,
           tid + age = t_id \/ tid + age = t_id + U16
    PROVE  tid + (age + 1) = NextTid \/ tid + (age + 1) = NextTid + U16
<1>1. U16 \in Nat /\ Window \in Nat /\ Window < U16
  BY TcpAssumption
<1>2. CASE t_id + 1 = U16
  <2>1. NextTid = 0
    BY <1>2, Advanced
  <2> QED
    BY <1>1, <1>2, <2>1
<1>3. CASE t_id + 1 # U16
  <2>1. NextTid = t_id + 1
    BY <1>3, Advanced
  <2> QED
    BY <1>1, <1>3, <2>1
<1> QED
  BY <1>2, <1>3

(* The next call begins: everything is one call older. *)
LEMMA PlacedOlder ==
    ASSUME NEW S, S \in { RequestType, AnswerType }, NEW s \in Seq(S),
           t_id \in 0..(U16 - 1), NEW b, NEW c, AllPlaced(s, t_id, "idle", b)
    PROVE  /\ Older(s) \in Seq(S) /\ AllPlaced(Older(s), NextTid, "send", c)
           /\ Len(Older(s)) = Len(s)
           /\ \A i \in 1..Len(s) : Older(s)[i].age = s[i].age + 1 /\ s[i].age \in Nat
<1>1. \A i \in 1..Len(s) : s[i].age < Window
  BY DEF AllPlaced, Placed, Ending
<1>2. \A i \in 1..Len(s) : s[i].tid \in 0..(U16 - 1) /\ s[i].age \in 0..Window
  <2>1. \A i \in 1..Len(s) : s[i] \in S
    OBVIOUS
  <2> QED
    BY <2>1 DEF RequestType, AnswerType
<1>3. ASSUME NEW i \in 1..Len(Older(s)) PROVE Placed(Older(s)[i], NextTid, "send", c)
  <2>1. /\ i \in 1..Len(s)
        /\ Older(s)[i].age = s[i].age + 1 /\ Older(s)[i].tid = s[i].tid
    BY <1>1, OlderInOrder
  <2>2. s[i].tid + s[i].age = t_id \/ s[i].tid + s[i].age = t_id + U16
    BY <2>1 DEF AllPlaced, Placed
  <2>3. \/ s[i].tid + (s[i].age + 1) = NextTid
        \/ s[i].tid + (s[i].age + 1) = NextTid + U16
    BY <1>1, <1>2, <2>1, <2>2, StillPlaced
  <2>4. s[i].age + 1 > 0
    BY <1>2, <2>1
  <2> QED
    BY <2>1, <2>3, <2>4 DEF Placed, Sending, Ending
<1> QED
  BY <1>1, <1>3, OlderInOrder DEF AllPlaced

(* An answer with the id of the call is the answer to the call. *)
LEMMA SameId ==
    ASSUME NEW m, m.tid \in 0..(U16 - 1), m.age \in 0..Window, NEW id \in 0..(U16 - 1),
           m.tid + m.age = id \/ m.tid + m.age = id + U16
    PROVE  m.tid = id <=> m.age = 0
  BY TcpAssumption
-----------------------------------------------------------------------------
(* The invariant. *)

LEMMA Typed ==
    ASSUME TypeOK
    PROVE  /\ \A i \in 1..Len(stream)   : stream[i] \in AnswerType
           /\ \A i \in 1..Len(inflight) : inflight[i] \in AnswerType
           /\ \A i \in 1..Len(toDevice) : toDevice[i] \in RequestType
           /\ \A m \in RequestType \cup AnswerType :
                m.tid \in 0..(U16 - 1) /\ m.age \in 0..Window /\ m.block \in Block
<1>1. stream \in Seq(AnswerType) /\ inflight \in Seq(AnswerType) /\ toDevice \in Seq(RequestType)
  BY DEF TypeOK
<1>2. \A m \in RequestType \cup AnswerType :
        m.tid \in 0..(U16 - 1) /\ m.age \in 0..Window /\ m.block \in Block
  BY DEF RequestType, AnswerType
<1> QED
  BY <1>1, <1>2

LEMMA InvInit == Init => Inv
<1> SUFFICES ASSUME Init PROVE Inv
  OBVIOUS
<1>1. TypeOK
  <2>1. peer \in BOOLEAN
    BY DEF Init
  <2>2. t_id \in 0..(U16 - 1) /\ request \in [tid : 0..(U16 - 1), block : Block \cup {NoBlock}]
    BY TcpAssumption DEF Init
  <2>3. toDevice \in Seq(RequestType) /\ inflight \in Seq(AnswerType) /\ stream \in Seq(AnswerType)
    BY DEF Init
  <2> QED
    BY <2>1, <2>2, <2>3 DEF Init, TypeOK, Errno
<1>2. Connection /\ Requested
  BY DEF Init, Connection, Requested
<1>3. InOrder /\ InPlace
  BY NothingLeft DEF Init, InOrder, InPlace
<1> QED
  BY <1>1, <1>2, <1>3 DEF Inv

(* A connection is made, or was not: nothing is left of the one before. *)
LEMMA ConnectedAnew ==
    ASSUME TypeOK, Connect, pc' # "start" \/ conn' = "none"
    PROVE  /\ Connection' /\ InOrder' /\ InPlace'
           /\ reachable' \in BOOLEAN /\ peer' \in BOOLEAN /\ conn' \in {"open", "none"}
           /\ toDevice' = <<>> /\ inflight' = <<>> /\ stream' = <<>>
<1>1. peer' \in BOOLEAN
  BY DEF Connect
<1>2. reachable' \in BOOLEAN
  BY DEF Connect, TypeOK
<1>3. Connection'
  BY DEF Connect, Connection
<1>4. InOrder' /\ InPlace'
  BY NothingLeft DEF Connect, InOrder, InPlace
<1> QED
  BY <1>1, <1>2, <1>3, <1>4 DEF Connect

LEMMA ConnectSteps ==
    ASSUME Inv, Start \/ Reconnect \/ Reopen
    PROVE  Inv'
<1>1. TypeOK /\ Requested /\ Connect /\ t_id' = t_id
  BY DEF Inv, Start, Reconnect, Reopen
<1>2. pc' # "start" \/ conn' = "none"
  BY DEF Start, Reconnect, Reopen, Return, Connect
<1>3. /\ pc' \in {"start", "idle", "send"} /\ errno' = errno /\ device' = device
      /\ request' \in [tid : 0..(U16 - 1), block : Block \cup {NoBlock}]
      /\ request'.tid = request.tid
      /\ request'.block = NoBlock <=> pc' \in {"start", "idle"}
      /\ result' \in {result, Failed}
  BY <1>1 DEF TypeOK, Requested, Start, Reconnect, Reopen, Return
<1>4. TypeOK'
  <2>1. toDevice' \in Seq(RequestType) /\ inflight' \in Seq(AnswerType) /\ stream' \in Seq(AnswerType)
    <3>1. toDevice' = <<>> /\ inflight' = <<>> /\ stream' = <<>>
      BY <1>1, <1>2, ConnectedAnew
    <3> QED
      BY <3>1
  <2>2. reachable' \in BOOLEAN /\ peer' \in BOOLEAN /\ conn' \in {"open", "none"}
    BY <1>1, <1>2, ConnectedAnew
  <2> QED
    BY <1>1, <1>3, <2>1, <2>2 DEF TypeOK
<1> QED
  BY <1>1, <1>2, <1>3, <1>4, ConnectedAnew DEF Inv, Requested

LEMMA AgedDecreasing ==
    ASSUME NEW s, NEW t, Len(t) = Len(s), Decreasing(s),
           \A i \in 1..Len(s) : t[i].age = s[i].age + 1 /\ s[i].age \in Nat
    PROVE  Decreasing(t)
  BY DEF Decreasing

LEMMA AgedAbove ==
    ASSUME NEW s, NEW t, Len(t) = Len(s), NEW u, NEW v, Len(v) = Len(u), Above(s, u),
           \A i \in 1..Len(s) : t[i].age = s[i].age + 1 /\ s[i].age \in Nat,
           \A i \in 1..Len(u) : v[i].age = u[i].age + 1 /\ u[i].age \in Nat
    PROVE  Above(t, v)
<1>1. ASSUME NEW i \in 1..Len(s), NEW k \in 1..Len(u) PROVE t[i].age > v[k].age
  <2>1. s[i].age > u[k].age
    BY DEF Above
  <2>2. t[i].age = s[i].age + 1 /\ v[k].age = u[k].age + 1 /\ s[i].age \in Nat /\ u[k].age \in Nat
    OBVIOUS
  <2> QED
    BY <2>1, <2>2
<1> QED
  BY <1>1 DEF Above

(* Everything is one call older, and what is under way still belongs to    *)
(* different calls.                                                        *)
LEMMA CallStep ==
    ASSUME Inv, NEW b \in Block, Call(b)
    PROVE  Inv'
<1>1. TypeOK /\ Connection /\ InOrder /\ InPlace /\ pc = "idle"
  BY DEF Inv, Call
<1>2. /\ t_id' = NextTid /\ request' = [tid |-> NextTid, block |-> b] /\ pc' = "send"
      /\ toDevice' = Older(toDevice) /\ inflight' = Older(inflight) /\ stream' = Older(stream)
      /\ result' = NoResult
      /\ UNCHANGED <<device, reachable, peer, conn, errno>>
  BY DEF Call
<1>3. NextTid \in 0..(U16 - 1)
  <2>1. t_id \in 0..(U16 - 1) /\ U16 \in Nat \ {0}
    BY <1>1, TcpAssumption DEF TypeOK
  <2> QED
    BY <2>1, Advanced
<1>4. /\ Older(toDevice) \in Seq(RequestType) /\ AllPlaced(Older(toDevice), NextTid, "send", b)
      /\ Len(Older(toDevice)) = Len(toDevice)
      /\ \A i \in 1..Len(toDevice) :
            Older(toDevice)[i].age = toDevice[i].age + 1 /\ toDevice[i].age \in Nat
  BY <1>1, PlacedOlder DEF TypeOK, InPlace
<1>5. /\ Older(inflight) \in Seq(AnswerType) /\ AllPlaced(Older(inflight), NextTid, "send", b)
      /\ Len(Older(inflight)) = Len(inflight)
      /\ \A i \in 1..Len(inflight) :
            Older(inflight)[i].age = inflight[i].age + 1 /\ inflight[i].age \in Nat
  BY <1>1, PlacedOlder DEF TypeOK, InPlace
<1>6. /\ Older(stream) \in Seq(AnswerType) /\ AllPlaced(Older(stream), NextTid, "send", b)
      /\ Len(Older(stream)) = Len(stream)
      /\ \A i \in 1..Len(stream) :
            Older(stream)[i].age = stream[i].age + 1 /\ stream[i].age \in Nat
  BY <1>1, PlacedOlder DEF TypeOK, InPlace
<1>7. TypeOK'
  <2>1. reachable' \in BOOLEAN /\ peer' \in BOOLEAN
    BY <1>1, <1>2 DEF TypeOK
  <2>2. request' \in [tid : 0..(U16 - 1), block : Block \cup {NoBlock}]
    BY <1>2, <1>3
  <2> QED
    BY <1>1, <1>2, <1>3, <1>4, <1>5, <1>6, <2>1, <2>2 DEF TypeOK
<1>8. Connection'
  <2>1. \A s : s = <<>> => Older(s) = <<>>
    BY DEF Older
  <2> QED
    BY <1>1, <1>2, <2>1 DEF Connection
<1>9. Requested'
  BY <1>2, TcpAssumption DEF Requested
<1>10. InOrder'
  <2>1. Decreasing(stream') /\ Decreasing(inflight') /\ Decreasing(toDevice')
    BY <1>1, <1>2, <1>4, <1>5, <1>6, AgedDecreasing DEF InOrder
  <2>2. Above(stream', inflight') /\ Above(stream', toDevice') /\ Above(inflight', toDevice')
    BY <1>1, <1>2, <1>4, <1>5, <1>6, AgedAbove DEF InOrder
  <2> QED
    BY <2>1, <2>2 DEF InOrder
<1>11. InPlace'
  BY <1>2, <1>4, <1>5, <1>6 DEF InPlace
<1> QED
  BY <1>7, <1>8, <1>9, <1>10, <1>11 DEF Inv

(* The youngest of all goes to the device. *)
LEMMA SendStep ==
    ASSUME Inv, Send
    PROVE  Inv'
<1> DEFINE m == [tid |-> request.tid, block |-> request.block, age |-> 0]
<1>1. /\ TypeOK /\ Connection /\ Requested /\ InOrder /\ InPlace
      /\ pc = "send" /\ pc' = "receive"
      /\ UNCHANGED <<device, reachable, peer, conn, inflight, stream, request, t_id, errno, result>>
  BY DEF Inv, Send
<1>2. toDevice' = toDevice \/ (toDevice' = Append(toDevice, m) /\ peer)
  BY DEF Send
<1>3. m \in RequestType /\ m.age = 0 /\ m.block = request.block /\ m.tid = t_id
  BY <1>1, TcpAssumption DEF TypeOK, Requested, RequestType
<1>4. /\ \A i \in 1..Len(stream) : stream[i].age > m.age
      /\ \A i \in 1..Len(inflight) : inflight[i].age > m.age
      /\ \A i \in 1..Len(toDevice) : toDevice[i].age > m.age
  BY <1>1, <1>3 DEF InPlace, AllPlaced, Placed, Sending
<1>5. /\ AllPlaced(stream, t_id, "receive", request.block)
      /\ AllPlaced(inflight, t_id, "receive", request.block)
      /\ AllPlaced(toDevice, t_id, "receive", request.block)
  <2>1. ~Sending("receive") /\ ~Ending("receive")
    BY DEF Sending, Ending
  <2> QED
    BY <1>1, <2>1, PlacedOnward DEF InPlace
<1>6. Placed(m, t_id, "receive", request.block)
  BY <1>1, <1>3 DEF Placed, Sending, Ending, TypeOK
<1> HIDE DEF m
<1>7. toDevice \in Seq(RequestType) /\ toDevice' \in Seq(RequestType)
  <2>1. toDevice \in Seq(RequestType)
    BY <1>1 DEF TypeOK
  <2> QED
    BY <1>2, <1>3, <2>1, Appended
<1>8. TypeOK'
  <2>1. reachable' \in BOOLEAN /\ peer' \in BOOLEAN
    BY <1>1 DEF TypeOK
  <2> QED
    BY <1>1, <1>7, <2>1 DEF TypeOK
<1>9. Connection' /\ Requested'
  BY <1>1, <1>2 DEF Connection, Requested
<1>10. InOrder'
  <2>1. CASE toDevice' = toDevice
    BY <1>1, <2>1 DEF InOrder
  <2>2. CASE toDevice' = Append(toDevice, m)
    <3>1. Decreasing(toDevice')
      BY <1>1, <1>3, <1>4, <2>2, AppendedInOrder DEF TypeOK, InOrder
    <3>2. Above(stream, toDevice')
      BY <1>1, <1>3, <1>4, <2>2, AppendedAbove DEF TypeOK, InOrder
    <3>3. Above(inflight, toDevice')
      BY <1>1, <1>3, <1>4, <2>2, AppendedAbove DEF TypeOK, InOrder
    <3> QED
      BY <1>1, <3>1, <3>2, <3>3 DEF InOrder
  <2> QED
    BY <1>2, <2>1, <2>2
<1>11. InPlace'
  <2>1. AllPlaced(toDevice', t_id, "receive", request.block)
    BY <1>2, <1>3, <1>5, <1>6, <1>7, PlacedAppended
  <2> QED
    BY <1>1, <1>5, <2>1 DEF InPlace
<1> QED
  BY <1>8, <1>9, <1>10, <1>11 DEF Inv

(* The steps of the master that touch nothing under way. *)
LEMMA WaitingSteps ==
    ASSUME Inv, SendFails \/ Timeout \/ SelectFails \/ RecvFails
    PROVE  Inv'
<1>1. /\ TypeOK /\ Connection /\ Requested /\ InOrder /\ InPlace
      /\ UNCHANGED <<device, reachable, peer, conn, toDevice, inflight, stream, t_id>>
  BY DEF Inv, SendFails, Timeout, SelectFails, RecvFails, netVars
<1>2. /\ pc \in {"send", "receive"}
      /\ pc' \in {"idle", "retry", "reconnect", "recover", "reopen"}
      /\ pc' \in {"retry", "reconnect"} => pc = "send"
      /\ request' \in [tid : 0..(U16 - 1), block : Block \cup {NoBlock}]
      /\ request'.tid = request.tid
      /\ pc' # "idle" => request' = request
      /\ pc' = "idle" => request'.block = NoBlock
      /\ errno' \in Errno /\ result' \in {result, Failed}
  BY <1>1 DEF TypeOK, SendFails, Timeout, SelectFails, RecvFails, Return, Errno
<1>3. TypeOK'
  <2>1. reachable' \in BOOLEAN /\ peer' \in BOOLEAN
    BY <1>1 DEF TypeOK
  <2> QED
    BY <1>1, <1>2, <2>1 DEF TypeOK
<1>4. Connection' /\ Requested' /\ InOrder'
  BY <1>1, <1>2 DEF Connection, Requested, InOrder
<1>5. Ending(pc') => /\ \A i \in 1..Len(stream)   : stream[i].age < Window
                     /\ \A i \in 1..Len(inflight) : inflight[i].age < Window
                     /\ \A i \in 1..Len(toDevice) : toDevice[i].age < Window
  <2>1. CASE Timeout
    <3>1. /\ DOMAIN stream = 1..Len(stream) /\ DOMAIN inflight = 1..Len(inflight)
          /\ DOMAIN toDevice = 1..Len(toDevice)
      BY <1>1 DEF TypeOK
    <3> QED
      BY <2>1, <3>1 DEF Timeout, Messages
  <2>2. CASE SelectFails \/ RecvFails
    <3>1. stream = <<>> /\ inflight = <<>> /\ toDevice = <<>>
      BY <1>1, <2>2 DEF Connection, SelectFails, RecvFails
    <3> QED
      BY <3>1
  <2>3. CASE SendFails
    BY <2>3 DEF SendFails, Ending
  <2> QED
    BY <2>1, <2>2, <2>3
<1>6. Sending(pc') => Sending(pc)
  BY <1>2 DEF Sending
<1>7. InPlace'
  <2>1. pc' # "idle" => pc # "idle" /\ request'.block = request.block
    BY <1>2
  <2>2. AllPlaced(stream, t_id, pc', request'.block)
    BY <1>1, <1>5, <1>6, <2>1, PlacedOnward DEF InPlace
  <2>3. AllPlaced(inflight, t_id, pc', request'.block)
    BY <1>1, <1>5, <1>6, <2>1, PlacedOnward DEF InPlace
  <2>4. AllPlaced(toDevice, t_id, pc', request'.block)
    BY <1>1, <1>5, <1>6, <2>1, PlacedOnward DEF InPlace
  <2> QED
    BY <1>1, <2>2, <2>3, <2>4 DEF InPlace
<1> QED
  BY <1>3, <1>4, <1>7 DEF Inv

LEMMA FlushSteps ==
    ASSUME Inv, Retry \/ Recover
    PROVE  Inv'
<1>1. /\ TypeOK /\ Connection /\ Requested /\ InOrder /\ InPlace /\ stream' = <<>>
      /\ UNCHANGED <<device, reachable, peer, conn, toDevice, inflight, t_id, errno>>
  BY DEF Inv, Retry, Recover
<1>2. /\ \/ pc = "retry" /\ pc' = "send" /\ request' = request
         \/ pc = "recover" /\ pc' = "idle" /\ request'.block = NoBlock
      /\ request' \in [tid : 0..(U16 - 1), block : Block \cup {NoBlock}]
      /\ request'.tid = request.tid
      /\ result' \in {result, Failed}
  BY <1>1 DEF TypeOK, Retry, Recover, Return
<1>3. TypeOK'
  <2>1. reachable' \in BOOLEAN /\ peer' \in BOOLEAN
    BY <1>1 DEF TypeOK
  <2>2. stream' \in Seq(AnswerType)
    BY <1>1
  <2> QED
    BY <1>1, <1>2, <2>1, <2>2 DEF TypeOK
<1>4. Connection' /\ Requested'
  BY <1>1, <1>2 DEF Connection, Requested
<1>5. InOrder'
  BY <1>1, NothingLeft DEF InOrder
<1>6. InPlace'
  <2>1. /\ Sending(pc') => Sending(pc)
        /\ Ending(pc') => Ending(pc)
        /\ pc' # "idle" => pc # "idle" /\ request'.block = request.block
    BY <1>2 DEF Sending, Ending
  <2>2. AllPlaced(inflight, t_id, pc', request'.block)
    BY <1>1, <2>1, PlacedOnward DEF InPlace
  <2>3. AllPlaced(toDevice, t_id, pc', request'.block)
    BY <1>1, <2>1, PlacedOnward DEF InPlace
  <2> QED
    BY <1>1, <2>2, <2>3, NothingLeft DEF InPlace
<1> QED
  BY <1>3, <1>4, <1>5, <1>6 DEF Inv

(* What the answer just taken leaves behind is younger: nothing when it is *)
(* the answer to the call, and less than Window calls old otherwise.       *)
LEMMA TakeAnswerStep ==
    ASSUME Inv, TakeAnswer
    PROVE  Inv' /\ (PreCheck(Head(stream)) <=> Head(stream).age = 0)
<1>1. /\ TypeOK /\ Connection /\ Requested /\ InOrder /\ InPlace
      /\ pc = "receive" /\ stream # <<>> /\ stream' = Tail(stream)
      /\ UNCHANGED <<device, reachable, peer, conn, toDevice, inflight, t_id>>
  BY DEF Inv, TakeAnswer
<1> DEFINE a == Head(stream)
<1>2. stream \in Seq(AnswerType) /\ inflight \in Seq(AnswerType) /\ toDevice \in Seq(RequestType)
  BY <1>1 DEF TypeOK
<1>3. a \in AnswerType /\ Tail(stream) \in Seq(AnswerType)
  BY <1>1, <1>2, Dropped
<1>4. a.tid \in 0..(U16 - 1) /\ a.age \in 0..Window /\ a.block \in Block
  BY <1>1, <1>3, Typed
<1>5. Placed(a, t_id, pc, request.block) /\ AllPlaced(Tail(stream), t_id, pc, request.block)
  BY <1>1, <1>2, PlacedDropped DEF InPlace
<1>6. PreCheck(a) <=> a.age = 0
  <2>1. t_id \in 0..(U16 - 1) /\ request.tid = t_id
    BY <1>1 DEF TypeOK, Requested
  <2> QED
    BY <1>4, <1>5, <2>1, SameId DEF Placed, PreCheck
<1>7. a.age = 0 => a.block = request.block
  BY <1>1, <1>5 DEF Placed
<1>8. /\ \A i \in 1..Len(Tail(stream)) : a.age > Tail(stream)[i].age
      /\ \A i \in 1..Len(inflight) : a.age > inflight[i].age
      /\ \A i \in 1..Len(toDevice) : a.age > toDevice[i].age
  BY <1>1, <1>2, DroppedInOrder, DroppedAbove DEF InOrder
<1>9. \/ /\ ~PreCheck(a) /\ pc' = "recover" /\ UNCHANGED <<request, result>> /\ errno' \in Errno
      \/ PreCheck(a) /\ Return(Failed) /\ errno' \in Errno
      \/ PreCheck(a) /\ a.value # Exception /\ Return(a.value) /\ errno' \in Errno
  BY <1>1, <1>6, <1>7 DEF TakeAnswer, TypeOK, Errno
<1>10. /\ \/ ~PreCheck(a) /\ pc' = "recover" /\ request' = request
          \/ PreCheck(a) /\ pc' = "idle" /\ request'.block = NoBlock
       /\ request' \in [tid : 0..(U16 - 1), block : Block \cup {NoBlock}]
       /\ request'.tid = request.tid
       /\ result' \in Value \cup {NoResult, Failed}
  BY <1>1, <1>3, <1>9 DEF TypeOK, Return, AnswerType
<1> HIDE DEF a
<1>11. TypeOK'
  <2>1. reachable' \in BOOLEAN /\ peer' \in BOOLEAN
    BY <1>1 DEF TypeOK
  <2> QED
    BY <1>1, <1>2, <1>3, <1>9, <1>10, <2>1 DEF TypeOK
<1>12. Connection' /\ Requested'
  <2>1. conn \in {"open", "fin"}
    BY DEF TakeAnswer
  <2> QED
    BY <1>1, <1>10, <2>1 DEF Connection, Requested
<1>13. InOrder'
  BY <1>1, <1>2, DroppedInOrder, DroppedAbove DEF InOrder
<1>14. InPlace'
  <2>1. /\ \A i \in 1..Len(Tail(stream)) : Tail(stream)[i].age < Window
        /\ \A i \in 1..Len(inflight) : inflight[i].age < Window
        /\ \A i \in 1..Len(toDevice) : toDevice[i].age < Window
    <3>1. /\ \A i \in 1..Len(Tail(stream)) : Tail(stream)[i].age \in 0..Window
          /\ \A i \in 1..Len(inflight) : inflight[i].age \in 0..Window
          /\ \A i \in 1..Len(toDevice) : toDevice[i].age \in 0..Window
      <4>1. /\ \A i \in 1..Len(Tail(stream)) : Tail(stream)[i] \in AnswerType
            /\ \A i \in 1..Len(inflight) : inflight[i] \in AnswerType
            /\ \A i \in 1..Len(toDevice) : toDevice[i] \in RequestType
        BY <1>2, <1>3
      <4> QED
        BY <1>1, <4>1, Typed
    <3> QED
      BY <1>4, <1>8, <3>1, TcpAssumption
  <2>2. /\ Sending(pc') => Sending(pc)
        /\ pc' # "idle" => pc # "idle" /\ request'.block = request.block
    BY <1>1, <1>10 DEF Sending
  <2>3. AllPlaced(Tail(stream), t_id, pc', request'.block)
    BY <1>5, <2>1, <2>2, PlacedOnward
  <2>4. AllPlaced(inflight, t_id, pc', request'.block)
    BY <1>1, <2>1, <2>2, PlacedOnward DEF InPlace
  <2>5. AllPlaced(toDevice, t_id, pc', request'.block)
    BY <1>1, <2>1, <2>2, PlacedOnward DEF InPlace
  <2> QED
    BY <1>1, <2>3, <2>4, <2>5 DEF InPlace
<1> QED
  BY <1>6, <1>11, <1>12, <1>13, <1>14 DEF Inv, a

(* Nothing under way is touched, or a part of it gets lost. *)
LEMMA OutsideSteps ==
    ASSUME Inv, \/ DeviceChange \/ DeviceDown \/ DeviceUp \/ DeviceCloses \/ Reset \/ OtherErrno
                \/ UNCHANGED vars
    PROVE  Inv'
<1>1. /\ TypeOK /\ Connection /\ Requested /\ InOrder /\ InPlace
      /\ UNCHANGED <<pc, request, t_id, result>>
  BY DEF Inv, DeviceChange, DeviceDown, DeviceUp, DeviceCloses, Reset, OtherErrno, vars, callVars
<1>2. /\ toDevice' \in {toDevice, <<>>}
      /\ \/ inflight' = inflight /\ stream' = stream
         \/ inflight' = <<>> /\ stream' = <<>>
      /\ conn' \in {"open", "fin", "reset", "none"} /\ errno' \in Errno
      /\ device' \in [Block -> Value]
  BY <1>1, TcpAssumption
     DEF TypeOK, DeviceChange, DeviceDown, DeviceUp, DeviceCloses, Reset, OtherErrno, vars,
         netVars, callVars
<1>3. reachable' \in BOOLEAN /\ peer' \in BOOLEAN
  <2>1. \/ reachable' = reachable \/ reachable' = TRUE \/ reachable' = FALSE
    BY DEF DeviceChange, DeviceDown, DeviceUp, DeviceCloses, Reset, OtherErrno, vars, netVars
  <2>2. peer' = peer \/ peer' = FALSE
    BY DEF DeviceChange, DeviceDown, DeviceUp, DeviceCloses, Reset, OtherErrno, vars, netVars
  <2> QED
    BY <1>1, <2>1, <2>2 DEF TypeOK
<1>4. TypeOK'
  <2>1. toDevice' \in Seq(RequestType) /\ inflight' \in Seq(AnswerType) /\ stream' \in Seq(AnswerType)
    <3>1. <<>> \in Seq(RequestType) /\ <<>> \in Seq(AnswerType)
      OBVIOUS
    <3> QED
      BY <1>1, <1>2, <3>1 DEF TypeOK
  <2> QED
    BY <1>1, <1>2, <1>3, <2>1 DEF TypeOK
<1>5. Connection'
  BY <1>1 DEF Connection, DeviceChange, DeviceDown, DeviceUp, DeviceCloses, Reset, OtherErrno,
              vars, netVars, callVars
<1>6. Requested'
  BY <1>1 DEF Requested
<1>7. InOrder' /\ InPlace'
  BY <1>1, <1>2, NothingLeft DEF InOrder, InPlace
<1> QED
  BY <1>4, <1>5, <1>6, <1>7 DEF Inv

(* An answer is as old as its request and takes its place behind the other *)
(* answers.                                                                *)
LEMMA ReplyStep ==
    ASSUME Inv, NEW v \in Value \cup {Exception}, Reply(v)
    PROVE  Inv'
<1> DEFINE m == Head(toDevice)
           a == [tid |-> m.tid, block |-> m.block, age |-> m.age, value |-> v]
<1>1. /\ TypeOK /\ Connection /\ Requested /\ InOrder /\ InPlace
      /\ peer /\ toDevice # <<>>
      /\ inflight' = Append(inflight, a) /\ toDevice' = Tail(toDevice)
      /\ UNCHANGED <<device, reachable, peer, conn, stream, pc, request, t_id, errno, result>>
  BY DEF Inv, Reply, callVars
<1>2. stream \in Seq(AnswerType) /\ inflight \in Seq(AnswerType) /\ toDevice \in Seq(RequestType)
  BY <1>1 DEF TypeOK
<1>3. m \in RequestType /\ Tail(toDevice) \in Seq(RequestType)
  BY <1>1, <1>2, Dropped
<1>4. a \in AnswerType /\ a.tid = m.tid /\ a.age = m.age /\ a.block = m.block
  BY <1>3 DEF RequestType, AnswerType
<1>5. Placed(m, t_id, pc, request.block) /\ AllPlaced(Tail(toDevice), t_id, pc, request.block)
  BY <1>1, <1>2, PlacedDropped DEF InPlace
<1>6. Placed(a, t_id, pc, request.block)
  BY <1>4, <1>5 DEF Placed
<1>7. /\ \A i \in 1..Len(Tail(toDevice)) : a.age > Tail(toDevice)[i].age
      /\ \A i \in 1..Len(inflight) : inflight[i].age > a.age
      /\ \A i \in 1..Len(stream) : stream[i].age > a.age
      /\ Decreasing(Tail(toDevice)) /\ Above(inflight, Tail(toDevice)) /\ Above(stream, Tail(toDevice))
  BY <1>1, <1>2, <1>4, DroppedInOrder, DroppedAbove DEF InOrder
<1> HIDE DEF a, m
<1>8. inflight' \in Seq(AnswerType)
  BY <1>1, <1>2, <1>4, Appended
<1>9. TypeOK'
  <2>1. reachable' \in BOOLEAN /\ peer' \in BOOLEAN
    BY <1>1 DEF TypeOK
  <2> QED
    BY <1>1, <1>2, <1>3, <1>8, <2>1 DEF TypeOK
<1>10. Connection' /\ Requested'
  BY <1>1 DEF Connection, Requested
<1>11. InOrder'
  <2>1. Decreasing(inflight')
    BY <1>1, <1>2, <1>4, <1>7, AppendedInOrder DEF InOrder
  <2>2. Above(stream, inflight')
    BY <1>1, <1>2, <1>4, <1>7, AppendedAbove DEF InOrder
  <2>3. Above(inflight', toDevice')
    BY <1>1, <1>2, <1>3, <1>4, <1>7, AppendedAbove
  <2> QED
    BY <1>1, <1>7, <2>1, <2>2, <2>3 DEF InOrder
<1>12. InPlace'
  BY <1>1, <1>2, <1>4, <1>5, <1>6, PlacedAppended DEF InPlace
<1> QED
  BY <1>9, <1>10, <1>11, <1>12 DEF Inv

LEMMA DeliverStep ==
    ASSUME Inv, Deliver
    PROVE  Inv'
<1> DEFINE a == Head(inflight)
<1>1. /\ TypeOK /\ Connection /\ Requested /\ InOrder /\ InPlace
      /\ conn \in {"open", "fin"} /\ inflight # <<>>
      /\ stream' = Append(stream, a) /\ inflight' = Tail(inflight)
      /\ UNCHANGED <<device, reachable, peer, conn, toDevice, pc, request, t_id, errno, result>>
  BY DEF Inv, Deliver, callVars
<1>2. stream \in Seq(AnswerType) /\ inflight \in Seq(AnswerType) /\ toDevice \in Seq(RequestType)
  BY <1>1 DEF TypeOK
<1>3. a \in AnswerType /\ Tail(inflight) \in Seq(AnswerType)
  BY <1>1, <1>2, Dropped
<1>4. Placed(a, t_id, pc, request.block) /\ AllPlaced(Tail(inflight), t_id, pc, request.block)
  BY <1>1, <1>2, PlacedDropped DEF InPlace
<1>5. /\ \A i \in 1..Len(Tail(inflight)) : a.age > Tail(inflight)[i].age
      /\ \A i \in 1..Len(toDevice) : a.age > toDevice[i].age
      /\ \A i \in 1..Len(stream) : stream[i].age > a.age
      /\ Decreasing(Tail(inflight)) /\ Above(stream, Tail(inflight)) /\ Above(Tail(inflight), toDevice)
  BY <1>1, <1>2, DroppedInOrder, DroppedAbove DEF InOrder
<1> HIDE DEF a
<1>6. stream' \in Seq(AnswerType)
  BY <1>1, <1>2, <1>3, Appended
<1>7. TypeOK'
  <2>1. reachable' \in BOOLEAN /\ peer' \in BOOLEAN
    BY <1>1 DEF TypeOK
  <2> QED
    BY <1>1, <1>2, <1>3, <1>6, <2>1 DEF TypeOK
<1>8. Connection' /\ Requested'
  BY <1>1 DEF Connection, Requested
<1>9. InOrder'
  <2>1. Decreasing(stream')
    BY <1>1, <1>2, <1>3, <1>5, AppendedInOrder DEF InOrder
  <2>2. Above(stream', inflight')
    BY <1>1, <1>2, <1>3, <1>5, AppendedAbove
  <2>3. Above(stream', toDevice')
    BY <1>1, <1>2, <1>3, <1>5, AppendedAbove DEF InOrder
  <2> QED
    BY <1>1, <1>5, <2>1, <2>2, <2>3 DEF InOrder
<1>10. InPlace'
  BY <1>1, <1>2, <1>3, <1>4, PlacedAppended DEF InPlace
<1> QED
  BY <1>7, <1>8, <1>9, <1>10 DEF Inv

LEMMA Inductive == Inv /\ [Next]_vars => Inv'
<1> SUFFICES ASSUME Inv, [Next]_vars PROVE Inv'
  OBVIOUS
<1>1. CASE DeviceAnswers \/ DeviceRefuses
  <2>1. PICK v : v \in Value \cup {Exception} /\ Reply(v)
    <3>1. CASE DeviceRefuses
      BY <3>1 DEF DeviceRefuses
    <3>2. CASE DeviceAnswers
      <4>1. TypeOK /\ toDevice # <<>>
        BY <3>2 DEF Inv, DeviceAnswers
      <4>2. Head(toDevice) \in RequestType
        BY <4>1, Dropped DEF TypeOK
      <4>3. device[Head(toDevice).block] \in Value
        BY <4>1, <4>2, Typed DEF TypeOK
      <4> QED
        BY <3>2, <4>3 DEF DeviceAnswers
    <3> QED
      BY <1>1, <3>1, <3>2
  <2> QED
    BY <2>1, ReplyStep
<1>2. CASE \E b \in Block : Call(b)
  BY <1>2, CallStep
<1> QED
  BY <1>1, <1>2, ConnectSteps, SendStep, WaitingSteps, FlushSteps, TakeAnswerStep, OutsideSteps,
     DeliverStep DEF Next, MasterStep

LEMMA Invariant == Spec => []Inv
  BY InvInit, Inductive, PTL DEF Spec

(* Types, for all blocks, values and lengths of the delay.                 *)
THEOREM TypeCorrect == Spec => []TypeOK
<1>1. Inv => TypeOK
  BY DEF Inv
<1> QED
  BY <1>1, Invariant, PTL

(* The transaction id tells the calls apart as long as fewer calls than it *)
(* has values are made before an answer arrives (modbus-tcp.c:101-111).    *)
THEOREM IdsTellCallsApart == Spec => []TidsDistinct
<1>1. Inv => TidsDistinct
  <2> SUFFICES ASSUME Inv PROVE TidsDistinct
    OBVIOUS
  <2>1. ASSUME NEW m \in Messages
        PROVE  /\ m.tid \in 0..(U16 - 1) /\ m.age \in 0..Window
               /\ m.tid + m.age = t_id \/ m.tid + m.age = t_id + U16
    <3>1. /\ DOMAIN stream = 1..Len(stream) /\ DOMAIN inflight = 1..Len(inflight)
          /\ DOMAIN toDevice = 1..Len(toDevice)
      BY DEF Inv, TypeOK
    <3>2. m \in RequestType \cup AnswerType
      BY <3>1, Typed DEF Inv, Messages
    <3>3. Placed(m, t_id, pc, request.block)
      BY <3>1 DEF Inv, InPlace, AllPlaced, Messages
    <3> QED
      BY <3>2, <3>3, Typed DEF Inv, Placed
  <2>2. t_id \in 0..(U16 - 1) /\ request.tid = t_id
    BY DEF Inv, TypeOK, Requested
  <2>3. ASSUME NEW m \in Messages, NEW n \in Messages, m.tid = n.tid
        PROVE  m.age = n.age
    BY <2>1, <2>2, <2>3, TcpAssumption
  <2>4. ASSUME NEW m \in Messages, m.tid = request.tid
        PROVE  m.age = 0
    BY <2>1, <2>2, <2>4, SameId
  <2> QED
    BY <2>3, <2>4 DEF TidsDistinct
<1> QED
  BY <1>1, Invariant, PTL
-----------------------------------------------------------------------------
(* The refinement of Transaction. *)

Elements(s) == { s[i] : i \in DOMAIN s }

IsCurrent(a) == a.age = 0 /\ a.value # Exception

LEMMA CurrentOf ==
    /\ CurrentAnswers = { a \in Elements(inflight) \cup Elements(stream) : IsCurrent(a) }
    /\ CurrentAnswers' = { a \in Elements(inflight') \cup Elements(stream') : IsCurrent(a) }
  BY DEF CurrentAnswers, Elements, IsCurrent

LEMMA ElementsOf ==
    ASSUME NEW S, NEW s \in Seq(S)
    PROVE  /\ \A i \in 1..Len(s) : s[i] \in Elements(s)
           /\ \A x \in Elements(s) : x \in S /\ \E i \in 1..Len(s) : x = s[i]
           /\ s # <<>> => Elements(s) = {Head(s)} \cup Elements(Tail(s))
           /\ \A m \in S : Elements(Append(s, m)) = Elements(s) \cup {m}
<1>1. DOMAIN s = 1..Len(s) /\ Len(s) \in Nat
  OBVIOUS
<1>2. ASSUME s # <<>> PROVE Elements(s) = {Head(s)} \cup Elements(Tail(s))
  <2>1. /\ DOMAIN Tail(s) = 1..Len(Tail(s)) /\ Len(Tail(s)) = Len(s) - 1 /\ Head(s) = s[1]
        /\ \A i \in 1..Len(Tail(s)) : Tail(s)[i] = s[i + 1]
    BY <1>2, Dropped
  <2>2. ASSUME NEW i \in 1..Len(s) PROVE s[i] \in {Head(s)} \cup Elements(Tail(s))
    <3>1. CASE i = 1
      BY <2>1, <3>1
    <3>2. CASE i # 1
      <4>1. i - 1 \in 1..Len(Tail(s)) /\ Tail(s)[i - 1] = s[i]
        BY <1>1, <2>1, <3>2
      <4> QED
        BY <2>1, <4>1 DEF Elements
    <3> QED
      BY <3>1, <3>2
  <2>3. 1 \in 1..Len(s) /\ \A i \in 1..Len(Tail(s)) : i + 1 \in 1..Len(s)
    BY <1>1, <1>2, <2>1
  <2> QED
    BY <1>1, <2>1, <2>2, <2>3 DEF Elements
<1>3. ASSUME NEW m \in S PROVE Elements(Append(s, m)) = Elements(s) \cup {m}
  <2>1. /\ DOMAIN Append(s, m) = 1..(Len(s) + 1)
        /\ \A i \in 1..Len(s) : Append(s, m)[i] = s[i]
        /\ Append(s, m)[Len(s) + 1] = m
    BY Appended
  <2>2. \A i \in 1..(Len(s) + 1) : i \in 1..Len(s) \/ i = Len(s) + 1
    BY <1>1
  <2>3. Len(s) + 1 \in 1..(Len(s) + 1) /\ \A i \in 1..Len(s) : i \in 1..(Len(s) + 1)
    BY <1>1
  <2> QED
    BY <1>1, <2>1, <2>2, <2>3 DEF Elements
<1>4. \A i \in 1..Len(s) : s[i] \in Elements(s) /\ s[i] \in S
  BY <1>1 DEF Elements
<1>5. \A x \in Elements(s) : \E i \in 1..Len(s) : x = s[i]
  BY <1>1 DEF Elements
<1>6. \A x \in Elements(s) : x \in S
  BY <1>4, <1>5
<1> HIDE DEF Elements
<1> QED
  BY <1>2, <1>3, <1>4, <1>5, <1>6

LEMMA YoungerElements ==
    ASSUME NEW S, NEW s \in Seq(S), NEW age, \A i \in 1..Len(s) : age > s[i].age
    PROVE  \A x \in Elements(s) : age > x.age
  BY ElementsOf

LEMMA NotSampled ==
    /\ pc \in {"idle", "start"} \/ CurrentAnswers = {} => Sampled = NoSample
    /\ pc' \in {"idle", "start"} \/ CurrentAnswers' = {} => Sampled' = NoSample
  BY DEF Sampled

(* The steps that give, take or lose no answer of the call under way.      *)
LEMMA SampledStays ==
    ASSUME CurrentAnswers' = CurrentAnswers,
           pc' \in {"idle", "start"} <=> pc \in {"idle", "start"}
    PROVE  Sampled' = Sampled
  BY DEF Sampled

LEMMA SameAnswers ==
    ASSUME UNCHANGED <<inflight, stream>>
    PROVE  CurrentAnswers' = CurrentAnswers
  BY CurrentOf

LEMMA NoAnswers ==
    ASSUME inflight' = <<>> /\ stream' = <<>>
    PROVE  CurrentAnswers' = {}
  BY CurrentOf DEF Elements

(* Before its request is sent, a call has no answer. *)
LEMMA NothingCurrent ==
    ASSUME Inv, Sending(pc)
    PROVE  CurrentAnswers = {}
<1>1. \A x \in Elements(inflight) \cup Elements(stream) : x.age # 0
  BY ElementsOf DEF Inv, TypeOK, InPlace, AllPlaced, Placed
<1> QED
  BY <1>1, CurrentOf DEF IsCurrent

(* The only answer of the call under way is the sample. *)
LEMMA TheSample ==
    ASSUME NEW a, CurrentAnswers = {a}, pc \notin {"idle", "start"}
    PROVE  Sampled = a.value
  BY DEF Sampled

LEMMA TheNextSample ==
    ASSUME NEW a, CurrentAnswers' = {a}, pc' \notin {"idle", "start"}
    PROVE  Sampled' = a.value
  BY DEF Sampled

(* The call returns: with a value it is the sample, and that is gone.      *)
LEMMA FailsAbstractly ==
    ASSUME Inv, Return(Failed), pc \notin {"idle", "start"}, device' = device
    PROVE  Abstract!Fail
<1>1. request.block # NoBlock
  BY DEF Inv, Requested
<1>2. result' = Failed /\ request'.block = NoBlock /\ pc' = "idle"
  BY DEF Return, Inv, TypeOK
<1>3. Sampled' = NoSample
  BY <1>2, NotSampled
<1> QED
  BY <1>1, <1>2, <1>3
     DEF Abstract!Fail, NoBlock, NoSample, Failed, Abstract!NoBlock, Abstract!NoSample, Abstract!Failed

LEMMA CallAbstractly ==
    ASSUME Inv, NEW b \in Block, Call(b)
    PROVE  Abstract!Call
<1>1. /\ request.block = NoBlock /\ request'.block = b /\ result' = NoResult /\ device' = device
      /\ pc = "idle"
  BY DEF Inv, Requested, Call
<1>2. CurrentAnswers' = {}
  <2>1. Inv' /\ pc' = "send"
    BY CallStep DEF Call
  <2>2. \A x \in Elements(inflight') \cup Elements(stream') : x.age # 0
    <3>1. /\ inflight' \in Seq(AnswerType) /\ stream' \in Seq(AnswerType)
          /\ \A i \in 1..Len(inflight') : inflight'[i].age > 0
          /\ \A i \in 1..Len(stream') : stream'[i].age > 0
      BY <2>1 DEF Inv, TypeOK, InPlace, AllPlaced, Placed, Sending
    <3> QED
      BY <3>1, ElementsOf
  <2> QED
    BY <2>2, CurrentOf DEF IsCurrent
<1>3. Sampled = NoSample /\ Sampled' = NoSample
  BY <1>1, <1>2, NotSampled
<1> QED
  BY <1>1, <1>3 DEF Abstract!Call, NoBlock, NoResult, Abstract!NoBlock, Abstract!NoResult

(* An answer with the id of the call is its sample, and its only one. *)
LEMMA TakenAbstractly ==
    ASSUME Inv, TakeAnswer
    PROVE  Abstract!Return \/ Abstract!Fail \/ UNCHANGED Abstract!vars
<1> DEFINE a == Head(stream)
<1>1. /\ TypeOK /\ Requested /\ InOrder /\ InPlace
      /\ pc = "receive" /\ stream # <<>> /\ stream' = Tail(stream)
      /\ inflight' = inflight /\ device' = device
  BY DEF Inv, TakeAnswer
<1>2. stream \in Seq(AnswerType) /\ inflight \in Seq(AnswerType) /\ Tail(stream) \in Seq(AnswerType)
  BY <1>1, Dropped DEF TypeOK
<1>3. PreCheck(a) <=> a.age = 0
  BY TakeAnswerStep
<1>4. Elements(stream) = {a} \cup Elements(Tail(stream))
  BY <1>1, <1>2, ElementsOf
<1>5. a \in AnswerType
  BY <1>1, <1>2, Dropped
<1>6. CASE ~PreCheck(a)
  <2>1. CurrentAnswers' = CurrentAnswers
    BY <1>1, <1>3, <1>4, <1>6, CurrentOf DEF IsCurrent
  <2>2. pc' = "recover" /\ UNCHANGED <<request, result>>
    BY <1>6 DEF TakeAnswer
  <2>3. Sampled' = Sampled
    BY <1>1, <2>1, <2>2, SampledStays
  <2> QED
    BY <1>1, <2>2, <2>3 DEF Abstract!vars
<1>7. CASE PreCheck(a) /\ a.value = Exception
  <2>1. Return(Failed)
    BY <1>7 DEF TakeAnswer
  <2> QED
    BY <1>1, <2>1, FailsAbstractly
<1>8. CASE PreCheck(a) /\ a.value # Exception
  <2>1. a.block = request.block
    <3>1. Placed(a, t_id, pc, request.block)
      BY <1>1, <1>2, PlacedDropped DEF InPlace
    <3> QED
      BY <1>1, <1>3, <1>8, <3>1 DEF Placed
  <2>2. Return(a.value)
    BY <1>8, <2>1 DEF TakeAnswer
  <2>3. \A x \in Elements(inflight) \cup Elements(Tail(stream)) : x.age # 0
    <3>1. /\ \A i \in 1..Len(Tail(stream)) : a.age > Tail(stream)[i].age
          /\ \A i \in 1..Len(inflight) : a.age > inflight[i].age
      BY <1>1, <1>2, DroppedInOrder, DroppedAbove DEF InOrder
    <3>2. a.age = 0
      BY <1>3, <1>8
    <3>3. \A x \in Elements(inflight) \cup Elements(Tail(stream)) : a.age > x.age
      BY <1>2, <3>1, YoungerElements
    <3> QED
      BY <3>2, <3>3
  <2>4. CurrentAnswers = {a}
    BY <1>3, <1>4, <1>8, <2>3, CurrentOf DEF IsCurrent
  <2>5. Sampled = a.value /\ a.value # NoSample
    <3>1. a.value \in Value
      BY <1>5, <1>8 DEF AnswerType
    <3> QED
      BY <1>1, <2>4, <3>1, TheSample, TcpAssumption
  <2>6. request.block # NoBlock
    BY <1>1 DEF Requested
  <2>7. result' = a.value /\ request'.block = NoBlock /\ pc' = "idle"
    BY <1>1, <2>2 DEF Return, TypeOK
  <2>8. Sampled' = NoSample
    BY <2>7, NotSampled
  <2> QED
    BY <1>1, <2>5, <2>6, <2>7, <2>8
       DEF Abstract!Return, NoBlock, NoSample, Abstract!NoBlock, Abstract!NoSample
<1> QED
  BY <1>6, <1>7, <1>8

(* The device looks at the block when it answers: that is the sample. *)
LEMMA ReplyAbstractly ==
    ASSUME Inv, DeviceAnswers \/ DeviceRefuses
    PROVE  Abstract!Sample \/ UNCHANGED Abstract!vars
<1> DEFINE m == Head(toDevice)
           a(v) == [tid |-> m.tid, block |-> m.block, age |-> m.age, value |-> v]
<1>1. PICK v : Reply(v) /\ (v = Exception \/ v = device[m.block])
  BY DEF DeviceAnswers, DeviceRefuses
<1>2. /\ TypeOK /\ Connection /\ Requested /\ InOrder /\ InPlace
      /\ peer /\ toDevice # <<>>
      /\ inflight' = Append(inflight, a(v))
      /\ UNCHANGED <<device, stream, pc, request, result>>
  BY <1>1 DEF Inv, Reply, callVars
<1>3. inflight \in Seq(AnswerType) /\ stream \in Seq(AnswerType) /\ toDevice \in Seq(RequestType)
  BY <1>2 DEF TypeOK
<1>4. m \in RequestType /\ m.block \in Block
  BY <1>2, <1>3, Dropped, Typed
<1>5. a(v) \in AnswerType
  <2>1. v \in Value \cup {Exception}
    BY <1>1, <1>2, <1>4 DEF TypeOK
  <2> QED
    BY <1>4, <2>1 DEF RequestType, AnswerType
<1>6. Elements(inflight') = Elements(inflight) \cup {a(v)}
  BY <1>2, <1>3, <1>5, ElementsOf
<1>7. CASE v = Exception \/ m.age # 0
  <2>1. ~IsCurrent(a(v))
    BY <1>7 DEF IsCurrent
  <2>2. CurrentAnswers' = CurrentAnswers
    BY <1>2, <1>6, <2>1, CurrentOf
  <2> QED
    BY <1>2, <2>2, SampledStays DEF Abstract!vars
<1>8. CASE pc = "idle"
  <2>1. Sampled = NoSample /\ Sampled' = NoSample
    BY <1>2, <1>8, NotSampled
  <2> QED
    BY <1>2, <2>1 DEF Abstract!vars
<1>9. CASE v = device[m.block] /\ v # Exception /\ m.age = 0 /\ pc # "idle"
  <2>1. m.block = request.block
    <3>1. Placed(m, t_id, pc, request.block)
      BY <1>2, <1>3, PlacedDropped DEF InPlace
    <3> QED
      BY <1>9, <3>1 DEF Placed
  <2>2. pc # "start"
    BY <1>2 DEF Connection
  <2>3. \A x \in Elements(inflight) \cup Elements(stream) : x.age # 0
    <3>1. /\ \A i \in 1..Len(inflight) : inflight[i].age > m.age
          /\ \A i \in 1..Len(stream) : stream[i].age > m.age
      BY <1>2, <1>3, DroppedAbove DEF InOrder
    <3>2. \A x \in Elements(inflight) \cup Elements(stream) : x.age > 0
      BY <1>3, <1>9, <3>1, ElementsOf
    <3> QED
      BY <3>2
  <2>4. IsCurrent(a(v))
    BY <1>9 DEF IsCurrent
  <2>5. CurrentAnswers' = {a(v)}
    BY <1>2, <1>6, <2>3, <2>4, CurrentOf DEF IsCurrent
  <2>6. Sampled' = device[request.block]
    <3>1. Sampled' = a(v).value
      BY <1>2, <1>9, <2>2, <2>5, TheNextSample
    <3> QED
      BY <1>9, <2>1, <3>1
  <2>7. request.block # NoBlock
    BY <1>2, <1>9, <2>2 DEF Requested, TypeOK
  <2> QED
    BY <1>2, <2>6, <2>7 DEF Abstract!Sample, NoBlock, Abstract!NoBlock
<1> QED
  BY <1>1, <1>7, <1>8, <1>9

LEMMA DeliveredAbstractly ==
    ASSUME Inv, Deliver
    PROVE  UNCHANGED Abstract!vars
<1>1. /\ stream \in Seq(AnswerType) /\ inflight \in Seq(AnswerType) /\ inflight # <<>>
      /\ stream' = Append(stream, Head(inflight)) /\ inflight' = Tail(inflight)
      /\ UNCHANGED <<device, pc, request, result>>
  BY DEF Inv, TypeOK, Deliver, callVars
<1>2. /\ Elements(inflight) = {Head(inflight)} \cup Elements(inflight')
      /\ Elements(stream') = Elements(stream) \cup {Head(inflight)}
  BY <1>1, Dropped, ElementsOf
<1>3. CurrentAnswers' = CurrentAnswers
  BY <1>2, CurrentOf
<1> QED
  BY <1>1, <1>3, SampledStays DEF Abstract!vars

LEMMA StepsAbstractly == Inv /\ [Next]_vars => [Abstract!Next]_Abstract!vars
<1> SUFFICES ASSUME Inv, [Next]_vars PROVE Abstract!Next \/ UNCHANGED Abstract!vars
  OBVIOUS
<1> USE DEF Abstract!Next
<1>1. CASE Start
  <2>1. UNCHANGED <<device, request, result>> /\ pc = "start" /\ pc' \in {"start", "idle"}
    BY <1>1 DEF Start
  <2> QED
    BY <2>1, NotSampled DEF Abstract!vars
<1>2. CASE \E b \in Block : Call(b)
  BY <1>2, CallAbstractly
<1>3. CASE Send \/ SendFails \/ Timeout
  <2>1. /\ UNCHANGED <<device, request, result, inflight, stream>>
        /\ pc \notin {"idle", "start"} /\ pc' \notin {"idle", "start"}
    BY <1>3 DEF Send, SendFails, Timeout, netVars
  <2> QED
    BY <2>1, SameAnswers, SampledStays DEF Abstract!vars
<1>4. CASE Retry
  <2>1. /\ UNCHANGED <<device, request, result, inflight>> /\ stream' = <<>> /\ Sending(pc)
    BY <1>4 DEF Retry, Sending
  <2>2. CurrentAnswers = {}
    BY <2>1, NothingCurrent
  <2>3. CurrentAnswers' = {}
    BY <2>1, <2>2, CurrentOf DEF Elements
  <2> QED
    BY <2>1, <2>2, <2>3, NotSampled DEF Abstract!vars
<1>5. CASE Reconnect \/ Reset
  <2>1. UNCHANGED <<device, request, result>> /\ inflight' = <<>> /\ stream' = <<>>
    BY <1>5 DEF Reconnect, Connect, Reset, callVars
  <2>2. Sampled' = NoSample
    BY <2>1, NoAnswers, NotSampled
  <2> QED
    BY <2>1, <2>2 DEF Abstract!Lose, NoSample, Abstract!NoSample
<1>6. CASE SelectFails \/ RecvFails
  <2>1. /\ UNCHANGED <<device, inflight, stream>> /\ pc = "receive"
        /\ \/ pc' \in {"recover", "reopen"} /\ UNCHANGED <<request, result>>
           \/ Return(Failed)
    BY <1>6 DEF SelectFails, RecvFails, netVars
  <2>2. CASE Return(Failed)
    BY <2>1, <2>2, FailsAbstractly
  <2>3. CASE pc' \in {"recover", "reopen"} /\ UNCHANGED <<request, result>>
    BY <2>1, <2>3, SameAnswers, SampledStays DEF Abstract!vars
  <2> QED
    BY <2>1, <2>2, <2>3
<1>7. CASE TakeAnswer
  BY <1>7, TakenAbstractly
<1>8. CASE Recover \/ Reopen
  <2>1. device' = device /\ Return(Failed) /\ pc \notin {"idle", "start"}
    BY <1>8 DEF Recover, Reopen
  <2> QED
    BY <2>1, FailsAbstractly
<1>9. CASE DeviceAnswers \/ DeviceRefuses
  BY <1>9, ReplyAbstractly
<1>10. CASE Deliver
  BY <1>10, DeliveredAbstractly
<1>11. CASE DeviceChange
  <2>1. UNCHANGED <<inflight, stream, pc, request, result>>
    BY <1>11 DEF DeviceChange, netVars, callVars
  <2>2. Sampled' = Sampled
    BY <2>1, SameAnswers, SampledStays
  <2> QED
    BY <1>11, <2>1, <2>2 DEF DeviceChange, Abstract!DeviceChange
<1>12. CASE DeviceDown \/ DeviceUp \/ DeviceCloses \/ OtherErrno \/ UNCHANGED vars
  <2>1. UNCHANGED <<device, inflight, stream, pc, request, result>>
    BY <1>12 DEF DeviceDown, DeviceUp, DeviceCloses, OtherErrno, vars, netVars, callVars
  <2> QED
    BY <2>1, SameAnswers, SampledStays DEF Abstract!vars
<1> QED
  BY <1>1, <1>2, <1>3, <1>4, <1>5, <1>6, <1>7, <1>8, <1>9, <1>10, <1>11, <1>12 DEF Next, MasterStep

(* A read that succeeds gives what its block held during the call, for all *)
(* faults, delays and errors of other tasks (modbus.c, modbus-tcp.c).      *)
THEOREM ReadsAreCurrent == Spec => ImplementsTransaction
<1>1. Init => Abstract!Init
  <2> SUFFICES ASSUME Init PROVE Abstract!Init
    OBVIOUS
  <2>1. Sampled = NoSample
    BY DEF Init, Sampled
  <2>2. request.block = NoBlock /\ result = NoResult /\ device \in [Block -> Value]
    BY DEF Init
  <2> QED
    BY <2>1, <2>2 DEF Abstract!Init, NoBlock, NoSample, NoResult,
                     Abstract!NoBlock, Abstract!NoSample, Abstract!NoResult
<1> QED
  BY <1>1, StepsAbstractly, Invariant, PTL DEF Spec, ImplementsTransaction, Abstract!Spec
=============================================================================
