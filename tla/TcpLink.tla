------------------------------ MODULE TcpLink ------------------------------
(***************************************************************************)
(* One call of the master task after another over the Modbus TCP backend   *)
(* (modbus.c, modbus-tcp.c) with both kinds of error recovery on, as       *)
(* modbus_master.c sets them: build the request, send_msg and its retries, *)
(* receive_msg, check_confirmation, sleep and flush, close and connect.    *)
(*                                                                         *)
(* The stack reports its errors in the socket, never in errno, so errno is *)
(* whatever an earlier call left there, perhaps one of another task: the C *)
(* library has one errno for all of them.                                  *)
(*                                                                         *)
(* An answer arrives whole.  The ghost field "age" of a message counts the *)
(* calls made since the one it belongs to; the code cannot see it.         *)
(***************************************************************************)
EXTENDS Integers, Sequences

CONSTANTS Block, Value,
          Shape,        (* function and length of the answer to a block     *)
          U16,          (* one more than UINT16_MAX                         *)
          Window,       (* bound: calls an answer may be late               *)
          ForeignErrno  (* what other tasks leave in errno                  *)

Errno      == {"none", "EBADF", "ECONNRESET", "EPIPE", "ETIMEDOUT", "EMBBADDATA", "EMBXILVAL"}
NoBlock    == "no block"
NoSample   == "no sample"
NoResult   == "no result"
Failed     == "failed"
Exception  == "exception"

ASSUME TcpAssumption ==
    /\ U16 \in Nat \ {0} /\ Window \in Nat /\ Window < U16
    /\ ForeignErrno \subseteq Errno
    /\ {NoSample, NoResult, Failed, Exception} \cap Value = {}
    /\ NoBlock \notin Block

VARIABLES device,     (* what each block of the device holds                *)
          reachable,  (* the device's server runs                           *)
          peer,       (* its end of the connection exists                   *)
          conn,       (* our end: ctx->s                                    *)
          toDevice,   (* requests on their way                              *)
          inflight,   (* answers on their way                               *)
          stream,     (* answers that wait in the socket                    *)
          pc,         (* where the master task is                           *)
          request,    (* the request of the call under way                  *)
          t_id,       (* static counter of the TCP backend                  *)
          errno,
          result      (* what the last call returned                        *)

netVars    == <<reachable, peer, conn, toDevice, inflight, stream>>
callVars   == <<pc, request, t_id, errno, result>>
vars       == <<device, netVars, callVars>>

Messages == { toDevice[i] : i \in DOMAIN toDevice } \cup { inflight[i] : i \in DOMAIN inflight }
                \cup { stream[i] : i \in DOMAIN stream }

RequestType == [tid : 0..(U16 - 1), block : Block, age : 0..Window]
AnswerType  == [tid : 0..(U16 - 1), block : Block, age : 0..Window, value : Value \cup {Exception}]

TypeOK ==
    /\ device \in [Block -> Value]
    /\ reachable \in BOOLEAN /\ peer \in BOOLEAN
    /\ conn \in {"open", "fin", "reset", "none"}
    /\ toDevice \in Seq(RequestType) /\ inflight \in Seq(AnswerType) /\ stream \in Seq(AnswerType)
    /\ pc \in {"start", "idle", "send", "retry", "reconnect", "receive", "recover", "reopen"}
    /\ request \in [tid : 0..(U16 - 1), block : Block \cup {NoBlock}]
    /\ t_id \in 0..(U16 - 1)
    /\ errno \in Errno
    /\ result \in Value \cup {NoResult, Failed}
-----------------------------------------------------------------------------
Init ==
    /\ device \in [Block -> Value]
    /\ reachable \in BOOLEAN /\ peer = FALSE /\ conn = "none"
    /\ toDevice = <<>> /\ inflight = <<>> /\ stream = <<>>
    /\ pc = "start" /\ request = [tid |-> 0, block |-> NoBlock]
    /\ t_id = 0 /\ errno = "none" /\ result = NoResult

(* modbus_connect, after modbus_close or at the start; it may time out.  A *)
(* new socket has nothing to read.                                         *)
Connect ==
    /\ \/ reachable /\ conn' = "open" /\ peer' = TRUE
       \/ conn' = "none" /\ peer' = FALSE
    /\ toDevice' = <<>> /\ inflight' = <<>> /\ stream' = <<>>
    /\ UNCHANGED reachable

(* The master task tries every five seconds until it is connected. *)
Start ==
    /\ pc = "start"
    /\ Connect
    /\ pc' = IF conn' = "open" THEN "idle" ELSE "start"
    /\ UNCHANGED <<device, request, t_id, errno, result>>

(* Mutant: the transaction id is never advanced. *)
SameTid == t_id

(* Mutant: the counter passes UINT16_MAX. *)
UnboundedTid == t_id + 1

NextTid == (t_id + 1) % U16

Older(messages) == [i \in DOMAIN messages |-> [messages[i] EXCEPT !.age = @ + 1]]

(* A read function builds its request. *)
Call(b) ==
    /\ pc = "idle"
    /\ t_id' = NextTid
    /\ request' = [tid |-> t_id', block |-> b]
    /\ toDevice' = Older(toDevice) /\ inflight' = Older(inflight) /\ stream' = Older(stream)
    /\ result' = NoResult
    /\ pc' = "send"
    /\ UNCHANGED <<device, reachable, peer, conn, errno>>

(* send_msg: a request on a connection the device has left gets lost. *)
Send ==
    /\ pc = "send"
    /\ conn \in {"open", "fin"}
    /\ toDevice' = IF conn = "open" /\ peer
                   THEN Append(toDevice, [tid |-> request.tid, block |-> request.block, age |-> 0])
                   ELSE toDevice
    /\ pc' = "receive"
    /\ UNCHANGED <<device, reachable, peer, conn, inflight, stream, request, t_id, errno, result>>

(* send fails and sets no errno. *)
SendFails ==
    /\ pc = "send"
    /\ conn \in {"reset", "none"}
    /\ pc' = IF errno \in {"EBADF", "ECONNRESET", "EPIPE"} THEN "reconnect" ELSE "retry"
    /\ UNCHANGED <<device, netVars, request, t_id, errno, result>>

(* The two recoveries of send_msg; errno is put back and the loop goes on. *)
Retry ==
    /\ pc = "retry"
    /\ stream' = <<>>
    /\ pc' = "send"
    /\ UNCHANGED <<device, reachable, peer, conn, toDevice, inflight, request, t_id, errno, result>>

Reconnect ==
    /\ pc = "reconnect"
    /\ Connect
    /\ pc' = "send"
    /\ UNCHANGED <<device, request, t_id, errno, result>>

Return(r) == result' = r /\ pc' = "idle" /\ request' = [request EXCEPT !.block = NoBlock]

(* Mutant: select waits for ever, as it does for an indication. *)
TimeoutNever == pc = "receive" /\ FALSE /\ UNCHANGED vars

(* receive_msg: select runs out of time on a connection that looks alive. *)
Timeout ==
    /\ pc = "receive"
    /\ stream = <<>>
    /\ conn = "open" \/ (conn = "fin" /\ inflight # <<>>)
    /\ \A m \in Messages : m.age < Window
    /\ errno' = "ETIMEDOUT"
    /\ pc' = "recover"
    /\ UNCHANGED <<device, netVars, request, t_id, result>>

(* receive_msg: select fails on a dead socket; an old ETIMEDOUT is taken   *)
(* for a timeout.                                                          *)
SelectFails ==
    /\ pc = "receive"
    /\ conn \in {"reset", "none"}
    /\ CASE errno = "ETIMEDOUT" -> pc' = "recover" /\ UNCHANGED <<request, result>>
         [] errno = "EBADF"     -> pc' = "reopen" /\ UNCHANGED <<request, result>>
         [] OTHER               -> Return(Failed)
    /\ UNCHANGED <<device, netVars, t_id, errno>>

(* receive_msg: recv fails, as the device has closed the connection and    *)
(* everything it sent was read.                                            *)
RecvFails ==
    /\ pc = "receive"
    /\ conn = "fin" /\ stream = <<>> /\ inflight = <<>>
    /\ IF errno \in {"ECONNRESET", "EBADF"}
       THEN pc' = "reopen" /\ UNCHANGED <<request, result>>
       ELSE Return(Failed)
    /\ UNCHANGED <<device, netVars, t_id, errno>>

(* Mutant: the transaction id of an answer is not compared. *)
PreCheckNothing(a) == TRUE

(* _modbus_tcp_pre_check_confirmation *)
PreCheck(a) == a.tid = request.tid

(* receive_msg takes an answer, check_confirmation looks at it. *)
TakeAnswer ==
    /\ pc = "receive"
    /\ conn \in {"open", "fin"} /\ stream # <<>>
    /\ stream' = Tail(stream)
    /\ LET a == Head(stream) IN
        CASE ~PreCheck(a) ->
                pc' = "recover" /\ errno' = "EMBBADDATA" /\ UNCHANGED <<request, result>>
          [] PreCheck(a) /\ a.value = Exception ->
                Return(Failed) /\ errno' = "EMBXILVAL"
          [] PreCheck(a) /\ a.value # Exception /\ Shape[a.block] # Shape[request.block] ->
                pc' = "recover" /\ errno' = "EMBBADDATA" /\ UNCHANGED <<request, result>>
          [] OTHER -> Return(a.value) /\ UNCHANGED errno
    /\ UNCHANGED <<device, reachable, peer, conn, toDevice, inflight, t_id>>

(* Mutant: the recovery does not flush. *)
RecoverWithoutFlush ==
    /\ pc = "recover"
    /\ Return(Failed)
    /\ UNCHANGED <<device, netVars, t_id, errno>>

(* _sleep_and_flush, then the call returns -1. *)
Recover ==
    /\ pc = "recover"
    /\ stream' = <<>>
    /\ Return(Failed)
    /\ UNCHANGED <<device, reachable, peer, conn, toDevice, inflight, t_id, errno>>

(* modbus_close and modbus_connect, then the call returns -1. *)
Reopen ==
    /\ pc = "reopen"
    /\ Connect
    /\ Return(Failed)
    /\ UNCHANGED <<device, t_id, errno>>

MasterStep ==
    \/ Start \/ (\E b \in Block : Call(b)) \/ Send \/ SendFails \/ Retry \/ Reconnect
    \/ Timeout \/ SelectFails \/ RecvFails \/ TakeAnswer \/ Recover \/ Reopen
-----------------------------------------------------------------------------
(* The device, the network and the other tasks. *)

Reply(v) ==
    /\ peer /\ toDevice # <<>>
    /\ inflight' = Append(inflight, [tid |-> Head(toDevice).tid, block |-> Head(toDevice).block,
                                     age |-> Head(toDevice).age, value |-> v])
    /\ toDevice' = Tail(toDevice)
    /\ UNCHANGED <<device, reachable, peer, conn, stream, callVars>>

DeviceAnswers == toDevice # <<>> /\ Reply(device[Head(toDevice).block])
DeviceRefuses == Reply(Exception)

Deliver ==
    /\ conn \in {"open", "fin"} /\ inflight # <<>>
    /\ stream' = Append(stream, Head(inflight))
    /\ inflight' = Tail(inflight)
    /\ UNCHANGED <<device, reachable, peer, conn, toDevice, callVars>>

DeviceChange ==
    /\ \E b \in Block, v \in Value : device' = [device EXCEPT ![b] = v]
    /\ UNCHANGED <<netVars, callVars>>

(* The device stops without a word and forgets the connection. *)
DeviceDown ==
    /\ reachable
    /\ reachable' = FALSE /\ peer' = FALSE /\ toDevice' = <<>>
    /\ UNCHANGED <<device, conn, inflight, stream, callVars>>

DeviceUp ==
    /\ ~reachable
    /\ reachable' = TRUE
    /\ UNCHANGED <<device, peer, conn, toDevice, inflight, stream, callVars>>

(* The device closes a connection, as servers do with one that is idle. *)
DeviceCloses ==
    /\ peer /\ conn = "open"
    /\ peer' = FALSE /\ conn' = "fin" /\ toDevice' = <<>>
    /\ UNCHANGED <<device, reachable, inflight, stream, callVars>>

(* The stack learns that the other end is gone, or gives up. *)
Reset ==
    /\ conn \in {"open", "fin"} /\ ~peer
    /\ conn' = "reset" /\ inflight' = <<>> /\ stream' = <<>>
    /\ UNCHANGED <<device, reachable, peer, toDevice, callVars>>

(* A call of another task fails and leaves its errno. *)
OtherErrno ==
    /\ errno' \in ForeignErrno
    /\ UNCHANGED <<device, netVars, pc, request, t_id, result>>

Next ==
    \/ MasterStep \/ DeviceAnswers \/ DeviceRefuses \/ Deliver \/ DeviceChange
    \/ DeviceDown \/ DeviceUp \/ DeviceCloses \/ Reset \/ OtherErrno

Spec == Init /\ [][Next]_vars

(* The master task runs on, a living device answers, an answer arrives. *)
FairSpec ==
    /\ Spec
    /\ WF_vars(MasterStep)
    /\ WF_vars(DeviceAnswers \/ DeviceRefuses) /\ WF_vars(Deliver)
-----------------------------------------------------------------------------
(* Two requests or answers that are still under way never have the same    *)
(* transaction id, also when the counter wraps, or a late answer would pass*)
(* for another (modbus-tcp.c:101-111,202-216).                             *)
TidsDistinct ==
    /\ \A m, n \in Messages : m.tid = n.tid => m.age = n.age
    /\ \A m \in Messages : pc \in {"send", "receive"} /\ m.tid = request.tid => m.age = 0

(* The values in the answer to the call under way are the sample.  *)
CurrentAnswers ==
    { a \in { inflight[i] : i \in DOMAIN inflight } \cup { stream[i] : i \in DOMAIN stream } :
        a.age = 0 /\ a.value # Exception }

Sampled ==
    IF pc \notin {"idle", "start"} /\ CurrentAnswers # {}
    THEN (CHOOSE a \in CurrentAnswers : TRUE).value
    ELSE NoSample

Abstract == INSTANCE Transaction WITH call <- request.block, sample <- Sampled

(* Whatever is lost, late or cut off, a read that succeeds gives what its  *)
(* block held during the call, never an older answer or another block's    *)
(* (receive_msg, check_confirmation, the recoveries).                      *)
ImplementsTransaction == Abstract!Spec

(* While the connection holds, every call returns (receive_msg waits with  *)
(* a timeout, send_msg has no reason to repeat).                           *)
CallReturns == [](pc # "idle" => <>(pc = "idle" \/ conn # "open"))

Succeeded == result \notin {NoResult, Failed}

(* Late answers do no lasting harm: once the device answers within the     *)
(* timeout, also within the sleep before a flush, and refuses nothing,     *)
(* reads succeed again and again (modbus.c:383-388,504-512).               *)
Late ==
    \/ Timeout \/ DeviceRefuses
    \/ Recover /\ (toDevice # <<>> \/ inflight # <<>>)

ReadsSucceedAgain ==
    <>[](conn = "open") /\ <>[][~Late]_vars => []<>Succeeded

(* "The write command will be issued until to be successful" (modbus.c:178)*)
(* : when the device can be reached for good, closes no connection and     *)
(* takes every new one, the master task is never stuck in a call.          *)
ConnectFails == pc \in {"reconnect", "reopen"} /\ reachable /\ conn' = "none"

RecoversOnceReachable ==
    <>[]reachable /\ <>[][~DeviceCloses /\ ~ConnectFails]_vars => []<>(pc = "idle")
=============================================================================
