---------------------------- MODULE SlaveServer ----------------------------
(***************************************************************************)
(* The slave task as a Modbus TCP server (modbus_slave.c:159-246,          *)
(* modbus-tcp.c, receive_msg in modbus.c): it accepts one client after     *)
(* another, takes its requests off the stream by the lengths in            *)
(* ModbusFrame, answers them, and leaves it when it closes or when         *)
(* something goes wrong, without closing its own end.                      *)
(*                                                                         *)
(* Of the stack (sock.c, sock_stream.c, tcp.c) there are the socket        *)
(* structures, of which there is a fixed number, and the list of the       *)
(* connections nobody has accepted yet.  A connection is on it from its SYN*)
(* on, when there must be room for it, but is counted when the client's ACK*)
(* has established it: handshakes that overlap take the count past the     *)
(* backlog.  The count goes down only in accept, also when one is reset.   *)
(*                                                                         *)
(* A byte is known by the request it is part of and its place there; what  *)
(* it says is fixed only for a function code and a byte count in place.    *)
(***************************************************************************)
EXTENDS ModbusFrame, Sequences, FiniteSets

CONSTANTS Client,      (* connections; a client that comes back is another  *)
          Request,     (* kinds of requests                                 *)
          Fc, Nb,      (* function code and quantity of each                *)
          OtherLength, (* length of a request with a function not handled   *)
          ByteValue,   (* what a byte may say when it is read out of place  *)
          Sockets,     (* socket structures for the server: 20 at most      *)
          Backlog,     (* connections counted when a SYN is refused: 2      *)
          MaxAdu,      (* max_adu_length: 260                               *)
          MaxRequests, (* bound: requests of a client                       *)
          Resets,      (* bound: clients that vanish with a reset           *)
          Pauses       (* bound: requests that come with a pause in them    *)

Header   == 1
NoClient == "no client"

ASSUME ServerAssumption ==
    /\ \A r \in Request : Fc[r] \in 0..127 /\ Nb[r] \in Nat
    /\ \A r \in Request : RequestCount(Fc[r], Nb[r], Nb[r]) \in 0..255
    /\ OtherLength \in Nat \ {0} /\ ByteValue \subseteq 0..255
    /\ Sockets \in Nat \ {0} /\ Backlog \in Nat
    /\ MaxAdu \in Nat /\ 10 <= MaxAdu
    /\ MaxRequests \in Nat /\ Resets \in Nat /\ Pauses \in Nat
    /\ NoClient \notin Client

VARIABLES listening,  (* *socket is the listening socket, not 0             *)
          pending,    (* NOSOCK_TCB: the newest connection first            *)
          count,      (* conn_pending of the listening socket               *)
          served,     (* clients that were given a socket structure         *)
          end,        (* the other end of each connection                   *)
          sent,       (* what each client asked                             *)
          stream,     (* its bytes that the slave task has not read         *)
          arrived,    (* how many of them are in the socket                 *)
          s,          (* ctx->s                                             *)
          pc,         (* where the slave task is                            *)
          need,       (* length_to_read                                     *)
          query,      (* what it has read of the next request               *)
          fc,         (* the function code in it                            *)
          answered,   (* which of its requests each client was answered     *)
          resets, pauses

clientVars == <<end, sent, stream, arrived, resets>>
stackVars  == <<listening, pending, count, served>>
taskVars   == <<s, pc, need, query, fc>>
vars       == <<clientVars, stackVars, taskVars, answered, pauses>>

Handled(f) == f \in Functions \cup {FC_READ_EXCEPTION_STATUS}

RequestLength(r) ==
    Header + (IF Fc[r] = FC_READ_EXCEPTION_STATUS THEN 1
              ELSE IF Handled(Fc[r]) THEN RequestBuilt(Fc[r], Nb[r], Nb[r]) ELSE OtherLength)

ByteType == [number : 1..MaxRequests, request : Request, at : Nat \ {0}]

(* Nothing out of place; 0 in answered stands for bytes of several requests.*)
Garbage == 0

(* The stack has as many structures as the connections that were served,   *)
(* the listening socket and a waiting accept take.                         *)
WithinStructures ==
    Cardinality(served) + (IF listening THEN 1 ELSE 0)
                        + (IF pc = "accepting" THEN 1 ELSE 0) <= Sockets

TypeOK ==
    /\ listening \in BOOLEAN
    /\ pending \in Seq(Client) /\ count \in Nat
    /\ served \subseteq Client
    /\ end \in [Client -> {"new", "half", "open", "fin", "reset", "refused"}]
    /\ sent \in [Client -> Seq(Request)]
    /\ stream \in [Client -> Seq(ByteType)]
    /\ arrived \in [Client -> Nat] /\ \A c \in Client : arrived[c] <= Len(stream[c])
    /\ s \in Client \cup {NoClient}
    /\ pc \in {"accept", "accepting", "function", "meta", "data", "reply"}
    /\ need \in 0..MaxAdu /\ query \in Seq(ByteType) /\ fc \in 0..255
    /\ answered \in [Client -> Seq(0..MaxRequests)]
    /\ resets \in 0..Resets /\ pauses \in 0..Pauses
    /\ WithinStructures
-----------------------------------------------------------------------------
Init ==
    /\ listening = TRUE /\ pending = <<>> /\ count = 0 /\ served = {}
    /\ end = [c \in Client |-> "new"]
    /\ sent = [c \in Client |-> <<>>] /\ stream = [c \in Client |-> <<>>]
    /\ arrived = [c \in Client |-> 0]
    /\ s = NoClient /\ pc = "accept" /\ need = 0 /\ query = <<>> /\ fc = 0
    /\ answered = [c \in Client |-> <<>>]
    /\ resets = 0 /\ pauses = 0

(* Socket structures in use: that of a connection is never given back. *)
Used == Cardinality(served) + IF listening THEN 1 ELSE 0

(* Mutant: what was read of the last request stays in the buffer. *)
StartReceiveKeepingQuery(c) ==
    /\ s' = c /\ pc' = "function" /\ need' = Header + 1 /\ fc' = 0 /\ UNCHANGED query

StartReceive(c) ==
    /\ s' = c /\ pc' = "function" /\ need' = Header + 1 /\ query' = <<>> /\ fc' = 0

(* A failed accept closes the listening socket, and the stack drops its    *)
(* connections; modbus_receive on ctx->s = -1 fails, so does the next one. *)
AcceptFails ==
    /\ listening' = FALSE /\ count' = 0 /\ pending' = <<>>
    /\ end' = [c \in Client |-> IF \E i \in DOMAIN pending : pending[i] = c THEN "refused" ELSE end[c]]
    /\ s' = NoClient
    /\ UNCHANGED <<served, sent, stream, arrived, resets, pc, need, query, fc>>

Unlinked(i) == SubSeq(pending, 1, i - 1) \o SubSeq(pending, i + 1, Len(pending))

(* Where on the list the established connections are. *)
Established == { i \in DOMAIN pending : end[pending[i]] # "half" }

First(i) == i \in Established /\ \A j \in Established : i <= j

(* Mutant: a connection that is accepted stays in the count. *)
AcceptTakesUncounted ==
    \E i \in DOMAIN pending :
        /\ First(i)
        /\ pending' = Unlinked(i)
        /\ served' = served \cup {pending[i]}
        /\ StartReceive(pending[i])
        /\ UNCHANGED <<listening, count, clientVars>>

AcceptTakes ==
    \E i \in DOMAIN pending :
        /\ First(i)
        /\ pending' = Unlinked(i)
        /\ count' = count - 1
        /\ served' = served \cup {pending[i]}
        /\ StartReceive(pending[i])
        /\ UNCHANGED <<listening, clientVars>>

AcceptWaits ==
    /\ pc' = "accepting"
    /\ UNCHANGED <<stackVars, clientVars, s, need, query, fc>>

(* modbus_tcp_accept: a structure for the connection comes first. *)
Accept ==
    /\ pc = "accept" /\ listening
    /\ \/ Used = Sockets /\ AcceptFails
       \/ Used < Sockets /\ count = 0 /\ AcceptWaits
       \/ Used < Sockets /\ count > 0 /\ AcceptTakes
       \/ Used < Sockets /\ count > 0 /\ Established = {} /\ AcceptFails
    /\ UNCHANGED <<answered, pauses>>

(* Mutant: a client that has failed is asked for its next request. *)
LeaveNever == StartReceive(s)

(* receive_msg or modbus_reply failed: the loop of the connection ends. *)
Leave == pc' = "accept" /\ need' = 0 /\ query' = <<>> /\ fc' = 0 /\ UNCHANGED s

FunctionIn(byte) == IF byte.at = Header + 1 THEN {Fc[byte.request]} ELSE ByteValue

CountPlace(f) == IF f \in WriteMany THEN Header + 6 ELSE Header + 10

CountIn(f, byte) ==
    IF byte.at = CountPlace(f) /\ Fc[byte.request] = f
    THEN { RequestCount(f, Nb[byte.request], Nb[byte.request]) }
    ELSE ByteValue

Take ==
    /\ arrived[s] >= need
    /\ stream' = [stream EXCEPT ![s] = SubSeq(@, need + 1, Len(@))]
    /\ arrived' = [arrived EXCEPT ![s] = @ - need]
    /\ query' = query \o SubSeq(stream[s], 1, need)
    /\ UNCHANGED <<stackVars, end, sent, resets, s, answered, pauses>>

Taken == query \o SubSeq(stream[s], 1, need)

ReceiveFunction ==
    /\ pc = "function"
    /\ Take
    /\ fc' \in FunctionIn(Taken[Header + 1])
    /\ need' = IndicationMeta(fc')
    /\ pc' = IF need' = 0 THEN "reply" ELSE "meta"

(* A byte count that would make the request too long ends the connection.  *)
ReceiveMeta ==
    /\ pc = "meta"
    /\ arrived[s] >= need
    /\ \E n \in IF fc \in WriteMany \cup {FC_WRITE_AND_READ_REGISTERS}
                THEN CountIn(fc, Taken[Len(Taken)]) ELSE {0} :
        IF Len(Taken) + n > MaxAdu
        THEN /\ Leave
             /\ stream' = [stream EXCEPT ![s] = SubSeq(@, need + 1, Len(@))]
             /\ arrived' = [arrived EXCEPT ![s] = @ - need]
             /\ UNCHANGED <<stackVars, end, sent, resets, answered, pauses>>
        ELSE /\ Take
             /\ need' = n
             /\ pc' = IF n = 0 THEN "reply" ELSE "data"
             /\ UNCHANGED fc

ReceiveData ==
    /\ pc = "data"
    /\ Take
    /\ need' = 0 /\ pc' = "reply"
    /\ UNCHANGED fc

(* The client has closed, and all it sent was read, or it has reset. *)
ReceiveFails ==
    /\ pc \in {"function", "meta", "data"}
    /\ arrived[s] < need
    /\ end[s] = "reset" \/ (end[s] = "fin" /\ arrived[s] = Len(stream[s]))
    /\ Leave
    /\ UNCHANGED <<stackVars, clientVars, answered, pauses>>

(* The byte timeout between two pieces of a request. *)
ReceiveTimesOut ==
    /\ pc \in {"function", "meta", "data"}
    /\ arrived[s] < need
    /\ pc = "function" => arrived[s] > 0
    /\ pauses < Pauses
    /\ pauses' = pauses + 1
    /\ Leave
    /\ UNCHANGED <<stackVars, clientVars, answered>>

(* The request an answer is for, if its bytes are those of one request. *)
Answers(msg) ==
    LET n == msg[1].number IN
    IF \A k \in DOMAIN msg : msg[k].number = n /\ msg[k].at = k THEN n ELSE Garbage

(* Mutant: one request of a client is answered, and no other. *)
AnswerOnce ==
    /\ end[s] # "reset" /\ fc # FC_READ_EXCEPTION_STATUS
    /\ answered' = [answered EXCEPT ![s] = Append(@, Answers(query))]
    /\ Leave

Answer ==
    /\ end[s] # "reset" /\ fc # FC_READ_EXCEPTION_STATUS
    /\ answered' = [answered EXCEPT ![s] = Append(@, Answers(query))]
    /\ StartReceive(s)

(* modbus_reply: FC07 is refused without an answer, and so is any request  *)
(* when the connection is gone.                                            *)
ReplyFails ==
    /\ end[s] = "reset" \/ fc = FC_READ_EXCEPTION_STATUS
    /\ Leave
    /\ UNCHANGED answered

Reply ==
    /\ pc = "reply"
    /\ Answer \/ ReplyFails
    /\ UNCHANGED <<stackVars, clientVars, pauses>>

SlaveStep ==
    \/ Accept \/ ReceiveFunction \/ ReceiveMeta \/ ReceiveData
    \/ ReceiveFails \/ ReceiveTimesOut \/ Reply
-----------------------------------------------------------------------------
(* The clients and the stack. *)

Room == count < Backlog

(* The SYN: a connection of its own, put before the others. *)
Syn(c) ==
    /\ end[c] = "new" /\ listening
    /\ Room
    /\ end' = [end EXCEPT ![c] = "half"]
    /\ pending' = <<c>> \o pending
    /\ UNCHANGED <<listening, count, served, sent, stream, arrived, resets, taskVars, answered, pauses>>

HalfOpen(c, i) == end[c] = "half" /\ pending[i] = c

(* The ACK: a task that waits in accept is given the connection at once. *)
Establish(c) ==
    \E i \in DOMAIN pending :
        /\ HalfOpen(c, i)
        /\ end' = [end EXCEPT ![c] = "open"]
        /\ IF pc = "accepting"
           THEN /\ pending' = Unlinked(i)
                /\ served' = served \cup {c}
                /\ StartReceive(c)
                /\ UNCHANGED count
           ELSE /\ count' = count + 1
                /\ UNCHANGED <<pending, served, taskVars>>
        /\ UNCHANGED <<listening, sent, stream, arrived, resets, answered, pauses>>

(* Mutant: the connection is taken off the count, too. *)
GiveUpUncounting(c) ==
    \E i \in DOMAIN pending :
        /\ HalfOpen(c, i)
        /\ end' = [end EXCEPT ![c] = "reset"]
        /\ pending' = Unlinked(i) /\ count' = count - 1
        /\ UNCHANGED <<listening, served, sent, stream, arrived, resets, taskVars, answered, pauses>>

(* A reset, or no answer, before the connection is established. *)
GiveUp(c) ==
    \E i \in DOMAIN pending :
        /\ HalfOpen(c, i)
        /\ end' = [end EXCEPT ![c] = "reset"]
        /\ pending' = Unlinked(i)
        /\ UNCHANGED <<listening, count, served, sent, stream, arrived, resets, taskVars, answered, pauses>>

Ask(c) ==
    /\ end[c] = "open" /\ Len(sent[c]) < MaxRequests
    /\ \E r \in Request :
        /\ sent' = [sent EXCEPT ![c] = Append(@, r)]
        /\ stream' = [stream EXCEPT ![c] = @ \o
               [k \in 1..RequestLength(r) |-> [number |-> Len(sent[c]) + 1, request |-> r, at |-> k]]]
    /\ UNCHANGED <<end, arrived, resets, stackVars, taskVars, answered, pauses>>

(* A byte arrives; a segment is a run of such steps. *)
Arrive(c) ==
    /\ end[c] # "reset" /\ arrived[c] < Len(stream[c])
    /\ arrived' = [arrived EXCEPT ![c] = @ + 1]
    /\ UNCHANGED <<end, sent, stream, resets, stackVars, taskVars, answered, pauses>>

Close(c) ==
    /\ end[c] = "open"
    /\ end' = [end EXCEPT ![c] = "fin"]
    /\ UNCHANGED <<sent, stream, arrived, resets, stackVars, taskVars, answered, pauses>>

(* A connection that was reset is taken off the list, not off the count. *)
Reset(c) ==
    /\ end[c] \in {"open", "fin"} /\ resets < Resets
    /\ resets' = resets + 1
    /\ end' = [end EXCEPT ![c] = "reset"]
    /\ \/ \E i \in DOMAIN pending : pending[i] = c /\ pending' = Unlinked(i)
       \/ (\A i \in DOMAIN pending : pending[i] # c) /\ UNCHANGED pending
    /\ stream' = [stream EXCEPT ![c] = <<>>] /\ arrived' = [arrived EXCEPT ![c] = 0]
    /\ UNCHANGED <<listening, count, served, sent, taskVars, answered, pauses>>

Next ==
    \/ SlaveStep
    \/ \E c \in Client : Syn(c) \/ Establish(c) \/ GiveUp(c) \/ Ask(c) \/ Arrive(c) \/ Close(c) \/ Reset(c)

Spec == Init /\ [][Next]_vars

(* A client that has its answers. *)
Content(c) == c \in served /\ Len(answered[c]) = Len(sent[c])

(* The slave task runs on, what is sent arrives, every client that has not *)
(* given up connects when it can, and leaves in the end when it was served *)
(* and has the answers to all it asked.                                    *)
FairSpec ==
    /\ Spec
    /\ WF_vars(SlaveStep)
    /\ \A c \in Client :
        /\ WF_vars(Syn(c)) /\ WF_vars(Establish(c))
        /\ WF_vars(Arrive(c)) /\ WF_vars(Content(c) /\ Close(c))
-----------------------------------------------------------------------------
(* "Analyses the request and constructs a response" (modbus.c:655): every  *)
(* answer a client gets is for a request of its own, one for each, in the  *)
(* order it asked, whatever pieces the requests arrive in and whatever was *)
(* left behind on an earlier connection; until it asks for a function the  *)
(* server does not know, where the lengths put it out of step.             *)
KnownUpTo(c, i) == \A k \in DOMAIN sent[c] : k <= i => Handled(Fc[sent[c][k]])

AnswersOwnRequests ==
    \A c \in Client : \A i \in DOMAIN answered[c] : KnownUpTo(c, i) => answered[c][i] = i

(* The server stops listening for two reasons only: as many connections as *)
(* it has structures were served, in all, since it closes none, or a client*)
(* reset its connection when it was established and not accepted yet: one  *)
(* that gives up in the handshake does no harm.                            *)
ListensUntil == ~listening => Used >= Sockets - 1 \/ resets > 0

(* "Listens for any request from one or many modbus masters"               *)
(* (modbus-tcp.c:435): a client that connects as soon as it can is served  *)
(* in the end, unless it leaves before.                                    *)
Waits(c)  == end[c] \in {"new", "half", "open"}
Served(c) == c \in served \/ ~Waits(c)

ServesNext == \A c \in Client : Waits(c) ~> Served(c)

(* The part of it the code keeps: as long as it listens.  A client that    *)
(* fails, pauses or has its connection dropped keeps no other waiting.     *)
ServesWhileListening == \A c \in Client : Waits(c) ~> Served(c) \/ ~listening

(* A client that waits for its answers gets them all, or has left, when its*)
(* requests are known ones and arrive without a pause.                     *)
Orderly(c) ==
    /\ end[c] = "open" /\ pauses = 0
    /\ \A i \in DOMAIN sent[c] : Fc[sent[c][i]] \in Functions

RequestsAnswered ==
    \A c \in Client : c = s /\ Orderly(c) ~> Len(answered[c]) = Len(sent[c]) \/ ~Orderly(c)
=============================================================================
