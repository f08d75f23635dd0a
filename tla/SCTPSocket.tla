----------------------------- MODULE SCTPSocket -----------------------------
(***************************************************************************)
(* An SCTPSocket used by one thread, and its peer: bind and connect with   *)
(* several addresses, messages, the ends of an association.                *)
(* The kernel is Linux (net/sctp/socket.c), the socket of one-to-one       *)
(* style: it has one association in its life.  listen, accept and          *)
(* timedAccept are the text of TCPSocket's (module Acceptor).  A message   *)
(* is its length.  The stream and the flags receive() hands over are left  *)
(* out: sctp_recvmsg() fills them in only if data_io events are on, and    *)
(* nothing in the library turns them on, so they may be anything.          *)
(***************************************************************************)
EXTENDS Integers, Sequences

CONSTANTS
  Hosts,        \* names and addresses
  Sizes,        \* lengths of messages and buffers
  QueueLimit    \* messages the kernel keeps in each direction, a bound of the model

ASSUME SCTPAssumption ==
  Sizes \subseteq Nat \ {0} /\ QueueLimit \in Nat \ {0}

VARIABLES
  peerDisconnected,   \* m_peerDisconnected
  bound,              \* kernel: the local addresses
  assoc,              \* kernel: the association
  err,                \* kernel: an error of the association is pending
  inq,                \* kernel: messages, or what is left of them, to be received
  outq,               \* kernel: the number of messages the peer has not got yet
  call                \* the call the thread is in, or how its last one ended

kernel == <<bound, assoc, err, inq, outq>>
vars == <<peerDisconnected, kernel, call>>

(* A message, or the rest of one: the bytes nobody has received yet.       *)
Message == Nat \ {0}

(* flag is the abortFlag of a send and len its length, or that of a        *)
(* buffer; n is the result.                                                *)
CallType ==
  [op : {"none", "bind", "connect", "send", "receive", "timedReceive"},
   pc : {"idle", "bind", "connect", "send", "poll", "recv", "returned", "threw", "killed"},
   hosts : SUBSET Hosts, flag : {"KEEPALIVE", "SHUTDOWN", "ABORT"},
   len : Sizes \cup {0}, n : Nat]

TypeOK ==
  /\ peerDisconnected \in BOOLEAN /\ err \in BOOLEAN
  /\ bound \subseteq Hosts
  /\ assoc \in {"none", "up", "closing", "peerShut", "peerGone", "gone"}
  /\ inq \in Seq(Message) /\ Len(inq) <= QueueLimit
  /\ outq \in 0..QueueLimit
  /\ call \in CallType

NoCall == [op |-> "none", pc |-> "idle", hosts |-> {}, flag |-> "KEEPALIVE",
           len |-> 0, n |-> 0]

(* A new socket, or one made of a handle from accept().                    *)
Init ==
  /\ peerDisconnected = FALSE /\ err = FALSE
  /\ \/ bound = {} /\ assoc = "none"
     \/ bound = Hosts /\ assoc = "up"
  /\ inq = <<>> /\ outq = 0
  /\ call = NoCall

-----------------------------------------------------------------------------
(* The kernel and the peer.                                                *)

Associated == assoc \in {"up", "closing", "peerShut"}

ReceiveShut == assoc \in {"peerShut", "peerGone"}

Ended == IF ReceiveShut THEN "peerGone" ELSE "gone"

PeerSends ==
  /\ assoc \in {"up", "closing"} /\ Len(inq) < QueueLimit
  /\ \E size \in Sizes : inq' = Append(inq, size)
  /\ UNCHANGED <<peerDisconnected, bound, assoc, err, outq, call>>

PeerReads ==
  /\ Associated /\ outq > 0
  /\ outq' = outq - 1
  /\ UNCHANGED <<peerDisconnected, bound, assoc, err, inq, call>>

PeerShuts ==
  /\ \/ assoc = "up" /\ assoc' = "peerShut"
     \/ assoc \in {"closing", "peerShut"} /\ outq = 0 /\ assoc' = Ended
  /\ UNCHANGED <<peerDisconnected, bound, err, inq, outq, call>>

PeerAborts ==
  /\ Associated
  /\ assoc' = Ended /\ err' = TRUE /\ outq' = 0
  /\ UNCHANGED <<peerDisconnected, bound, inq, call>>

-----------------------------------------------------------------------------
(* Addresses.                                                              *)

Over == call.pc \in {"idle", "returned", "threw"}

Enter(op, pc, new) == call' = [new EXCEPT !.op = op, !.pc = pc]

Done(result) == call' = [NoCall EXCEPT !.op = call.op, !.pc = result]

(* All names are looked up, or one of them cannot be, before anything is   *)
(* done with the first.  (Mutant: each is bound when it is found.)         *)
BindAsFound(op, hosts) ==
  /\ Over
  /\ \/ Enter(op, op, [NoCall EXCEPT !.hosts = hosts]) /\ UNCHANGED bound
     \/ /\ Enter(op, "threw", NoCall)
        /\ \E h \in hosts : bound' = bound \cup (hosts \ {h})
  /\ UNCHANGED <<peerDisconnected, assoc, err, inq, outq>>
FillAddresses(op, hosts) ==
  /\ Over
  /\ \/ Enter(op, op, [NoCall EXCEPT !.hosts = hosts])
     \/ hosts # {} /\ Enter(op, "threw", NoCall)
  /\ UNCHANGED <<peerDisconnected, kernel>>

(* sctp_bindx() takes back what it has bound when an address fails, but    *)
(* never the last one.                                                     *)
Bind ==
  /\ call.pc = "bind"
  /\ \/ call.hosts # {} /\ bound' = bound \cup call.hosts /\ Done("returned")
     \/ /\ Done("threw")
        /\ bound' = bound \/ (bound = {} /\ \E h \in call.hosts : bound' = {h})
  /\ UNCHANGED <<peerDisconnected, assoc, err, inq, outq>>

Connect ==
  /\ call.pc = "connect"
  /\ \/ /\ call.hosts # {} /\ assoc = "none"
        /\ assoc' = "up" /\ peerDisconnected' = FALSE
        /\ bound' = IF bound = {} THEN Hosts ELSE bound
        /\ Done("returned")
     \/ Done("threw") /\ UNCHANGED <<peerDisconnected, bound, assoc>>
  /\ UNCHANGED <<err, inq, outq>>

(* state(), notAckedData(), pendingData(), inStreams(), outStreams() and   *)
(* fragmentationPoint() ask for the SCTP_STATUS of the association.        *)
Status ==
  /\ Over
  /\ Enter("none", IF Associated THEN "returned" ELSE "threw", NoCall)
  /\ UNCHANGED <<peerDisconnected, kernel>>

-----------------------------------------------------------------------------
(* send() and sendUnordered().                                             *)

(* The kernel refuses SCTP_EOF with data, nothing with neither flag, and   *)
(* SCTP_ADDR_OVER, since the library passes no address.                    *)
StartSend(len, flag, override) ==
  /\ Over
  /\ IF override \/ (flag = "SHUTDOWN" /\ len > 0) \/ (flag = "KEEPALIVE" /\ len = 0)
       THEN Enter("send", "threw", NoCall)
       ELSE Enter("send", "send", [NoCall EXCEPT !.len = len, !.flag = flag])
  /\ UNCHANGED <<peerDisconnected, kernel>>

(* What send() makes of the result of sctp_sendmsg().  (Mutant: as much as *)
(* was asked for is not enough.)                                           *)
SentWholeOrNot(ret) ==
  call' = [call EXCEPT !.pc = IF ret <= call.len THEN "threw" ELSE "returned", !.n = ret]
Sent(ret) ==
  call' = [call EXCEPT !.pc = IF ret < call.len THEN "threw" ELSE "returned", !.n = ret]

SendTakes ==
  /\ call.pc = "send" /\ call.flag = "KEEPALIVE"
  /\ assoc = "up" /\ outq < QueueLimit
  /\ outq' = outq + 1
  /\ Sent(call.len)
  /\ UNCHANGED <<peerDisconnected, bound, assoc, err, inq>>

SendCloses ==
  /\ call.pc = "send" /\ call.flag = "SHUTDOWN" /\ Associated
  /\ assoc' = IF assoc = "up" THEN "closing" ELSE assoc
  /\ Sent(0)
  /\ UNCHANGED <<peerDisconnected, bound, err, inq, outq>>

(* The data becomes the reason of the ABORT, and 0 is returned.            *)
SendAborts ==
  /\ call.pc = "send" /\ call.flag = "ABORT" /\ Associated
  /\ assoc' = Ended /\ err' = TRUE /\ outq' = 0
  /\ Sent(0)
  /\ UNCHANGED <<peerDisconnected, bound, inq>>

(* Without an association a pending error is reported, or SIGPIPE raised;  *)
(* with one the kernel refuses data after either end's SHUTDOWN, and what  *)
(* else it does not like (a stream that does not exist).                   *)
SendFails ==
  /\ call.pc = "send"
  /\ IF Associated \/ err THEN Done("threw") ELSE Done("killed")
  /\ err' = (err /\ Associated)
  /\ UNCHANGED <<peerDisconnected, bound, assoc, inq, outq>>

-----------------------------------------------------------------------------
(* receive() and timedReceive(), with and without a receiveFlag.           *)

StartReceive(op, len) ==
  /\ Over
  /\ Enter(op, IF op = "receive" THEN "recv" ELSE "poll", [NoCall EXCEPT !.len = len])
  /\ UNCHANGED <<peerDisconnected, kernel>>

(* POLLRDHUP comes with POLLIN, the error of an ABORT without.  (Mutant:   *)
(* any event sets the flag.)                                               *)
PollBlamesPeer ==
  /\ call.pc = "poll" /\ (inq # <<>> \/ ReceiveShut \/ err)
  /\ peerDisconnected' = TRUE
  /\ IF inq # <<>> \/ ReceiveShut THEN Enter(call.op, "recv", call) ELSE Done("returned")
  /\ UNCHANGED kernel
PollReturns ==
  /\ call.pc = "poll" /\ (inq # <<>> \/ ReceiveShut \/ err)
  /\ peerDisconnected' = (peerDisconnected \/ ReceiveShut)
  /\ IF inq # <<>> \/ ReceiveShut THEN Enter(call.op, "recv", call) ELSE Done("returned")
  /\ UNCHANGED kernel

(* (Mutant: the timeout is taken for a message.)                           *)
PollTimesOutUnnoticed ==
  /\ call.pc = "poll" /\ inq = <<>> /\ ~ReceiveShut /\ ~err
  /\ Enter(call.op, "recv", call)
  /\ UNCHANGED <<peerDisconnected, kernel>>
PollTimesOut ==
  /\ call.pc = "poll" /\ inq = <<>> /\ ~ReceiveShut /\ ~err
  /\ Done("returned")
  /\ UNCHANGED <<peerDisconnected, kernel>>

(* A message that is longer than the buffer is received in parts; MSG_EOR  *)
(* is not looked at.                                                       *)
RecvTakes ==
  LET left == Head(inq)
      n == IF left < call.len THEN left ELSE call.len IN
  /\ call.pc = "recv" /\ inq # <<>>
  /\ inq' = IF n < left THEN <<left - n>> \o Tail(inq) ELSE Tail(inq)
  /\ call' = [call EXCEPT !.pc = "returned", !.n = n]
  /\ UNCHANGED <<peerDisconnected, bound, assoc, err, outq>>

(* Behind the last message come the error, the end, or ENOTCONN.           *)
RecvEnds ==
  /\ call.pc = "recv" /\ inq = <<>> /\ (err \/ assoc \notin {"up", "closing"})
  /\ err' = FALSE
  /\ IF ~err /\ ReceiveShut THEN Done("returned") ELSE Done("threw")
  /\ UNCHANGED <<peerDisconnected, bound, assoc, inq, outq>>

-----------------------------------------------------------------------------
Next ==
  \/ PeerSends \/ PeerReads \/ PeerShuts \/ PeerAborts
  \/ \E op \in {"bind", "connect"}, hosts \in SUBSET Hosts : FillAddresses(op, hosts)
  \/ Bind \/ Connect \/ Status
  \/ \E len \in Sizes \cup {0}, flag \in {"KEEPALIVE", "SHUTDOWN", "ABORT"},
        override \in BOOLEAN : StartSend(len, flag, override)
  \/ SendTakes \/ SendCloses \/ SendAborts \/ SendFails
  \/ \E op \in {"receive", "timedReceive"}, len \in Sizes : StartReceive(op, len)
  \/ PollReturns \/ PollTimesOut \/ RecvTakes \/ RecvEnds

Spec == Init /\ [][Next]_vars

-----------------------------------------------------------------------------
(* Properties.                                                             *)

(* The flag is set only if the peer has shut the association down, not by  *)
(* data, an error, or the end of a call.                                   *)
FlagMeansPeerShut == peerDisconnected => ReceiveShut

(* Behind poll() timedReceive() does not wait: there is a message or the   *)
(* peer's end, also if the association is aborted in between.              *)
AnsweredAtOnce ==
  call.op = "timedReceive" /\ call.pc = "recv" => inq # <<>> \/ ReceiveShut

(* A send() that throws has sent nothing and left the association alone,   *)
(* unless it was told to abort it.                                         *)
ThrowSentNothing ==
  [][call.pc = "send" /\ call'.pc = "threw" =>
       call.flag = "ABORT" \/ (outq' = outq /\ assoc' = assoc)]_vars

(* bind() and connect() with several addresses do nothing at all when one  *)
(* of them cannot be resolved, and never return with a part of them bound. *)
AllOrNothing ==
  [][/\ Over /\ call'.pc = "threw" => bound' = bound /\ assoc' = assoc
     /\ call.pc = "bind" /\ call'.pc = "returned" => call.hosts \subseteq bound']_<<call>>

-----------------------------------------------------------------------------
(* What makes them inductive.                                              *)

(* Only a send() gets to sctp_sendmsg(), with SCTP_EOF only without data.  *)
SendOK ==
  call.pc = "send" =>
    /\ call.op = "send"
    /\ call.flag = "SHUTDOWN" => call.len = 0

IInv == TypeOK /\ FlagMeansPeerShut /\ AnsweredAtOnce /\ SendOK
=============================================================================
