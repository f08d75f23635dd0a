---------------------------- MODULE StreamSocket ----------------------------
(***************************************************************************)
(* One TCP connection and the library calls on its two ends:               *)
(* SimpleSocket::send, receive, timedReceive, disconnect, shutdown and     *)
(* peerDisconnected, TCPSocket::sendAll, InternetSocket::connect and the   *)
(* destructor.  Each end is used by one thread, in a process of its own;   *)
(* shutdown() may also come from a second thread.                          *)
(*                                                                         *)
(* A system call that may block is a step of its own, enabled when the     *)
(* kernel lets it return, so segments arrive and the peer acts between the *)
(* poll() and the recv() of timedReceive and between two ::send()s of      *)
(* sendAll.  A call that TEMP_FAILURE_RETRY repeats after a signal has     *)
(* changed nothing: that is a stuttering step.                             *)
(*                                                                         *)
(* The kernel is Linux as the library sees it: ordered, reliable streams,  *)
(* FIN, RST, a pending error, half-closed connections, partial ::send()s.  *)
(* The bytes of a stream are numbered from 1 in the order in which the     *)
(* program passes them to send() and sendAll().                            *)
(***************************************************************************)
EXTENDS Integers, Sequences, SequencesExt

CONSTANTS
  Client,      \* the end that connects
  Session,     \* the end made from the handle that accept() returned
  FIN, RST,    \* the segments that are not data
  ClientBytes, SessionBytes,   \* bounds: bytes an end sends in one connection
  Lens,        \* lengths passed to the calls
  Window,      \* bytes the kernel buffers for one direction
  IntMax,      \* INT_MAX: 2^(w-1) - 1 for an int of w bits
  SigPipe      \* what SIGPIPE does to a process: "kills" it or is "ignored"

ASSUME StreamAssumption ==
  /\ Client # Session
  /\ FIN # RST /\ {FIN, RST} \cap Nat = {}
  /\ ClientBytes \in Nat /\ SessionBytes \in Nat /\ Window \in Nat \ {0} /\ IntMax \in Nat
  /\ Lens \subseteq Nat \ {0}
  /\ SigPipe \in {"kills", "ignored"}

VARIABLES
  peerDisconnected,   \* m_peerDisconnected of the sockets
  kernel,             \* the kernel's side of the sockets
  wire,               \* the segments on their way to an end
  call,               \* the call an end is in, or the result of its last one
  accepted,           \* how many bytes the kernel has taken from an end
  got                 \* the bytes an end has read

vars == <<peerDisconnected, kernel, wire, call, accepted, got>>

Ends == {Client, Session}
Peer(e) == IF e = Client THEN Session ELSE Client

MaxBytes(e) == IF e = Client THEN ClientBytes ELSE SessionBytes
Bytes == 1..MaxBytes(Client) \cup 1..MaxBytes(Session)
Errors == {"none", "ECONNRESET", "EPIPE"}

(* state "reset": a RST has arrived, the socket has not been given up yet. *)
(* staleFlag: connect() threw, so that the flag of a former connection     *)
(* stayed set, and the connection was made all the same.                   *)
KernelType ==
  [state : {"absent", "unconnected", "connected", "reset"}, rcvq : Seq(Bytes),
   finRcvd : BOOLEAN, shutRd : BOOLEAN, shutWr : BOOLEAN, err : Errors,
   staleFlag : BOOLEAN]

(* done counts the bytes this call has sent, or stored in its buffer; ret  *)
(* is its result once pc is "returned".                                    *)
CallType ==
  [op : {"none", "send", "sendAll", "receive", "timedReceive"},
   pc : {"idle", "send", "poll", "recv", "returned", "timedOut", "threw", "killed"},
   len : Lens \cup {0}, done : Nat, ret : Int]

TypeOK ==
  /\ peerDisconnected \in [Ends -> BOOLEAN]
  /\ kernel \in [Ends -> KernelType]
  /\ wire \in [Ends -> Seq(Bytes \cup {FIN, RST})]
  /\ call \in [Ends -> CallType]
  /\ accepted \in [Ends -> Nat] /\ \A e \in Ends : accepted[e] <= MaxBytes(e)
  /\ got \in [Ends -> Seq(Bytes)]

NewSocket(st) == [state |-> st, rcvq |-> <<>>, finRcvd |-> FALSE,
                  shutRd |-> FALSE, shutWr |-> FALSE, err |-> "none",
                  staleFlag |-> FALSE]

NoCall == [op |-> "none", pc |-> "idle", len |-> 0, done |-> 0, ret |-> 0]

Init ==
  /\ peerDisconnected = [e \in Ends |-> FALSE]
  /\ kernel = [e \in Ends |-> NewSocket(IF e = Client THEN "unconnected" ELSE "absent")]
  /\ wire = [e \in Ends |-> <<>>]
  /\ call = [e \in Ends |-> NoCall]
  /\ accepted = [e \in Ends |-> 0]
  /\ got = [e \in Ends |-> <<>>]

-----------------------------------------------------------------------------
(* The kernel.                                                             *)

IsByte(x) == x \notin {FIN, RST}

(* What is in front of the first FIN or RST, the last thing an end sends.  *)
DataLen(segments) ==
  Max({n \in 0..Len(segments) : \A i \in 1..n : IsByte(segments[i])})
Data(segments) == SubSeq(segments, 1, DataLen(segments))

Buffered(e) == Len(kernel[e].rcvq) + DataLen(wire[e])

(* RCV_SHUTDOWN: nothing is to be expected from the peer any more.         *)
RcvShut(e) ==
  kernel[e].finRcvd \/ kernel[e].shutRd \/ kernel[e].state = "reset"

CanSend(e) ==
  /\ kernel[e].state = "connected"
  /\ ~kernel[e].shutWr

(* What poll() reports: POLLHUP and POLLERR without having been asked.     *)
Reported(e) ==
  [POLLIN    |-> kernel[e].rcvq # <<>> \/ RcvShut(e),
   POLLRDHUP |-> RcvShut(e),
   POLLHUP   |-> kernel[e].state # "connected" \/ (RcvShut(e) /\ kernel[e].shutWr),
   POLLERR   |-> kernel[e].err # "none"]

PollIsReady(e) == \E x \in DOMAIN Reported(e) : Reported(e)[x]

(* A RST overtakes the data that has not been transmitted yet.             *)
WithRST(segments, kept) == Append(SubSeq(segments, 1, kept), RST)

(* The connection of e is given up: a RST if it is aborted, else a FIN,    *)
(* unless one was sent before.                                             *)
GiveUp(e, abort) ==
  LET p == Peer(e)  s == kernel[e] IN
  \/ /\ abort /\ s.state = "connected"
     /\ \E kept \in 0..Len(wire[p]) :
          wire' = [wire EXCEPT ![p] = WithRST(@, kept), ![e] = <<>>]
  \/ /\ ~abort /\ s.state = "connected" /\ ~s.shutWr
     /\ wire' = [wire EXCEPT ![p] = Append(@, FIN)]
  \/ /\ \/ s.state # "connected"
        \/ ~abort /\ s.shutWr
     /\ UNCHANGED wire

(* A segment arrives.  Data for a socket that is gone is answered by RST.  *)
Deliver(e) ==
  LET x == Head(wire[e])  rest == Tail(wire[e])  s == kernel[e]  p == Peer(e) IN
  /\ wire[e] # <<>>
  /\ \/ /\ s.state = "connected"
        /\ wire' = [wire EXCEPT ![e] = rest]
        /\ kernel' = [kernel EXCEPT ![e] =
             CASE x = FIN -> [s EXCEPT !.finRcvd = TRUE]
               [] x = RST -> [s EXCEPT !.state = "reset",
                                  !.err = IF s.finRcvd /\ ~s.shutWr THEN "EPIPE" ELSE "ECONNRESET"]
               [] OTHER     -> [s EXCEPT !.rcvq = Append(@, x)]]
     \/ /\ s.state # "connected"
        /\ wire' = IF IsByte(x) /\ s.state \in {"absent", "unconnected"} /\ ~Contains(wire[p], RST)
                     THEN [wire EXCEPT ![e] = rest, ![p] = Append(@, RST)]
                     ELSE [wire EXCEPT ![e] = rest]
        /\ UNCHANGED kernel
  /\ UNCHANGED <<peerDisconnected, call, accepted, got>>

-----------------------------------------------------------------------------
(* Calls.                                                                  *)

Busy(e) == call[e].pc \in {"send", "poll", "recv"}

Callable(e) ==
  /\ kernel[e].state # "absent"
  /\ ~Busy(e)

Begin(e, op, pc, len) ==
  /\ Callable(e)
  /\ call' = [call EXCEPT ![e] = [op |-> op, pc |-> pc, len |-> len, done |-> 0, ret |-> 0]]
  /\ UNCHANGED <<peerDisconnected, kernel, wire, accepted, got>>

Return(e, done, ret) ==
  call' = [call EXCEPT ![e].pc = "returned", ![e].done = done, ![e].ret = ret]

Throw(e) == call' = [call EXCEPT ![e].pc = "threw"]

(* The conversion of the size_t that sendAll returns to int, modulo 2^w.   *)
AsInt(n) ==
  LET modulus == 2 * (IntMax + 1)
      m == n % modulus
  IN  IF m <= IntMax THEN m ELSE m - modulus

-----------------------------------------------------------------------------
(* send() and sendAll().                                                   *)

StartSend(e) ==
  \E op \in {"send", "sendAll"}, len \in Lens :
    /\ accepted[e] + len <= MaxBytes(e)
    /\ Begin(e, op, "send", len)

(* Where in the buffer the next ::send() of the call starts.               *)
OffsetForgotten(e) == 0               \* mutant: sends the start again
OffsetTwice(e) == 2 * call[e].done    \* mutant: buffer was advanced already
Offset(e) == call[e].done

(* The call is over when ::send() has taken n more bytes.                  *)
AfterFirstChunk(e, n) == TRUE         \* mutant: a partial ::send() is enough
SentEnough(e, n) == call[e].op = "send" \/ call[e].done + n = call[e].len

(* ::send() takes n bytes; sendAll goes on until it has sent all.          *)
SendTakes(e) ==
  LET c == call[e]  base == accepted[e] - c.done IN
  /\ c.pc = "send"
  /\ CanSend(e)
  /\ \E n \in 1..(c.len - c.done) :
       /\ Buffered(Peer(e)) + n <= Window
       /\ wire' = [wire EXCEPT ![Peer(e)] = @ \o [i \in 1..n |-> base + Offset(e) + i]]
       /\ accepted' = [accepted EXCEPT ![e] = @ + n]
       /\ IF SentEnough(e, n)
            THEN Return(e, c.done + n, IF c.op = "sendAll" THEN AsInt(c.done + n) ELSE n)
            ELSE call' = [call EXCEPT ![e].done = @ + n]
  /\ UNCHANGED <<peerDisconnected, kernel, got>>

(* ::send() fails with the pending error, or else with EPIPE and SIGPIPE.  *)
(* A process that is killed gives up its socket.                           *)
SendFails(e) ==
  /\ call[e].pc = "send"
  /\ ~CanSend(e)
  /\ \/ /\ kernel[e].err = "ECONNRESET"
        /\ kernel' = [kernel EXCEPT ![e].err = "none"]
        /\ peerDisconnected' = [peerDisconnected EXCEPT ![e] = TRUE]
        /\ Return(e, call[e].done, -1)
        /\ UNCHANGED wire
     \/ /\ kernel[e].err # "ECONNRESET" /\ SigPipe = "ignored"
        /\ kernel' = [kernel EXCEPT ![e].err = "none"]
        /\ Throw(e)
        /\ UNCHANGED <<peerDisconnected, wire>>
     \/ /\ kernel[e].err # "ECONNRESET" /\ SigPipe = "kills"
        /\ GiveUp(e, kernel[e].rcvq # <<>>)
        /\ kernel' = [kernel EXCEPT ![e] = NewSocket("absent")]
        /\ call' = [call EXCEPT ![e].pc = "killed"]
        /\ UNCHANGED peerDisconnected
  /\ UNCHANGED <<accepted, got>>

-----------------------------------------------------------------------------
(* receive() and timedReceive().                                           *)

StartReceive(e) == \E len \in Lens : Begin(e, "receive", "recv", len)

StartTimedReceive(e) == \E len \in Lens : Begin(e, "timedReceive", "poll", len)

(* poll() runs into its timeout.  (Mutant: a 0 from poll() is overlooked.) *)
PollTimesOutUnnoticed(e) ==
  /\ call[e].pc = "poll"
  /\ ~PollIsReady(e)
  /\ call' = [call EXCEPT ![e].pc = "recv"]
  /\ UNCHANGED <<peerDisconnected, kernel, wire, accepted, got>>
PollTimesOut(e) ==
  /\ call[e].pc = "poll"
  /\ ~PollIsReady(e)
  /\ call' = [call EXCEPT ![e].pc = "timedOut"]
  /\ UNCHANGED <<peerDisconnected, kernel, wire, accepted, got>>

(* poll() returns 1.  Without POLLIN there is no recv(), and that 1 is     *)
(* what timedReceive returns.  (Mutants: POLLRDHUP taken for the end of    *)
(* the stream, POLLRDHUP ignored, recv() skipped on POLLHUP.)              *)
PollSaysEOF(e) ==
  /\ call[e].pc = "poll"
  /\ PollIsReady(e)
  /\ peerDisconnected' = [peerDisconnected EXCEPT ![e] = @ \/ Reported(e).POLLRDHUP]
  /\ IF Reported(e).POLLIN /\ ~Reported(e).POLLRDHUP
       THEN call' = [call EXCEPT ![e].pc = "recv"]
       ELSE Return(e, 0, 0)
  /\ UNCHANGED <<kernel, wire, accepted, got>>
PollUnflagged(e) ==
  /\ call[e].pc = "poll"
  /\ PollIsReady(e)
  /\ IF Reported(e).POLLIN
       THEN call' = [call EXCEPT ![e].pc = "recv"]
       ELSE Return(e, 0, 1)
  /\ UNCHANGED <<peerDisconnected, kernel, wire, accepted, got>>
PollSkipsRecv(e) ==
  /\ call[e].pc = "poll"
  /\ PollIsReady(e)
  /\ peerDisconnected' = [peerDisconnected EXCEPT ![e] = @ \/ Reported(e).POLLRDHUP]
  /\ IF Reported(e).POLLIN /\ ~Reported(e).POLLHUP
       THEN call' = [call EXCEPT ![e].pc = "recv"]
       ELSE Return(e, 0, 1)
  /\ UNCHANGED <<kernel, wire, accepted, got>>
PollReturns(e) ==
  /\ call[e].pc = "poll"
  /\ PollIsReady(e)
  /\ peerDisconnected' = [peerDisconnected EXCEPT ![e] = @ \/ Reported(e).POLLRDHUP]
  /\ IF Reported(e).POLLIN
       THEN call' = [call EXCEPT ![e].pc = "recv"]
       ELSE Return(e, 0, 1)
  /\ UNCHANGED <<kernel, wire, accepted, got>>

(* recv() of timedReceive has MSG_WAITALL: it goes on until the buffer is  *)
(* full or nothing more can come.                                          *)
WaitsForMore(e, n) ==
  /\ call[e].op = "timedReceive"
  /\ call[e].done + n < call[e].len
  /\ ~RcvShut(e)

RecvTakes(e) ==
  LET c == call[e]  q == kernel[e].rcvq  n == IF c.len - c.done < Len(q) THEN c.len - c.done ELSE Len(q) IN
  /\ c.pc = "recv"
  /\ q # <<>>
  /\ got' = [got EXCEPT ![e] = @ \o SubSeq(q, 1, n)]
  /\ kernel' = [kernel EXCEPT ![e].rcvq = SubSeq(@, n + 1, Len(@))]
  /\ IF WaitsForMore(e, n)
       THEN call' = [call EXCEPT ![e].done = @ + n]
       ELSE Return(e, c.done + n, c.done + n)
  /\ UNCHANGED <<peerDisconnected, wire, accepted>>

(* Nothing is left to read: the end of the stream, a pending error, a      *)
(* receive direction that was shut down, a socket without a connection.    *)
RecvEnds(e) ==
  LET c == call[e]  s == kernel[e] IN
  /\ c.pc = "recv"
  /\ s.rcvq = <<>>
  /\ RcvShut(e) \/ s.state = "unconnected"
  /\ \/ /\ c.done > 0 \/ s.finRcvd \/ (s.err = "none" /\ RcvShut(e))
        /\ Return(e, c.done, c.done)
        /\ UNCHANGED kernel
     \/ /\ c.done = 0 /\ ~s.finRcvd
        /\ s.err # "none" \/ ~RcvShut(e)
        /\ Throw(e)
        /\ kernel' = [kernel EXCEPT ![e].err = "none"]
  /\ UNCHANGED <<peerDisconnected, wire, accepted, got>>

-----------------------------------------------------------------------------
(* Connecting and giving up.                                               *)

(* The client is free to connect, and the connection can be made.          *)
Connectable ==
  /\ Callable(Client)
  /\ kernel[Client].state = "unconnected"
  /\ kernel[Session].state = "absent" /\ call[Session].pc # "killed"

(* connect() of the client; accept() makes the session socket of it.       *)
(* (Mutant: the flag of the client is left alone.)                         *)
ConnectKeepsFlag ==
  /\ Connectable
  /\ kernel' = [e \in Ends |-> NewSocket("connected")]
  /\ peerDisconnected' = [peerDisconnected EXCEPT ![Session] = FALSE]
  /\ wire' = [e \in Ends |-> <<>>]
  /\ call' = [e \in Ends |-> NoCall]
  /\ accepted' = [e \in Ends |-> 0]
  /\ got' = [e \in Ends |-> <<>>]
Connect ==
  /\ Connectable
  /\ kernel' = [e \in Ends |-> NewSocket("connected")]
  /\ peerDisconnected' = [e \in Ends |-> FALSE]
  /\ wire' = [e \in Ends |-> <<>>]
  /\ call' = [e \in Ends |-> NoCall]
  /\ accepted' = [e \in Ends |-> 0]
  /\ got' = [e \in Ends |-> <<>>]

(* A signal interrupts ::connect(), which is not repeated: connect()       *)
(* throws before it resets the flag, and the kernel makes the connection.  *)
(* (The time the handshake takes is left out: calls made in it wait.)      *)
ConnectInterrupted ==
  /\ Connectable
  /\ kernel' = [e \in Ends |-> [NewSocket("connected") EXCEPT
                               !.staleFlag = (e = Client /\ peerDisconnected[Client])]]
  /\ peerDisconnected' = [peerDisconnected EXCEPT ![Session] = FALSE]
  /\ wire' = [e \in Ends |-> <<>>]
  /\ call' = [e \in Ends |-> IF e = Client THEN [NoCall EXCEPT !.pc = "threw"] ELSE NoCall]
  /\ accepted' = [e \in Ends |-> 0]
  /\ got' = [e \in Ends |-> <<>>]

(* connect() throws, and no connection is made.                            *)
ConnectFails ==
  /\ Callable(Client)
  /\ kernel[Client].state = "unconnected"
  /\ call' = [call EXCEPT ![Client] = [NoCall EXCEPT !.pc = "threw"]]
  /\ UNCHANGED <<peerDisconnected, kernel, wire, accepted, got>>

(* A new TCPSocket for the client.                                         *)
Create ==
  /\ kernel[Client].state = "absent" /\ call[Client].pc # "killed"
  /\ kernel' = [kernel EXCEPT ![Client] = NewSocket("unconnected")]
  /\ peerDisconnected' = [peerDisconnected EXCEPT ![Client] = FALSE]
  /\ call' = [call EXCEPT ![Client] = NoCall]
  /\ UNCHANGED <<wire, accepted, got>>

(* disconnect(): connect() to AF_UNSPEC aborts the connection, discards    *)
(* what was not read and leaves ECONNRESET as the pending error.  Only if  *)
(* that error is reported at once is the flag reset.                       *)
Disconnect(e) ==
  LET s == kernel[e]
      aborts == s.state = "connected" /\ ~(s.shutWr /\ s.finRcvd) IN
  /\ Callable(e)
  /\ GiveUp(e, aborts)
  /\ kernel' = [kernel EXCEPT ![e] =
                 [NewSocket("unconnected") EXCEPT !.err = IF aborts THEN "ECONNRESET" ELSE "none"]]
  /\ \/ UNCHANGED peerDisconnected
     \/ aborts /\ peerDisconnected' = [peerDisconnected EXCEPT ![e] = FALSE]
  /\ call' = [call EXCEPT ![e] = NoCall]
  /\ UNCHANGED <<accepted, got>>

(* shutdown(): stopping to send sends a FIN.  Without a connection it      *)
(* throws.                                                                 *)
Shutdown(e, type) ==
  LET wr == type \in {"STOP_SEND", "STOP_BOTH"}
      rd == type \in {"STOP_RECEIVE", "STOP_BOTH"} IN
  /\ kernel[e].state = "connected"
  /\ kernel' = [kernel EXCEPT ![e].shutRd = @ \/ rd, ![e].shutWr = @ \/ wr]
  /\ wire' = IF wr /\ ~kernel[e].shutWr THEN [wire EXCEPT ![Peer(e)] = Append(@, FIN)] ELSE wire
  /\ UNCHANGED <<peerDisconnected, call, accepted, got>>

(* ~SimpleSocket(): closing a socket with unread data aborts.  (Mutant:    *)
(* the destructor does not close.)                                         *)
DestroyLeaks(e) ==
  /\ Callable(e)
  /\ kernel' = [kernel EXCEPT ![e] = NewSocket("absent")]
  /\ call' = [call EXCEPT ![e] = NoCall]
  /\ UNCHANGED <<peerDisconnected, wire, accepted, got>>
Destroy(e) ==
  /\ Callable(e)
  /\ GiveUp(e, kernel[e].rcvq # <<>>)
  /\ kernel' = [kernel EXCEPT ![e] = NewSocket("absent")]
  /\ call' = [call EXCEPT ![e] = NoCall]
  /\ UNCHANGED <<peerDisconnected, accepted, got>>

-----------------------------------------------------------------------------
CallStep(e) ==
  SendTakes(e) \/ SendFails(e) \/ PollTimesOut(e) \/ PollReturns(e) \/ RecvTakes(e) \/ RecvEnds(e)

Next ==
  \/ Connect
  \/ ConnectInterrupted
  \/ ConnectFails
  \/ Create
  \/ \E e \in Ends :
       \/ Deliver(e)
       \/ CallStep(e)
       \/ StartSend(e)
       \/ StartReceive(e)
       \/ StartTimedReceive(e)
       \/ Disconnect(e)
       \/ \E type \in {"STOP_SEND", "STOP_RECEIVE", "STOP_BOTH"} : Shutdown(e, type)
       \/ Destroy(e)

(* The kernel delivers what was sent and lets a call return when it can.   *)
(* Nobody is bound to make another call.                                   *)
Fairness == \A e \in Ends : WF_vars(CallStep(e)) /\ WF_vars(Deliver(e))

Spec == Init /\ [][Next]_vars /\ Fairness

-----------------------------------------------------------------------------
(* Properties.                                                             *)

(* Bytes are neither lost, repeated nor reordered by partial ::send()s and *)
(* partial recv()s ("the order of the sent data will be preserved"): what  *)
(* an end has read, can read and has on its way is, unless the connection  *)
(* was aborted, everything its peer has passed to send() and sendAll(),    *)
(* and in any case a prefix of it.                                         *)
Aborted(e) == kernel[e].state # "connected" \/ Contains(wire[e], RST)

StreamOrder ==
  \A e \in Ends :
    LET inbound == got[e] \o kernel[e].rcvq \o Data(wire[e])
        n == accepted[Peer(e)] IN
    /\ IsPrefix(got[e], [i \in 1..n |-> i])
    /\ kernel[e].state = "connected" => IsPrefix(inbound, [i \in 1..n |-> i])
    /\ ~Aborted(e) => Len(inbound) = n

(* sendAll sends all of the buffer or returns -1, and send and sendAll     *)
(* return -1 only with the flag set that says why (TCPSocket.h, "number of *)
(* bytes sent"; testPeerStatus).                                           *)
SendOutcome ==
  \A e \in Ends : LET c == call[e] IN
    c.pc = "returned" /\ c.op \in {"send", "sendAll"} =>
      IF c.ret = -1 THEN peerDisconnected[e]
                    ELSE c.ret = c.done /\ (c.op = "sendAll" => c.done = c.len)

(* peerDisconnected() blames the peer only if the peer has closed, aborted *)
(* or shut down the connection the socket has now.  Excepted are an end    *)
(* that stopped receiving itself, and a socket whose flag was set when an  *)
(* interrupted connect() threw.                                            *)
PeerGone(e) ==
  \/ kernel[Peer(e)].state \in {"absent", "unconnected"}
  \/ kernel[Peer(e)].shutWr

HasConnection(e) == kernel[e].state \in {"connected", "reset"}

FlagMeansPeerGone ==
  \A e \in Ends :
    /\ peerDisconnected[e] /\ HasConnection(e)
    /\ ~kernel[e].shutRd /\ ~kernel[e].staleFlag
    => PeerGone(e)

(* A timedReceive that returns 0 before its timeout has set the flag, even *)
(* when the FIN arrives between poll() and recv().                         *)
ZeroMeansTimeoutOrPeer ==
  \A e \in Ends :
    call[e].op = "timedReceive" /\ call[e].pc = "returned" /\ call[e].ret = 0
      => peerDisconnected[e]

(* An end that is told 0 bytes, not being at its timeout, has read all the *)
(* peer sent, unless it stopped receiving itself or was reset.             *)
AtEnd(e) ==
  /\ call[e].op \in {"receive", "timedReceive"}
  /\ call[e].pc = "returned" /\ call[e].ret = 0
  /\ kernel[e].state = "connected" /\ ~kernel[e].shutRd

EndOfStream == \A e \in Ends : AtEnd(e) => Len(got[e]) = accepted[Peer(e)]

ReceiveReturned(e) ==
  call[e].op \in {"receive", "timedReceive"} /\ call[e].pc = "returned"

(* receive and timedReceive return the number of bytes they have stored.   *)
(* There is one exception, and it takes a socket without a connection: the *)
(* 1 of a poll() that saw POLLHUP only.                                    *)
CountIsRead ==
  \A e \in Ends : LET c == call[e] IN
    ReceiveReturned(e) =>
      \/ c.ret = c.done
      \/ c.op = "timedReceive" /\ c.ret = 1 /\ c.done = 0 /\ ~HasConnection(e)

(* Both ends together are two streams of bytes: whatever is lost, aborted  *)
(* or half closed, nothing is received twice, out of order, from a former  *)
(* connection or after the end.                                            *)
Promise == INSTANCE ByteStream
  WITH A <- Client, B <- Session, sent <- accepted, received <- got,
       open <- [e \in Ends |-> CanSend(e)], atEnd <- [e \in Ends |-> AtEnd(e)]

ImplementsByteStream == Promise!Spec

(* A blocked receive() or timedReceive() comes back when the peer is gone. *)
ReceiveWakes ==
  \A e \in Ends : call[e].pc = "recv" /\ PeerGone(e) ~> call[e].pc # "recv"

(* timedReceive() comes back ("return after the given timespan"), or it    *)
(* has read some of what it was asked for and waits for the rest:          *)
(* SimpleSocket.cpp:90 calls receive(), whose recv() has MSG_WAITALL.      *)
TimedReceiveReturns ==
  \A e \in Ends :
    call[e].op = "timedReceive" /\ Busy(e) ~> ~Busy(e) \/ call[e].done > 0

-----------------------------------------------------------------------------
(* What makes them inductive.                                              *)

(* A ::send() that is under way fits into what the end may send, and has   *)
(* sent the first bytes of it.                                             *)
SendingOK(e) == LET c == call[e] IN
  c.pc = "send" =>
    /\ c.op \in {"send", "sendAll"}
    /\ c.done < c.len /\ c.done <= accepted[e]
    /\ accepted[e] + c.len - c.done <= MaxBytes(e)
    /\ c.op = "send" => c.done = 0

(* No ::recv() is called after poll() saw neither data nor the peer's end. *)
ReceivingOK(e) == LET c == call[e] IN
  /\ c.pc = "poll" => c.op = "timedReceive" /\ c.done = 0 /\ c.len # 0
  /\ c.pc = "recv" => c.op \in {"receive", "timedReceive"} /\ c.done < c.len
  /\ c.pc = "recv" /\ c.op = "timedReceive" /\ c.done = 0 =>
       kernel[e].rcvq # <<>> \/ peerDisconnected[e]

(* FIN and RST follow the data and are sent by a peer that is gone; only a *)
(* reset leaves an error on a connection.                                  *)
BytesFirst(segments) ==
  \A i, j \in 1..Len(segments) : i < j /\ IsByte(segments[j]) => IsByte(segments[i])

WireOK(e) ==
  /\ BytesFirst(wire[e])
  /\ \/ Contains(wire[e], FIN) \/ Contains(wire[e], RST)
     \/ kernel[e].finRcvd \/ kernel[e].state = "reset"
     => PeerGone(e)

SocketOK(e) == LET s == kernel[e] IN
  /\ s.state \in {"absent", "unconnected"} => s.rcvq = <<>> /\ ~s.finRcvd
  /\ s.state = "connected" => s.err = "none"

(* The bytes an end has read, can read and will be sent are numbered on    *)
(* end, up to what the peer has sent unless a RST cut them off.            *)
InOrder(e) ==
  LET r == Len(got[e])  q == Len(kernel[e].rcvq)
      d == DataLen(wire[e])  n == accepted[Peer(e)] IN
  /\ \A i \in 1..r : got[e][i] = i
  /\ \A i \in 1..q : kernel[e].rcvq[i] = r + i
  /\ r + q <= n
  /\ kernel[e].state = "connected" =>
       /\ \A i \in 1..d : wire[e][i] = r + q + i
       /\ r + q + d <= n
       /\ Contains(wire[e], FIN) \/ ~Contains(wire[e], RST) => r + q + d = n
       /\ kernel[e].finRcvd => d = 0 /\ r + q = n

(* A 0 is returned at the FIN.                                             *)
ZeroOK(e) == AtEnd(e) => kernel[e].finRcvd /\ kernel[e].rcvq = <<>>

(* The lengths passed to sendAll() fit into an int.                        *)
LensFitInt == \A len \in Lens : len <= IntMax

IInv ==
  /\ TypeOK
  /\ \A e \in Ends :
       /\ SendingOK(e) /\ ReceivingOK(e) /\ ZeroOK(e)
       /\ SocketOK(e) /\ WireOK(e) /\ InOrder(e)
  /\ FlagMeansPeerGone /\ ZeroMeansTimeoutOrPeer /\ CountIsRead
  /\ LensFitInt => SendOutcome

-----------------------------------------------------------------------------
(* What the documentation says and the code does not do.                   *)

(* SimpleSocket.h, send: "SocketException if sending went wrong".          *)
SendThrows == \A e \in Ends : call[e].pc # "killed"
=============================================================================
