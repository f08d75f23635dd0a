------------------------------ MODULE UDPSocket ------------------------------
(***************************************************************************)
(* A UDPSocket: bind, connect, disconnect and shutdown, send and sendTo,   *)
(* and receive, receiveFrom, timedReceive and timedReceiveFrom, the last   *)
(* four called by Threads while other threads use the rest.                *)
(*                                                                         *)
(* The program at the other end of the network is a set of peers that come *)
(* and go.  Datagrams arrive from them at any time, which covers loss,     *)
(* repetition and reordering; a datagram sent to a peer that is not there  *)
(* may be answered by an ICMP error, which the kernel (Linux) keeps as the *)
(* pending error of a connected socket until a call reports it.            *)
(***************************************************************************)
EXTENDS Integers, Sequences

CONSTANTS
  Threads,      \* threads that receive from the socket
  Peers,        \* addresses datagrams are exchanged with
  Nobody,       \* no address
  Sizes,        \* sizes of the datagrams that arrive
  Lens,         \* lengths of the buffers they are received in
  QueueLimit    \* datagrams the kernel keeps for the socket

ASSUME UDPAssumption ==
  /\ Nobody \notin Peers
  /\ Sizes \subseteq Nat /\ Lens \subseteq Nat /\ QueueLimit \in Nat

VARIABLES
  peerDisconnected,   \* m_peerDisconnected
  kernel,             \* the socket in the kernel
  alive,              \* peers that are there
  flying,             \* peers a datagram of the socket is on its way to
  call                \* the receiving call of every thread, or its result

vars == <<peerDisconnected, kernel, alive, flying, call>>

Datagram == [from : Peers, size : Sizes]
NoDatagram == [from |-> Nobody, size |-> 0]

(* bound: whether the socket has a port, chosen by itself or by the        *)
(* kernel.  peer: the address it is connected to.  err: ECONNREFUSED is    *)
(* pending.                                                                *)
KernelType ==
  [open : BOOLEAN, bound : {"no", "auto", "explicit"}, peer : Peers \cup {Nobody},
   queue : Seq(Datagram), err : BOOLEAN, shutRd : BOOLEAN, shutWr : BOOLEAN]

(* got is the datagram the call has taken.                                 *)
CallType ==
  [op : {"none", "receive", "receiveFrom", "timedReceive", "timedReceiveFrom"},
   pc : {"idle", "poll", "recv", "returned", "timedOut", "threw"},
   len : Lens \cup {0}, ret : Nat, got : Datagram \cup {NoDatagram}]

TypeOK ==
  /\ peerDisconnected \in BOOLEAN
  /\ kernel \in KernelType /\ Len(kernel.queue) <= QueueLimit
  /\ alive \in SUBSET Peers
  /\ flying \in SUBSET Peers
  /\ call \in [Threads -> CallType]

NewSocket == [open |-> TRUE, bound |-> "no", peer |-> Nobody, queue |-> <<>>,
              err |-> FALSE, shutRd |-> FALSE, shutWr |-> FALSE]

NoCall == [op |-> "none", pc |-> "idle", len |-> 0, ret |-> 0, got |-> NoDatagram]

Init ==
  /\ peerDisconnected = FALSE
  /\ kernel = NewSocket
  /\ alive \in SUBSET Peers
  /\ flying = {}
  /\ call = [t \in Threads |-> NoCall]

-----------------------------------------------------------------------------
(* The network and the peers.                                              *)

Connected == kernel.peer # Nobody

(* A connected socket is sent datagrams by its peer only; those it has got *)
(* before stay.                                                            *)
Arrive(p, size) ==
  /\ kernel.open /\ kernel.bound # "no"
  /\ p \in alive
  /\ Connected => p = kernel.peer
  /\ Len(kernel.queue) < QueueLimit
  /\ kernel' = [kernel EXCEPT !.queue = Append(@, [from |-> p, size |-> size])]
  /\ UNCHANGED <<peerDisconnected, alive, flying, call>>

(* A datagram of the socket arrives at p, or is lost.  If p is not there   *)
(* an ICMP error may come back.                                            *)
Land(p) ==
  /\ p \in flying
  /\ flying' = flying \ {p}
  /\ \/ UNCHANGED kernel
     \/ /\ p \notin alive
        /\ kernel.open /\ kernel.peer = p
        /\ kernel' = [kernel EXCEPT !.err = TRUE]
  /\ UNCHANGED <<peerDisconnected, alive, call>>

ComeAndGo(p) ==
  /\ alive' = IF p \in alive THEN alive \ {p} ELSE alive \cup {p}
  /\ UNCHANGED <<peerDisconnected, kernel, flying, call>>

-----------------------------------------------------------------------------
(* Addresses.  None of these calls waits.                                  *)

Busy(t) == call[t].pc \in {"poll", "recv"}

AutoBound == IF kernel.bound = "no" THEN "auto" ELSE kernel.bound

(* bind() of a socket that has a port throws.                              *)
Bind ==
  /\ kernel.open /\ kernel.bound = "no"
  /\ kernel' = [kernel EXCEPT !.bound = "explicit"]
  /\ UNCHANGED <<peerDisconnected, alive, flying, call>>

(* connect() leaves the queue and the pending error alone.                 *)
Connect(p) ==
  /\ kernel.open
  /\ kernel' = [kernel EXCEPT !.peer = p, !.bound = AutoBound]
  /\ peerDisconnected' = FALSE
  /\ UNCHANGED <<alive, flying, call>>

(* disconnect(): ::connect() succeeds, so the flag is not touched.  A port *)
(* of the kernel's choice is given back.                                   *)
Disconnect ==
  /\ kernel.open
  /\ kernel' = [kernel EXCEPT !.peer = Nobody,
                              !.bound = IF @ = "auto" THEN "no" ELSE @]
  /\ UNCHANGED <<peerDisconnected, alive, flying, call>>

(* shutdown(); it throws if the socket is not connected, but has the same  *)
(* effect.                                                                 *)
Shutdown(type) ==
  /\ kernel.open
  /\ kernel' = [kernel EXCEPT !.shutRd = @ \/ type \in {"STOP_RECEIVE", "STOP_BOTH"},
                              !.shutWr = @ \/ type \in {"STOP_SEND", "STOP_BOTH"}]
  /\ UNCHANGED <<peerDisconnected, alive, flying, call>>

Destroy ==
  /\ kernel.open
  /\ \A t \in Threads : ~Busy(t)
  /\ kernel' = [NewSocket EXCEPT !.open = FALSE]
  /\ UNCHANGED <<peerDisconnected, alive, flying, call>>

Create ==
  /\ ~kernel.open
  /\ kernel' = NewSocket
  /\ peerDisconnected' = FALSE
  /\ call' = [t \in Threads |-> NoCall]
  /\ UNCHANGED <<alive, flying>>

-----------------------------------------------------------------------------
(* Sending.  A pending error is reported instead.                          *)

(* send() throws without a peer, and on EPIPE; ECONNREFUSED sets the flag. *)
Send ==
  /\ kernel.open /\ Connected
  /\ \/ /\ kernel.err
        /\ kernel' = [kernel EXCEPT !.err = FALSE]
        /\ peerDisconnected' = TRUE
        /\ UNCHANGED flying
     \/ /\ ~kernel.err /\ ~kernel.shutWr
        /\ flying' = flying \cup {kernel.peer}
        /\ UNCHANGED <<peerDisconnected, kernel>>
  /\ UNCHANGED <<alive, call>>

(* sendTo() throws on any error.  The address that is given counts, also   *)
(* on a connected socket.                                                  *)
SendTo(p) ==
  /\ kernel.open
  /\ kernel' = [kernel EXCEPT !.err = FALSE, !.bound = AutoBound]
  /\ flying' = IF kernel.err \/ kernel.shutWr THEN flying ELSE flying \cup {p}
  /\ UNCHANGED <<peerDisconnected, alive, call>>

-----------------------------------------------------------------------------
(* Receiving.                                                              *)

Begin(t, op, pc) ==
  \E len \in Lens :
    /\ kernel.open
    /\ ~Busy(t)
    /\ call' = [call EXCEPT ![t] =
                  [op |-> op, pc |-> pc, len |-> len, ret |-> 0, got |-> NoDatagram]]
    /\ UNCHANGED <<peerDisconnected, kernel, alive, flying>>

StartReceive(t) == \E op \in {"receive", "receiveFrom"} : Begin(t, op, "recv")

StartTimedReceive(t) == \E op \in {"timedReceive", "timedReceiveFrom"} : Begin(t, op, "poll")

Reported ==
  [POLLIN    |-> kernel.queue # <<>> \/ kernel.shutRd,
   POLLRDHUP |-> kernel.shutRd,
   POLLHUP   |-> kernel.shutRd /\ kernel.shutWr,
   POLLERR   |-> kernel.err]

PollIsReady == \E x \in DOMAIN Reported : Reported[x]

(* poll() runs into its timeout.  (Mutant: it is taken for a datagram.)    *)
PollTimesOutUnnoticed(t) ==
  /\ call[t].pc = "poll"
  /\ ~PollIsReady
  /\ call' = [call EXCEPT ![t].pc = "recv"]
  /\ UNCHANGED <<peerDisconnected, kernel, alive, flying>>
PollTimesOut(t) ==
  /\ call[t].pc = "poll"
  /\ ~PollIsReady
  /\ call' = [call EXCEPT ![t].pc = "timedOut"]
  /\ UNCHANGED <<peerDisconnected, kernel, alive, flying>>

(* poll() returns 1.  Without POLLIN timedReceiveFrom returns 0, and       *)
(* timedReceive that 1; the pending error stays.  (Mutant: POLLERR alone   *)
(* decides.)                                                               *)
PollGivesUpOnError(t) ==
  /\ call[t].pc = "poll"
  /\ PollIsReady
  /\ peerDisconnected' = (peerDisconnected \/ Reported.POLLRDHUP)
  /\ call' = [call EXCEPT ![t] =
       IF ~Reported.POLLERR
         THEN [@ EXCEPT !.pc = "recv"]
         ELSE [@ EXCEPT !.pc = "returned", !.ret = IF call[t].op = "timedReceive" THEN 1 ELSE 0]]
  /\ UNCHANGED <<kernel, alive, flying>>
PollReturns(t) ==
  /\ call[t].pc = "poll"
  /\ PollIsReady
  /\ peerDisconnected' = (peerDisconnected \/ Reported.POLLRDHUP)
  /\ call' = [call EXCEPT ![t] =
       IF Reported.POLLIN
         THEN [@ EXCEPT !.pc = "recv"]
         ELSE [@ EXCEPT !.pc = "returned", !.ret = IF call[t].op = "timedReceive" THEN 1 ELSE 0]]
  /\ UNCHANGED <<kernel, alive, flying>>

(* ::recv() and ::recvfrom() take a whole datagram; what does not fit is   *)
(* discarded.  MSG_WAITALL means nothing here.                             *)
Stored(d, len) == IF d.size < len THEN d.size ELSE len

RecvTakes(t) ==
  LET d == Head(kernel.queue) IN
  /\ call[t].pc = "recv"
  /\ ~kernel.err /\ kernel.queue # <<>>
  /\ kernel' = [kernel EXCEPT !.queue = Tail(@)]
  /\ call' = [call EXCEPT ![t].pc = "returned", ![t].got = d,
                          ![t].ret = Stored(d, call[t].len)]
  /\ UNCHANGED <<peerDisconnected, alive, flying>>

(* The pending error comes before any datagram.  (Mutants: -1 is returned; *)
(* a datagram is read before the error is looked at.)                      *)
RecvReturnsError(t) ==
  /\ call[t].pc = "recv"
  /\ kernel.err
  /\ kernel' = [kernel EXCEPT !.err = FALSE]
  /\ call' = [call EXCEPT ![t].pc = "returned", ![t].ret = -1]
  /\ UNCHANGED <<peerDisconnected, alive, flying>>
RecvThrowsLate(t) ==
  /\ call[t].pc = "recv"
  /\ kernel.err
  /\ kernel' = [kernel EXCEPT !.err = FALSE,
                              !.queue = IF @ = <<>> THEN @ ELSE Tail(@)]
  /\ call' = [call EXCEPT ![t].pc = "threw"]
  /\ UNCHANGED <<peerDisconnected, alive, flying>>
RecvThrows(t) ==
  /\ call[t].pc = "recv"
  /\ kernel.err
  /\ kernel' = [kernel EXCEPT !.err = FALSE]
  /\ call' = [call EXCEPT ![t].pc = "threw"]
  /\ UNCHANGED <<peerDisconnected, alive, flying>>

RecvEnds(t) ==
  /\ call[t].pc = "recv"
  /\ ~kernel.err /\ kernel.queue = <<>> /\ kernel.shutRd
  /\ call' = [call EXCEPT ![t].pc = "returned"]
  /\ UNCHANGED <<peerDisconnected, kernel, alive, flying>>

-----------------------------------------------------------------------------
CallStep(t) ==
  PollTimesOut(t) \/ PollReturns(t) \/ RecvTakes(t) \/ RecvThrows(t) \/ RecvEnds(t)

Next ==
  \/ \E p \in Peers :
       \/ \E size \in Sizes : Arrive(p, size)
       \/ Land(p) \/ ComeAndGo(p)
       \/ Connect(p) \/ SendTo(p)
  \/ Bind \/ Disconnect \/ Send \/ Destroy \/ Create
  \/ \E type \in {"STOP_SEND", "STOP_RECEIVE", "STOP_BOTH"} : Shutdown(type)
  \/ \E t \in Threads : StartReceive(t) \/ StartTimedReceive(t) \/ CallStep(t)

(* A call goes on when the kernel lets it.  Nothing is promised of the     *)
(* network.                                                                *)
Spec == Init /\ [][Next]_vars /\ \A t \in Threads : WF_vars(CallStep(t))

-----------------------------------------------------------------------------
(* Properties.                                                             *)

Timed(t) == call[t].op \in {"timedReceive", "timedReceiveFrom"}

(* timedReceive and timedReceiveFrom do not come back empty-handed from    *)
(* poll() while a datagram is there, also if an error is pending.          *)
NoDatagramMissed ==
  [][\A t \in Threads :
       call[t].pc = "poll" /\ call'[t].pc \in {"returned", "timedOut"}
         => kernel.queue = <<>>]_vars

(* Datagrams are received once and in order, and none is lost to a call    *)
(* that throws: the error of one datagram that was sent does not cost one  *)
(* that was received.                                                      *)
Promise == INSTANCE DatagramBox WITH
  Readers <- Threads, Datagrams <- Datagram, Nothing <- NoDatagram,
  open <- kernel.open, box <- kernel.queue, taken <- [t \in Threads |-> call[t].got]

ImplementsDatagramBox == Promise!Spec

(* Behind poll() a timed call of the only thread that receives does not    *)
(* wait: there is a datagram or the end, whatever other threads send,      *)
(* report, connect and disconnect in between.                              *)
AnsweredAtOnce ==
  \A t \in Threads :
    Timed(t) /\ call[t].pc = "recv" => kernel.queue # <<>> \/ kernel.shutRd

(* A timed call comes back ("return after the given timespan"), also if    *)
(* others take the error or the peer that woke it.                         *)
TimedReceiveReturns ==
  \A t \in Threads : Timed(t) /\ Busy(t) ~> ~Busy(t)

-----------------------------------------------------------------------------
(* What makes them inductive.                                              *)

(* A socket that is closed has no datagrams left.                          *)
ClosedIsEmpty == ~kernel.open => kernel.queue = <<>>

(* A call has a datagram only when it is over.                             *)
NoneYet == \A t \in Threads : Busy(t) => call[t].got = NoDatagram

IInv == TypeOK /\ ClosedIsEmpty /\ NoneYet
=============================================================================
