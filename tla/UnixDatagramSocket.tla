------------------------- MODULE UnixDatagramSocket -------------------------
(***************************************************************************)
(* UnixDatagramSockets of several processes and the paths they are bound   *)
(* to: UnixSocket::bind and connect, SimpleSocket::send, receive,          *)
(* timedReceive, disconnect and shutdown, and sendTo, receiveFrom and      *)
(* timedReceiveFrom.  A socket is used by one thread.                      *)
(*                                                                         *)
(* The kernel is Linux: datagrams are neither lost nor reordered, a sender *)
(* waits while the receiver's queue is full, a connection is one to a      *)
(* socket and not to its path, and a path outlives its socket.  Paths are  *)
(* in a directory that the processes, and others, may write to.            *)
(***************************************************************************)
EXTENDS Integers, Sequences

CONSTANTS
  Sockets,
  Paths,
  Unnamed,      \* the name of a socket that is not bound
  Nobody,       \* no socket
  Dead,         \* a socket that was closed
  File,         \* what else can be at a path: a file, the socket of an earlier run
  QueueLimit    \* datagrams the kernel keeps for a socket, a bound of the model

ASSUME UnixAssumption ==
  /\ {Nobody, Dead, File} \cap Sockets = {} /\ Nobody # Dead /\ File \notin {Nobody, Dead}
  /\ Unnamed \notin Paths
  /\ QueueLimit \in Nat \ {0}

VARIABLES
  peerDisconnected,   \* m_peerDisconnected of the sockets
  node,               \* file system: the socket a path leads to
  kernel,             \* the sockets in the kernel
  call                \* the call every socket is in, or how its last one ended

vars == <<peerDisconnected, node, kernel, call>>

(* The kernel reads the name of a sender when the datagram is received.    *)
Datagram == [sender : Sockets \cup {Dead}, name : Paths \cup {Unnamed}]

(* err: ECONNRESET is pending; shut: the directions that are shut down.    *)
KernelType ==
  [open : BOOLEAN, name : Paths \cup {Unnamed}, peer : Sockets \cup {Nobody, Dead},
   queue : Seq(Datagram), err : BOOLEAN, shut : SUBSET {"rd", "wr"}]

(* target is the socket the datagram of a call goes to.                    *)
CallType ==
  [op : {"none", "bind", "send", "sendTo",
         "receive", "receiveFrom", "timedReceive", "timedReceiveFrom"},
   pc : {"idle", "bind", "send", "poll", "recv", "returned", "threw"},
   path : Paths \cup {Unnamed}, target : Sockets \cup {Nobody, Dead}]

TypeOK ==
  /\ peerDisconnected \in [Sockets -> BOOLEAN]
  /\ node \in [Paths -> Sockets \cup {Nobody, Dead, File}]
  /\ kernel \in [Sockets -> KernelType]
  /\ call \in [Sockets -> CallType]

NewSocket == [open |-> TRUE, name |-> Unnamed, peer |-> Nobody, queue |-> <<>>,
              err |-> FALSE, shut |-> {}]

NoCall == [op |-> "none", pc |-> "idle", path |-> Unnamed, target |-> Nobody]

Init ==
  /\ peerDisconnected = [s \in Sockets |-> FALSE]
  /\ node \in [Paths -> {Nobody, File}]
  /\ kernel = [s \in Sockets |-> NewSocket]
  /\ call = [s \in Sockets |-> NoCall]

-----------------------------------------------------------------------------
(* The kernel.                                                             *)

(* A socket that is connected takes datagrams from its peer only.          *)
MaySend(s, o) == kernel[o].peer \in {Nobody, s}

HasRoom(o) == Len(kernel[o].queue) < QueueLimit

(* The peer of s becomes new.  What s has not read of the old one is lost, *)
(* and a living old peer that is connected to s is told so.                *)
WithPeer(s, new) ==
  LET old == kernel[s].peer
      loses == old \notin {Nobody, new} /\ kernel[s].queue # <<>> IN
  [o \in Sockets |->
     IF o = s
       THEN [kernel[s] EXCEPT !.peer = new, !.queue = IF loses THEN <<>> ELSE @]
       ELSE [kernel[o] EXCEPT !.err = @ \/ (loses /\ o = old /\ kernel[o].peer = s)]]

(* s has been bound to p: its datagrams that nobody has read get the name. *)
Renamed(s, p) ==
  [o \in Sockets |->
     [kernel[o] EXCEPT
        !.name  = IF o = s THEN p ELSE @,
        !.queue = [i \in DOMAIN @ |-> IF @[i].sender = s THEN [@[i] EXCEPT !.name = p] ELSE @[i]]]]

(* Other programs put a file at a path that is free, and remove what is    *)
(* there, be it the path of a living socket.                               *)
OthersChange(p) ==
  /\ node' = [node EXCEPT ![p] = IF @ = Nobody THEN File ELSE Nobody]
  /\ UNCHANGED <<peerDisconnected, kernel, call>>

(* The socket s is gone for everybody else.                                *)
Without(s, x) == IF x = s THEN Dead ELSE x

Orphaned(s, queue) ==
  [i \in DOMAIN queue |-> [queue[i] EXCEPT !.sender = Without(s, @)]]

-----------------------------------------------------------------------------
(* Calls.                                                                  *)

Busy(s) == call[s].pc \in {"bind", "send", "poll", "recv"}

Callable(s) == kernel[s].open /\ ~Busy(s)

Enter(s, op, pc, path, target) ==
  call' = [call EXCEPT ![s] = [op |-> op, pc |-> pc, path |-> path, target |-> target]]

Done(s, result) == call' = [call EXCEPT ![s] = [NoCall EXCEPT !.pc = result]]

-----------------------------------------------------------------------------
(* Names and connections.                                                  *)

(* bind(): ::unlink() first, of whatever is there.  It can fail (EISDIR at *)
(* a directory, EPERM in a sticky one), and nobody looks at its result.    *)
StartBind(s, p) ==
  /\ Callable(s)
  /\ \E left \in {Nobody, node[p]} : node' = [node EXCEPT ![p] = left]
  /\ Enter(s, "bind", "bind", p, Nobody)
  /\ UNCHANGED <<peerDisconnected, kernel>>

(* ::bind() fails if something is at the path or the socket has a name.    *)
BindEnds(s) ==
  LET p == call[s].path IN
  /\ call[s].pc = "bind"
  /\ \/ /\ node[p] = Nobody /\ kernel[s].name = Unnamed
        /\ node' = [node EXCEPT ![p] = s]
        /\ kernel' = Renamed(s, p)
        /\ Done(s, "returned")
     \/ /\ node[p] # Nobody \/ kernel[s].name # Unnamed
        /\ Done(s, "threw")
        /\ UNCHANGED <<node, kernel>>
  /\ UNCHANGED peerDisconnected

Connect(s, p) ==
  /\ Callable(s)
  /\ \/ /\ node[p] \in Sockets /\ MaySend(s, node[p])
        /\ kernel' = WithPeer(s, node[p])
        /\ Done(s, "returned")
     \/ /\ node[p] \in Sockets => ~MaySend(s, node[p])
        /\ Done(s, "threw")
        /\ UNCHANGED kernel
  /\ UNCHANGED <<peerDisconnected, node>>

(* disconnect(): ::connect() succeeds, so the flag stays.                  *)
Disconnect(s) ==
  /\ Callable(s)
  /\ kernel' = WithPeer(s, Nobody)
  /\ Done(s, "returned")
  /\ UNCHANGED <<peerDisconnected, node>>

(* shutdown(): a connection is not needed, and the peer is not told.       *)
Shutdown(s, directions) ==
  /\ Callable(s)
  /\ kernel' = [kernel EXCEPT ![s].shut = @ \cup directions]
  /\ Done(s, "returned")
  /\ UNCHANGED <<peerDisconnected, node>>

(* The destructor leaves the path alone.  (Mutant: it unlinks it.)         *)
DestroyUnlinks(s) ==
  /\ Callable(s)
  /\ kernel' = [o \in Sockets |->
       IF o = s THEN [NewSocket EXCEPT !.open = FALSE]
                ELSE [kernel[o] EXCEPT !.peer = Without(s, @), !.queue = Orphaned(s, @)]]
  /\ node' = [p \in Paths |-> IF p = kernel[s].name THEN Nobody ELSE Without(s, node[p])]
  /\ call' = [o \in Sockets |->
       IF o = s THEN [NoCall EXCEPT !.pc = "returned"] ELSE [call[o] EXCEPT !.target = Without(s, @)]]
  /\ peerDisconnected' = [peerDisconnected EXCEPT ![s] = FALSE]
Destroy(s) ==
  /\ Callable(s)
  /\ kernel' = [o \in Sockets |->
       IF o = s THEN [NewSocket EXCEPT !.open = FALSE]
                ELSE [kernel[o] EXCEPT !.peer = Without(s, @), !.queue = Orphaned(s, @)]]
  /\ node' = [p \in Paths |-> Without(s, node[p])]
  /\ call' = [o \in Sockets |->
       IF o = s THEN [NoCall EXCEPT !.pc = "returned"] ELSE [call[o] EXCEPT !.target = Without(s, @)]]
  /\ peerDisconnected' = [peerDisconnected EXCEPT ![s] = FALSE]

(* (Mutant: the flag is not initialised.)                                  *)
CreateUninitialised(s) ==
  /\ ~kernel[s].open
  /\ kernel' = [kernel EXCEPT ![s] = NewSocket]
  /\ peerDisconnected' = [peerDisconnected EXCEPT ![s] = Unnamed]
  /\ UNCHANGED <<node, call>>
Create(s) ==
  /\ ~kernel[s].open
  /\ kernel' = [kernel EXCEPT ![s] = NewSocket]
  /\ peerDisconnected' = [peerDisconnected EXCEPT ![s] = FALSE]
  /\ UNCHANGED <<node, call>>

-----------------------------------------------------------------------------
(* send() and sendTo().                                                    *)

(* ENOTCONN and EPIPE make send() throw, ECONNRESET and ECONNREFUSED make  *)
(* it set the flag and return -1.  (Mutant: any error does.)               *)
StartSendBlamesPeer(s) ==
  /\ Callable(s)
  /\ \/ /\ kernel[s].peer = Nobody \/ kernel[s].err
        /\ kernel' = [kernel EXCEPT ![s].err = FALSE]
        /\ peerDisconnected' = [peerDisconnected EXCEPT ![s] = TRUE]
        /\ Done(s, "returned")
     \/ /\ kernel[s].peer # Nobody /\ ~kernel[s].err
        /\ Enter(s, "send", "send", Unnamed, kernel[s].peer)
        /\ UNCHANGED <<peerDisconnected, kernel>>
  /\ UNCHANGED node
StartSend(s) ==
  /\ Callable(s)
  /\ \/ /\ kernel[s].peer = Nobody
        /\ Done(s, "threw")
        /\ UNCHANGED <<peerDisconnected, kernel>>
     \/ /\ kernel[s].peer # Nobody /\ kernel[s].err
        /\ kernel' = [kernel EXCEPT ![s].err = FALSE]
        /\ peerDisconnected' = [peerDisconnected EXCEPT ![s] = TRUE]
        /\ Done(s, "returned")
     \/ /\ kernel[s].peer # Nobody /\ ~kernel[s].err
        /\ IF "wr" \in kernel[s].shut
             THEN Done(s, "threw")
             ELSE Enter(s, "send", "send", Unnamed, kernel[s].peer)
        /\ UNCHANGED <<peerDisconnected, kernel>>
  /\ UNCHANGED node

StartSendTo(s, p) ==
  /\ Callable(s)
  /\ IF ~kernel[s].err /\ "wr" \notin kernel[s].shut /\ node[p] \in Sockets
       THEN Enter(s, "sendTo", "send", p, node[p])
       ELSE Done(s, "threw")
  /\ kernel' = [kernel EXCEPT ![s].err = FALSE]
  /\ UNCHANGED <<peerDisconnected, node>>

SendTakes(s) ==
  LET o == call[s].target IN
  /\ call[s].pc = "send"
  /\ o \in Sockets /\ MaySend(s, o) /\ HasRoom(o) /\ "rd" \notin kernel[o].shut
  /\ kernel' = [kernel EXCEPT ![o].queue =
                  Append(@, [sender |-> s, name |-> kernel[s].name])]
  /\ Done(s, "returned")
  /\ UNCHANGED <<peerDisconnected, node>>

(* The receiver has connected to somebody else (EPERM) or does not receive *)
(* any more (EPIPE, without a signal).                                     *)
SendDenied(s) ==
  LET o == call[s].target IN
  /\ call[s].pc = "send"
  /\ o \in Sockets /\ (~MaySend(s, o) \/ "rd" \in kernel[o].shut)
  /\ Done(s, "threw")
  /\ UNCHANGED <<peerDisconnected, node, kernel>>

(* The receiver is gone: ECONNREFUSED if it was the peer, which is given   *)
(* up; otherwise the path is looked up again.  One that is gone is Dead,   *)
(* whichever it was: a peer and a receiver may be two of them.             *)
SendRefused(s) ==
  /\ call[s].pc = "send" /\ call[s].target = Dead
  /\ kernel[s].peer = Dead
  /\ kernel' = WithPeer(s, Nobody)
  /\ \/ /\ call[s].op = "send"
        /\ peerDisconnected' = [peerDisconnected EXCEPT ![s] = TRUE]
        /\ Done(s, "returned")
     \/ /\ call[s].op = "sendTo"
        /\ Done(s, "threw")
        /\ UNCHANGED peerDisconnected
  /\ UNCHANGED node

SendLooksUpAgain(s) ==
  LET p == call[s].path IN
  /\ call[s].pc = "send" /\ call[s].target = Dead
  /\ call[s].op = "sendTo"
  /\ IF node[p] \in Sockets
       THEN Enter(s, "sendTo", "send", p, node[p])
       ELSE Done(s, "threw")
  /\ UNCHANGED <<peerDisconnected, node, kernel>>

-----------------------------------------------------------------------------
(* Receiving.                                                              *)

StartReceive(s) ==
  \E op \in {"receive", "receiveFrom"} :
    /\ Callable(s)
    /\ Enter(s, op, "recv", Unnamed, Nobody)
    /\ UNCHANGED <<peerDisconnected, node, kernel>>

StartTimedReceive(s) ==
  \E op \in {"timedReceive", "timedReceiveFrom"} :
    /\ Callable(s)
    /\ Enter(s, op, "poll", Unnamed, Nobody)
    /\ UNCHANGED <<peerDisconnected, node, kernel>>

POLLRDHUP(s) == "rd" \in kernel[s].shut
POLLIN(s) == kernel[s].queue # <<>> \/ POLLRDHUP(s)
POLLERR(s) == kernel[s].err

PollTimesOut(s) ==
  /\ call[s].pc = "poll"
  /\ ~POLLIN(s) /\ ~POLLERR(s)
  /\ Done(s, "returned")
  /\ UNCHANGED <<peerDisconnected, node, kernel>>

(* With POLLIN timedReceiveFrom() calls receiveFrom(), and timedReceive()  *)
(* does what receive() does.                                               *)
PollReturns(s) ==
  /\ call[s].pc = "poll"
  /\ POLLIN(s) \/ POLLERR(s)
  /\ IF POLLIN(s)
       THEN Enter(s, IF call[s].op = "timedReceive" THEN "receive" ELSE "receiveFrom",
                  "recv", Unnamed, Nobody)
       ELSE Done(s, "returned")
  /\ peerDisconnected' = [peerDisconnected EXCEPT ![s] = @ \/ POLLRDHUP(s)]
  /\ UNCHANGED <<node, kernel>>

(* extractPath() counts the bytes of a name: of none it makes a length     *)
(* beyond all strings, and std::string throws.                             *)
ExtractPathThrows(name) == name = Unnamed

NeedsPath(s) == call[s].op = "receiveFrom"

RecvTakes(s) ==
  LET d == Head(kernel[s].queue) IN
  /\ call[s].pc = "recv"
  /\ ~kernel[s].err /\ kernel[s].queue # <<>>
  /\ kernel' = [kernel EXCEPT ![s].queue = Tail(@)]
  /\ Done(s, IF NeedsPath(s) /\ ExtractPathThrows(d.name) THEN "threw" ELSE "returned")
  /\ UNCHANGED <<peerDisconnected, node>>

(* The pending error comes before any datagram.  (Mutant: a datagram is    *)
(* read before the error is looked at.)                                    *)
RecvThrowsLate(s) ==
  /\ call[s].pc = "recv"
  /\ kernel[s].err
  /\ kernel' = [kernel EXCEPT ![s].err = FALSE,
                              ![s].queue = IF @ = <<>> THEN @ ELSE Tail(@)]
  /\ Done(s, "threw")
  /\ UNCHANGED <<peerDisconnected, node>>
RecvThrows(s) ==
  /\ call[s].pc = "recv"
  /\ kernel[s].err
  /\ kernel' = [kernel EXCEPT ![s].err = FALSE]
  /\ Done(s, "threw")
  /\ UNCHANGED <<peerDisconnected, node>>

(* After shutdown() the kernel returns 0 bytes, and an address of none.    *)
RecvEnds(s) ==
  /\ call[s].pc = "recv"
  /\ ~kernel[s].err /\ kernel[s].queue = <<>> /\ POLLRDHUP(s)
  /\ Done(s, IF NeedsPath(s) /\ ExtractPathThrows(Unnamed) THEN "threw" ELSE "returned")
  /\ UNCHANGED <<peerDisconnected, node, kernel>>

-----------------------------------------------------------------------------
CallStep(s) ==
  \/ BindEnds(s)
  \/ SendTakes(s) \/ SendDenied(s) \/ SendRefused(s) \/ SendLooksUpAgain(s)
  \/ PollTimesOut(s) \/ PollReturns(s) \/ RecvTakes(s) \/ RecvThrows(s) \/ RecvEnds(s)

Next ==
  \/ \E p \in Paths : OthersChange(p)
  \/ \E s \in Sockets :
       \/ \E p \in Paths : StartBind(s, p) \/ Connect(s, p) \/ StartSendTo(s, p)
       \/ Disconnect(s) \/ Destroy(s) \/ Create(s)
       \/ \E directions \in (SUBSET {"rd", "wr"}) \ {{}} : Shutdown(s, directions)
       \/ StartSend(s) \/ StartReceive(s) \/ StartTimedReceive(s)
       \/ CallStep(s)

Spec == Init /\ [][Next]_vars

-----------------------------------------------------------------------------
(* Properties.                                                             *)

(* The flag is raised only for a peer that is gone or has given up the     *)
(* connection, or by a timed call after the socket's own shutdown(); a     *)
(* peer that only stops receiving does not raise it.                       *)
FlagHasReason ==
  [][\A s \in Sockets :
       ~peerDisconnected[s] /\ peerDisconnected'[s] =>
         kernel[s].err \/ kernel[s].peer = Dead \/ "rd" \in kernel[s].shut]_vars

(* bind() takes the path of a living socket away, its own too, even when   *)
(* it fails afterwards.  Only that does, and other programs: not a bind()  *)
(* that finds a rival at its path, and not the end of the socket that had  *)
(* the path before.                                                        *)
Binds(r, p) == ~Busy(r) /\ call'[r].pc = "bind" /\ call'[r].path = p

PathIsKept ==
  [][\A s \in Sockets, p \in Paths :
       node[p] = s /\ node'[p] # s =>
         ~kernel'[s].open \/ OthersChange(p) \/ \E r \in Sockets : Binds(r, p)]_vars

(* A datagram without a name, whose sender has none now.                   *)
OfUnnamed(d) ==
  d.name = Unnamed /\ (d.sender \in Sockets => kernel[d.sender].name = Unnamed)

(* A call that throws loses a datagram only if the receiver asked for the  *)
(* name of the sender and the sender has none, not even one it was given   *)
(* after it sent, or if sendTo() found out that the peer is gone: the      *)
(* kernel drops what it had sent.                                          *)
Throws(s) == Busy(s) /\ call'[s].pc = "threw"

LostOnlyIfUnnamed ==
  [][\A s \in Sockets :
       Throws(s) /\ kernel'[s].queue # kernel[s].queue =>
         \/ NeedsPath(s) /\ OfUnnamed(Head(kernel[s].queue))
         \/ call[s].op = "sendTo" /\ kernel[s].peer = Dead]_vars

-----------------------------------------------------------------------------
(* What makes them inductive.                                              *)

(* bind() and sendTo() keep the path they were called with.                *)
PathKept ==
  \A s \in Sockets :
    /\ call[s].pc = "bind" => call[s].path \in Paths
    /\ call[s].pc = "send" /\ call[s].op = "sendTo" => call[s].path \in Paths

(* The name a datagram arrives with is that of its sender.                 *)
NamesAreTrue ==
  \A o \in Sockets : \A i \in DOMAIN kernel[o].queue :
    LET d == kernel[o].queue[i] IN
      d.sender \in Sockets => d.name = kernel[d.sender].name

(* A socket that is closed is in no call and has no name.                  *)
OpenInCall == \A s \in Sockets : Busy(s) => kernel[s].open
ClosedIsUnnamed == \A s \in Sockets : ~kernel[s].open => kernel[s].name = Unnamed

IInv ==
  /\ TypeOK
  /\ PathKept /\ NamesAreTrue /\ OpenInCall /\ ClosedIsUnnamed
=============================================================================
