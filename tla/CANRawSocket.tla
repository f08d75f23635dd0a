---------------------------- MODULE CANRawSocket ----------------------------
(***************************************************************************)
(* A CANRawSocket used by one thread, with the functions of CANSocket and  *)
(* SimpleSocket it inherits, while CAN interfaces are plugged in, pulled   *)
(* out, renamed and switched on and off.  The library knows interfaces by  *)
(* name, the kernel (Linux, net/can/raw.c) by an index that is not used    *)
(* again.                                                                  *)
(***************************************************************************)
EXTENDS Integers, Sequences

CONSTANTS
  Names,        \* names of interfaces
  NoName,       \* the empty name: all interfaces; and the name of what is gone
  LongName,     \* a name of IF_NAMESIZE bytes
  MaxIndex,     \* interfaces plugged in, one after the other, a bound of the model
  PtrSize,      \* sizeof(filter): the size of a pointer
  Lens,         \* numbers of filters
  QueueLimit    \* frames the kernel keeps for the socket, a bound of the model

FilterSize == 8   \* sizeof(can_filter)
MaskSize   == 4   \* sizeof(can_err_mask_t)

ASSUME CANAssumption ==
  /\ NoName \notin Names \cup {LongName} /\ LongName \notin Names
  /\ MaxIndex \in Nat \ {0} /\ PtrSize \in {4, 8} /\ Lens \subseteq Nat
  /\ QueueLimit \in Nat \ {0}

Index == 1..MaxIndex

VARIABLES
  netdev,    \* kernel: name and state of the interface with an index
  plugged,   \* the last index that was given to an interface
  sock,      \* kernel: the socket
  asked,     \* the name last given to bind(), and whether the interface the
             \* socket is bound to was renamed since bind() looked it up: history
  call       \* the call the thread is in, or how its last one ended

vars == <<netdev, plugged, sock, asked, call>>

(* ifindex 0 stands for all interfaces; a frame is the interface it came   *)
(* from.  err: ENODEV or ENETDOWN is pending.                              *)
SockType ==
  [bound : BOOLEAN, ifindex : Index \cup {0}, err : BOOLEAN, queue : Seq(Index),
   filters : Nat, loopback : BOOLEAN, own : BOOLEAN]

Receivers == {"receive", "timedReceive", "receiveFrom", "timedReceiveFrom"}

(* dev is the index a name was found for or that came with a frame; frame  *)
(* is where the frame really is from.  renamed: the interface bind() or    *)
(* sendTo() has found was renamed since (history).                         *)
CallType ==
  [op : {"none", "bind", "sendTo", "getLocalInterface"} \cup Receivers,
   pc : {"idle", "act", "poll", "recv", "name", "returned", "threw"},
   dev : Index \cup {0}, frame : Index \cup {0}, name : Names \cup {NoName},
   renamed : BOOLEAN]

TypeOK ==
  /\ netdev \in [Index -> [name : Names \cup {NoName}, up : BOOLEAN]]
  /\ plugged \in Index \cup {0}
  /\ sock \in SockType /\ Len(sock.queue) <= QueueLimit
  /\ asked \in [name : Names \cup {NoName}, renamed : BOOLEAN]
  /\ call \in CallType

NoCall == [op |-> "none", pc |-> "idle", dev |-> 0, frame |-> 0, name |-> NoName,
           renamed |-> FALSE]

Init ==
  /\ netdev = [i \in Index |-> [name |-> NoName, up |-> FALSE]]
  /\ plugged = 0
  /\ sock = [bound |-> FALSE, ifindex |-> 0, err |-> FALSE, queue |-> <<>>,
             filters |-> 1, loopback |-> TRUE, own |-> FALSE]
  /\ asked = [name |-> NoName, renamed |-> FALSE]
  /\ call = NoCall

-----------------------------------------------------------------------------
(* The kernel.                                                             *)

Live(i) == i # 0 /\ netdev[i].name # NoName

Receives(i) ==
  /\ sock.bound /\ sock.ifindex \in {0, i}
  /\ sock.filters > 0 /\ Len(sock.queue) < QueueLimit

IsBoundTo(i) == sock.bound /\ sock.ifindex = i

Unused(name) == \A i \in Index : netdev[i].name # name

Plug(name) ==
  /\ Unused(name) /\ plugged < MaxIndex
  /\ plugged' = plugged + 1
  /\ netdev' = [netdev EXCEPT ![plugged + 1] = [name |-> name, up |-> TRUE]]
  /\ UNCHANGED <<sock, asked, call>>

Unplug(i) ==
  /\ Live(i)
  /\ netdev' = [netdev EXCEPT ![i] = [name |-> NoName, up |-> FALSE]]
  /\ sock' = IF IsBoundTo(i)
               THEN [sock EXCEPT !.bound = FALSE, !.ifindex = 0, !.err = TRUE]
               ELSE sock
  /\ UNCHANGED <<plugged, asked, call>>

Switch(i) ==
  /\ Live(i)
  /\ netdev' = [netdev EXCEPT ![i].up = ~@]
  /\ sock' = [sock EXCEPT !.err = @ \/ (netdev[i].up /\ IsBoundTo(i))]
  /\ UNCHANGED <<plugged, asked, call>>

Rename(i, name) ==
  /\ Live(i) /\ ~netdev[i].up /\ Unused(name)
  /\ netdev' = [netdev EXCEPT ![i].name = name]
  /\ asked' = [asked EXCEPT !.renamed = @ \/ IsBoundTo(i)]
  /\ call' = [call EXCEPT !.renamed = @ \/ (call.pc = "act" /\ call.dev = i)]
  /\ UNCHANGED <<plugged, sock>>

Arrive(i) ==
  /\ Live(i) /\ netdev[i].up /\ Receives(i)
  /\ sock' = [sock EXCEPT !.queue = Append(@, i)]
  /\ UNCHANGED <<netdev, plugged, asked, call>>

-----------------------------------------------------------------------------
(* Interfaces by name.                                                     *)

Over == call.pc \in {"idle", "returned", "threw"}

Done(result) == call' = [NoCall EXCEPT !.op = call.op, !.pc = result]

(* A call the kernel answers at once.                                      *)
Answered(result) == Over /\ call' = [NoCall EXCEPT !.pc = result] /\ UNCHANGED <<netdev, plugged>>

(* getInterfaceIndex(): what it returns, the empty set if it throws.       *)
(* (Mutant: the result of the ioctl() is not looked at.)                   *)
InterfaceIndexUnchecked(name) ==
  LET found == {i \in Index : Live(i) /\ netdev[i].name = name} IN
  IF found = {} THEN {0} ELSE found
InterfaceIndex(name) ==
  IF name = NoName THEN {0} ELSE {i \in Index : Live(i) /\ netdev[i].name = name}

(* bind() and sendTo() until the name has been looked up.                  *)
StartNamed(op, name) ==
  /\ Over
  /\ IF InterfaceIndex(name) = {}
       THEN call' = [NoCall EXCEPT !.op = op, !.pc = "threw"]
       ELSE \E i \in InterfaceIndex(name) :
              call' = [NoCall EXCEPT !.op = op, !.pc = "act", !.dev = i, !.name = name]
  /\ UNCHANGED <<netdev, plugged, sock, asked>>

(* A raw CAN socket is never connected: the kernel has no ::connect(), no  *)
(* ::shutdown() and no getpeername() for it.                               *)
Refused == Answered("threw") /\ UNCHANGED <<sock, asked>>

Connect == Refused
Disconnect == Refused
Shutdown == Refused
GetForeignInterface == Refused

(* ::bind() succeeds, with an error pending, if the interface is off.      *)
Bind ==
  LET i == call.dev IN
  /\ call.op = "bind" /\ call.pc = "act"
  /\ IF i = 0 \/ Live(i)
       THEN /\ sock' = IF IsBoundTo(i) THEN sock
                       ELSE [sock EXCEPT !.bound = TRUE, !.ifindex = i,
                               !.err = @ \/ (i # 0 /\ ~netdev[i].up)]
            /\ asked' = [name |-> call.name, renamed |-> call.renamed]
            /\ Done("returned")
       ELSE Done("threw") /\ UNCHANGED <<sock, asked>>
  /\ UNCHANGED <<netdev, plugged>>

(* A pending error is reported unless the interface does not exist.  The   *)
(* socket gets its own frames only if both options are set.                *)
Transmit(i) ==
  /\ \/ /\ Live(i) /\ netdev[i].up /\ ~sock.err
        /\ sock' = IF sock.loopback /\ sock.own /\ Receives(i)
                     THEN [sock EXCEPT !.queue = Append(@, i)] ELSE sock
        /\ Done("returned")
     \/ /\ sock' = [sock EXCEPT !.err = @ /\ ~Live(i)]
        /\ Done("threw")
  /\ UNCHANGED <<netdev, plugged, asked>>

SendTo == call.op = "sendTo" /\ call.pc = "act" /\ Transmit(call.dev)

(* send(): to the interface the socket is bound to.                        *)
Send == Over /\ Transmit(sock.ifindex)

(* Until getsockname() has returned.                                       *)
GetLocalInterface ==
  /\ Over
  /\ call' = [NoCall EXCEPT !.op = "getLocalInterface", !.pc = "name", !.dev = sock.ifindex]
  /\ UNCHANGED <<netdev, plugged, sock, asked>>

(* getInterfaceName(): the end of receiveFrom() and getLocalInterface().   *)
InterfaceName ==
  /\ call.pc = "name"
  /\ call' = IF Live(call.dev)
               THEN [call EXCEPT !.pc = "returned", !.name = netdev[call.dev].name]
               ELSE [call EXCEPT !.pc = "threw"]
  /\ UNCHANGED <<netdev, plugged, sock, asked>>

-----------------------------------------------------------------------------
(* Receiving.                                                              *)

StartReceive(op) ==
  /\ Over
  /\ call' = [NoCall EXCEPT !.op = op,
                            !.pc = IF op \in {"receive", "receiveFrom"} THEN "recv" ELSE "poll"]
  /\ UNCHANGED <<netdev, plugged, sock, asked>>

(* POLLIN leads to ::recv() or receiveFrom(), POLLERR alone does not.      *)
PollReturns ==
  /\ call.pc = "poll" /\ (sock.queue # <<>> \/ sock.err)
  /\ IF sock.queue # <<>> THEN call' = [call EXCEPT !.pc = "recv"] ELSE Done("returned")
  /\ UNCHANGED <<netdev, plugged, sock, asked>>

PollTimesOut ==
  /\ call.pc = "poll" /\ sock.queue = <<>> /\ ~sock.err
  /\ Done("returned")
  /\ UNCHANGED <<netdev, plugged, sock, asked>>

(* ::recvfrom() reports the error first.  (Mutants: it is repeated after   *)
(* any error; a frame is read before the error is looked at.)              *)
RecvThrowsNever ==
  /\ call.pc = "recv" /\ sock.err
  /\ sock' = [sock EXCEPT !.err = FALSE]
  /\ UNCHANGED <<netdev, plugged, asked, call>>
RecvThrowsLate ==
  /\ call.pc = "recv" /\ sock.err
  /\ sock' = [sock EXCEPT !.err = FALSE, !.queue = IF @ = <<>> THEN @ ELSE Tail(@)]
  /\ Done("threw")
  /\ UNCHANGED <<netdev, plugged, asked>>
RecvThrows ==
  /\ call.pc = "recv" /\ sock.err
  /\ sock' = [sock EXCEPT !.err = FALSE]
  /\ Done("threw")
  /\ UNCHANGED <<netdev, plugged, asked>>

(* receiveFrom() and timedReceiveFrom() go on to getInterfaceName().       *)
(* (Mutant: addrLen is not set, the address stays as it was.)              *)
NeedsName == call.op \in {"receiveFrom", "timedReceiveFrom"}

RecvTakesNoAddress ==
  /\ call.pc = "recv" /\ ~sock.err /\ sock.queue # <<>>
  /\ sock' = [sock EXCEPT !.queue = Tail(@)]
  /\ call' = [call EXCEPT !.pc = IF NeedsName THEN "name" ELSE "returned",
                          !.frame = Head(sock.queue)]
  /\ UNCHANGED <<netdev, plugged, asked>>
RecvTakes ==
  LET i == Head(sock.queue) IN
  /\ call.pc = "recv" /\ ~sock.err /\ sock.queue # <<>>
  /\ sock' = [sock EXCEPT !.queue = Tail(@)]
  /\ call' = [call EXCEPT !.pc = IF NeedsName THEN "name" ELSE "returned",
                          !.dev = i, !.frame = i]
  /\ UNCHANGED <<netdev, plugged, asked>>

-----------------------------------------------------------------------------
(* Options.  The kernel takes whole filters, and an error mask of four     *)
(* bytes only.  sizeof(filter) is that of a pointer: with one of four      *)
(* bytes setReceiveFilter() installs half of the filters it is given, and  *)
(* throws if their number is odd.                                          *)

SetReceiveFilter(len) ==
  LET bytes == PtrSize * len IN
  IF bytes % FilterSize = 0
    THEN /\ Answered("returned")
         /\ sock' = [sock EXCEPT !.filters = bytes \div FilterSize] /\ UNCHANGED asked
    ELSE Answered("threw") /\ UNCHANGED <<sock, asked>>

SetErrorFilter(len) ==
  /\ Answered(IF PtrSize * len = MaskSize THEN "returned" ELSE "threw")
  /\ UNCHANGED <<sock, asked>>

SetLocalLoopback(enable) ==
  Answered("returned") /\ sock' = [sock EXCEPT !.loopback = enable] /\ UNCHANGED asked

SetReceiveOwnMessages(enable) ==
  Answered("returned") /\ sock' = [sock EXCEPT !.own = enable] /\ UNCHANGED asked

-----------------------------------------------------------------------------
CallStep == PollReturns \/ PollTimesOut \/ RecvThrows \/ RecvTakes \/ InterfaceName

Next ==
  \/ \E name \in Names : Plug(name)
  \/ \E i \in Index :
       Unplug(i) \/ Switch(i) \/ Arrive(i) \/ \E name \in Names : Rename(i, name)
  \/ \E op \in {"bind", "sendTo"}, name \in Names \cup {NoName, LongName} :
       StartNamed(op, name)
  \/ Connect \/ Disconnect \/ Shutdown \/ GetForeignInterface
  \/ Bind \/ SendTo \/ Send \/ GetLocalInterface
  \/ \E op \in Receivers : StartReceive(op)
  \/ \E len \in Lens : SetReceiveFilter(len) \/ SetErrorFilter(len)
  \/ \E enable \in BOOLEAN : SetLocalLoopback(enable) \/ SetReceiveOwnMessages(enable)
  \/ CallStep

(* A call that the kernel lets return does return.                         *)
Spec == Init /\ [][Next]_vars /\ WF_vars(CallStep)

-----------------------------------------------------------------------------
(* Properties.                                                             *)

(* receiveFrom() gives up a frame it has taken from the queue only if the  *)
(* interface the frame came from is gone by then, and otherwise returns    *)
(* the name that interface has now.                                        *)
LostOnlyWithInterface ==
  [][call.pc = "name" /\ call.frame # 0 =>
       IF Live(call.frame)
         THEN call'.pc = "returned" /\ call'.name = netdev[call.frame].name
         ELSE call'.pc = "threw"]_<<call>>

(* Frames are received once and in order, whatever interfaces do, and none *)
(* is lost to a call that throws, except the one the call has taken.       *)
Promise == INSTANCE DatagramBox WITH
  Readers <- {"thread"}, Datagrams <- Index, Nothing <- 0,
  open <- TRUE, box <- sock.queue, taken <- [r \in {"thread"} |-> call.frame]

ImplementsDatagramBox == Promise!Spec

(* A socket that was bound to an interface by name is bound to the one     *)
(* that has this name, whatever was unplugged, plugged in again under the  *)
(* name or switched between the lookup and ::bind() (CANSocket.cpp:30-32), *)
(* and never to all; unless that interface was renamed since the lookup.   *)
BoundAsAsked ==
  sock.bound /\ asked.name # NoName =>
    /\ sock.ifindex # 0
    /\ netdev[sock.ifindex].name = asked.name \/ asked.renamed

(* Behind poll() a timed call does not wait: there is a frame.             *)
AnsweredAtOnce ==
  call.op \in {"timedReceive", "timedReceiveFrom"} /\ call.pc = "recv" => sock.queue # <<>>

(* The timed calls come back, whatever interfaces do between poll() and    *)
(* the name; and so do the others when the interface the socket is bound   *)
(* to is pulled out or switched off.                                       *)
ReceiveWakes ==
  call.op \in {"timedReceive", "timedReceiveFrom"} \/ (call.op \in Receivers /\ sock.err) ~> Over

-----------------------------------------------------------------------------
(* What makes them inductive.                                              *)

(* An index is given to one interface only.                                *)
PluggedOK == \A i \in Index : i > plugged => netdev[i].name = NoName

(* A name that is not empty is looked up to one interface, which has it    *)
(* until it is renamed or gone.                                            *)
NamedOK ==
  call.pc = "act" /\ call.name # NoName =>
    /\ call.dev \in 1..plugged
    /\ netdev[call.dev].name \in {call.name, NoName} \/ call.renamed

(* The name that is looked up is that of the interface of the frame.       *)
FrameOK == call.pc = "name" /\ call.frame # 0 => call.dev = call.frame

(* A call that is to receive has no frame yet.                             *)
NoFrameYet == call.pc \in {"poll", "recv"} => call.op \in Receivers /\ call.frame = 0

IInv == TypeOK /\ BoundAsAsked /\ PluggedOK /\ NamedOK /\ FrameOK /\ NoFrameYet
        /\ AnsweredAtOnce
=============================================================================
