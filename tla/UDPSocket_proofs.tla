--------------------------- MODULE UDPSocket_proofs ---------------------------
(***************************************************************************)
(* Proofs about UDPSocket, for any number of threads and peers, any sizes  *)
(* of datagrams and buffers, and any length of the kernel's queue.         *)
(***************************************************************************)
EXTENDS UDPSocket, SequenceTheorems, TLAPS

-----------------------------------------------------------------------------
(* The parts of the invariant: the network, the socket, the calls.         *)

NetOK == peerDisconnected \in BOOLEAN /\ alive \in SUBSET Peers /\ flying \in SUBSET Peers

KernelOK == kernel \in KernelType /\ Len(kernel.queue) <= QueueLimit /\ ClosedIsEmpty

CallsOK == call \in [Threads -> CallType] /\ NoneYet

LEMMA Parts == IInv <=> NetOK /\ KernelOK /\ CallsOK
BY DEF IInv, TypeOK, NetOK, KernelOK, CallsOK

LEMMA NextParts == IInv' <=> NetOK' /\ KernelOK' /\ CallsOK'
BY DEF IInv, TypeOK, NetOK, KernelOK, CallsOK

LEMMA NoDatagramIsNone == NoDatagram \notin Datagram
BY UDPAssumption DEF NoDatagram, Datagram

LEMMA NewSocketIs ==
  /\ NewSocket \in KernelType /\ NewSocket.open
  /\ NewSocket.queue = <<>> /\ Len(NewSocket.queue) <= QueueLimit
<1>1. <<>> \in Seq(Datagram) /\ Len(<<>>) = 0 /\ 0 <= QueueLimit
  BY UDPAssumption
<1> QED BY <1>1 DEF NewSocket, KernelType

LEMMA ClosedSocketIs ==
  LET k == [NewSocket EXCEPT !.open = FALSE]
  IN  k \in KernelType /\ ~k.open /\ k.queue = <<>> /\ Len(k.queue) <= QueueLimit
<1>1. LET k == [NewSocket EXCEPT !.open = FALSE]
      IN  k \in KernelType /\ ~k.open /\ k.queue = NewSocket.queue
  BY NewSocketIs DEF KernelType
<1> QED BY <1>1, NewSocketIs

LEMMA NoCallIs == NoCall \in CallType /\ NoCall.pc = "idle" /\ NoCall.got = NoDatagram
BY DEF NoCall, CallType

-----------------------------------------------------------------------------
(* Ways a step can change the socket.                                      *)

LEMMA SameKernel ==
  ASSUME KernelOK, kernel' = kernel
  PROVE  KernelOK'
BY DEF KernelOK, ClosedIsEmpty

(* Nothing but the addresses, the error and what is shut down changes.     *)
LEMMA SameQueue ==
  ASSUME KernelOK, kernel' \in KernelType,
         kernel'.queue = kernel.queue, kernel'.open = kernel.open
  PROVE  KernelOK'
BY DEF KernelOK, ClosedIsEmpty

LEMMA DatagramQueued ==
  ASSUME KernelOK, kernel.open, NEW d \in Datagram, Len(kernel.queue) < QueueLimit,
         kernel' = [kernel EXCEPT !.queue = Append(@, d)]
  PROVE  KernelOK' /\ kernel'.queue = Append(kernel.queue, d) /\ kernel'.open
<1> DEFINE q == Append(kernel.queue, d)
<1>1. kernel.queue \in Seq(Datagram)
  BY DEF KernelOK, KernelType
<1>2. q \in Seq(Datagram) /\ Len(q) = Len(kernel.queue) + 1 /\ Len(kernel.queue) \in Nat
  BY <1>1
<1>3. Len(q) <= QueueLimit
  BY <1>2, UDPAssumption
<1>4. kernel' = [kernel EXCEPT !.queue = q]
  OBVIOUS
<1> HIDE DEF q
<1>5. kernel' \in KernelType /\ kernel'.queue = q /\ kernel'.open = kernel.open
  BY <1>2, <1>4 DEF KernelOK, KernelType
<1> QED BY <1>3, <1>5 DEF KernelOK, ClosedIsEmpty, q

LEMMA DatagramTaken ==
  ASSUME KernelOK, kernel.queue # <<>>, kernel' = [kernel EXCEPT !.queue = Tail(@)]
  PROVE  /\ KernelOK' /\ Head(kernel.queue) \in Datagram
         /\ kernel'.queue = Tail(kernel.queue) /\ kernel'.open = kernel.open
<1> DEFINE q == Tail(kernel.queue)
<1>1. kernel.queue \in Seq(Datagram) /\ kernel \in KernelType
  BY DEF KernelOK, KernelType
<1>2. /\ q \in Seq(Datagram) /\ Head(kernel.queue) \in Datagram
      /\ Len(q) = Len(kernel.queue) - 1 /\ Len(kernel.queue) \in Nat
  BY <1>1
<1>3. Len(q) <= QueueLimit
  <2>1. Len(kernel.queue) <= QueueLimit
    BY DEF KernelOK
  <2> QED BY <1>2, <2>1, UDPAssumption
<1>4. kernel' = [kernel EXCEPT !.queue = q]
  OBVIOUS
<1> HIDE DEF q
<1>5. kernel' \in KernelType /\ kernel'.queue = q /\ kernel'.open = kernel.open
  BY <1>1, <1>2, <1>4 DEF KernelType
<1>6. kernel.open
  BY DEF KernelOK, ClosedIsEmpty
<1> QED BY <1>2, <1>3, <1>5, <1>6 DEF KernelOK, ClosedIsEmpty, q

(* Ways a step can change the calls.                                       *)

LEMMA SameCalls ==
  ASSUME CallsOK, call' = call
  PROVE  CallsOK'
BY DEF CallsOK, NoneYet, Busy

(* One call begins, goes on or ends.                                       *)
LEMMA CallChanges ==
  ASSUME CallsOK, NEW t \in Threads, NEW c \in CallType, call' = [call EXCEPT ![t] = c],
         c.pc \in {"poll", "recv"} => c.got = NoDatagram
  PROVE  /\ CallsOK' /\ call'[t] = c
         /\ \A u \in Threads \ {t} : call'[u] = call[u]
<1>1. call' \in [Threads -> CallType] /\ call'[t] = c
  BY DEF CallsOK
<1>2. \A u \in Threads \ {t} : call'[u] = call[u]
  BY DEF CallsOK
<1>3. NoneYet'
  <2> SUFFICES ASSUME NEW u \in Threads, call'[u].pc \in {"poll", "recv"}
               PROVE  call'[u].got = NoDatagram
    BY DEF NoneYet, Busy
  <2>1. CASE u = t   BY <1>1, <2>1
  <2>2. CASE u # t   BY <1>2, <2>2 DEF CallsOK, NoneYet, Busy
  <2> QED BY <2>1, <2>2
<1> QED BY <1>1, <1>2, <1>3 DEF CallsOK

-----------------------------------------------------------------------------
LEMMA InitIInv == Init => IInv
<1> SUFFICES ASSUME Init PROVE NetOK /\ KernelOK /\ CallsOK
  BY Parts
<1>1. NetOK
  BY DEF Init, NetOK
<1>2. KernelOK
  BY NewSocketIs DEF Init, KernelOK, ClosedIsEmpty
<1>3. CallsOK
  BY NoCallIs DEF Init, CallsOK, NoneYet, Busy
<1> QED BY <1>1, <1>2, <1>3

(* The network and the peers.                                              *)
LEMMA NetworkStep ==
  ASSUME NetOK, KernelOK, CallsOK, NEW p \in Peers,
         (\E size \in Sizes : Arrive(p, size)) \/ Land(p) \/ ComeAndGo(p)
  PROVE  NetOK' /\ KernelOK' /\ CallsOK'
<1>1. ASSUME NEW size \in Sizes, Arrive(p, size) PROVE NetOK' /\ KernelOK' /\ CallsOK'
  <2>1. [from |-> p, size |-> size] \in Datagram
    BY UDPAssumption DEF Datagram
  <2>2. KernelOK'
    BY <1>1, <2>1, DatagramQueued DEF Arrive
  <2> QED BY <1>1, <2>2, SameCalls DEF Arrive, NetOK
<1>2. CASE Land(p)
  <2>1. KernelOK'
    <3>1. CASE UNCHANGED kernel
      BY <3>1, SameKernel
    <3>2. CASE kernel' = [kernel EXCEPT !.err = TRUE]
      BY <3>2, SameQueue DEF KernelOK, KernelType
    <3> QED BY <1>2, <3>1, <3>2 DEF Land
  <2> QED BY <1>2, <2>1, SameCalls DEF Land, NetOK
<1>3. CASE ComeAndGo(p)
  BY <1>3, SameKernel, SameCalls DEF ComeAndGo, NetOK
<1> QED BY <1>1, <1>2, <1>3

(* Addresses, shutdown() and sending.                                      *)
LEMMA AddressStep ==
  ASSUME NetOK, KernelOK, CallsOK,
         \/ \E p \in Peers : Connect(p) \/ SendTo(p)
         \/ Bind \/ Disconnect \/ Send
         \/ \E type \in {"STOP_SEND", "STOP_RECEIVE", "STOP_BOTH"} : Shutdown(type)
  PROVE  /\ NetOK' /\ KernelOK' /\ CallsOK'
         /\ call' = call /\ kernel'.queue = kernel.queue /\ kernel'.open = kernel.open
         /\ kernel.shutRd => kernel'.shutRd
<1>0. kernel \in KernelType /\ AutoBound \in {"no", "auto", "explicit"}
  BY DEF KernelOK, KernelType, AutoBound
<1>1. ASSUME NEW p \in Peers, Connect(p)
      PROVE  NetOK' /\ call' = call /\ kernel' \in KernelType
             /\ kernel'.queue = kernel.queue /\ kernel'.open = kernel.open
             /\ (kernel.shutRd => kernel'.shutRd)
  BY <1>0, <1>1 DEF Connect, NetOK, KernelType
<1>2. ASSUME NEW p \in Peers, SendTo(p)
      PROVE  NetOK' /\ call' = call /\ kernel' \in KernelType
             /\ kernel'.queue = kernel.queue /\ kernel'.open = kernel.open
             /\ (kernel.shutRd => kernel'.shutRd)
  BY <1>0, <1>2 DEF SendTo, NetOK, KernelType
<1>3. CASE Bind
  BY <1>0, <1>3, SameQueue, SameCalls DEF Bind, NetOK, KernelType
<1>4. CASE Disconnect
  <2>1. (IF kernel.bound = "auto" THEN "no" ELSE kernel.bound) \in {"no", "auto", "explicit"}
    BY <1>0 DEF KernelType
  <2>2. /\ kernel' \in KernelType /\ kernel'.queue = kernel.queue
        /\ kernel'.open = kernel.open /\ kernel'.shutRd = kernel.shutRd
    BY <1>0, <1>4, <2>1 DEF Disconnect, KernelType
  <2> QED BY <1>4, <2>2, SameQueue, SameCalls DEF Disconnect, NetOK
<1>5. CASE Send
  <2>1. kernel.peer \in Peers
    BY <1>0, <1>5 DEF Send, Connected, KernelType
  <2>2. CASE /\ kernel' = [kernel EXCEPT !.err = FALSE]
             /\ peerDisconnected' = TRUE /\ UNCHANGED flying
    BY <1>0, <1>5, <2>2, SameQueue, SameCalls DEF Send, NetOK, KernelType
  <2>3. CASE flying' = flying \cup {kernel.peer} /\ UNCHANGED <<peerDisconnected, kernel>>
    BY <1>5, <2>1, <2>3, SameKernel, SameCalls DEF Send, NetOK
  <2> QED BY <1>5, <2>2, <2>3 DEF Send
<1>6. ASSUME NEW type \in {"STOP_SEND", "STOP_RECEIVE", "STOP_BOTH"}, Shutdown(type)
      PROVE  NetOK' /\ call' = call /\ kernel' \in KernelType
             /\ kernel'.queue = kernel.queue /\ kernel'.open = kernel.open
             /\ (kernel.shutRd => kernel'.shutRd)
  <2>1. /\ (kernel.shutRd \/ type \in {"STOP_RECEIVE", "STOP_BOTH"}) \in BOOLEAN
        /\ (kernel.shutWr \/ type \in {"STOP_SEND", "STOP_BOTH"}) \in BOOLEAN
    BY Zenon
  <2> QED BY <1>0, <1>6, <2>1, Zenon DEF Shutdown, NetOK, KernelType
<1> QED BY <1>1, <1>2, <1>3, <1>4, <1>5, <1>6, SameQueue, SameCalls

(* The destructor and the constructor.                                     *)
LEMMA LifeStep ==
  ASSUME NetOK, KernelOK, CallsOK, Destroy \/ Create
  PROVE  NetOK' /\ KernelOK' /\ CallsOK'
<1>1. CASE Destroy
  BY <1>1, ClosedSocketIs, SameCalls DEF Destroy, NetOK, KernelOK, ClosedIsEmpty
<1>2. CASE Create
  <2>1. CallsOK'
    BY <1>2, NoCallIs DEF Create, CallsOK, NoneYet, Busy
  <2> QED BY <1>2, <2>1, NewSocketIs DEF Create, NetOK, KernelOK, ClosedIsEmpty
<1> QED BY <1>1, <1>2
-----------------------------------------------------------------------------
(* Receiving.                                                              *)

LEMMA BeginStep ==
  ASSUME NetOK, KernelOK, CallsOK, NEW t \in Threads,
         StartReceive(t) \/ StartTimedReceive(t)
  PROVE  /\ NetOK' /\ KernelOK' /\ CallsOK'
         /\ kernel' = kernel /\ ~Busy(t)
         /\ call'[t].got = NoDatagram
         /\ \A u \in Threads \ {t} : call'[u] = call[u]
<1>1. PICK op \in {"receive", "receiveFrom", "timedReceive", "timedReceiveFrom"},
           pc \in {"poll", "recv"} : Begin(t, op, pc)
  BY DEF StartReceive, StartTimedReceive
<1>2. PICK len \in Lens :
        /\ ~Busy(t)
        /\ call' = [call EXCEPT ![t] =
                      [op |-> op, pc |-> pc, len |-> len, ret |-> 0, got |-> NoDatagram]]
        /\ UNCHANGED <<peerDisconnected, kernel, alive, flying>>
  BY <1>1 DEF Begin
<1> DEFINE c == [op |-> op, pc |-> pc, len |-> len, ret |-> 0, got |-> NoDatagram]
<1>3. c \in CallType /\ c.got = NoDatagram
  BY DEF CallType
<1>4. call' = [call EXCEPT ![t] = c]
  BY <1>2
<1> HIDE DEF c
<1>5. CallsOK' /\ call'[t] = c /\ \A u \in Threads \ {t} : call'[u] = call[u]
  BY <1>3, <1>4, CallChanges
<1> QED BY <1>2, <1>3, <1>5, SameKernel DEF NetOK

(* A call goes on, or ends without a datagram.                             *)
LEMMA WithoutDatagram ==
  ASSUME NetOK, KernelOK, CallsOK, NEW t \in Threads,
         PollTimesOut(t) \/ PollReturns(t) \/ RecvThrows(t) \/ RecvEnds(t)
  PROVE  /\ NetOK' /\ KernelOK' /\ CallsOK'
         /\ kernel'.queue = kernel.queue /\ kernel'.open = kernel.open
         /\ kernel'.shutRd = kernel.shutRd
         /\ call'[t].got = call[t].got /\ call'[t].op = call[t].op
         /\ \A u \in Threads \ {t} : call'[u] = call[u]
<1>1. call[t] \in CallType /\ Busy(t) /\ call[t].got = NoDatagram
  BY DEF PollTimesOut, PollReturns, RecvThrows, RecvEnds, Busy, CallsOK, NoneYet
<1>2. ASSUME NEW pc \in {"recv", "timedOut", "threw", "returned"}, NEW ret \in Nat,
             call' = [call EXCEPT ![t] = [@ EXCEPT !.pc = pc, !.ret = ret]]
      PROVE  /\ CallsOK'
             /\ call'[t].got = call[t].got /\ call'[t].op = call[t].op
             /\ \A u \in Threads \ {t} : call'[u] = call[u]
  <2> DEFINE c == [call[t] EXCEPT !.pc = pc, !.ret = ret]
  <2>1. c \in CallType /\ c.got = call[t].got /\ c.op = call[t].op
    BY <1>1 DEF CallType
  <2>2. call' = [call EXCEPT ![t] = c]
    BY <1>2
  <2> HIDE DEF c
  <2> QED BY <1>1, <2>1, <2>2, CallChanges
<1>3. ASSUME NEW pc \in {"recv", "timedOut", "threw", "returned"},
             call' = [call EXCEPT ![t] = [@ EXCEPT !.pc = pc]]
      PROVE  /\ CallsOK'
             /\ call'[t].got = call[t].got /\ call'[t].op = call[t].op
             /\ \A u \in Threads \ {t} : call'[u] = call[u]
  <2> DEFINE c == [call[t] EXCEPT !.pc = pc]
  <2>1. c \in CallType /\ c.got = call[t].got /\ c.op = call[t].op
    BY <1>1 DEF CallType
  <2>2. call' = [call EXCEPT ![t] = c]
    BY <1>3
  <2> HIDE DEF c
  <2> QED BY <1>1, <2>1, <2>2, CallChanges
<1>4. CASE PollTimesOut(t)
  BY <1>3, <1>4, SameKernel DEF PollTimesOut, NetOK
<1>5. CASE PollReturns(t)
  <2>1. peerDisconnected' \in BOOLEAN
    BY <1>5 DEF PollReturns
  <2>2. CASE Reported.POLLIN
    BY <1>3, <1>5, <2>1, <2>2, SameKernel DEF PollReturns, NetOK
  <2>3. CASE ~Reported.POLLIN
    BY <1>2, <1>5, <2>1, <2>3, SameKernel DEF PollReturns, NetOK
  <2> QED BY <2>2, <2>3
<1>6. CASE RecvThrows(t)
  <2>1. /\ kernel' \in KernelType /\ kernel'.queue = kernel.queue
        /\ kernel'.open = kernel.open /\ kernel'.shutRd = kernel.shutRd
    BY <1>6 DEF RecvThrows, KernelOK, KernelType
  <2>2. call' = [call EXCEPT ![t] = [@ EXCEPT !.pc = "threw"]]
    BY <1>6 DEF RecvThrows
  <2> QED BY <1>3, <1>6, <2>1, <2>2, SameQueue DEF RecvThrows, NetOK
<1>7. CASE RecvEnds(t)
  BY <1>3, <1>7, SameKernel DEF RecvEnds, NetOK
<1> QED BY <1>4, <1>5, <1>6, <1>7

LEMMA RecvTakesStep ==
  ASSUME NetOK, KernelOK, CallsOK, NEW t \in Threads, RecvTakes(t)
  PROVE  /\ NetOK' /\ KernelOK' /\ CallsOK'
         /\ kernel.queue # <<>> /\ kernel'.queue = Tail(kernel.queue)
         /\ kernel'.open = kernel.open
         /\ call[t].got = NoDatagram /\ call'[t].got = Head(kernel.queue)
         /\ call'[t].pc = "returned"
         /\ \A u \in Threads \ {t} : call'[u] = call[u]
<1> DEFINE d == Head(kernel.queue)
           n == Stored(d, call[t].len)
           c == [call[t] EXCEPT !.pc = "returned", !.got = d, !.ret = n]
<1>1. /\ KernelOK' /\ d \in Datagram /\ kernel.queue # <<>>
      /\ kernel'.queue = Tail(kernel.queue) /\ kernel'.open = kernel.open
  BY DatagramTaken DEF RecvTakes
<1>2. call[t] \in CallType /\ call[t].got = NoDatagram
  BY DEF RecvTakes, CallsOK, NoneYet, Busy
<1>3. n \in Nat
  <2>1. d.size \in Nat /\ call[t].len \in Nat
    <3>1. d.size \in Sizes
      BY <1>1 DEF Datagram
    <3>2. call[t].len \in Lens \cup {0}
      BY <1>2 DEF CallType
    <3>3. Sizes \subseteq Nat /\ Lens \cup {0} \subseteq Nat
      BY UDPAssumption
    <3>4. d.size \in Nat
      BY <3>1, <3>3
    <3>5. call[t].len \in Nat
      BY <3>2, <3>3
    <3> QED BY <3>4, <3>5
  <2> QED BY <2>1 DEF Stored
<1>4. call' = [call EXCEPT ![t] = c]
  BY DEF RecvTakes
<1> HIDE DEF d, n
<1>5. c \in CallType /\ c.got = d /\ c.pc = "returned"
  BY <1>1, <1>2, <1>3 DEF CallType
<1> HIDE DEF c
<1>6. CallsOK' /\ call'[t] = c /\ \A u \in Threads \ {t} : call'[u] = call[u]
  BY <1>4, <1>5, CallChanges
<1> QED BY <1>1, <1>2, <1>5, <1>6 DEF d, RecvTakes, NetOK
LEMMA NextIInv == IInv /\ [Next]_vars => IInv'
<1> SUFFICES ASSUME NetOK, KernelOK, CallsOK, [Next]_vars
             PROVE  NetOK' /\ KernelOK' /\ CallsOK'
  BY Parts, NextParts
<1>1. ASSUME NEW p \in Peers,
             (\E size \in Sizes : Arrive(p, size)) \/ Land(p) \/ ComeAndGo(p)
      PROVE  NetOK' /\ KernelOK' /\ CallsOK'
  BY <1>1, NetworkStep
<1>2. CASE \/ \E p \in Peers : Connect(p) \/ SendTo(p)
           \/ Bind \/ Disconnect \/ Send
           \/ \E type \in {"STOP_SEND", "STOP_RECEIVE", "STOP_BOTH"} : Shutdown(type)
  BY <1>2, AddressStep
<1>3. CASE Destroy \/ Create
  BY <1>3, LifeStep
<1>4. ASSUME NEW t \in Threads, StartReceive(t) \/ StartTimedReceive(t)
      PROVE  NetOK' /\ KernelOK' /\ CallsOK'
  BY <1>4, BeginStep
<1>5. ASSUME NEW t \in Threads, CallStep(t)
      PROVE  NetOK' /\ KernelOK' /\ CallsOK'
  BY <1>5, WithoutDatagram, RecvTakesStep DEF CallStep
<1>6. CASE UNCHANGED vars
  BY <1>6, SameKernel, SameCalls DEF vars, NetOK
<1> QED BY <1>1, <1>2, <1>3, <1>4, <1>5, <1>6 DEF Next

(* Every reachable state satisfies the invariant.                          *)
THEOREM Inductive == Spec => []IInv
<1> QED BY InitIInv, NextIInv, PTL DEF Spec

(* What receive() and the like return is never negative, whatever the      *)
(* order of errors, datagrams and timeouts, and the kernel never keeps     *)
(* more datagrams than it has room for.                                    *)
THEOREM TypeCorrect == Spec => []TypeOK
<1>1. IInv => TypeOK
  BY DEF IInv
<1> QED BY Inductive, <1>1, PTL

-----------------------------------------------------------------------------
(* timedReceive() and timedReceiveFrom() (UDPSocket.cpp) never come back   *)
(* empty-handed from poll() while a datagram is there, also when poll()    *)
(* reports an error or the end along with it.                              *)
THEOREM NothingMissed == Spec => NoDatagramMissed
<1> DEFINE Missed == \A t \in Threads :
      call[t].pc = "poll" /\ call'[t].pc \in {"returned", "timedOut"}
        => kernel.queue = <<>>
<1>1. IInv /\ [Next]_vars => [Missed]_vars
  <2> SUFFICES ASSUME NetOK, KernelOK, CallsOK, Next, NEW t \in Threads,
                      call[t].pc = "poll", call'[t].pc \in {"returned", "timedOut"}
               PROVE  kernel.queue = <<>>
    BY Parts
  <2>0. call \in [Threads -> CallType] /\ call'[t] # call[t]
    BY DEF CallsOK
  <2>1. ASSUME NEW p \in Peers,
               (\E size \in Sizes : Arrive(p, size)) \/ Land(p) \/ ComeAndGo(p)
        PROVE  FALSE
    BY <2>0, <2>1 DEF Arrive, Land, ComeAndGo
  <2>2. CASE \/ \E p \in Peers : Connect(p) \/ SendTo(p)
             \/ Bind \/ Disconnect \/ Send
             \/ \E type \in {"STOP_SEND", "STOP_RECEIVE", "STOP_BOTH"} : Shutdown(type)
    BY <2>0, <2>2, AddressStep
  <2>3. CASE Destroy \/ Create
    <3>1. CASE Destroy   BY <2>0, <3>1 DEF Destroy
    <3>2. CASE Create    BY <3>2, NoCallIs DEF Create
    <3> QED BY <2>3, <3>1, <3>2
  <2>4. ASSUME NEW u \in Threads, StartReceive(u) \/ StartTimedReceive(u)
        PROVE  FALSE
    <3>1. ~Busy(u) /\ (u # t => call'[t] = call[t])
      BY <2>4, BeginStep
    <3> QED BY <2>0, <3>1 DEF Busy
  <2>5. ASSUME NEW u \in Threads, CallStep(u)
        PROVE  kernel.queue = <<>>
    <3>1. u = t
      BY <2>0, <2>5, WithoutDatagram, RecvTakesStep DEF CallStep
    <3>2. PollTimesOut(t) \/ PollReturns(t)
      BY <2>5, <3>1 DEF CallStep, RecvTakes, RecvThrows, RecvEnds
    <3>3. CASE PollTimesOut(t)
      BY <3>3 DEF PollTimesOut, PollIsReady, Reported
    <3>4. CASE PollReturns(t)
      <4>1. SUFFICES ASSUME Reported.POLLIN PROVE FALSE
        BY DEF Reported
      <4>2. call'[t].pc = "recv"
        BY <2>0, <3>4, <4>1 DEF PollReturns, CallType
      <4> QED BY <4>2
    <3> QED BY <3>2, <3>3, <3>4
  <2> QED BY <2>1, <2>2, <2>3, <2>4, <2>5 DEF Next
<1>2. Spec => [][Missed]_vars
  BY Inductive, <1>1, PTL DEF Spec
<1> QED BY <1>2 DEF NoDatagramMissed
-----------------------------------------------------------------------------
(* Behind poll() timedReceive() and timedReceiveFrom() (UDPSocket.cpp) of  *)
(* the only thread that receives do not wait: no call of other threads     *)
(* takes away what poll() has seen.                                        *)
THEOREM Answered ==
  ASSUME NEW s \in Threads, Threads = {s}
  PROVE  Spec => []AnsweredAtOnce
<1> DEFINE Fine == Timed(s) /\ call[s].pc = "recv" => kernel.queue # <<>> \/ kernel.shutRd
<1>1. Init => Fine
  BY DEF Init, NoCall
<1>2. IInv /\ Fine /\ [Next]_vars => Fine'
  <2> SUFFICES ASSUME NetOK, KernelOK, CallsOK, Fine, [Next]_vars
               PROVE  Fine'
    BY Parts
  <2>1. ASSUME NEW p \in Peers,
               (\E size \in Sizes : Arrive(p, size)) \/ Land(p) \/ ComeAndGo(p)
        PROVE  Fine'
    <3>1. ASSUME NEW size \in Sizes, Arrive(p, size) PROVE Fine'
      <4> DEFINE d == [from |-> p, size |-> size]
      <4>1. d \in Datagram
        BY DEF Datagram
      <4>2. kernel'.queue = Append(kernel.queue, d)
        BY <3>1, <4>1, DatagramQueued DEF Arrive
      <4>3. kernel.queue \in Seq(Datagram)
        BY DEF KernelOK, KernelType
      <4> HIDE DEF d
      <4> QED BY <4>1, <4>2, <4>3
    <3>2. CASE Land(p)
      BY <3>2 DEF Land, KernelOK, KernelType, Timed
    <3>3. CASE ComeAndGo(p)
      BY <3>3 DEF ComeAndGo, Timed
    <3> QED BY <2>1, <3>1, <3>2, <3>3
  <2>2. CASE \/ \E p \in Peers : Connect(p) \/ SendTo(p)
             \/ Bind \/ Disconnect \/ Send
             \/ \E type \in {"STOP_SEND", "STOP_RECEIVE", "STOP_BOTH"} : Shutdown(type)
    BY <2>2, AddressStep DEF Timed
  <2>3. CASE Destroy
    BY <2>3 DEF Destroy, Busy
  <2>4. CASE Create
    BY <2>4, NoCallIs DEF Create
  <2>5. ASSUME NEW t \in Threads, StartReceive(t) \/ StartTimedReceive(t)
        PROVE  Fine'
    <3>1. t = s
      OBVIOUS
    <3>2. CASE StartReceive(s)
      BY <3>2 DEF StartReceive, Begin, Timed, CallsOK
    <3>3. CASE StartTimedReceive(s)
      BY <3>3 DEF StartTimedReceive, Begin, CallsOK
    <3> QED BY <2>5, <3>1, <3>2, <3>3
  <2>6. ASSUME NEW t \in Threads, CallStep(t)
        PROVE  Fine'
    <3>1. t = s /\ call \in [Threads -> CallType]
      BY DEF CallsOK
    <3>2. CASE PollReturns(s)
      <4>1. CASE Reported.POLLIN
        BY <3>2, <4>1 DEF PollReturns, Reported
      <4>2. CASE ~Reported.POLLIN
        BY <3>1, <3>2, <4>2 DEF PollReturns, CallType
      <4> QED BY <4>1, <4>2
    <3>3. CASE PollTimesOut(s)
      BY <3>1, <3>3 DEF PollTimesOut, CallType
    <3>4. CASE RecvTakes(s)
      BY <3>4, RecvTakesStep
    <3>5. CASE RecvThrows(s) \/ RecvEnds(s)
      BY <3>1, <3>5 DEF RecvThrows, RecvEnds, CallType
    <3> QED BY <2>6, <3>1, <3>2, <3>3, <3>4, <3>5 DEF CallStep
  <2>7. CASE UNCHANGED vars
    BY <2>7 DEF vars, Timed
  <2> QED BY <2>1, <2>2, <2>3, <2>4, <2>5, <2>6, <2>7 DEF Next
<1>3. Fine => AnsweredAtOnce
  BY DEF AnsweredAtOnce
<1> QED BY Inductive, <1>1, <1>2, <1>3, PTL DEF Spec
-----------------------------------------------------------------------------
(* The refinement of DatagramBox: what a step does to the queue and to     *)
(* what calls have taken.                                                  *)

Taken == [t \in Threads |-> call[t].got]

BoxStep == [Promise!Next]_(Promise!vars)

LEMMA NoBoxStep ==
  ASSUME kernel'.open = kernel.open, kernel'.queue = kernel.queue, Taken' = Taken
  PROVE  BoxStep
BY DEF BoxStep, Promise!vars, Taken

LEMMA SameTaken ==
  ASSUME NEW t \in Threads, call'[t].got = call[t].got,
         \A u \in Threads \ {t} : call'[u] = call[u]
  PROVE  Taken' = Taken
BY DEF Taken

LEMMA OneTaken ==
  ASSUME NEW t \in Threads, \A u \in Threads \ {t} : call'[u] = call[u]
  PROVE  Taken' = [Taken EXCEPT ![t] = call'[t].got]
BY DEF Taken

(* A step that has a datagram queued.                                      *)
LEMMA PutStep ==
  ASSUME NetOK, KernelOK, CallsOK, NEW p \in Peers, NEW size \in Sizes, Arrive(p, size)
  PROVE  BoxStep
<1> DEFINE d == [from |-> p, size |-> size]
<1>1. d \in Datagram
  BY DEF Datagram
<1>2. kernel.open /\ kernel'.open /\ kernel'.queue = Append(kernel.queue, d)
  BY <1>1, DatagramQueued DEF Arrive
<1>3. kernel.open \in BOOLEAN /\ kernel'.open \in BOOLEAN
  <2>1. KernelOK'
    BY <1>1, DatagramQueued DEF Arrive
  <2> QED BY <2>1 DEF KernelOK, KernelType
<1>4. Taken' = Taken
  BY DEF Arrive, Taken
<1> HIDE DEF d
<1>5. Promise!Put
  <2>1. UNCHANGED kernel.open
    BY <1>2, <1>3
  <2> QED BY <1>1, <1>2, <1>4, <2>1 DEF Promise!Put, Taken
<1> QED BY <1>5 DEF BoxStep, Promise!Next

(* The destructor throws away what is queued, the constructor starts anew. *)
LEMMA CloseReopenStep ==
  ASSUME NetOK, KernelOK, CallsOK, Destroy \/ Create
  PROVE  BoxStep
<1>1. kernel.open \in BOOLEAN
  BY DEF KernelOK, KernelType
<1>2. CASE Destroy
  <2>1. kernel.open /\ kernel'.open = FALSE /\ kernel'.queue = <<>> /\ Taken' = Taken
    BY <1>2 DEF Destroy, NewSocket, Taken
  <2>2. Promise!Close
    BY <2>1 DEF Promise!Close, Taken
  <2> QED BY <2>2 DEF BoxStep, Promise!Next
<1>3. CASE Create
  <2>1. /\ ~kernel.open /\ kernel'.open = TRUE /\ kernel'.queue = <<>>
        /\ Taken' = [t \in Threads |-> NoDatagram]
    BY <1>3 DEF Create, NewSocket, NoCall, Taken
  <2>2. Promise!Reopen
    BY <2>1 DEF Promise!Reopen, Taken
  <2> QED BY <2>2 DEF BoxStep, Promise!Next
<1> QED BY <1>2, <1>3

(* A call that begins forgets what the last one got.                       *)
LEMMA ForgetStep ==
  ASSUME NetOK, KernelOK, CallsOK, NEW t \in Threads,
         StartReceive(t) \/ StartTimedReceive(t)
  PROVE  BoxStep
<1>1. kernel' = kernel /\ Taken' = [Taken EXCEPT ![t] = NoDatagram]
  BY BeginStep, OneTaken
<1>2. Promise!Forget(t)
  BY <1>1 DEF Promise!Forget, Promise!Forgets, Taken
<1> QED BY <1>2 DEF BoxStep, Promise!Next

(* RecvTakes is the only step that hands over a datagram.                  *)
LEMMA CallBoxStep ==
  ASSUME NetOK, KernelOK, CallsOK, NEW t \in Threads, CallStep(t)
  PROVE  BoxStep
<1>1. CASE PollTimesOut(t) \/ PollReturns(t) \/ RecvThrows(t) \/ RecvEnds(t)
  BY <1>1, WithoutDatagram, SameTaken, NoBoxStep
<1>2. CASE RecvTakes(t)
  <2>1. /\ kernel.queue # <<>> /\ kernel'.queue = Tail(kernel.queue)
        /\ kernel'.open = kernel.open /\ Taken[t] = NoDatagram
        /\ Taken' = [Taken EXCEPT ![t] = Head(kernel.queue)]
    BY <1>2, RecvTakesStep, OneTaken DEF Taken
  <2>2. Promise!Take(t)
    BY <2>1 DEF Promise!Take, Taken
  <2> QED BY <2>2 DEF BoxStep, Promise!Next
<1> QED BY <1>1, <1>2 DEF CallStep

LEMMA NextBoxStep == IInv /\ [Next]_vars => BoxStep
<1> SUFFICES ASSUME NetOK, KernelOK, CallsOK, [Next]_vars
             PROVE  BoxStep
  BY Parts
<1>1. ASSUME NEW p \in Peers, Land(p) \/ ComeAndGo(p) PROVE BoxStep
  <2>1. kernel'.open = kernel.open /\ kernel'.queue = kernel.queue /\ call' = call
    BY <1>1 DEF Land, ComeAndGo, KernelOK, KernelType
  <2> QED BY <2>1, NoBoxStep DEF Taken
<1>2. CASE \/ \E p \in Peers : Connect(p) \/ SendTo(p)
           \/ Bind \/ Disconnect \/ Send
           \/ \E type \in {"STOP_SEND", "STOP_RECEIVE", "STOP_BOTH"} : Shutdown(type)
  BY <1>2, AddressStep, NoBoxStep DEF Taken
<1>3. CASE UNCHANGED vars
  BY <1>3, NoBoxStep DEF vars, Taken
<1> QED BY <1>1, <1>2, <1>3, PutStep, CloseReopenStep, ForgetStep, CallBoxStep DEF Next

(* UDPSocket implements DatagramBox: receive(), receiveFrom() and the      *)
(* timed calls (UDPSocket.cpp) hand over every datagram that has arrived   *)
(* once, whole and in order, and a call that throws takes none.            *)
THEOREM Refinement == Spec => ImplementsDatagramBox
<1>1. Init => Promise!Init
  BY DEF Init, NewSocket, NoCall, Promise!Init
<1>2. IInv /\ [Next]_vars => [Promise!Next]_(Promise!vars)
  BY NextBoxStep DEF BoxStep
<1> QED BY <1>1, <1>2, Inductive, PTL DEF Spec, ImplementsDatagramBox, Promise!Spec
=============================================================================
