------------------------- MODULE CANRawSocket_proofs -------------------------
(***************************************************************************)
(* Proofs about CANRawSocket, for any interfaces, names, numbers of        *)
(* filters and queues, and for both sizes of a pointer.                    *)
(***************************************************************************)
EXTENDS CANRawSocket, SequenceTheorems, TLAPS

-----------------------------------------------------------------------------
(* The parts of the invariant: the interfaces, the socket, the call, and   *)
(* what relates names to interfaces.                                       *)

NetOK ==
  /\ netdev \in [Index -> [name : Names \cup {NoName}, up : BOOLEAN]]
  /\ plugged \in Index \cup {0}

SockOK ==
  /\ sock \in SockType /\ Len(sock.queue) <= QueueLimit
  /\ asked \in [name : Names \cup {NoName}, renamed : BOOLEAN]

CallOK == call \in CallType /\ FrameOK /\ NoFrameYet

LinkOK == BoundAsAsked /\ PluggedOK /\ NamedOK

LEMMA Parts == IInv <=> NetOK /\ SockOK /\ CallOK /\ LinkOK /\ AnsweredAtOnce
BY DEF IInv, TypeOK, NetOK, SockOK, CallOK, LinkOK

LEMMA NextParts == IInv' <=> NetOK' /\ SockOK' /\ CallOK' /\ LinkOK' /\ AnsweredAtOnce'
BY DEF IInv, TypeOK, NetOK, SockOK, CallOK, LinkOK

LEMMA NoCallType == NoCall \in CallType /\ NoCall.frame = 0
BY DEF NoCall, CallType, Index

(* A call that is over.                                                    *)
LEMMA PlainCall ==
  ASSUME call' \in CallType, call'.pc \in {"returned", "threw"}
  PROVE  CallOK'
BY DEF CallOK, FrameOK, NoFrameYet

LEMMA EndsCall ==
  ASSUME call \in CallType, NEW pc \in {"returned", "threw"}, Done(pc)
  PROVE  CallOK'
<1>1. call' = [NoCall EXCEPT !.op = call.op, !.pc = pc]
  BY DEF Done
<1>2. call' \in CallType /\ call'.pc = pc
  BY <1>1, NoCallType DEF CallType
<1> QED BY <1>2, PlainCall

LEMMA AnswersCall ==
  ASSUME NEW pc \in {"returned", "threw"}, Answered(pc)
  PROVE  CallOK' /\ netdev' = netdev /\ plugged' = plugged
<1>1. call' = [NoCall EXCEPT !.pc = pc]
  BY DEF Answered
<1>2. call' \in CallType /\ call'.pc = pc
  BY <1>1, NoCallType DEF CallType
<1> QED BY <1>2, PlainCall DEF Answered

LEMMA SameNet ==
  ASSUME NetOK, netdev' = netdev, plugged' = plugged
  PROVE  NetOK'
BY DEF NetOK

LEMMA SameSock ==
  ASSUME SockOK, sock' = sock, asked' = asked
  PROVE  SockOK'
BY DEF SockOK

LEMMA SameCall ==
  ASSUME CallOK, call' = call
  PROVE  CallOK'
BY DEF CallOK, FrameOK, NoFrameYet

(* A socket of which only the pending error changes.                       *)
LEMMA ErrChanges ==
  ASSUME SockOK, NEW err \in BOOLEAN, sock' = [sock EXCEPT !.err = err], asked' = asked
  PROVE  SockOK'
<1>1. /\ sock' \in SockType /\ sock'.queue = sock.queue /\ sock'.bound = sock.bound
      /\ sock'.ifindex = sock.ifindex /\ sock'.filters = sock.filters
  BY DEF SockOK, SockType
<1> QED BY <1>1 DEF SockOK

(* A frame is queued.                                                      *)
LEMMA FrameQueued ==
  ASSUME SockOK, NEW i \in Index, Receives(i),
         sock' = [sock EXCEPT !.queue = Append(@, i)], asked' = asked
  PROVE  SockOK'
<1> DEFINE q == Append(sock.queue, i)
<1>1. q \in Seq(Index) /\ Len(q) <= QueueLimit
  <2>1. sock.queue \in Seq(Index)
    BY DEF SockOK, SockType
  <2>2. Len(q) = Len(sock.queue) + 1 /\ Len(sock.queue) \in Nat /\ q \in Seq(Index)
    BY <2>1
  <2> QED BY <2>2, CANAssumption DEF Receives
<1> HIDE DEF q
<1>2. /\ sock' \in SockType /\ sock'.queue = q /\ sock'.bound = sock.bound
      /\ sock'.ifindex = sock.ifindex /\ sock'.filters = sock.filters
  <2>1. sock' = [sock EXCEPT !.queue = q]
    BY DEF q
  <2> QED BY <1>1, <2>1 DEF SockOK, SockType
<1> QED BY <1>1, <1>2 DEF SockOK

LEMMA InitIInv == Init => IInv
<1> SUFFICES ASSUME Init PROVE NetOK /\ SockOK /\ CallOK /\ LinkOK /\ AnsweredAtOnce
  BY Parts
<1>1. NetOK
  BY DEF Init, NetOK
<1>2. SockOK
  <2>1. <<>> \in Seq(Index) /\ Len(<<>>) <= QueueLimit
    BY CANAssumption
  <2>2. sock \in SockType
    BY <2>1, Zenon DEF Init, SockType
  <2>3. sock.queue = <<>> /\ ~sock.bound
    BY DEF Init
  <2>4. asked \in [name : Names \cup {NoName}, renamed : BOOLEAN]
    BY DEF Init
  <2> QED BY <2>1, <2>2, <2>3, <2>4 DEF SockOK
<1>3. CallOK
  BY NoCallType DEF Init, CallOK, FrameOK, NoFrameYet, NoCall
<1>4. LinkOK
  BY DEF Init, NoCall, LinkOK, BoundAsAsked, PluggedOK, NamedOK
<1>5. AnsweredAtOnce
  BY DEF Init, NoCall, AnsweredAtOnce
<1> QED BY <1>1, <1>2, <1>3, <1>4, <1>5

-----------------------------------------------------------------------------
(* The steps.                                                              *)

LEMMA NetStep ==
  ASSUME NetOK, SockOK, CallOK,
         \/ \E name \in Names : Plug(name)
         \/ \E i \in Index :
              Unplug(i) \/ Switch(i) \/ Arrive(i) \/ \E name \in Names : Rename(i, name)
  PROVE  NetOK' /\ SockOK' /\ CallOK'
<1>0. MaxIndex \in Nat \ {0} /\ Index = 1..MaxIndex /\ 0 \notin Index
  BY CANAssumption DEF Index
<1>1. ASSUME NEW name \in Names, Plug(name) PROVE NetOK' /\ SockOK' /\ CallOK'
  <2>1. plugged + 1 \in Index
    BY <1>0, <1>1 DEF Plug, NetOK
  <2>2. [name |-> name, up |-> TRUE] \in [name : Names \cup {NoName}, up : BOOLEAN]
    BY Zenon
  <2>3. NetOK'
    BY <1>1, <2>1, <2>2 DEF Plug, NetOK
  <2> QED BY <1>1, <2>3, SameSock, SameCall DEF Plug
<1>2. ASSUME NEW i \in Index, Unplug(i) PROVE NetOK' /\ SockOK' /\ CallOK'
  <2>1. [name |-> NoName, up |-> FALSE] \in [name : Names \cup {NoName}, up : BOOLEAN]
    BY Zenon
  <2>2. NetOK'
    BY <1>2, <2>1 DEF Unplug, NetOK
  <2>3. SockOK'
    <3>1. CASE IsBoundTo(i)
      <4> DEFINE t == [sock EXCEPT !.bound = FALSE, !.ifindex = 0, !.err = TRUE]
      <4>1. sock' = t
        BY <1>2, <3>1 DEF Unplug
      <4>2. t \in SockType
        BY Zenon DEF SockOK, SockType
      <4>3. t.queue = sock.queue /\ ~t.bound /\ t.filters = sock.filters
        BY DEF SockOK, SockType
      <4> QED BY <1>2, <4>1, <4>2, <4>3 DEF Unplug, SockOK
    <3>2. CASE ~IsBoundTo(i)
      BY <1>2, <3>2, SameSock DEF Unplug
    <3> QED BY <3>1, <3>2
  <2> QED BY <1>2, <2>2, <2>3, SameCall DEF Unplug
<1>3. ASSUME NEW i \in Index, Switch(i) PROVE NetOK' /\ SockOK' /\ CallOK'
  <2>1. NetOK'
    BY <1>3 DEF Switch, NetOK
  <2>2. (sock.err \/ (netdev[i].up /\ IsBoundTo(i))) \in BOOLEAN
    BY Zenon
  <2>3. sock' = [sock EXCEPT !.err = (sock.err \/ (netdev[i].up /\ IsBoundTo(i)))]
    BY <1>3 DEF Switch
  <2>4. SockOK'
    BY <1>3, <2>2, <2>3, ErrChanges DEF Switch
  <2> QED BY <1>3, <2>1, <2>4, SameCall DEF Switch
<1>4. ASSUME NEW i \in Index, Arrive(i) PROVE NetOK' /\ SockOK' /\ CallOK'
  BY <1>4, SameNet, FrameQueued, SameCall DEF Arrive
<1>5. ASSUME NEW i \in Index, NEW name \in Names, Rename(i, name)
      PROVE  NetOK' /\ SockOK' /\ CallOK'
  <2>1. NetOK'
    BY <1>5 DEF Rename, NetOK
  <2>2. SockOK'
    <3>1. asked' \in [name : Names \cup {NoName}, renamed : BOOLEAN]
      BY <1>5, Zenon DEF Rename, SockOK
    <3> QED BY <1>5, <3>1 DEF Rename, SockOK
  <2>3. CallOK'
    <3>1. call' \in CallType
      BY <1>5, Zenon DEF Rename, CallOK, CallType
    <3>2. /\ call'.pc = call.pc /\ call'.op = call.op
          /\ call'.dev = call.dev /\ call'.frame = call.frame
      BY <1>5 DEF Rename, CallOK, CallType
    <3> QED BY <3>1, <3>2 DEF CallOK, FrameOK, NoFrameYet
  <2> QED BY <2>1, <2>2, <2>3
<1> QED BY <1>1, <1>2, <1>3, <1>4, <1>5

LEMMA StartNamedStep ==
  ASSUME NetOK, SockOK, CallOK,
         NEW op \in {"bind", "sendTo"}, NEW name \in Names \cup {NoName, LongName},
         StartNamed(op, name)
  PROVE  NetOK' /\ SockOK' /\ CallOK'
<1>1. CASE InterfaceIndex(name) = {}
  <2>1. call' = [NoCall EXCEPT !.op = op, !.pc = "threw"]
    BY <1>1 DEF StartNamed
  <2>2. call' \in CallType /\ call'.pc = "threw"
    BY <2>1, NoCallType DEF CallType
  <2> QED BY <2>2, PlainCall, SameNet, SameSock DEF StartNamed
<1>2. CASE InterfaceIndex(name) # {}
  <2>1. PICK i \in InterfaceIndex(name) :
          call' = [NoCall EXCEPT !.op = op, !.pc = "act", !.dev = i, !.name = name]
    BY <1>2 DEF StartNamed
  <2>2. i \in Index \cup {0} /\ name \in Names \cup {NoName} /\ (name # NoName => i # 0)
    <3>1. CASE name = NoName
      BY <2>1, <3>1 DEF InterfaceIndex
    <3>2. CASE name # NoName
      <4>1. i \in Index /\ i # 0 /\ netdev[i].name = name
        BY <2>1, <3>2 DEF InterfaceIndex, Live
      <4>2. netdev[i].name \in Names \cup {NoName}
        BY <4>1 DEF NetOK
      <4> QED BY <4>1, <4>2
    <3> QED BY <3>1, <3>2
  <2>3. call' \in CallType /\ call'.pc = "act" /\ call'.dev = i /\ call'.name = name
    BY <2>1, <2>2, NoCallType DEF CallType
  <2>4. CallOK'
    BY <2>2, <2>3 DEF CallOK, FrameOK, NoFrameYet
  <2> QED BY <2>4, SameNet, SameSock DEF StartNamed
<1> QED BY <1>1, <1>2

LEMMA BindStep ==
  ASSUME NetOK, SockOK, CallOK, Bind
  PROVE  NetOK' /\ SockOK' /\ CallOK'
<1> DEFINE i == call.dev
<1>1. /\ call \in CallType /\ i \in Index \cup {0} /\ call.name \in Names \cup {NoName}
      /\ call.renamed \in BOOLEAN
  BY DEF Bind, CallOK, CallType
<1>2. CASE i = 0 \/ Live(i)
  <2>1. /\ sock' = IF IsBoundTo(i) THEN sock
                   ELSE [sock EXCEPT !.bound = TRUE, !.ifindex = i,
                               !.err = @ \/ (i # 0 /\ ~netdev[i].up)]
        /\ asked' = [name |-> call.name, renamed |-> call.renamed]
        /\ Done("returned")
    BY <1>2 DEF Bind
  <2>2. /\ sock' \in SockType /\ sock'.queue = sock.queue /\ sock'.bound
        /\ sock'.ifindex = i /\ sock'.filters = sock.filters
    <3>1. CASE IsBoundTo(i)
      BY <2>1, <3>1 DEF IsBoundTo, SockOK
    <3>2. CASE ~IsBoundTo(i)
      <4> DEFINE t == [sock EXCEPT !.bound = TRUE, !.ifindex = i,
                         !.err = @ \/ (i # 0 /\ ~netdev[i].up)]
      <4>1. sock' = t
        BY <2>1, <3>2
      <4>2. t \in SockType
        BY <1>1, Zenon DEF SockOK, SockType
      <4>3. t.queue = sock.queue /\ t.bound /\ t.filters = sock.filters /\ t.ifindex = i
        BY DEF SockOK, SockType
      <4> QED BY <4>1, <4>2, <4>3
    <3> QED BY <3>1, <3>2
  <2>3. asked' \in [name : Names \cup {NoName}, renamed : BOOLEAN]
    BY <1>1, <2>1
  <2>4. SockOK'
    BY <1>1, <2>2, <2>3 DEF SockOK
  <2> QED BY <1>1, <2>1, <2>4, EndsCall, SameNet DEF Bind
<1>3. CASE ~(i = 0 \/ Live(i))
  BY <1>1, <1>3, EndsCall, SameNet, SameSock DEF Bind
<1> QED BY <1>2, <1>3

LEMMA TransmitStep ==
  ASSUME NetOK, SockOK, CallOK, NEW i, Transmit(i), i \in Index \cup {0}
  PROVE  NetOK' /\ SockOK' /\ CallOK'
<1>1. call \in CallType
  BY DEF CallOK
<1>2. CASE Live(i) /\ Done("returned")
           /\ sock' = IF sock.loopback /\ sock.own /\ Receives(i)
                        THEN [sock EXCEPT !.queue = Append(@, i)] ELSE sock
  <2>1. i \in Index
    BY <1>2 DEF Live
  <2>2. SockOK'
    BY <1>2, <2>1, FrameQueued, SameSock DEF Transmit
  <2> QED BY <1>1, <1>2, <2>2, EndsCall, SameNet DEF Transmit
<1>3. CASE Done("threw") /\ sock' = [sock EXCEPT !.err = @ /\ ~Live(i)]
  <2>1. (sock.err /\ ~Live(i)) \in BOOLEAN
    BY Zenon
  <2>2. sock' = [sock EXCEPT !.err = (sock.err /\ ~Live(i))]
    BY <1>3
  <2>3. SockOK'
    BY <2>1, <2>2, ErrChanges DEF Transmit
  <2> QED BY <1>1, <1>3, <2>3, EndsCall, SameNet DEF Transmit
<1> QED BY <1>2, <1>3 DEF Transmit

LEMMA NameStep ==
  ASSUME NetOK, SockOK, CallOK, GetLocalInterface \/ InterfaceName
  PROVE  NetOK' /\ SockOK' /\ CallOK'
<1>1. CASE GetLocalInterface
  <2>1. call' = [NoCall EXCEPT !.op = "getLocalInterface", !.pc = "name", !.dev = sock.ifindex]
    BY <1>1 DEF GetLocalInterface
  <2>2. sock.ifindex \in Index \cup {0}
    BY DEF SockOK, SockType
  <2>3. call' \in CallType /\ call'.pc = "name" /\ call'.frame = 0
    BY <2>1, <2>2, NoCallType DEF CallType, NoCall
  <2>4. CallOK'
    BY <2>3 DEF CallOK, FrameOK, NoFrameYet
  <2> QED BY <1>1, <2>4, SameNet, SameSock DEF GetLocalInterface
<1>2. CASE InterfaceName
  <2>1. call \in CallType
    BY DEF CallOK
  <2>2. call' \in CallType /\ call'.pc \in {"returned", "threw"}
    <3>1. CASE Live(call.dev)
      <4>1. call.dev \in Index
        BY <2>1, <3>1 DEF Live, CallType
      <4>2. netdev[call.dev].name \in Names \cup {NoName}
        BY <4>1 DEF NetOK
      <4> QED BY <1>2, <2>1, <3>1, <4>2 DEF InterfaceName, CallType
    <3>2. CASE ~Live(call.dev)
      BY <1>2, <2>1, <3>2 DEF InterfaceName, CallType
    <3> QED BY <3>1, <3>2
  <2> QED BY <1>2, <2>2, PlainCall, SameNet, SameSock DEF InterfaceName
<1> QED BY <1>1, <1>2

LEMMA ReceiveStep ==
  ASSUME NetOK, SockOK, CallOK,
         \/ \E op \in Receivers : StartReceive(op)
         \/ PollReturns \/ PollTimesOut \/ RecvThrows \/ RecvTakes
  PROVE  NetOK' /\ SockOK' /\ CallOK'
<1>0. call \in CallType
  BY DEF CallOK
<1>1. ASSUME NEW op \in Receivers, StartReceive(op) PROVE NetOK' /\ SockOK' /\ CallOK'
  <2> DEFINE pc == IF op \in {"receive", "receiveFrom"} THEN "recv" ELSE "poll"
  <2>1. pc \in {"recv", "poll"} /\ call' = [NoCall EXCEPT !.op = op, !.pc = pc]
    BY <1>1 DEF StartReceive
  <2> HIDE DEF pc
  <2>2. call' \in CallType /\ call'.pc = pc /\ call'.op = op /\ call'.frame = 0
    BY <2>1, NoCallType DEF CallType, Receivers
  <2>3. CallOK'
    BY <2>1, <2>2 DEF CallOK, FrameOK, NoFrameYet
  <2> QED BY <1>1, <2>3, SameNet, SameSock DEF StartReceive
<1>2. CASE PollReturns
  <2>1. CASE call' = [call EXCEPT !.pc = "recv"]
    <3>1. /\ call' \in CallType /\ call'.pc = "recv"
          /\ call'.op = call.op /\ call'.frame = call.frame
      BY <1>0, <2>1 DEF CallType
    <3>2. CallOK'
      BY <1>2, <3>1 DEF PollReturns, CallOK, FrameOK, NoFrameYet
    <3> QED BY <1>2, <3>2, SameNet, SameSock DEF PollReturns
  <2>2. CASE Done("returned")
    BY <1>0, <1>2, <2>2, EndsCall, SameNet, SameSock DEF PollReturns
  <2> QED BY <1>2, <2>1, <2>2 DEF PollReturns
<1>3. CASE PollTimesOut
  BY <1>0, <1>3, EndsCall, SameNet, SameSock DEF PollTimesOut
<1>4. CASE RecvThrows
  BY <1>0, <1>4, EndsCall, ErrChanges, SameNet DEF RecvThrows
<1>5. CASE RecvTakes
  <2> DEFINE i == Head(sock.queue)
             pc == IF NeedsName THEN "name" ELSE "returned"
  <2>1. sock.queue \in Seq(Index) /\ sock.queue # <<>> /\ sock \in SockType
    BY <1>5 DEF RecvTakes, SockOK, SockType
  <2>2. /\ i \in Index /\ Tail(sock.queue) \in Seq(Index)
        /\ Len(Tail(sock.queue)) = Len(sock.queue) - 1 /\ Len(sock.queue) \in Nat
    BY <2>1
  <2>3. /\ sock' = [sock EXCEPT !.queue = Tail(sock.queue)] /\ asked' = asked
        /\ call' = [call EXCEPT !.pc = pc, !.dev = i, !.frame = i]
    BY <1>5 DEF RecvTakes
  <2>4. SockOK'
    <3>1. /\ sock' \in SockType /\ sock'.queue = Tail(sock.queue) /\ sock'.bound = sock.bound
          /\ sock'.ifindex = sock.ifindex /\ sock'.filters = sock.filters
      BY <2>1, <2>2, <2>3 DEF SockType
    <3>2. Len(sock'.queue) <= QueueLimit
      <4>1. Len(sock.queue) <= QueueLimit
        BY DEF SockOK
      <4> QED BY <2>2, <3>1, <4>1, CANAssumption
    <3> QED BY <2>3, <3>1, <3>2 DEF SockOK
  <2>5. CallOK'
    <3>1. pc \in {"name", "returned"}
      OBVIOUS
    <3> HIDE DEF i, pc
    <3>2. call' \in CallType /\ call'.pc = pc /\ call'.dev = i /\ call'.frame = i
      BY <1>0, <2>2, <2>3, <3>1 DEF CallType
    <3> QED BY <3>1, <3>2 DEF CallOK, FrameOK, NoFrameYet
  <2> QED BY <1>5, <2>4, <2>5, SameNet DEF RecvTakes
<1> QED BY <1>1, <1>2, <1>3, <1>4, <1>5

LEMMA OptionStep ==
  ASSUME NetOK, SockOK, CallOK,
         \/ \E len \in Lens : SetReceiveFilter(len) \/ SetErrorFilter(len)
         \/ \E enable \in BOOLEAN : SetLocalLoopback(enable) \/ SetReceiveOwnMessages(enable)
         \/ Refused
  PROVE  NetOK' /\ SockOK' /\ CallOK'
<1>1. ASSUME NEW len \in Lens, SetReceiveFilter(len) PROVE NetOK' /\ SockOK' /\ CallOK'
  <2>1. len \in Nat /\ PtrSize \in {4, 8} /\ FilterSize = 8
    BY CANAssumption DEF FilterSize
  <2>2. CASE (PtrSize * len) % FilterSize = 0
    <3> DEFINE n == (PtrSize * len) \div FilterSize
    <3>1. n \in Nat
      <4>1. CASE PtrSize = 8
        BY <2>1, <4>1
      <4>2. CASE PtrSize = 4
        BY <2>1, <4>2
      <4> QED BY <2>1, <4>1, <4>2
    <3>2. Answered("returned") /\ sock' = [sock EXCEPT !.filters = n] /\ asked' = asked
      BY <1>1, <2>2 DEF SetReceiveFilter
    <3> HIDE DEF n
    <3>3. sock' \in SockType /\ sock'.queue = sock.queue
      BY <3>1, <3>2 DEF SockOK, SockType
    <3>4. SockOK'
      BY <3>2, <3>3 DEF SockOK
    <3> QED BY <3>2, <3>4, AnswersCall, SameNet
  <2>3. CASE (PtrSize * len) % FilterSize # 0
    BY <1>1, <2>3, AnswersCall, SameNet, SameSock DEF SetReceiveFilter
  <2> QED BY <2>2, <2>3
<1>2. ASSUME NEW len \in Lens, SetErrorFilter(len) PROVE NetOK' /\ SockOK' /\ CallOK'
  BY <1>2, AnswersCall, SameNet, SameSock DEF SetErrorFilter
<1>3. ASSUME NEW enable \in BOOLEAN,
             Answered("returned"), asked' = asked,
             sock' = [sock EXCEPT !.loopback = enable] \/ sock' = [sock EXCEPT !.own = enable]
      PROVE  NetOK' /\ SockOK' /\ CallOK'
  <2>1. /\ sock' \in SockType /\ sock'.queue = sock.queue /\ sock'.bound = sock.bound
        /\ sock'.ifindex = sock.ifindex /\ sock'.filters = sock.filters
    BY <1>3 DEF SockOK, SockType
  <2>2. SockOK'
    BY <1>3, <2>1 DEF SockOK
  <2> QED BY <1>3, <2>2, AnswersCall, SameNet
<1>4. CASE Refused
  BY <1>4, AnswersCall, SameNet, SameSock DEF Refused
<1> QED BY <1>1, <1>2, <1>3, <1>4 DEF SetLocalLoopback, SetReceiveOwnMessages

LEMMA PartsStep ==
  ASSUME NetOK, SockOK, CallOK, [Next]_vars
  PROVE  NetOK' /\ SockOK' /\ CallOK'
<1>1. CASE SendTo
  <2>1. call.dev \in Index \cup {0}
    BY DEF CallOK, CallType
  <2> QED BY <1>1, <2>1, TransmitStep DEF SendTo
<1>2. CASE Send
  <2>1. sock.ifindex \in Index \cup {0}
    BY DEF SockOK, SockType
  <2> QED BY <1>2, <2>1, TransmitStep DEF Send
<1>3. CASE Connect \/ Disconnect \/ Shutdown \/ GetForeignInterface
  BY <1>3, OptionStep DEF Connect, Disconnect, Shutdown, GetForeignInterface
<1>4. CASE UNCHANGED vars
  BY <1>4, SameNet, SameSock, SameCall DEF vars
<1> QED BY <1>1, <1>2, <1>3, <1>4, NetStep, StartNamedStep, BindStep, NameStep, ReceiveStep,
           OptionStep DEF Next, CallStep

-----------------------------------------------------------------------------
(* Names and interfaces.  Most steps leave both alone, and have no name    *)
(* looked up.                                                              *)

LEMMA LinkKept ==
  ASSUME LinkOK, netdev' = netdev, plugged' = plugged, asked' = asked,
         sock'.bound = sock.bound, sock'.ifindex = sock.ifindex,
         call' = call \/ call'.pc # "act"
  PROVE  LinkOK'
BY DEF LinkOK, BoundAsAsked, PluggedOK, NamedOK

LEMMA ResultKept ==
  ASSUME NEW pc \in {"returned", "threw"}, Done(pc) \/ Answered(pc)
  PROVE  call'.pc # "act"
BY NoCallType DEF Done, Answered, CallType

LEMMA NetLink ==
  ASSUME NetOK, SockOK, CallOK, LinkOK,
         \/ \E name \in Names : Plug(name)
         \/ \E i \in Index :
              Unplug(i) \/ Switch(i) \/ Arrive(i) \/ \E name \in Names : Rename(i, name)
  PROVE  LinkOK'
<1>0. /\ MaxIndex \in Nat /\ Index = 1..MaxIndex /\ plugged \in 0..MaxIndex
      /\ sock \in SockType /\ call \in CallType /\ 0 \notin Index /\ NoName \notin Names
      /\ sock.ifindex \in Index \cup {0} /\ call.dev \in Index \cup {0}
  BY CANAssumption DEF Index, NetOK, SockOK, CallOK, SockType, CallType
<1>1. ASSUME NEW name \in Names, Plug(name) PROVE LinkOK'
  <2>1. /\ plugged + 1 \in Index /\ plugged' = plugged + 1 /\ netdev[plugged + 1].name = NoName
        /\ \A i \in Index : i # plugged + 1 => netdev'[i] = netdev[i]
    BY <1>0, <1>1 DEF Plug, NetOK, LinkOK, PluggedOK
  <2>2. PluggedOK'
    BY <1>0, <2>1 DEF LinkOK, PluggedOK
  <2>3. BoundAsAsked'
    BY <1>0, <1>1, <2>1 DEF Plug, LinkOK, BoundAsAsked
  <2>4. NamedOK'
    BY <1>0, <1>1, <2>1 DEF Plug, LinkOK, NamedOK
  <2> QED BY <2>2, <2>3, <2>4 DEF LinkOK
<1>2. ASSUME NEW i \in Index, Unplug(i) PROVE LinkOK'
  <2>1. /\ netdev'[i].name = NoName /\ \A j \in Index : j # i => netdev'[j] = netdev[j]
        /\ plugged' = plugged /\ asked' = asked /\ call' = call
    BY <1>2 DEF Unplug, NetOK
  <2>2. IF IsBoundTo(i) THEN ~sock'.bound ELSE sock' = sock
    BY <1>0, <1>2 DEF Unplug, SockType
  <2>3. PluggedOK'
    BY <2>1 DEF LinkOK, PluggedOK
  <2>4. BoundAsAsked'
    BY <1>0, <2>1, <2>2 DEF LinkOK, BoundAsAsked, IsBoundTo
  <2>5. NamedOK'
    BY <1>0, <2>1 DEF LinkOK, NamedOK
  <2> QED BY <2>3, <2>4, <2>5 DEF LinkOK
<1>3. ASSUME NEW i \in Index, Switch(i) PROVE LinkOK'
  <2>1. \A j \in Index : netdev'[j].name = netdev[j].name
    BY <1>3 DEF Switch, NetOK
  <2>2. /\ sock'.bound = sock.bound /\ sock'.ifindex = sock.ifindex
        /\ plugged' = plugged /\ asked' = asked /\ call' = call
    BY <1>0, <1>3 DEF Switch, SockType
  <2> QED BY <1>0, <2>1, <2>2 DEF LinkOK, BoundAsAsked, PluggedOK, NamedOK
<1>4. ASSUME NEW i \in Index, Arrive(i) PROVE LinkOK'
  BY <1>0, <1>4, LinkKept DEF Arrive, SockType
<1>5. ASSUME NEW i \in Index, NEW name \in Names, Rename(i, name) PROVE LinkOK'
  <2>1. \A j \in Index : j # i => netdev'[j] = netdev[j]
    BY <1>5 DEF Rename, NetOK
  <2>2. /\ asked'.name = asked.name
        /\ asked'.renamed = (asked.renamed \/ IsBoundTo(i))
    BY <1>5 DEF Rename, SockOK
  <2>3. /\ call'.pc = call.pc /\ call'.dev = call.dev /\ call'.name = call.name
        /\ call'.renamed = (call.renamed \/ (call.pc = "act" /\ call.dev = i))
    BY <1>0, <1>5 DEF Rename, CallType
  <2>4. sock' = sock /\ plugged' = plugged /\ ~(i > plugged)
    BY <1>0, <1>5 DEF Rename, Live, LinkOK, PluggedOK
  <2>5. PluggedOK'
    BY <2>1, <2>4 DEF LinkOK, PluggedOK
  <2>6. BoundAsAsked'
    BY <1>0, <2>1, <2>2, <2>4 DEF LinkOK, BoundAsAsked, IsBoundTo
  <2>7. NamedOK'
    <3>1. CASE call.pc = "act" /\ call.dev = i
      BY <1>0, <2>3, <2>4, <3>1 DEF LinkOK, NamedOK
    <3>2. CASE ~(call.pc = "act" /\ call.dev = i)
      <4>1. call.renamed \in BOOLEAN /\ call'.renamed = call.renamed
        BY <1>0, <2>3, <3>2, Zenon DEF CallType
      <4> QED BY <1>0, <2>1, <2>3, <2>4, <3>2, <4>1 DEF LinkOK, NamedOK
    <3> QED BY <3>1, <3>2
  <2> QED BY <2>5, <2>6, <2>7 DEF LinkOK
<1> QED BY <1>1, <1>2, <1>3, <1>4, <1>5

LEMMA StartNamedLink ==
  ASSUME NetOK, LinkOK,
         NEW op \in {"bind", "sendTo"}, NEW name \in Names \cup {NoName, LongName},
         StartNamed(op, name)
  PROVE  LinkOK'
<1>1. CASE InterfaceIndex(name) = {}
  <2>1. call'.pc # "act"
    BY <1>1, NoCallType DEF StartNamed, CallType
  <2> QED BY <2>1, LinkKept DEF StartNamed
<1>2. CASE InterfaceIndex(name) # {}
  <2>1. PICK i \in InterfaceIndex(name) :
          call' = [NoCall EXCEPT !.op = op, !.pc = "act", !.dev = i, !.name = name]
    BY <1>2 DEF StartNamed
  <2>2. call'.dev = i /\ call'.name = name
    BY <2>1, NoCallType DEF CallType
  <2>3. /\ netdev' = netdev /\ plugged' = plugged /\ sock' = sock /\ asked' = asked
    BY DEF StartNamed
  <2>4. name # NoName => i \in Index /\ netdev[i].name = name
    BY <2>1 DEF InterfaceIndex
  <2>5. name # NoName => i \in 1..plugged
    <3>1. MaxIndex \in Nat /\ Index = 1..MaxIndex /\ plugged \in 0..MaxIndex
      BY CANAssumption DEF Index, NetOK
    <3> QED BY <2>4, <3>1 DEF LinkOK, PluggedOK
  <2> QED BY <2>2, <2>3, <2>4, <2>5 DEF LinkOK, BoundAsAsked, PluggedOK, NamedOK
<1> QED BY <1>1, <1>2

LEMMA BindLink ==
  ASSUME SockOK, CallOK, LinkOK, Bind
  PROVE  LinkOK'
<1> DEFINE i == call.dev
<1>1. call.pc = "act" /\ call'.pc # "act" /\ netdev' = netdev /\ plugged' = plugged
  BY ResultKept DEF Bind
<1>2. CASE i = 0 \/ Live(i)
  <2>1. sock'.bound /\ sock'.ifindex = i
    BY <1>2 DEF Bind, IsBoundTo, SockOK, SockType
  <2>2. asked'.name = call.name /\ asked'.renamed = call.renamed
    BY <1>2 DEF Bind
  <2>3. call.name # NoName => i # 0 /\ (netdev[i].name = call.name \/ call.renamed)
    <3>1. call.name # NoName => i \in 1..plugged /\ (netdev[i].name \in {call.name, NoName} \/ call.renamed)
      BY <1>1 DEF LinkOK, NamedOK
    <3> QED BY <1>2, <3>1 DEF Live
  <2>4. BoundAsAsked'
    BY <1>1, <2>1, <2>2, <2>3 DEF BoundAsAsked
  <2> QED BY <1>1, <2>4 DEF LinkOK, PluggedOK, NamedOK
<1>3. CASE ~(i = 0 \/ Live(i))
  BY <1>1, <1>3, LinkKept DEF Bind
<1> QED BY <1>2, <1>3

LEMMA CallLink ==
  ASSUME SockOK, CallOK, LinkOK,
         \/ SendTo \/ Send \/ GetLocalInterface \/ InterfaceName
         \/ \E op \in Receivers : StartReceive(op)
         \/ PollReturns \/ PollTimesOut \/ RecvThrows \/ RecvTakes
  PROVE  LinkOK'
<1>0. sock \in SockType /\ call \in CallType
  BY DEF SockOK, CallOK
<1>1. netdev' = netdev /\ plugged' = plugged /\ asked' = asked
  BY DEF SendTo, Send, Transmit, GetLocalInterface, InterfaceName, StartReceive, PollReturns,
         PollTimesOut, RecvThrows, RecvTakes
<1>2. sock'.bound = sock.bound /\ sock'.ifindex = sock.ifindex
  BY <1>0 DEF SendTo, Send, Transmit, GetLocalInterface, InterfaceName, StartReceive, PollReturns,
              PollTimesOut, RecvThrows, RecvTakes, SockType
<1>3. call'.pc # "act"
  <2>1. CASE SendTo \/ Send \/ PollTimesOut \/ RecvThrows
    BY <2>1, ResultKept DEF SendTo, Send, Transmit, PollTimesOut, RecvThrows
  <2>2. CASE GetLocalInterface \/ \E op \in Receivers : StartReceive(op)
    BY <2>2, NoCallType DEF GetLocalInterface, StartReceive, CallType
  <2>3. CASE PollReturns
    BY <1>0, <2>3, ResultKept DEF PollReturns, CallType
  <2>4. CASE InterfaceName \/ RecvTakes
    BY <1>0, <2>4 DEF InterfaceName, RecvTakes, CallType
  <2> QED BY <2>1, <2>2, <2>3, <2>4
<1> QED BY <1>1, <1>2, <1>3, LinkKept

LEMMA OptionLink ==
  ASSUME SockOK, LinkOK,
         \/ \E len \in Lens : SetReceiveFilter(len) \/ SetErrorFilter(len)
         \/ \E enable \in BOOLEAN : SetLocalLoopback(enable) \/ SetReceiveOwnMessages(enable)
         \/ Refused
  PROVE  LinkOK'
<1>1. Answered("returned") \/ Answered("threw")
  BY DEF SetReceiveFilter, SetErrorFilter, SetLocalLoopback, SetReceiveOwnMessages, Refused
<1>2. netdev' = netdev /\ plugged' = plugged /\ call'.pc # "act"
  BY <1>1, ResultKept DEF Answered
<1>3. asked' = asked /\ sock'.bound = sock.bound /\ sock'.ifindex = sock.ifindex
  BY DEF SetReceiveFilter, SetErrorFilter, SetLocalLoopback, SetReceiveOwnMessages, Refused,
         SockOK, SockType
<1> QED BY <1>2, <1>3, LinkKept

LEMMA LinkStep ==
  ASSUME NetOK, SockOK, CallOK, LinkOK, [Next]_vars
  PROVE  LinkOK'
<1>1. CASE Connect \/ Disconnect \/ Shutdown \/ GetForeignInterface
  BY <1>1, OptionLink DEF Connect, Disconnect, Shutdown, GetForeignInterface
<1>2. CASE UNCHANGED vars
  BY <1>2, LinkKept DEF vars
<1> QED BY <1>1, <1>2, NetLink, StartNamedLink, BindLink, CallLink, OptionLink DEF Next, CallStep

-----------------------------------------------------------------------------
(* What a step does to the queue and to the frame of the call.  Quiet is   *)
(* one that queues no frame and takes none.                                *)

Quiet == sock'.queue = sock.queue /\ call'.frame \in {0, call.frame}

NotReceiving == call'.pc \notin {"poll", "recv"}

LEMMA DoneIs ==
  ASSUME CallOK, NEW pc \in {"returned", "threw"}, Done(pc) \/ Answered(pc)
  PROVE  call'.frame = 0 /\ NotReceiving
<1>1. NoCall \in CallType /\ NoCall.frame = 0
  BY NoCallType
<1> QED BY <1>1 DEF Done, Answered, CallType, NotReceiving

(* Interfaces come and go, and are renamed.                                *)
LEMMA NetQuiet ==
  ASSUME SockOK, CallOK,
         \/ \E name \in Names : Plug(name)
         \/ \E i \in Index : Unplug(i) \/ Switch(i) \/ \E name \in Names : Rename(i, name)
         \/ UNCHANGED vars
  PROVE  Quiet /\ call'.pc = call.pc /\ call'.op = call.op
<1>1. sock \in SockType /\ call \in CallType
  BY DEF SockOK, CallOK
<1>2. sock' = sock => sock'.queue = sock.queue
  OBVIOUS
<1>3. ASSUME NEW i \in Index, Unplug(i) PROVE sock'.queue = sock.queue
  BY <1>1, <1>3 DEF Unplug, SockType
<1>4. ASSUME NEW i \in Index, Switch(i) PROVE sock'.queue = sock.queue
  BY <1>1, <1>4 DEF Switch, SockType
<1>5. call'.pc = call.pc /\ call'.op = call.op /\ call'.frame = call.frame
  BY <1>1 DEF Plug, Unplug, Switch, Rename, vars, CallType
<1> QED BY <1>2, <1>3, <1>4, <1>5 DEF Plug, Rename, vars, Quiet

(* bind(), and the calls about names.                                      *)
LEMMA NamedQuiet ==
  ASSUME SockOK, CallOK,
         \/ \E op \in {"bind", "sendTo"}, name \in Names \cup {NoName, LongName} :
              StartNamed(op, name)
         \/ Bind \/ GetLocalInterface \/ InterfaceName
  PROVE  Quiet /\ NotReceiving
<1>1. NoCall \in CallType /\ NoCall.frame = 0 /\ sock \in SockType /\ call \in CallType
  BY NoCallType DEF SockOK, CallOK
<1>2. ASSUME NEW op \in {"bind", "sendTo"}, NEW name \in Names \cup {NoName, LongName},
             StartNamed(op, name)
      PROVE  Quiet /\ NotReceiving
  <2>1. CASE InterfaceIndex(name) = {}
    BY <1>1, <1>2, <2>1 DEF StartNamed, CallType, Quiet, NotReceiving
  <2>2. CASE InterfaceIndex(name) # {}
    BY <1>1, <1>2, <2>2 DEF StartNamed, CallType, Quiet, NotReceiving
  <2> QED BY <2>1, <2>2
<1>3. CASE Bind
  <2>1. Done("returned") \/ Done("threw")
    BY <1>3 DEF Bind
  <2>2. sock'.queue = sock.queue
    BY <1>1, <1>3 DEF Bind, SockType
  <2> QED BY <2>1, <2>2, DoneIs DEF Quiet
<1>4. CASE GetLocalInterface
  BY <1>1, <1>4 DEF GetLocalInterface, CallType, Quiet, NotReceiving
<1>5. CASE InterfaceName
  BY <1>1, <1>5 DEF InterfaceName, CallType, Quiet, NotReceiving
<1> QED BY <1>2, <1>3, <1>4, <1>5

(* Options, and what the kernel refuses.                                   *)
LEMMA OptionQuiet ==
  ASSUME SockOK, CallOK,
         \/ \E len \in Lens : SetReceiveFilter(len) \/ SetErrorFilter(len)
         \/ \E enable \in BOOLEAN : SetLocalLoopback(enable) \/ SetReceiveOwnMessages(enable)
         \/ Refused
  PROVE  Quiet /\ NotReceiving
<1>1. sock \in SockType
  BY DEF SockOK
<1>2. ASSUME NEW len \in Lens, SetReceiveFilter(len) \/ SetErrorFilter(len)
      PROVE  (Answered("returned") \/ Answered("threw")) /\ sock'.queue = sock.queue
  BY <1>1, <1>2 DEF SetReceiveFilter, SetErrorFilter, SockType
<1>3. ASSUME NEW enable \in BOOLEAN, SetLocalLoopback(enable) \/ SetReceiveOwnMessages(enable)
      PROVE  Answered("returned") /\ sock'.queue = sock.queue
  BY <1>1, <1>3 DEF SetLocalLoopback, SetReceiveOwnMessages, SockType
<1>4. CASE Refused
  BY <1>4, DoneIs DEF Refused, Quiet
<1> QED BY <1>2, <1>3, <1>4, DoneIs DEF Quiet

(* Receiving, until a frame is taken.                                      *)
LEMMA WaitQuiet ==
  ASSUME SockOK, CallOK,
         \/ \E op \in Receivers : StartReceive(op)
         \/ PollReturns \/ PollTimesOut \/ RecvThrows
  PROVE  Quiet /\ (AnsweredAtOnce => AnsweredAtOnce')
<1>1. NoCall \in CallType /\ NoCall.frame = 0 /\ sock \in SockType /\ call \in CallType
  BY NoCallType DEF SockOK, CallOK
<1>2. ASSUME NEW op \in Receivers, StartReceive(op)
      PROVE  Quiet /\ AnsweredAtOnce'
  <2>1. CASE op \in {"receive", "receiveFrom"}
    BY <1>1, <1>2, <2>1 DEF StartReceive, CallType, Quiet, AnsweredAtOnce, Receivers
  <2>2. CASE op \notin {"receive", "receiveFrom"}
    BY <1>1, <1>2, <2>2 DEF StartReceive, CallType, Quiet, AnsweredAtOnce, Receivers
  <2> QED BY <2>1, <2>2
<1>3. CASE PollReturns
  <2>1. CASE sock.queue # <<>>
    BY <1>1, <1>3, <2>1 DEF PollReturns, CallType, Quiet, AnsweredAtOnce
  <2>2. CASE sock.queue = <<>>
    BY <1>3, <2>2, DoneIs DEF PollReturns, Quiet, AnsweredAtOnce, NotReceiving
  <2> QED BY <2>1, <2>2
<1>4. CASE PollTimesOut
  BY <1>4, DoneIs DEF PollTimesOut, Quiet, AnsweredAtOnce, NotReceiving
<1>5. CASE RecvThrows
  BY <1>1, <1>5, DoneIs DEF RecvThrows, SockType, Quiet, AnsweredAtOnce, NotReceiving
<1> QED BY <1>2, <1>3, <1>4, <1>5

(* The steps that do more: a frame arrives.                                *)
LEMMA ArriveQueues ==
  ASSUME SockOK, NEW i \in Index, Arrive(i)
  PROVE  sock'.queue = Append(sock.queue, i) /\ sock'.queue # <<>> /\ call' = call
<1>1. sock.queue \in Seq(Index) /\ sock \in SockType
  BY DEF SockOK, SockType
<1>2. Append(sock.queue, i) # <<>>
  BY <1>1
<1> QED BY <1>1, <1>2 DEF Arrive, SockType

(* A message is sent, and perhaps received by the socket itself.           *)
LEMMA TransmitQueues ==
  ASSUME SockOK, CallOK, NEW i \in Index \cup {0}, Transmit(i)
  PROVE  /\ call'.frame = 0 /\ NotReceiving
         /\ \/ sock'.queue = sock.queue
            \/ i \in Index /\ sock'.queue = Append(sock.queue, i)
<1>1. sock \in SockType
  BY DEF SockOK
<1>2. (Done("returned") \/ Done("threw"))
  BY DEF Transmit
<1>3. \/ sock'.queue = sock.queue
      \/ i \in Index /\ sock'.queue = Append(sock.queue, i)
  <2>1. CASE Live(i) /\ sock' = IF sock.loopback /\ sock.own /\ Receives(i)
                                  THEN [sock EXCEPT !.queue = Append(@, i)] ELSE sock
    <3>1. i \in Index
      BY <2>1 DEF Live
    <3> QED BY <1>1, <2>1, <3>1 DEF SockType
  <2>2. CASE sock' = [sock EXCEPT !.err = @ /\ ~Live(i)]
    BY <1>1, <2>2 DEF SockType
  <2> QED BY <2>1, <2>2 DEF Transmit
<1>4. call'.frame = 0 /\ NotReceiving
  BY <1>2, DoneIs
<1> QED BY <1>3, <1>4

(* A frame is taken.                                                       *)
LEMMA TakeDequeues ==
  ASSUME SockOK, CallOK, RecvTakes
  PROVE  /\ sock.queue # <<>> /\ sock'.queue = Tail(sock.queue)
         /\ call.frame = 0 /\ call'.frame = Head(sock.queue)
         /\ NotReceiving
<1>1. sock \in SockType /\ call \in CallType
  BY DEF SockOK, CallOK
<1>2. sock.queue # <<>> /\ call.frame = 0
  BY DEF RecvTakes, CallOK, NoFrameYet
<1>3. call' = [call EXCEPT !.pc = IF NeedsName THEN "name" ELSE "returned",
                           !.dev = Head(sock.queue), !.frame = Head(sock.queue)]
  BY DEF RecvTakes
<1>4. NotReceiving
  <2>1. CASE NeedsName    BY <1>1, <1>3, <2>1 DEF CallType, NotReceiving
  <2>2. CASE ~NeedsName   BY <1>1, <1>3, <2>2 DEF CallType, NotReceiving
  <2> QED BY <2>1, <2>2
<1> QED BY <1>1, <1>2, <1>3, <1>4 DEF RecvTakes, SockType, CallType

LEMMA SendSplit ==
  ASSUME SockOK, CallOK, SendTo \/ Send
  PROVE  \E i \in Index \cup {0} : Transmit(i)
<1>1. call.dev \in Index \cup {0} /\ sock.ifindex \in Index \cup {0}
  BY DEF CallOK, CallType, SockOK, SockType
<1> QED BY <1>1 DEF SendTo, Send

(* All steps.                                                              *)
LEMMA NextSplit ==
  ASSUME SockOK, CallOK, [Next]_vars
  PROVE  \/ Quiet /\ (AnsweredAtOnce => AnsweredAtOnce')
         \/ \E i \in Index : Arrive(i)
         \/ \E i \in Index \cup {0} : Transmit(i)
         \/ RecvTakes
<1>1. NotReceiving => AnsweredAtOnce'
  BY DEF NotReceiving, AnsweredAtOnce
<1>2. Quiet /\ call'.pc = call.pc /\ call'.op = call.op => (AnsweredAtOnce => AnsweredAtOnce')
  BY DEF Quiet, AnsweredAtOnce
<1>3. CASE Connect \/ Disconnect \/ Shutdown \/ GetForeignInterface
  BY <1>1, <1>3, OptionQuiet DEF Connect, Disconnect, Shutdown, GetForeignInterface
<1>4. CASE SendTo \/ Send
  BY <1>4, SendSplit
<1> QED BY <1>1, <1>2, <1>3, <1>4, NetQuiet, NamedQuiet, OptionQuiet, WaitQuiet
        DEF Next, CallStep

LEMMA NextIInv == IInv /\ [Next]_vars => IInv'
<1> SUFFICES ASSUME NetOK, SockOK, CallOK, LinkOK, AnsweredAtOnce, [Next]_vars
             PROVE  AnsweredAtOnce'
  BY Parts, NextParts, PartsStep, LinkStep
<1>1. CASE \E i \in Index : Arrive(i)
  BY <1>1, ArriveQueues DEF AnsweredAtOnce
<1>2. CASE \E i \in Index \cup {0} : Transmit(i)
  BY <1>2, TransmitQueues DEF AnsweredAtOnce, NotReceiving
<1>3. CASE RecvTakes
  BY <1>3, TakeDequeues DEF AnsweredAtOnce, NotReceiving
<1> QED BY <1>1, <1>2, <1>3, NextSplit

-----------------------------------------------------------------------------
(* The inductive invariant holds in every behaviour.                       *)
THEOREM Inductive == Spec => []IInv
BY InitIInv, NextIInv, PTL DEF Spec

(* Every variable keeps its type, and the queue its limit.                 *)
THEOREM TypeCorrect == Spec => []TypeOK
<1>1. IInv => TypeOK
  BY DEF IInv
<1> QED BY <1>1, Inductive, PTL

(* A socket bound by name is bound to the interface of that name, unless   *)
(* that was renamed after bind() (CANSocket.cpp) had looked it up.         *)
THEOREM SetUp == Spec => []BoundAsAsked
<1>1. IInv => BoundAsAsked
  BY DEF IInv
<1> QED BY <1>1, Inductive, PTL

(* A frame that was taken is lost only with its interface, and otherwise   *)
(* comes with the name that interface has when it is looked up.            *)
THEOREM NoFrameLost == Spec => LostOnlyWithInterface
<1>1. IInv /\ [Next]_vars =>
        [call.pc = "name" /\ call.frame # 0 =>
           IF Live(call.frame)
             THEN call'.pc = "returned" /\ call'.name = netdev[call.frame].name
             ELSE call'.pc = "threw"]_<<call>>
  <2> SUFFICES ASSUME IInv, Next, call' # call, call.pc = "name", call.frame # 0
               PROVE  IF Live(call.frame)
                        THEN call'.pc = "returned" /\ call'.name = netdev[call.frame].name
                        ELSE call'.pc = "threw"
    BY DEF vars
  <2>1. call \in CallType /\ call.dev = call.frame
    BY DEF IInv, TypeOK, FrameOK
  <2>2. InterfaceName
    <3>1. ~Over
      BY DEF Over
    <3>2. ~(Connect \/ Disconnect \/ Shutdown \/ GetForeignInterface \/ Send \/ GetLocalInterface)
      BY <3>1 DEF Connect, Disconnect, Shutdown, GetForeignInterface, Refused, Answered, Send,
                  GetLocalInterface
    <3>3. ~(Bind \/ SendTo \/ PollReturns \/ PollTimesOut \/ RecvThrows \/ RecvTakes)
      BY DEF Bind, SendTo, PollReturns, PollTimesOut, RecvThrows, RecvTakes
    <3>4. ASSUME NEW i \in Index, NEW name \in Names, Rename(i, name) PROVE FALSE
      BY <2>1, <3>4 DEF Rename, CallType
    <3> QED BY <3>1, <3>2, <3>3, <3>4 DEF Next, CallStep, Plug, Unplug, Switch, Arrive,
                  StartNamed, StartReceive, SetReceiveFilter, SetErrorFilter,
                  SetLocalLoopback, SetReceiveOwnMessages, Answered
  <2> QED BY <2>1, <2>2 DEF InterfaceName, CallType
<1> QED BY <1>1, Inductive, PTL DEF Spec, LostOnlyWithInterface
(* Behind poll() timedReceive() and timedReceiveFrom() (CANRawSocket.cpp)  *)
(* do not wait: the frame poll() has seen is still there, whatever         *)
(* interfaces do in between.                                               *)
THEOREM Prompt == Spec => []AnsweredAtOnce
<1>1. IInv => AnsweredAtOnce
  BY DEF IInv
<1> QED BY <1>1, Inductive, PTL

-----------------------------------------------------------------------------
(* The refinement of DatagramBox.                                          *)

Taken == [r \in {"thread"} |-> call.frame]

BoxStep == [Promise!Next]_(Promise!vars)

LEMMA QuietBoxStep == ASSUME Quiet PROVE BoxStep
<1>1. CASE call'.frame = call.frame
  BY <1>1 DEF Quiet, BoxStep, Promise!vars
<1>2. CASE call'.frame = 0
  <2>1. Taken' = [Taken EXCEPT !["thread"] = 0]
    BY <1>2 DEF Taken
  <2>2. Promise!Forget("thread")
    BY <2>1 DEF Quiet, Promise!Forget, Promise!Forgets, Taken
  <2> QED BY <2>2 DEF BoxStep, Promise!Next
<1> QED BY <1>1, <1>2 DEF Quiet

(* A frame arrives from a bus, or is the socket's own.                     *)
LEMMA QueueBoxStep ==
  ASSUME NEW i \in Index, sock'.queue = Append(sock.queue, i),
         call'.frame \in {0, call.frame}
  PROVE  BoxStep
<1>1. UNCHANGED Taken \/ Taken' = [Taken EXCEPT !["thread"] = 0]
  BY DEF Taken
<1>2. Promise!Put
  BY <1>1 DEF Promise!Put, Promise!Forgets, Taken
<1> QED BY <1>2 DEF BoxStep, Promise!Next

LEMMA TakeBoxStep == ASSUME SockOK, CallOK, RecvTakes PROVE BoxStep
<1>1. /\ sock.queue # <<>> /\ Taken["thread"] = 0 /\ sock'.queue = Tail(sock.queue)
      /\ Taken' = [Taken EXCEPT !["thread"] = Head(sock.queue)]
  BY TakeDequeues DEF Taken
<1>2. Promise!Take("thread")
  BY <1>1 DEF Promise!Take, Taken
<1> QED BY <1>2 DEF BoxStep, Promise!Next

(* CANRawSocket implements DatagramBox: receive(), receiveFrom() and the   *)
(* timed calls (CANRawSocket.cpp) get every frame that was queued once and *)
(* in order, and a call that throws takes none of those that wait.         *)
THEOREM Refinement == Spec => ImplementsDatagramBox
<1>1. Init => Promise!Init
  BY DEF Init, NoCall, Promise!Init
<1>2. IInv /\ [Next]_vars => [Promise!Next]_(Promise!vars)
  <2> SUFFICES ASSUME SockOK, CallOK, [Next]_vars PROVE BoxStep
    BY Parts DEF BoxStep
  <2>1. ASSUME NEW i \in Index, Arrive(i) PROVE BoxStep
    BY <2>1, ArriveQueues, QueueBoxStep
  <2>2. ASSUME NEW i \in Index \cup {0}, Transmit(i) PROVE BoxStep
    BY <2>2, TransmitQueues, QueueBoxStep, QuietBoxStep DEF Quiet
  <2> QED BY <2>1, <2>2, NextSplit, QuietBoxStep, TakeBoxStep
<1> QED BY <1>1, <1>2, Inductive, PTL DEF Spec, ImplementsDatagramBox, Promise!Spec
=============================================================================
