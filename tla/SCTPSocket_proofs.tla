-------------------------- MODULE SCTPSocket_proofs --------------------------
(***************************************************************************)
(* Proofs about SCTPSocket, for any addresses, sizes of messages, buffers  *)
(* and queues.                                                             *)
(***************************************************************************)
EXTENDS SCTPSocket, SequenceTheorems, TLAPS

-----------------------------------------------------------------------------
(* Calls.                                                                  *)

LEMMA NoCallType ==
  /\ NoCall \in CallType
  /\ NoCall.n = 0 /\ NoCall.len = 0 /\ NoCall.op = "none" /\ NoCall.hosts = {}
BY DEF NoCall, CallType

LEMMA CallFields ==
  ASSUME call \in CallType
  PROVE  /\ call.len \in Nat /\ call.n \in Nat /\ call.len \in Sizes \cup {0}
         /\ call.hosts \subseteq Hosts
<1>1. \A len \in Sizes : len \in Nat
  BY SCTPAssumption
<1> QED BY <1>1 DEF CallType

Ops == {"none", "bind", "connect", "send", "receive", "timedReceive"}
Pcs == {"idle", "bind", "connect", "send", "poll", "recv", "returned", "threw", "killed"}
Flags == {"KEEPALIVE", "SHUTDOWN", "ABORT"}

LEMMA Entered ==
  ASSUME NEW op \in Ops, NEW pc \in Pcs, NEW new \in CallType, Enter(op, pc, new)
  PROVE  /\ call' \in CallType /\ call'.op = op /\ call'.pc = pc
         /\ call'.n = new.n /\ call'.len = new.len /\ call'.flag = new.flag
BY DEF Enter, CallType, Ops, Pcs

(* A call that has come to its end leaves no result but n = 0.             *)
LEMMA EndsCall ==
  ASSUME call \in CallType, NEW pc \in {"returned", "threw", "killed"}, Done(pc)
  PROVE  call' \in CallType /\ call'.pc = pc /\ call'.n = 0
<1>1. NoCall \in CallType /\ NoCall.n = 0
  BY NoCallType
<1>2. call' = [NoCall EXCEPT !.op = call.op, !.pc = pc]
  BY DEF Done
<1> QED BY <1>1, <1>2 DEF CallType

LEMMA SentFacts ==
  ASSUME call \in CallType, NEW ret \in Nat, Sent(ret)
  PROVE  /\ call' \in CallType /\ call'.op = call.op
         /\ call'.pc = IF ret < call.len THEN "threw" ELSE "returned"
BY DEF Sent, CallType

LEMMA EndedFacts == Ended \in {"peerGone", "gone"} /\ (ReceiveShut => Ended = "peerGone")
BY DEF Ended

-----------------------------------------------------------------------------
(* The kernel's variables, apart from the call.                            *)
KernelOK ==
  /\ err \in BOOLEAN /\ bound \subseteq Hosts
  /\ assoc \in {"none", "up", "closing", "peerShut", "peerGone", "gone"}
  /\ inq \in Seq(Message) /\ Len(inq) <= QueueLimit
  /\ outq \in 0..QueueLimit
  /\ peerDisconnected \in BOOLEAN /\ (peerDisconnected => ReceiveShut)

CallOK == call \in CallType /\ SendOK

LEMMA Parts == IInv <=> KernelOK /\ CallOK /\ AnsweredAtOnce
BY DEF IInv, TypeOK, KernelOK, CallOK, FlagMeansPeerShut

LEMMA NextParts == IInv' <=> KernelOK' /\ CallOK' /\ AnsweredAtOnce'
BY DEF IInv, TypeOK, KernelOK, CallOK, FlagMeansPeerShut

(* A call that is over without a message, or has just begun.               *)
LEMMA NoMessage ==
  ASSUME call' \in CallType, call'.pc # "send", call'.n = 0
  PROVE  CallOK'
BY DEF CallOK, SendOK

LEMMA SameCall ==
  ASSUME CallOK, call' = call
  PROVE  CallOK'
BY DEF CallOK, SendOK

LEMMA SameKernel ==
  ASSUME KernelOK, UNCHANGED kernel, peerDisconnected' = peerDisconnected
  PROVE  KernelOK'
BY DEF KernelOK, kernel, ReceiveShut

LEMMA InitIInv == Init => IInv
<1> SUFFICES ASSUME Init PROVE KernelOK /\ CallOK /\ AnsweredAtOnce
  BY Parts
<1>1. KernelOK
  <2>1. <<>> \in Seq(Message) /\ Len(<<>>) <= QueueLimit /\ 0 \in 0..QueueLimit
    BY SCTPAssumption
  <2>2. inq \in Seq(Message) /\ Len(inq) <= QueueLimit /\ outq \in 0..QueueLimit
    BY <2>1 DEF Init
  <2> QED BY <2>2 DEF Init, KernelOK
<1>2. CallOK
  BY NoCallType DEF Init, CallOK, SendOK, NoCall
<1>3. AnsweredAtOnce
  BY DEF Init, NoCall, AnsweredAtOnce
<1> QED BY <1>1, <1>2, <1>3

(* What the peer does.                                                     *)
LEMMA PeerStep ==
  ASSUME KernelOK, CallOK, PeerSends \/ PeerReads \/ PeerShuts \/ PeerAborts
  PROVE  KernelOK' /\ CallOK'
<1>1. CASE PeerSends
  <2>1. PICK size \in Sizes : inq' = Append(inq, size)
    BY <1>1 DEF PeerSends
  <2>2. size \in Message
    BY SCTPAssumption DEF Message
  <2>3. inq' \in Seq(Message) /\ Len(inq') = Len(inq) + 1 /\ Len(inq) \in Nat
    BY <2>1, <2>2 DEF KernelOK
  <2>4. Len(inq') <= QueueLimit
    BY <1>1, <2>3, SCTPAssumption DEF PeerSends
  <2> QED BY <1>1, <2>3, <2>4, SameCall DEF PeerSends, KernelOK, ReceiveShut
<1>2. CASE PeerReads
  <2>1. outq' \in 0..QueueLimit
    BY <1>2, SCTPAssumption DEF PeerReads, KernelOK
  <2> QED BY <1>2, <2>1, SameCall DEF PeerReads, KernelOK, ReceiveShut
<1>3. CASE PeerShuts
  BY <1>3, EndedFacts, SameCall DEF PeerShuts, KernelOK, ReceiveShut
<1>4. CASE PeerAborts
  BY <1>4, EndedFacts, SameCall, SCTPAssumption DEF PeerAborts, KernelOK, ReceiveShut
<1> QED BY <1>1, <1>2, <1>3, <1>4

(* bind(), connect() and what asks for the SCTP_STATUS.                    *)
LEMMA AddressStep ==
  ASSUME KernelOK, CallOK,
         \/ \E op \in {"bind", "connect"}, hosts \in SUBSET Hosts : FillAddresses(op, hosts)
         \/ Bind \/ Connect \/ Status
  PROVE  KernelOK' /\ CallOK'
<1>0. call \in CallType /\ NoCall \in CallType /\ NoCall.n = 0
  BY NoCallType DEF CallOK
<1>1. ASSUME NEW op \in {"bind", "connect"}, NEW hosts \in SUBSET Hosts, FillAddresses(op, hosts)
      PROVE  KernelOK' /\ CallOK'
  <2>1. [NoCall EXCEPT !.hosts = hosts] \in CallType /\ [NoCall EXCEPT !.hosts = hosts].n = 0
    BY <1>0 DEF CallType
  <2>2. op \in Ops /\ op \in Pcs /\ "threw" \in Pcs
    BY DEF Ops, Pcs
  <2>3. call' \in CallType /\ call'.pc # "send" /\ call'.n = 0
    BY <1>0, <1>1, <2>1, <2>2, Entered DEF FillAddresses
  <2> QED BY <1>1, <2>3, NoMessage, SameKernel DEF FillAddresses
<1>2. CASE Bind
  <2>1. call' \in CallType /\ call'.pc # "send" /\ call'.n = 0
    BY <1>0, <1>2, EndsCall DEF Bind
  <2>2. bound' \subseteq Hosts
    BY <1>0, <1>2, CallFields DEF Bind, KernelOK
  <2> QED BY <1>2, <2>1, <2>2, NoMessage DEF Bind, KernelOK, ReceiveShut
<1>3. CASE Connect
  <2>1. call' \in CallType /\ call'.pc # "send" /\ call'.n = 0
    BY <1>0, <1>3, EndsCall DEF Connect
  <2>2. CallOK'
    BY <2>1, NoMessage
  <2>3. bound' \subseteq Hosts
    BY <1>3 DEF Connect, KernelOK
  <2>4. \/ assoc' = "up" /\ peerDisconnected' = FALSE
        \/ assoc' = assoc /\ peerDisconnected' = peerDisconnected
    BY <1>3 DEF Connect
  <2>5. err' = err /\ inq' = inq /\ outq' = outq
    BY <1>3 DEF Connect
  <2>6. peerDisconnected' \in BOOLEAN /\ (peerDisconnected' => ReceiveShut')
    <3>1. CASE peerDisconnected' = FALSE
      BY <3>1, Zenon
    <3>2. CASE assoc' = assoc /\ peerDisconnected' = peerDisconnected
      BY <3>2 DEF KernelOK, ReceiveShut
    <3> QED BY <2>4, <3>1, <3>2
  <2>7. assoc' \in {"none", "up", "closing", "peerShut", "peerGone", "gone"}
    BY <2>4 DEF KernelOK
  <2> QED BY <2>2, <2>3, <2>5, <2>6, <2>7 DEF KernelOK
<1>4. CASE Status
  <2>1. call' \in CallType /\ call'.pc # "send" /\ call'.n = 0
    BY <1>0, <1>4, Entered DEF Status, Ops, Pcs
  <2> QED BY <1>4, <2>1, NoMessage, SameKernel DEF Status
<1> QED BY <1>1, <1>2, <1>3, <1>4

(* send() and sendUnordered().                                             *)
LEMMA SendStep ==
  ASSUME KernelOK, CallOK,
         \/ \E len \in Sizes \cup {0}, flag \in Flags, override \in BOOLEAN :
              StartSend(len, flag, override)
         \/ SendTakes \/ SendCloses \/ SendAborts \/ SendFails
  PROVE  KernelOK' /\ CallOK'
<1>0. /\ call \in CallType /\ NoCall \in CallType /\ NoCall.n = 0
      /\ call.len \in Nat /\ QueueLimit \in Nat
  BY NoCallType, CallFields, SCTPAssumption DEF CallOK
<1>1. ASSUME NEW len \in Sizes \cup {0}, NEW flag \in Flags, NEW override \in BOOLEAN,
             StartSend(len, flag, override)
      PROVE  KernelOK' /\ CallOK'
  <2>1. CASE override \/ (flag = "SHUTDOWN" /\ len > 0) \/ (flag = "KEEPALIVE" /\ len = 0)
    <3>1. Enter("send", "threw", NoCall)
      BY <1>1, <2>1 DEF StartSend
    <3>2. call' \in CallType /\ call'.pc # "send" /\ call'.n = 0
      BY <1>0, <3>1, Entered DEF Ops, Pcs
    <3> QED BY <1>1, <3>2, NoMessage, SameKernel DEF StartSend
  <2>2. CASE ~(override \/ (flag = "SHUTDOWN" /\ len > 0) \/ (flag = "KEEPALIVE" /\ len = 0))
    <3> DEFINE new == [NoCall EXCEPT !.len = len, !.flag = flag]
    <3>1. Enter("send", "send", new)
      BY <1>1, <2>2 DEF StartSend
    <3>2. new \in CallType /\ new.len = len /\ new.flag = flag /\ new.n = 0
      BY <1>0 DEF CallType, Flags
    <3> HIDE DEF new
    <3>3. /\ call' \in CallType /\ call'.op = "send" /\ call'.pc = "send"
          /\ call'.len = len /\ call'.flag = flag
      BY <3>1, <3>2, Entered DEF Ops, Pcs
    <3>4. flag = "SHUTDOWN" => len = 0
      <4>1. len \in Nat
        BY SCTPAssumption
      <4> QED BY <2>2, <4>1
    <3>5. CallOK'
      BY <3>3, <3>4 DEF CallOK, SendOK
    <3> QED BY <1>1, <3>5, SameKernel DEF StartSend
  <2> QED BY <2>1, <2>2
<1>2. ASSUME NEW ret \in Nat, call.pc = "send", Sent(ret) PROVE CallOK'
  <2>1. call' \in CallType /\ call'.op = "send" /\ call'.pc # "send"
    BY <1>0, <1>2, SentFacts DEF CallOK, SendOK
  <2> QED BY <2>1 DEF CallOK, SendOK
<1>3. CASE SendTakes
  <2>1. outq' \in 0..QueueLimit
    BY <1>0, <1>3 DEF SendTakes, KernelOK
  <2> QED BY <1>0, <1>2, <1>3, <2>1 DEF SendTakes, KernelOK, ReceiveShut
<1>4. CASE SendCloses
  BY <1>0, <1>2, <1>4 DEF SendCloses, KernelOK, ReceiveShut
<1>5. CASE SendAborts
  BY <1>0, <1>2, <1>5, EndedFacts DEF SendAborts, KernelOK, ReceiveShut
<1>6. CASE SendFails
  <2>1. call' \in CallType /\ call'.pc # "send" /\ call'.n = 0
    BY <1>0, <1>6, EndsCall DEF SendFails
  <2>2. err' \in BOOLEAN
    BY <1>6, Zenon DEF SendFails
  <2> QED BY <1>6, <2>1, <2>2, NoMessage DEF SendFails, KernelOK, ReceiveShut
<1> QED BY <1>1, <1>3, <1>4, <1>5, <1>6

(* receive() and timedReceive().                                           *)
LEMMA ReceiveStep ==
  ASSUME KernelOK, CallOK,
         \/ \E op \in {"receive", "timedReceive"}, len \in Sizes : StartReceive(op, len)
         \/ PollReturns \/ PollTimesOut \/ RecvTakes \/ RecvEnds
  PROVE  KernelOK' /\ CallOK'
<1>0. /\ call \in CallType /\ NoCall \in CallType /\ NoCall.n = 0
      /\ call.len \in Nat /\ QueueLimit \in Nat
  BY NoCallType, CallFields, SCTPAssumption DEF CallOK
<1>1. ASSUME NEW op \in {"receive", "timedReceive"}, NEW len \in Sizes, StartReceive(op, len)
      PROVE  KernelOK' /\ CallOK'
  <2>1. [NoCall EXCEPT !.len = len] \in CallType /\ [NoCall EXCEPT !.len = len].n = 0
    BY <1>0 DEF CallType
  <2>2. call' \in CallType /\ call'.pc # "send" /\ call'.n = 0
    BY <1>1, <2>1, Entered DEF StartReceive, Ops, Pcs
  <2> QED BY <1>1, <2>2, NoMessage, SameKernel DEF StartReceive
<1>2. CASE PollReturns
  <2>1. CallOK'
    <3>1. CASE Enter(call.op, "recv", call)
      <4>1. call' \in CallType /\ call'.pc = "recv"
        BY <1>0, <3>1 DEF Enter, CallType
      <4> QED BY <4>1 DEF CallOK, SendOK
    <3>2. CASE Done("returned")
      BY <1>0, <3>2, EndsCall, NoMessage
    <3> QED BY <1>2, <3>1, <3>2 DEF PollReturns
  <2>2. peerDisconnected' \in BOOLEAN
    BY <1>2, Zenon DEF PollReturns
  <2> QED BY <1>2, <2>1, <2>2 DEF PollReturns, KernelOK, kernel, ReceiveShut
<1>3. CASE PollTimesOut
  BY <1>0, <1>3, EndsCall, NoMessage, SameKernel DEF PollTimesOut
<1>4. CASE RecvTakes
  <2> DEFINE m == Head(inq)
             n == IF m < call.len THEN m ELSE call.len
  <2>1. m \in Message /\ inq # <<>> /\ inq \in Seq(Message) /\ call.pc = "recv"
    <3>1. inq # <<>> /\ inq \in Seq(Message) /\ call.pc = "recv"
      BY <1>4 DEF RecvTakes, KernelOK
    <3> QED BY <3>1
  <2>2. m \in Nat \ {0} /\ n \in Nat
    BY <1>0, <2>1 DEF Message
  <2>3. call' = [call EXCEPT !.pc = "returned", !.n = n]
    BY <1>4 DEF RecvTakes
  <2>4. inq' = IF n < m THEN <<m - n>> \o Tail(inq) ELSE Tail(inq)
    BY <1>4 DEF RecvTakes
  <2> HIDE DEF m
  <2>5. inq' \in Seq(Message) /\ Len(inq') <= Len(inq)
    <3>1. Tail(inq) \in Seq(Message) /\ Len(Tail(inq)) = Len(inq) - 1 /\ Len(inq) \in Nat
      BY <2>1
    <3>2. CASE n < m
      <4> DEFINE rest == m - n
      <4>1. rest \in Message
        BY <2>2, <3>2 DEF Message
      <4> HIDE DEF rest, n
      <4>2. inq' = <<rest>> \o Tail(inq)
        BY <2>4, <3>2 DEF rest
      <4> QED BY <3>1, <4>1, <4>2
    <3> QED BY <2>4, <3>1, <3>2
  <2> HIDE DEF n
  <2>6. call' \in CallType /\ call'.pc = "returned"
    BY <1>0, <2>2, <2>3 DEF CallType
  <2>7. CallOK'
    BY <2>6 DEF CallOK, SendOK
  <2>8. Len(inq') <= QueueLimit
    BY <1>0, <2>1, <2>5 DEF KernelOK
  <2> QED BY <1>4, <2>5, <2>7, <2>8 DEF RecvTakes, KernelOK, ReceiveShut
<1>5. CASE RecvEnds
  <2>1. CallOK'
    BY <1>0, <1>5, EndsCall, NoMessage DEF RecvEnds
  <2> QED BY <1>5, <2>1 DEF RecvEnds, KernelOK, ReceiveShut
<1> QED BY <1>1, <1>2, <1>3, <1>4, <1>5

(* What poll() has seen stays until it is received.                        *)
LEMMA AnsweredStep ==
  ASSUME KernelOK, CallOK, AnsweredAtOnce, [Next]_vars
  PROVE  AnsweredAtOnce'
<1>0. call \in CallType /\ NoCall \in CallType
  BY NoCallType DEF CallOK
<1>1. ASSUME call'.pc # "recv" PROVE AnsweredAtOnce'
  BY <1>1 DEF AnsweredAtOnce
<1>2. CASE PeerSends \/ PeerReads \/ PeerShuts \/ PeerAborts
  <2>1. call' = call /\ (ReceiveShut => ReceiveShut')
    BY <1>2, EndedFacts DEF PeerSends, PeerReads, PeerShuts, PeerAborts, ReceiveShut
  <2>2. inq # <<>> => inq' # <<>>
    <3>1. ASSUME NEW m \in Message PROVE Append(inq, m) # <<>>
      BY DEF KernelOK
    <3>2. \A size \in Sizes : size \in Nat \ {0}
      BY SCTPAssumption
    <3>3. PeerSends => inq' # <<>>
      BY <3>1, <3>2 DEF PeerSends, Message
    <3> QED BY <1>2, <3>3 DEF PeerReads, PeerShuts, PeerAborts
  <2> QED BY <2>1, <2>2 DEF AnsweredAtOnce
<1>3. CASE \/ \E op \in {"bind", "connect"}, hosts \in SUBSET Hosts : FillAddresses(op, hosts)
           \/ Bind \/ Connect \/ Status
  <2>1. ASSUME NEW op \in {"bind", "connect"}, NEW hosts \in SUBSET Hosts,
               FillAddresses(op, hosts)
        PROVE  call'.pc # "recv"
    <3>1. [NoCall EXCEPT !.hosts = hosts] \in CallType
      BY <1>0 DEF CallType
    <3>2. op \in Ops /\ op \in Pcs /\ "threw" \in Pcs
      BY DEF Ops, Pcs
    <3> QED BY <1>0, <2>1, <3>1, <3>2, Entered DEF FillAddresses
  <2>2. CASE Bind      BY <1>0, <1>1, <2>2, EndsCall DEF Bind
  <2>3. CASE Connect   BY <1>0, <1>1, <2>3, EndsCall DEF Connect
  <2>4. CASE Status    BY <1>0, <1>1, <2>4, Entered DEF Status, Ops, Pcs
  <2> QED BY <1>1, <1>3, <2>1, <2>2, <2>3, <2>4
<1>4. ASSUME NEW len \in Sizes \cup {0}, NEW flag \in Flags, NEW override \in BOOLEAN,
             StartSend(len, flag, override)
      PROVE  AnsweredAtOnce'
  <2>1. [NoCall EXCEPT !.len = len, !.flag = flag] \in CallType
    BY <1>0 DEF CallType, Flags
  <2>2. call'.pc # "recv"
    BY <1>0, <1>4, <2>1, Entered DEF StartSend, Ops, Pcs
  <2> QED BY <1>1, <2>2
<1>5. CASE SendTakes \/ SendCloses \/ SendAborts \/ SendFails
  <2>1. ASSUME NEW ret \in Nat, Sent(ret) PROVE call'.pc # "recv"
    BY <1>0, <2>1, SentFacts
  <2>2. call.len \in Nat
    BY <1>0, CallFields
  <2>3. CASE SendTakes
    BY <1>1, <2>1, <2>2, <2>3 DEF SendTakes
  <2>4. CASE SendCloses \/ SendAborts
    BY <1>1, <2>1, <2>4 DEF SendCloses, SendAborts
  <2>5. CASE SendFails
    BY <1>0, <1>1, <2>5, EndsCall DEF SendFails
  <2> QED BY <1>5, <2>3, <2>4, <2>5
<1>6. ASSUME NEW op \in {"receive", "timedReceive"}, NEW len \in Sizes, StartReceive(op, len)
      PROVE  AnsweredAtOnce'
  <2>1. [NoCall EXCEPT !.len = len] \in CallType
    BY <1>0 DEF CallType
  <2>2. call'.op = op /\ call'.pc = IF op = "receive" THEN "recv" ELSE "poll"
    BY <1>6, <2>1, Entered DEF StartReceive, Ops, Pcs
  <2> QED BY <2>2 DEF AnsweredAtOnce
<1>7. CASE PollReturns
  <2>1. CASE inq # <<>> \/ ReceiveShut
    BY <1>7, <2>1 DEF PollReturns, kernel, AnsweredAtOnce, ReceiveShut
  <2>2. CASE Done("returned")
    BY <1>0, <1>1, <2>2, EndsCall
  <2> QED BY <1>7, <2>1, <2>2 DEF PollReturns
<1>8. CASE PollTimesOut \/ RecvEnds
  BY <1>0, <1>1, <1>8, EndsCall DEF PollTimesOut, RecvEnds
<1>9. CASE RecvTakes
  BY <1>0, <1>1, <1>9 DEF RecvTakes, CallType
<1>10. CASE UNCHANGED vars
  BY <1>10 DEF vars, kernel, AnsweredAtOnce, ReceiveShut
<1> QED BY <1>2, <1>3, <1>4, <1>5, <1>6, <1>7, <1>8, <1>9, <1>10 DEF Next, Flags

LEMMA NextIInv == IInv /\ [Next]_vars => IInv'
<1> SUFFICES ASSUME KernelOK, CallOK, AnsweredAtOnce, [Next]_vars
             PROVE  KernelOK' /\ CallOK' /\ AnsweredAtOnce'
  BY Parts, NextParts
<1>1. CASE Next
  BY <1>1, PeerStep, AddressStep, SendStep, ReceiveStep, AnsweredStep DEF Next, Flags
<1>2. CASE UNCHANGED vars
  BY <1>2, SameCall, SameKernel, AnsweredStep DEF vars
<1> QED BY <1>1, <1>2

-----------------------------------------------------------------------------
(* The inductive invariant holds in every behaviour.                       *)
THEOREM Inductive == Spec => []IInv
BY InitIInv, NextIInv, PTL DEF Spec

(* Every variable keeps its type: the queues keep to their limit, and no   *)
(* call returns a negative count.                                          *)
THEOREM TypeCorrect == Spec => []TypeOK
<1>1. IInv => TypeOK
  BY DEF IInv
<1> QED BY <1>1, Inductive, PTL

(* Behind poll() timedReceive() (SCTPSocket.cpp) does not wait: what it    *)
(* has seen, a message or the end, is still there.                         *)
THEOREM Prompt == Spec => []AnsweredAtOnce
<1>1. IInv => AnsweredAtOnce
  BY DEF IInv
<1> QED BY <1>1, Inductive, PTL

(* The flag means that the peer has shut the association down.             *)
THEOREM FlagIsTrue == Spec => []FlagMeansPeerShut
<1>1. IInv => FlagMeansPeerShut
  BY DEF IInv
<1> QED BY <1>1, Inductive, PTL

(* A send() that throws, unless it aborts, has sent nothing and left the   *)
(* association alone.                                                      *)
THEOREM NothingSent == Spec => ThrowSentNothing
<1>1. IInv /\ [Next]_vars =>
        [call.pc = "send" /\ call'.pc = "threw" =>
           call.flag = "ABORT" \/ (outq' = outq /\ assoc' = assoc)]_vars
  <2> SUFFICES ASSUME IInv, Next, call.pc = "send", call'.pc = "threw", call.flag # "ABORT"
               PROVE  outq' = outq /\ assoc' = assoc
    OBVIOUS
  <2>1. call \in CallType /\ call.len \in Nat /\ (call.flag = "SHUTDOWN" => call.len = 0)
    BY CallFields DEF IInv, TypeOK, SendOK
  <2>2. ~SendTakes
    BY <2>1, SentFacts DEF SendTakes
  <2>3. ~SendCloses
    BY <2>1, SentFacts DEF SendCloses
  <2>4. ~SendAborts
    BY DEF SendAborts
  <2>5. SendFails => outq' = outq /\ assoc' = assoc
    BY DEF SendFails
  <2>6. ~(PeerSends \/ PeerReads \/ PeerShuts \/ PeerAborts)
    BY DEF PeerSends, PeerReads, PeerShuts, PeerAborts
  <2>7. ~(Bind \/ Connect \/ PollReturns \/ PollTimesOut \/ RecvTakes \/ RecvEnds)
    BY DEF Bind, Connect, PollReturns, PollTimesOut, RecvTakes, RecvEnds
  <2>8. ~Over
    BY DEF Over
  <2> QED BY <2>2, <2>3, <2>4, <2>5, <2>6, <2>7, <2>8
          DEF Next, FillAddresses, Status, StartSend, StartReceive
<1> QED BY <1>1, Inductive, PTL DEF Spec, ThrowSentNothing

(* bind() and connect() do nothing when an address cannot be resolved, and *)
(* bind() returns only with all of its addresses bound.                    *)
THEOREM AllBoundOrNothing == Spec => AllOrNothing
<1>1. IInv /\ [Next]_vars =>
        [/\ Over /\ call'.pc = "threw" => bound' = bound /\ assoc' = assoc
         /\ call.pc = "bind" /\ call'.pc = "returned" => call.hosts \subseteq bound']_<<call>>
  <2> SUFFICES ASSUME IInv, Next, call' # call
               PROVE  /\ Over /\ call'.pc = "threw" => bound' = bound /\ assoc' = assoc
                      /\ call.pc = "bind" /\ call'.pc = "returned" => call.hosts \subseteq bound'
    BY DEF vars
  <2>1. call \in CallType
    BY DEF IInv, TypeOK
  <2>2. ASSUME Over PROVE bound' = bound /\ assoc' = assoc
    <3>1. call.pc \notin {"bind", "connect", "send", "poll", "recv"}
      BY <2>2 DEF Over
    <3> QED BY <3>1 DEF Next, PeerSends, PeerReads, PeerShuts, PeerAborts, FillAddresses, Bind,
                        Connect, Status, StartSend, SendTakes, SendCloses, SendAborts, SendFails,
                        StartReceive, PollReturns, PollTimesOut, RecvTakes, RecvEnds, kernel
  <2>3. ASSUME call.pc = "bind", call'.pc = "returned" PROVE call.hosts \subseteq bound'
    <3>1. Bind
      BY <2>3 DEF Next, Over, PeerSends, PeerReads, PeerShuts, PeerAborts, FillAddresses,
                  Connect, Status, StartSend, SendTakes, SendCloses, SendAborts, SendFails,
                  StartReceive, PollReturns, PollTimesOut, RecvTakes, RecvEnds
    <3>2. ~Done("threw")
      BY <2>1, <2>3, EndsCall
    <3> QED BY <3>1, <3>2 DEF Bind
  <2> QED BY <2>2, <2>3
<1> QED BY <1>1, Inductive, PTL DEF Spec, AllOrNothing
=============================================================================
