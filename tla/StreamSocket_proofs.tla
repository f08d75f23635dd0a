------------------------ MODULE StreamSocket_proofs ------------------------
(***************************************************************************)
(* Proofs about StreamSocket, for any numbers of bytes, any lengths passed *)
(* to the calls, any buffer size and any width of an int.                  *)
(*                                                                         *)
(* The argument: FIN and RST are the last segments an end sends, so no end *)
(* that can still send has one before its peer, and PeerGone, once true,   *)
(* stays true until the next connect().  What an end has read, can read    *)
(* and has on its way is numbered from 1 on and reaches up to what the     *)
(* peer has sent, unless a RST cut it off; a step moves the border between *)
(* two of these parts or appends to the last one.                          *)
(***************************************************************************)
EXTENDS StreamSocket, SequenceTheorems, WellFoundedInduction, TLAPS

-----------------------------------------------------------------------------
(* Ends, segments and records.                                             *)

LEMMA EndsFacts ==
  ASSUME NEW e \in Ends
  PROVE  /\ Peer(e) \in Ends /\ Peer(e) # e /\ Peer(Peer(e)) = e
         /\ Ends = {e, Peer(e)}
         /\ MaxBytes(e) \in Nat /\ 1..MaxBytes(e) \subseteq Bytes /\ Bytes \subseteq Nat \ {0}
BY StreamAssumption DEF Ends, Peer, MaxBytes, Bytes

Segments == Bytes \cup {FIN, RST}

LEMMA ByteOrControl ==
  /\ \A x \in Bytes : IsByte(x) /\ x \in Nat
  /\ ~IsByte(FIN) /\ ~IsByte(RST) /\ FIN # RST
  /\ \A x \in Segments : IsByte(x) => x \in Bytes
<1>1. Bytes \subseteq Nat
  BY EndsFacts DEF Ends
<1> QED BY <1>1, StreamAssumption DEF IsByte, Segments

LEMMA NewSocketFacts ==
  ASSUME NEW st \in {"absent", "unconnected", "connected", "reset"}
  PROVE  LET t == NewSocket(st) IN
         /\ t \in KernelType /\ t.rcvq = <<>>
         /\ t.state = st /\ t.finRcvd = FALSE
         /\ t.shutRd = FALSE /\ t.shutWr = FALSE /\ t.err = "none"
         /\ t.staleFlag = FALSE
<1>1. <<>> \in Seq(Bytes)
  OBVIOUS
<1>2. NewSocket(st) \in KernelType
  BY <1>1, Zenon DEF NewSocket, KernelType, Errors
<1> QED BY <1>2 DEF NewSocket

LEMMA NoCallType == NoCall \in CallType
BY DEF NoCall, CallType

LEMMA AsIntFacts ==
  ASSUME NEW n \in Nat
  PROVE  AsInt(n) \in Int /\ (n <= IntMax => AsInt(n) = n)
<1> DEFINE modulus == 2 * (IntMax + 1)
<1>1. n % modulus \in Nat /\ (n <= IntMax => n % modulus = n)
  BY StreamAssumption
<1> QED BY <1>1, StreamAssumption DEF AsInt

LEMMA SetRcvq ==
  ASSUME NEW s \in KernelType, NEW q \in Seq(Bytes)
  PROVE  LET t == [s EXCEPT !.rcvq = q] IN
         /\ t \in KernelType /\ t.rcvq = q
         /\ t.state = s.state /\ t.finRcvd = s.finRcvd
         /\ t.shutRd = s.shutRd /\ t.shutWr = s.shutWr /\ t.err = s.err
         /\ t.staleFlag = s.staleFlag
BY DEF KernelType

LEMMA SetErr ==
  ASSUME NEW s \in KernelType, NEW err \in Errors
  PROVE  LET t == [s EXCEPT !.err = err] IN
         /\ t \in KernelType /\ t.rcvq = s.rcvq
         /\ t.state = s.state /\ t.finRcvd = s.finRcvd
         /\ t.shutRd = s.shutRd /\ t.shutWr = s.shutWr /\ t.err = err
         /\ t.staleFlag = s.staleFlag
BY DEF KernelType

LEMMA SetReset ==
  ASSUME NEW s \in KernelType, NEW err \in Errors
  PROVE  LET t == [s EXCEPT !.state = "reset", !.err = err] IN
         /\ t \in KernelType /\ t.rcvq = s.rcvq
         /\ t.state = "reset" /\ t.finRcvd = s.finRcvd
         /\ t.shutRd = s.shutRd /\ t.shutWr = s.shutWr /\ t.err = err
         /\ t.staleFlag = s.staleFlag
BY DEF KernelType

LEMMA SetFinRcvd ==
  ASSUME NEW s \in KernelType
  PROVE  LET t == [s EXCEPT !.finRcvd = TRUE] IN
         /\ t \in KernelType /\ t.rcvq = s.rcvq
         /\ t.state = s.state /\ t.finRcvd = TRUE
         /\ t.shutRd = s.shutRd /\ t.shutWr = s.shutWr /\ t.err = s.err
         /\ t.staleFlag = s.staleFlag
<1>1. [s EXCEPT !.finRcvd = TRUE] \in KernelType
  BY Zenon DEF KernelType
<1> QED BY <1>1 DEF KernelType

LEMMA Returned ==
  ASSUME call \in [Ends -> CallType], NEW e \in Ends, NEW done \in Nat, NEW ret \in Int,
         Return(e, done, ret)
  PROVE  /\ call' \in [Ends -> CallType]
         /\ call'[e].op = call[e].op /\ call'[e].len = call[e].len
         /\ call'[e].pc = "returned" /\ call'[e].done = done /\ call'[e].ret = ret
         /\ \A f \in Ends : f # e => call'[f] = call[f]
BY DEF Return, CallType

LEMMA Thrown ==
  ASSUME call \in [Ends -> CallType], NEW e \in Ends, Throw(e)
  PROVE  /\ call' \in [Ends -> CallType]
         /\ call'[e].op = call[e].op /\ call'[e].pc = "threw"
         /\ \A f \in Ends : f # e => call'[f] = call[f]
BY DEF Throw, CallType

-----------------------------------------------------------------------------
(* What is in front of the first FIN or RST.                               *)

IsDataLen(w, n) ==
  /\ n \in 0..Len(w)
  /\ \A i \in 1..n : IsByte(w[i])
  /\ n = Len(w) \/ ~IsByte(w[n + 1])

LEMMA DataLenIs ==
  ASSUME NEW w \in Seq(Segments), NEW n, IsDataLen(w, n)
  PROVE  DataLen(w) = n
<1> DEFINE S == {m \in 0..Len(w) : \A i \in 1..m : IsByte(w[i])}
<1>1. n \in S /\ \A m \in S : n >= m
  <2>1. n \in S
    BY DEF IsDataLen
  <2>2. ASSUME NEW m \in S, m > n PROVE FALSE
    BY <2>2 DEF IsDataLen
  <2> QED BY <2>1, <2>2 DEF IsDataLen
<1>2. \A m \in S : (\A k \in S : m >= k) => m = n
  BY <1>1
<1> HIDE DEF S
<1>3. Max(S) = n
  BY <1>1, <1>2 DEF Max
<1> QED BY <1>3 DEF DataLen, S

LEMMA DataLenExists ==
  ASSUME NEW w \in Seq(Segments)
  PROVE  IsDataLen(w, DataLen(w))
<1> DEFINE Bad == {i \in 1..Len(w) : ~IsByte(w[i])}
<1>1. CASE Bad = {}
  <2>1. IsDataLen(w, Len(w))
    BY <1>1 DEF IsDataLen
  <2> QED BY <2>1, DataLenIs
<1>2. CASE Bad # {}
  <2>1. Bad \subseteq Nat
    OBVIOUS
  <2>2. PICK x \in Bad : \A y \in Bad : <<y, x>> \notin OpToRel(<, Nat)
    BY <1>2, <2>1, NatLessThanWellFounded, WFMin
  <2>3. \A y \in Bad : ~(y < x)
    BY <2>1, <2>2 DEF OpToRel
  <2>4. IsDataLen(w, x - 1)
    BY <2>3 DEF IsDataLen
  <2> QED BY <2>4, DataLenIs
<1> QED BY <1>1, <1>2

LEMMA EmptyWire == DataLen(<<>>) = 0 /\ BytesFirst(<<>>) /\ \A x : ~Contains(<<>>, x)
<1> DEFINE w == <<>>
<1>1. w \in Seq(Segments) /\ Len(w) = 0
  OBVIOUS
<1> HIDE DEF w
<1>2. IsDataLen(w, 0)
  BY <1>1 DEF IsDataLen
<1>3. DataLen(w) = 0
  BY <1>1, <1>2, DataLenIs
<1>4. BytesFirst(w) /\ \A x : ~Contains(w, x)
  BY <1>1 DEF BytesFirst, Contains
<1> QED BY <1>3, <1>4 DEF w

LEMMA AppendControl ==
  ASSUME NEW w \in Seq(Segments), BytesFirst(w), NEW x \in {FIN, RST}
  PROVE  LET v == Append(w, x) IN
         /\ v \in Seq(Segments) /\ BytesFirst(v) /\ DataLen(v) = DataLen(w)
         /\ \A i \in 1..DataLen(w) : v[i] = w[i]
         /\ Contains(v, x)
         /\ \A y : y # x /\ Contains(v, y) => Contains(w, y)
         /\ \A y : Contains(w, y) => Contains(v, y)
<1> DEFINE v == Append(w, x)
<1>1. /\ v \in Seq(Segments) /\ Len(v) = Len(w) + 1 /\ Len(w) \in Nat
      /\ \A i \in 1..Len(w) : v[i] = w[i]
      /\ v[Len(w) + 1] = x /\ ~IsByte(x)
  BY ByteOrControl DEF Segments
<1>2. IsDataLen(w, DataLen(w))
  BY DataLenExists
<1> HIDE DEF v
<1>3. IsDataLen(v, DataLen(w))
  <2> DEFINE n == DataLen(w)
  <2>1. n \in 0..Len(w) /\ \A i \in 1..n : IsByte(w[i])
    BY <1>2 DEF IsDataLen
  <2>2. n \in 0..Len(v) /\ \A i \in 1..n : IsByte(v[i])
    BY <1>1, <2>1
  <2>3. n = Len(w) \/ ~IsByte(w[n + 1])
    BY <1>2 DEF IsDataLen
  <2>4. ~IsByte(v[n + 1])
    <3>1. CASE n = Len(w)
      BY <1>1, <3>1
    <3>2. CASE n # Len(w)
      BY <1>1, <2>1, <2>3, <3>2
    <3> QED BY <3>1, <3>2
  <2> QED BY <2>2, <2>4 DEF IsDataLen
<1>4. DataLen(v) = DataLen(w)
  BY <1>1, <1>3, DataLenIs
<1>5. BytesFirst(v)
  BY <1>1 DEF BytesFirst
<1>6. Contains(v, x) /\ \A y : /\ y # x /\ Contains(v, y) => Contains(w, y)
                               /\ Contains(w, y) => Contains(v, y)
  BY <1>1 DEF Contains
<1> QED BY <1>1, <1>2, <1>4, <1>5, <1>6 DEF v, IsDataLen

(* A RST that overtakes what comes after the first k segments.             *)
LEMMA CutByRST ==
  ASSUME NEW w \in Seq(Segments), BytesFirst(w), NEW k \in 0..Len(w)
  PROVE  LET v == WithRST(w, k) IN
         /\ v \in Seq(Segments) /\ BytesFirst(v) /\ DataLen(v) <= DataLen(w)
         /\ \A i \in 1..DataLen(v) : v[i] = w[i]
         /\ Contains(v, RST)
         /\ Contains(v, FIN) => Contains(w, FIN) /\ DataLen(v) = DataLen(w)
<1> DEFINE u == SubSeq(w, 1, k)
<1>1. u \in Seq(Segments) /\ Len(u) = k /\ (\A i \in 1..k : u[i] = w[i]) /\ Len(w) \in Nat
  OBVIOUS
<1> HIDE DEF u
<1>2. BytesFirst(u)
  BY <1>1 DEF BytesFirst
<1>3. IsDataLen(w, DataLen(w)) /\ IsDataLen(u, DataLen(u))
  BY <1>1, DataLenExists
<1>4. DataLen(u) <= DataLen(w)
  BY <1>1, <1>3 DEF IsDataLen
<1>5. Contains(u, FIN) => Contains(w, FIN) /\ DataLen(u) = DataLen(w)
  <2> SUFFICES ASSUME NEW i \in 1..k, u[i] = FIN
               PROVE  Contains(w, FIN) /\ DataLen(u) = DataLen(w)
    BY <1>1 DEF Contains
  <2>1. Contains(w, FIN) /\ ~IsByte(w[i])
    BY <1>1, ByteOrControl DEF Contains
  <2>2. DataLen(u) < k /\ ~IsByte(w[DataLen(u) + 1])
    BY <1>1, <1>3, <2>1 DEF IsDataLen
  <2> QED BY <1>1, <1>3, <1>4, <2>1, <2>2 DEF IsDataLen
<1>6. \A i \in 1..DataLen(u) : u[i] = w[i]
  BY <1>1, <1>3 DEF IsDataLen
<1>7. /\ Append(u, RST) \in Seq(Segments) /\ BytesFirst(Append(u, RST))
      /\ DataLen(Append(u, RST)) = DataLen(u)
      /\ \A i \in 1..DataLen(u) : Append(u, RST)[i] = u[i]
      /\ Contains(Append(u, RST), RST)
      /\ Contains(Append(u, RST), FIN) => Contains(u, FIN)
  BY <1>1, <1>2, AppendControl, ByteOrControl
<1>8. WithRST(w, k) = Append(u, RST)
  BY DEF WithRST, u
<1> QED BY <1>3, <1>4, <1>5, <1>6, <1>7, <1>8

LEMMA AllData ==
  ASSUME NEW w \in Seq(Segments), ~Contains(w, FIN), ~Contains(w, RST)
  PROVE  DataLen(w) = Len(w) /\ w \in Seq(Bytes)
<1>1. \A i \in 1..Len(w) : w[i] \in Bytes
  BY DEF Contains, Segments
<1>2. IsDataLen(w, Len(w))
  BY <1>1, ByteOrControl DEF IsDataLen
<1>3. w \in Seq(Bytes)
  BY <1>1
<1> QED BY <1>2, <1>3, DataLenIs

LEMMA AppendData ==
  ASSUME NEW w \in Seq(Segments), ~Contains(w, FIN), ~Contains(w, RST), NEW t \in Seq(Bytes)
  PROVE  LET v == w \o t IN
         /\ v \in Seq(Segments) /\ BytesFirst(v)
         /\ ~Contains(v, FIN) /\ ~Contains(v, RST)
         /\ DataLen(v) = DataLen(w) + Len(t) /\ DataLen(w) = Len(w)
         /\ \A i \in 1..Len(w) : v[i] = w[i]
         /\ \A i \in 1..Len(t) : v[Len(w) + i] = t[i]
<1> DEFINE v == w \o t
<1>1. w \in Seq(Bytes) /\ DataLen(w) = Len(w)
  BY AllData
<1>2. /\ v \in Seq(Bytes) /\ Len(v) = Len(w) + Len(t)
      /\ Len(w) \in Nat /\ Len(t) \in Nat
      /\ \A i \in 1..Len(w) : v[i] = w[i]
      /\ \A i \in 1..Len(t) : v[Len(w) + i] = t[i]
  BY <1>1
<1> HIDE DEF v
<1>3. v \in Seq(Segments)
  BY <1>2 DEF Segments
<1>4. \A i \in 1..Len(v) : IsByte(v[i]) /\ v[i] # FIN /\ v[i] # RST
  BY <1>2, ByteOrControl
<1>5. ~Contains(v, FIN) /\ ~Contains(v, RST) /\ BytesFirst(v)
  BY <1>4 DEF Contains, BytesFirst
<1>6. DataLen(v) = Len(v)
  BY <1>3, <1>5, AllData
<1> QED BY <1>1, <1>2, <1>3, <1>5, <1>6 DEF v

LEMMA TailOfWire ==
  ASSUME NEW w \in Seq(Segments), w # <<>>, BytesFirst(w)
  PROVE  LET x == Head(w)  v == Tail(w) IN
         /\ x \in Segments /\ x = w[1]
         /\ v \in Seq(Segments) /\ BytesFirst(v)
         /\ IsByte(x) => DataLen(w) = DataLen(v) + 1
         /\ ~IsByte(x) => DataLen(w) = 0 /\ DataLen(v) = 0
         /\ \A i \in 1..DataLen(v) : v[i] = w[i + 1]
         /\ \A y : Contains(v, y) => Contains(w, y)
         /\ \A y : Contains(w, y) /\ y # x => Contains(v, y)
         /\ Contains(w, x)
<1> DEFINE x == Head(w)  v == Tail(w)
<1>1. /\ x \in Segments /\ x = w[1] /\ v \in Seq(Segments)
      /\ Len(w) \in Nat \ {0} /\ Len(v) = Len(w) - 1
      /\ \A i \in 1..Len(v) : v[i] = w[i + 1]
  OBVIOUS
<1> HIDE DEF x, v
<1>2. \A i \in 2..Len(w) : w[i] = v[i - 1]
  BY <1>1
<1>3. BytesFirst(v)
  BY <1>1 DEF BytesFirst
<1>4. IsDataLen(v, DataLen(v)) /\ IsDataLen(w, DataLen(w))
  BY <1>1, DataLenExists
<1>5. CASE IsByte(x)
  <2>1. IsDataLen(w, DataLen(v) + 1)
    BY <1>1, <1>2, <1>4, <1>5 DEF IsDataLen
  <2>2. DataLen(w) = DataLen(v) + 1
    BY <2>1, DataLenIs
  <2> QED BY <1>1, <1>2, <1>3, <1>4, <1>5, <2>2 DEF IsDataLen, Contains, x, v
<1>6. CASE ~IsByte(x)
  <2>1. \A i \in 1..Len(w) : ~IsByte(w[i])
    BY <1>1, <1>6 DEF BytesFirst
  <2>2. IsDataLen(w, 0) /\ IsDataLen(v, 0)
    BY <1>1, <2>1 DEF IsDataLen
  <2>3. DataLen(w) = 0 /\ DataLen(v) = 0
    BY <1>1, <2>2, DataLenIs
  <2> QED BY <1>1, <1>2, <1>3, <1>6, <2>3 DEF Contains, x, v
<1> QED BY <1>5, <1>6
-----------------------------------------------------------------------------
(* The inductive invariant, one end at a time: what concerns the end's own *)
(* call, and what concerns the connection that leads to it.                *)

CallOK(e) == LET c == call[e] IN
  /\ SendingOK(e) /\ ReceivingOK(e) /\ ZeroOK(e)
  /\ c.op = "timedReceive" /\ c.pc = "returned" /\ c.ret = 0 => peerDisconnected[e]
  /\ ReceiveReturned(e) /\ HasConnection(e) => c.ret = c.done
  /\ ReceiveReturned(e) /\ ~HasConnection(e) =>
       c.ret = c.done \/ (c.op = "timedReceive" /\ c.ret = 1 /\ c.done = 0)
  /\ LensFitInt /\ c.pc = "returned" /\ c.op \in {"send", "sendAll"} =>
       IF c.ret = -1 THEN peerDisconnected[e]
                     ELSE c.ret = c.done /\ (c.op = "sendAll" => c.done = c.len)

ConnOK(e) ==
  /\ SocketOK(e) /\ WireOK(e) /\ InOrder(e)
  /\ peerDisconnected[e] /\ HasConnection(e) /\ ~kernel[e].shutRd /\ ~kernel[e].staleFlag
     => PeerGone(e)

LEMMA ByEnds == IInv <=> TypeOK /\ \A e \in Ends : CallOK(e) /\ ConnOK(e)
BY DEF IInv, CallOK, ConnOK, FlagMeansPeerGone, ZeroMeansTimeoutOrPeer, CountIsRead, SendOutcome,
   ReceiveReturned

LEMMA Typed ==
  ASSUME TypeOK, NEW e \in Ends
  PROVE  /\ kernel[e] \in KernelType /\ kernel[e].rcvq \in Seq(Bytes)
         /\ kernel[e].state \in {"absent", "unconnected", "connected", "reset"}
         /\ kernel[e].finRcvd \in BOOLEAN /\ kernel[e].shutRd \in BOOLEAN
         /\ kernel[e].shutWr \in BOOLEAN /\ kernel[e].err \in Errors
         /\ wire[e] \in Seq(Segments)
         /\ call[e] \in CallType /\ call[e].len \in Nat /\ call[e].done \in Nat
         /\ call[e].len \in Lens \cup {0} /\ call[e].ret \in Int
         /\ accepted[e] \in Nat /\ accepted[e] <= MaxBytes(e)
         /\ got[e] \in Seq(Bytes)
         /\ peerDisconnected[e] \in BOOLEAN
<1>1. /\ kernel[e] \in KernelType /\ call[e] \in CallType
      /\ wire[e] \in Seq(Segments) /\ got[e] \in Seq(Bytes)
      /\ accepted[e] \in Nat /\ accepted[e] <= MaxBytes(e)
      /\ peerDisconnected[e] \in BOOLEAN
  BY DEF TypeOK, Segments
<1>2. /\ kernel[e].rcvq \in Seq(Bytes)
      /\ kernel[e].state \in {"absent", "unconnected", "connected", "reset"}
      /\ kernel[e].finRcvd \in BOOLEAN /\ kernel[e].shutRd \in BOOLEAN
      /\ kernel[e].shutWr \in BOOLEAN /\ kernel[e].err \in Errors
  BY <1>1 DEF KernelType
<1>3. /\ call[e].len \in Lens \cup {0} /\ call[e].done \in Nat /\ call[e].ret \in Int
  BY <1>1 DEF CallType
<1>4. call[e].len \in Nat
  <2>1. \A len \in Lens : len \in Nat
    BY StreamAssumption
  <2> QED BY <1>3, <2>1
<1> QED BY <1>1, <1>2, <1>3, <1>4

LEMMA Lengths ==
  ASSUME TypeOK, NEW e \in Ends
  PROVE  /\ Len(kernel[e].rcvq) \in Nat /\ Len(got[e]) \in Nat /\ Len(wire[e]) \in Nat
         /\ DataLen(wire[e]) \in 0..Len(wire[e])
         /\ kernel[e].rcvq = <<>> <=> Len(kernel[e].rcvq) = 0
<1>1. /\ kernel[e].rcvq \in Seq(Bytes) /\ got[e] \in Seq(Bytes) /\ wire[e] \in Seq(Segments)
  BY Typed
<1>2. DataLen(wire[e]) \in 0..Len(wire[e])
  BY <1>1, DataLenExists DEF IsDataLen
<1> QED BY <1>1, <1>2

(* An end whose call is not touched.                                       *)
LEMMA CallStays ==
  ASSUME NEW e \in Ends, CallOK(e),
         call'[e] = call[e], accepted'[e] = accepted[e],
         peerDisconnected[e] => peerDisconnected'[e],
         kernel[e].rcvq # <<>> => kernel'[e].rcvq # <<>>,
         HasConnection(e)' => HasConnection(e),
         kernel'[e].state = "connected" /\ ~kernel'[e].shutRd =>
           /\ kernel[e].state = "connected" /\ ~kernel[e].shutRd
           /\ kernel[e].finRcvd /\ kernel[e].rcvq = <<>> =>
                kernel'[e].finRcvd /\ kernel'[e].rcvq = <<>>
  PROVE  CallOK(e)'
<1>1. SendingOK(e)'
  BY DEF CallOK, SendingOK
<1>2. ReceivingOK(e)'
  BY DEF CallOK, ReceivingOK
<1>3. ZeroOK(e)'
  BY DEF CallOK, ZeroOK, AtEnd
<1> QED BY <1>1, <1>2, <1>3 DEF CallOK, LensFitInt, ReceiveReturned

(* An end whose connection is not touched.                                 *)
LEMMA ConnStays ==
  ASSUME NEW e \in Ends, ConnOK(e),
         kernel'[e] = kernel[e], wire'[e] = wire[e], got'[e] = got[e],
         accepted'[Peer(e)] = accepted[Peer(e)],
         peerDisconnected'[e] = peerDisconnected[e],
         PeerGone(e) => PeerGone(e)'
  PROVE  ConnOK(e)'
<1>1. SocketOK(e)'
  BY DEF ConnOK, SocketOK
<1>2. WireOK(e)'
  BY DEF ConnOK, WireOK
<1>3. InOrder(e)'
  BY DEF ConnOK, InOrder
<1> QED BY <1>1, <1>2, <1>3 DEF ConnOK, HasConnection

(* An end whose peer may still send has neither FIN nor RST before it.     *)
LEMMA NoControl ==
  ASSUME NEW e \in Ends, ConnOK(Peer(e)), CanSend(e)
  PROVE  /\ ~Contains(wire[Peer(e)], FIN) /\ ~Contains(wire[Peer(e)], RST)
         /\ ~kernel[Peer(e)].finRcvd /\ kernel[Peer(e)].state # "reset"
<1>1. ~PeerGone(Peer(e))
  BY EndsFacts DEF PeerGone, CanSend
<1> QED BY <1>1 DEF ConnOK, WireOK

(* What may become of the segments before an end whose peer is gone: data  *)
(* is cut off by a RST only, and a FIN comes after all of it.              *)
Ended(e, v) == LET w == wire[e] IN
  /\ v \in Seq(Segments) /\ BytesFirst(v)
  /\ DataLen(v) <= DataLen(w)
  /\ \A i \in 1..DataLen(v) : v[i] = w[i]
  /\ Contains(v, FIN) \/ ~Contains(v, RST) =>
       DataLen(v) = DataLen(w) /\ (Contains(w, FIN) \/ ~Contains(w, RST))

LEMMA PeerLeft ==
  ASSUME TypeOK, NEW e \in Ends, ConnOK(e), Ended(e, wire'[e]),
         kernel'[e] = kernel[e], got'[e] = got[e],
         accepted'[Peer(e)] = accepted[Peer(e)], PeerGone(e)'
  PROVE  ConnOK(e)'
<1> DEFINE r == Len(got[e])  q == Len(kernel[e].rcvq)  n == accepted[Peer(e)]
           d == DataLen(wire[e])  dd == DataLen(wire'[e])
<1>1. r \in Nat /\ q \in Nat /\ d \in Nat /\ n \in Nat
  BY Lengths, Typed, EndsFacts
<1>2. dd \in Nat /\ dd <= d
  BY DataLenExists DEF Ended, IsDataLen
<1>3. SocketOK(e)' /\ WireOK(e)'
  BY DEF ConnOK, SocketOK, WireOK, Ended
<1>4. InOrder(e)'
  <2>1. /\ \A i \in 1..r : got[e][i] = i
        /\ \A i \in 1..q : kernel[e].rcvq[i] = r + i
        /\ r + q <= n
        /\ kernel[e].state = "connected" =>
             /\ \A i \in 1..d : wire[e][i] = r + q + i
             /\ r + q + d <= n
             /\ Contains(wire[e], FIN) \/ ~Contains(wire[e], RST) => r + q + d = n
             /\ kernel[e].finRcvd => d = 0 /\ r + q = n
    BY DEF ConnOK, InOrder
  <2>2. /\ \A i \in 1..dd : wire'[e][i] = wire[e][i]
        /\ Contains(wire'[e], FIN) \/ ~Contains(wire'[e], RST) =>
             dd = d /\ (Contains(wire[e], FIN) \/ ~Contains(wire[e], RST))
    BY DEF Ended
  <2> HIDE DEF r, q, n, d, dd
  <2>3. kernel[e].state = "connected" =>
         /\ \A i \in 1..dd : wire'[e][i] = r + q + i
         /\ r + q + dd <= n
    BY <1>1, <1>2, <2>1, <2>2
  <2>4. kernel[e].state = "connected" /\ (Contains(wire'[e], FIN) \/ ~Contains(wire'[e], RST))
          => r + q + dd = n
    BY <2>1, <2>2
  <2>5. kernel[e].state = "connected" /\ kernel[e].finRcvd => dd = 0 /\ r + q = n
    BY <1>1, <1>2, <2>1
  <2> QED BY <2>1, <2>3, <2>4, <2>5 DEF InOrder, r, q, n, d, dd
<1> QED BY <1>3, <1>4 DEF ConnOK

LEMMA FINSent ==
  ASSUME TypeOK, NEW e \in Ends, ConnOK(Peer(e)), CanSend(e)
  PROVE  Ended(Peer(e), Append(wire[Peer(e)], FIN))
<1> DEFINE p == Peer(e)
<1>1. p \in Ends /\ wire[p] \in Seq(Segments) /\ BytesFirst(wire[p])
  BY EndsFacts, Typed DEF ConnOK, WireOK
<1>2. ~Contains(wire[p], FIN) /\ ~Contains(wire[p], RST)
  BY NoControl
<1>3. DataLen(wire[p]) \in Nat
  BY <1>1, Lengths
<1> DEFINE v == Append(wire[p], FIN)
<1>4. /\ v \in Seq(Segments) /\ BytesFirst(v) /\ DataLen(v) = DataLen(wire[p])
      /\ \A i \in 1..DataLen(wire[p]) : v[i] = wire[p][i]
  BY <1>1, AppendControl
<1> HIDE DEF v
<1>5. Ended(p, v)
  BY <1>2, <1>3, <1>4 DEF Ended
<1> QED BY <1>5 DEF v

LEMMA RSTSent ==
  ASSUME TypeOK, NEW e \in Ends, ConnOK(e), NEW kept \in 0..Len(wire[e])
  PROVE  Ended(e, WithRST(wire[e], kept))
<1>1. wire[e] \in Seq(Segments) /\ BytesFirst(wire[e])
  BY Typed DEF ConnOK, WireOK
<1> QED BY <1>1, CutByRST DEF Ended

LEMMA NothingSent ==
  ASSUME TypeOK, NEW e \in Ends, ConnOK(e)
  PROVE  Ended(e, wire[e]) /\ (wire'[e] = wire[e] => Ended(e, wire'[e]))
<1>1. wire[e] \in Seq(Segments) /\ BytesFirst(wire[e]) /\ DataLen(wire[e]) \in Nat
  BY Typed, Lengths DEF ConnOK, WireOK
<1> QED BY <1>1 DEF Ended
-----------------------------------------------------------------------------
(* The steps.                                                              *)

EndsOK == \A e \in Ends : CallOK(e) /\ ConnOK(e)

LEMMA BothEnds ==
  ASSUME NEW e \in Ends, CallOK(e)', ConnOK(e)', CallOK(Peer(e))', ConnOK(Peer(e))'
  PROVE  EndsOK'
<1>1. Ends = {e, Peer(e)}
  BY EndsFacts
<1> QED BY <1>1 DEF EndsOK

(* A step that changes nothing but a call, its result and the flag.        *)
LEMMA CallChanges ==
  ASSUME TypeOK, EndsOK, NEW e \in Ends,
         call' \in [Ends -> CallType], \A f \in Ends : f # e => call'[f] = call[f],
         peerDisconnected' \in [Ends -> BOOLEAN],
         \A f \in Ends : f # e => peerDisconnected'[f] = peerDisconnected[f],
         peerDisconnected'[e] => peerDisconnected[e] \/ RcvShut(e),
         UNCHANGED <<kernel, wire, accepted, got>>,
         CallOK(e)'
  PROVE  TypeOK' /\ EndsOK'
<1>1. TypeOK'
  BY DEF TypeOK
<1>2. Peer(e) \in Ends /\ Peer(e) # e
  BY EndsFacts
<1>3. CallOK(Peer(e))' /\ ConnOK(Peer(e))'
  <2>1. CallOK(Peer(e)) /\ ConnOK(Peer(e))
    BY <1>2 DEF EndsOK
  <2>2. (PeerGone(Peer(e)) => PeerGone(Peer(e))') /\ (HasConnection(Peer(e))' => HasConnection(Peer(e)))
    BY DEF PeerGone, HasConnection
  <2>3. CallOK(Peer(e))'
    BY <1>2, <2>1, <2>2, CallStays
  <2>4. ConnOK(Peer(e))'
    BY <1>2, <2>1, <2>2, ConnStays
  <2> QED BY <2>3, <2>4
<1>4. ConnOK(e)'
  <2>1. ConnOK(e)
    BY DEF EndsOK
  <2>2. SocketOK(e)' /\ WireOK(e)' /\ InOrder(e)'
    BY <2>1 DEF ConnOK, SocketOK, WireOK, InOrder, PeerGone
  <2>3. RcvShut(e) => kernel[e].shutRd \/ PeerGone(e)
    BY <2>1 DEF RcvShut, ConnOK, WireOK
  <2>4. peerDisconnected'[e] /\ HasConnection(e)' /\ ~kernel'[e].shutRd /\ ~kernel'[e].staleFlag
          => PeerGone(e)'
    BY <2>1, <2>3 DEF ConnOK, HasConnection, PeerGone
  <2> QED BY <2>2, <2>4 DEF ConnOK
<1> QED BY <1>1, <1>3, <1>4, BothEnds

LEMMA BeginStep ==
  ASSUME TypeOK, EndsOK, NEW e \in Ends,
         NEW op \in {"send", "sendAll", "receive", "timedReceive"},
         NEW pc \in {"send", "poll", "recv"}, NEW len \in Lens,
         Begin(e, op, pc, len), CallOK(e)'
  PROVE  TypeOK' /\ EndsOK'
<1>1. [op |-> op, pc |-> pc, len |-> len, done |-> 0, ret |-> 0] \in CallType
  BY DEF CallType
<1>2. /\ call' \in [Ends -> CallType] /\ \A f \in Ends : f # e => call'[f] = call[f]
      /\ peerDisconnected' \in [Ends -> BOOLEAN]
  BY <1>1 DEF Begin, TypeOK
<1> QED BY <1>2, CallChanges DEF Begin

LEMMA StartSendStep ==
  ASSUME TypeOK, EndsOK, NEW e \in Ends, StartSend(e)
  PROVE  TypeOK' /\ EndsOK'
<1>1. PICK op \in {"send", "sendAll"}, len \in Lens :
        accepted[e] + len <= MaxBytes(e) /\ Begin(e, op, "send", len)
  BY DEF StartSend
<1>2. len \in Nat \ {0} /\ accepted[e] \in Nat
  BY StreamAssumption, Typed
<1>3. /\ call'[e] = [op |-> op, pc |-> "send", len |-> len, done |-> 0, ret |-> 0]
      /\ accepted' = accepted
  BY <1>1 DEF Begin, TypeOK
<1>4. CallOK(e)'
  BY <1>1, <1>2, <1>3 DEF CallOK, SendingOK, ReceivingOK, ZeroOK, AtEnd, ReceiveReturned
<1> QED BY <1>1, <1>4, BeginStep

LEMMA StartReceiveStep ==
  ASSUME TypeOK, EndsOK, NEW e \in Ends, StartReceive(e) \/ StartTimedReceive(e)
  PROVE  TypeOK' /\ EndsOK'
<1>1. PICK op \in {"receive", "timedReceive"}, pc \in {"recv", "poll"}, len \in Lens :
        (op = "receive" <=> pc = "recv") /\ Begin(e, op, pc, len)
  BY DEF StartReceive, StartTimedReceive
<1>2. len \in Nat \ {0}
  BY StreamAssumption
<1>3. call'[e] = [op |-> op, pc |-> pc, len |-> len, done |-> 0, ret |-> 0]
  BY <1>1 DEF Begin, TypeOK
<1>4. CallOK(e)'
  BY <1>1, <1>2, <1>3 DEF CallOK, SendingOK, ReceivingOK, ZeroOK, AtEnd, ReceiveReturned
<1> QED BY <1>1, <1>4, BeginStep

LEMMA PollTimesOutStep ==
  ASSUME TypeOK, EndsOK, NEW e \in Ends, PollTimesOut(e)
  PROVE  TypeOK' /\ EndsOK'
<1>1. /\ call' \in [Ends -> CallType] /\ \A f \in Ends : f # e => call'[f] = call[f]
      /\ call'[e].pc = "timedOut"
      /\ peerDisconnected' \in [Ends -> BOOLEAN]
  BY DEF PollTimesOut, TypeOK, CallType
<1>2. CallOK(e)'
  BY <1>1 DEF CallOK, SendingOK, ReceivingOK, ZeroOK, AtEnd, ReceiveReturned
<1> QED BY <1>1, <1>2, CallChanges DEF PollTimesOut

LEMMA PollReturnsStep ==
  ASSUME TypeOK, EndsOK, NEW e \in Ends, PollReturns(e)
  PROVE  TypeOK' /\ EndsOK'
<1>1. /\ Reported(e).POLLIN <=> kernel[e].rcvq # <<>> \/ RcvShut(e)
      /\ Reported(e).POLLRDHUP <=> RcvShut(e)
  BY DEF Reported
<1>2. /\ peerDisconnected' \in [Ends -> BOOLEAN]
      /\ peerDisconnected'[e] <=> peerDisconnected[e] \/ RcvShut(e)
      /\ \A f \in Ends : f # e => peerDisconnected'[f] = peerDisconnected[f]
  <2>1. (peerDisconnected[e] \/ Reported(e).POLLRDHUP) \in BOOLEAN
    BY Zenon
  <2> QED BY <1>1, <2>1 DEF PollReturns, TypeOK
<1>3. CASE Reported(e).POLLIN
  <2>1. /\ call' \in [Ends -> CallType] /\ \A f \in Ends : f # e => call'[f] = call[f]
        /\ call'[e].pc = "recv" /\ call'[e].op = call[e].op
        /\ call'[e].len = call[e].len /\ call'[e].done = call[e].done
    <3>1. call' = [call EXCEPT ![e].pc = "recv"] /\ call \in [Ends -> CallType]
      BY <1>3 DEF PollReturns, TypeOK
    <3> QED BY <3>1 DEF CallType
  <2>2. /\ call[e].op = "timedReceive" /\ call[e].done = 0 /\ call[e].len # 0 
        /\ call[e].len \in Nat
    BY Typed DEF PollReturns, EndsOK, CallOK, ReceivingOK
  <2>3. kernel'[e].rcvq # <<>> \/ peerDisconnected'[e]
    BY <1>1, <1>2, <1>3 DEF PollReturns
  <2>4. CallOK(e)'
    BY <2>1, <2>2, <2>3 DEF CallOK, SendingOK, ReceivingOK, ZeroOK, AtEnd, ReceiveReturned
  <2> QED BY <1>2, <2>1, <2>4, CallChanges DEF PollReturns
<1>4. CASE ~Reported(e).POLLIN
  <2>1. Return(e, 0, 1)
    BY <1>4 DEF PollReturns
  <2>2. /\ call' \in [Ends -> CallType] /\ \A f \in Ends : f # e => call'[f] = call[f]
        /\ call'[e].pc = "returned" /\ call'[e].op = call[e].op
        /\ call'[e].done = 0 /\ call'[e].ret = 1
    BY <2>1, Returned DEF TypeOK
  <2>3. call[e].op = "timedReceive"
    BY DEF PollReturns, EndsOK, CallOK, ReceivingOK
  <2>4. ~HasConnection(e)'
    <3>1. ~RcvShut(e) /\ kernel[e].rcvq = <<>>
      BY <1>1, <1>4
    <3>2. kernel[e].state = "connected" => kernel[e].err = "none"
      BY DEF EndsOK, ConnOK, SocketOK
    <3>3. kernel[e].state = "connected" => ~PollIsReady(e)
      <4> SUFFICES ASSUME kernel[e].state = "connected" PROVE ~PollIsReady(e)
        OBVIOUS
      <4>1. DOMAIN Reported(e) = {"POLLIN", "POLLRDHUP", "POLLHUP", "POLLERR"}
        BY DEF Reported
      <4>2. /\ ~Reported(e).POLLIN /\ ~Reported(e).POLLRDHUP
            /\ ~Reported(e).POLLHUP /\ ~Reported(e).POLLERR
        BY <3>1, <3>2 DEF Reported
      <4> QED BY <4>1, <4>2 DEF PollIsReady
    <3>4. kernel'[e].state # "connected" /\ kernel'[e].state # "reset"
      BY <3>1, <3>3 DEF PollReturns, RcvShut
    <3> QED BY <3>4 DEF HasConnection
  <2>5. CallOK(e)'
    BY <2>2, <2>3, <2>4 DEF CallOK, SendingOK, ReceivingOK, ZeroOK, AtEnd, ReceiveReturned
  <2> QED BY <1>2, <2>2, <2>5, CallChanges DEF PollReturns
<1> QED BY <1>3, <1>4
(* The other end of a step that leaves it alone.                           *)
LEMMA PeerStays ==
  ASSUME EndsOK, NEW e \in Ends,
         \A f \in Ends : f # e =>
           /\ kernel'[f] = kernel[f] /\ call'[f] = call[f] /\ got'[f] = got[f]
           /\ peerDisconnected'[f] = peerDisconnected[f],
         wire' = wire, accepted' = accepted,
         kernel'[e].state = kernel[e].state, kernel'[e].shutWr = kernel[e].shutWr
  PROVE  CallOK(Peer(e))' /\ ConnOK(Peer(e))'
<1> DEFINE p == Peer(e)
<1>1. p \in Ends /\ p # e /\ Peer(p) = e
  BY EndsFacts
<1>2. /\ kernel'[p] = kernel[p] /\ call'[p] = call[p] /\ got'[p] = got[p]
      /\ peerDisconnected'[p] = peerDisconnected[p]
      /\ CallOK(p) /\ ConnOK(p)
  BY <1>1 DEF EndsOK
<1>3. (PeerGone(p) => PeerGone(p)') /\ (HasConnection(p)' => HasConnection(p))
  BY <1>1, <1>2 DEF PeerGone, HasConnection
<1>4. CallOK(p)'
  BY <1>1, <1>2, <1>3, CallStays
<1>5. ConnOK(p)'
  BY <1>1, <1>2, <1>3, ConnStays
<1> QED BY <1>4, <1>5

LEMMA RecvTakesStep ==
  ASSUME TypeOK, EndsOK, NEW e \in Ends, RecvTakes(e)
  PROVE  TypeOK' /\ EndsOK'
<1> DEFINE c == call[e]  g == got[e]  q == kernel[e].rcvq
           n == IF c.len - c.done < Len(q) THEN c.len - c.done ELSE Len(q)
           h == g \o SubSeq(q, 1, n)  t == SubSeq(q, n + 1, Len(q))
<1>1. /\ c.pc = "recv" /\ c.op \in {"receive", "timedReceive"} /\ c.done < c.len
      /\ c.len \in Nat /\ c.done \in Nat
      /\ q \in Seq(Bytes) /\ g \in Seq(Bytes) /\ q # <<>>
  BY Typed DEF RecvTakes, EndsOK, CallOK, ReceivingOK
<1>2. n \in 1..Len(q) /\ c.done + n <= c.len /\ Len(q) \in Nat /\ Len(g) \in Nat
  <2>1. Len(q) \in Nat \ {0} /\ Len(g) \in Nat
    BY <1>1
  <2> HIDE DEF q, g
  <2> QED BY <1>1, <2>1
<1>3. /\ got' = [got EXCEPT ![e] = h] /\ kernel' = [kernel EXCEPT ![e].rcvq = t]
      /\ IF WaitsForMore(e, n)
           THEN call' = [call EXCEPT ![e].done = @ + n]
           ELSE Return(e, c.done + n, c.done + n)
      /\ peerDisconnected' = peerDisconnected /\ wire' = wire /\ accepted' = accepted
  BY DEF RecvTakes
<1> HIDE DEF n
<1>4. /\ h \in Seq(Bytes) /\ Len(h) = Len(g) + n
      /\ \A i \in 1..Len(g) : h[i] = g[i]
      /\ \A i \in 1..n : h[Len(g) + i] = q[i]
      /\ t \in Seq(Bytes) /\ Len(t) = Len(q) - n
      /\ \A i \in 1..Len(t) : t[i] = q[n + i]
  BY <1>1, <1>2
<1> HIDE DEF h, t
<1>5. /\ got' \in [Ends -> Seq(Bytes)] /\ got'[e] = h
      /\ \A f \in Ends : f # e => got'[f] = got[f]
  BY <1>3, <1>4 DEF TypeOK
<1>6. /\ kernel' \in [Ends -> KernelType] /\ kernel'[e].rcvq = t
      /\ kernel'[e].state = kernel[e].state /\ kernel'[e].finRcvd = kernel[e].finRcvd
      /\ kernel'[e].shutRd = kernel[e].shutRd /\ kernel'[e].shutWr = kernel[e].shutWr
      /\ kernel'[e].err = kernel[e].err /\ kernel'[e].staleFlag = kernel[e].staleFlag
      /\ \A f \in Ends : f # e => kernel'[f] = kernel[f]
  <2>1. kernel' = [kernel EXCEPT ![e] = [kernel[e] EXCEPT !.rcvq = t]] /\ kernel \in [Ends -> KernelType]
    BY <1>3 DEF TypeOK
  <2> QED BY <1>4, <2>1, SetRcvq
<1>7. /\ call' \in [Ends -> CallType] /\ \A f \in Ends : f # e => call'[f] = call[f]
      /\ call'[e].op = c.op /\ call'[e].len = c.len /\ call'[e].done = c.done + n
      /\ \/ call'[e].pc = "recv" /\ c.done + n < c.len
         \/ call'[e].pc = "returned" /\ call'[e].ret = c.done + n
  <2>1. CASE WaitsForMore(e, n)
    <3>1. call' = [call EXCEPT ![e].done = c.done + n] /\ call \in [Ends -> CallType]
      BY <1>3, <2>1 DEF TypeOK
    <3>2. c.done + n \in Nat /\ c.done + n < c.len
      BY <1>1, <1>2, <2>1 DEF WaitsForMore
    <3> QED BY <1>1, <3>1, <3>2 DEF CallType
  <2>2. CASE ~WaitsForMore(e, n)
    <3>1. Return(e, c.done + n, c.done + n) /\ call \in [Ends -> CallType]
      BY <1>3, <2>2 DEF TypeOK
    <3>2. c.done + n \in Nat /\ c.done + n \in Int
      BY <1>1, <1>2
    <3> QED BY <3>1, <3>2, Returned
  <2> QED BY <2>1, <2>2
<1>8. TypeOK'
  BY <1>3, <1>5, <1>6, <1>7 DEF TypeOK
<1>9. CallOK(e)'
  <2>1. c.done + n > 0
    BY <1>1, <1>2
  <2> QED BY <1>1, <1>7, <2>1 DEF CallOK, SendingOK, ReceivingOK, ZeroOK, AtEnd, ReceiveReturned
<1>10. InOrder(e)'
  <2> DEFINE r == Len(g)  l == Len(q)  d == DataLen(wire[e])  m == accepted[Peer(e)]
  <2>1. /\ \A i \in 1..r : g[i] = i
        /\ \A i \in 1..l : q[i] = r + i
        /\ r + l <= m
        /\ kernel[e].state = "connected" =>
             /\ \A i \in 1..d : wire[e][i] = r + l + i
             /\ r + l + d <= m
             /\ Contains(wire[e], FIN) \/ ~Contains(wire[e], RST) => r + l + d = m
             /\ kernel[e].finRcvd => d = 0 /\ r + l = m
    BY DEF EndsOK, ConnOK, InOrder
  <2>2. /\ r \in Nat /\ l \in Nat /\ n \in 1..l /\ Len(h) = r + n /\ Len(t) = l - n
    BY <1>2, <1>4
  <2> HIDE DEF r, l, d, m
  <2>0. Len(h) + Len(t) = r + l
    BY <2>2
  <2>3. \A i \in 1..Len(h) : h[i] = i
    <3> SUFFICES ASSUME NEW i \in 1..Len(h) PROVE h[i] = i
      OBVIOUS
    <3>1. CASE i <= r
      <4>1. i \in 1..r
        BY <2>2, <3>1
      <4> QED BY <1>4, <2>1, <4>1 DEF r
    <3>2. CASE i > r
      <4>1. i - r \in 1..n /\ i - r \in 1..l /\ r + (i - r) = i
        BY <1>2, <2>2, <3>2
      <4> QED BY <1>4, <2>1, <4>1 DEF r
    <3> QED BY <2>2, <3>1, <3>2
  <2>4. \A i \in 1..Len(t) : t[i] = Len(h) + i
    <3> SUFFICES ASSUME NEW i \in 1..Len(t) PROVE t[i] = Len(h) + i
      OBVIOUS
    <3>1. n + i \in 1..l /\ r + (n + i) = Len(h) + i
      BY <1>2, <2>2
    <3> QED BY <1>4, <2>1, <3>1
  <2>5. InOrder(e)' <=>
         /\ \A i \in 1..Len(h) : h[i] = i
         /\ \A i \in 1..Len(t) : t[i] = Len(h) + i
         /\ Len(h) + Len(t) <= m
         /\ kernel[e].state = "connected" =>
             /\ \A i \in 1..d : wire[e][i] = Len(h) + Len(t) + i
             /\ Len(h) + Len(t) + d <= m
             /\ Contains(wire[e], FIN) \/ ~Contains(wire[e], RST) => Len(h) + Len(t) + d = m
             /\ kernel[e].finRcvd => d = 0 /\ Len(h) + Len(t) = m
    BY <1>3, <1>5, <1>6 DEF InOrder, d, m
  <2> QED BY <2>0, <2>1, <2>3, <2>4, <2>5
<1>11. SocketOK(e)' /\ WireOK(e)'
  <2>1. SocketOK(e) /\ WireOK(e) /\ kernel[e].state \notin {"absent", "unconnected"}
    BY <1>1 DEF EndsOK, ConnOK, SocketOK
  <2>2. PeerGone(e) => PeerGone(e)'
    BY <1>6, EndsFacts DEF PeerGone
  <2> QED BY <1>3, <1>6, <2>1, <2>2 DEF SocketOK, WireOK
<1>12. ConnOK(e)'
  <2>1. PeerGone(e) => PeerGone(e)'
    BY <1>6, EndsFacts DEF PeerGone
  <2> QED BY <1>3, <1>6, <1>10, <1>11, <2>1 DEF EndsOK, ConnOK, HasConnection
<1>13. CallOK(Peer(e))' /\ ConnOK(Peer(e))'
  BY <1>3, <1>5, <1>6, <1>7, PeerStays
<1> QED BY <1>8, <1>9, <1>12, <1>13, BothEnds
(* A step in which a call ends and may consume the pending error.          *)
LEMMA ErrorTaken ==
  ASSUME TypeOK, EndsOK, NEW e \in Ends,
         kernel' = kernel \/ kernel' = [kernel EXCEPT ![e].err = "none"],
         call' \in [Ends -> CallType], \A f \in Ends : f # e => call'[f] = call[f],
         peerDisconnected' \in [Ends -> BOOLEAN],
         \A f \in Ends : f # e => peerDisconnected'[f] = peerDisconnected[f],
         peerDisconnected'[e] => peerDisconnected[e] \/ kernel[e].err # "none",
         wire' = wire, accepted' = accepted, got' = got,
         CallOK(e)'
  PROVE  TypeOK' /\ EndsOK'
<1>1. /\ kernel' \in [Ends -> KernelType]
      /\ \A f \in Ends : f # e => kernel'[f] = kernel[f]
      /\ kernel'[e].rcvq = kernel[e].rcvq /\ kernel'[e].state = kernel[e].state
      /\ kernel'[e].finRcvd = kernel[e].finRcvd /\ kernel'[e].shutRd = kernel[e].shutRd
      /\ kernel'[e].shutWr = kernel[e].shutWr /\ kernel'[e].staleFlag = kernel[e].staleFlag
      /\ kernel'[e].err = kernel[e].err \/ kernel'[e].err = "none"
  <2>1. CASE kernel' = kernel
    BY <2>1 DEF TypeOK
  <2>2. CASE kernel' = [kernel EXCEPT ![e].err = "none"]
    <3>1. kernel' = [kernel EXCEPT ![e] = [kernel[e] EXCEPT !.err = "none"]] /\ kernel \in [Ends -> KernelType]
      BY <2>2 DEF TypeOK
    <3>2. "none" \in Errors
      BY DEF Errors
    <3> QED BY <3>1, <3>2, SetErr
  <2> QED BY <2>1, <2>2
<1>2. TypeOK'
  BY <1>1 DEF TypeOK
<1>3. ConnOK(e)'
  <2>1. ConnOK(e)
    BY DEF EndsOK
  <2>2. PeerGone(e) => PeerGone(e)'
    BY <1>1, EndsFacts DEF PeerGone
  <2>3. SocketOK(e)'
    BY <1>1, <2>1 DEF ConnOK, SocketOK
  <2>4. WireOK(e)'
    BY <1>1, <2>1, <2>2 DEF ConnOK, WireOK
  <2>5. InOrder(e)'
    BY <1>1, <2>1 DEF ConnOK, InOrder
  <2>6. kernel[e].err # "none" /\ HasConnection(e) => PeerGone(e)
    BY <2>1 DEF ConnOK, SocketOK, WireOK, HasConnection
  <2>7. peerDisconnected'[e] /\ HasConnection(e)' /\ ~kernel'[e].shutRd /\ ~kernel'[e].staleFlag
          => PeerGone(e)'
    BY <1>1, <2>1, <2>2, <2>6 DEF ConnOK, HasConnection
  <2> QED BY <2>3, <2>4, <2>5, <2>7 DEF ConnOK
<1>4. CallOK(Peer(e))' /\ ConnOK(Peer(e))'
  BY <1>1, PeerStays
<1> QED BY <1>2, <1>3, <1>4, BothEnds

LEMMA RecvEndsStep ==
  ASSUME TypeOK, EndsOK, NEW e \in Ends, RecvEnds(e)
  PROVE  TypeOK' /\ EndsOK'
<1> DEFINE c == call[e]  s == kernel[e]
<1>1. /\ c.pc = "recv" /\ c.op \in {"receive", "timedReceive"} /\ c.done \in Nat
      /\ s.rcvq = <<>>
      /\ RcvShut(e) \/ s.state = "unconnected"
      /\ call \in [Ends -> CallType] /\ peerDisconnected \in [Ends -> BOOLEAN]
      /\ UNCHANGED <<peerDisconnected, wire, accepted, got>>
  BY Typed DEF RecvEnds, EndsOK, CallOK, ReceivingOK, TypeOK
<1>2. CASE Return(e, c.done, c.done) /\ kernel' = kernel
  <2>1. /\ call' \in [Ends -> CallType] /\ \A f \in Ends : f # e => call'[f] = call[f]
        /\ call'[e].op = c.op /\ call'[e].pc = "returned"
        /\ call'[e].done = c.done /\ call'[e].ret = c.done
    <3>1. c.done \in Int
      BY <1>1
    <3> QED BY <1>1, <1>2, <3>1, Returned
  <2>2. c.op = "timedReceive" /\ c.done = 0 => peerDisconnected[e]
    BY <1>1 DEF EndsOK, CallOK, ReceivingOK
  <2>3. s.state = "connected" /\ ~s.shutRd => s.finRcvd
    BY <1>1 DEF RcvShut
  <2>4. CallOK(e)'
    BY <1>1, <1>2, <2>1, <2>2, <2>3 DEF CallOK, SendingOK, ReceivingOK, ZeroOK, AtEnd, ReceiveReturned
  <2> QED BY <1>1, <1>2, <2>1, <2>4, ErrorTaken
<1>3. CASE Throw(e) /\ kernel' = [kernel EXCEPT ![e].err = "none"]
  <2>1. /\ call' \in [Ends -> CallType] /\ \A f \in Ends : f # e => call'[f] = call[f]
        /\ call'[e].pc = "threw"
    BY <1>1, <1>3, Thrown
  <2>2. CallOK(e)'
    BY <2>1 DEF CallOK, SendingOK, ReceivingOK, ZeroOK, AtEnd, ReceiveReturned
  <2> QED BY <1>1, <1>3, <2>1, <2>2, ErrorTaken
<1> QED BY <1>2, <1>3 DEF RecvEnds

LEMMA SendErrorStep ==
  ASSUME TypeOK, EndsOK, NEW e \in Ends,
         call[e].pc = "send", UNCHANGED <<wire, accepted, got>>,
         kernel' = [kernel EXCEPT ![e].err = "none"],
         \/ /\ kernel[e].err = "ECONNRESET"
            /\ peerDisconnected' = [peerDisconnected EXCEPT ![e] = TRUE]
            /\ Return(e, call[e].done, -1)
         \/ Throw(e) /\ UNCHANGED peerDisconnected
  PROVE  TypeOK' /\ EndsOK'
<1>1. /\ call \in [Ends -> CallType] /\ peerDisconnected \in [Ends -> BOOLEAN]
      /\ call[e].op \in {"send", "sendAll"} /\ call[e].done \in Nat
  BY Typed DEF TypeOK, EndsOK, CallOK, SendingOK
<1>2. CASE /\ kernel[e].err = "ECONNRESET"
           /\ peerDisconnected' = [peerDisconnected EXCEPT ![e] = TRUE]
           /\ Return(e, call[e].done, -1)
  <2>1. /\ call' \in [Ends -> CallType] /\ \A f \in Ends : f # e => call'[f] = call[f]
        /\ call'[e].op = call[e].op /\ call'[e].pc = "returned" /\ call'[e].ret = -1
    <3>1. -1 \in Int
      OBVIOUS
    <3> QED BY <1>1, <1>2, <3>1, Returned
  <2>2. /\ peerDisconnected' \in [Ends -> BOOLEAN] /\ peerDisconnected'[e]
        /\ \A f \in Ends : f # e => peerDisconnected'[f] = peerDisconnected[f]
    BY <1>1, <1>2
  <2>3. CallOK(e)'
    BY <1>1, <2>1, <2>2 DEF CallOK, SendingOK, ReceivingOK, ZeroOK, AtEnd, ReceiveReturned
  <2> QED BY <1>2, <2>1, <2>2, <2>3, ErrorTaken
<1>3. CASE Throw(e) /\ UNCHANGED peerDisconnected
  <2>1. /\ call' \in [Ends -> CallType] /\ \A f \in Ends : f # e => call'[f] = call[f]
        /\ call'[e].pc = "threw"
    BY <1>1, <1>3, Thrown
  <2>2. CallOK(e)'
    BY <2>1 DEF CallOK, SendingOK, ReceivingOK, ZeroOK, AtEnd, ReceiveReturned
  <2> QED BY <1>1, <1>3, <2>1, <2>2, ErrorTaken
<1> QED BY <1>2, <1>3
LEMMA SendTakesStep ==
  ASSUME TypeOK, EndsOK, NEW e \in Ends, SendTakes(e)
  PROVE  TypeOK' /\ EndsOK'
<1> DEFINE c == call[e]  p == Peer(e)  a == accepted[e]  w == wire[p]
<1>1. PICK n \in 1..(c.len - c.done) :
        /\ wire' = [wire EXCEPT ![p] = @ \o [i \in 1..n |-> a - c.done + Offset(e) + i]]
        /\ accepted' = [accepted EXCEPT ![e] = @ + n]
        /\ IF SentEnough(e, n)
             THEN Return(e, c.done + n, IF c.op = "sendAll" THEN AsInt(c.done + n) ELSE n)
             ELSE call' = [call EXCEPT ![e].done = @ + n]
  BY DEF SendTakes
<1> DEFINE b == [i \in 1..n |-> a + i]
<1>2. /\ CanSend(e) /\ c.op \in {"send", "sendAll"}
      /\ c.done < c.len /\ c.done <= a
      /\ a + c.len - c.done <= MaxBytes(e) /\ (c.op = "send" => c.done = 0)
      /\ peerDisconnected' = peerDisconnected /\ kernel' = kernel /\ got' = got
  BY DEF SendTakes, EndsOK, CallOK, SendingOK
<1>3. /\ c.len \in Nat /\ c.done \in Nat /\ a \in Nat /\ MaxBytes(e) \in Nat
      /\ p \in Ends /\ p # e /\ Peer(p) = e /\ 1..MaxBytes(e) \subseteq Bytes
  BY Typed, EndsFacts
<1>4. n \in Nat /\ n > 0 /\ c.done + n <= c.len /\ a + n <= MaxBytes(e)
  BY <1>2, <1>3
<1>5. b \in Seq(Bytes) /\ Len(b) = n /\ \A i \in 1..n : b[i] = a + i
  <2>1. \A i \in 1..n : a + i \in Bytes
    BY <1>3, <1>4
  <2> QED BY <1>4, <2>1
<1>6. wire' = [wire EXCEPT ![p] = w \o b]
  <2>1. \A i \in 1..n : a - c.done + Offset(e) + i = a + i
    BY <1>3 DEF Offset
  <2>2. [i \in 1..n |-> a - c.done + Offset(e) + i] = b
    BY <2>1
  <2> QED BY <1>1, <2>2
<1>7. /\ w \in Seq(Segments) /\ ~Contains(w, FIN) /\ ~Contains(w, RST)
      /\ ~kernel[p].finRcvd /\ kernel[p].state # "reset"
  BY <1>2, <1>3, Typed, NoControl DEF EndsOK
<1> DEFINE v == w \o b
<1>8. /\ v \in Seq(Segments) /\ BytesFirst(v)
      /\ ~Contains(v, FIN) /\ ~Contains(v, RST)
      /\ DataLen(v) = Len(w) + n /\ DataLen(w) = Len(w) /\ Len(w) \in Nat
      /\ \A i \in 1..Len(w) : v[i] = w[i]
      /\ \A i \in 1..n : v[Len(w) + i] = a + i
  <2>1. Len(w) \in Nat
    BY <1>3, Lengths
  <2> HIDE DEF b, w
  <2>2. /\ v \in Seq(Segments) /\ BytesFirst(v)
        /\ ~Contains(v, FIN) /\ ~Contains(v, RST)
        /\ DataLen(v) = DataLen(w) + Len(b) /\ DataLen(w) = Len(w)
        /\ \A i \in 1..Len(w) : v[i] = w[i]
        /\ \A i \in 1..Len(b) : v[Len(w) + i] = b[i]
    BY <1>5, <1>7, AppendData
  <2> HIDE DEF v
  <2> QED BY <1>5, <2>1, <2>2
<1> HIDE DEF b, v
<1>9. /\ wire' \in [Ends -> Seq(Segments)] /\ wire'[p] = v /\ wire'[e] = wire[e]
      /\ accepted' \in [Ends -> Nat] /\ accepted'[e] = a + n /\ accepted'[p] = accepted[p]
      /\ \A f \in Ends : accepted'[f] <= MaxBytes(f)
  <2>1. wire \in [Ends -> Seq(Segments)] /\ accepted \in [Ends -> Nat]
        /\ \A f \in Ends : accepted[f] <= MaxBytes(f)
    BY DEF TypeOK, Segments
  <2>2. wire' = [wire EXCEPT ![p] = v]
    BY <1>6 DEF v
  <2>3. accepted' = [accepted EXCEPT ![e] = a + n] /\ a + n \in Nat
    BY <1>1, <1>3, <1>4
  <2> QED BY <1>3, <1>4, <1>8, <2>1, <2>2, <2>3
<1>10. /\ call' \in [Ends -> CallType] /\ call'[p] = call[p]
       /\ call'[e].op = c.op /\ call'[e].len = c.len /\ call'[e].done = c.done + n
       /\ \/ /\ call'[e].pc = "send" /\ c.op = "sendAll" /\ c.done + n < c.len
          \/ /\ call'[e].pc = "returned"
             /\ c.op = "sendAll" => c.done + n = c.len /\ call'[e].ret = AsInt(c.len)
             /\ c.op = "send" => call'[e].ret = n
  <2>1. c.done + n \in Nat /\ call \in [Ends -> CallType]
    BY <1>3, <1>4 DEF TypeOK
  <2>2. CASE SentEnough(e, n)
    <3> DEFINE ret == IF c.op = "sendAll" THEN AsInt(c.done + n) ELSE n
    <3>1. ret \in Int
      BY <1>4, <2>1, AsIntFacts
    <3>2. Return(e, c.done + n, ret)
      BY <1>1, <2>2
    <3> HIDE DEF ret
    <3>3. /\ call' \in [Ends -> CallType] /\ call'[p] = call[p]
          /\ call'[e].op = c.op /\ call'[e].len = c.len /\ call'[e].done = c.done + n
          /\ call'[e].pc = "returned" /\ call'[e].ret = ret
      BY <1>3, <2>1, <3>1, <3>2, Returned
    <3>4. c.op = "sendAll" => c.done + n = c.len
      BY <2>2 DEF SentEnough
    <3> QED BY <3>3, <3>4 DEF ret
  <2>3. CASE ~SentEnough(e, n)
    <3>1. call' = [call EXCEPT ![e].done = c.done + n]
      BY <1>1, <2>3
    <3>2. c.op = "sendAll" /\ c.done + n < c.len
      BY <1>2, <1>3, <1>4, <2>3 DEF SentEnough
    <3>3. c.pc = "send"
      BY DEF SendTakes
    <3> QED BY <1>3, <2>1, <3>1, <3>2, <3>3 DEF CallType
  <2> QED BY <2>2, <2>3
<1>11. TypeOK'
  BY <1>2, <1>9, <1>10 DEF TypeOK, Segments
<1>12. CallOK(e)'
  <2>1. LensFitInt => AsInt(c.len) = c.len
    <3>1. c.len # 0 /\ c.len \in Lens \cup {0}
      BY <1>2, <1>3, Typed
    <3> QED BY <1>3, <3>1, AsIntFacts DEF LensFitInt
  <2>2. /\ c.done + n <= a + n /\ a + n + c.len - (c.done + n) <= MaxBytes(e)
        /\ n # -1 /\ c.len # -1
    BY <1>2, <1>3, <1>4
  <2>3. SendingOK(e)' /\ ReceivingOK(e)' /\ ZeroOK(e)'
    BY <1>2, <1>9, <1>10, <2>2 DEF SendingOK, ReceivingOK, ZeroOK, AtEnd
  <2>4. call'[e].pc = "returned" /\ LensFitInt =>
          call'[e].ret = c.done + n /\ call'[e].ret # -1 /\ (c.op = "sendAll" => c.done + n = c.len)
    BY <1>2, <1>3, <1>4, <1>10, <2>1, <2>2
  <2> QED BY <1>2, <1>10, <2>3, <2>4 DEF CallOK, LensFitInt, ReceiveReturned
<1>13. CallOK(p)'
  <2>1. CallOK(p) /\ (HasConnection(p)' => HasConnection(p))
    BY <1>2, <1>3 DEF EndsOK, HasConnection
  <2> QED BY <1>2, <1>3, <1>9, <1>10, <2>1, CallStays
<1>14. ConnOK(e)'
  <2>1. ConnOK(e) /\ (PeerGone(e) => PeerGone(e)')
    BY <1>2 DEF EndsOK, PeerGone
  <2> QED BY <1>2, <1>9, <2>1, ConnStays
<1>15. InOrder(p)'
  <2> DEFINE r == Len(got[p])  q == Len(kernel[p].rcvq)  d == Len(w)
  <2>1. /\ \A i \in 1..r : got[p][i] = i
        /\ \A i \in 1..q : kernel[p].rcvq[i] = r + i
        /\ r + q <= a
        /\ kernel[p].state = "connected" =>
             (\A i \in 1..d : w[i] = r + q + i) /\ r + q + d = a
    BY <1>3, <1>7, <1>8 DEF EndsOK, ConnOK, InOrder
  <2>2. r \in Nat /\ q \in Nat /\ d \in Nat
    BY <1>3, Lengths
  <2> HIDE DEF r, q, d
  <2>3. kernel[p].state = "connected" => \A i \in 1..(d + n) : v[i] = r + q + i
    <3> SUFFICES ASSUME kernel[p].state = "connected", NEW i \in 1..(d + n)
                 PROVE  v[i] = r + q + i
      OBVIOUS
    <3>1. CASE i <= d
      <4>1. i \in 1..d
        BY <2>2, <3>1
      <4> QED BY <1>8, <2>1, <4>1 DEF d
    <3>2. CASE i > d
      <4>1. i - d \in 1..n /\ d + (i - d) = i
        BY <1>4, <2>2, <3>2
      <4>2. v[d + (i - d)] = a + (i - d)
        BY <1>8, <4>1 DEF d
      <4>3. r + q + d = a
        BY <2>1
      <4> QED BY <2>2, <4>1, <4>2, <4>3
    <3> QED BY <2>2, <3>1, <3>2
  <2>4. r + q <= a + n /\ (kernel[p].state = "connected" => r + q + (d + n) = a + n)
    BY <1>3, <1>4, <2>1, <2>2
  <2>5. InOrder(p)' <=>
          /\ \A i \in 1..r : got[p][i] = i
          /\ \A i \in 1..q : kernel[p].rcvq[i] = r + i
          /\ r + q <= a + n
          /\ kernel[p].state = "connected" =>
               /\ \A i \in 1..(d + n) : v[i] = r + q + i
               /\ r + q + (d + n) <= a + n
               /\ Contains(v, FIN) \/ ~Contains(v, RST) => r + q + (d + n) = a + n
               /\ kernel[p].finRcvd => d + n = 0 /\ r + q = a + n
    BY <1>2, <1>3, <1>8, <1>9 DEF InOrder, r, q, d
  <2>6. kernel[p].state = "connected" => r + q + (d + n) <= a + n
    BY <1>3, <1>4, <2>4
  <2> QED BY <1>7, <2>1, <2>3, <2>4, <2>5, <2>6
<1>16. ConnOK(p)'
  <2>1. ConnOK(p) /\ (PeerGone(p) => PeerGone(p)')
    BY <1>2, <1>3 DEF EndsOK, PeerGone
  <2>2. SocketOK(p)' /\ WireOK(p)'
    BY <1>2, <1>7, <1>8, <1>9, <2>1 DEF ConnOK, SocketOK, WireOK
  <2> QED BY <1>2, <1>15, <2>1, <2>2 DEF ConnOK, HasConnection
<1> QED BY <1>11, <1>12, <1>13, <1>14, <1>16, BothEnds
(* A segment arrives at a socket with a connection.                        *)
LEMMA ArrivesStep ==
  ASSUME TypeOK, EndsOK, NEW e \in Ends, Deliver(e), kernel[e].state = "connected"
  PROVE  TypeOK' /\ EndsOK'
<1> DEFINE w == wire[e]  x == Head(w)  v == Tail(w)  s == kernel[e]  p == Peer(e)
<1>1. /\ w # <<>> /\ wire' = [wire EXCEPT ![e] = v]
      /\ kernel' = [kernel EXCEPT ![e] =
             CASE x = FIN -> [s EXCEPT !.finRcvd = TRUE]
               [] x = RST -> [s EXCEPT !.state = "reset",
                                  !.err = IF s.finRcvd /\ ~s.shutWr THEN "EPIPE" ELSE "ECONNRESET"]
               [] OTHER     -> [s EXCEPT !.rcvq = Append(@, x)]]
      /\ UNCHANGED <<peerDisconnected, call, accepted, got>>
  BY DEF Deliver
<1>2. /\ w \in Seq(Segments) /\ s \in KernelType /\ s.rcvq \in Seq(Bytes)
      /\ p \in Ends /\ p # e /\ Peer(p) = e
      /\ SocketOK(e) /\ WireOK(e) /\ InOrder(e)
  BY Typed, EndsFacts DEF EndsOK, ConnOK
<1>3. /\ x \in Segments /\ x = w[1]
      /\ v \in Seq(Segments) /\ BytesFirst(v)
      /\ IsByte(x) => DataLen(w) = DataLen(v) + 1
      /\ ~IsByte(x) => DataLen(w) = 0 /\ DataLen(v) = 0
      /\ \A i \in 1..DataLen(v) : v[i] = w[i + 1]
      /\ \A y : Contains(v, y) => Contains(w, y)
      /\ \A y : Contains(w, y) /\ y # x => Contains(v, y)
      /\ Contains(w, x)
  BY <1>1, <1>2, TailOfWire DEF WireOK
<1> DEFINE r == Len(got[e])  q == Len(s.rcvq)  d == DataLen(w)  dd == DataLen(v)  n == accepted[p]
<1>4. r \in Nat /\ q \in Nat /\ d \in Nat /\ dd \in Nat /\ n \in Nat
  <2>1. r \in Nat /\ q \in Nat /\ d \in Nat /\ n \in Nat
    BY <1>2, Lengths, Typed
  <2>2. IsDataLen(v, dd)
    BY <1>3, DataLenExists
  <2>3. dd \in Nat
    BY <2>2 DEF IsDataLen
  <2> QED BY <2>1, <2>3
<1>5. /\ \A i \in 1..r : got[e][i] = i
      /\ \A i \in 1..q : s.rcvq[i] = r + i
      /\ r + q <= n
      /\ \A i \in 1..d : w[i] = r + q + i
      /\ r + q + d <= n
      /\ Contains(w, FIN) \/ ~Contains(w, RST) => r + q + d = n
      /\ s.finRcvd => d = 0 /\ r + q = n
  BY <1>2 DEF InOrder
<1> HIDE DEF x, v
<1> DEFINE t == kernel'[e]  qq == Len(t.rcvq)
<1>6. /\ kernel' \in [Ends -> KernelType] /\ kernel'[p] = kernel[p]
      /\ t.shutRd = s.shutRd /\ t.shutWr = s.shutWr
      /\ t.state = "connected" => t.err = "none"
      /\ t.state \in {"connected", "reset"}
      /\ s.rcvq # <<>> => t.rcvq # <<>>
      /\ s.finRcvd => t.finRcvd
      /\ s.finRcvd => t.state # "connected" \/ t.rcvq = s.rcvq
      /\ t.finRcvd \/ t.state = "reset" => PeerGone(e)
      /\ qq \in Nat /\ \A i \in 1..qq : t.rcvq[i] = r + i
      /\ r + qq <= n
      /\ t.state = "connected" =>
           /\ r + qq + dd = r + q + d
           /\ t.finRcvd => dd = 0 /\ r + qq = n
  <2>1. kernel \in [Ends -> KernelType] /\ s.state = "connected" /\ s.err = "none"
    BY <1>2 DEF TypeOK, SocketOK
  <2>2. (Contains(w, FIN) \/ Contains(w, RST) \/ s.finRcvd => PeerGone(e))
    BY <1>2 DEF WireOK
  <2>3. CASE x = FIN
    <3> DEFINE u == [s EXCEPT !.finRcvd = TRUE]
    <3>1. kernel' = [kernel EXCEPT ![e] = u]
      BY <1>1, <2>3, ByteOrControl
    <3>2. /\ u \in KernelType /\ u.rcvq = s.rcvq /\ u.state = "connected" /\ u.finRcvd = TRUE
          /\ u.shutRd = s.shutRd /\ u.shutWr = s.shutWr /\ u.err = "none"
      BY <1>2, <2>1, SetFinRcvd
    <3> HIDE DEF u
    <3>3. kernel' \in [Ends -> KernelType] /\ kernel'[p] = kernel[p] /\ t = u
      BY <1>2, <2>1, <3>1, <3>2
    <3>4. d = 0 /\ dd = 0 /\ Contains(w, FIN)
      BY <1>3, <2>3, ByteOrControl
    <3> HIDE DEF d, dd, n, r, q
    <3>5. r + q = n
      BY <1>4, <1>5, <3>4
    <3>6. qq = q
      BY <3>2, <3>3 DEF q
    <3> HIDE DEF qq
    <3> QED BY <1>4, <1>5, <2>2, <3>2, <3>3, <3>4, <3>5, <3>6
  <2>4. CASE x = RST
    <3> DEFINE err == IF s.finRcvd /\ ~s.shutWr THEN "EPIPE" ELSE "ECONNRESET"
               u == [s EXCEPT !.state = "reset", !.err = err]
    <3>1. kernel' = [kernel EXCEPT ![e] = u]
      BY <1>1, <2>4, ByteOrControl
    <3>2. /\ u \in KernelType /\ u.rcvq = s.rcvq /\ u.state = "reset" /\ u.finRcvd = s.finRcvd
          /\ u.shutRd = s.shutRd /\ u.shutWr = s.shutWr
      <4>1. err \in Errors
        BY DEF Errors
      <4> HIDE DEF err
      <4> QED BY <1>2, <4>1, SetReset
    <3> HIDE DEF u
    <3>3. kernel' \in [Ends -> KernelType] /\ kernel'[p] = kernel[p] /\ t = u
      BY <1>2, <2>1, <3>1, <3>2
    <3>4. Contains(w, RST)
      BY <1>3, <2>4
    <3> HIDE DEF d, dd, n, r
    <3> QED BY <1>4, <1>5, <2>2, <3>2, <3>3, <3>4
  <2>5. CASE x # FIN /\ x # RST
    <3> DEFINE tq == Append(s.rcvq, x)  u == [s EXCEPT !.rcvq = tq]
    <3>1. kernel' = [kernel EXCEPT ![e] = u]
      BY <1>1, <2>5
    <3>2. IsByte(x) /\ x \in Bytes /\ d = dd + 1
      BY <1>3, <2>5, ByteOrControl DEF IsByte
    <3>3. /\ tq \in Seq(Bytes) /\ Len(tq) = q + 1 /\ tq # <<>>
          /\ \A i \in 1..q : tq[i] = s.rcvq[i]
          /\ tq[q + 1] = x
      BY <1>2, <3>2
    <3> HIDE DEF tq
    <3>4. /\ u \in KernelType /\ u.rcvq = tq /\ u.state = "connected" /\ u.finRcvd = s.finRcvd
          /\ u.shutRd = s.shutRd /\ u.shutWr = s.shutWr /\ u.err = "none"
      BY <1>2, <2>1, <3>3, SetRcvq
    <3> HIDE DEF u
    <3>5. kernel' \in [Ends -> KernelType] /\ kernel'[p] = kernel[p] /\ t = u
      BY <1>2, <2>1, <3>1, <3>4
    <3> HIDE DEF d, dd, n, r, q
    <3>6. x = r + (q + 1) /\ ~s.finRcvd /\ r + (q + 1) <= n
      <4>1. 1 \in 1..d
        BY <1>4, <3>2
      <4>2. w[1] = r + q + 1
        BY <1>5, <4>1
      <4> QED BY <1>3, <1>4, <1>5, <3>2, <4>2
    <3>7. \A i \in 1..(q + 1) : tq[i] = r + i
      <4>1. tq[q + 1] = r + (q + 1) /\ \A i \in 1..q : tq[i] = r + i
        BY <1>5, <3>3, <3>6 DEF q
      <4> QED BY <1>4, <4>1
    <3>9. qq = q + 1
      BY <3>3, <3>4, <3>5 DEF q
    <3> HIDE DEF qq
    <3>8. r + (q + 1) + dd = r + q + d
      BY <1>4, <3>2
    <3> QED BY <1>4, <2>2, <3>3, <3>4, <3>5, <3>6, <3>7, <3>8, <3>9
  <2> QED BY <2>3, <2>4, <2>5
<1>7. wire' \in [Ends -> Seq(Segments)] /\ wire'[e] = v /\ wire'[p] = wire[p]
  BY <1>1, <1>2, <1>3 DEF TypeOK, Segments
<1>8. TypeOK'
  BY <1>1, <1>6, <1>7 DEF TypeOK, Segments
<1>9. CallOK(e)'
  <2>1. CallOK(e) /\ HasConnection(e)
    BY DEF EndsOK, HasConnection
  <2> QED BY <1>1, <1>6, <2>1, CallStays
<1>10. InOrder(e)'
  <2> HIDE DEF r, q, d, dd, n
  <2>1. t.state = "connected" => \A i \in 1..dd : v[i] = r + qq + i
    <3> SUFFICES ASSUME t.state = "connected", NEW i \in 1..dd PROVE v[i] = r + qq + i
      OBVIOUS
    <3>1. v[i] = w[i + 1]
      BY <1>3 DEF dd
    <3>2. dd # 0 /\ IsByte(x)
      BY <1>3, <1>4 DEF dd
    <3>3. d = dd + 1
      BY <1>3, <3>2 DEF d, dd
    <3>4. i + 1 \in 1..d /\ i \in Nat
      BY <1>4, <3>3
    <3>5. w[i + 1] = r + q + (i + 1)
      BY <1>5, <3>4
    <3>6. qq \in Nat /\ r + qq + dd = r + q + d
      BY <1>6
    <3> HIDE DEF qq
    <3>7. qq = q + 1
      BY <1>4, <3>3, <3>6
    <3> QED BY <1>4, <3>1, <3>4, <3>5, <3>7
  <2>2. t.state = "connected" => x # RST
    BY <1>1, <1>2, ByteOrControl DEF TypeOK, KernelType
  <2>3. t.state = "connected" =>
          /\ r + qq + dd <= n
          /\ Contains(v, FIN) \/ ~Contains(v, RST) => r + qq + dd = n
    BY <1>3, <1>5, <1>6, <2>2
  <2>4. InOrder(e)' <=>
          /\ \A i \in 1..r : got[e][i] = i
          /\ \A i \in 1..qq : t.rcvq[i] = r + i
          /\ r + qq <= n
          /\ t.state = "connected" =>
               /\ \A i \in 1..dd : v[i] = r + qq + i
               /\ r + qq + dd <= n
               /\ Contains(v, FIN) \/ ~Contains(v, RST) => r + qq + dd = n
               /\ t.finRcvd => dd = 0 /\ r + qq = n
    BY <1>1, <1>7 DEF InOrder, r, n, dd
  <2> QED BY <1>5, <1>6, <2>1, <2>3, <2>4
<1>11. ConnOK(e)'
  <2>1. ConnOK(e) /\ (PeerGone(e) => PeerGone(e)') /\ HasConnection(e)
    BY <1>6 DEF EndsOK, PeerGone, HasConnection
  <2>2. SocketOK(e)'
    BY <1>6 DEF SocketOK
  <2>3. WireOK(e)'
    BY <1>3, <1>6, <1>7, <2>1 DEF ConnOK, WireOK
  <2> QED BY <1>1, <1>6, <1>10, <2>1, <2>2, <2>3 DEF ConnOK
<1>12. CallOK(p)' /\ ConnOK(p)'
  <2>1. CallOK(p) /\ ConnOK(p) /\ (HasConnection(p)' => HasConnection(p))
    BY <1>2, <1>6 DEF EndsOK, HasConnection
  <2>2. PeerGone(p) => PeerGone(p)'
    BY <1>2, <1>6 DEF PeerGone
  <2>3. CallOK(p)'
    BY <1>1, <1>2, <1>6, <2>1, CallStays
  <2>4. ConnOK(p)'
    BY <1>1, <1>2, <1>6, <1>7, <2>1, <2>2, ConnStays
  <2> QED BY <2>3, <2>4
<1> QED BY <1>8, <1>9, <1>11, <1>12, BothEnds
(* A segment arrives at a socket without a connection.                     *)
LEMMA DroppedStep ==
  ASSUME TypeOK, EndsOK, NEW e \in Ends, Deliver(e), kernel[e].state # "connected"
  PROVE  TypeOK' /\ EndsOK'
<1> DEFINE w == wire[e]  v == Tail(w)  p == Peer(e)  u == Append(wire[p], RST)
<1>1. /\ w # <<>>
      /\ \/ /\ kernel[e].state \in {"absent", "unconnected"}
            /\ wire' = [wire EXCEPT ![e] = v, ![p] = u]
         \/ wire' = [wire EXCEPT ![e] = v]
      /\ UNCHANGED <<kernel, peerDisconnected, call, accepted, got>>
  BY DEF Deliver
<1>2. /\ p \in Ends /\ p # e /\ Peer(p) = e
      /\ CallOK(e) /\ ConnOK(e) /\ CallOK(p) /\ ConnOK(p)
      /\ w \in Seq(Segments) /\ wire[p] \in Seq(Segments) /\ BytesFirst(w)
  BY EndsFacts, Typed DEF EndsOK, ConnOK, WireOK
<1>3. v \in Seq(Segments) /\ BytesFirst(v) /\ \A y : Contains(v, y) => Contains(w, y)
  BY <1>1, <1>2, TailOfWire
<1>4. u \in Seq(Segments) /\ Ended(p, u)
  <2>1. Len(wire[p]) \in 0..Len(wire[p]) /\ SubSeq(wire[p], 1, Len(wire[p])) = wire[p]
    BY <1>2
  <2>2. WithRST(wire[p], Len(wire[p])) = u
    BY <2>1 DEF WithRST
  <2> QED BY <1>2, <2>1, <2>2, RSTSent DEF Ended
<1> HIDE DEF v, u
<1>5. /\ wire' \in [Ends -> Seq(Segments)] /\ wire'[e] = v
      /\ \/ wire'[p] = wire[p]
         \/ wire'[p] = u /\ kernel[e].state \in {"absent", "unconnected"}
  <2>1. wire \in [Ends -> Seq(Segments)]
    BY DEF TypeOK, Segments
  <2> QED BY <1>1, <1>2, <1>3, <1>4, <2>1
<1>6. TypeOK'
  BY <1>1, <1>5 DEF TypeOK, Segments
<1>7. CallOK(e)' /\ CallOK(p)'
  <2>1. (HasConnection(e)' => HasConnection(e)) /\ (HasConnection(p)' => HasConnection(p))
    BY <1>1 DEF HasConnection
  <2>2. CallOK(e)'
    BY <1>1, <1>2, <2>1, CallStays
  <2>3. CallOK(p)'
    BY <1>1, <1>2, <2>1, CallStays
  <2> QED BY <2>2, <2>3
<1>8. (PeerGone(e) => PeerGone(e)') /\ (PeerGone(p) => PeerGone(p)')
  BY <1>1 DEF PeerGone
<1>9. ConnOK(e)'
  <2>1. SocketOK(e)' /\ InOrder(e)'
    BY <1>1, <1>2 DEF ConnOK, SocketOK, InOrder
  <2>2. WireOK(e)'
    BY <1>1, <1>2, <1>3, <1>5, <1>8 DEF ConnOK, WireOK
  <2> QED BY <1>1, <1>2, <1>8, <2>1, <2>2 DEF ConnOK, HasConnection
<1>10. ConnOK(p)'
  <2>1. CASE wire'[p] = wire[p]
    BY <1>1, <1>2, <1>8, <2>1, ConnStays
  <2>2. CASE wire'[p] = u /\ kernel[e].state \in {"absent", "unconnected"}
    <3>1. PeerGone(p)'
      BY <1>1, <1>2, <2>2 DEF PeerGone
    <3> QED BY <1>1, <1>2, <1>4, <2>2, <3>1, PeerLeft
  <2> QED BY <1>5, <2>1, <2>2
<1> QED BY <1>6, <1>7, <1>9, <1>10, BothEnds

LEMMA GiveUpFacts ==
  ASSUME TypeOK, EndsOK, NEW e \in Ends, NEW abort, GiveUp(e, abort)
  PROVE  /\ wire' \in [Ends -> Seq(Segments)]
         /\ wire'[e] = wire[e] \/ wire'[e] = <<>>
         /\ Ended(Peer(e), wire'[Peer(e)])
<1> DEFINE p == Peer(e)
<1>1. /\ p \in Ends /\ p # e /\ ConnOK(p)
      /\ wire \in [Ends -> Seq(Segments)]
  BY EndsFacts DEF EndsOK, TypeOK, Segments
<1>2. ASSUME NEW kept \in 0..Len(wire[p]),
             wire' = [wire EXCEPT ![p] = WithRST(@, kept), ![e] = <<>>]
      PROVE  /\ wire' \in [Ends -> Seq(Segments)] /\ wire'[e] = <<>> /\ Ended(p, wire'[p])
  <2> DEFINE v == WithRST(wire[p], kept)
  <2>1. Ended(p, v) /\ v \in Seq(Segments)
    BY <1>1, RSTSent DEF Ended
  <2> HIDE DEF v
  <2>2. wire' = [wire EXCEPT ![p] = v, ![e] = <<>>]
    BY <1>2 DEF v
  <2>3. <<>> \in Seq(Segments)
    OBVIOUS
  <2> QED BY <1>1, <2>1, <2>2, <2>3
<1>3. ASSUME CanSend(e), wire' = [wire EXCEPT ![p] = Append(@, FIN)]
      PROVE  /\ wire' \in [Ends -> Seq(Segments)] /\ wire'[e] = wire[e] /\ Ended(p, wire'[p])
  <2> DEFINE v == Append(wire[p], FIN)
  <2>1. Ended(p, v) /\ v \in Seq(Segments)
    BY <1>1, <1>3, FINSent DEF Ended
  <2> HIDE DEF v
  <2>2. wire' = [wire EXCEPT ![p] = v]
    BY <1>3 DEF v
  <2> QED BY <1>1, <2>1, <2>2
<1>4. ASSUME UNCHANGED wire
      PROVE  /\ wire' \in [Ends -> Seq(Segments)] /\ wire'[e] = wire[e] /\ Ended(p, wire'[p])
  BY <1>1, <1>4, NothingSent
<1>5. \/ \E kept \in 0..Len(wire[p]) : wire' = [wire EXCEPT ![p] = WithRST(@, kept), ![e] = <<>>]
      \/ CanSend(e) /\ wire' = [wire EXCEPT ![p] = Append(@, FIN)]
      \/ UNCHANGED wire
  BY DEF GiveUp, CanSend
<1> QED BY <1>2, <1>3, <1>4, <1>5

(* An end closes its socket, or takes its connection away from it.         *)
LEMMA LeaveStep ==
  ASSUME TypeOK, EndsOK, NEW e \in Ends, NEW abort, GiveUp(e, abort),
         NEW t \in KernelType, t.state \in {"absent", "unconnected"},
         t.rcvq = <<>>, ~t.finRcvd, kernel' = [kernel EXCEPT ![e] = t],
         call' \in [Ends -> CallType], \A f \in Ends : f # e => call'[f] = call[f],
         call'[e].pc \in {"idle", "killed"},
         peerDisconnected' \in [Ends -> BOOLEAN],
         \A f \in Ends : f # e => peerDisconnected'[f] = peerDisconnected[f],
         accepted' = accepted, got' = got
  PROVE  TypeOK' /\ EndsOK'
<1> DEFINE p == Peer(e)
<1>1. /\ p \in Ends /\ p # e /\ Peer(p) = e /\ CallOK(p) /\ ConnOK(p) /\ ConnOK(e)
      /\ kernel \in [Ends -> KernelType]
  BY EndsFacts DEF EndsOK, TypeOK
<1>2. kernel' \in [Ends -> KernelType] /\ kernel'[e] = t /\ kernel'[p] = kernel[p]
  BY <1>1
<1>3. /\ wire' \in [Ends -> Seq(Segments)]
      /\ wire'[e] = wire[e] \/ wire'[e] = <<>>
      /\ Ended(p, wire'[p])
  BY GiveUpFacts
<1>4. TypeOK'
  BY <1>2, <1>3 DEF TypeOK, Segments
<1>5. CallOK(e)'
  BY DEF CallOK, SendingOK, ReceivingOK, ZeroOK, AtEnd, ReceiveReturned
<1>6. CallOK(p)'
  <2>1. HasConnection(p)' => HasConnection(p)
    BY <1>2 DEF HasConnection
  <2> QED BY <1>1, <1>2, <2>1, CallStays
<1>7. ConnOK(p)'
  <2>1. PeerGone(p)'
    BY <1>1, <1>2 DEF PeerGone
  <2> QED BY <1>1, <1>2, <1>3, <2>1, PeerLeft
<1>8. ConnOK(e)'
  <2>1. PeerGone(e) => PeerGone(e)'
    BY <1>2 DEF PeerGone
  <2>2. BytesFirst(wire'[e]) /\ \A y : Contains(wire'[e], y) => Contains(wire[e], y)
    BY <1>1, <1>3, EmptyWire DEF ConnOK, WireOK
  <2>3. WireOK(e)'
    BY <1>1, <1>2, <2>1, <2>2 DEF ConnOK, WireOK
  <2>4. SocketOK(e)' /\ ~HasConnection(e)'
    BY <1>2 DEF SocketOK, HasConnection
  <2>5. InOrder(e)'
    <3> DEFINE r == Len(got[e])  q == Len(kernel[e].rcvq)  n == accepted[p]
    <3>1. r \in Nat /\ q \in Nat /\ n \in Nat
      BY <1>1, Lengths, Typed
    <3>2. (\A i \in 1..r : got[e][i] = i) /\ r + q <= n
      BY <1>1 DEF ConnOK, InOrder
    <3>3. Len(t.rcvq) = 0
      OBVIOUS
    <3> HIDE DEF r, q, n
    <3>4. r + 0 <= n
      BY <3>1, <3>2
    <3>5. kernel'[e] = t /\ t.state # "connected" /\ got'[e] = got[e] /\ accepted'[p] = accepted[p]
      BY <1>2
    <3>6. InOrder(e)' <=> /\ \A i \in 1..r : got[e][i] = i
                          /\ \A i \in 1..Len(t.rcvq) : t.rcvq[i] = r + i
                          /\ r + Len(t.rcvq) <= n
      BY <3>5 DEF InOrder, r, n
    <3> QED BY <3>2, <3>3, <3>4, <3>6
  <2> QED BY <2>3, <2>4, <2>5 DEF ConnOK
<1> QED BY <1>4, <1>5, <1>6, <1>7, <1>8, BothEnds
LEMMA NoCallMade ==
  ASSUME TypeOK, NEW e \in Ends, call' = [call EXCEPT ![e] = NoCall]
  PROVE  /\ call' \in [Ends -> CallType] /\ \A f \in Ends : f # e => call'[f] = call[f]
         /\ call'[e].pc = "idle"
<1>1. call \in [Ends -> CallType] /\ NoCall.pc = "idle"
  BY DEF TypeOK, NoCall
<1> QED BY <1>1, NoCallType

LEMMA SendFailsStep ==
  ASSUME TypeOK, EndsOK, NEW e \in Ends, SendFails(e)
  PROVE  TypeOK' /\ EndsOK'
<1>1. CASE SigPipe = "kills" /\ kernel[e].err # "ECONNRESET"
  <2>1. /\ GiveUp(e, kernel[e].rcvq # <<>>)
        /\ kernel' = [kernel EXCEPT ![e] = NewSocket("absent")]
        /\ call' = [call EXCEPT ![e].pc = "killed"]
        /\ UNCHANGED <<peerDisconnected, accepted, got>>
    BY <1>1 DEF SendFails
  <2>2. /\ call' \in [Ends -> CallType] /\ \A f \in Ends : f # e => call'[f] = call[f]
        /\ call'[e].pc = "killed" /\ peerDisconnected \in [Ends -> BOOLEAN]
    BY <2>1 DEF TypeOK, CallType
  <2> QED BY <2>1, <2>2, NewSocketFacts, LeaveStep
<1>2. CASE ~(SigPipe = "kills" /\ kernel[e].err # "ECONNRESET")
  BY <1>2, SendErrorStep DEF SendFails
<1> QED BY <1>1, <1>2

LEMMA DestroyStep ==
  ASSUME TypeOK, EndsOK, NEW e \in Ends, Destroy(e)
  PROVE  TypeOK' /\ EndsOK'
<1>1. /\ GiveUp(e, kernel[e].rcvq # <<>>)
      /\ kernel' = [kernel EXCEPT ![e] = NewSocket("absent")]
      /\ call' = [call EXCEPT ![e] = NoCall]
      /\ UNCHANGED <<peerDisconnected, accepted, got>>
      /\ peerDisconnected \in [Ends -> BOOLEAN]
  BY DEF Destroy, TypeOK
<1> QED BY <1>1, NoCallMade, NewSocketFacts, LeaveStep

LEMMA DisconnectStep ==
  ASSUME TypeOK, EndsOK, NEW e \in Ends, Disconnect(e)
  PROVE  TypeOK' /\ EndsOK'
<1> DEFINE aborts == kernel[e].state = "connected" /\ ~(kernel[e].shutWr /\ kernel[e].finRcvd)
           err == IF aborts THEN "ECONNRESET" ELSE "none"
           s == NewSocket("unconnected")
           t == [s EXCEPT !.err = err]
<1>1. /\ GiveUp(e, aborts)
      /\ kernel' = [kernel EXCEPT ![e] = t]
      /\ call' = [call EXCEPT ![e] = NoCall]
      /\ UNCHANGED <<accepted, got>>
      /\ UNCHANGED peerDisconnected \/ peerDisconnected' = [peerDisconnected EXCEPT ![e] = FALSE]
  BY DEF Disconnect
<1>2. t \in KernelType /\ t.state = "unconnected" /\ t.rcvq = <<>> /\ ~t.finRcvd
  <2>1. err \in Errors
    BY DEF Errors
  <2>2. s \in KernelType /\ s.state = "unconnected" /\ s.rcvq = <<>> /\ ~s.finRcvd
    BY NewSocketFacts
  <2> HIDE DEF err, s
  <2> QED BY <2>1, <2>2, SetErr
<1>3. /\ peerDisconnected' \in [Ends -> BOOLEAN]
      /\ \A f \in Ends : f # e => peerDisconnected'[f] = peerDisconnected[f]
  BY <1>1 DEF TypeOK
<1> HIDE DEF t, aborts
<1> QED BY <1>1, <1>2, <1>3, NoCallMade, LeaveStep

LEMMA CreateStep ==
  ASSUME TypeOK, EndsOK, Create
  PROVE  TypeOK' /\ EndsOK'
<1>1. /\ kernel[Client].state = "absent"
      /\ kernel' = [kernel EXCEPT ![Client] = NewSocket("unconnected")]
      /\ peerDisconnected' = [peerDisconnected EXCEPT ![Client] = FALSE]
      /\ call' = [call EXCEPT ![Client] = NoCall]
      /\ UNCHANGED <<wire, accepted, got>>
      /\ Client \in Ends
  BY DEF Create, Ends
<1>2. GiveUp(Client, FALSE)
  BY <1>1 DEF GiveUp
<1>3. /\ peerDisconnected' \in [Ends -> BOOLEAN]
      /\ \A f \in Ends : f # Client => peerDisconnected'[f] = peerDisconnected[f]
  BY <1>1 DEF TypeOK
<1> QED BY <1>1, <1>2, <1>3, NoCallMade, NewSocketFacts, LeaveStep

LEMMA ShutdownStep ==
  ASSUME TypeOK, EndsOK, NEW e \in Ends, NEW type, Shutdown(e, type)
  PROVE  TypeOK' /\ EndsOK'
<1> DEFINE p == Peer(e)  s == kernel[e]
           wr == type \in {"STOP_SEND", "STOP_BOTH"}
           rd == type \in {"STOP_RECEIVE", "STOP_BOTH"}
           newRd == s.shutRd \/ rd
           newWr == s.shutWr \/ wr
           t == [s EXCEPT !.shutRd = newRd, !.shutWr = newWr]
           v == Append(wire[p], FIN)
<1>1. /\ s.state = "connected"
      /\ kernel' = [kernel EXCEPT ![e].shutRd = @ \/ rd, ![e].shutWr = @ \/ wr]
      /\ wire' = IF wr /\ ~s.shutWr THEN [wire EXCEPT ![p] = v] ELSE wire
      /\ UNCHANGED <<peerDisconnected, call, accepted, got>>
  BY DEF Shutdown
<1>2. /\ p \in Ends /\ p # e /\ Peer(p) = e
      /\ CallOK(e) /\ ConnOK(e) /\ CallOK(p) /\ ConnOK(p)
      /\ kernel \in [Ends -> KernelType] /\ wire \in [Ends -> Seq(Segments)]
      /\ s \in KernelType /\ s.shutRd \in BOOLEAN /\ s.shutWr \in BOOLEAN
  BY EndsFacts, Typed DEF EndsOK, TypeOK, Segments
<1>3. /\ t \in KernelType /\ t.rcvq = s.rcvq
      /\ t.state = s.state /\ t.finRcvd = s.finRcvd
      /\ s.shutRd => t.shutRd
      /\ t.shutWr <=> s.shutWr \/ wr
      /\ t.err = s.err /\ t.staleFlag = s.staleFlag
  <2>1. newRd \in BOOLEAN /\ newWr \in BOOLEAN
    BY Zenon
  <2>2. (s.shutRd => newRd) /\ (newWr <=> s.shutWr \/ wr)
    BY Zenon
  <2>3. PICK a \in BOOLEAN, b \in BOOLEAN : a = newRd /\ b = newWr
    BY <2>1
  <2>4. t = [s EXCEPT !.shutRd = a, !.shutWr = b]
    BY <2>3
  <2> DEFINE u == [s EXCEPT !.shutRd = a, !.shutWr = b]
  <2>5. /\ u \in KernelType /\ u.rcvq = s.rcvq
        /\ u.state = s.state /\ u.finRcvd = s.finRcvd
        /\ u.shutRd = a /\ u.shutWr = b /\ u.err = s.err
        /\ u.staleFlag = s.staleFlag
    <3>1. s \in KernelType
      BY <1>2
    <3> HIDE DEF s
    <3>2. u \in KernelType
      BY <3>1 DEF KernelType
    <3> QED BY <3>1, <3>2 DEF KernelType
  <2> HIDE DEF t, u, newRd, newWr, wr, rd
  <2> QED BY <2>2, <2>3, <2>4, <2>5 DEF u
<1>4. kernel' = [kernel EXCEPT ![e] = t]
  BY <1>1, <1>2
<1> HIDE DEF t
<1>5. kernel' \in [Ends -> KernelType] /\ kernel'[e] = t /\ kernel'[p] = kernel[p]
  BY <1>2, <1>3, <1>4
<1>6. /\ wire' \in [Ends -> Seq(Segments)] /\ wire'[e] = wire[e]
      /\ wire'[p] = wire[p] \/ (Ended(p, wire'[p]) /\ t.shutWr)
  <2>1. CASE wr /\ ~s.shutWr
    <3>1. CanSend(e)
      BY <1>1, <2>1 DEF CanSend
    <3>2. Ended(p, v) /\ v \in Seq(Segments)
      BY <1>2, <3>1, FINSent DEF Ended
    <3> HIDE DEF v
    <3> QED BY <1>1, <1>2, <1>3, <2>1, <3>2
  <2>2. CASE ~(wr /\ ~s.shutWr)
    BY <1>1, <1>2, <2>2
  <2> QED BY <2>1, <2>2
<1>7. TypeOK'
  BY <1>1, <1>5, <1>6 DEF TypeOK, Segments
<1>8. CallOK(e)' /\ CallOK(p)'
  <2>1. (HasConnection(e)' => HasConnection(e)) /\ (HasConnection(p)' => HasConnection(p))
    BY <1>3, <1>5 DEF HasConnection
  <2>2. CallOK(e)'
    BY <1>1, <1>2, <1>3, <1>5, <2>1, CallStays
  <2>3. CallOK(p)'
    BY <1>1, <1>2, <1>5, <2>1, CallStays
  <2> QED BY <2>2, <2>3
<1>9. ConnOK(e)'
  <2>1. PeerGone(e) => PeerGone(e)'
    BY <1>5 DEF PeerGone
  <2>2. SocketOK(e)'
    BY <1>2, <1>3, <1>5 DEF ConnOK, SocketOK
  <2>3. WireOK(e)'
    BY <1>2, <1>3, <1>5, <1>6, <2>1 DEF ConnOK, WireOK
  <2>4. InOrder(e)'
    <3>1. /\ kernel'[e].rcvq = kernel[e].rcvq /\ kernel'[e].state = kernel[e].state
          /\ kernel'[e].finRcvd = kernel[e].finRcvd
          /\ wire'[e] = wire[e] /\ got' = got /\ accepted' = accepted
      BY <1>1, <1>3, <1>5, <1>6
    <3>2. InOrder(e)
      BY <1>2 DEF ConnOK
    <3> QED BY <3>1, <3>2 DEF InOrder
  <2> QED BY <1>1, <1>2, <1>3, <1>5, <2>1, <2>2, <2>3, <2>4 DEF ConnOK, HasConnection
<1>10. ConnOK(p)'
  <2>1. PeerGone(p) => PeerGone(p)'
    BY <1>2, <1>3, <1>5 DEF PeerGone
  <2>2. CASE wire'[p] = wire[p]
    BY <1>1, <1>2, <1>5, <2>1, <2>2, ConnStays
  <2>3. CASE Ended(p, wire'[p]) /\ t.shutWr
    <3>1. PeerGone(p)'
      BY <1>2, <1>5, <2>3 DEF PeerGone
    <3> QED BY <1>1, <1>2, <1>5, <2>3, <3>1, PeerLeft
  <2> QED BY <1>6, <2>2, <2>3
<1> QED BY <1>7, <1>8, <1>9, <1>10, BothEnds

(* Nothing has been done yet, or all is new after connect().               *)
AllFresh ==
  /\ peerDisconnected \in [Ends -> BOOLEAN]
  /\ kernel \in [Ends -> {NewSocket(st) : st \in {"absent", "unconnected", "connected"}}
                         \cup {[NewSocket("connected") EXCEPT !.staleFlag = b] : b \in BOOLEAN}]
  /\ \A e \in Ends : peerDisconnected[e] => kernel[e].staleFlag
  /\ wire = [e \in Ends |-> <<>>]
  /\ call \in [Ends -> {NoCall, [NoCall EXCEPT !.pc = "threw"]}]
  /\ accepted = [e \in Ends |-> 0]
  /\ got = [e \in Ends |-> <<>>]

LEMMA SetStaleFlag ==
  ASSUME NEW b \in BOOLEAN
  PROVE  LET t == [NewSocket("connected") EXCEPT !.staleFlag = b] IN
         /\ t \in KernelType /\ t.rcvq = <<>>
         /\ t.state = "connected" /\ t.finRcvd = FALSE
         /\ t.shutRd = FALSE /\ t.shutWr = FALSE /\ t.err = "none"
         /\ t.staleFlag = b
<1> DEFINE s == NewSocket("connected")
<1>1. /\ s \in KernelType /\ s.rcvq = <<>> /\ s.state = "connected" /\ s.finRcvd = FALSE
      /\ s.shutRd = FALSE /\ s.shutWr = FALSE /\ s.err = "none"
  BY NewSocketFacts
<1> HIDE DEF s
<1> QED BY <1>1 DEF KernelType, s

LEMMA NoCallThrew ==
  LET c == [NoCall EXCEPT !.pc = "threw"] IN
  c \in CallType /\ c.op = "none" /\ c.pc = "threw" /\ c.done = 0
BY DEF NoCall, CallType

LEMMA FreshSocket ==
  ASSUME AllFresh, NEW e \in Ends
  PROVE  /\ kernel[e] \in KernelType
         /\ kernel[e].rcvq = <<>> /\ ~kernel[e].finRcvd /\ kernel[e].err = "none"
         /\ kernel[e].state # "reset"
<1>1. CASE kernel[e] \in {NewSocket(st) : st \in {"absent", "unconnected", "connected"}}
  BY <1>1, NewSocketFacts
<1>2. CASE kernel[e] \in {[NewSocket("connected") EXCEPT !.staleFlag = b] : b \in BOOLEAN}
  BY <1>2, SetStaleFlag
<1> QED BY <1>1, <1>2 DEF AllFresh

LEMMA FreshOK == AllFresh => TypeOK /\ EndsOK
<1> SUFFICES ASSUME AllFresh PROVE TypeOK /\ EndsOK
  OBVIOUS
<1>1. TypeOK
  <2>1. \A e \in Ends : MaxBytes(e) \in Nat
    BY EndsFacts
  <2>2. kernel \in [Ends -> KernelType]
    BY FreshSocket DEF AllFresh
  <2>3. call \in [Ends -> CallType]
    BY NoCallType, NoCallThrew DEF AllFresh
  <2> QED BY <2>1, <2>2, <2>3 DEF AllFresh, TypeOK
<1>2. ASSUME NEW e \in Ends PROVE CallOK(e) /\ ConnOK(e)
  <2>1. /\ peerDisconnected[e] => kernel[e].staleFlag
        /\ wire[e] = <<>> /\ got[e] = <<>>
        /\ call[e].op = "none" /\ call[e].pc \in {"idle", "threw"}
        /\ accepted[Peer(e)] = 0
    BY EndsFacts, NoCallThrew DEF AllFresh, NoCall
  <2>2. CallOK(e)
    BY <2>1 DEF CallOK, SendingOK, ReceivingOK, ZeroOK, AtEnd, ReceiveReturned
  <2>3. /\ kernel[e].rcvq = <<>> /\ ~kernel[e].finRcvd /\ kernel[e].err = "none"
        /\ kernel[e].state # "reset"
    BY FreshSocket
  <2>4. /\ BytesFirst(wire[e]) /\ DataLen(wire[e]) = 0
        /\ \A y : ~Contains(wire[e], y)
        /\ Len(got[e]) = 0 /\ Len(kernel[e].rcvq) = 0
    BY <2>1, <2>3, EmptyWire
  <2>5. SocketOK(e) /\ WireOK(e)
    BY <2>3, <2>4 DEF SocketOK, WireOK
  <2>6. InOrder(e)
    BY <2>1, <2>3, <2>4 DEF InOrder
  <2> QED BY <2>1, <2>2, <2>5, <2>6 DEF ConnOK
<1> QED BY <1>1, <1>2 DEF EndsOK

LEMMA ConnectStep ==
  ASSUME TypeOK, Connect \/ ConnectInterrupted
  PROVE  TypeOK' /\ EndsOK'
<1>1. AllFresh'
  <2>1. CASE Connect
    BY <2>1 DEF Connect, AllFresh
  <2>2. CASE ConnectInterrupted
    <3> DEFINE stale(e) == e = Client /\ peerDisconnected[Client]
               K == [e \in Ends |-> [NewSocket("connected") EXCEPT !.staleFlag = stale(e)]]
    <3>1. \A e \in Ends : stale(e) \in BOOLEAN
      BY Zenon
    <3> HIDE DEF stale
    <3>2. \A e \in Ends : K[e].staleFlag = stale(e)
      BY <3>1, SetStaleFlag
    <3>3. K \in [Ends -> {[NewSocket("connected") EXCEPT !.staleFlag = b] : b \in BOOLEAN}]
      BY <3>1
    <3> HIDE DEF K
    <3>4. kernel' = K /\ peerDisconnected' = [peerDisconnected EXCEPT ![Session] = FALSE]
      BY <2>2 DEF ConnectInterrupted, K, stale
    <3>5. \A e \in Ends : peerDisconnected'[e] => kernel'[e].staleFlag
      BY <3>2, <3>4 DEF stale, TypeOK, Ends
    <3>6. /\ peerDisconnected' \in [Ends -> BOOLEAN]
          /\ call' \in [Ends -> {NoCall, [NoCall EXCEPT !.pc = "threw"]}]
          /\ wire' = [e \in Ends |-> <<>>]
          /\ accepted' = [e \in Ends |-> 0] /\ got' = [e \in Ends |-> <<>>]
      BY <2>2, <3>4 DEF ConnectInterrupted, TypeOK
    <3> QED BY <3>3, <3>4, <3>5, <3>6 DEF AllFresh
  <2> QED BY <2>1, <2>2
<1>2. (AllFresh => TypeOK /\ EndsOK)'
  BY FreshOK, PTL
<1> QED BY <1>1, <1>2

LEMMA ConnectFailsStep ==
  ASSUME TypeOK, EndsOK, ConnectFails
  PROVE  TypeOK' /\ EndsOK'
<1>1. /\ Client \in Ends
      /\ call' \in [Ends -> CallType] /\ \A f \in Ends : f # Client => call'[f] = call[f]
      /\ call'[Client].op = "none" /\ call'[Client].pc = "threw"
      /\ peerDisconnected' \in [Ends -> BOOLEAN]
  BY NoCallThrew DEF ConnectFails, TypeOK, Ends
<1>2. CallOK(Client)'
  BY <1>1 DEF CallOK, SendingOK, ReceivingOK, ZeroOK, AtEnd, ReceiveReturned
<1> QED BY <1>1, <1>2, CallChanges DEF ConnectFails

-----------------------------------------------------------------------------
(* The theorems.                                                           *)

LEMMA InitOK == Init => TypeOK /\ EndsOK
<1>1. Init => AllFresh
  BY DEF Init, AllFresh
<1> QED BY <1>1, FreshOK

LEMMA NextOK == TypeOK /\ EndsOK /\ [Next]_vars => TypeOK' /\ EndsOK'
<1> SUFFICES ASSUME TypeOK, EndsOK, [Next]_vars
             PROVE  TypeOK' /\ EndsOK'
  OBVIOUS
<1>1. CASE Connect \/ ConnectInterrupted
  BY <1>1, ConnectStep
<1>11. CASE ConnectFails
  BY <1>11, ConnectFailsStep
<1>2. CASE Create
  BY <1>2, CreateStep
<1>3. ASSUME NEW e \in Ends, Deliver(e) PROVE TypeOK' /\ EndsOK'
  BY <1>3, ArrivesStep, DroppedStep
<1>4. ASSUME NEW e \in Ends, CallStep(e) PROVE TypeOK' /\ EndsOK'
  BY <1>4, SendTakesStep, SendFailsStep, PollTimesOutStep, PollReturnsStep,
     RecvTakesStep, RecvEndsStep DEF CallStep
<1>5. ASSUME NEW e \in Ends, StartSend(e) PROVE TypeOK' /\ EndsOK'
  BY <1>5, StartSendStep
<1>6. ASSUME NEW e \in Ends, StartReceive(e) \/ StartTimedReceive(e) PROVE TypeOK' /\ EndsOK'
  BY <1>6, StartReceiveStep
<1>7. ASSUME NEW e \in Ends, Disconnect(e) PROVE TypeOK' /\ EndsOK'
  BY <1>7, DisconnectStep
<1>8. ASSUME NEW e \in Ends, NEW type, Shutdown(e, type) PROVE TypeOK' /\ EndsOK'
  BY <1>8, ShutdownStep
<1>9. ASSUME NEW e \in Ends, Destroy(e) PROVE TypeOK' /\ EndsOK'
  BY <1>9, DestroyStep
<1>10. CASE UNCHANGED vars
  <2>1. TypeOK'
    BY <1>10 DEF vars, TypeOK
  <2>2. ASSUME NEW e \in Ends PROVE CallOK(e)' /\ ConnOK(e)'
    <3>1. /\ CallOK(e) /\ ConnOK(e)
          /\ HasConnection(e)' => HasConnection(e)
          /\ PeerGone(e) => PeerGone(e)'
      BY <1>10 DEF vars, EndsOK, HasConnection, PeerGone
    <3>2. CallOK(e)'
      BY <1>10, <3>1, CallStays DEF vars
    <3>3. ConnOK(e)'
      BY <1>10, <3>1, ConnStays DEF vars
    <3> QED BY <3>2, <3>3
  <2> QED BY <2>1, <2>2 DEF EndsOK
<1> QED BY <1>1, <1>2, <1>3, <1>4, <1>5, <1>6, <1>7, <1>8, <1>9, <1>10, <1>11 DEF Next
(* The inductive invariant holds in every behaviour, whatever the two      *)
(* programs call, the lengths they pass, the size of the kernel's buffers  *)
(* and the width of an int are.                                            *)
THEOREM Inductive == Spec => []IInv
<1>1. IInv <=> TypeOK /\ EndsOK
  BY ByEnds DEF EndsOK
<1> QED BY <1>1, InitOK, NextOK, PTL DEF Spec

(* Every variable keeps its type: no end sends more than it was given, and *)
(* no call leaves done or a return value outside of its range.             *)
THEOREM TypeCorrect == Spec => []TypeOK
<1>1. IInv => TypeOK
  BY DEF IInv
<1> QED BY <1>1, Inductive, PTL

LEMMA Numbered ==
  ASSUME NEW s \in Seq(Bytes), NEW n \in Nat, Len(s) <= n, \A i \in 1..Len(s) : s[i] = i
  PROVE  IsPrefix(s, [i \in 1..n |-> i])
<1> DEFINE t == [i \in 1..n |-> i]
<1>1. t \in Seq(Nat) /\ Len(t) = n /\ \A i \in 1..n : t[i] = i
  OBVIOUS
<1> HIDE DEF t
<1>2. SubSeq(s, 1, Len(s)) = s /\ Len(s) \in Nat
  OBVIOUS
<1>3. SubSeq(t, 1, Len(s)) = s
  <2> DEFINE u == SubSeq(t, 1, Len(s))
  <2>1. u \in Seq(Nat) /\ Len(u) = Len(s) /\ \A i \in 1..Len(s) : u[i] = t[i]
    BY <1>1
  <2>2. \A i \in 1..Len(s) : u[i] = s[i]
    BY <1>1, <2>1
  <2> HIDE DEF u
  <2>3. s \in Seq(Nat)
    <3>1. \A i \in 1..Len(s) : s[i] \in Nat
      BY <1>2
    <3> QED BY <1>2, <3>1
  <2>4. u = s
    BY <2>1, <2>2, <2>3, SeqEqual
  <2> QED BY <2>4 DEF u
<1> QED BY <1>1, <1>2, <1>3 DEF IsPrefix, t

(* Partial ::send()s and recv()s neither lose nor repeat nor reorder a     *)
(* byte, and a connection that was not aborted has them all.               *)
THEOREM Order == Spec => []StreamOrder
<1>1. IInv => StreamOrder
  <2> SUFFICES ASSUME TypeOK, NEW e \in Ends, InOrder(e), WireOK(e)
               PROVE  LET inbound == got[e] \o kernel[e].rcvq \o Data(wire[e])
                          n == accepted[Peer(e)] IN
                      /\ IsPrefix(got[e], [i \in 1..n |-> i])
                      /\ kernel[e].state = "connected" => IsPrefix(inbound, [i \in 1..n |-> i])
                      /\ ~Aborted(e) => Len(inbound) = n
    BY DEF IInv, StreamOrder
  <2> DEFINE g == got[e]  q == kernel[e].rcvq  w == wire[e]  d == DataLen(w)
             b == SubSeq(w, 1, d)  n == accepted[Peer(e)]
             gq == g \o q  inbound == gq \o b
  <2>1. /\ g \in Seq(Bytes) /\ q \in Seq(Bytes) /\ w \in Seq(Segments)
        /\ Len(g) \in Nat /\ Len(q) \in Nat /\ d \in 0..Len(w) /\ n \in Nat
        /\ IsDataLen(w, d) /\ Bytes \subseteq Nat
    BY Typed, Lengths, EndsFacts, DataLenExists
  <2>2. /\ \A i \in 1..Len(g) : g[i] = i
        /\ \A i \in 1..Len(q) : q[i] = Len(g) + i
        /\ Len(g) + Len(q) <= n
        /\ kernel[e].state = "connected" =>
             /\ \A i \in 1..d : w[i] = Len(g) + Len(q) + i
             /\ Len(g) + Len(q) + d <= n
             /\ Contains(w, FIN) \/ ~Contains(w, RST) => Len(g) + Len(q) + d = n
    BY DEF InOrder
  <2> HIDE DEF g, q, n, w, d
  <2>3. IsPrefix(g, [i \in 1..n |-> i])
    <3>1. Len(g) <= n
      BY <2>1, <2>2
    <3> QED BY <2>1, <2>2, <3>1, Numbered
  <2>4. /\ b \in Seq(Bytes) /\ Len(b) = d /\ \A i \in 1..d : b[i] = w[i]
    <3>1. /\ b \in Seq(Segments) /\ Len(b) = d /\ \A i \in 1..d : b[i] = w[i]
      BY <2>1
    <3>2. \A i \in 1..d : b[i] \in Bytes
      BY <2>1, <3>1, ByteOrControl DEF IsDataLen
    <3> QED BY <3>1, <3>2
  <2> HIDE DEF b
  <2>5. /\ gq \in Seq(Bytes) /\ Len(gq) = Len(g) + Len(q)
        /\ \A i \in 1..Len(g) : gq[i] = g[i]
        /\ \A i \in 1..Len(q) : gq[Len(g) + i] = q[i]
    BY <2>1
  <2>6. \A i \in 1..Len(gq) : gq[i] = i
    <3> SUFFICES ASSUME NEW i \in 1..Len(gq) PROVE gq[i] = i
      OBVIOUS
    <3>1. CASE i <= Len(g)
      <4>1. i \in 1..Len(g)
        BY <2>1, <2>5, <3>1
      <4> QED BY <2>2, <2>5, <4>1
    <3>2. CASE i > Len(g)
      <4>1. i - Len(g) \in 1..Len(q) /\ Len(g) + (i - Len(g)) = i
        BY <2>1, <2>5, <3>2
      <4> QED BY <2>2, <2>5, <4>1
    <3> QED BY <2>1, <2>5, <3>1, <3>2
  <2> HIDE DEF gq
  <2>7. /\ inbound \in Seq(Bytes) /\ Len(inbound) = Len(gq) + d
        /\ \A i \in 1..Len(gq) : inbound[i] = gq[i]
        /\ \A i \in 1..d : inbound[Len(gq) + i] = b[i]
    <3>1. gq \in Seq(Bytes) /\ b \in Seq(Bytes) /\ Len(b) = d
      BY <2>4, <2>5
    <3>2. /\ inbound \in Seq(Bytes) /\ Len(inbound) = Len(gq) + Len(b)
          /\ \A i \in 1..Len(gq) : inbound[i] = gq[i]
          /\ \A i \in 1..Len(b) : inbound[Len(gq) + i] = b[i]
      BY <3>1
    <3> HIDE DEF inbound
    <3> QED BY <3>1, <3>2
  <2> HIDE DEF inbound
  <2>8. kernel[e].state = "connected" => IsPrefix(inbound, [i \in 1..n |-> i])
    <3> SUFFICES ASSUME kernel[e].state = "connected"
                 PROVE  IsPrefix(inbound, [i \in 1..n |-> i])
      OBVIOUS
    <3>1. ASSUME NEW i \in 1..Len(inbound) PROVE inbound[i] = i
      <4>1. CASE i <= Len(gq)
        <5>1. i \in 1..Len(gq)
          BY <2>1, <2>5, <2>7, <4>1
        <5> QED BY <2>6, <2>7, <5>1
      <4>2. CASE i > Len(gq)
        <5>1. i - Len(gq) \in 1..d /\ Len(gq) + (i - Len(gq)) = i
          BY <2>1, <2>5, <2>7, <4>2
        <5> QED BY <2>2, <2>4, <2>5, <2>7, <5>1
      <4> QED BY <2>1, <2>5, <2>7, <4>1, <4>2
    <3>2. Len(inbound) <= n
      BY <2>1, <2>2, <2>5, <2>7
    <3> QED BY <2>1, <2>7, <3>1, <3>2, Numbered
  <2>9. ~Aborted(e) => Len(inbound) = n
    BY <2>1, <2>2, <2>5, <2>7 DEF Aborted, w
  <2> QED BY <2>3, <2>8, <2>9 DEF inbound, gq, b, d, w, g, q, n, Data
<1> QED BY <1>1, Inductive, PTL

(* peerDisconnected() blames the peer only if the peer is gone, unless the *)
(* end has stopped receiving itself, or an interrupted connect() left the  *)
(* flag of the connection before.                                          *)
THEOREM FlagIsTrue == Spec => []FlagMeansPeerGone
<1>1. IInv => FlagMeansPeerGone
  BY DEF IInv
<1> QED BY <1>1, Inductive, PTL

(* A timedReceive() that returns 0 before its timeout has set the flag,    *)
(* however the FIN's arrival falls between poll() and recv().              *)
THEOREM ZeroIsExplained == Spec => []ZeroMeansTimeoutOrPeer
<1>1. IInv => ZeroMeansTimeoutOrPeer
  BY DEF IInv
<1> QED BY <1>1, Inductive, PTL

(* receive() and timedReceive() return what they have stored, but for the  *)
(* 1 of a timedReceive() on a socket that has no connection.               *)
THEOREM CountIsTrue == Spec => []CountIsRead
<1>1. IInv => CountIsRead
  BY DEF IInv
<1> QED BY <1>1, Inductive, PTL

(* An end that is told 0 bytes has read all that its peer has sent.        *)
THEOREM NothingAfterZero == Spec => []EndOfStream
<1>1. IInv => EndOfStream
  <2> SUFFICES ASSUME TypeOK, NEW e \in Ends, ZeroOK(e), InOrder(e),
                      call[e].op \in {"receive", "timedReceive"},
                      call[e].pc = "returned" /\ call[e].ret = 0,
                      kernel[e].state = "connected" /\ ~kernel[e].shutRd
               PROVE  Len(got[e]) = accepted[Peer(e)]
    BY DEF IInv, EndOfStream, AtEnd
  <2>1. kernel[e].finRcvd /\ Len(kernel[e].rcvq) = 0
    BY Lengths DEF ZeroOK, AtEnd
  <2>2. Len(got[e]) + Len(kernel[e].rcvq) = accepted[Peer(e)]
    BY <2>1 DEF InOrder
  <2> QED BY <2>1, <2>2, Lengths
<1> QED BY <1>1, Inductive, PTL

(* If the lengths passed to sendAll() fit into an int, what send() and     *)
(* sendAll() return is what they have sent, all of it for sendAll(), or -1 *)
(* with the flag set.                                                      *)
THEOREM Outcome == LensFitInt => (Spec => []SendOutcome)
<1>1. LensFitInt /\ IInv => SendOutcome
  BY DEF IInv
<1> SUFFICES ASSUME LensFitInt PROVE Spec => []SendOutcome
  OBVIOUS
<1>2. IInv => SendOutcome
  BY <1>1
<1> QED BY <1>2, Inductive, PTL
-----------------------------------------------------------------------------
(* The two ends implement ByteStream.                                      *)

Streams == [Promise!Next]_(Promise!vars)

(* What an end e does leaves alone what the other end may send and was     *)
(* told.                                                                   *)
OnlyEnd(e) ==
  \A f \in Ends : f # e => kernel'[f] = kernel[f] /\ call'[f] = call[f]

LEMMA PromiseEnds ==
  /\ Promise!Ends = Ends
  /\ \A e \in Ends : Promise!Other(e) = Peer(e)
BY DEF Promise!Ends, Promise!Other, Ends, Peer

LEMMA Told ==
  ASSUME NEW f \in Ends
  PROVE  /\ CanSend(f) \in BOOLEAN /\ CanSend(f)' \in BOOLEAN
         /\ AtEnd(f) \in BOOLEAN /\ AtEnd(f)' \in BOOLEAN
BY DEF CanSend, AtEnd

LEMMA OthersStay ==
  ASSUME NEW e \in Ends, OnlyEnd(e), NEW f \in Ends, f # e
  PROVE  CanSend(f)' = CanSend(f) /\ AtEnd(f)' = AtEnd(f)
BY DEF OnlyEnd, CanSend, AtEnd

(* A step in which no byte is sent or received, and nobody is told 0.      *)
LEMMA QuietStep ==
  ASSUME NEW e \in Ends, OnlyEnd(e), UNCHANGED <<accepted, got>>,
         CanSend(e)' => CanSend(e), AtEnd(e)' => AtEnd(e)
  PROVE  Streams
<1> DEFINE open == [f \in Ends |-> CanSend(f)]
           atEnd == [f \in Ends |-> AtEnd(f)]
<1>1. \A f \in Ends : f # e => CanSend(f)' = CanSend(f) /\ AtEnd(f)' = AtEnd(f)
  BY OthersStay
<1>2. CASE CanSend(e)' = CanSend(e)
  <2>1. open' = open
    BY <1>1, <1>2
  <2>2. CASE AtEnd(e)' = AtEnd(e)
    <3>1. atEnd' = atEnd
      BY <1>1, <2>2
    <3> QED BY <2>1, <3>1 DEF Streams, Promise!vars
  <2>3. CASE AtEnd(e)' # AtEnd(e)
    <3>1. atEnd' = [atEnd EXCEPT ![e] = FALSE]
      BY <1>1, <2>3, Told
    <3>2. Promise!GoOn(e)
      BY <2>1, <3>1 DEF Promise!GoOn
    <3> QED BY <3>2, PromiseEnds DEF Streams, Promise!Next
  <2> QED BY <2>2, <2>3
<1>3. CASE CanSend(e)' # CanSend(e)
  <2>1. open' = [open EXCEPT ![e] = FALSE]
    BY <1>1, <1>3, Told
  <2>2. atEnd' \in {atEnd, [atEnd EXCEPT ![e] = FALSE]}
    <3>1. AtEnd(e)' = AtEnd(e) \/ AtEnd(e)' = FALSE
      BY Told
    <3> QED BY <1>1, <3>1
  <2>3. Promise!Close(e)
    BY <2>1, <2>2 DEF Promise!Close
  <2> QED BY <2>3, PromiseEnds DEF Streams, Promise!Next
<1> QED BY <1>2, <1>3

(* An end is told 0: its peer is gone, and it has read everything.         *)
LEMMA ToldZero ==
  ASSUME TypeOK', EndsOK', NEW e \in Ends, OnlyEnd(e), UNCHANGED <<accepted, got>>,
         CanSend(e)' = CanSend(e), AtEnd(e)'
  PROVE  Streams
<1> DEFINE open == [f \in Ends |-> CanSend(f)]
           atEnd == [f \in Ends |-> AtEnd(f)]
<1>1. \A f \in Ends : f # e => CanSend(f)' = CanSend(f) /\ AtEnd(f)' = AtEnd(f)
  BY OthersStay
<1>2. Peer(e) \in Ends /\ Peer(e) # e
  BY EndsFacts
<1>3. ZeroOK(e)' /\ WireOK(e)' /\ InOrder(e)'
  BY DEF EndsOK, CallOK, ConnOK
<1>4. kernel'[e].finRcvd /\ kernel'[e].rcvq = <<>> /\ kernel'[e].state = "connected"
  BY <1>3 DEF ZeroOK, AtEnd
<1>5. ~CanSend(Peer(e))
  <2>1. PeerGone(e)'
    BY <1>3, <1>4 DEF WireOK
  <2>2. ~CanSend(Peer(e))'
    BY <2>1 DEF PeerGone, CanSend
  <2> QED BY <1>1, <1>2, <2>2
<1>6. Len(got[e]) = accepted[Peer(e)]
  <2>1. Len(got'[e]) + Len(kernel'[e].rcvq) = accepted'[Peer(e)]
    BY <1>3, <1>4 DEF InOrder
  <2>2. Len(got'[e]) \in Nat
    <3>1. (TypeOK => got \in [Ends -> Seq(Bytes)])'
      BY DEF TypeOK
    <3> QED BY <3>1
  <2> QED BY <1>4, <2>1, <2>2
<1>7. open' = open /\ atEnd' = [atEnd EXCEPT ![e] = TRUE]
  BY <1>1, Told
<1>8. Promise!ReceiveZero(e)
  BY <1>2, <1>5, <1>6, <1>7, PromiseEnds DEF Promise!ReceiveZero
<1> QED BY <1>8, PromiseEnds DEF Streams, Promise!Next

LEMMA SendTakesStreams ==
  ASSUME TypeOK, EndsOK, NEW e \in Ends, SendTakes(e)
  PROVE  Streams
<1> DEFINE open == [f \in Ends |-> CanSend(f)]
           atEnd == [f \in Ends |-> AtEnd(f)]
           c == call[e]
<1>1. c.pc = "send" /\ c.op \in {"send", "sendAll"} /\ CanSend(e) /\ kernel' = kernel /\ got' = got
  BY DEF SendTakes, EndsOK, CallOK, SendingOK
<1>2. PICK n \in 1..(c.len - c.done) :
        /\ accepted' = [accepted EXCEPT ![e] = @ + n]
        /\ IF SentEnough(e, n)
             THEN Return(e, c.done + n, IF c.op = "sendAll" THEN AsInt(c.done + n) ELSE n)
             ELSE call' = [call EXCEPT ![e].done = @ + n]
  BY DEF SendTakes
<1>3. n \in Nat \ {0}
  BY Typed
<1>4. /\ call'[e].op = c.op
      /\ \A f \in Ends : f # e => call'[f] = call[f]
  BY <1>2 DEF Return, TypeOK, CallType
<1>5. \A f \in Ends : CanSend(f)' = CanSend(f) /\ AtEnd(f)' = AtEnd(f)
  <2>1. ~AtEnd(e) /\ ~AtEnd(e)'
    BY <1>1, <1>4 DEF AtEnd
  <2>2. CanSend(e)' = CanSend(e)
    BY <1>1 DEF CanSend
  <2>3. OnlyEnd(e)
    BY <1>1, <1>4 DEF OnlyEnd
  <2> QED BY <2>1, <2>2, <2>3, OthersStay, Told
<1>6. open' = open /\ atEnd' = atEnd
  BY <1>5
<1>7. accepted[e] \in Nat /\ accepted \in [Ends -> Nat]
  BY DEF TypeOK
<1>8. /\ accepted'[e] \in Nat /\ accepted'[e] > accepted[e]
      /\ accepted' = [accepted EXCEPT ![e] = accepted'[e]]
  BY <1>2, <1>3, <1>7
<1>9. Promise!Send(e)
  BY <1>1, <1>6, <1>8 DEF Promise!Send
<1> QED BY <1>9, PromiseEnds DEF Streams, Promise!Next

LEMMA RecvTakesStreams ==
  ASSUME TypeOK, EndsOK, NEW e \in Ends, RecvTakes(e)
  PROVE  Streams
<1> DEFINE open == [f \in Ends |-> CanSend(f)]
           atEnd == [f \in Ends |-> AtEnd(f)]
           c == call[e]
           q == kernel[e].rcvq
           n == IF c.len - c.done < Len(q) THEN c.len - c.done ELSE Len(q)
           r == Len(got[e])
<1>1. /\ c.pc = "recv" /\ q # <<>> /\ accepted' = accepted
      /\ got' = [got EXCEPT ![e] = @ \o SubSeq(q, 1, n)]
      /\ kernel' = [kernel EXCEPT ![e].rcvq = SubSeq(@, n + 1, Len(@))]
      /\ \/ call' = [call EXCEPT ![e].done = @ + n]
         \/ Return(e, c.done + n, c.done + n)
  BY DEF RecvTakes
<1>2. InOrder(e) /\ c.done < c.len
  BY <1>1 DEF EndsOK, CallOK, ConnOK, ReceivingOK
<1>3. /\ q \in Seq(Bytes) /\ Len(q) \in Nat \ {0} /\ r \in Nat
      /\ c.len \in Nat /\ c.done \in Nat /\ accepted[Peer(e)] \in Nat
      /\ c \in CallType /\ kernel[e] \in KernelType
  BY <1>1, Typed, Lengths, EndsFacts
<1>4. n \in 1..Len(q)
  BY <1>2, <1>3
<1> HIDE DEF n
<1>5. SubSeq(q, 1, n) = [i \in 1..n |-> r + i]
  <2>1. \A i \in 1..Len(q) : q[i] = r + i
    BY <1>2 DEF InOrder
  <2>2. /\ SubSeq(q, 1, n) \in Seq(Bytes) /\ Len(SubSeq(q, 1, n)) = n
        /\ \A i \in 1..n : SubSeq(q, 1, n)[i] = q[i]
    BY <1>3, <1>4
  <2>3. \A i \in 1..n : SubSeq(q, 1, n)[i] = r + i
    BY <1>3, <1>4, <2>1, <2>2
  <2>4. SubSeq(q, 1, n) \in [1..n -> Bytes]
    <3> DEFINE u == SubSeq(q, 1, n)
    <3>1. u \in Seq(Bytes) /\ Len(u) = n
      BY <2>2
    <3> HIDE DEF u
    <3>2. u \in [1..n -> Bytes]
      BY <3>1
    <3> QED BY <3>2 DEF u
  <2> QED BY <2>3, <2>4
<1>6. n \in 1..(accepted[Peer(e)] - r)
  <2>1. r + Len(q) <= accepted[Peer(e)]
    BY <1>2 DEF InOrder
  <2> HIDE DEF q, r
  <2> QED BY <1>3, <1>4, <2>1
<1>7. OnlyEnd(e) /\ kernel'[e].state = kernel[e].state /\ kernel'[e].shutWr = kernel[e].shutWr
  BY <1>1, <1>3 DEF OnlyEnd, TypeOK, KernelType, CallType, Return
<1>8. ~AtEnd(e) /\ ~AtEnd(e)'
  <2>1. \/ call'[e].pc = "recv"
        \/ call'[e].ret = c.done + n
    BY <1>1, <1>3 DEF TypeOK, CallType, Return
  <2>2. c.done + n # 0
    BY <1>3, <1>4
  <2> QED BY <1>1, <2>1, <2>2 DEF AtEnd
<1>9. \A f \in Ends : CanSend(f)' = CanSend(f) /\ AtEnd(f)' = AtEnd(f)
  <2>1. CanSend(e)' = CanSend(e)
    BY <1>7 DEF CanSend
  <2> QED BY <1>7, <1>8, <2>1, OthersStay, Told
<1>10. open' = open /\ atEnd' = atEnd
  BY <1>9
<1>11. \E k \in 1..(accepted[Promise!Other(e)] - Len(got[e])) :
         got' = [got EXCEPT ![e] = @ \o [i \in 1..k |-> Len(got[e]) + i]]
  BY <1>1, <1>5, <1>6, PromiseEnds
<1>12. Promise!Receive(e)
  BY <1>1, <1>10, <1>11 DEF Promise!Receive
<1> QED BY <1>12, PromiseEnds DEF Streams, Promise!Next

LEMMA ConnectStreams ==
  ASSUME Connect \/ ConnectInterrupted
  PROVE  Streams
<1> DEFINE open == [f \in Ends |-> CanSend(f)]
           atEnd == [f \in Ends |-> AtEnd(f)]
<1>1. \A f \in Ends : ~CanSend(f)
  BY DEF Connect, ConnectInterrupted, Connectable, CanSend, Ends
<1>2. \A f \in Ends : CanSend(f)' = TRUE /\ AtEnd(f)' = FALSE
  <2>1. CASE Connect
    BY <2>1, NewSocketFacts DEF Connect, CanSend, AtEnd, NoCall
  <2>2. CASE ConnectInterrupted
    <3>1. ASSUME NEW f \in Ends
          PROVE  /\ kernel'[f].state = "connected" /\ kernel'[f].shutWr = FALSE
                 /\ call'[f].op = "none"
      <4> DEFINE b == (f = Client /\ peerDisconnected[Client])
      <4>1. b \in BOOLEAN
        BY Zenon
      <4>2. kernel'[f] = [NewSocket("connected") EXCEPT !.staleFlag = b]
        BY <2>2 DEF ConnectInterrupted
      <4> HIDE DEF b
      <4> QED BY <2>2, <4>1, <4>2, SetStaleFlag, NoCallThrew DEF ConnectInterrupted, NoCall
    <3> QED BY <3>1 DEF CanSend, AtEnd
  <2> QED BY <2>1, <2>2
<1>3. open' = [f \in Ends |-> TRUE] /\ atEnd' = [f \in Ends |-> FALSE]
  BY <1>2, Told
<1>4. accepted' = [f \in Ends |-> 0] /\ got' = [f \in Ends |-> <<>>]
  BY DEF Connect, ConnectInterrupted
<1>5. Promise!Connect
  BY <1>1, <1>3, <1>4, PromiseEnds DEF Promise!Connect
<1> QED BY <1>5 DEF Streams, Promise!Next

(* The other steps of a call.                                              *)
LEMMA CallStepStreams ==
  ASSUME TypeOK, EndsOK, TypeOK', EndsOK', NEW e \in Ends, CallStep(e)
  PROVE  Streams
<1>1. CASE SendTakes(e)
  BY <1>1, SendTakesStreams
<1>2. CASE SendFails(e)
  <2>1. call[e].op \in {"send", "sendAll"}
    BY <1>2 DEF SendFails, EndsOK, CallOK, SendingOK
  <2>2. /\ call'[e].op = call[e].op
        /\ \A f \in Ends : f # e => call'[f] = call[f]
    BY <1>2 DEF SendFails, Return, Throw, TypeOK, CallType
  <2>3. /\ \A f \in Ends : f # e => kernel'[f] = kernel[f]
        /\ ~CanSend(e)'
    <3>1. CASE kernel' = [kernel EXCEPT ![e].err = "none"]
      <4>1. /\ \A f \in Ends : f # e => kernel'[f] = kernel[f]
            /\ kernel'[e].state = kernel[e].state /\ kernel'[e].shutWr = kernel[e].shutWr
        BY <3>1 DEF TypeOK, KernelType
      <4> QED BY <1>2, <4>1 DEF SendFails, CanSend
    <3>2. CASE kernel' = [kernel EXCEPT ![e] = NewSocket("absent")]
      BY <3>2, NewSocketFacts DEF TypeOK, CanSend
    <3> QED BY <1>2, <3>1, <3>2 DEF SendFails
  <2>4. ~AtEnd(e)' /\ OnlyEnd(e)
    BY <2>1, <2>2, <2>3 DEF AtEnd, OnlyEnd
  <2> QED BY <1>2, <2>3, <2>4, QuietStep DEF SendFails
<1>3. CASE PollTimesOut(e) \/ PollReturns(e)
  <2>1. kernel' = kernel /\ UNCHANGED <<accepted, got>>
    BY <1>3 DEF PollTimesOut, PollReturns
  <2>2. /\ call'[e].pc \in {"timedOut", "recv"} \/ call'[e].ret = 1
        /\ \A f \in Ends : f # e => call'[f] = call[f]
    BY <1>3 DEF PollTimesOut, PollReturns, Return, TypeOK, CallType
  <2>3. ~AtEnd(e)' /\ OnlyEnd(e) /\ CanSend(e)' = CanSend(e)
    BY <2>1, <2>2 DEF AtEnd, OnlyEnd, CanSend
  <2> QED BY <2>1, <2>3, QuietStep
<1>4. CASE RecvTakes(e)
  BY <1>4, RecvTakesStreams
<1>5. CASE RecvEnds(e)
  <2>1. UNCHANGED <<accepted, got>>
    BY <1>5 DEF RecvEnds
  <2>2. OnlyEnd(e) /\ kernel'[e].state = kernel[e].state /\ kernel'[e].shutWr = kernel[e].shutWr
    BY <1>5 DEF RecvEnds, OnlyEnd, Return, Throw, TypeOK, KernelType
  <2>3. CanSend(e)' = CanSend(e)
    BY <2>2 DEF CanSend
  <2>4. CASE AtEnd(e)'
    BY <2>1, <2>2, <2>3, <2>4, ToldZero
  <2>5. CASE ~AtEnd(e)'
    BY <2>1, <2>2, <2>3, <2>5, QuietStep
  <2> QED BY <2>4, <2>5
<1> QED BY <1>1, <1>2, <1>3, <1>4, <1>5 DEF CallStep

(* The steps that start a call, give up a connection or are the kernel's.  *)
LEMMA OtherStepStreams ==
  ASSUME TypeOK, NEW e \in Ends,
         \/ Deliver(e) \/ StartSend(e) \/ StartReceive(e) \/ StartTimedReceive(e)
         \/ Disconnect(e) \/ Destroy(e) \/ (Create /\ e = Client)
         \/ (ConnectFails /\ e = Client)
         \/ \E type \in {"STOP_SEND", "STOP_RECEIVE", "STOP_BOTH"} : Shutdown(e, type)
  PROVE  Streams
<1>1. CASE Deliver(e)
  <2>1. /\ OnlyEnd(e) /\ UNCHANGED <<accepted, got>> /\ call' = call
        /\ kernel'[e].state = "connected" => kernel[e].state = "connected"
        /\ kernel'[e].shutWr = kernel[e].shutWr /\ kernel'[e].shutRd = kernel[e].shutRd
    <3>1. kernel[e] \in KernelType
      BY Typed
    <3>2. UNCHANGED <<accepted, got, call>>
      BY <1>1 DEF Deliver
    <3>3. CASE UNCHANGED kernel
      BY <3>2, <3>3 DEF OnlyEnd
    <3>4. CASE kernel' # kernel
      <4> DEFINE s == kernel[e]  x == Head(wire[e])
                 err == IF s.finRcvd /\ ~s.shutWr THEN "EPIPE" ELSE "ECONNRESET"
      <4>1. /\ wire[e] # <<>>
            /\ kernel' = [kernel EXCEPT ![e] =
                 CASE x = FIN -> [s EXCEPT !.finRcvd = TRUE]
                   [] x = RST -> [s EXCEPT !.state = "reset", !.err = err]
                   [] OTHER   -> [s EXCEPT !.rcvq = Append(@, x)]]
        BY <1>1, <3>4 DEF Deliver
      <4>2. OnlyEnd(e)
        BY <3>2, <4>1 DEF OnlyEnd, TypeOK
      <4>3. CASE x = FIN
        <5> DEFINE t == [s EXCEPT !.finRcvd = TRUE]
        <5>1. kernel'[e] = t
          BY <4>1, <4>3, ByteOrControl DEF TypeOK
        <5>2. t.state = s.state /\ t.shutWr = s.shutWr /\ t.shutRd = s.shutRd
          BY <3>1, SetFinRcvd
        <5> HIDE DEF t
        <5> QED BY <3>2, <4>2, <5>1, <5>2
      <4>4. CASE x # FIN /\ x = RST
        <5> DEFINE t == [s EXCEPT !.state = "reset", !.err = err]
        <5>1. kernel'[e] = t
          BY <4>1, <4>4 DEF TypeOK
        <5>2. t.state = "reset" /\ t.shutWr = s.shutWr /\ t.shutRd = s.shutRd
          <6>1. err \in Errors
            BY DEF Errors
          <6>2. \A z \in Errors : LET u == [s EXCEPT !.state = "reset", !.err = z] IN
                  u.state = "reset" /\ u.shutWr = s.shutWr /\ u.shutRd = s.shutRd
            BY <3>1 DEF KernelType
          <6> HIDE DEF err
          <6> QED BY <6>1, <6>2
        <5> HIDE DEF t
        <5> QED BY <3>2, <4>2, <5>1, <5>2
      <4>5. CASE x # FIN /\ x # RST
        <5> DEFINE q == Append(s.rcvq, x)  t == [s EXCEPT !.rcvq = q]
        <5>1. kernel'[e] = t
          BY <4>1, <4>5 DEF TypeOK
        <5>2. t.state = s.state /\ t.shutWr = s.shutWr /\ t.shutRd = s.shutRd
          <6>1. q \in Seq(Bytes)
            BY <4>1, <4>5, Typed, ByteOrControl DEF Segments
          <6> HIDE DEF q
          <6> QED BY <3>1, <6>1, SetRcvq
        <5> HIDE DEF t
        <5> QED BY <3>2, <4>2, <5>1, <5>2
      <4> QED BY <4>3, <4>4, <4>5
    <3> QED BY <3>2, <3>3, <3>4
  <2>2. (CanSend(e)' => CanSend(e)) /\ (AtEnd(e)' => AtEnd(e))
    BY <2>1 DEF CanSend, AtEnd
  <2> QED BY <2>1, <2>2, QuietStep
<1>2. CASE StartSend(e) \/ StartReceive(e) \/ StartTimedReceive(e) \/ (ConnectFails /\ e = Client)
  <2>1. kernel' = kernel /\ UNCHANGED <<accepted, got>>
    BY <1>2 DEF StartSend, StartReceive, StartTimedReceive, Begin, ConnectFails
  <2>2. /\ call'[e].pc # "returned"
        /\ \A f \in Ends : f # e => call'[f] = call[f]
    <3>1. CASE ConnectFails /\ e = Client
      <4>1. /\ call' = [call EXCEPT ![e] = [NoCall EXCEPT !.pc = "threw"]]
            /\ call \in [Ends -> CallType]
        BY <3>1 DEF ConnectFails, TypeOK
      <4> QED BY <4>1, NoCallThrew
    <3>2. CASE StartSend(e) \/ StartReceive(e) \/ StartTimedReceive(e)
      BY <3>2 DEF StartSend, StartReceive, StartTimedReceive, Begin, TypeOK
    <3> QED BY <1>2, <3>1, <3>2
  <2>3. ~AtEnd(e)' /\ OnlyEnd(e) /\ CanSend(e)' = CanSend(e)
    BY <2>1, <2>2 DEF AtEnd, OnlyEnd, CanSend
  <2> QED BY <2>1, <2>3, QuietStep
<1>3. CASE Disconnect(e) \/ Destroy(e) \/ (Create /\ e = Client)
  <2>1. /\ kernel'[e].state # "connected" /\ UNCHANGED <<accepted, got>>
        /\ \A f \in Ends : f # e => kernel'[f] = kernel[f] /\ call'[f] = call[f]
    <3>1. UNCHANGED <<accepted, got>>
      BY <1>3 DEF Disconnect, Destroy, Create
    <3>2. PICK t : kernel' = [kernel EXCEPT ![e] = t] /\ t.state # "connected"
      <4>1. \A err : [NewSocket("unconnected") EXCEPT !.err = err].state = "unconnected"
        BY DEF NewSocket
      <4>2. NewSocket("unconnected").state = "unconnected" /\ NewSocket("absent").state = "absent"
        BY DEF NewSocket
      <4>3. CASE Disconnect(e)
        BY <4>1, <4>3 DEF Disconnect
      <4>4. CASE Destroy(e) \/ (Create /\ e = Client)
        BY <4>2, <4>4 DEF Destroy, Create
      <4> QED BY <1>3, <4>3, <4>4
    <3>3. call' = [call EXCEPT ![e] = NoCall]
      BY <1>3 DEF Disconnect, Destroy, Create
    <3> QED BY <3>1, <3>2, <3>3 DEF TypeOK
  <2>2. ~AtEnd(e)' /\ OnlyEnd(e) /\ ~CanSend(e)'
    BY <2>1 DEF AtEnd, OnlyEnd, CanSend
  <2> QED BY <2>1, <2>2, QuietStep
<1>4. ASSUME NEW type, Shutdown(e, type) PROVE Streams
  <2>1. /\ OnlyEnd(e) /\ UNCHANGED <<accepted, got>> /\ call' = call
        /\ kernel'[e].state = kernel[e].state
        /\ kernel[e].shutWr => kernel'[e].shutWr
        /\ kernel[e].shutRd => kernel'[e].shutRd
    BY <1>4 DEF Shutdown, OnlyEnd, TypeOK, KernelType
  <2>2. (CanSend(e)' => CanSend(e)) /\ (AtEnd(e)' => AtEnd(e))
    BY <2>1 DEF CanSend, AtEnd
  <2> QED BY <2>1, <2>2, QuietStep
<1> QED BY <1>1, <1>2, <1>3, <1>4

(* Both ends together implement ByteStream: every step, whatever the two   *)
(* programs and the kernel do, sends, receives, closes, connects anew or   *)
(* tells an end that it has everything, as a connection promises, or       *)
(* changes nothing of that.                                                *)
THEOREM Refinement == Spec => ImplementsByteStream
<1>1. Init => Promise!Init
  <2> SUFFICES ASSUME Init PROVE Promise!Init
    OBVIOUS
  <2>1. \A e \in Ends : CanSend(e) = FALSE /\ AtEnd(e) = FALSE
    BY DEF Init, CanSend, AtEnd, NewSocket, NoCall
  <2>2. /\ [e \in Ends |-> CanSend(e)] = [e \in Ends |-> FALSE]
        /\ [e \in Ends |-> AtEnd(e)] = [e \in Ends |-> FALSE]
    BY <2>1, Told
  <2> QED BY <2>2, PromiseEnds DEF Init, Promise!Init
<1>2. (IInv => TypeOK /\ EndsOK) /\ (IInv => TypeOK /\ EndsOK)'
  <2>1. IInv => TypeOK /\ EndsOK
    BY ByEnds DEF EndsOK
  <2> QED BY <2>1, PTL
<1>3. IInv /\ IInv' /\ [Next]_vars => [Promise!Next]_(Promise!vars)
  <2> SUFFICES ASSUME IInv, IInv', [Next]_vars PROVE Streams
    BY DEF Streams
  <2>1. TypeOK /\ EndsOK /\ TypeOK' /\ EndsOK'
    BY <1>2
  <2>2. CASE Connect \/ ConnectInterrupted
    BY <2>2, ConnectStreams
  <2>3. CASE Create
    BY <2>1, <2>3, OtherStepStreams DEF Ends
  <2>4. ASSUME NEW e \in Ends, CallStep(e) PROVE Streams
    BY <2>1, <2>4, CallStepStreams
  <2>5. ASSUME NEW e \in Ends,
               \/ Deliver(e) \/ StartSend(e) \/ StartReceive(e) \/ StartTimedReceive(e)
               \/ Disconnect(e) \/ Destroy(e) \/ (ConnectFails /\ e = Client)
               \/ \E type \in {"STOP_SEND", "STOP_RECEIVE", "STOP_BOTH"} : Shutdown(e, type)
        PROVE  Streams
    BY <2>1, <2>5, OtherStepStreams
  <2>6. CASE UNCHANGED vars
    BY <2>6, QuietStep DEF vars, OnlyEnd, CanSend, AtEnd, Ends
  <2>7. Client \in Ends
    BY DEF Ends
  <2> QED BY <2>2, <2>3, <2>4, <2>5, <2>6, <2>7 DEF Next
<1> QED BY <1>1, <1>3, Inductive, PTL DEF Spec, ImplementsByteStream, Promise!Spec
=============================================================================
