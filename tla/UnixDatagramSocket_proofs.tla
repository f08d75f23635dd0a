---------------------- MODULE UnixDatagramSocket_proofs ----------------------
(***************************************************************************)
(* Proofs about UnixDatagramSocket, for any sockets, paths and lengths of  *)
(* the queues.                                                             *)
(***************************************************************************)
EXTENDS UnixDatagramSocket, SequenceTheorems, TLAPS

-----------------------------------------------------------------------------
(* The parts of the invariant: the flags, the files, the kernel's sockets, *)
(* the calls.                                                              *)

FlagOK == peerDisconnected \in [Sockets -> BOOLEAN]

NodeOK == node \in [Paths -> Sockets \cup {Nobody, Dead, File}]

KernelOK == kernel \in [Sockets -> KernelType] /\ NamesAreTrue /\ ClosedIsUnnamed

CallOK == call \in [Sockets -> CallType] /\ PathKept /\ OpenInCall

(* No socket is closed.                                                    *)
NoneClosed == \A o \in Sockets : kernel[o].open => kernel'[o].open

LEMMA Parts == IInv <=> FlagOK /\ NodeOK /\ KernelOK /\ CallOK
BY DEF IInv, TypeOK, FlagOK, NodeOK, KernelOK, CallOK

LEMMA NoCallType ==
  ASSUME NEW pc \in {"returned", "threw"}
  PROVE  /\ NoCall \in CallType
         /\ [NoCall EXCEPT !.pc = pc] \in CallType /\ [NoCall EXCEPT !.pc = pc].pc = pc
BY DEF NoCall, CallType

LEMMA NewSocketType ==
  /\ NewSocket \in KernelType /\ NewSocket.queue = <<>> /\ NewSocket.name = Unnamed
  /\ NewSocket.open
  /\ [NewSocket EXCEPT !.open = FALSE] \in KernelType
  /\ [NewSocket EXCEPT !.open = FALSE].queue = <<>>
  /\ [NewSocket EXCEPT !.open = FALSE].name = Unnamed
<1>1. <<>> \in Seq(Datagram)
  OBVIOUS
<1>2. Nobody \in Sockets \cup {Nobody, Dead} /\ {} \in SUBSET {"rd", "wr"}
  OBVIOUS
<1>3. NewSocket \in KernelType
  BY <1>1, <1>2, Zenon DEF NewSocket, KernelType
<1>4. [NewSocket EXCEPT !.open = FALSE] \in KernelType
  BY <1>3, Zenon DEF KernelType
<1>5. /\ [NewSocket EXCEPT !.open = FALSE].queue = <<>>
      /\ [NewSocket EXCEPT !.open = FALSE].name = Unnamed
  BY DEF NewSocket
<1>6. NewSocket.queue = <<>> /\ NewSocket.name = Unnamed /\ NewSocket.open
  BY Zenon DEF NewSocket
<1> QED BY <1>3, <1>4, <1>5, <1>6

(* What a socket in the kernel consists of, and how one is put together.   *)
LEMMA KernelFields ==
  ASSUME NEW k \in KernelType
  PROVE  /\ k.open \in BOOLEAN /\ k.err \in BOOLEAN
         /\ k.name \in Paths \cup {Unnamed} /\ k.peer \in Sockets \cup {Nobody, Dead}
         /\ k.queue \in Seq(Datagram) /\ k.shut \in SUBSET {"rd", "wr"}
BY Zenon DEF KernelType

(* A sequence made of another one place by place.                          *)
LEMMA MapSeq ==
  ASSUME NEW S, NEW T, NEW q \in Seq(S), NEW f, f = [i \in DOMAIN q |-> f[i]],
         \A i \in DOMAIN q : f[i] \in T
  PROVE  f \in Seq(T) /\ DOMAIN f = DOMAIN q
<1>1. DOMAIN q = 1..Len(q) /\ Len(q) \in Nat
  OBVIOUS
<1>2. f \in [1..Len(q) -> T]
  BY <1>1
<1>3. f \in Seq(T)
  BY <1>1, <1>2
<1> QED BY <1>3

-----------------------------------------------------------------------------
(* How the parts are kept.                                                 *)

LEMMA SameCalls ==
  ASSUME CallOK, UNCHANGED call, NoneClosed
  PROVE  CallOK'
BY DEF CallOK, PathKept, OpenInCall, Busy, NoneClosed

(* A socket's call becomes c.                                              *)
LEMMA CallBecomes ==
  ASSUME CallOK, NEW s \in Sockets, NEW c \in CallType, call' = [call EXCEPT ![s] = c],
         c.pc = "bind" => c.path \in Paths,
         c.pc = "send" /\ c.op = "sendTo" => c.path \in Paths,
         c.pc \in {"returned", "threw"} \/ kernel[s].open,
         NoneClosed
  PROVE  CallOK'
<1>1. call' \in [Sockets -> CallType]
  BY DEF CallOK
<1>2. \A t \in Sockets : call'[t] = IF t = s THEN c ELSE call[t]
  BY DEF CallOK
<1>3. PathKept'
  BY <1>2 DEF CallOK, PathKept
<1>5. OpenInCall'
  BY <1>2 DEF CallOK, OpenInCall, Busy, NoneClosed
<1> QED BY <1>1, <1>3, <1>5 DEF CallOK

LEMMA CallEnds ==
  ASSUME CallOK, NEW s \in Sockets, NEW pc \in {"returned", "threw"}, Done(s, pc),
         NoneClosed
  PROVE  CallOK'
<1> DEFINE c == [NoCall EXCEPT !.pc = pc]
<1>1. c \in CallType /\ c.pc = pc
  BY NoCallType
<1>2. call' = [call EXCEPT ![s] = c]
  BY DEF Done
<1> HIDE DEF c
<1> QED BY <1>1, <1>2, CallBecomes

LEMMA CallStarts ==
  ASSUME CallOK, NEW s \in Sockets,
         NEW op \in {"bind", "send", "sendTo",
                     "receive", "receiveFrom", "timedReceive", "timedReceiveFrom"},
         NEW pc \in {"bind", "send", "poll", "recv"}, NEW path \in Paths \cup {Unnamed},
         NEW target \in Sockets \cup {Nobody, Dead}, kernel[s].open, Enter(s, op, pc, path, target),
         pc = "bind" => path \in Paths,
         pc = "send" /\ op = "sendTo" => path \in Paths,
         NoneClosed
  PROVE  CallOK'
<1> DEFINE c == [op |-> op, pc |-> pc, path |-> path, target |-> target]
<1>1. c \in CallType /\ c.pc = pc /\ c.op = op /\ c.path = path
  BY DEF CallType
<1>2. call' = [call EXCEPT ![s] = c]
  BY DEF Enter
<1> HIDE DEF c
<1> QED BY <1>1, <1>2, CallBecomes

(* Sockets keep their names, and their queues get nothing new.             *)
LEMMA KernelKeeps ==
  ASSUME KernelOK, kernel' \in [Sockets -> KernelType],
         \A o \in Sockets : kernel'[o].name = kernel[o].name /\ kernel'[o].open = kernel[o].open,
         \A o \in Sockets : \A i \in DOMAIN kernel'[o].queue :
           \E j \in DOMAIN kernel[o].queue : kernel'[o].queue[i] = kernel[o].queue[j]
  PROVE  KernelOK'
<1>1. NamesAreTrue'
  BY DEF KernelOK, NamesAreTrue
<1>2. ClosedIsUnnamed'
  BY DEF KernelOK, ClosedIsUnnamed
<1> QED BY <1>1, <1>2 DEF KernelOK

(* One socket's pending error is taken.                                    *)
LEMMA ErrorTaken ==
  ASSUME KernelOK, NEW s \in Sockets, kernel' = [kernel EXCEPT ![s].err = FALSE]
  PROVE  KernelOK' /\ \A o \in Sockets : kernel'[o].queue = kernel[o].queue
<1> DEFINE k == [kernel[s] EXCEPT !.err = FALSE]
<1>1. k \in KernelType /\ k.name = kernel[s].name /\ k.open = kernel[s].open
        /\ k.queue = kernel[s].queue
  <2>1. kernel[s] \in KernelType
    BY DEF KernelOK
  <2>2. k \in KernelType
    BY <2>1, Zenon DEF KernelType
  <2>3. k.name = kernel[s].name /\ k.open = kernel[s].open /\ k.queue = kernel[s].queue
    BY <2>1, Zenon DEF KernelType
  <2> QED BY <2>2, <2>3
<1>2. kernel' = [kernel EXCEPT ![s] = k]
  OBVIOUS
<1> HIDE DEF k
<1>3. \A o \in Sockets : kernel'[o] = IF o = s THEN k ELSE kernel[o]
  BY <1>2 DEF KernelOK
<1>4. kernel' \in [Sockets -> KernelType]
  BY <1>1, <1>2 DEF KernelOK
<1>5. \A o \in Sockets : /\ kernel'[o].name = kernel[o].name /\ kernel'[o].open = kernel[o].open
                        /\ kernel'[o].queue = kernel[o].queue
  BY <1>1, <1>3
<1>6. KernelOK'
  BY <1>4, <1>5, KernelKeeps
<1> QED BY <1>5, <1>6

(* The oldest datagram of a queue is taken.                                *)
LEMMA DatagramTaken ==
  ASSUME KernelOK, NEW s \in Sockets, kernel[s].queue # <<>>,
         kernel' = [kernel EXCEPT ![s].queue = Tail(@)]
  PROVE  KernelOK'
<1> DEFINE k == [kernel[s] EXCEPT !.queue = Tail(@)]
<1>1. kernel[s] \in KernelType
  BY DEF KernelOK
<1>2. kernel[s].queue \in Seq(Datagram)
  BY <1>1, KernelFields
<1>3. /\ Tail(kernel[s].queue) \in Seq(Datagram)
      /\ \A i \in DOMAIN Tail(kernel[s].queue) :
           /\ i + 1 \in DOMAIN kernel[s].queue
           /\ Tail(kernel[s].queue)[i] = kernel[s].queue[i + 1]
  BY <1>2
<1>4. k \in KernelType /\ k.name = kernel[s].name /\ k.open = kernel[s].open
        /\ k.queue = Tail(kernel[s].queue)
  BY <1>1, <1>3, Zenon DEF KernelType
<1>5. kernel' = [kernel EXCEPT ![s] = k]
  OBVIOUS
<1> HIDE DEF k
<1>6. \A o \in Sockets : kernel'[o] = IF o = s THEN k ELSE kernel[o]
  BY <1>5 DEF KernelOK
<1>7. kernel' \in [Sockets -> KernelType]
  BY <1>4, <1>5 DEF KernelOK
<1>8. \A o \in Sockets : kernel'[o].name = kernel[o].name /\ kernel'[o].open = kernel[o].open
  BY <1>4, <1>6
<1>9. \A o \in Sockets : \A i \in DOMAIN kernel'[o].queue :
        \E j \in DOMAIN kernel[o].queue : kernel'[o].queue[i] = kernel[o].queue[j]
  BY <1>3, <1>4, <1>6
<1> QED BY <1>7, <1>8, <1>9, KernelKeeps

(* A datagram of s comes to o.                                             *)
LEMMA DatagramComes ==
  ASSUME KernelOK, NEW s \in Sockets, NEW o \in Sockets,
         kernel' = [kernel EXCEPT ![o].queue =
                      Append(@, [sender |-> s, name |-> kernel[s].name])]
  PROVE  KernelOK'
<1> DEFINE d == [sender |-> s, name |-> kernel[s].name]
           k == [kernel[o] EXCEPT !.queue = Append(@, d)]
<1>1. kernel[o] \in KernelType /\ kernel[s] \in KernelType
  BY DEF KernelOK
<1>2. kernel[o].queue \in Seq(Datagram) /\ d \in Datagram
  BY <1>1, KernelFields DEF Datagram
<1>3. d.sender = s /\ d.name = kernel[s].name
  OBVIOUS
<1>4. kernel' = [kernel EXCEPT ![o] = k]
  OBVIOUS
<1> HIDE DEF d
<1>5. /\ Append(kernel[o].queue, d) \in Seq(Datagram)
      /\ \A i \in DOMAIN Append(kernel[o].queue, d) :
           \/ i \in DOMAIN kernel[o].queue /\ Append(kernel[o].queue, d)[i] = kernel[o].queue[i]
           \/ Append(kernel[o].queue, d)[i] = d
  BY <1>2
<1>6. k \in KernelType /\ k.name = kernel[o].name /\ k.open = kernel[o].open
        /\ k.queue = Append(kernel[o].queue, d)
  BY <1>1, <1>5, Zenon DEF KernelType
<1> HIDE DEF k
<1>7. \A x \in Sockets : kernel'[x] = IF x = o THEN k ELSE kernel[x]
  BY <1>4 DEF KernelOK
<1>8. kernel' \in [Sockets -> KernelType]
  BY <1>6, <1>4 DEF KernelOK
<1>9. \A x \in Sockets : kernel'[x].name = kernel[x].name /\ kernel'[x].open = kernel[x].open
  BY <1>6, <1>7
<1>10. \A x \in Sockets : \A i \in DOMAIN kernel'[x].queue :
         \/ i \in DOMAIN kernel[x].queue /\ kernel'[x].queue[i] = kernel[x].queue[i]
         \/ kernel'[x].queue[i] = d
  BY <1>5, <1>6, <1>7
<1>11. NamesAreTrue'
  BY <1>3, <1>9, <1>10 DEF KernelOK, NamesAreTrue
<1>12. ClosedIsUnnamed'
  BY <1>9 DEF KernelOK, ClosedIsUnnamed
<1> QED BY <1>8, <1>11, <1>12 DEF KernelOK

(* connect() and disconnect().                                             *)
LEMMA PeerBecomes ==
  ASSUME KernelOK, NEW s \in Sockets, NEW new \in Sockets \cup {Nobody},
         kernel' = WithPeer(s, new)
  PROVE  /\ KernelOK' /\ \A o \in Sockets : kernel'[o].open = kernel[o].open
         /\ \A o \in Sockets \ {s} : kernel'[o].queue = kernel[o].queue
<1> DEFINE old == kernel[s].peer
           loses == old \notin {Nobody, new} /\ kernel[s].queue # <<>>
           q == IF loses THEN <<>> ELSE kernel[s].queue
           k == [kernel[s] EXCEPT !.peer = new, !.queue = IF loses THEN <<>> ELSE @]
           l == [o \in Sockets |-> [kernel[o] EXCEPT
                   !.err = @ \/ (loses /\ o = old /\ kernel[o].peer = s)]]
<1>1. kernel' = [o \in Sockets |-> IF o = s THEN k ELSE l[o]]
  BY Zenon DEF WithPeer
<1>2. kernel[s] \in KernelType
  BY DEF KernelOK
<1>3. q \in Seq(Datagram) /\ (q = <<>> \/ q = kernel[s].queue)
  BY <1>2, KernelFields
<1>4. k = [kernel[s] EXCEPT !.peer = new, !.queue = q]
  OBVIOUS
<1> HIDE DEF q
<1>5. k \in KernelType /\ k.name = kernel[s].name /\ k.open = kernel[s].open /\ k.queue = q
  BY <1>2, <1>3, <1>4, Zenon DEF KernelType
<1>6. ASSUME NEW o \in Sockets
      PROVE  /\ l[o] \in KernelType /\ l[o].name = kernel[o].name
             /\ l[o].open = kernel[o].open /\ l[o].queue = kernel[o].queue
  <2> DEFINE e == kernel[o].err \/ (loses /\ o = old /\ kernel[o].peer = s)
  <2>1. l[o] = [kernel[o] EXCEPT !.err = e]
    BY Zenon
  <2>2. kernel[o] \in KernelType
    BY DEF KernelOK
  <2>3. kernel[o].err \in BOOLEAN
    BY <2>2, KernelFields
  <2>4. e \in BOOLEAN
    BY <2>3, Zenon
  <2> HIDE DEF e, l
  <2> QED BY <2>1, <2>2, <2>4, Zenon DEF KernelType
<1> HIDE DEF k, l
<1>7. \A o \in Sockets : kernel'[o] = IF o = s THEN k ELSE l[o]
  BY <1>1
<1>8. kernel' \in [Sockets -> KernelType]
  BY <1>1, <1>5, <1>6
<1>9. \A o \in Sockets : kernel'[o].name = kernel[o].name /\ kernel'[o].open = kernel[o].open
  BY <1>5, <1>6, <1>7
<1>10. \A o \in Sockets \ {s} : kernel'[o].queue = kernel[o].queue
  BY <1>6, <1>7
<1>11. kernel'[s].queue = <<>> \/ kernel'[s].queue = kernel[s].queue
  BY <1>3, <1>5, <1>7
<1>12. \A o \in Sockets : \A i \in DOMAIN kernel'[o].queue :
         \E j \in DOMAIN kernel[o].queue : kernel'[o].queue[i] = kernel[o].queue[j]
  BY <1>10, <1>11
<1> QED BY <1>8, <1>9, <1>10, <1>12, KernelKeeps
(* shutdown().                                                             *)
LEMMA DirectionsShut ==
  ASSUME KernelOK, NEW s \in Sockets, NEW directions \in SUBSET {"rd", "wr"},
         kernel' = [kernel EXCEPT ![s].shut = @ \cup directions]
  PROVE  /\ KernelOK' /\ \A o \in Sockets : kernel'[o].open = kernel[o].open
         /\ \A o \in Sockets : kernel'[o].queue = kernel[o].queue
<1> DEFINE shut == kernel[s].shut \cup directions
           k == [kernel[s] EXCEPT !.shut = shut]
<1>1. kernel[s] \in KernelType
  BY DEF KernelOK
<1>2. shut \in SUBSET {"rd", "wr"}
  BY <1>1, KernelFields, Zenon
<1>3. kernel' = [kernel EXCEPT ![s] = k]
  OBVIOUS
<1> HIDE DEF shut
<1>4. k \in KernelType /\ k.name = kernel[s].name /\ k.open = kernel[s].open
        /\ k.queue = kernel[s].queue
  BY <1>1, <1>2, Zenon DEF KernelType
<1> HIDE DEF k
<1>5. \A o \in Sockets : kernel'[o] = IF o = s THEN k ELSE kernel[o]
  BY <1>3 DEF KernelOK
<1>6. kernel' \in [Sockets -> KernelType]
  BY <1>3, <1>4 DEF KernelOK
<1>7. \A o \in Sockets : /\ kernel'[o].name = kernel[o].name /\ kernel'[o].open = kernel[o].open
                        /\ kernel'[o].queue = kernel[o].queue
  BY <1>4, <1>5
<1>8. KernelOK'
  BY <1>6, <1>7, KernelKeeps
<1> QED BY <1>7, <1>8

(* bind() gives s a name, and with it all that s has sent.                 *)
LEMMA NameGiven ==
  ASSUME KernelOK, NEW s \in Sockets, NEW p \in Paths, kernel[s].open, kernel' = Renamed(s, p)
  PROVE  KernelOK' /\ \A o \in Sockets : kernel'[o].open = kernel[o].open
<1> DEFINE q(o) == [i \in DOMAIN kernel[o].queue |->
                      IF kernel[o].queue[i].sender = s
                        THEN [kernel[o].queue[i] EXCEPT !.name = p] ELSE kernel[o].queue[i]]
           name(o) == IF o = s THEN p ELSE kernel[o].name
           k(o) == [kernel[o] EXCEPT !.name = name(o), !.queue = q(o)]
<1>1. \A o \in Sockets : kernel'[o] = k(o)
  BY Zenon DEF Renamed
<1>2. kernel' = [o \in Sockets |-> kernel'[o]]
  BY Zenon DEF Renamed
<1>3. ASSUME NEW o \in Sockets
      PROVE  /\ k(o) \in KernelType /\ k(o).name = name(o)
             /\ k(o).open = kernel[o].open /\ k(o).queue = q(o)
             /\ DOMAIN q(o) = DOMAIN kernel[o].queue
             /\ \A i \in DOMAIN kernel[o].queue :
                  LET d == kernel[o].queue[i] IN
                    \/ d.sender = s /\ q(o)[i].sender = s /\ q(o)[i].name = p
                    \/ d.sender # s /\ q(o)[i] = d
  <2>1. kernel[o] \in KernelType
    BY DEF KernelOK
  <2>2. kernel[o].queue \in Seq(Datagram) /\ kernel[o].name \in Paths \cup {Unnamed}
    BY <2>1, KernelFields
  <2>3. ASSUME NEW i \in DOMAIN kernel[o].queue
        PROVE  /\ q(o)[i] \in Datagram
               /\ LET d == kernel[o].queue[i] IN
                    \/ d.sender = s /\ q(o)[i].sender = s /\ q(o)[i].name = p
                    \/ d.sender # s /\ q(o)[i] = d
    <3>1. kernel[o].queue[i] \in Datagram
      BY <2>2
    <3>2. q(o)[i] = IF kernel[o].queue[i].sender = s
                      THEN [kernel[o].queue[i] EXCEPT !.name = p] ELSE kernel[o].queue[i]
      OBVIOUS
    <3> QED BY <3>1, <3>2 DEF Datagram
  <2>4. q(o) = [i \in DOMAIN kernel[o].queue |-> q(o)[i]]
    OBVIOUS
  <2> DEFINE f == q(o)
  <2>5. f \in Seq(Datagram) /\ DOMAIN f = DOMAIN kernel[o].queue
    <3>1. \A i \in DOMAIN kernel[o].queue : f[i] \in Datagram
      BY <2>3
    <3>2. f = [i \in DOMAIN kernel[o].queue |-> f[i]]
      BY <2>4
    <3> HIDE DEF f
    <3> QED BY <2>2, <3>1, <3>2, MapSeq
  <2>6. name(o) \in Paths \cup {Unnamed}
    BY <2>2
  <2>7. k(o) = [kernel[o] EXCEPT !.name = name(o), !.queue = f]
    OBVIOUS
  <2>8. \A i \in DOMAIN kernel[o].queue :
          LET d == kernel[o].queue[i] IN
            \/ d.sender = s /\ f[i].sender = s /\ f[i].name = p
            \/ d.sender # s /\ f[i] = d
    BY <2>3
  <2> HIDE DEF f
  <2> DEFINE n == name(o)
  <2>9. n \in Paths \cup {Unnamed} /\ k(o) = [kernel[o] EXCEPT !.name = n, !.queue = f]
    BY <2>6, <2>7
  <2> HIDE DEF n
  <2>10. k(o) \in KernelType /\ k(o).name = n /\ k(o).open = kernel[o].open /\ k(o).queue = f
    BY <2>1, <2>5, <2>9, Zenon DEF KernelType
  <2> QED BY <2>5, <2>8, <2>10 DEF n, f
<1> HIDE DEF k, q
<1>4. kernel' \in [Sockets -> KernelType]
  BY <1>1, <1>2, <1>3
<1>5. \A o \in Sockets : /\ kernel'[o].open = kernel[o].open
                        /\ kernel'[o].name = IF o = s THEN p ELSE kernel[o].name
  BY <1>1, <1>3
<1>6. NamesAreTrue'
  <2> SUFFICES ASSUME NEW o \in Sockets, NEW i \in DOMAIN kernel'[o].queue,
                      kernel'[o].queue[i].sender \in Sockets
               PROVE  kernel'[o].queue[i].name = kernel'[kernel'[o].queue[i].sender].name
    BY DEF NamesAreTrue
  <2>1. kernel'[o].queue = q(o) /\ i \in DOMAIN kernel[o].queue
    BY <1>1, <1>3
  <2>2. CASE kernel[o].queue[i].sender = s
    <3>1. q(o)[i].sender = s /\ q(o)[i].name = p
      BY <1>3, <2>1, <2>2
    <3> QED BY <1>5, <2>1, <3>1
  <2>3. CASE kernel[o].queue[i].sender # s
    <3>1. q(o)[i] = kernel[o].queue[i]
      BY <1>3, <2>1, <2>3
    <3> QED BY <1>5, <2>1, <2>3, <3>1 DEF KernelOK, NamesAreTrue
  <2> QED BY <2>2, <2>3
<1>7. ClosedIsUnnamed'
  BY <1>5 DEF KernelOK, ClosedIsUnnamed
<1> QED BY <1>4, <1>5, <1>6, <1>7 DEF KernelOK

(* A constructor.                                                          *)
LEMMA SocketMade ==
  ASSUME KernelOK, NEW s \in Sockets, ~kernel[s].open, kernel' = [kernel EXCEPT ![s] = NewSocket]
  PROVE  KernelOK' /\ \A o \in Sockets : kernel[o].open => kernel'[o].open
<1>1. \A o \in Sockets : kernel'[o] = IF o = s THEN NewSocket ELSE kernel[o]
  BY DEF KernelOK
<1>2. kernel' \in [Sockets -> KernelType]
  BY NewSocketType DEF KernelOK
<1>3. kernel'[s].name = kernel[s].name /\ kernel'[s].queue = <<>> /\ kernel'[s].open
  BY <1>1, NewSocketType DEF KernelOK, ClosedIsUnnamed
<1>4. \A o \in Sockets \ {s} : kernel'[o] = kernel[o]
  BY <1>1
<1>5. NamesAreTrue'
  <2> SUFFICES ASSUME NEW o \in Sockets, NEW i \in DOMAIN kernel'[o].queue,
                      kernel'[o].queue[i].sender \in Sockets
               PROVE  kernel'[o].queue[i].name = kernel'[kernel'[o].queue[i].sender].name
    BY DEF NamesAreTrue
  <2>1. o # s
    BY <1>3
  <2> QED BY <1>3, <1>4, <2>1 DEF KernelOK, NamesAreTrue
<1>6. ClosedIsUnnamed'
  BY <1>3, <1>4 DEF KernelOK, ClosedIsUnnamed
<1> QED BY <1>2, <1>3, <1>4, <1>5, <1>6 DEF KernelOK

(* A destructor: a datagram of s stays, and with it the name of s.         *)
LEMMA SocketGone ==
  ASSUME KernelOK, NEW s \in Sockets, Destroy(s)
  PROVE  KernelOK' /\ \A o \in Sockets \ {s} : kernel'[o].open = kernel[o].open
<1> DEFINE gone == [NewSocket EXCEPT !.open = FALSE]
           q(o) == Orphaned(s, kernel[o].queue)
           k(o) == [kernel[o] EXCEPT !.peer = Without(s, @), !.queue = q(o)]
<1>0. kernel' = [o \in Sockets |-> IF o = s THEN gone ELSE k(o)]
  BY Zenon DEF Destroy
<1>3. gone \in KernelType /\ gone.queue = <<>> /\ gone.name = Unnamed
  BY NewSocketType
<1> HIDE DEF gone, k
<1>1. \A o \in Sockets : kernel'[o] = IF o = s THEN gone ELSE k(o)
  BY <1>0
<1>2. kernel' = [o \in Sockets |-> kernel'[o]]
  BY <1>0
<1> USE DEF k
<1>4. ASSUME NEW o \in Sockets
      PROVE  /\ k(o) \in KernelType /\ k(o).name = kernel[o].name
             /\ k(o).open = kernel[o].open /\ k(o).queue = q(o)
             /\ DOMAIN q(o) = DOMAIN kernel[o].queue
             /\ \A i \in DOMAIN kernel[o].queue :
                  q(o)[i].sender # s /\ (q(o)[i].sender \in Sockets => q(o)[i] = kernel[o].queue[i])
  <2>1. kernel[o] \in KernelType
    BY DEF KernelOK
  <2>2. kernel[o].queue \in Seq(Datagram) /\ kernel[o].peer \in Sockets \cup {Nobody, Dead}
    BY <2>1, KernelFields
  <2>3. ASSUME NEW i \in DOMAIN kernel[o].queue
        PROVE  /\ q(o)[i] \in Datagram /\ q(o)[i].sender # s
               /\ q(o)[i].sender \in Sockets => q(o)[i] = kernel[o].queue[i]
    <3>1. kernel[o].queue[i] \in Datagram
      BY <2>2
    <3>2. q(o)[i] = [kernel[o].queue[i] EXCEPT !.sender = Without(s, @)]
      BY DEF Orphaned
    <3> QED BY <3>1, <3>2, UnixAssumption DEF Datagram, Without
  <2>4. q(o) = [i \in DOMAIN kernel[o].queue |-> q(o)[i]]
    BY DEF Orphaned
  <2> DEFINE f == q(o)
             peer == Without(s, kernel[o].peer)
  <2>5. f \in Seq(Datagram) /\ DOMAIN f = DOMAIN kernel[o].queue
    <3>1. \A i \in DOMAIN kernel[o].queue : f[i] \in Datagram
      BY <2>3
    <3>2. f = [i \in DOMAIN kernel[o].queue |-> f[i]]
      BY <2>4
    <3> HIDE DEF f
    <3> QED BY <2>2, <3>1, <3>2, MapSeq
  <2>6. peer \in Sockets \cup {Nobody, Dead}
    BY <2>2 DEF Without
  <2>7. k(o) = [kernel[o] EXCEPT !.peer = peer, !.queue = f]
    OBVIOUS
  <2>8. \A i \in DOMAIN kernel[o].queue :
          f[i].sender # s /\ (f[i].sender \in Sockets => f[i] = kernel[o].queue[i])
    BY <2>3
  <2> HIDE DEF f, peer
  <2>9. /\ k(o) \in KernelType /\ k(o).name = kernel[o].name
        /\ k(o).open = kernel[o].open /\ k(o).queue = f
    BY <2>1, <2>5, <2>6, <2>7, Zenon DEF KernelType
  <2> QED BY <2>5, <2>8, <2>9 DEF f
<1> HIDE DEF k, q
<1>5. kernel' \in [Sockets -> KernelType]
  BY <1>1, <1>2, <1>3, <1>4
<1>6. \A o \in Sockets \ {s} : kernel'[o].name = kernel[o].name /\ kernel'[o].open = kernel[o].open
  BY <1>1, <1>4
<1>7. kernel'[s].name = Unnamed /\ kernel'[s].queue = <<>>
  BY <1>1, <1>3
<1>8. NamesAreTrue'
  <2> SUFFICES ASSUME NEW o \in Sockets, NEW i \in DOMAIN kernel'[o].queue,
                      kernel'[o].queue[i].sender \in Sockets
               PROVE  kernel'[o].queue[i].name = kernel'[kernel'[o].queue[i].sender].name
    BY DEF NamesAreTrue
  <2>1. o # s
    BY <1>7
  <2>2. kernel'[o].queue = q(o) /\ i \in DOMAIN kernel[o].queue
    BY <1>1, <1>4, <2>1
  <2>3. q(o)[i] = kernel[o].queue[i] /\ q(o)[i].sender # s
    BY <1>4, <2>2
  <2> QED BY <1>6, <2>2, <2>3 DEF KernelOK, NamesAreTrue
<1>9. ClosedIsUnnamed'
  BY <1>6, <1>7 DEF KernelOK, ClosedIsUnnamed
<1> QED BY <1>5, <1>6, <1>8, <1>9 DEF KernelOK
-----------------------------------------------------------------------------
(* The steps.                                                              *)

LEMMA InitIInv == Init => IInv
<1> SUFFICES ASSUME Init PROVE FlagOK /\ NodeOK /\ KernelOK /\ CallOK
  BY Parts
<1>1. FlagOK /\ NodeOK
  BY DEF Init, FlagOK, NodeOK
<1>2. KernelOK
  <2>1. kernel \in [Sockets -> KernelType]
    BY NewSocketType DEF Init
  <2>2. \A s \in Sockets : kernel[s] = NewSocket
    BY DEF Init
  <2>3. NamesAreTrue
    BY <2>2, NewSocketType DEF NamesAreTrue
  <2>4. ClosedIsUnnamed
    BY <2>2, NewSocketType DEF ClosedIsUnnamed
  <2> QED BY <2>1, <2>3, <2>4 DEF KernelOK
<1>3. CallOK
  <2>1. call \in [Sockets -> CallType] /\ \A s \in Sockets : call[s].pc = "idle"
    BY NoCallType DEF Init, NoCall
  <2> QED BY <2>1 DEF CallOK, PathKept, OpenInCall, Busy
<1> QED BY <1>1, <1>2, <1>3

LEMMA KernelSame ==
  ASSUME KernelOK, kernel' = kernel
  PROVE  KernelOK'
BY DEF KernelOK, NamesAreTrue, ClosedIsUnnamed

(* bind().                                                                 *)
LEMMA BindStep ==
  ASSUME IInv, NEW s \in Sockets, (\E p \in Paths : StartBind(s, p)) \/ BindEnds(s)
  PROVE  IInv'
<1> SUFFICES FlagOK' /\ NodeOK' /\ KernelOK' /\ CallOK'
  BY Parts, PTL
<1>0. FlagOK /\ NodeOK /\ KernelOK /\ CallOK
  BY Parts
<1>1. ASSUME NEW p \in Paths, StartBind(s, p) PROVE FlagOK' /\ NodeOK' /\ KernelOK' /\ CallOK'
  <2>1. FlagOK' /\ NodeOK' /\ KernelOK'
    BY <1>0, <1>1, KernelSame DEF StartBind, FlagOK, NodeOK
  <2>2. NoneClosed
    BY <1>1 DEF StartBind, NoneClosed
  <2>3. Enter(s, "bind", "bind", p, Nobody) /\ kernel[s].open
    BY <1>1 DEF StartBind, Callable
  <2>4. CallOK'
    BY <1>0, <2>2, <2>3, CallStarts
  <2> QED BY <2>1, <2>4
<1>2. ASSUME BindEnds(s) PROVE FlagOK' /\ NodeOK' /\ KernelOK' /\ CallOK'
  <2> DEFINE p == call[s].path
  <2>1. p \in Paths /\ kernel[s].open
    BY <1>0, <1>2 DEF BindEnds, CallOK, PathKept, OpenInCall, Busy
  <2>2. FlagOK'
    BY <1>0, <1>2 DEF BindEnds, FlagOK
  <2>3. CASE Done(s, "returned") /\ node' = [node EXCEPT ![p] = s] /\ kernel' = Renamed(s, p)
    <3>1. NodeOK'
      BY <1>0, <2>1, <2>3 DEF NodeOK
    <3>2. KernelOK' /\ \A o \in Sockets : kernel'[o].open = kernel[o].open
      BY <1>0, <2>1, <2>3, NameGiven
    <3>3. NoneClosed
      BY <3>2 DEF NoneClosed
    <3> QED BY <1>0, <2>2, <2>3, <3>1, <3>2, <3>3, CallEnds
  <2>4. CASE Done(s, "threw") /\ UNCHANGED <<node, kernel>>
    <3>1. NodeOK' /\ KernelOK' /\ NoneClosed
      BY <1>0, <2>4, KernelSame DEF NodeOK, NoneClosed
    <3> QED BY <1>0, <2>2, <2>4, <3>1, CallEnds
  <2> QED BY <1>2, <2>3, <2>4 DEF BindEnds
<1> QED BY <1>1, <1>2

(* A call that is over, with the kernel's files as they were.              *)
LEMMA EndStep ==
  ASSUME FlagOK', NodeOK, CallOK, KernelOK', NEW s \in Sockets, NEW pc \in {"returned", "threw"},
         Done(s, pc), node' = node, \A o \in Sockets : kernel[o].open => kernel'[o].open
  PROVE  IInv'
<1>1. NoneClosed
  BY DEF NoneClosed
<1>2. CallOK'
  BY <1>1, CallEnds
<1>3. NodeOK'
  BY DEF NodeOK
<1> QED BY <1>2, <1>3, Parts, PTL

(* connect(), disconnect() and shutdown().                                 *)
LEMMA ConnectionStep ==
  ASSUME IInv, NEW s \in Sockets,
         \/ \E p \in Paths : Connect(s, p)
         \/ Disconnect(s)
         \/ \E directions \in (SUBSET {"rd", "wr"}) \ {{}} : Shutdown(s, directions)
  PROVE  IInv'
<1> DEFINE PeerTaken ==
             \E new \in Sockets \cup {Nobody} : kernel' = WithPeer(s, new) /\ Done(s, "returned")
           Refused == kernel' = kernel /\ Done(s, "threw")
<1>0. FlagOK /\ NodeOK /\ KernelOK /\ CallOK
  BY Parts
<1>1. FlagOK' /\ node' = node
  BY <1>0 DEF Connect, Disconnect, Shutdown, FlagOK
<1>2. CASE PeerTaken
  <2>1. KernelOK' /\ \A o \in Sockets : kernel'[o].open = kernel[o].open
    BY <1>0, <1>2, PeerBecomes
  <2> QED BY <1>0, <1>1, <1>2, <2>1, EndStep
<1>3. CASE \E directions \in SUBSET {"rd", "wr"} :
             kernel' = [kernel EXCEPT ![s].shut = @ \cup directions] /\ Done(s, "returned")
  <2>1. KernelOK' /\ \A o \in Sockets : kernel'[o].open = kernel[o].open
    BY <1>0, <1>3, DirectionsShut
  <2> QED BY <1>0, <1>1, <1>3, <2>1, EndStep
<1>4. CASE Refused
  <2>1. KernelOK'
    BY <1>0, <1>4, KernelSame
  <2> QED BY <1>0, <1>1, <1>4, <2>1, EndStep
<1>5. (\E p \in Paths : Connect(s, p)) => PeerTaken \/ Refused
  BY DEF Connect
<1> QED BY <1>2, <1>3, <1>4, <1>5 DEF Disconnect, Shutdown

(* The destructor and a constructor.                                       *)
LEMMA LifeStep ==
  ASSUME IInv, NEW s \in Sockets, Destroy(s) \/ Create(s)
  PROVE  IInv'
<1> SUFFICES FlagOK' /\ NodeOK' /\ KernelOK' /\ CallOK'
  BY Parts, PTL
<1>0. FlagOK /\ NodeOK /\ KernelOK /\ CallOK
  BY Parts
<1>1. ASSUME Destroy(s) PROVE FlagOK' /\ NodeOK' /\ KernelOK' /\ CallOK'
  <2>1. FlagOK'
    BY <1>0, <1>1, Zenon DEF Destroy, FlagOK
  <2>2. NodeOK'
    BY <1>0, <1>1, UnixAssumption DEF Destroy, NodeOK, Without
  <2>3. KernelOK' /\ \A o \in Sockets \ {s} : kernel'[o].open = kernel[o].open
    BY <1>0, <1>1, SocketGone
  <2> DEFINE ended == [NoCall EXCEPT !.pc = "returned"]
             c(o) == [call[o] EXCEPT !.target = Without(s, @)]
  <2>4. call' = [o \in Sockets |-> IF o = s THEN ended ELSE c(o)]
    BY <1>1, Zenon DEF Destroy
  <2>5. ended \in CallType /\ ended.pc = "returned"
    BY NoCallType
  <2>6. ASSUME NEW o \in Sockets
        PROVE  /\ c(o) \in CallType /\ c(o).pc = call[o].pc
               /\ c(o).op = call[o].op /\ c(o).path = call[o].path
    BY <1>0 DEF CallOK, CallType, Without
  <2> HIDE DEF ended, c
  <2>7. call' \in [Sockets -> CallType]
    BY <2>4, <2>5, <2>6
  <2>8. \A o \in Sockets : call'[o] = IF o = s THEN ended ELSE c(o)
    BY <2>4
  <2>9. PathKept'
    BY <1>0, <2>5, <2>6, <2>8 DEF CallOK, PathKept
  <2>11. OpenInCall'
    BY <1>0, <2>3, <2>5, <2>6, <2>8 DEF CallOK, OpenInCall, Busy
  <2> QED BY <2>1, <2>2, <2>3, <2>7, <2>9, <2>11 DEF CallOK
<1>2. ASSUME Create(s) PROVE FlagOK' /\ NodeOK' /\ KernelOK' /\ CallOK'
  <2>1. FlagOK'
    BY <1>0, <1>2, Zenon DEF Create, FlagOK
  <2>2. NodeOK'
    BY <1>0, <1>2 DEF Create, NodeOK
  <2>3. KernelOK' /\ \A o \in Sockets : kernel[o].open => kernel'[o].open
    BY <1>0, <1>2, SocketMade DEF Create
  <2>4. NoneClosed
    BY <1>2, <2>3 DEF NoneClosed, Create
  <2> QED BY <1>0, <1>2, <2>1, <2>2, <2>3, <2>4, SameCalls DEF Create
<1> QED BY <1>1, <1>2

(* send() and sendTo(), up to the kernel.                                  *)
LEMMA StartSendStep ==
  ASSUME IInv, NEW s \in Sockets, StartSend(s) \/ \E p \in Paths : StartSendTo(s, p)
  PROVE  IInv'
<1>0. FlagOK /\ NodeOK /\ KernelOK /\ CallOK
  BY Parts
<1>1. /\ node' = node
      /\ kernel' = kernel \/ kernel' = [kernel EXCEPT ![s].err = FALSE]
      /\ peerDisconnected' = peerDisconnected
           \/ peerDisconnected' = [peerDisconnected EXCEPT ![s] = TRUE]
  BY DEF StartSend, StartSendTo
<1>2. FlagOK'
  BY <1>0, <1>1, Zenon DEF FlagOK
<1>3. KernelOK'
  BY <1>0, <1>1, KernelSame, ErrorTaken
<1>4. \A o \in Sockets : kernel'[o].open = kernel[o].open
  <2>1. CASE kernel' = [kernel EXCEPT ![s].err = FALSE]
    BY <1>0, <2>1 DEF KernelOK, KernelType
  <2> QED BY <1>1, <2>1
<1>5. NoneClosed
  BY <1>1, <1>4 DEF NoneClosed
<1>6. CASE \E pc \in {"returned", "threw"} : Done(s, pc)
  BY <1>0, <1>1, <1>2, <1>3, <1>4, <1>6, EndStep
<1>7. ASSUME NEW op \in {"send", "sendTo"}, NEW path \in Paths \cup {Unnamed},
             NEW target \in Sockets \cup {Nobody, Dead}, op = "sendTo" => path \in Paths,
             Enter(s, op, "send", path, target), Callable(s)
      PROVE  IInv'
  <2>1. CallOK'
    BY <1>0, <1>5, <1>7, CallStarts DEF Callable
  <2>2. NodeOK'
    BY <1>0, <1>1 DEF NodeOK
  <2> QED BY <1>2, <1>3, <2>1, <2>2, Parts, PTL
<1>8. kernel[s].peer \in Sockets \cup {Nobody, Dead}
  BY <1>0, KernelFields DEF KernelOK
<1>9. CASE StartSend(s)
  BY <1>6, <1>7, <1>8, <1>9 DEF StartSend
<1>10. CASE \E p \in Paths : StartSendTo(s, p)
  BY <1>6, <1>7, <1>10 DEF StartSendTo
<1> QED BY <1>9, <1>10

(* send() and sendTo(), what the kernel does.                              *)
LEMMA SendStep ==
  ASSUME IInv, NEW s \in Sockets,
         SendTakes(s) \/ SendDenied(s) \/ SendRefused(s) \/ SendLooksUpAgain(s)
  PROVE  IInv'
<1>0. FlagOK /\ NodeOK /\ KernelOK /\ CallOK
  BY Parts
<1>1. node' = node
  BY DEF SendTakes, SendDenied, SendRefused, SendLooksUpAgain
<1>2. CASE SendTakes(s)
  <2> DEFINE o == call[s].target
  <2>1. /\ o \in Sockets /\ FlagOK' /\ Done(s, "returned")
        /\ kernel' = [kernel EXCEPT ![o].queue =
                        Append(@, [sender |-> s, name |-> kernel[s].name])]
    BY <1>0, <1>2 DEF SendTakes, FlagOK
  <2>2. KernelOK'
    BY <1>0, <2>1, DatagramComes
  <2>3. \A x \in Sockets : kernel'[x].open = kernel[x].open
    BY <1>0, <2>1 DEF KernelOK, KernelType
  <2> QED BY <1>0, <1>1, <2>1, <2>2, <2>3, EndStep
<1>3. CASE SendRefused(s)
  <2>1. KernelOK' /\ \A o \in Sockets : kernel'[o].open = kernel[o].open
    BY <1>0, <1>3, PeerBecomes DEF SendRefused
  <2>2. FlagOK'
    BY <1>0, <1>3, Zenon DEF SendRefused, FlagOK
  <2> QED BY <1>0, <1>1, <1>3, <2>1, <2>2, EndStep DEF SendRefused
<1>4. CASE SendDenied(s) \/ SendLooksUpAgain(s)
  <2>1. kernel' = kernel /\ KernelOK' /\ FlagOK'
    BY <1>0, <1>4, KernelSame DEF SendDenied, SendLooksUpAgain, FlagOK
  <2>2. CASE Done(s, "threw")
    BY <1>0, <1>1, <2>1, <2>2, EndStep
  <2>3. CASE /\ call[s].pc = "send" /\ call[s].op = "sendTo" /\ node[call[s].path] \in Sockets
             /\ Enter(s, "sendTo", "send", call[s].path, node[call[s].path])
    <3>1. call[s].path \in Paths /\ kernel[s].open
      BY <1>0, <2>3 DEF CallOK, PathKept, OpenInCall, Busy
    <3>2. NoneClosed
      BY <1>1, <2>1 DEF NoneClosed
    <3>3. CallOK'
      BY <1>0, <2>3, <3>1, <3>2, CallStarts
    <3>4. NodeOK'
      BY <1>0, <1>1 DEF NodeOK
    <3> QED BY <2>1, <3>3, <3>4, Parts, PTL
  <2> QED BY <1>4, <2>2, <2>3 DEF SendDenied, SendLooksUpAgain
<1> QED BY <1>2, <1>3, <1>4
(* The calls that receive.                                                 *)
LEMMA ReceiveStep ==
  ASSUME IInv, NEW s \in Sockets,
         \/ StartReceive(s) \/ StartTimedReceive(s) \/ PollTimesOut(s) \/ PollReturns(s)
         \/ RecvTakes(s) \/ RecvThrows(s) \/ RecvEnds(s)
  PROVE  IInv'
<1>0. FlagOK /\ NodeOK /\ KernelOK /\ CallOK
  BY Parts
<1>1. node' = node
  BY DEF StartReceive, StartTimedReceive, PollTimesOut, PollReturns, RecvTakes, RecvThrows, RecvEnds
<1>2. FlagOK'
  <2>1. CASE UNCHANGED peerDisconnected
    BY <1>0, <2>1 DEF FlagOK
  <2>2. CASE PollReturns(s)
    <3>1. POLLRDHUP(s) \in BOOLEAN
      BY DEF POLLRDHUP
    <3>2. peerDisconnected[s] \/ POLLRDHUP(s) \in BOOLEAN
      BY <1>0, <3>1, Zenon DEF FlagOK
    <3> QED BY <1>0, <2>2, <3>2, Zenon DEF PollReturns, FlagOK
  <2> QED BY <2>1, <2>2
          DEF StartReceive, StartTimedReceive, PollTimesOut, RecvTakes, RecvThrows, RecvEnds
<1>3. KernelOK' /\ \A o \in Sockets : kernel'[o].open = kernel[o].open
  <2>1. CASE UNCHANGED kernel
    BY <1>0, <2>1, KernelSame
  <2>2. CASE RecvTakes(s)
    <3>1. KernelOK'
      BY <1>0, <2>2, DatagramTaken DEF RecvTakes
    <3>2. \A o \in Sockets : kernel'[o].open = kernel[o].open
      BY <1>0, <2>2 DEF RecvTakes, KernelOK, KernelType
    <3> QED BY <3>1, <3>2
  <2>3. CASE RecvThrows(s)
    <3>1. KernelOK'
      BY <1>0, <2>3, ErrorTaken DEF RecvThrows
    <3>2. \A o \in Sockets : kernel'[o].open = kernel[o].open
      BY <1>0, <2>3 DEF RecvThrows, KernelOK, KernelType
    <3> QED BY <3>1, <3>2
  <2> QED BY <2>1, <2>2, <2>3
          DEF StartReceive, StartTimedReceive, PollTimesOut, PollReturns, RecvEnds
<1>4. CASE \E pc \in {"returned", "threw"} : Done(s, pc)
  BY <1>0, <1>1, <1>2, <1>3, <1>4, EndStep
<1>5. CASE \E op \in {"receive", "receiveFrom", "timedReceive", "timedReceiveFrom"},
              pc \in {"poll", "recv"} : Enter(s, op, pc, Unnamed, Nobody) /\ kernel[s].open
  <2>1. NoneClosed
    BY <1>1, <1>3 DEF NoneClosed
  <2>2. CallOK'
    BY <1>0, <1>5, <2>1, CallStarts
  <2>3. NodeOK'
    BY <1>0, <1>1 DEF NodeOK
  <2> QED BY <1>2, <1>3, <2>2, <2>3, Parts, PTL
<1>6. Busy(s) => kernel[s].open
  BY <1>0 DEF CallOK, OpenInCall
<1>7. CASE StartReceive(s) \/ StartTimedReceive(s)
  BY <1>5, <1>7 DEF StartReceive, StartTimedReceive, Callable
<1>8. CASE PollReturns(s)
  BY <1>4, <1>5, <1>6, <1>8 DEF PollReturns, Busy
<1>9. CASE PollTimesOut(s) \/ RecvTakes(s) \/ RecvThrows(s) \/ RecvEnds(s)
  BY <1>4, <1>9 DEF PollTimesOut, RecvTakes, RecvThrows, RecvEnds
<1> QED BY <1>7, <1>8, <1>9

-----------------------------------------------------------------------------
(* The theorems.                                                           *)

(* The inductive invariant.                                                *)
THEOREM Inductive == Spec => []IInv
<1>1. Init => IInv
  BY InitIInv
<1>2. IInv /\ [Next]_vars => IInv'
  <2> SUFFICES ASSUME IInv, [Next]_vars PROVE IInv'
    OBVIOUS
  <2>1. CASE UNCHANGED vars
    <3>1. FlagOK /\ NodeOK /\ KernelOK /\ CallOK
      BY Parts
    <3>2. NoneClosed
      BY <2>1 DEF vars, NoneClosed
    <3>3. FlagOK' /\ NodeOK' /\ KernelOK' /\ CallOK'
      BY <2>1, <3>1, <3>2, KernelSame, SameCalls DEF vars, FlagOK, NodeOK
    <3> QED BY <3>3, Parts, PTL
  <2>2. ASSUME NEW p \in Paths, OthersChange(p) PROVE IInv'
    <3>1. FlagOK /\ NodeOK /\ KernelOK /\ CallOK
      BY Parts
    <3>2. NoneClosed /\ NodeOK'
      BY <2>2, <3>1 DEF OthersChange, NoneClosed, NodeOK
    <3>3. FlagOK' /\ KernelOK' /\ CallOK'
      BY <2>2, <3>1, <3>2, KernelSame, SameCalls DEF OthersChange, FlagOK
    <3> QED BY <3>2, <3>3, Parts, PTL
  <2>3. CASE \E s \in Sockets :
               \/ \E p \in Paths : StartBind(s, p) \/ Connect(s, p) \/ StartSendTo(s, p)
               \/ Disconnect(s) \/ Destroy(s) \/ Create(s)
               \/ \E directions \in (SUBSET {"rd", "wr"}) \ {{}} : Shutdown(s, directions)
               \/ StartSend(s) \/ StartReceive(s) \/ StartTimedReceive(s)
               \/ CallStep(s)
    <3>1. PICK s \in Sockets :
            \/ \E p \in Paths : StartBind(s, p) \/ Connect(s, p) \/ StartSendTo(s, p)
            \/ Disconnect(s) \/ Destroy(s) \/ Create(s)
            \/ \E directions \in (SUBSET {"rd", "wr"}) \ {{}} : Shutdown(s, directions)
            \/ StartSend(s) \/ StartReceive(s) \/ StartTimedReceive(s)
            \/ CallStep(s)
      BY <2>3
    <3>2. CASE (\E p \in Paths : StartBind(s, p)) \/ BindEnds(s)
      BY <3>2, BindStep
    <3>3. CASE \/ \E p \in Paths : Connect(s, p)
               \/ Disconnect(s)
               \/ \E directions \in (SUBSET {"rd", "wr"}) \ {{}} : Shutdown(s, directions)
      BY <3>3, ConnectionStep
    <3>4. CASE Destroy(s) \/ Create(s)
      BY <3>4, LifeStep
    <3>5. CASE StartSend(s) \/ \E p \in Paths : StartSendTo(s, p)
      BY <3>5, StartSendStep
    <3>6. CASE SendTakes(s) \/ SendDenied(s) \/ SendRefused(s) \/ SendLooksUpAgain(s)
      BY <3>6, SendStep
    <3>7. CASE \/ StartReceive(s) \/ StartTimedReceive(s) \/ PollTimesOut(s) \/ PollReturns(s)
               \/ RecvTakes(s) \/ RecvThrows(s) \/ RecvEnds(s)
      BY <3>7, ReceiveStep
    <3> QED BY <3>1, <3>2, <3>3, <3>4, <3>5, <3>6, <3>7 DEF CallStep
  <2> QED BY <2>1, <2>2, <2>3 DEF Next
<1> QED BY <1>1, <1>2, PTL DEF Spec

(* All variables have their types.                                         *)
THEOREM TypeCorrect == Spec => []TypeOK
<1>1. IInv => TypeOK
  BY DEF IInv
<1> QED BY <1>1, Inductive, PTL

(* A living socket loses its path to a bind() of that path or to other     *)
(* programs; no destructor and no bind() that fails removes what others    *)
(* have bound since.                                                       *)
THEOREM PathSafe == Spec => PathIsKept
<1>1. IInv /\ [Next]_vars =>
        [\A s \in Sockets, p \in Paths :
           node[p] = s /\ node'[p] # s =>
             ~kernel'[s].open \/ OthersChange(p) \/ \E r \in Sockets : Binds(r, p)]_vars
  <2> SUFFICES ASSUME IInv, Next, NEW s \in Sockets, NEW p \in Paths,
                      node[p] = s, node'[p] # s
               PROVE  \/ ~kernel'[s].open \/ OthersChange(p)
                      \/ \E r \in Sockets : Binds(r, p)
    BY DEF vars
  <2>0. NodeOK /\ KernelOK /\ CallOK
    BY Parts
  <2>1. ASSUME NEW q \in Paths, OthersChange(q) PROVE OthersChange(p)
    BY <2>0, <2>1 DEF OthersChange, NodeOK
  <2>2. ASSUME NEW t \in Sockets, NEW q \in Paths, StartBind(t, q)
        PROVE  \E r \in Sockets : Binds(r, p)
    <3>1. p = q
      BY <2>0, <2>2 DEF StartBind, NodeOK
    <3>2. ~Busy(t) /\ call'[t].pc = "bind" /\ call'[t].path = q
      BY <2>0, <2>2 DEF StartBind, Callable, Enter, CallOK
    <3> QED BY <3>1, <3>2 DEF Binds
  <2>3. ASSUME NEW t \in Sockets, BindEnds(t) PROVE FALSE
    BY <2>0, <2>3, UnixAssumption DEF BindEnds, NodeOK
  <2>4. ASSUME NEW t \in Sockets, Destroy(t) PROVE ~kernel'[s].open
    <3>1. s = t
      BY <2>4 DEF Destroy, Without
    <3>2. kernel'[s] = [NewSocket EXCEPT !.open = FALSE]
      BY <2>4, <3>1, Zenon DEF Destroy
    <3> QED BY <3>2 DEF NewSocket
  <2>5. node' # node
    OBVIOUS
  <2> QED BY <2>1, <2>2, <2>3, <2>4, <2>5
          DEF Next, Connect, StartSendTo, Disconnect, Create, Shutdown, StartSend,
              StartReceive, StartTimedReceive, CallStep, SendTakes, SendDenied,
              SendRefused, SendLooksUpAgain, PollTimesOut, PollReturns, RecvTakes,
              RecvThrows, RecvEnds
<1> QED BY <1>1, Inductive, PTL DEF Spec, PathIsKept

(* The flag is raised for an error of the peer, a peer that is closed, or  *)
(* the socket's own shutdown().                                            *)
THEOREM FlagIsTrue == Spec => FlagHasReason
<1>1. IInv /\ [Next]_vars =>
        [\A s \in Sockets :
           ~peerDisconnected[s] /\ peerDisconnected'[s] =>
             kernel[s].err \/ kernel[s].peer = Dead \/ "rd" \in kernel[s].shut]_vars
  <2> SUFFICES ASSUME IInv, Next, NEW s \in Sockets, ~peerDisconnected[s], peerDisconnected'[s]
               PROVE  kernel[s].err \/ kernel[s].peer = Dead \/ "rd" \in kernel[s].shut
    BY DEF vars
  <2>1. peerDisconnected \in [Sockets -> BOOLEAN]
    BY DEF IInv, TypeOK
  <2>2. PICK t \in Sockets :
          \/ \E p \in Paths : StartBind(t, p) \/ Connect(t, p) \/ StartSendTo(t, p)
          \/ Disconnect(t) \/ Destroy(t) \/ Create(t)
          \/ \E directions \in (SUBSET {"rd", "wr"}) \ {{}} : Shutdown(t, directions)
          \/ StartSend(t) \/ StartReceive(t) \/ StartTimedReceive(t)
          \/ CallStep(t)
    BY DEF Next, OthersChange
  <2>3. peerDisconnected' # peerDisconnected
    OBVIOUS
  <2>4. ~(Destroy(t) \/ Create(t))
    BY <2>1 DEF Destroy, Create
  <2>5. StartSend(t) \/ SendRefused(t) \/ PollReturns(t)
    BY <2>2, <2>3, <2>4
       DEF StartBind, Connect, StartSendTo, Disconnect, Shutdown, StartReceive, StartTimedReceive,
           CallStep, BindEnds, SendTakes, SendDenied, SendLooksUpAgain, PollTimesOut, RecvTakes,
           RecvThrows, RecvEnds
  <2>6. CASE StartSend(t)
    BY <2>1, <2>3, <2>6 DEF StartSend
  <2>7. CASE SendRefused(t)
    BY <2>1, <2>3, <2>7 DEF SendRefused
  <2>8. CASE PollReturns(t)
    <3>1. peerDisconnected' = [peerDisconnected EXCEPT ![t] = @ \/ POLLRDHUP(t)]
      BY <2>8 DEF PollReturns
    <3>2. CASE POLLRDHUP(t)
      BY <2>1, <3>1, <3>2 DEF POLLRDHUP
    <3>3. CASE ~POLLRDHUP(t)
      BY <2>1, <3>1, <3>3
    <3> QED BY <3>2, <3>3
  <2> QED BY <2>5, <2>6, <2>7, <2>8
<1> QED BY <1>1, Inductive, PTL DEF Spec, FlagHasReason

(* A call that throws takes a datagram only if its sender has no name, and *)
(* that was asked for; or sendTo() gives up a peer that is gone.           *)
THEOREM Lost == Spec => LostOnlyIfUnnamed
<1>1. IInv /\ [Next]_vars =>
        [\A s \in Sockets :
           Throws(s) /\ kernel'[s].queue # kernel[s].queue =>
             \/ NeedsPath(s) /\ OfUnnamed(Head(kernel[s].queue))
             \/ call[s].op = "sendTo" /\ kernel[s].peer = Dead]_vars
  <2> SUFFICES ASSUME IInv, Next, NEW s \in Sockets, Throws(s),
                      kernel'[s].queue # kernel[s].queue
               PROVE  \/ NeedsPath(s) /\ OfUnnamed(Head(kernel[s].queue))
                      \/ call[s].op = "sendTo" /\ kernel[s].peer = Dead
    BY DEF vars, Throws
  <2>0. KernelOK /\ CallOK
    BY Parts
  <2>1. PICK t \in Sockets :
          \/ \E p \in Paths : StartBind(t, p) \/ Connect(t, p) \/ StartSendTo(t, p)
          \/ Disconnect(t) \/ Destroy(t) \/ Create(t)
          \/ \E directions \in (SUBSET {"rd", "wr"}) \ {{}} : Shutdown(t, directions)
          \/ StartSend(t) \/ StartReceive(t) \/ StartTimedReceive(t)
          \/ CallStep(t)
    BY DEF Next, OthersChange, Throws
  <2>2. Busy(s) /\ ~Callable(s) /\ call'[s].pc = "threw" /\ call[s].pc # "threw"
    BY DEF Throws, Busy, Callable
  <2>3. ASSUME t # s PROVE FALSE
    <3>1. CASE Destroy(t)
      BY <2>0, <2>2, <2>3, <3>1 DEF Destroy, CallOK, CallType
    <3>2. CASE UNCHANGED call
      BY <2>2, <3>2
    <3>3. CASE \E c : call' = [call EXCEPT ![t] = c]
      BY <2>0, <2>2, <2>3, <3>3 DEF CallOK
    <3> QED BY <2>1, <3>1, <3>2, <3>3
            DEF StartBind, Connect, StartSendTo, Disconnect, Create, Shutdown, StartSend,
                StartReceive, StartTimedReceive, CallStep, BindEnds, SendTakes, SendDenied,
                SendRefused, SendLooksUpAgain, PollTimesOut, PollReturns, RecvTakes, RecvThrows,
                RecvEnds, Enter, Done
  <2>4. CallStep(s) \/ Create(s)
    BY <2>1, <2>2, <2>3
       DEF StartBind, Connect, StartSendTo, Disconnect, Destroy, Shutdown, StartSend,
           StartReceive, StartTimedReceive
  <2>5. ~Create(s)
    BY <2>2 DEF Create
  <2>6. ~(SendTakes(s) \/ PollTimesOut(s) \/ PollReturns(s))
    BY <2>0, <2>2 DEF SendTakes, PollTimesOut, PollReturns, Done, Enter, NoCall, CallOK
  <2>7. CASE BindEnds(s)
    <3>1. Done(s, "threw") /\ UNCHANGED kernel
      BY <2>0, <2>2, <2>7 DEF BindEnds, Done, NoCall, CallOK
    <3> QED BY <3>1
  <2>8. CASE SendRefused(s)
    <3>1. call[s].op = "sendTo" /\ kernel[s].peer = Dead
      BY <2>0, <2>2, <2>8 DEF SendRefused, Done, NoCall, CallOK
    <3> QED BY <3>1
  <2>9. CASE RecvThrows(s)
    BY <2>0, <2>9, ErrorTaken DEF RecvThrows
  <2>10. CASE RecvTakes(s)
    <3> DEFINE d == Head(kernel[s].queue)
    <3>1. kernel[s].queue \in Seq(Datagram) /\ kernel[s].queue # <<>>
      BY <2>0, <2>10, KernelFields DEF RecvTakes, KernelOK
    <3>2. 1 \in DOMAIN kernel[s].queue /\ d = kernel[s].queue[1]
      BY <3>1
    <3>3. NeedsPath(s) /\ d.name = Unnamed
      BY <2>0, <2>2, <2>10 DEF RecvTakes, Done, NoCall, CallOK, ExtractPathThrows
    <3>4. d.sender \in Sockets => d.name = kernel[d.sender].name
      BY <2>0, <3>2 DEF KernelOK, NamesAreTrue
    <3> QED BY <3>3, <3>4 DEF OfUnnamed
  <2>11. CASE SendDenied(s) \/ SendLooksUpAgain(s) \/ RecvEnds(s)
    BY <2>11 DEF SendDenied, SendLooksUpAgain, RecvEnds
  <2> QED BY <2>4, <2>5, <2>6, <2>7, <2>8, <2>9, <2>10, <2>11 DEF CallStep
<1> QED BY <1>1, Inductive, PTL DEF Spec, LostOnlyIfUnnamed
=============================================================================
