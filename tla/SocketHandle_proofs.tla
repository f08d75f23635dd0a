------------------------- MODULE SocketHandle_proofs -------------------------
(***************************************************************************)
(* Proofs about SocketHandle for any number of threads, objects and        *)
(* descriptors.  IInv, the inductive invariant, adds to the ownership       *)
(* invariants what is known of the operations in progress: an object is in *)
(* at most one of them, and it still names the descriptor being closed.    *)
(***************************************************************************)
EXTENDS SocketHandle, TLAPS

-----------------------------------------------------------------------------
(* The four ways in which holdings change.                                  *)

HoldsNothing(x) == \A fd \in Fds : ~Holds(x, fd)

Kept ==
  /\ UNCHANGED open
  /\ \A x \in Owners, fd \in Fds : Holds(x, fd)' <=> Holds(x, fd)

Acquired(o, f) ==
  /\ f \notin open /\ open' = open \cup {f}
  /\ HoldsNothing(o)
  /\ \A x \in Owners, fd \in Fds : Holds(x, fd)' <=> Holds(x, fd) \/ (x = o /\ fd = f)

Moved(o, p) ==
  /\ UNCHANGED open
  /\ HoldsNothing(p)
  /\ \A x \in Owners, fd \in Fds :
       Holds(x, fd)' <=> (Holds(x, fd) /\ x # o) \/ (x = p /\ Holds(o, fd))

Closed(o, f) ==
  /\ Holds(o, f) /\ open' = open \ {f}
  /\ \A x \in Owners, fd \in Fds : Holds(x, fd)' <=> Holds(x, fd) /\ fd # f

HoldingsStep ==
  \/ Kept
  \/ \E o, p \in Owners : Moved(o, p)
  \/ \E o \in Owners, f \in Fds : Acquired(o, f) \/ Closed(o, f)

(* Each of them preserves ownership.                                       *)
LEMMA HoldingsStepOwnership ==
  ASSUME Ownership, open \in SUBSET Fds, HoldingsStep
  PROVE  Ownership'
<1> USE DEF Ownership, AtMostOneOwner, HeldIsOpen, OpenIsHeld
<1>1. CASE Kept
  BY <1>1 DEF Kept
<1>2. ASSUME NEW o \in Owners, NEW p \in Owners, Moved(o, p) PROVE Ownership'
  BY <1>2 DEF Moved
<1>3. ASSUME NEW o \in Owners, NEW f \in Fds, Acquired(o, f) PROVE Ownership'
  BY <1>3 DEF Acquired
<1>4. ASSUME NEW o \in Owners, NEW f \in Fds, Closed(o, f) PROVE Ownership'
  BY <1>4 DEF Closed
<1> QED BY <1>1, <1>2, <1>3, <1>4 DEF HoldingsStep

-----------------------------------------------------------------------------
LEMMA InitIInv == Init => IInv
BY DistinctAssumption
DEF Init, IInv, TypeOK, CallOK, BusyOnce, SocketsAreValid, Ownership,
    AtMostOneOwner, HeldIsOpen, OpenIsHeld, Holds, Idle, CallType, Objects, Owners

(* ::accept() and ::socket() give a fresh descriptor to a new object.      *)
LEMMA OpenIntoIInv ==
  ASSUME IInv, NEW o \in Objects, NEW f \in Fds, OpenInto(o, f), UNCHANGED call
  PROVE  IInv' /\ HoldingsStep
<1>1. TypeOK' /\ CallOK' /\ BusyOnce' /\ SocketsAreValid'
  BY DistinctAssumption
  DEF IInv, OpenInto, Unconstructed, TypeOK, CallOK, BusyOnce, SocketsAreValid, Objects, Idle, CallType
<1>2. \A x \in Owners, fd \in Fds : Holds(x, fd)' <=> Holds(x, fd) \/ (x = o /\ fd = f)
  BY DistinctAssumption
  DEF IInv, OpenInto, Unconstructed, TypeOK, CallOK, Holds, Discarded, Objects, Owners, Idle
<1>3. HoldsNothing(o)
  BY DistinctAssumption DEF OpenInto, Unconstructed, HoldsNothing, Holds, Objects
<1>4. HoldingsStep
  BY <1>2, <1>3 DEF OpenInto, HoldingsStep, Acquired, Owners
<1> QED BY <1>1, <1>4, HoldingsStepOwnership DEF IInv, TypeOK

(* ... and the socket of a constructor that throws is destroyed.           *)
LEMMA CreateSCTPSocketThrowsIInv ==
  ASSUME IInv, NEW t \in Threads, NEW s \in Sockets, NEW f \in Fds,
         CreateSCTPSocketThrows(t, s, f)
  PROVE  IInv' /\ HoldingsStep
<1> USE DEF IInv, CreateSCTPSocketThrows, OpenInto, Unconstructed, TypeOK, CallOK, Objects, Idle
<1>1. TypeOK' /\ CallOK' /\ BusyOnce' /\ SocketsAreValid'
  BY DistinctAssumption DEF BusyOnce, SocketsAreValid, CallType
<1>2. \A x \in Owners, fd \in Fds : Holds(x, fd)' <=> Holds(x, fd) \/ (x = s /\ fd = f)
  BY DistinctAssumption DEF Holds, Discarded, Owners
<1>3. HoldsNothing(s)
  BY DistinctAssumption DEF HoldsNothing, Holds
<1>4. HoldingsStep
  BY <1>2, <1>3 DEF HoldingsStep, Acquired, Owners
<1> QED BY <1>1, <1>4, HoldingsStepOwnership

-----------------------------------------------------------------------------
(* A handle without a descriptor changes nothing.                          *)
LEMMA ConstructInvalidIInv ==
  ASSUME IInv, NEW h \in Handles, ConstructInvalid(h)
  PROVE  IInv' /\ HoldingsStep
<1> USE DEF IInv, ConstructInvalid, Unconstructed, TypeOK, CallOK, Objects
<1>1. TypeOK' /\ CallOK' /\ BusyOnce' /\ SocketsAreValid'
  BY DistinctAssumption DEF BusyOnce, SocketsAreValid
<1>2. \A x \in Owners, fd \in Fds : Holds(x, fd)' <=> Holds(x, fd)
  BY DistinctAssumption DEF Holds, Discarded, Owners
<1> QED BY <1>1, <1>2, HoldingsStepOwnership DEF HoldingsStep, Kept

(* A copy takes the descriptor out of the original.                        *)
LEMMA CopyConstructIInv ==
  ASSUME IInv, NEW h \in Handles, NEW g \in Handles, CopyConstruct(h, g)
  PROVE  IInv' /\ HoldingsStep
<1> USE DEF IInv, CopyConstruct, Unconstructed, Usable, Released, TypeOK, CallOK, Objects
<1>1. TypeOK' /\ CallOK' /\ BusyOnce' /\ SocketsAreValid'
  BY DistinctAssumption DEF BusyOnce, SocketsAreValid
<1>2. \A x \in Owners, fd \in Fds :
        Holds(x, fd)' <=> (Holds(x, fd) /\ x # g) \/ (x = h /\ Holds(g, fd))
  BY DistinctAssumption DEF Holds, Discarded, Owners, Idle
<1>3. HoldsNothing(h)
  BY DistinctAssumption DEF HoldsNothing, Holds
<1>4. HoldingsStep
  BY <1>2, <1>3 DEF HoldingsStep, Moved, Owners
<1> QED BY <1>1, <1>4, HoldingsStepOwnership

(* A socket takes the descriptor out of the handle, if there is one.       *)
LEMMA ConstructSocketIInv ==
  ASSUME IInv, NEW s \in Sockets, NEW h \in Handles, ConstructSocket(s, h)
  PROVE  IInv' /\ HoldingsStep
<1> USE DEF IInv, ConstructSocket, Unconstructed, Usable, Released, TypeOK, CallOK, Objects
<1>1. TypeOK' /\ CallOK' /\ BusyOnce' /\ SocketsAreValid'
  BY DistinctAssumption DEF BusyOnce, SocketsAreValid
<1>2. \A x \in Owners, fd \in Fds :
        Holds(x, fd)' <=> (Holds(x, fd) /\ x # h) \/ (x = s /\ Holds(h, fd))
  BY DistinctAssumption DEF Holds, Discarded, Owners, Idle
<1>3. HoldsNothing(s)
  BY DistinctAssumption DEF HoldsNothing, Holds
<1>4. HoldingsStep
  BY <1>2, <1>3 DEF HoldingsStep, Moved, Owners
<1> QED BY <1>1, <1>4, HoldingsStepOwnership

(* An assignment moves the descriptor at once, or leaves it with the       *)
(* thread while the old descriptor of the handle is closed.                *)
LEMMA AssignIInv ==
  ASSUME IInv, NEW t \in Threads, NEW h \in Handles, NEW g \in Handles, Assign(t, h, g)
  PROVE  IInv' /\ HoldingsStep
<1> USE DEF IInv, Assign, Usable, TypeOK, CallOK, Objects, Idle
<1> DEFINE s == [sockfd EXCEPT ![g] = NoFd]
<1>1. /\ s \in [Objects -> Fds \cup {NoFd, Absent}]
      /\ s[g] = NoFd
      /\ h # g => s[h] = sockfd[h]
      /\ Reset(t, h, sockfd[g], s)
  BY DEF Released
<1>2. CASE sockfd' = [s EXCEPT ![h] = sockfd[g]] /\ UNCHANGED call /\ h = g
  <2>1. sockfd' = sockfd
    BY <1>2
  <2>2. TypeOK' /\ CallOK' /\ BusyOnce' /\ SocketsAreValid'
    BY <1>2, <2>1 DEF BusyOnce, SocketsAreValid
  <2>3. \A x \in Owners, fd \in Fds : Holds(x, fd)' <=> Holds(x, fd)
    BY <1>2, <2>1 DEF Holds, Discarded
  <2> QED BY <2>2, <2>3, HoldingsStepOwnership DEF HoldingsStep, Kept
<1>3. CASE /\ sockfd[g] = s[h] \/ s[h] = NoFd
           /\ sockfd' = [s EXCEPT ![h] = sockfd[g]] /\ UNCHANGED call
           /\ h # g
  <2>1. sockfd[h] = NoFd
    <3>1. \A o \in {g, h}, fd \in Fds : sockfd[o] = fd => Holds(o, fd)
      BY DEF Holds, Discarded
    <3>2. sockfd[g] = sockfd[h] => sockfd[g] \notin Fds
      BY <1>3, <3>1 DEF Ownership, AtMostOneOwner, Owners
    <3> QED BY <1>1, <1>3, <3>2
  <2>2. TypeOK' /\ CallOK' /\ BusyOnce' /\ SocketsAreValid'
    BY <1>3, DistinctAssumption DEF BusyOnce, SocketsAreValid
  <2>3. \A x \in Owners, fd \in Fds :
          Holds(x, fd)' <=> (Holds(x, fd) /\ x # g) \/ (x = h /\ Holds(g, fd))
    BY <1>3, <2>1, DistinctAssumption DEF Holds, Discarded, Owners
  <2>4. HoldsNothing(h)
    BY <2>1, DistinctAssumption DEF HoldsNothing, Holds
  <2>5. HoldingsStep
    BY <2>3, <2>4 DEF HoldingsStep, Moved, Owners
  <2> QED BY <2>2, <2>5, HoldingsStepOwnership
<1>4. CASE /\ s[h] # NoFd
           /\ sockfd' = s
           /\ call' = [call EXCEPT ![t] = [pc |-> "close", obj |-> h, new |-> sockfd[g]]]
  <2>1. h # g /\ sockfd[h] \in Fds /\ sockfd'[h] = sockfd[h]
    BY <1>1, <1>4
  <2>2. TypeOK' /\ CallOK' /\ BusyOnce' /\ SocketsAreValid'
    BY <1>4, <2>1, DistinctAssumption DEF BusyOnce, SocketsAreValid, CallType
  <2>3. \A x \in Owners, fd \in Fds :
          Holds(x, fd)' <=> (Holds(x, fd) /\ x # g) \/ (x = t /\ Holds(g, fd))
    BY <1>4, <2>1, DistinctAssumption DEF Holds, Discarded, Owners
  <2>4. HoldsNothing(t)
    BY DistinctAssumption DEF HoldsNothing, Holds
  <2>5. HoldingsStep
    BY <2>3, <2>4 DEF HoldingsStep, Moved, Owners
  <2> QED BY <2>2, <2>5, HoldingsStepOwnership
<1> QED BY <1>1, <1>2, <1>3, <1>4 DEF Reset

-----------------------------------------------------------------------------
(* An object that is being destroyed holds its descriptor until ::close(). *)
LEMMA DestroyHandleIInv ==
  ASSUME IInv, NEW t \in Threads, NEW h \in Handles, DestroyHandle(t, h)
  PROVE  IInv' /\ HoldingsStep
<1> USE DEF IInv, DestroyHandle, Usable, TypeOK, CallOK, Objects, Idle
<1>1. TypeOK' /\ CallOK' /\ BusyOnce' /\ SocketsAreValid'
  BY DistinctAssumption DEF BusyOnce, SocketsAreValid, CallType
<1>2. \A x \in Owners, fd \in Fds : Holds(x, fd)' <=> Holds(x, fd)
  BY DistinctAssumption DEF Holds, Discarded, Owners
<1> QED BY <1>1, <1>2, HoldingsStepOwnership DEF HoldingsStep, Kept

LEMMA DestroySocketIInv ==
  ASSUME IInv, NEW t \in Threads, NEW s \in Sockets, DestroySocket(t, s)
  PROVE  IInv' /\ HoldingsStep
<1> USE DEF IInv, DestroySocket, Usable, TypeOK, CallOK, Objects, Idle
<1>1. TypeOK' /\ CallOK' /\ BusyOnce' /\ SocketsAreValid'
  BY DistinctAssumption DEF BusyOnce, SocketsAreValid, CallType
<1>2. \A x \in Owners, fd \in Fds : Holds(x, fd)' <=> Holds(x, fd)
  BY DistinctAssumption DEF Holds, Discarded, Owners
<1> QED BY <1>1, <1>2, HoldingsStepOwnership DEF HoldingsStep, Kept

(* The kernel has closed the descriptor of the object thread t operates on.*)
LEMMA ClosedIInv ==
  ASSUME IInv, NEW t \in Threads,
         call[t].pc = "close",
         open' = open \ {ClosingFd(t)},
         call' = [call EXCEPT ![t].pc = "return"],
         UNCHANGED sockfd
  PROVE  IInv' /\ HoldingsStep
<1> USE DEF IInv, ClosingFd, TypeOK, CallOK, Objects
<1> DEFINE o == call[t].obj
           f == sockfd[o]
<1>1. o \in Objects /\ f \in Fds
  BY DEF Idle
<1>2. TypeOK' /\ CallOK' /\ BusyOnce' /\ SocketsAreValid'
  BY DEF BusyOnce, SocketsAreValid, CallType, Idle
<1>3. Holds(o, f)
  BY <1>1 DEF Holds, Discarded, BusyOnce
<1>4. \A x \in Owners, fd \in Fds : Holds(x, fd)' <=> Holds(x, fd) /\ x # o
  BY <1>1, DistinctAssumption DEF Holds, Discarded, Owners, CallType
<1>5. \A x \in Owners, fd \in Fds : Holds(x, fd) => (x = o <=> fd = f)
  BY <1>1, <1>3, DistinctAssumption DEF Ownership, AtMostOneOwner, Owners, Holds
<1>6. HoldingsStep
  BY <1>1, <1>3, <1>4, <1>5 DEF HoldingsStep, Closed, Owners
<1> QED BY <1>2, <1>6, HoldingsStepOwnership

(* An interrupted ::close() changes nothing and is repeated, or has closed *)
(* the descriptor and is not.                                              *)
LEMMA CloseInterruptedIInv ==
  ASSUME IInv, NEW t \in Threads, CloseInterrupted(t)
  PROVE  IInv' /\ HoldingsStep
<1>1. CASE EINTRFromClose = "released"
  BY <1>1, ClosedIInv, CloseAssumption DEF CloseInterrupted
<1>2. CASE EINTRFromClose = "stillOpen"
  <2>1. UNCHANGED vars
    BY <1>2, CloseAssumption DEF CloseInterrupted, IInv, TypeOK, CallType, vars
  <2> QED BY <2>1 DEF vars, IInv, TypeOK, CallOK, BusyOnce, SocketsAreValid, Ownership,
                      AtMostOneOwner, HeldIsOpen, OpenIsHeld, Holds, Discarded,
                      HoldingsStep, Kept
<1> QED BY <1>1, <1>2, CloseAssumption DEF CloseInterrupted

(* What the thread held during ::close() goes to the object.               *)
LEMMA CloseReturnsIInv ==
  ASSUME IInv, NEW t \in Threads, CloseReturns(t)
  PROVE  IInv' /\ HoldingsStep
<1> USE DEF IInv, CloseReturns, TypeOK, CallOK, Objects
<1> DEFINE o == call[t].obj
<1>1. o \in Objects
  BY DEF Idle
<1>2. TypeOK' /\ CallOK' /\ BusyOnce' /\ SocketsAreValid'
  <2>1. TypeOK'
    BY <1>1 DEF CallType, Idle
  <2>2. \A u \in Threads \ {t} : call'[u] = call[u] /\ call[u].obj # o
    BY <1>1 DEF BusyOnce
  <2>3. CallOK' /\ BusyOnce'
    BY <1>1, <2>2, DistinctAssumption DEF BusyOnce, Idle, Owners
  <2>4. SocketsAreValid'
    BY <1>1, DistinctAssumption DEF SocketsAreValid, Idle
  <2> QED BY <2>1, <2>3, <2>4
<1>3. \A x \in Owners, fd \in Fds :
        Holds(x, fd)' <=> (Holds(x, fd) /\ x # t) \/ (x = o /\ Holds(t, fd))
  BY <1>1, DistinctAssumption DEF Holds, Discarded, Owners, Idle, BusyOnce, CallType
<1>4. HoldsNothing(o)
  BY <1>1, DistinctAssumption DEF HoldsNothing, Holds, Discarded
<1>5. HoldingsStep
  BY <1>1, <1>3, <1>4 DEF HoldingsStep, Moved, Owners
<1> QED BY <1>2, <1>5, HoldingsStepOwnership

-----------------------------------------------------------------------------
LEMMA NextIInv == IInv /\ [Next]_vars => IInv' /\ HoldingsStep
<1> SUFFICES ASSUME IInv, [Next]_vars PROVE IInv' /\ HoldingsStep
  OBVIOUS
<1>1. CASE HandleStep
  <2> PICK h \in Handles :
        \/ ConstructInvalid(h)
        \/ \E fd \in Fds : Accept(h, fd)
        \/ \E g \in Handles : CopyConstruct(h, g)
        \/ \E g \in Handles, t \in Threads : Assign(t, h, g)
        \/ \E t \in Threads : DestroyHandle(t, h)
    BY <1>1 DEF HandleStep
  <2> QED BY ConstructInvalidIInv, OpenIntoIInv, CopyConstructIInv, AssignIInv, DestroyHandleIInv
          DEF Accept, Objects
<1>2. CASE SocketStep
  <2> PICK s \in Sockets :
        \/ \E fd \in Fds : CreateSocket(s, fd)
        \/ \E fd \in Fds, t \in Threads : CreateSCTPSocketThrows(t, s, fd)
        \/ \E h \in Handles : ConstructSocket(s, h)
        \/ \E t \in Threads : DestroySocket(t, s)
    BY <1>2 DEF SocketStep
  <2> QED BY OpenIntoIInv, CreateSCTPSocketThrowsIInv, ConstructSocketIInv, DestroySocketIInv
          DEF CreateSocket, Objects
<1>3. CASE CloseStep
  <2> PICK t \in Threads : CloseSucceeds(t) \/ CloseInterrupted(t) \/ CloseReturns(t)
    BY <1>3 DEF CloseStep
  <2> QED BY ClosedIInv, CloseInterruptedIInv, CloseReturnsIInv DEF CloseSucceeds
<1>4. CASE UNCHANGED vars
  BY <1>4 DEF vars, IInv, TypeOK, CallOK, BusyOnce, SocketsAreValid, Ownership,
              AtMostOneOwner, HeldIsOpen, OpenIsHeld, Holds, Discarded, HoldingsStep, Kept
<1> QED BY <1>1, <1>2, <1>3, <1>4 DEF Next

(* The inductive invariant holds in every reachable state.                 *)
THEOREM Inductive == Spec => []IInv
BY InitIInv, NextIInv, PTL DEF Spec

(* Members and descriptors stay in their types.                            *)
THEOREM TypeCorrect == Spec => []TypeOK
<1>1. IInv => TypeOK
  BY DEF IInv
<1> QED BY <1>1, Inductive, PTL

(* No two handles or sockets ever hold the same descriptor.                *)
THEOREM SingleOwner == Spec => []AtMostOneOwner
<1>1. IInv => AtMostOneOwner
  BY DEF IInv, Ownership
<1> QED BY <1>1, Inductive, PTL

(* No handle or socket ever holds a descriptor that somebody else closed.  *)
THEOREM NoDanglingOwner == Spec => []HeldIsOpen
<1>1. IInv => HeldIsOpen
  BY DEF IInv, Ownership
<1> QED BY <1>1, Inductive, PTL

(* No operation leaks a descriptor.                                        *)
THEOREM NoLeak == Spec => []OpenIsHeld
<1>1. IInv => OpenIsHeld
  BY DEF IInv, Ownership
<1> QED BY <1>1, Inductive, PTL

(* A socket is never built from an invalid handle.                         *)
THEOREM ValidSockets == Spec => []SocketsAreValid
<1>1. IInv => SocketsAreValid
  BY DEF IInv
<1> QED BY <1>1, Inductive, PTL

-----------------------------------------------------------------------------
(* The refinement of StrictOwnership.                                      *)

LEMMA OwnerOfHeld ==
  ASSUME AtMostOneOwner, NEW fd \in Fds, NEW x \in Owners
  PROVE  OwnerOf(fd) = x <=> Holds(x, fd)
BY DistinctAssumption DEF OwnerOf, AtMostOneOwner

LEMMA OwnerOfHeldAfter ==
  ASSUME AtMostOneOwner', NEW fd \in Fds, NEW x \in Owners
  PROVE  OwnerOf(fd)' = x <=> Holds(x, fd)'
BY DistinctAssumption DEF OwnerOf, AtMostOneOwner

LEMMA OwnerOfNobody ==
  ASSUME NEW fd \in Fds
  PROVE  /\ OwnerOf(fd) = Nobody <=> \A x \in Owners : ~Holds(x, fd)
         /\ OwnerOf(fd)' = Nobody <=> \A x \in Owners : ~Holds(x, fd)'
         /\ OwnerOf(fd) \in Owners \cup {Nobody}
         /\ OwnerOf(fd)' \in Owners \cup {Nobody}
BY DistinctAssumption DEF OwnerOf

(* Whatever changes the holdings is a step of StrictOwnership or changes   *)
(* no owner.                                                               *)
LEMMA HoldingsStepAllowed ==
  ASSUME AtMostOneOwner, AtMostOneOwner', HoldingsStep
  PROVE  [Promise!Next]_(Promise!vars)
<1>1. CASE Kept
  <2>1. \A fd \in Fds : OwnerOf(fd)' = OwnerOf(fd)
    BY <1>1, OwnerOfHeld, OwnerOfHeldAfter, OwnerOfNobody DEF Kept
  <2> QED BY <1>1, <2>1 DEF Kept, Promise!vars
<1>2. ASSUME NEW o \in Owners, NEW f \in Fds, Acquired(o, f)
      PROVE  [Promise!Next]_(Promise!vars)
  <2>1. \A fd \in Fds : OwnerOf(fd)' = IF fd = f THEN o ELSE OwnerOf(fd)
    BY <1>2, OwnerOfHeld, OwnerOfHeldAfter, OwnerOfNobody DEF Acquired
  <2>2. \A fd \in Fds : OwnerOf(fd) # o
    BY <1>2, OwnerOfHeld DEF Acquired, HoldsNothing
  <2>3. Promise!Acquire(o, f)
    BY <1>2, <2>1, <2>2 DEF Acquired, Promise!Acquire, Promise!FreeHanded
  <2> QED BY <2>3 DEF Promise!Next
<1>3. ASSUME NEW o \in Owners, NEW p \in Owners, Moved(o, p)
      PROVE  [Promise!Next]_(Promise!vars)
  <2>1. CASE HoldsNothing(o)
    <3>1. Kept
      BY <1>3, <2>1 DEF Moved, Kept, HoldsNothing
    <3> QED BY <1>1, <3>1
  <2>2. ASSUME NEW f \in Fds, Holds(o, f) PROVE [Promise!Next]_(Promise!vars)
    <3>1. \A fd \in Fds : Holds(o, fd) => fd = f
      BY <2>2, DistinctAssumption DEF Holds, Owners
    <3>2. \A fd \in Fds : OwnerOf(fd)' = IF fd = f THEN p ELSE OwnerOf(fd)
      BY <1>3, <2>2, <3>1, OwnerOfHeld, OwnerOfHeldAfter, OwnerOfNobody DEF Moved
    <3>3. OwnerOf(f) = o /\ \A fd \in Fds : OwnerOf(fd) # p
      BY <1>3, <2>2, OwnerOfHeld DEF Moved, HoldsNothing
    <3>4. Promise!HandOver(o, p, f)
      BY <1>3, <3>2, <3>3 DEF Moved, Promise!HandOver, Promise!FreeHanded
    <3> QED BY <3>4 DEF Promise!Next
  <2> QED BY <2>1, <2>2 DEF HoldsNothing
<1>4. ASSUME NEW o \in Owners, NEW f \in Fds, Closed(o, f)
      PROVE  [Promise!Next]_(Promise!vars)
  <2>1. \A fd \in Fds : OwnerOf(fd)' = IF fd = f THEN Nobody ELSE OwnerOf(fd)
    BY <1>4, OwnerOfHeld, OwnerOfHeldAfter, OwnerOfNobody DEF Closed
  <2>2. OwnerOf(f) = o
    BY <1>4, OwnerOfHeld DEF Closed
  <2>3. Promise!Close(o, f)
    BY <1>4, <2>1, <2>2 DEF Closed, Promise!Close
  <2> QED BY <2>3 DEF Promise!Next
<1> QED BY <1>1, <1>2, <1>3, <1>4 DEF HoldingsStep

(* The library implements StrictOwnership: every step acquires, hands over *)
(* or closes a descriptor as SocketHandle promises, or changes no owner.   *)
THEOREM Refinement == Spec => ImplementsStrictOwnership
<1>1. Init => Promise!Init
  <2> SUFFICES ASSUME Init PROVE Promise!Init
    OBVIOUS
  <2>1. \A fd \in Fds, x \in Owners : ~Holds(x, fd)
    BY DistinctAssumption DEF Init, Idle, Holds
  <2>2. \A fd \in Fds : OwnerOf(fd) = Nobody
    BY <2>1, OwnerOfNobody
  <2> QED BY <2>2 DEF Init, Promise!Init
<1>2. IInv /\ IInv' /\ [Next]_vars => [Promise!Next]_(Promise!vars)
  BY NextIInv, HoldingsStepAllowed DEF IInv, Ownership
<1> QED BY <1>1, <1>2, Inductive, PTL DEF Spec, ImplementsStrictOwnership, Promise!Spec
=============================================================================
