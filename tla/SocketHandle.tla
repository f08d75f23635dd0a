---------------------------- MODULE SocketHandle ----------------------------
(***************************************************************************)
(* The life of a socket descriptor in the library: NET::SocketHandle       *)
(* (SocketHandle.h), the constructors and the destructor of SimpleSocket,  *)
(* and the operations of TCPSocket and SCTPSocket that turn a descriptor   *)
(* into a handle and a handle into a socket.                               *)
(*                                                                         *)
(* Handle and socket objects are used by one thread at a time.  The only   *)
(* system call in the middle of an operation is ::close(), so everything   *)
(* up to the call and everything after it is one step each, and other      *)
(* threads run in between: that is when a closed descriptor is handed out  *)
(* again to somebody else.                                                 *)
(***************************************************************************)

CONSTANTS
  Threads,          \* threads of the program
  Handles,          \* SocketHandle objects, temporaries and parameters included
  Sockets,          \* TCPSocket, SCTPSocket, UDPSocket, ... objects
  Fds,              \* descriptors the kernel can hand out to the program
  NoFd,             \* the value -1 of m_sockfd: an invalid handle
  Absent,           \* the object is not constructed, or was destroyed
  Nobody,           \* "no object" in a call record, "no owner" of a descriptor
  RetryOnEINTR,     \* TRUE: TEMP_FAILURE_RETRY is glibc's loop,
                    \* FALSE: the pass-through of TempFailure.h
  EINTRFromClose    \* what a signal does to ::close() on a socket: "never" (no
                    \* effect, Linux), "stillOpen" (EINTR, nothing was closed),
                    \* "released" (EINTR, but the descriptor is closed)

Objects == Handles \cup Sockets
Owners == Objects \cup Threads

ASSUME DistinctAssumption ==
  /\ Handles \cap Sockets = {}
  /\ Objects \cap Threads = {}
  /\ NoFd \notin Fds
  /\ Absent \notin Fds \cup {NoFd}
  /\ Nobody \notin Owners

(* The retry of an interrupted ::close() fits the kernel: it is repeated   *)
(* if, and only if, the descriptor is still open.                          *)
ASSUME CloseAssumption ==
  /\ RetryOnEINTR \in BOOLEAN
  /\ EINTRFromClose \in {"never", "stillOpen", "released"}
  /\ EINTRFromClose = "stillOpen" => RetryOnEINTR
  /\ EINTRFromClose = "released" => ~RetryOnEINTR

VARIABLES
  open,     \* kernel: the open descriptors
  sockfd,   \* m_sockfd of every handle, m_socket of every socket
  call      \* per thread: the operation that is in ::close()

vars == <<open, sockfd, call>>

(* call[t].obj is the object operated on, call[t].new the value its        *)
(* descriptor gets when ::close() has returned.                            *)
Idle == [pc |-> "idle", obj |-> Nobody, new |-> NoFd]

CallType == [pc  : {"idle", "close", "return"},
             obj : Objects \cup {Nobody},
             new : Fds \cup {NoFd, Absent}]

TypeOK ==
  /\ open \in SUBSET Fds
  /\ sockfd \in [Objects -> Fds \cup {NoFd, Absent}]
  /\ call \in [Threads -> CallType]

Init ==
  /\ open = {}
  /\ sockfd = [o \in Objects |-> Absent]
  /\ call = [t \in Threads |-> Idle]

Usable(o) == sockfd[o] # Absent /\ \A t \in Threads : call[t].obj # o

Unconstructed(o) == sockfd[o] = Absent

-----------------------------------------------------------------------------
(* Acquiring descriptors.                                                  *)

(* ::accept() or ::socket() gives o a descriptor nobody has open.          *)
OpenInto(o, fd) ==
  /\ Unconstructed(o)
  /\ fd \notin open
  /\ open' = open \cup {fd}
  /\ sockfd' = [sockfd EXCEPT ![o] = fd]

(* accept() succeeds and its result initialises the handle h.  (When it    *)
(* fails it throws and there is no handle.)                                *)
Accept(h, fd) ==
  /\ OpenInto(h, fd)
  /\ UNCHANGED call

(* SocketHandle(), also the result of a timedAccept() that timed out.      *)
ConstructInvalid(h) ==
  /\ Unconstructed(h)
  /\ sockfd' = [sockfd EXCEPT ![h] = NoFd]
  /\ UNCHANGED <<open, call>>

(* SimpleSocket(domain, type, protocol).                                   *)
CreateSocket(s, fd) ==
  /\ OpenInto(s, fd)
  /\ UNCHANGED call

(* SCTPSocket(...): ::socket() succeeds but setInitValues() throws, so the *)
(* SimpleSocket part that was already built is destroyed.                  *)
CreateSCTPSocketThrows(t, s, fd) ==
  /\ call[t] = Idle
  /\ OpenInto(s, fd)
  /\ call' = [call EXCEPT ![t] = [pc |-> "close", obj |-> s, new |-> Absent]]

-----------------------------------------------------------------------------
(* Moving descriptors between objects.                                     *)

(* The value release() leaves in m_sockfd.                                 *)
ReleaseKeeps(g) == sockfd[g]          \* mutant: m_sockfd = -1 is missing
Released(g) == NoFd

(* SocketHandle(SocketHandle& other), and the same through a               *)
(* SocketHandle_Ref when other is a temporary.                             *)
CopyConstruct(h, g) ==
  /\ Unconstructed(h)
  /\ Usable(g)
  /\ sockfd' = [sockfd EXCEPT ![h] = sockfd[g], ![g] = Released(g)]
  /\ UNCHANGED <<open, call>>

(* TCPSocket(Handle) and SCTPSocket(Handle): the parameter takes the       *)
(* descriptor from the handle, the socket takes it from the parameter.     *)
(* An invalid handle makes SimpleSocket(int) throw: there is no socket.    *)
ConstructSocket(s, h) ==
  /\ Unconstructed(s)
  /\ Usable(h)
  /\ sockfd' = [sockfd EXCEPT ![s] = IF sockfd[h] = NoFd THEN Absent ELSE sockfd[h],
                              ![h] = Released(h)]
  /\ UNCHANGED <<open, call>>

(* reset(fd) of handle h, entered with the members' values s.  Closing -1  *)
(* fails with EBADF and changes nothing.  (Mutant: the old descriptor is   *)
(* not closed.)                                                            *)
ResetForgetsToClose(t, h, fd, s) ==
  /\ sockfd' = [s EXCEPT ![h] = fd]
  /\ UNCHANGED call
Reset(t, h, fd, s) ==
  \/ /\ fd = s[h] \/ s[h] = NoFd
     /\ sockfd' = [s EXCEPT ![h] = fd]
     /\ UNCHANGED call
  \/ /\ fd # s[h] /\ s[h] # NoFd
     /\ sockfd' = s
     /\ call' = [call EXCEPT ![t] = [pc |-> "close", obj |-> h, new |-> fd]]

(* operator=: reset(other.release()).  g may be h itself.  (Mutant: the    *)
(* descriptor is copied.)                                                  *)
AssignWithoutRelease(t, h, g) ==
  /\ call[t] = Idle
  /\ Usable(h)
  /\ Usable(g)
  /\ Reset(t, h, sockfd[g], sockfd)
  /\ UNCHANGED open
Assign(t, h, g) ==
  /\ call[t] = Idle
  /\ Usable(h)
  /\ Usable(g)
  /\ Reset(t, h, sockfd[g], [sockfd EXCEPT ![g] = Released(g)])
  /\ UNCHANGED open

-----------------------------------------------------------------------------
(* Giving descriptors up.                                                  *)

(* ~SocketHandle(): reset().                                               *)
DestroyHandle(t, h) ==
  /\ call[t] = Idle
  /\ Usable(h)
  /\ \/ /\ sockfd[h] = NoFd
        /\ sockfd' = [sockfd EXCEPT ![h] = Absent]
        /\ UNCHANGED call
     \/ /\ sockfd[h] # NoFd
        /\ call' = [call EXCEPT ![t] = [pc |-> "close", obj |-> h, new |-> Absent]]
        /\ UNCHANGED sockfd
  /\ UNCHANGED open

(* ~SimpleSocket().  (Mutant: it does not close.)                          *)
DestroySocketLeaks(t, s) ==
  /\ call[t] = Idle
  /\ Usable(s)
  /\ sockfd' = [sockfd EXCEPT ![s] = Absent]
  /\ UNCHANGED <<open, call>>
DestroySocket(t, s) ==
  /\ call[t] = Idle
  /\ Usable(s)
  /\ call' = [call EXCEPT ![t] = [pc |-> "close", obj |-> s, new |-> Absent]]
  /\ UNCHANGED <<open, sockfd>>

-----------------------------------------------------------------------------
(* TEMP_FAILURE_RETRY(::close(fd)).                                        *)

ClosingFd(t) == sockfd[call[t].obj]

CloseSucceeds(t) ==
  /\ call[t].pc = "close"
  /\ open' = open \ {ClosingFd(t)}
  /\ call' = [call EXCEPT ![t].pc = "return"]
  /\ UNCHANGED sockfd

(* A signal interrupts ::close(), with the effect this kernel gives it.    *)
(* (Mutant: the call is repeated in any case.)                             *)
CloseInterruptedRetries(t) ==
  /\ call[t].pc = "close"
  /\ EINTRFromClose # "never"
  /\ open' = IF EINTRFromClose = "released" THEN open \ {ClosingFd(t)} ELSE open
  /\ UNCHANGED <<sockfd, call>>
CloseInterrupted(t) ==
  /\ call[t].pc = "close"
  /\ EINTRFromClose # "never"
  /\ open' = IF EINTRFromClose = "released" THEN open \ {ClosingFd(t)} ELSE open
  /\ call' = [call EXCEPT ![t].pc = IF RetryOnEINTR THEN "close" ELSE "return"]
  /\ UNCHANGED sockfd

(* Back from ::close(): m_sockfd = fd, or the object is gone.              *)
CloseReturns(t) ==
  /\ call[t].pc = "return"
  /\ sockfd' = [sockfd EXCEPT ![call[t].obj] = call[t].new]
  /\ call' = [call EXCEPT ![t] = Idle]
  /\ UNCHANGED open

-----------------------------------------------------------------------------
HandleStep ==
  \E h \in Handles :
    \/ ConstructInvalid(h)
    \/ \E fd \in Fds : Accept(h, fd)
    \/ \E g \in Handles : CopyConstruct(h, g)
    \/ \E g \in Handles, t \in Threads : Assign(t, h, g)
    \/ \E t \in Threads : DestroyHandle(t, h)

SocketStep ==
  \E s \in Sockets :
    \/ \E fd \in Fds : CreateSocket(s, fd)
    \/ \E fd \in Fds, t \in Threads : CreateSCTPSocketThrows(t, s, fd)
    \/ \E h \in Handles : ConstructSocket(s, h)
    \/ \E t \in Threads : DestroySocket(t, s)

CloseStep ==
  \E t \in Threads : CloseSucceeds(t) \/ CloseInterrupted(t) \/ CloseReturns(t)

Next == HandleStep \/ SocketStep \/ CloseStep

Spec == Init /\ [][Next]_vars

-----------------------------------------------------------------------------
(* What an owner holds.  An object whose ::close() has come back from the  *)
(* kernel still names the old descriptor, but does not hold it any more.   *)
(* The argument of reset() is held by the thread that runs it.             *)
Discarded(o) == \E t \in Threads : call[t].obj = o /\ call[t].pc = "return"

Holds(x, fd) ==
  \/ x \in Objects /\ sockfd[x] = fd /\ ~Discarded(x)
  \/ x \in Threads /\ call[x].new = fd

(* Two owners never hold the same descriptor: copies, assignments and      *)
(* constructions of sockets move it (SocketHandle.h, "only one             *)
(* SocketHandle can be active for the same connection").                   *)
AtMostOneOwner ==
  \A fd \in Fds : \A x, y \in Owners : Holds(x, fd) /\ Holds(y, fd) => x = y

(* Nobody holds a descriptor that was closed behind its back, for instance *)
(* by the retry of another owner's ::close().                              *)
HeldIsOpen ==
  \A fd \in Fds : (\E x \in Owners : Holds(x, fd)) => fd \in open

(* No descriptor leaks: whatever is open is held by an object or is on its *)
(* way into one, also when a constructor throws and when a handle is       *)
(* assigned to itself.                                                     *)
OpenIsHeld ==
  \A fd \in open : \E x \in Owners : Holds(x, fd)

(* A socket object that exists has a descriptor: constructing one from an  *)
(* invalid handle throws.                                                  *)
SocketsAreValid == \A s \in Sockets : sockfd[s] # NoFd

-----------------------------------------------------------------------------
(* What makes the ownership invariants inductive.                          *)

(* An operation in progress has an object that names a descriptor; it      *)
(* leaves a socket destroyed, never invalid.                               *)
CallOK ==
  \A t \in Threads :
    \/ call[t] = Idle
    \/ /\ call[t].pc \in {"close", "return"}
       /\ call[t].obj \in Objects
       /\ sockfd[call[t].obj] \in Fds
       /\ call[t].obj \in Sockets => call[t].new = Absent

(* An object is closed by one thread at a time.                            *)
BusyOnce ==
  \A t, u \in Threads : call[t].obj = call[u].obj /\ call[t].obj \in Objects => t = u

Ownership == AtMostOneOwner /\ HeldIsOpen /\ OpenIsHeld

(* Ownership, and what is known of the operations in progress.             *)
IInv == TypeOK /\ CallOK /\ BusyOnce /\ SocketsAreValid /\ Ownership

-----------------------------------------------------------------------------
(* The class keeps its promise.                                            *)
OwnerOf(fd) ==
  IF \E x \in Owners : Holds(x, fd) THEN CHOOSE x \in Owners : Holds(x, fd) ELSE Nobody

Promise == INSTANCE StrictOwnership WITH owner <- [fd \in Fds |-> OwnerOf(fd)]

(* Every step of the library acquires, hands over or closes a descriptor   *)
(* as StrictOwnership allows, or leaves ownership alone.                   *)
ImplementsStrictOwnership == Promise!Spec
=============================================================================
