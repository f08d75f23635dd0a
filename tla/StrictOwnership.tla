--------------------------- MODULE StrictOwnership ---------------------------
(***************************************************************************)
(* What NET::SocketHandle promises ("a simple class to provide strict      *)
(* ownership of socket handles"): every descriptor the kernel keeps open   *)
(* for the library has exactly one owner, ownership is handed over and     *)
(* never shared, and only the owner of a descriptor closes it.             *)
(***************************************************************************)

CONSTANTS
  Owners,   \* whatever can own a descriptor: handle and socket objects, threads
  Fds,      \* the descriptors the kernel can hand out
  Nobody    \* the owner of a closed descriptor

VARIABLES
  open,     \* the descriptors that are open
  owner     \* the owner of every descriptor

vars == <<open, owner>>

TypeOK ==
  /\ open \in SUBSET Fds
  /\ owner \in [Fds -> Owners \cup {Nobody}]

FreeHanded(x) == \A fd \in Fds : owner[fd] # x

Init ==
  /\ open = {}
  /\ owner = [fd \in Fds |-> Nobody]

Acquire(x, fd) ==
  /\ fd \notin open
  /\ FreeHanded(x)
  /\ open' = open \cup {fd}
  /\ owner' = [owner EXCEPT ![fd] = x]

HandOver(x, y, fd) ==
  /\ owner[fd] = x
  /\ FreeHanded(y)
  /\ owner' = [owner EXCEPT ![fd] = y]
  /\ UNCHANGED open

Close(x, fd) ==
  /\ owner[fd] = x
  /\ open' = open \ {fd}
  /\ owner' = [owner EXCEPT ![fd] = Nobody]

Next ==
  \E fd \in Fds, x \in Owners :
    \/ Acquire(x, fd)
    \/ \E y \in Owners : HandOver(x, y, fd)
    \/ Close(x, fd)

Spec == Init /\ [][Next]_vars

(* Open descriptors are exactly the owned ones.                            *)
OpenIffOwned == \A fd \in Fds : fd \in open <=> owner[fd] # Nobody
=============================================================================
