------------------------------ MODULE Resolver ------------------------------
(***************************************************************************)
(* How names become addresses, in several threads: NET::resolveHostname,   *)
(* and InternetSocket::fillAddress as connect(), bind() and sendTo() use   *)
(* it.  Both read what gethostbyname() leaves in a buffer of the process.  *)
(* glibc holds a lock while it looks a name up, uses the buffer as scratch *)
(* space then, and gives the lock back before anything is read.            *)
(***************************************************************************)
EXTENDS Integers, Sequences

CONSTANTS
  Threads,
  Hosts,        \* host names
  Octets,       \* the values an octet of an address has in this model
  Length,       \* octets of an address: 4, or fewer as a bound of the model
  SignedChar,   \* char is signed, as on x86
  Nobody,       \* no thread
  Scratch       \* the buffer during a lookup: it can hold anything

ASSUME ResolverAssumption ==
  /\ Octets \subseteq 0..255 /\ Length \in Nat \ {0}
  /\ SignedChar \in BOOLEAN
  /\ Nobody \notin Threads
  /\ Hosts \cap Seq(-128..255) = {}

Address == [1..Length -> Octets]

ASSUME ScratchAssumption == Scratch \notin Address

VARIABLES
  dns,       \* the addresses of the hosts
  hostent,   \* the buffer of gethostbyname()
  lock,      \* the thread that is looking a name up
  call       \* the call every thread is in, or how its last one ended

resolverVars == <<dns, hostent, lock, call>>

(* arg is a name or the numbers of a dotted text; out the numbers found so *)
(* far.  For the properties only: meant is the address that is asked for,  *)
(* disturbed says that another thread has begun a lookup in between.       *)
CallType ==
  [op : {"none", "resolveHostname", "connect"},
   pc : {"idle", "lookup", "locked", "read", "returned", "threw"},
   arg : Hosts \cup Seq(-128..255), out : Seq(-128..255),
   meant : Address \cup {<<>>}, disturbed : BOOLEAN]

LengthOK(c) == Len(c.out) \in IF c.pc = "read" THEN 0..(Length - 1) ELSE 0..Length

ResolverTypeOK ==
  /\ dns \in [Hosts -> Address]
  /\ hostent \in Address \cup {Scratch}
  /\ lock \in Threads \cup {Nobody}
  /\ call \in [Threads -> CallType]
  /\ \A t \in Threads : LengthOK(call[t])

NoCall == [op |-> "none", pc |-> "idle", arg |-> <<>>, out |-> <<>>,
           meant |-> <<>>, disturbed |-> FALSE]

ResolverInit ==
  /\ dns \in [Hosts -> Address]
  /\ hostent = Scratch
  /\ lock = Nobody
  /\ call = [t \in Threads |-> NoCall]

-----------------------------------------------------------------------------
Idle(t) == call[t].pc \in {"idle", "returned", "threw"}

(* static_cast<int>(char).                                                 *)
AsInt(octet) == IF SignedChar /\ octet > 127 THEN octet - 256 ELSE octet

(* What a thread may find at position i of the buffer.                     *)
Octet(i) == IF hostent = Scratch THEN Octets ELSE {hostent[i]}

(* Lookup: gethostbyname().  A text that is no name is never found.        *)
Lookup(t) ==
  /\ call[t].pc = "lookup" /\ lock = Nobody
  /\ lock' = t
  /\ hostent' = Scratch
  /\ call' = [u \in Threads |->
       IF u = t THEN [call[t] EXCEPT !.pc = "locked"]
       ELSE IF call[u].pc = "read" THEN [call[u] EXCEPT !.disturbed = TRUE]
       ELSE call[u]]
  /\ UNCHANGED dns

LookupEnds(t) ==
  /\ call[t].pc = "locked"
  /\ \/ /\ call[t].arg \in Hosts
        /\ hostent' = dns[call[t].arg]
        /\ call' = [call EXCEPT ![t].pc = "read"]
     \/ /\ call' = [call EXCEPT ![t].pc = "threw"]
        /\ UNCHANGED hostent
  /\ lock' = Nobody
  /\ UNCHANGED dns

ResolveHostname(t, name) ==
  /\ Idle(t)
  /\ call' = [call EXCEPT ![t] =
       [op |-> "resolveHostname", pc |-> "lookup", arg |-> name, out |-> <<>>,
        meant |-> dns[name], disturbed |-> FALSE]]
  /\ UNCHANGED <<dns, hostent, lock>>

(* One octet is read and printed.  (Mutant: always the first.)             *)
PrintFirstOctet(t) ==
  LET n == Len(call[t].out) + 1 IN
  /\ call[t].op = "resolveHostname" /\ call[t].pc = "read"
  /\ \E o \in Octet(1) :
       call' = [call EXCEPT ![t].out = Append(@, AsInt(o)),
                            ![t].pc = IF n = Length THEN "returned" ELSE "read"]
  /\ UNCHANGED <<dns, hostent, lock>>
PrintOctet(t) ==
  LET n == Len(call[t].out) + 1 IN
  /\ call[t].op = "resolveHostname" /\ call[t].pc = "read"
  /\ \E o \in Octet(n) :
       call' = [call EXCEPT ![t].out = Append(@, AsInt(o)),
                            ![t].pc = IF n = Length THEN "returned" ELSE "read"]
  /\ UNCHANGED <<dns, hostent, lock>>

(* fillAddress(): inet_aton() takes numbers that are octets.               *)
FillAddress(t, arg, meant, disturbed) ==
  LET dotted == arg \in Address IN
  /\ call' = [call EXCEPT ![t] =
       [op |-> "connect", pc |-> IF dotted THEN "returned" ELSE "lookup", arg |-> arg,
        out |-> IF dotted THEN arg ELSE <<>>, meant |-> meant, disturbed |-> disturbed]]
  /\ UNCHANGED <<dns, hostent, lock>>

(* connect() to a host, to an address, or to what resolveHostname() gave.  *)
Connect(t) ==
  /\ Idle(t)
  /\ \/ \E name \in Hosts : FillAddress(t, name, dns[name], FALSE)
     \/ \E address \in Address : FillAddress(t, address, address, FALSE)
     \/ /\ call[t].op = "resolveHostname" /\ call[t].pc = "returned"
        /\ FillAddress(t, call[t].out, call[t].meant, call[t].disturbed)

(* The address is read as one integer.                                     *)
CopyAddress(t) ==
  /\ call[t].op = "connect" /\ call[t].pc = "read"
  /\ \E address \in Address :
       /\ \A i \in 1..Length : address[i] \in Octet(i)
       /\ call' = [call EXCEPT ![t].out = address, ![t].pc = "returned"]
  /\ UNCHANGED <<dns, hostent, lock>>

ResolverNext ==
  \E t \in Threads :
    \/ Lookup(t) \/ LookupEnds(t)
    \/ \E name \in Hosts : ResolveHostname(t, name)
    \/ PrintOctet(t) \/ Connect(t) \/ CopyAddress(t)

ResolverSpec == ResolverInit /\ [][ResolverNext]_resolverVars

-----------------------------------------------------------------------------
(* Properties.                                                             *)

(* Unless another thread has begun a lookup between the lookup of a call   *)
(* and its last read, the call is about the host that was asked for:       *)
(* connect() goes there, and resolveHostname() returns its octets, but     *)
(* where char is signed a negative number for each above 127, which is in  *)
(* no address.  So connect(resolveHostname(name)) reaches the host or      *)
(* throws, it never goes elsewhere, and connect() to a dotted address is   *)
(* not disturbed by anybody.                                               *)
Right(c) ==
  c.pc = "returned" /\ ~c.disturbed =>
    /\ Len(c.out) = Length
    /\ \A i \in 1..Length :
         IF c.op = "resolveHostname" /\ SignedChar /\ c.meant[i] > 127
           THEN c.out[i] < 0
           ELSE c.out[i] = c.meant[i]

RightUnlessDisturbed == \A t \in Threads : Right(call[t])

(* SocketUtils.h:10 and 14 say that resolveHostname() returns a standard   *)
(* IPv4 address.                                                           *)
StandardAddress ==
  \A t \in Threads :
    call[t].op = "resolveHostname" /\ call[t].pc = "returned" => call[t].out \in Address

-----------------------------------------------------------------------------
(* What makes it inductive: until it is disturbed a call finds in the      *)
(* buffer what it means, and has printed that so far.  Nobody is           *)
(* undisturbed while a thread uses the buffer as scratch space.            *)
CallOK(c) ==
  /\ c.pc \in {"lookup", "locked", "read", "returned"} =>
       c.op # "none" /\ c.meant \in Address
  /\ c.pc \in {"lookup", "locked"} =>
       /\ c.arg \in Hosts => c.meant = dns[c.arg]
       /\ c.out = <<>>
  /\ c.pc = "read" /\ ~c.disturbed =>
       /\ hostent = c.meant
       /\ \A i \in 1..Len(c.out) : c.out[i] = AsInt(c.meant[i])

LockOK ==
  /\ \A t \in Threads : call[t].pc = "locked" <=> lock = t
  /\ lock # Nobody => hostent = Scratch

ResolverInv ==
  /\ ResolverTypeOK /\ LockOK
  /\ \A t \in Threads : CallOK(call[t])
  /\ RightUnlessDisturbed
=============================================================================
