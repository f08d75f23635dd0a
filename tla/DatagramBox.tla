----------------------------- MODULE DatagramBox -----------------------------
(***************************************************************************)
(* What a datagram socket promises the threads that receive from it, once  *)
(* a datagram has arrived: datagrams are handed over whole, in the order   *)
(* of their arrival and each to one call only, and none disappears except  *)
(* with the socket.  A call that throws, or returns without a datagram,    *)
(* leaves all of them where they are.                                      *)
(***************************************************************************)
EXTENDS Sequences

CONSTANTS
  Readers,     \* threads that receive
  Datagrams,
  Nothing      \* no datagram

VARIABLES
  open,    \* the socket exists
  box,     \* the datagrams that have arrived, the oldest first
  taken    \* the datagram the last call of a reader was given

vars == <<open, box, taken>>

Init ==
  /\ open = TRUE
  /\ box = <<>>
  /\ taken = [r \in Readers |-> Nothing]

(* A reader that begins another call gives up what the last one got.       *)
Forgets(r) == taken' = [taken EXCEPT ![r] = Nothing]

Forget(r) == Forgets(r) /\ UNCHANGED <<open, box>>

(* A datagram arrives, from elsewhere or by the call of a reader.          *)
Put ==
  /\ open
  /\ \E d \in Datagrams : box' = Append(box, d)
  /\ UNCHANGED taken \/ \E r \in Readers : Forgets(r)
  /\ UNCHANGED open

(* The call of a reader gets the oldest datagram, if it has none yet.      *)
Take(r) ==
  /\ box # <<>> /\ taken[r] = Nothing
  /\ taken' = [taken EXCEPT ![r] = Head(box)]
  /\ box' = Tail(box)
  /\ UNCHANGED open

Close ==
  /\ open
  /\ open' = FALSE /\ box' = <<>>
  /\ UNCHANGED taken

Reopen ==
  /\ ~open
  /\ open' = TRUE /\ box' = <<>>
  /\ taken' = [r \in Readers |-> Nothing]

Next == Put \/ Close \/ Reopen \/ \E r \in Readers : Take(r) \/ Forget(r)

Spec == Init /\ [][Next]_vars
=============================================================================
