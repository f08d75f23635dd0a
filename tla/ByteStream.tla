----------------------------- MODULE ByteStream -----------------------------
(***************************************************************************)
(* What a connected TCPSocket promises its program: two streams of bytes,  *)
(* one each way, that keep "the order of the sent data", of which a byte   *)
(* that has been received is never taken back, and a 0 from receive() that *)
(* means the end: the peer sends no more and everything was received.      *)
(* When a connection is given up some of it may never be received.         *)
(***************************************************************************)
EXTENDS Integers, Sequences

CONSTANTS A, B   \* the two ends

VARIABLES
  open,       \* the ends that may still send
  sent,       \* how many bytes an end has sent
  received,   \* the bytes an end has received, numbered as they were sent
  atEnd       \* the ends that have just been told 0 bytes

vars == <<open, sent, received, atEnd>>

Ends == {A, B}
Other(e) == IF e = A THEN B ELSE A

Init ==
  /\ open = [e \in Ends |-> FALSE]
  /\ sent = [e \in Ends |-> 0]
  /\ received = [e \in Ends |-> <<>>]
  /\ atEnd = [e \in Ends |-> FALSE]

(* The next connection: nothing is left of the former one.                 *)
Connect ==
  /\ \A e \in Ends : ~open[e]
  /\ open' = [e \in Ends |-> TRUE]
  /\ sent' = [e \in Ends |-> 0]
  /\ received' = [e \in Ends |-> <<>>]
  /\ atEnd' = [e \in Ends |-> FALSE]

Send(e) ==
  /\ open[e]
  /\ sent'[e] \in Nat /\ sent'[e] > sent[e]
  /\ sent' = [sent EXCEPT ![e] = sent'[e]]
  /\ UNCHANGED <<open, received, atEnd>>

Receive(e) ==
  /\ \E n \in 1..(sent[Other(e)] - Len(received[e])) :
       received' = [received EXCEPT ![e] = @ \o [i \in 1..n |-> Len(received[e]) + i]]
  /\ UNCHANGED <<open, sent, atEnd>>

ReceiveZero(e) ==
  /\ ~open[Other(e)]
  /\ Len(received[e]) = sent[Other(e)]
  /\ atEnd' = [atEnd EXCEPT ![e] = TRUE]
  /\ UNCHANGED <<open, sent, received>>

(* The program goes on.                                                    *)
GoOn(e) ==
  /\ atEnd' = [atEnd EXCEPT ![e] = FALSE]
  /\ UNCHANGED <<open, sent, received>>

Close(e) ==
  /\ open' = [open EXCEPT ![e] = FALSE]
  /\ atEnd' \in {atEnd, [atEnd EXCEPT ![e] = FALSE]}
  /\ UNCHANGED <<sent, received>>

Next ==
  \/ Connect
  \/ \E e \in Ends : Send(e) \/ Receive(e) \/ ReceiveZero(e) \/ GoOn(e) \/ Close(e)

Spec == Init /\ [][Next]_vars
=============================================================================
