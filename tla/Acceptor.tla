------------------------------ MODULE Acceptor ------------------------------
(***************************************************************************)
(* A listening TCPSocket and the server threads that take connections from *)
(* it: TCPSocket::listen, accept and timedAccept.  A thread makes a        *)
(* TCPSocket of every handle it gets and serves the client until the       *)
(* client leaves.  A thread that gets an exception stops, like the         *)
(* program in examples/TCP_Server.cpp.                                     *)
(*                                                                         *)
(* Time is counted in ticks.  The kernel is prompt: no time passes while a *)
(* call of a thread can return.                                            *)
(***************************************************************************)
EXTENDS Integers, Sequences

CONSTANTS
  Threads,    \* server threads that share the listening socket
  Blocking,   \* ... those that call accept(); the others call timedAccept()
  Clients,
  Backlogs,   \* arguments of listen()
  Timeout,    \* argument of timedAccept(), in ticks
  Invalid,    \* the handle SocketHandle()
  Signals     \* TRUE: signal handlers, not SA_RESTART, run in the threads

ASSUME AcceptorAssumption ==
  /\ Blocking \subseteq Threads
  /\ Backlogs \subseteq Nat
  /\ Timeout \in Nat
  /\ Invalid \notin Clients
  /\ Signals \in BOOLEAN

VARIABLES
  backlog,     \* the argument of listen(), -1 before it is called
  queue,       \* kernel: the established connections nobody has accepted
  served,      \* the clients a session socket exists for
  call,        \* what every thread is doing
  delayed      \* history: the threads in timedAccept() that a signal has set
               \* back, or that saw a connection which another thread took

vars == <<backlog, queue, served, call, delayed>>

(* left is the time until ::poll() times out, spent the time since         *)
(* timedAccept() was called.                                               *)
CallType ==
  [pc : {"idle", "accept", "poll", "timedAccept", "returned", "threw"},
   left : 0..Timeout, spent : 0..(Timeout + 1), handle : Clients \cup {Invalid}]

TypeOK ==
  /\ backlog \in Backlogs \cup {-1}
  /\ queue \in Seq(Clients)
  /\ served \in SUBSET Clients
  /\ call \in [Threads -> CallType]
  /\ delayed \in SUBSET Threads

Idle == [pc |-> "idle", left |-> 0, spent |-> 0, handle |-> Invalid]

Init ==
  /\ backlog = -1
  /\ queue = <<>>
  /\ served = {}
  /\ call = [t \in Threads |-> Idle]
  /\ delayed = {}

-----------------------------------------------------------------------------
(* The network.                                                            *)

Listening == backlog >= 0

Queued(c) == \E i \in DOMAIN queue : queue[i] = c

Held(c) == c \in served \/ \E t \in Threads : call[t].pc = "returned" /\ call[t].handle = c

(* The handshake is completed by the kernel while there is room for one    *)
(* connection more than the backlog; otherwise the client tries again.     *)
Arrive(c) ==
  /\ Listening
  /\ ~Queued(c) /\ ~Held(c)
  /\ Len(queue) <= backlog
  /\ queue' = Append(queue, c)
  /\ UNCHANGED <<backlog, served, call, delayed>>

Leave(c) ==
  /\ c \in served
  /\ served' = served \ {c}
  /\ UNCHANGED <<backlog, queue, call, delayed>>

-----------------------------------------------------------------------------
(* The library.                                                            *)

Listen(n) ==
  /\ backlog' = n
  /\ UNCHANGED <<queue, served, call, delayed>>

StartAccept(t) ==
  /\ Listening /\ t \in Blocking
  /\ call[t].pc = "idle"
  /\ call' = [call EXCEPT ![t].pc = "accept"]
  /\ UNCHANGED <<backlog, queue, served, delayed>>

StartTimedAccept(t) ==
  /\ Listening /\ t \notin Blocking
  /\ call[t].pc = "idle"
  /\ call' = [call EXCEPT ![t] = [pc |-> "poll", left |-> Timeout, spent |-> 0, handle |-> Invalid]]
  /\ UNCHANGED <<backlog, queue, served, delayed>>

(* ::poll() returns 1: on to ::accept().                                   *)
PollReturns(t) ==
  /\ call[t].pc = "poll"
  /\ queue # <<>>
  /\ call' = [call EXCEPT ![t].pc = "timedAccept"]
  /\ UNCHANGED <<backlog, queue, served, delayed>>

(* ::poll() returns 0: the handle is invalid.  (Mutants: its result is not *)
(* looked at; it does not wait.)                                           *)
PollTimesOutUnnoticed(t) ==
  /\ call[t].pc = "poll"
  /\ call[t].left = 0 /\ queue = <<>>
  /\ call' = [call EXCEPT ![t].pc = "timedAccept"]
  /\ UNCHANGED <<backlog, queue, served, delayed>>
PollTimesOutAtOnce(t) ==
  /\ call[t].pc = "poll"
  /\ queue = <<>>
  /\ call' = [call EXCEPT ![t] = [@ EXCEPT !.pc = "returned", !.handle = Invalid]]
  /\ UNCHANGED <<backlog, queue, served, delayed>>
PollTimesOut(t) ==
  /\ call[t].pc = "poll"
  /\ call[t].left = 0 /\ queue = <<>>
  /\ call' = [call EXCEPT ![t] = [@ EXCEPT !.pc = "returned", !.handle = Invalid]]
  /\ UNCHANGED <<backlog, queue, served, delayed>>

(* TEMP_FAILURE_RETRY repeats an interrupted ::poll() with all of the      *)
(* timeout.  (A call that is set back stays in the set until it is over.)  *)
PollInterrupted(t) ==
  /\ Signals
  /\ call[t].pc = "poll" /\ queue = <<>>
  /\ call' = [call EXCEPT ![t].left = Timeout]
  /\ delayed' = delayed \cup {t}
  /\ UNCHANGED <<backlog, queue, served>>

(* Threads that ::poll() sent on to ::accept() are too late when another   *)
(* one takes the last connection.                                          *)
Beaten(t) ==
  {u \in Threads \ {t} : call[u].pc = "timedAccept" /\ Tail(queue) = <<>>}

(* ::accept() takes the oldest connection.                                 *)
AcceptReturns(t) ==
  /\ call[t].pc \in {"accept", "timedAccept"}
  /\ queue # <<>>
  /\ queue' = Tail(queue)
  /\ call' = [call EXCEPT ![t] = [@ EXCEPT !.pc = "returned", !.handle = Head(queue)]]
  /\ delayed' = delayed \cup Beaten(t)
  /\ UNCHANGED <<backlog, served>>

(* A signal interrupts an ::accept() that waits; it is not repeated.       *)
AcceptInterrupted(t) ==
  /\ Signals
  /\ call[t].pc \in {"accept", "timedAccept"} /\ queue = <<>>
  /\ call' = [call EXCEPT ![t].pc = "threw"]
  /\ UNCHANGED <<backlog, queue, served, delayed>>

(* The thread looks at its handle, and makes a TCPSocket of a valid one.   *)
TakeHandleDiscards(t) ==            \* mutant: the handle dies with its scope
  /\ call[t].pc = "returned"
  /\ call' = [call EXCEPT ![t] = Idle]
  /\ delayed' = delayed \ {t}
  /\ UNCHANGED <<backlog, queue, served>>
TakeHandle(t) ==
  /\ call[t].pc = "returned"
  /\ served' = served \cup ({call[t].handle} \ {Invalid})
  /\ call' = [call EXCEPT ![t] = Idle]
  /\ delayed' = delayed \ {t}
  /\ UNCHANGED <<backlog, queue>>

-----------------------------------------------------------------------------
Waiting(t) == call[t].pc \in {"poll", "timedAccept"}

CanReturn(t) ==
  \/ call[t].pc \in {"poll", "accept", "timedAccept"} /\ queue # <<>>
  \/ call[t].pc = "poll" /\ call[t].left = 0

Older(c) == [c EXCEPT !.left  = IF @ = 0 THEN 0 ELSE @ - 1,
                      !.spent = IF @ > Timeout THEN @ ELSE @ + 1]

Tick ==
  /\ \A t \in Threads : ~CanReturn(t)
  /\ \E t \in Threads : Waiting(t)
  /\ call' = [t \in Threads |-> IF Waiting(t) THEN Older(call[t]) ELSE call[t]]
  /\ UNCHANGED <<backlog, queue, served, delayed>>

ThreadStep(t) ==
  \/ StartAccept(t)
  \/ StartTimedAccept(t)
  \/ PollReturns(t)
  \/ PollTimesOut(t)
  \/ AcceptReturns(t)
  \/ TakeHandle(t)

SignalStep(t) == PollInterrupted(t) \/ AcceptInterrupted(t)

Next ==
  \/ \E n \in Backlogs : Listen(n)
  \/ \E c \in Clients : Arrive(c) \/ Leave(c)
  \/ \E t \in Threads : ThreadStep(t) \/ SignalStep(t)
  \/ Tick

(* Server threads go on, and so does time.  Clients come as they like, and *)
(* nobody is bound to send signals.                                        *)
Spec == Init /\ [][Next]_vars /\ WF_vars(Tick) /\ \A t \in Threads : WF_vars(ThreadStep(t))

-----------------------------------------------------------------------------
(* Properties.                                                             *)

(* timedAccept returns, or has an invalid handle to return, at the latest  *)
(* when its timeout has run out (TCPSocket.h, "or the given timeout runs   *)
(* out"), but for two things that the code does nothing about: a signal    *)
(* starts ::poll() anew with all of the timeout, and after it another      *)
(* thread may take the last connection and leave ::accept() waiting.       *)
WithinTimeout == \A t \in Threads : call[t].spent > Timeout => t \in delayed

(* timedAccept gives up only after all of its timeout, with nobody waiting *)
(* to be accepted, also if other threads took the connections it saw.      *)
GivesUp(t) == call[t].pc = "poll" /\ call'[t].pc = "returned"

GivesUpInVain ==
  [][\A t \in Threads : GivesUp(t) => queue = <<>> /\ call[t].spent >= Timeout]_vars

(* Whoever is in the queue is served sooner or later, as long as there is  *)
(* a thread left to serve.                                                 *)
EveryoneIsServed ==
  \A c \in Clients :
    Queued(c) ~> c \in served \/ \A t \in Threads : call[t].pc = "threw"

-----------------------------------------------------------------------------
(* What makes the properties of timedAccept inductive.                     *)

(* A thread in ::poll() has waited for as long as ::poll() waits less.     *)
Waited ==
  \A t \in Threads : call[t].pc = "poll" => call[t].spent + call[t].left >= Timeout

(* Unless something set it back, it has not waited longer, and is in       *)
(* ::accept() only while somebody is in the queue.                         *)
OnTime ==
  \A t \in Threads \ delayed :
    /\ call[t].spent <= Timeout
    /\ call[t].pc = "poll" => call[t].spent + call[t].left <= Timeout
    /\ call[t].pc = "timedAccept" => queue # <<>>
=============================================================================
