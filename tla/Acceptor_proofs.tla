--------------------------- MODULE Acceptor_proofs ---------------------------
(***************************************************************************)
(* Proofs about Acceptor, for any number of threads and clients and any    *)
(* timeout: timedAccept never gives up early, and it is late only when a   *)
(* signal or another thread has set it back.                               *)
(***************************************************************************)
EXTENDS Acceptor, SequenceTheorems, TLAPS

LEMMA QueueFacts ==
  ASSUME queue \in Seq(Clients)
  PROVE  /\ queue # <<>> => Head(queue) \in Clients /\ Tail(queue) \in Seq(Clients)
         /\ \A c \in Clients : Append(queue, c) \in Seq(Clients) /\ Append(queue, c) # <<>>
<1>1. queue # <<>> => Head(queue) \in Clients /\ Tail(queue) \in Seq(Clients)
  OBVIOUS
<1>2. ASSUME NEW c \in Clients
      PROVE  Append(queue, c) \in Seq(Clients) /\ Append(queue, c) # <<>>
  BY AppendProperties
<1> QED BY <1>1, <1>2

LEMMA ReturnedType ==
  ASSUME NEW c \in CallType, NEW h \in Clients \cup {Invalid}
  PROVE  LET r == [c EXCEPT !.pc = "returned", !.handle = h]
         IN  r \in CallType /\ r.pc = "returned" /\ r.spent = c.spent
BY DEF CallType

LEMMA OlderType ==
  ASSUME NEW c \in CallType
  PROVE  /\ Older(c) \in CallType
         /\ Older(c).pc = c.pc /\ Older(c).handle = c.handle
         /\ Older(c).left = IF c.left = 0 THEN 0 ELSE c.left - 1
         /\ Older(c).spent = IF c.spent > Timeout THEN c.spent ELSE c.spent + 1
<1> DEFINE l == IF c.left = 0 THEN 0 ELSE c.left - 1
           s == IF c.spent > Timeout THEN c.spent ELSE c.spent + 1
<1>1. l \in 0..Timeout /\ s \in 0..(Timeout + 1)
  BY AcceptorAssumption DEF CallType
<1>2. Older(c) = [c EXCEPT !.left = l, !.spent = s]
  BY DEF Older
<1> HIDE DEF l, s
<1>3. /\ Older(c) \in CallType
      /\ Older(c).pc = c.pc /\ Older(c).handle = c.handle
      /\ Older(c).left = l /\ Older(c).spent = s
  BY <1>1, <1>2 DEF CallType
<1> QED BY <1>3 DEF l, s

-----------------------------------------------------------------------------
LEMMA InitTypeOK == Init => TypeOK
BY AcceptorAssumption DEF Init, TypeOK, CallType, Idle

LEMMA NextTypeOK == TypeOK /\ [Next]_vars => TypeOK'
<1> SUFFICES ASSUME TypeOK, [Next]_vars PROVE TypeOK'
  OBVIOUS
<1> USE AcceptorAssumption DEF TypeOK, CallType, Idle
<1>1. CASE \E n \in Backlogs : Listen(n)
  BY <1>1 DEF Listen
<1>2. CASE \E c \in Clients : Arrive(c) \/ Leave(c)
  BY <1>2, QueueFacts DEF Arrive, Leave
<1>3. ASSUME NEW t \in Threads, ThreadStep(t) PROVE TypeOK'
  <2>1. CASE StartAccept(t)       BY <2>1 DEF StartAccept
  <2>2. CASE StartTimedAccept(t)  BY <2>2 DEF StartTimedAccept
  <2>3. CASE PollReturns(t)       BY <2>3 DEF PollReturns
  <2>4. CASE PollTimesOut(t)      BY <2>4, ReturnedType DEF PollTimesOut
  <2>5. CASE AcceptReturns(t)     BY <2>5, QueueFacts, ReturnedType DEF AcceptReturns, Beaten
  <2>6. CASE TakeHandle(t)        BY <2>6 DEF TakeHandle
  <2> QED BY <1>3, <2>1, <2>2, <2>3, <2>4, <2>5, <2>6 DEF ThreadStep
<1>4. ASSUME NEW t \in Threads, SignalStep(t) PROVE TypeOK'
  <2>1. CASE PollInterrupted(t)
    <3>1. Timeout \in 0..Timeout
      OBVIOUS
    <3>2. ASSUME NEW c \in CallType, NEW l \in 0..Timeout
          PROVE  [c EXCEPT !.left = l] \in CallType
      OBVIOUS
    <3> QED BY <2>1, <3>1, <3>2 DEF PollInterrupted
  <2>2. CASE AcceptInterrupted(t)  BY <2>2 DEF AcceptInterrupted
  <2> QED BY <1>4, <2>1, <2>2 DEF SignalStep
<1>5. CASE Tick
  BY <1>5, OlderType DEF Tick
<1>6. CASE UNCHANGED vars
  BY <1>6 DEF vars
<1> QED BY <1>1, <1>2, <1>3, <1>4, <1>5, <1>6 DEF Next

(* The members of the model stay in their types.                           *)
THEOREM TypeCorrect == Spec => []TypeOK
BY InitTypeOK, NextTypeOK, PTL DEF Spec

-----------------------------------------------------------------------------
LEMMA InitWaited == Init => Waited
BY DEF Init, Waited, Idle

LEMMA NextWaited == TypeOK /\ Waited /\ [Next]_vars => Waited'
<1> SUFFICES ASSUME TypeOK, Waited, [Next]_vars PROVE Waited'
  OBVIOUS
<1> USE AcceptorAssumption DEF TypeOK, Waited, CallType, Idle
<1>1. CASE UNCHANGED call
  BY <1>1
<1>2. ASSUME NEW t \in Threads, ThreadStep(t) PROVE Waited'
  <2>1. CASE StartAccept(t)       BY <2>1 DEF StartAccept
  <2>2. CASE StartTimedAccept(t)  BY <2>2 DEF StartTimedAccept
  <2>3. CASE PollReturns(t)       BY <2>3 DEF PollReturns
  <2>4. CASE PollTimesOut(t)      BY <2>4, ReturnedType DEF PollTimesOut
  <2>5. CASE AcceptReturns(t)     BY <2>5, QueueFacts, ReturnedType DEF AcceptReturns
  <2>6. CASE TakeHandle(t)        BY <2>6 DEF TakeHandle
  <2> QED BY <1>2, <2>1, <2>2, <2>3, <2>4, <2>5, <2>6 DEF ThreadStep
<1>3. ASSUME NEW t \in Threads, SignalStep(t) PROVE Waited'
  <2>1. CASE PollInterrupted(t)    BY <2>1 DEF PollInterrupted
  <2>2. CASE AcceptInterrupted(t)  BY <2>2 DEF AcceptInterrupted
  <2> QED BY <1>3, <2>1, <2>2 DEF SignalStep
<1>4. CASE Tick
  <2>1. \A t \in Threads :
          call[t].pc = "poll" => call[t].left > 0 /\ call'[t] = Older(call[t])
    BY <1>4 DEF Tick, CanReturn, Waiting
  <2>2. \A t \in Threads : call'[t].pc = call[t].pc
    BY <1>4, OlderType DEF Tick
  <2>3. ASSUME NEW t \in Threads, call'[t].pc = "poll"
        PROVE  call'[t].spent + call'[t].left >= Timeout
    <3> DEFINE c == call[t]
    <3>1. c \in CallType /\ c.left > 0 /\ call'[t] = Older(c) /\ c.spent + c.left >= Timeout
      BY <2>1, <2>2, <2>3
    <3>2. c.left \in Nat /\ c.spent \in Nat
      BY <3>1
    <3> HIDE DEF c, CallType, TypeOK, Waited
    <3>3. Older(c).left = c.left - 1
      BY <3>1, <3>2, OlderType
    <3>4. IF c.spent > Timeout THEN Older(c).spent = c.spent ELSE Older(c).spent = c.spent + 1
      BY <3>1, OlderType
    <3> QED BY <3>1, <3>2, <3>3, <3>4
  <2> QED BY <2>3
<1> QED BY <1>1, <1>2, <1>3, <1>4 DEF Next, vars, Listen, Arrive, Leave

(* timedAccept gives up only after its whole timeout with an empty queue,  *)
(* whatever signals and other threads do.                                  *)
THEOREM NeverEarly == Spec => GivesUpInVain
<1> USE AcceptorAssumption DEF TypeOK, Waited, CallType, Idle
<1> DEFINE InVain == \A t \in Threads : GivesUp(t) => queue = <<>> /\ call[t].spent >= Timeout
<1>1. TypeOK /\ Waited /\ [Next]_vars => [InVain]_vars
  <2> SUFFICES ASSUME TypeOK, Waited, Next, NEW t \in Threads, GivesUp(t)
               PROVE  queue = <<>> /\ call[t].spent >= Timeout
    BY DEF GivesUp, vars
  <2>1. ~Tick
    BY OlderType DEF Tick, GivesUp
  <2>2. PICK u \in Threads : ThreadStep(u) \/ SignalStep(u)
    BY <2>1 DEF GivesUp, Next, Listen, Arrive, Leave
  <2>3. CASE PollTimesOut(u)
    <3>1. u = t
      BY <2>3 DEF PollTimesOut, GivesUp
    <3> QED BY <2>3, <3>1 DEF PollTimesOut, GivesUp
  <2>4. ~ (StartAccept(u) \/ StartTimedAccept(u) \/ PollReturns(u) \/ AcceptReturns(u) \/ TakeHandle(u))
    BY DEF GivesUp, StartAccept, StartTimedAccept, PollReturns, AcceptReturns, TakeHandle
  <2>5. ~SignalStep(u)
    BY DEF GivesUp, SignalStep, PollInterrupted, AcceptInterrupted
  <2> QED BY <2>2, <2>3, <2>4, <2>5 DEF ThreadStep
<1> HIDE DEF InVain
<1>2. GivesUpInVain <=> [][InVain]_vars
  BY DEF GivesUpInVain, InVain
<1> QED BY <1>1, InitTypeOK, NextTypeOK, InitWaited, NextWaited, PTL DEF Spec, GivesUpInVain, InVain

-----------------------------------------------------------------------------
LEMMA InitOnTime == Init => OnTime
<1> SUFFICES ASSUME Init, NEW t \in Threads
             PROVE  /\ call[t].spent <= Timeout
                    /\ call[t].pc \notin {"poll", "timedAccept"}
  BY DEF OnTime
<1> QED BY AcceptorAssumption DEF Init, Idle

(* A step of one thread leaves the others on time: only AcceptReturns can  *)
(* empty the queue, and it names those it leaves behind.                   *)
LEMMA NextOnTime == TypeOK /\ OnTime /\ [Next]_vars => OnTime'
<1> SUFFICES ASSUME TypeOK, OnTime, [Next]_vars PROVE OnTime'
  OBVIOUS
<1> USE AcceptorAssumption DEF TypeOK, OnTime, CallType, Idle
<1>1. CASE \E n \in Backlogs : Listen(n)
  BY <1>1 DEF Listen
<1>2. CASE \E c \in Clients : Arrive(c) \/ Leave(c)
  <2>1. queue # <<>> => queue' # <<>>
    BY <1>2, QueueFacts DEF Arrive, Leave
  <2>2. UNCHANGED <<call, delayed>>
    BY <1>2 DEF Arrive, Leave
  <2> QED BY <2>1, <2>2
<1>3. ASSUME NEW t \in Threads, ThreadStep(t) PROVE OnTime'
  <2>1. CASE StartAccept(t)       BY <2>1 DEF StartAccept
  <2>2. CASE StartTimedAccept(t)  BY <2>2 DEF StartTimedAccept
  <2>3. CASE PollReturns(t)       BY <2>3 DEF PollReturns
  <2>4. CASE PollTimesOut(t)      BY <2>4, ReturnedType DEF PollTimesOut
  <2>5. CASE AcceptReturns(t)
    <3>1. ASSUME NEW u \in Threads \ delayed', u # t, call[u].pc = "timedAccept"
          PROVE  queue' # <<>>
      BY <2>5, <3>1 DEF AcceptReturns, Beaten
    <3>2. delayed \subseteq delayed' /\ \A u \in Threads : u # t => call'[u] = call[u]
      BY <2>5 DEF AcceptReturns
    <3>3. call'[t].pc = "returned" /\ call'[t].spent = call[t].spent
      BY <2>5, QueueFacts, ReturnedType DEF AcceptReturns
    <3> QED BY <3>1, <3>2, <3>3
  <2>6. CASE TakeHandle(t)        BY <2>6 DEF TakeHandle
  <2> QED BY <1>3, <2>1, <2>2, <2>3, <2>4, <2>5, <2>6 DEF ThreadStep
<1>4. ASSUME NEW t \in Threads, SignalStep(t) PROVE OnTime'
  <2>1. CASE PollInterrupted(t)
    <3>1. t \in delayed' /\ delayed \subseteq delayed' /\ UNCHANGED queue
      BY <2>1 DEF PollInterrupted
    <3>2. \A u \in Threads : u # t => call'[u] = call[u]
      BY <2>1 DEF PollInterrupted
    <3> QED BY <3>1, <3>2
  <2>2. CASE AcceptInterrupted(t)  BY <2>2 DEF AcceptInterrupted
  <2> QED BY <1>4, <2>1, <2>2 DEF SignalStep
<1>5. CASE Tick
  <2> SUFFICES ASSUME NEW t \in Threads \ delayed, Waiting(t)
               PROVE  /\ call'[t].pc = "poll"
                      /\ call'[t].spent <= Timeout
                      /\ call'[t].spent + call'[t].left <= Timeout
    BY <1>5 DEF Tick, Waiting
  <2>1. call[t].pc = "poll" /\ call[t].left > 0
    BY <1>5 DEF Tick, CanReturn, Waiting
  <2> DEFINE c == call[t]
  <2>2. /\ c \in CallType /\ c.left \in Nat /\ c.spent \in Nat
        /\ c.left > 0 /\ c.spent + c.left <= Timeout
    BY <2>1
  <2>3. call'[t] = Older(c)
    BY <1>5 DEF Tick
  <2>4. /\ call'[t].pc = "poll"
        /\ call'[t].left = c.left - 1
        /\ call'[t].spent = c.spent + 1
    <3> HIDE DEF c, CallType, TypeOK, OnTime
    <3>1. c.pc = "poll"
      BY <2>1 DEF c
    <3> QED BY <2>2, <2>3, <3>1, OlderType
  <2> QED BY <2>2, <2>4
<1>6. CASE UNCHANGED vars
  BY <1>6 DEF vars
<1> QED BY <1>1, <1>2, <1>3, <1>4, <1>5, <1>6 DEF Next

(* timedAccept is late only after a signal started its ::poll() anew, or   *)
(* another thread took the connection that its ::poll() had seen.          *)
THEOREM NeverLate == Spec => []WithinTimeout
<1>1. TypeOK /\ OnTime => WithinTimeout
  BY AcceptorAssumption DEF TypeOK, OnTime, WithinTimeout, CallType
<1> QED BY <1>1, InitOnTime, NextOnTime, InitTypeOK, NextTypeOK, PTL DEF Spec

(* A thread that has the listening socket to itself, and that no signal    *)
(* interrupts, is never late.                                              *)
THEOREM AloneInTime ==
  ASSUME NEW s \in Threads, Threads = {s}, ~Signals
  PROVE  Spec => [](call[s].spent <= Timeout)
<1> DEFINE Alone == delayed = {}
<1>1. Init => Alone
  BY DEF Init
<1>2. Alone /\ [Next]_vars => Alone'
  <2> SUFFICES ASSUME Alone, [Next]_vars PROVE Alone'
    OBVIOUS
  <2>1. ASSUME NEW t \in Threads, AcceptReturns(t) PROVE Alone'
    BY <2>1 DEF AcceptReturns, Beaten
  <2>2. ~SignalStep(s)
    BY DEF SignalStep, PollInterrupted, AcceptInterrupted
  <2> QED BY <2>1, <2>2 DEF Next, vars, Listen, Arrive, Leave, Tick, ThreadStep, StartAccept,
                            StartTimedAccept, PollReturns, PollTimesOut, TakeHandle
<1>3. OnTime /\ Alone => call[s].spent <= Timeout
  BY DEF OnTime
<1> QED BY <1>1, <1>2, <1>3, InitOnTime, NextOnTime, InitTypeOK, NextTypeOK, PTL DEF Spec
=============================================================================
