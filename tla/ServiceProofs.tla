----------------------------- MODULE ServiceProofs -----------------------------
(***************************************************************************)
(* Proofs about Service for any workers, requests, callbacks and socket.   *)
(* A step of Service is a step of ThreadPool or none of its concern, and   *)
(* the same of IoThread, so what ThreadPoolProofs and IoThreadProofs show  *)
(* of a step holds here.  On top of it Users follows a request from hand   *)
(* to hand and Kinds what its answer says.                                 *)
(***************************************************************************)
EXTENDS Service, FiniteSetTheorems, TLAPS

PoolP == INSTANCE ThreadPoolProofs WITH Tasks <- Requests, Timed <- Requests,
                                        Hanging <- {}, mutex_ <- pool_mutex_, submitted <- accepted
IoP == INSTANCE IoThreadProofs WITH Submitters <- Workers \cup {LateThread},
                                    Functors <- Requests \X Callbacks,
                                    mutex_ <- io_mutex_, submitted <- posted

-----------------------------------------------------------------------------
(* The two parts keep their invariants.                                     *)

LEMMA PartsAssumptions == PoolP!PoolAssumption /\ IoP!PipeAssumption /\ IoP!NoneAssumption
<1>1. PoolP!IsFiniteSet(Workers)
  BY ServiceAssumption DEF IsFiniteSet, PoolP!IsFiniteSet
<1> QED
  BY <1>1, ServiceAssumption DEF PoolP!PoolAssumption, IoP!PipeAssumption, IoP!NoneAssumption

\* Service's instance of ThreadPool and the one its proofs are about are the same.
LEMMA SamePoolAdds ==
    ASSUME NEW r \in Requests
    PROVE  /\ Pool!AddTask(r) <=> PoolP!AddTask(r)
           /\ Pool!Expire(r) <=> PoolP!Expire(r)
<1>1. Pool!AddTask(r) <=> PoolP!AddTask(r)
  BY DEF Pool!AddTask, PoolP!AddTask, Pool!Push, PoolP!Push, Pool!MustNotify, PoolP!MustNotify,
         Pool!Notify, PoolP!Notify, Pool!Sleeping, PoolP!Sleeping
<1>2. Pool!Expire(r) <=> PoolP!Expire(r)
  BY DEF Pool!Expire, PoolP!Expire, Pool!poolVars, PoolP!poolVars, Pool!workVars, PoolP!workVars,
         Pool!histVars, PoolP!histVars
<1> QED
  BY <1>1, <1>2

LEMMA SamePoolSteps ==
    ASSUME NEW w \in Workers
    PROVE  /\ Pool!WorkerStep(w) <=> PoolP!WorkerStep(w)
           /\ Pool!SpuriousWake(w) <=> PoolP!SpuriousWake(w)
           /\ Pool!RunReturn(w) <=> PoolP!RunReturn(w)
           /\ Pool!RunThrow(w) <=> PoolP!RunThrow(w)
           /\ Pool!ExpireReturn(w) <=> PoolP!ExpireReturn(w)
           /\ Pool!ExpireThrow(w) <=> PoolP!ExpireThrow(w)
<1>3. Pool!WorkerStep(w) <=> PoolP!WorkerStep(w)
  <2>1. Pool!Acquire(w) <=> PoolP!Acquire(w)
    BY DEF Pool!Acquire, PoolP!Acquire, Pool!Goto, PoolP!Goto, Pool!histVars, PoolP!histVars
  <2>2. Pool!Leave(w) <=> PoolP!Leave(w)
    BY DEF Pool!Leave, PoolP!Leave, Pool!Goto, PoolP!Goto, Pool!histVars, PoolP!histVars,
           Pool!IsSurvival, PoolP!IsSurvival
  <2>3. Pool!Sleep(w) <=> PoolP!Sleep(w)
    BY DEF Pool!Sleep, PoolP!Sleep, Pool!Goto, PoolP!Goto, Pool!histVars, PoolP!histVars,
           Pool!IsSurvival, PoolP!IsSurvival
  <2>4. Pool!Reacquire(w) <=> PoolP!Reacquire(w)
    BY DEF Pool!Reacquire, PoolP!Reacquire, Pool!Goto, PoolP!Goto, Pool!histVars, PoolP!histVars
  <2>5. Pool!Take(w) <=> PoolP!Take(w)
    BY DEF Pool!Take, PoolP!Take, Pool!Goto, PoolP!Goto, Pool!IsSurvival, PoolP!IsSurvival,
           Pool!TimedOut, PoolP!TimedOut, Pool!Pop, PoolP!Pop, Pool!Unlock, PoolP!Unlock
  <2> QED
    BY <2>1, <2>2, <2>3, <2>4, <2>5 DEF Pool!WorkerStep, PoolP!WorkerStep
<1>4. Pool!SpuriousWake(w) <=> PoolP!SpuriousWake(w)
  BY DEF Pool!SpuriousWake, PoolP!SpuriousWake, Pool!Goto, PoolP!Goto, Pool!poolVars, PoolP!poolVars,
         Pool!histVars, PoolP!histVars
<1>5. /\ Pool!RunReturn(w) <=> PoolP!RunReturn(w)
      /\ Pool!RunThrow(w) <=> PoolP!RunThrow(w)
      /\ Pool!ExpireReturn(w) <=> PoolP!ExpireReturn(w)
  BY DEF Pool!RunReturn, PoolP!RunReturn, Pool!RunThrow, PoolP!RunThrow, Pool!ExpireReturn,
         PoolP!ExpireReturn, Pool!Return, PoolP!Return, Pool!Goto, PoolP!Goto,
         Pool!poolVars, PoolP!poolVars, Pool!histVars, PoolP!histVars
<1>6. Pool!ExpireThrow(w) <=> PoolP!ExpireThrow(w)
  BY DEF Pool!ExpireThrow, PoolP!ExpireThrow, Pool!poolVars, PoolP!poolVars, Pool!workVars,
         PoolP!workVars, Pool!histVars, PoolP!histVars
<1> QED
  BY <1>3, <1>4, <1>5, <1>6

\* The same of IoThread.
LEMMA SameIoSteps ==
    /\ Io!Start <=> IoP!Start
    /\ Io!EventHandler <=> IoP!EventHandler
    /\ Io!Swap <=> IoP!Swap
    /\ Io!Execute <=> IoP!Execute
    /\ Io!Return <=> IoP!Return
    /\ \A s \in Workers \cup {LateThread} :
           /\ Io!SubmitNotify(s) <=> IoP!SubmitNotify(s)
           /\ \A f \in Requests \X Callbacks : Io!SubmitPush(s, f) <=> IoP!SubmitPush(s, f)
<1>1. Io!Start <=> IoP!Start
  BY DEF Io!Start, IoP!Start
<1>2. Io!EventHandler <=> IoP!EventHandler
  BY DEF Io!EventHandler, IoP!EventHandler, Io!Received, IoP!Received
<1>3. (Io!Swap <=> IoP!Swap) /\ (Io!Execute <=> IoP!Execute) /\ (Io!Return <=> IoP!Return)
  BY DEF Io!Swap, IoP!Swap, Io!SwapOut, IoP!SwapOut, Io!Execute, IoP!Execute,
         Io!Return, IoP!Return, Io!LoopOver, IoP!LoopOver
<1>4. ASSUME NEW s \in Workers \cup {LateThread}
      PROVE  Io!SubmitNotify(s) <=> IoP!SubmitNotify(s)
  BY DEF Io!SubmitNotify, IoP!SubmitNotify, Io!Send, IoP!Send
<1>5. ASSUME NEW s \in Workers \cup {LateThread}, NEW f \in Requests \X Callbacks
      PROVE  Io!SubmitPush(s, f) <=> IoP!SubmitPush(s, f)
  BY DEF Io!SubmitPush, IoP!SubmitPush, Io!Push, IoP!Push
<1> QED
  BY <1>1, <1>2, <1>3, <1>4, <1>5

LEMMA SameTypes == /\ Pool!TypeOK <=> PoolP!TypeOK
                   /\ Io!TypeOK <=> IoP!TypeOK
  BY DEF Pool!TypeOK, PoolP!TypeOK, Pool!Labels, PoolP!Labels, Pool!TaskStates, PoolP!TaskStates,
         Io!TypeOK, IoP!TypeOK

PartsInv == PoolP!Counting /\ PoolP!Ownership /\ IoP!IInv

LEMMA InitParts == Init => PartsInv
<1> SUFFICES ASSUME Init PROVE PartsInv
  OBVIOUS
<1>1. PoolP!Init /\ IoP!Init
  BY DEF Init, Pool!Init, PoolP!Init, Io!Init, IoP!Init
<1> QED
  BY <1>1, PartsAssumptions, PoolP!CountingInit, PoolP!OwnershipInit, IoP!InitIInv DEF PartsInv

\* What is known of a request in the hands of a worker.
LEMMA HandlerFacts ==
    ASSUME PartsInv, TypeOK, NEW w \in Workers, Handling(w)
    PROVE  /\ task[w] \in Requests
           /\ Callback(w) # "nobody" => <<task[w], Callback(w)>> \in Requests \X Callbacks
<1>1. PoolP!HandlersHoldTasks /\ PoolP!TypeOK
  BY DEF PartsInv, PoolP!Ownership, PoolP!Counting
<1>2. task[w] \in Requests
  BY <1>1, PartsAssumptions DEF Handling, PoolP!HandlersHoldTasks, PoolP!TypeOK
<1> QED
  BY <1>2 DEF Callback, Callbacks

\* Every step of Service is one of both parts, or leaves a part alone.
LEMMA StepOfParts ==
    PartsInv /\ TypeOK /\ [Next]_vars => [PoolP!Next]_(PoolP!vars) /\ [IoP!Next]_(IoP!vars)
<1> SUFFICES ASSUME PartsInv, TypeOK, [Next]_vars
             PROVE  [PoolP!Next]_(PoolP!vars) /\ [IoP!Next]_(IoP!vars)
  OBVIOUS
<1>a. ASSUME UNCHANGED poolState PROVE UNCHANGED PoolP!vars
  BY <1>a DEF poolState, PoolP!vars, PoolP!poolVars, PoolP!workVars, PoolP!histVars
<1>b. ASSUME UNCHANGED ioState PROVE UNCHANGED IoP!vars
  BY <1>b DEF ioState, IoP!vars
<1>1. CASE UNCHANGED vars \/ Idle \/ RegisterDefaultHandler \/ RegisterTimeoutHandler
           \/ \E uri \in Routes : RegisterHandler(uri)
  BY <1>a, <1>b, <1>1 DEF vars, Idle, Register, RegisterHandler, RegisterDefaultHandler,
                          RegisterTimeoutHandler
<1>2. CASE Start
  <2>1. IoP!Next /\ UNCHANGED poolState
    BY <1>2, SameIoSteps DEF Start, IoP!Next
  <2> QED
    BY <1>a, <2>1
<1>3. ASSUME NEW r \in Requests, CoreHandleRequest(r) \/ Expire(r)
      PROVE  [PoolP!Next]_(PoolP!vars) /\ [IoP!Next]_(IoP!vars)
  <2>1. (PoolP!AddTask(r) \/ PoolP!Expire(r)) /\ UNCHANGED ioState
    <3>1. CASE CoreHandleRequest(r)
      BY <3>1, SamePoolAdds DEF CoreHandleRequest
    <3>2. CASE Expire(r)
      BY <3>2, SamePoolAdds DEF Expire
    <3> QED
      BY <1>3, <3>1, <3>2
  <2> QED
    BY <1>b, <2>1 DEF PoolP!Next
<1>4. CASE IoLoop
  <2>1. (IoP!EventHandler \/ IoP!Swap \/ IoP!Return \/ IoP!Execute) /\ UNCHANGED poolState
    BY <1>4, SameIoSteps DEF IoLoop, DrainNotify, SendReply
  <2> QED
    BY <1>a, <2>1 DEF IoP!Next, IoP!IoStep
<1>5. ASSUME NEW w \in Workers, PoolStep(w) \/ SpuriousWake(w) \/ Throw(w) \/ HandlerReturns(w)
      PROVE  [PoolP!Next]_(PoolP!vars) /\ [IoP!Next]_(IoP!vars)
  <2>1. /\ \/ PoolP!WorkerStep(w) \/ PoolP!SpuriousWake(w) \/ PoolP!RunThrow(w) \/ PoolP!ExpireThrow(w)
           \/ PoolP!RunReturn(w) \/ PoolP!ExpireReturn(w)
        /\ UNCHANGED ioState
    BY <1>5, SamePoolSteps DEF PoolStep, SpuriousWake, Throw, HandlerReturns
  <2> QED
    BY <1>b, <2>1 DEF PoolP!Next, PoolP!HandlerEnds
<1>6. ASSUME NEW w \in Workers, Respond(w) \/ KeepForLater(w) \/ Ignore(w)
      PROVE  [PoolP!Next]_(PoolP!vars) /\ [IoP!Next]_(IoP!vars)
  <2>1. UNCHANGED poolState
    BY <1>6 DEF Respond, KeepForLater, Ignore
  <2>2. CASE Respond(w)
    <3>1. /\ Io!SubmitPush(w, <<task[w], Callback(w)>>)
          /\ <<task[w], Callback(w)>> \in Requests \X Callbacks
      BY <2>2, HandlerFacts DEF Respond, Does
    <3>2. IoP!SubmitPush(w, <<task[w], Callback(w)>>)
      BY <3>1, SameIoSteps
    <3> QED
      BY <1>a, <2>1, <3>1, <3>2 DEF IoP!Next
  <2>3. CASE KeepForLater(w) \/ Ignore(w)
    BY <1>a, <1>b, <2>1, <2>3 DEF KeepForLater, Ignore
  <2> QED
    BY <1>6, <2>2, <2>3
<1>7. ASSUME NEW s \in Workers \cup {LateThread}, Notify(s)
      PROVE  [PoolP!Next]_(PoolP!vars) /\ [IoP!Next]_(IoP!vars)
  <2>1. IoP!SubmitNotify(s) /\ UNCHANGED poolState
    BY <1>7, SameIoSteps DEF Notify
  <2> QED
    BY <1>a, <2>1 DEF IoP!Next
<1>8. ASSUME NEW f \in late, RespondLate(f)
      PROVE  [PoolP!Next]_(PoolP!vars) /\ [IoP!Next]_(IoP!vars)
  <2>1. f \in Requests \X Callbacks
    BY DEF TypeOK
  <2>2. IoP!SubmitPush(LateThread, f) /\ UNCHANGED poolState
    BY <1>8, <2>1, SameIoSteps DEF RespondLate
  <2> QED
    BY <1>a, <2>1, <2>2 DEF IoP!Next
<1> QED
  BY <1>1, <1>2, <1>3, <1>4, <1>5, <1>6, <1>7, <1>8 DEF Next, Worker, LateStep

LEMMA StepParts == PartsInv /\ TypeOK /\ [Next]_vars => PartsInv'
<1> SUFFICES ASSUME PartsInv, TypeOK, [Next]_vars PROVE PartsInv'
  OBVIOUS
<1>1. [PoolP!Next]_(PoolP!vars) /\ [IoP!Next]_(IoP!vars)
  BY StepOfParts
<1>2. PoolP!TypeOK
  BY DEF PartsInv, PoolP!Counting
<1> QED
  BY <1>1, <1>2, PartsAssumptions, PoolP!CountingStep, PoolP!OwnershipStep, IoP!StepIInv DEF PartsInv

-----------------------------------------------------------------------------
(* Users: where a request is, and that it is nowhere else.                  *)

OnTheWay == (executed + 1)..Len(posted)

\* Nobody has got hold of r's reply, and none was sent.
Unused(r) == /\ \A f \in late : f[1] # r
             /\ \A i \in OnTheWay : posted[i][1] # r
             /\ replies[r] = <<>>

Queued(r) == tstate[r] \in {"NEW", "WAITING"}

QueuedIsUnused == \A r \in Requests : Queued(r) => Unused(r)
HandledIsUnused == \A w \in Workers : task[w] # None /\ ~done[w] => Unused(task[w])
KeptOnce == \A f \in late : /\ \A g \in late : f[1] = g[1] => f = g
                            /\ \A i \in OnTheWay : posted[i][1] # f[1]
                            /\ replies[f[1]] = <<>>
PostedOnce == \A i \in OnTheWay : /\ \A j \in OnTheWay : posted[i][1] = posted[j][1] => i = j
                                  /\ replies[posted[i][1]] = <<>>
RepliedOnce == \A r \in Requests : Len(replies[r]) <= 1

Users == QueuedIsUnused /\ HandledIsUnused /\ KeptOnce /\ PostedOnce /\ RepliedOnce

\* What a reply says: "timeout" if and only if the request was overdue when it was taken.
Fits(f) == (f[2] = "timeout") = (f[1] \in overdue)

Kinds == /\ \A w \in Workers : /\ pc[w] = "expire" => task[w] \in overdue
                               /\ pc[w] = "run" => task[w] \notin overdue
         /\ \A f \in late : Fits(f)
         /\ \A i \in OnTheWay : Fits(posted[i])
         /\ \A r \in Requests : replies[r] # <<>> => Fits(<<r, Head(replies[r])>>)

\* Before the event loop runs no request has come.
NoneBeforeStart == io = "off" => \A r \in Requests : tstate[r] = "NEW"

SInv == PartsInv /\ TypeOK /\ Users /\ Kinds /\ NoneBeforeStart

LEMMA InitSInv == Init => SInv
<1> SUFFICES ASSUME Init PROVE SInv
  OBVIOUS
<1>1. PartsInv
  BY InitParts
<1>2. TypeOK
  <2>1. Pool!TypeOK /\ Io!TypeOK
    BY <1>1, SameTypes DEF PartsInv, PoolP!Counting, IoP!IInv
  <2>2. <<>> \in Seq(Callbacks)
    OBVIOUS
  <2> QED
    BY <2>1, <2>2 DEF Init, TypeOK
<1>3. OnTheWay = {} /\ late = {} /\ \A r \in Requests : replies[r] = <<>>
  BY DEF Init, Io!Init, OnTheWay
<1>4. \A w \in Workers : task[w] = None /\ pc[w] = "lock"
  BY DEF Init, Pool!Init
<1>5. Users
  BY <1>3, <1>4 DEF Users, QueuedIsUnused, HandledIsUnused, KeptOnce, PostedOnce, RepliedOnce, Unused
<1>6. Kinds
  BY <1>3, <1>4 DEF Kinds
<1>7. NoneBeforeStart
  BY DEF Init, Pool!Init, NoneBeforeStart
<1> QED
  BY <1>1, <1>2, <1>5, <1>6, <1>7 DEF SInv

\* The request that a worker takes from the queue was queued, and the worker goes
\* where the clock says.
LEMMA WorkerEffect ==
    ASSUME SInv, NEW w \in Workers, PoolP!WorkerStep(w)
    PROVE  /\ UNCHANGED <<overdue, terminated>>
           /\ \A r \in Requests : Queued(r)' => Queued(r)
           /\ \A r \in Requests : tstate'[r] = "NEW" <=> tstate[r] = "NEW"
           /\ \A v \in Workers : \/ /\ task'[v] = task[v]
                                    /\ pc'[v] = pc[v] \/ pc'[v] \notin {"run", "expire"}
                                 \/ /\ task'[v] \in Requests
                                    /\ Queued(task'[v])
                                    /\ pc'[v] = IF task'[v] \in overdue THEN "expire" ELSE "run"
<1>0. /\ PoolP!TypeOK /\ PoolP!QueuedOnce
      /\ pc \in [Workers -> PoolP!Labels] /\ task \in [Workers -> Requests \cup {None}]
      /\ tstate \in [Requests -> PoolP!TaskStates] /\ task_queue_ \in Seq(Requests)
  BY DEF SInv, PartsInv, PoolP!Counting, PoolP!Ownership, PoolP!TypeOK
<1>1. CASE PoolP!Acquire(w) \/ PoolP!Leave(w) \/ PoolP!Sleep(w) \/ PoolP!Reacquire(w)
  BY <1>0, <1>1 DEF PoolP!Acquire, PoolP!Leave, PoolP!Sleep, PoolP!Reacquire, PoolP!Goto, PoolP!histVars,
                    Queued
<1>2. CASE PoolP!Take(w)
  <2>1. PICK t : /\ t = Head(task_queue_) /\ task_queue_ # <<>>
                 /\ task' = [task EXCEPT ![w] = t]
                 /\ tstate' = [tstate EXCEPT ![t] = IF t \in overdue THEN "TIMEDOUT" ELSE "EXECUTING"]
                 /\ pc' = [pc EXCEPT ![w] = IF t \in overdue THEN "expire" ELSE "run"]
                 /\ UNCHANGED <<overdue, terminated>>
    BY <1>2 DEF PoolP!Take, PoolP!Goto, PoolP!TimedOut
  <2>2. t \in Requests /\ t = task_queue_[1] /\ 1 \in 1..Len(task_queue_)
    BY <1>0, <2>1
  <2>3. tstate[t] = "WAITING"
    BY <1>0, <2>2 DEF PoolP!QueuedOnce
  <2> QED
    BY <1>0, <2>1, <2>2, <2>3 DEF Queued
<1> QED
  BY <1>1, <1>2 DEF PoolP!WorkerStep

\* Steps that move no reply and give nobody a request that was not queued.
LEMMA QuietUsers ==
    ASSUME Users, UNCHANGED <<late, replies, posted, executed>>,
           \A r \in Requests : Queued(r)' => Queued(r),
           \A w \in Workers : task'[w] # None /\ ~done'[w] =>
               \/ (task'[w] = task[w] /\ ~done[w])
               \/ (task'[w] \in Requests /\ Queued(task'[w]))
    PROVE  Users'
<1>1. OnTheWay' = OnTheWay
  BY DEF OnTheWay
<1>2. \A r : Unused(r)' <=> Unused(r)
  BY <1>1 DEF Unused
<1>3. QueuedIsUnused' /\ HandledIsUnused'
  BY <1>2 DEF Users, QueuedIsUnused, HandledIsUnused
<1>4. KeptOnce' /\ PostedOnce' /\ RepliedOnce'
  BY <1>1 DEF Users, KeptOnce, PostedOnce, RepliedOnce
<1> QED
  BY <1>3, <1>4 DEF Users

LEMMA QuietKinds ==
    ASSUME Kinds, UNCHANGED <<late, replies, posted, executed, overdue>>,
           \A w \in Workers : /\ pc'[w] = "expire" => task'[w] \in overdue
                              /\ pc'[w] = "run" => task'[w] \notin overdue
    PROVE  Kinds'
  BY DEF Kinds, Fits, OnTheWay

\* A reply that is pushed is for a request nobody else uses.
LEMMA PushedUsers ==
    ASSUME PartsInv, TypeOK, Users, NEW f \in Requests \X Callbacks,
           posted' = Append(posted, f), UNCHANGED <<replies, executed, tstate, task>>,
           ~Queued(f[1]),
           late' \subseteq late, \A g \in late' : g[1] # f[1],
           \A i \in OnTheWay : posted[i][1] # f[1],
           replies[f[1]] = <<>>,
           \A w \in Workers : task[w] # None /\ ~done'[w] => ~done[w] /\ task[w] # f[1]
    PROVE  /\ Users'
           /\ \A i \in OnTheWay' : posted'[i] = f \/ (i \in OnTheWay /\ posted'[i] = posted[i])
<1>0. posted \in Seq(Requests \X Callbacks) /\ executed \in Nat /\ executed <= Len(posted)
      /\ Len(posted) \in Nat
  <2>1. IoP!TypeOK /\ IoP!InOrderOnce
    BY DEF PartsInv, IoP!IInv
  <2>2. posted \in Seq(Requests \X Callbacks) /\ executed \in Nat /\ functors \in Seq(Requests \X Callbacks)
        /\ task_functors_ \in Seq(Requests \X Callbacks)
    BY <2>1 DEF IoP!TypeOK
  <2>3. executed + Len(functors) + Len(task_functors_) = Len(posted)
    BY <2>1 DEF IoP!InOrderOnce
  <2> QED
    BY <2>2, <2>3
<1>1. /\ \A i \in OnTheWay' : \/ i = Len(posted) + 1 /\ posted'[i] = f
                              \/ i \in OnTheWay /\ posted'[i] = posted[i]
      /\ \A i \in OnTheWay : i # Len(posted) + 1
  BY <1>0 DEF OnTheWay
<1>2. ASSUME NEW r \in Requests, Unused(r), r # f[1] PROVE Unused(r)'
  BY <1>1, <1>2 DEF Unused
<1>3. QueuedIsUnused'
  BY <1>2 DEF Users, QueuedIsUnused, Queued
<1>4. HandledIsUnused'
  <2>1. \A w \in Workers : task[w] \in Requests \cup {None}
    BY DEF PartsInv, PoolP!Counting, PoolP!TypeOK
  <2> QED
    BY <1>2, <2>1 DEF Users, HandledIsUnused
<1>5. KeptOnce'
  <2>1. /\ \A g, h \in late' : g[1] = h[1] => g = h
        /\ \A g \in late' : replies'[g[1]] = <<>>
    BY DEF Users, KeptOnce
  <2>2. ASSUME NEW g \in late', NEW i \in OnTheWay' PROVE posted'[i][1] # g[1]
    <3>1. g[1] # f[1] /\ \A j \in OnTheWay : posted[j][1] # g[1]
      BY DEF Users, KeptOnce
    <3>2. CASE posted'[i] = f
      BY <3>1, <3>2, Zenon
    <3>3. CASE i \in OnTheWay /\ posted'[i] = posted[i]
      BY <3>1, <3>3, Zenon
    <3> QED
      BY <1>1, <3>2, <3>3
  <2> QED
    BY <2>1, <2>2 DEF KeptOnce
<1>6. PostedOnce'
  <2>1. ASSUME NEW i \in OnTheWay' PROVE replies'[posted'[i][1]] = <<>>
    <3>1. CASE posted'[i] = f
      BY <3>1
    <3>2. CASE i \in OnTheWay /\ posted'[i] = posted[i]
      BY <3>2 DEF Users, PostedOnce
    <3> QED
      BY <1>1, <3>1, <3>2
  <2>2. ASSUME NEW i \in OnTheWay', NEW j \in OnTheWay', posted'[i][1] = posted'[j][1]
        PROVE  i = j
    <3>1. CASE i \in OnTheWay /\ j \in OnTheWay /\ posted'[i] = posted[i] /\ posted'[j] = posted[j]
      BY <2>2, <3>1 DEF Users, PostedOnce
    <3>2. CASE i = Len(posted) + 1 /\ j = Len(posted) + 1
      BY <3>2
    <3>3. CASE i = Len(posted) + 1 /\ posted'[i] = f /\ j \in OnTheWay /\ posted'[j] = posted[j]
      BY <2>2, <3>3, Zenon
    <3>4. CASE j = Len(posted) + 1 /\ posted'[j] = f /\ i \in OnTheWay /\ posted'[i] = posted[i]
      BY <2>2, <3>4, Zenon
    <3> QED
      BY <1>1, <3>1, <3>2, <3>3, <3>4
  <2> QED
    BY <2>1, <2>2 DEF PostedOnce
<1>7. RepliedOnce'
  BY DEF Users, RepliedOnce
<1>8. Users'
  BY <1>3, <1>4, <1>5, <1>6, <1>7 DEF Users
<1>9. \A i \in OnTheWay' : posted'[i] = f \/ (i \in OnTheWay /\ posted'[i] = posted[i])
  BY <1>1
<1> QED
  BY <1>8, <1>9

LEMMA PushedKinds ==
    ASSUME Kinds, NEW f, Fits(f), UNCHANGED <<pc, task, overdue, replies>>, late' \subseteq late,
           \A i \in OnTheWay' : posted'[i] = f \/ (i \in OnTheWay /\ posted'[i] = posted[i])
    PROVE  Kinds'
<1>1. ASSUME NEW i \in OnTheWay' PROVE Fits(posted[i])'
  <2>1. Fits(posted'[i])
    BY DEF Kinds
  <2> QED
    BY <2>1 DEF Fits
<1>2. \A w \in Workers : /\ pc'[w] = "expire" => task'[w] \in overdue'
                         /\ pc'[w] = "run" => task'[w] \notin overdue'
  BY DEF Kinds
<1>3. \A g \in late' : Fits(g)'
  BY DEF Kinds, Fits
<1>4. \A r \in Requests : replies'[r] # <<>> => Fits(<<r, Head(replies[r])>>)'
  BY DEF Kinds, Fits
<1> QED
  BY <1>1, <1>2, <1>3, <1>4 DEF Kinds

\* The functor that is executed is the next one that was posted.
LEMMA ExecutedIsNext ==
    ASSUME PartsInv, IoP!Execute
    PROVE  /\ executed + 1 \in OnTheWay
           /\ Head(functors) = posted[executed + 1]
           /\ posted[executed + 1] \in Requests \X Callbacks
           /\ executed' = executed + 1 /\ posted' = posted
           /\ OnTheWay' = OnTheWay \ {executed + 1}
<1>1. IoP!TypeOK /\ IoP!InOrderOnce
  BY DEF PartsInv, IoP!IInv
<1>2. /\ posted \in Seq(Requests \X Callbacks) /\ functors \in Seq(Requests \X Callbacks)
      /\ task_functors_ \in Seq(Requests \X Callbacks) /\ executed \in Nat
  BY <1>1 DEF IoP!TypeOK
<1>3. functors # <<>> /\ executed' = executed + 1 /\ posted' = posted
  BY DEF IoP!Execute
<1>4. /\ executed + Len(functors) + Len(task_functors_) = Len(posted)
      /\ \A i \in 1..Len(functors) : functors[i] = posted[executed + i]
  BY <1>1 DEF IoP!InOrderOnce
<1>5. 1 \in 1..Len(functors) /\ Head(functors) = functors[1] /\ executed + 1 \in 1..Len(posted)
  BY <1>2, <1>3, <1>4
<1> QED
  BY <1>2, <1>3, <1>4, <1>5 DEF OnTheWay

LEMMA HandledIsNotQueued ==
    ASSUME PartsInv, NEW w \in Workers, task[w] # None
    PROVE  task[w] \in Requests /\ ~Queued(task[w]) /\ pc[w] \in {"run", "expire"}
  BY DEF PartsInv, PoolP!Counting, PoolP!TypeOK, PoolP!Ownership, PoolP!HandlersHoldTasks, Queued

\* Service's own variables have their types.
OwnTypes == /\ callbacks_map_ \subseteq Routes
            /\ default_cb_ \in BOOLEAN /\ timeout_cb_ \in BOOLEAN /\ expiration_ \in BOOLEAN
            /\ done \in [Workers -> BOOLEAN]
            /\ late \subseteq Requests \X Callbacks
            /\ replies \in [Requests -> Seq(Callbacks)]
            /\ listening \in BOOLEAN

LEMMA OwnTypesSuffice == PartsInv /\ OwnTypes <=> PartsInv /\ TypeOK
<1>1. PartsInv => Pool!TypeOK /\ Io!TypeOK
  BY SameTypes DEF PartsInv, PoolP!Counting, IoP!IInv
<1> QED
  BY <1>1 DEF OwnTypes, TypeOK

\* What a step of any other thread leaves of the claims about requests.
Kept == OwnTypes /\ Users /\ Kinds /\ NoneBeforeStart

LEMMA QuietServer ==
    ASSUME UNCHANGED <<replies, terminated, callbacks_map_, default_cb_, timeout_cb_, expiration_>>,
           \A r \in Requests : tstate'[r] = "NEW" <=> tstate[r] = "NEW"
    PROVE  UNCHANGED Server!vars
  BY DEF Server!vars, Answerable

\* The user's thread.
LEMMA StepRegister ==
    ASSUME SInv, RegisterDefaultHandler \/ RegisterTimeoutHandler \/ \E uri \in Routes : RegisterHandler(uri)
    PROVE  Kept' /\ [Server!Next]_(Server!vars)
<1>0. OwnTypes /\ Users /\ Kinds /\ NoneBeforeStart
  BY OwnTypesSuffice DEF SInv
<1>1. io = "off" /\ UNCHANGED <<poolState, ioState, expiration_, done, late, replies, listening>>
  BY DEF RegisterDefaultHandler, RegisterTimeoutHandler, RegisterHandler, Register
<1>2. OwnTypes'
  BY <1>0, <1>1 DEF OwnTypes, RegisterDefaultHandler, RegisterTimeoutHandler, RegisterHandler
<1>3. Users' /\ Kinds'
  <2>1. UNCHANGED <<late, replies, posted, executed, overdue, pc, task, tstate, done>>
    BY <1>1 DEF poolState, ioState
  <2> QED
    BY <1>0, <2>1, QuietUsers, QuietKinds DEF Kinds, Queued, Users, HandledIsUnused
<1>4. NoneBeforeStart'
  BY <1>0, <1>1 DEF NoneBeforeStart, poolState, ioState
<1>5. Server!Offer
  <2>1. \A r \in Requests : tstate[r] = "NEW" /\ tstate'[r] = "NEW"
    BY <1>0, <1>1 DEF NoneBeforeStart, poolState
  <2>2. replies' = replies /\ terminated' = terminated
    BY <1>1 DEF poolState
  <2> QED
    BY <2>1, <2>2 DEF Server!Offer, Answerable
<1> QED
  BY <1>2, <1>3, <1>4, <1>5 DEF Kept, Server!Next

\* The event loop, but for the replies.
LEMMA StepLoop ==
    ASSUME SInv, Start \/ DrainNotify
    PROVE  Kept' /\ [Server!Next]_(Server!vars)
<1>0. OwnTypes /\ Users /\ Kinds
  BY OwnTypesSuffice DEF SInv
<1>1. /\ UNCHANGED <<regState, poolState, done, late, replies, posted, executed>>
      /\ io' # "off" /\ listening' \in BOOLEAN
  BY SameIoSteps, <1>0 DEF Start, DrainNotify, IoP!Start, IoP!EventHandler, IoP!Swap, IoP!Return, OwnTypes
<1>2. UNCHANGED <<overdue, pc, task, tstate, terminated>>
  BY <1>1 DEF poolState
<1>3. OwnTypes'
  BY <1>0, <1>1 DEF OwnTypes, regState
<1>4. Users' /\ Kinds'
  BY <1>0, <1>1, <1>2, QuietUsers, QuietKinds DEF Kinds, Queued
<1>5. NoneBeforeStart'
  BY <1>1 DEF NoneBeforeStart
<1>6. UNCHANGED Server!vars
  BY <1>1, <1>2, QuietServer DEF regState
<1> QED
  BY <1>3, <1>4, <1>5, <1>6 DEF Kept

LEMMA StepArrive ==
    ASSUME SInv, NEW r \in Requests, CoreHandleRequest(r)
    PROVE  Kept' /\ [Server!Next]_(Server!vars)
<1>0. /\ OwnTypes /\ Users /\ Kinds
      /\ pc \in [Workers -> PoolP!Labels] /\ tstate \in [Requests -> PoolP!TaskStates]
  BY OwnTypesSuffice DEF SInv, PartsInv, PoolP!Counting, PoolP!TypeOK
<1>1. /\ io = "dispatch" /\ PoolP!AddTask(r)
      /\ UNCHANGED <<regState, ioState, done, late, replies, listening>>
  BY SamePoolAdds DEF CoreHandleRequest
<1>2. /\ ~terminated /\ tstate[r] = "NEW"
      /\ tstate' = [tstate EXCEPT ![r] = "WAITING"]
      /\ UNCHANGED <<task, overdue, terminated>>
      /\ pc' = pc \/ \E w \in Workers : pc' = [pc EXCEPT ![w] = "relock"]
  BY <1>1 DEF PoolP!AddTask, PoolP!Notify, PoolP!Sleeping
<1>3. OwnTypes'
  BY <1>0, <1>1 DEF OwnTypes, regState
<1>4. Users'
  <2>1. \A q \in Requests : Queued(q)' => Queued(q)
    BY <1>0, <1>2 DEF Queued
  <2> QED
    BY <1>0, <1>1, <1>2, <2>1, QuietUsers DEF ioState
<1>5. Kinds'
  <2>1. \A w \in Workers : pc'[w] \in {"run", "expire"} => pc'[w] = pc[w]
    BY <1>0, <1>2
  <2> QED
    BY <1>0, <1>1, <1>2, <2>1, QuietKinds DEF ioState, Kinds
<1>6. NoneBeforeStart'
  BY <1>1 DEF NoneBeforeStart, ioState
<1>7. Server!Arrive(r)
  <2>1. {q \in Requests : tstate'[q] # "NEW"} = {q \in Requests : tstate[q] # "NEW"} \cup {r}
    BY <1>0, <1>2
  <2>2. r \notin {q \in Requests : tstate[q] # "NEW"}
    BY <1>2
  <2> QED
    BY <1>1, <1>2, <2>1, <2>2 DEF Server!Arrive, regState, Answerable
<1> QED
  BY <1>3, <1>4, <1>5, <1>6, <1>7 DEF Kept, Server!Next

\* Time passes for a request that is still queued, so that nobody has answered it yet.
LEMMA StepExpire ==
    ASSUME SInv, NEW r \in Requests, Expire(r)
    PROVE  Kept' /\ [Server!Next]_(Server!vars)
<1>0. OwnTypes /\ Users /\ Kinds /\ NoneBeforeStart
  BY OwnTypesSuffice DEF SInv
<1>1. PoolP!Expire(r) /\ UNCHANGED <<regState, ioState, done, late, replies, listening>>
  BY SamePoolAdds DEF Expire
<1>2. /\ tstate[r] = "WAITING" /\ overdue' = overdue \cup {r}
      /\ UNCHANGED <<pc, task, tstate, terminated, posted, executed, io>>
  BY <1>1 DEF PoolP!Expire, PoolP!workVars, ioState
<1>3. OwnTypes'
  BY <1>0, <1>1 DEF OwnTypes, regState
<1>4. Users'
  BY <1>0, <1>1, <1>2, QuietUsers DEF Queued
<1>5. Kinds'
  <2>1. Unused(r)
    BY <1>0, <1>2 DEF Users, QueuedIsUnused, Queued
  <2>2. \A w \in Workers : task[w] # None => task[w] # r
    BY <1>2, HandledIsNotQueued DEF SInv, Queued
  <2>3. \A w \in Workers : pc[w] \in {"run", "expire"} => task[w] # r
    BY <2>2 DEF SInv, PartsInv, PoolP!Ownership, PoolP!HandlersHoldTasks
  <2>4. OnTheWay' = OnTheWay
    BY <1>2 DEF OnTheWay
  <2>5. \A w \in Workers : /\ pc'[w] = "expire" => task'[w] \in overdue'
                           /\ pc'[w] = "run" => task'[w] \notin overdue'
    BY <1>0, <1>2, <2>3 DEF Kinds
  <2>6. \A f \in late' : Fits(f)'
    BY <1>0, <1>1, <1>2, <2>1 DEF Kinds, Fits, Unused
  <2>7. \A i \in OnTheWay' : Fits(posted[i])'
    BY <1>0, <1>2, <2>1, <2>4 DEF Kinds, Fits, Unused
  <2>8. \A q \in Requests : replies'[q] # <<>> => Fits(<<q, Head(replies[q])>>)'
    BY <1>0, <1>1, <1>2, <2>1 DEF Kinds, Fits, Unused
  <2> QED
    BY <1>1, <1>2, <2>5, <2>6, <2>7, <2>8 DEF Kinds, Fits
<1>6. NoneBeforeStart'
  BY <1>0, <1>2 DEF NoneBeforeStart
<1>7. UNCHANGED Server!vars
  BY <1>1, <1>2, QuietServer DEF regState
<1> QED
  BY <1>3, <1>4, <1>5, <1>6, <1>7 DEF Kept

\* A worker in the pool's own code.
LEMMA StepPool ==
    ASSUME SInv, NEW w \in Workers, PoolStep(w) \/ SpuriousWake(w)
    PROVE  Kept' /\ [Server!Next]_(Server!vars)
<1>0. /\ OwnTypes /\ Users /\ Kinds /\ NoneBeforeStart
      /\ pc \in [Workers -> PoolP!Labels]
  BY OwnTypesSuffice DEF SInv, PartsInv, PoolP!Counting, PoolP!TypeOK
<1>1. UNCHANGED <<regState, ioState, done, late, replies, listening>>
  BY DEF PoolStep, SpuriousWake
<1>2. /\ UNCHANGED <<overdue, terminated>>
      /\ \A r \in Requests : Queued(r)' => Queued(r)
      /\ \A r \in Requests : tstate'[r] = "NEW" <=> tstate[r] = "NEW"
      /\ \A v \in Workers : \/ /\ task'[v] = task[v]
                               /\ pc'[v] = pc[v] \/ pc'[v] \notin {"run", "expire"}
                            \/ /\ task'[v] \in Requests
                               /\ Queued(task'[v])
                               /\ pc'[v] = IF task'[v] \in overdue THEN "expire" ELSE "run"
  <2>1. CASE PoolStep(w)
    <3>1. PoolP!WorkerStep(w)
      BY <2>1, SamePoolSteps DEF PoolStep
    <3> QED
      BY <3>1, WorkerEffect
  <2>2. CASE SpuriousWake(w)
    <3>1. PoolP!SpuriousWake(w)
      BY <2>2, SamePoolSteps DEF SpuriousWake
    <3> QED
      BY <1>0, <3>1 DEF PoolP!SpuriousWake, PoolP!Goto, Queued
  <2> QED
    BY <2>1, <2>2
<1>3. OwnTypes'
  BY <1>0, <1>1 DEF OwnTypes, regState
<1>4. Users'
  BY <1>0, <1>1, <1>2, QuietUsers DEF ioState
<1>5. Kinds'
  <2>1. \A v \in Workers : /\ pc'[v] = "expire" => task'[v] \in overdue
                           /\ pc'[v] = "run" => task'[v] \notin overdue
    BY <1>0, <1>2 DEF Kinds
  <2> QED
    BY <1>0, <1>1, <1>2, <2>1, QuietKinds DEF ioState
<1>6. NoneBeforeStart'
  BY <1>0, <1>1, <1>2 DEF NoneBeforeStart, ioState
<1>7. UNCHANGED Server!vars
  BY <1>1, <1>2, QuietServer DEF regState
<1> QED
  BY <1>3, <1>4, <1>5, <1>6, <1>7 DEF Kept

\* The callback replies on its worker.
LEMMA StepRespond ==
    ASSUME SInv, NEW w \in Workers, Respond(w)
    PROVE  Kept' /\ [Server!Next]_(Server!vars)
<1>0. PartsInv /\ TypeOK /\ OwnTypes /\ Users /\ Kinds /\ NoneBeforeStart
  BY OwnTypesSuffice DEF SInv
<1> DEFINE f == <<task[w], Callback(w)>>
<1>1. /\ Handling(w) /\ Callback(w) # "nobody" /\ Io!SubmitPush(w, f)
      /\ done' = [done EXCEPT ![w] = TRUE]
      /\ UNCHANGED <<regState, poolState, late, replies, listening>>
  BY DEF Respond, Settle, Does
<1>2. /\ f \in Requests \X Callbacks /\ task[w] \in Requests /\ f[1] = task[w] /\ f[2] = Callback(w)
  BY <1>0, <1>1, HandlerFacts
<1>3. /\ posted' = Append(posted, f) /\ UNCHANGED <<io, executed>>
      /\ UNCHANGED <<pc, task, tstate, overdue, terminated>>
  BY <1>1 DEF Io!SubmitPush, poolState
<1>4. Unused(task[w]) /\ ~Queued(task[w]) /\ task[w] # None
  <2>1. task[w] # None
    BY <1>2, PartsAssumptions DEF PoolP!PoolAssumption
  <2> QED
    BY <1>0, <1>1, <2>1, HandledIsNotQueued DEF Users, HandledIsUnused, Handling
<1>5. \A v \in Workers : task[v] # None /\ ~done'[v] => ~done[v] /\ task[v] # f[1]
  <2>1. PoolP!TaskHasOneOwner
    BY <1>0 DEF PartsInv, PoolP!Ownership
  <2> QED
    BY <1>0, <1>1, <1>2, <1>4, <2>1 DEF PoolP!TaskHasOneOwner, OwnTypes
<1> HIDE DEF f
<1>6. /\ Users'
      /\ \A i \in OnTheWay' : posted'[i] = f \/ (i \in OnTheWay /\ posted'[i] = posted[i])
  <2>1. /\ \A g \in late' : g[1] # f[1]
        /\ \A i \in OnTheWay : posted[i][1] # f[1]
        /\ replies[f[1]] = <<>> /\ ~Queued(f[1])
    BY <1>1, <1>2, <1>4 DEF Unused
  <2> QED
    BY <1>0, <1>1, <1>2, <1>3, <1>5, <2>1, PushedUsers
<1>7. OwnTypes'
  BY <1>0, <1>1 DEF OwnTypes, regState
<1>8. Kinds'
  <2>1. Fits(f)
    BY <1>0, <1>1, <1>2 DEF Fits, Handling, Callback, Kinds
  <2> QED
    BY <1>0, <1>1, <1>3, <1>6, <2>1, PushedKinds
<1>9. NoneBeforeStart' /\ UNCHANGED Server!vars
  BY <1>0, <1>1, <1>3, QuietServer DEF NoneBeforeStart, regState
<1> QED
  BY <1>6, <1>7, <1>8, <1>9 DEF Kept

\* A kept callback is called by another thread.
LEMMA StepRespondLate ==
    ASSUME SInv, NEW f \in late, RespondLate(f)
    PROVE  Kept' /\ [Server!Next]_(Server!vars)
<1>0. PartsInv /\ TypeOK /\ OwnTypes /\ Users /\ Kinds /\ NoneBeforeStart
  BY OwnTypesSuffice DEF SInv
<1>1. /\ Io!SubmitPush(LateThread, f) /\ late' = late \ {f}
      /\ UNCHANGED <<regState, poolState, done, replies, listening>>
  BY DEF RespondLate
<1>2. f \in Requests \X Callbacks /\ f[1] \in Requests
  BY <1>0 DEF OwnTypes
<1>3. /\ posted' = Append(posted, f) /\ UNCHANGED <<io, executed>>
      /\ UNCHANGED <<pc, task, tstate, overdue, terminated>>
  BY <1>1 DEF Io!SubmitPush, poolState
<1>4. /\ \A g \in late' : g[1] # f[1]
      /\ \A i \in OnTheWay : posted[i][1] # f[1]
      /\ replies[f[1]] = <<>>
  BY <1>0, <1>1 DEF Users, KeptOnce
<1>5. ~Queued(f[1])
  BY <1>0, <1>2 DEF Users, QueuedIsUnused, Unused
<1>6. \A v \in Workers : task[v] # None /\ ~done'[v] => ~done[v] /\ task[v] # f[1]
  BY <1>0, <1>1 DEF Users, HandledIsUnused, Unused
<1>7. /\ Users'
      /\ \A i \in OnTheWay' : posted'[i] = f \/ (i \in OnTheWay /\ posted'[i] = posted[i])
  BY <1>0, <1>1, <1>2, <1>3, <1>4, <1>5, <1>6, PushedUsers
<1>8. OwnTypes'
  BY <1>0, <1>1 DEF OwnTypes, regState
<1>9. Kinds'
  <2>1. Fits(f)
    BY <1>0 DEF Kinds
  <2> QED
    BY <1>0, <1>1, <1>3, <1>7, <2>1, PushedKinds
<1>10. NoneBeforeStart' /\ UNCHANGED Server!vars
  BY <1>0, <1>1, <1>3, QuietServer DEF NoneBeforeStart, regState
<1> QED
  BY <1>7, <1>8, <1>9, <1>10 DEF Kept

\* The callback keeps what it must call.
LEMMA StepKeep ==
    ASSUME SInv, NEW w \in Workers, KeepForLater(w)
    PROVE  Kept' /\ [Server!Next]_(Server!vars)
<1>0. PartsInv /\ TypeOK /\ OwnTypes /\ Users /\ Kinds /\ NoneBeforeStart
  BY OwnTypesSuffice DEF SInv
<1> DEFINE f == <<task[w], Callback(w)>>
<1>1. /\ Handling(w) /\ Callback(w) # "nobody" /\ late' = late \cup {f}
      /\ done' = [done EXCEPT ![w] = TRUE]
      /\ UNCHANGED <<regState, poolState, ioState, replies, listening>>
  BY DEF KeepForLater, Settle, Does
<1>2. f \in Requests \X Callbacks /\ task[w] \in Requests /\ f[1] = task[w] /\ f[2] = Callback(w)
  BY <1>0, <1>1, HandlerFacts
<1>3. UNCHANGED <<pc, task, tstate, overdue, terminated, posted, executed, io>> /\ OnTheWay' = OnTheWay
  BY <1>1 DEF poolState, ioState, OnTheWay
<1>4. Unused(task[w]) /\ ~Queued(task[w]) /\ task[w] # None
  <2>1. task[w] # None
    BY <1>2, PartsAssumptions DEF PoolP!PoolAssumption
  <2> QED
    BY <1>0, <1>1, <2>1, HandledIsNotQueued DEF Users, HandledIsUnused, Handling
<1>5. \A v \in Workers : task[v] # None /\ ~done'[v] => ~done[v] /\ task[v] # f[1]
  <2>1. PoolP!TaskHasOneOwner
    BY <1>0 DEF PartsInv, PoolP!Ownership
  <2> QED
    BY <1>0, <1>1, <1>2, <1>4, <2>1 DEF PoolP!TaskHasOneOwner, OwnTypes
<1> HIDE DEF f
<1>6. \A r \in Requests : r # f[1] /\ Unused(r) => Unused(r)'
  BY <1>1, <1>3 DEF Unused
<1>7. Users'
  <2>1. QueuedIsUnused'
    BY <1>0, <1>2, <1>3, <1>4, <1>6 DEF Users, QueuedIsUnused, Queued
  <2>2. HandledIsUnused'
    BY <1>0, <1>3, <1>5, <1>6, HandledIsNotQueued DEF Users, HandledIsUnused
  <2>3. KeptOnce'
    BY <1>0, <1>1, <1>2, <1>3, <1>4 DEF Users, KeptOnce, Unused
  <2>4. PostedOnce' /\ RepliedOnce'
    BY <1>0, <1>1, <1>3 DEF Users, PostedOnce, RepliedOnce
  <2> QED
    BY <2>1, <2>2, <2>3, <2>4 DEF Users
<1>8. OwnTypes'
  BY <1>0, <1>1, <1>2 DEF OwnTypes, regState
<1>9. Kinds'
  <2>1. Fits(f)
    BY <1>0, <1>1, <1>2 DEF Fits, Handling, Callback, Kinds
  <2> QED
    BY <1>0, <1>1, <1>3, <2>1 DEF Kinds, Fits
<1>10. NoneBeforeStart' /\ UNCHANGED Server!vars
  BY <1>0, <1>1, <1>3, QuietServer DEF NoneBeforeStart, regState
<1> QED
  BY <1>7, <1>8, <1>9, <1>10 DEF Kept

\* A callback that settles its request without a reply, ends or throws, and the end
\* of Submit: no reply moves, and nobody gets a request.
LEMMA StepRest ==
    ASSUME SInv,
           \/ \E w \in Workers : Ignore(w) \/ Throw(w) \/ HandlerReturns(w)
           \/ \E s \in Workers \cup {LateThread} : Notify(s)
    PROVE  Kept' /\ [Server!Next]_(Server!vars)
<1>0. /\ PartsInv /\ OwnTypes /\ Users /\ Kinds /\ NoneBeforeStart
      /\ pc \in [Workers -> PoolP!Labels] /\ task \in [Workers -> Requests \cup {None}]
      /\ tstate \in [Requests -> PoolP!TaskStates]
  BY OwnTypesSuffice DEF SInv, PartsInv, PoolP!Counting, PoolP!TypeOK
<1>k. ASSUME UNCHANGED <<regState, late, replies, listening, posted, executed, io, overdue>>,
             done' \in [Workers -> BOOLEAN], terminated' \in BOOLEAN,
             terminated' = terminated \/ terminated',
             \A r \in Requests : tstate'[r] = tstate[r] \/ (~Queued(r) /\ tstate'[r] = "COMPLETE"),
             \A v \in Workers : \/ /\ task'[v] = task[v] /\ pc'[v] = pc[v]
                                   /\ ~done'[v] => ~done[v]
                                \/ task'[v] = None /\ pc'[v] = "lock"
      PROVE  Kept' /\ [Server!Next]_(Server!vars)
  <2>1. OwnTypes'
    BY <1>0, <1>k DEF OwnTypes, regState
  <2>2. Users'
    BY <1>0, <1>k, QuietUsers DEF Queued
  <2>3. Kinds'
    BY <1>0, <1>k, QuietKinds DEF Kinds
  <2>4. \A r \in Requests : tstate'[r] = "NEW" <=> tstate[r] = "NEW"
    BY <1>k DEF Queued
  <2>5. NoneBeforeStart'
    BY <1>0, <1>k, <2>4 DEF NoneBeforeStart
  <2>6. CASE terminated' = terminated
    <3>1. UNCHANGED Server!vars
      BY <1>k, <2>4, <2>6, QuietServer DEF regState
    <3> QED
      BY <2>1, <2>2, <2>3, <2>5, <3>1 DEF Kept
  <2>7. CASE terminated'
    <3>1. Server!Die
      BY <1>k, <2>4, <2>7 DEF Server!Die, regState, Answerable
    <3> QED
      BY <2>1, <2>2, <2>3, <2>5, <3>1 DEF Kept, Server!Next
  <2> QED
    BY <1>k, <2>6, <2>7
<1>1. ASSUME NEW w \in Workers, Ignore(w) PROVE Kept' /\ [Server!Next]_(Server!vars)
  <2>1. /\ done' = [done EXCEPT ![w] = TRUE]
        /\ UNCHANGED <<regState, poolState, ioState, late, replies, listening>>
    BY <1>1 DEF Ignore, Settle
  <2>2. UNCHANGED <<pc, task, tstate, overdue, terminated, posted, executed, io>>
    BY <2>1 DEF poolState, ioState
  <2>3. terminated \in BOOLEAN
    BY <1>0 DEF PartsInv, PoolP!Counting, PoolP!TypeOK
  <2> QED
    BY <1>0, <1>k, <2>1, <2>2, <2>3 DEF OwnTypes
<1>2. ASSUME NEW w \in Workers, Throw(w) \/ HandlerReturns(w)
      PROVE  Kept' /\ [Server!Next]_(Server!vars)
  <2>0. terminated \in BOOLEAN /\ done' \in [Workers -> BOOLEAN]
    BY <1>0, <1>2 DEF PartsInv, PoolP!Counting, PoolP!TypeOK, Throw, HandlerReturns, OwnTypes
  <2>1. /\ UNCHANGED <<regState, ioState, late, replies, listening>>
        /\ \A v \in Workers : v # w => done'[v] = done[v]
        /\ PoolP!ExpireThrow(w) => done' = done
    <3>1. UNCHANGED <<regState, ioState, late, replies, listening>>
      BY <1>2 DEF Throw, HandlerReturns
    <3>2. done' = done \/ done' = [done EXCEPT ![w] = FALSE]
      BY <1>2 DEF Throw, HandlerReturns
    <3>3. ASSUME PoolP!ExpireThrow(w) PROVE done' = done
      <4>1. ~PoolP!RunThrow(w) /\ ~PoolP!RunReturn(w) /\ ~PoolP!ExpireReturn(w)
        BY <3>3 DEF PoolP!RunThrow, PoolP!RunReturn, PoolP!ExpireReturn, PoolP!Return, PoolP!ExpireThrow
      <4> QED
        BY <1>2, <4>1, SamePoolSteps DEF Throw, HandlerReturns
    <3> QED
      BY <1>0, <3>1, <3>2, <3>3 DEF OwnTypes
  <2>2. PoolP!RunThrow(w) \/ PoolP!ExpireThrow(w) \/ PoolP!RunReturn(w) \/ PoolP!ExpireReturn(w)
    BY <1>2, SamePoolSteps DEF Throw, HandlerReturns
  <2>3. UNCHANGED <<posted, executed, io>>
    BY <2>1 DEF ioState
  <2>4. CASE PoolP!ExpireThrow(w)
    <3>1. UNCHANGED <<pc, task, tstate, overdue>> /\ terminated' = TRUE
      BY <2>4 DEF PoolP!ExpireThrow, PoolP!workVars
    <3> QED
      BY <1>k, <2>0, <2>1, <2>3, <2>4, <3>1
  <2>5. CASE PoolP!RunThrow(w) \/ PoolP!RunReturn(w) \/ PoolP!ExpireReturn(w)
    <3>1. /\ pc' = [pc EXCEPT ![w] = "lock"] /\ task' = [task EXCEPT ![w] = None]
          /\ UNCHANGED <<overdue, terminated>>
          /\ tstate' = tstate \/ tstate' = [tstate EXCEPT ![task[w]] = "COMPLETE"]
          /\ pc[w] \in {"run", "expire"}
      BY <2>5 DEF PoolP!RunThrow, PoolP!RunReturn, PoolP!ExpireReturn, PoolP!Return, PoolP!Goto
    <3>2. task[w] # None
      BY <1>0, <3>1 DEF PartsInv, PoolP!Ownership, PoolP!HandlersHoldTasks
    <3>3. task[w] \in Requests /\ ~Queued(task[w])
      BY <1>0, <3>2, HandledIsNotQueued
    <3>4. \A r \in Requests : tstate'[r] = tstate[r] \/ (~Queued(r) /\ tstate'[r] = "COMPLETE")
      BY <1>0, <3>1, <3>3
    <3>5. \A v \in Workers : \/ /\ task'[v] = task[v] /\ pc'[v] = pc[v]
                                /\ ~done'[v] => ~done[v]
                             \/ task'[v] = None /\ pc'[v] = "lock"
      BY <1>0, <2>1, <3>1
    <3> QED
      BY <1>k, <2>0, <2>1, <2>3, <3>1, <3>4, <3>5
  <2> QED
    BY <2>2, <2>4, <2>5
<1>3. ASSUME NEW s \in Workers \cup {LateThread}, Notify(s)
      PROVE  Kept' /\ [Server!Next]_(Server!vars)
  <2>1. IoP!SubmitNotify(s) /\ UNCHANGED <<regState, poolState, done, late, replies, listening>>
    BY <1>3, SameIoSteps DEF Notify
  <2>2. UNCHANGED <<pc, task, tstate, overdue, terminated, posted, executed, io>>
    BY <2>1 DEF poolState, IoP!SubmitNotify
  <2>3. terminated \in BOOLEAN
    BY <1>0 DEF PartsInv, PoolP!Counting, PoolP!TypeOK
  <2> QED
    BY <1>0, <1>k, <2>1, <2>2, <2>3 DEF OwnTypes
<1> QED
  BY <1>1, <1>2, <1>3

\* The event loop sends a reply: its request is nobody else's and had none.
LEMMA StepSendReply ==
    ASSUME SInv, SendReply, ~terminated
    PROVE  Kept' /\ [Server!Next]_(Server!vars)
<1>0. PartsInv /\ OwnTypes /\ Users /\ Kinds /\ NoneBeforeStart
  BY OwnTypesSuffice DEF SInv
<1> DEFINE k == executed + 1
           f == posted[k]
<1>1. /\ IoP!Execute /\ UNCHANGED <<regState, poolState, done, late, listening>>
      /\ replies' = [replies EXCEPT ![Head(functors)[1]] = Append(@, Head(functors)[2])]
  BY SameIoSteps DEF SendReply
<1>2. /\ k \in OnTheWay /\ f \in Requests \X Callbacks /\ Head(functors) = f
      /\ posted' = posted /\ OnTheWay' = OnTheWay \ {k}
  BY <1>0, <1>1, ExecutedIsNext
<1>3. UNCHANGED <<pc, task, tstate, overdue, terminated>> /\ io = "execute" /\ io' = io
  BY <1>1 DEF poolState, IoP!Execute
<1> HIDE DEF f, k
<1>4. f[1] \in Requests /\ f[2] \in Callbacks /\ f = <<f[1], f[2]>>
  BY <1>2
<1>5. /\ replies[f[1]] = <<>>
      /\ \A i \in OnTheWay' : posted[i][1] # f[1]
      /\ \A g \in late : g[1] # f[1]
  BY <1>0, <1>2 DEF Users, PostedOnce, KeptOnce, f
<1>6. replies' = [replies EXCEPT ![f[1]] = <<f[2]>>]
  <2>1. replies' = [replies EXCEPT ![f[1]] = Append(replies[f[1]], f[2])]
    BY <1>1, <1>2
  <2>2. Append(replies[f[1]], f[2]) = <<f[2]>>
    BY <1>4, <1>5
  <2> QED
    BY <2>1, <2>2
<1>7. /\ ~Queued(f[1])
      /\ \A w \in Workers : task[w] # None /\ ~done[w] => task[w] # f[1]
  BY <1>0, <1>2, <1>4 DEF Users, QueuedIsUnused, HandledIsUnused, Unused, f
<1>8. \A r \in Requests : r # f[1] /\ Unused(r) => Unused(r)'
  BY <1>0, <1>1, <1>2, <1>6 DEF Unused, OwnTypes
<1>9. OwnTypes'
  <2>1. <<f[2]>> \in Seq(Callbacks)
    BY <1>4
  <2> QED
    BY <1>0, <1>1, <1>6, <2>1 DEF OwnTypes, regState
<1>10. Users'
  <2>1. QueuedIsUnused'
    BY <1>0, <1>3, <1>7, <1>8 DEF Users, QueuedIsUnused, Queued
  <2>2. HandledIsUnused'
    BY <1>0, <1>1, <1>3, <1>7, <1>8, HandledIsNotQueued DEF Users, HandledIsUnused
  <2>3. KeptOnce'
    BY <1>0, <1>1, <1>2, <1>4, <1>5, <1>6 DEF Users, KeptOnce, OwnTypes
  <2>4. PostedOnce'
    BY <1>0, <1>1, <1>2, <1>4, <1>5, <1>6 DEF Users, PostedOnce, OwnTypes
  <2>5. RepliedOnce'
    BY <1>0, <1>4, <1>6 DEF Users, RepliedOnce, OwnTypes
  <2> QED
    BY <2>1, <2>2, <2>3, <2>4, <2>5 DEF Users
<1>11. Kinds'
  <2>1. Fits(f)
    BY <1>0, <1>2 DEF Kinds, f
  <2>2. \A r \in Requests : replies'[r] # <<>> => Fits(<<r, Head(replies'[r])>>)
    BY <1>0, <1>4, <1>6, <2>1 DEF Kinds, Fits, OwnTypes
  <2>3. \A i \in OnTheWay' : Fits(posted'[i])
    BY <1>0, <1>2 DEF Kinds
  <2> QED
    BY <1>0, <1>1, <1>3, <2>2, <2>3 DEF Kinds, Fits
<1>12. NoneBeforeStart'
  BY <1>3 DEF NoneBeforeStart
<1>q. PICK q \in Requests : q = f[1]
  BY <1>4
<1>13. Server!Reply(q)
  <2>1. /\ tstate[q] # "NEW" /\ Len(replies[q]) = 0
    BY <1>5, <1>7, <1>q DEF Queued
  <2>2. [r \in Requests |-> Len(replies'[r])] = [[r \in Requests |-> Len(replies[r])] EXCEPT ![q] = 1]
    BY <1>0, <1>4, <1>6, <1>q DEF OwnTypes
  <2> QED
    BY <1>1, <1>3, <2>1, <2>2 DEF Server!Reply, regState, Answerable
<1>14. Server!Next
  BY <1>13 DEF Server!Next
<1>15. Kept'
  BY <1>9, <1>10, <1>11, <1>12 DEF Kept
<1> QED
  BY <1>14, <1>15

LEMMA StepSInv == SInv /\ [Next]_vars => SInv' /\ [Server!Next]_(Server!vars)
<1> SUFFICES ASSUME SInv, [Next]_vars PROVE SInv' /\ [Server!Next]_(Server!vars)
  OBVIOUS
<1>1. PartsInv'
  BY StepParts DEF SInv
<1>2. Kept' /\ [Server!Next]_(Server!vars)
  <2>1. CASE RegisterDefaultHandler \/ RegisterTimeoutHandler \/ \E uri \in Routes : RegisterHandler(uri)
    BY <2>1, StepRegister
  <2>2. CASE Start \/ DrainNotify
    BY <2>2, StepLoop
  <2>3. ASSUME NEW r \in Requests, CoreHandleRequest(r) \/ Expire(r)
        PROVE  Kept' /\ [Server!Next]_(Server!vars)
    BY <2>3, StepArrive, StepExpire
  <2>4. CASE SendReply /\ ~terminated
    BY <2>4, StepSendReply
  <2>5. ASSUME NEW w \in Workers, PoolStep(w) \/ SpuriousWake(w) \/ Respond(w) \/ KeepForLater(w)
        PROVE  Kept' /\ [Server!Next]_(Server!vars)
    BY <2>5, StepPool, StepRespond, StepKeep
  <2>6. ASSUME NEW w \in Workers, Ignore(w) \/ Throw(w) \/ HandlerReturns(w)
        PROVE  Kept' /\ [Server!Next]_(Server!vars)
    BY <2>6, StepRest
  <2>7. ASSUME NEW s \in Workers \cup {LateThread}, Notify(s)
        PROVE  Kept' /\ [Server!Next]_(Server!vars)
    BY <2>7, StepRest
  <2>8. ASSUME NEW f \in late, RespondLate(f) PROVE Kept' /\ [Server!Next]_(Server!vars)
    BY <2>8, StepRespondLate
  <2>9. CASE UNCHANGED vars
    <3>1. UNCHANGED <<done, late, replies, posted, executed, overdue, pc, task, tstate, io, terminated>>
      BY <2>9 DEF vars, poolState, ioState
    <3>2. OwnTypes /\ Users /\ Kinds /\ NoneBeforeStart
      BY OwnTypesSuffice DEF SInv
    <3>3. OwnTypes'
      BY <2>9, <3>2 DEF vars, regState, OwnTypes
    <3>4. Users'
      BY <3>1, <3>2, QuietUsers DEF Queued, Users, HandledIsUnused
    <3>5. Kinds' /\ NoneBeforeStart'
      BY <3>1, <3>2, QuietKinds DEF Kinds, NoneBeforeStart
    <3>6. UNCHANGED Server!vars
      BY <2>9, <3>1, QuietServer DEF vars, regState
    <3> QED
      BY <3>3, <3>4, <3>5, <3>6 DEF Kept
  <2> QED
    BY <2>1, <2>2, <2>3, <2>4, <2>5, <2>6, <2>7, <2>8, <2>9 DEF Next, IoLoop, Worker, LateStep, Idle
<1>3. TypeOK'
  BY <1>1, <1>2, OwnTypesSuffice, PTL DEF Kept
<1> QED
  BY <1>1, <1>2, <1>3 DEF SInv, Kept

-----------------------------------------------------------------------------
\* Every variable of Service and of its two parts has its type.
THEOREM ServiceTypeCorrect == SafeSpec => []TypeOK
<1>1. SInv => TypeOK
  BY DEF SInv
<1> QED
  BY <1>1, InitSInv, StepSInv, PTL DEF SafeSpec

LEMMA AtMostOne ==
    ASSUME NEW S, \A x, y \in S : x = y
    PROVE  Cardinality(S) \in 0..1 /\ (S = {} => Cardinality(S) = 0)
<1>1. CASE S = {}
  BY <1>1, FS_EmptySet
<1>2. CASE S # {}
  <2>1. PICK x : x \in S
    BY <1>2
  <2>2. S = {x}
    BY <2>1
  <2>3. Cardinality({x}) = 1
    BY FS_Singleton
  <2> QED
    BY <1>2, <2>2, <2>3
<1> QED
  BY <1>1, <1>2

\* Whoever can still use a request is the only one, and nobody can once it is answered.
THEOREM OneUserPerRequest == SafeSpec => []RequestHasOneUser
<1>1. ASSUME SInv PROVE RequestHasOneUser
  <2>0. PartsInv /\ OwnTypes /\ Users
    BY <1>1, OwnTypesSuffice DEF SInv
  <2> SUFFICES ASSUME NEW r \in Requests
               PROVE  Cardinality({w \in Workers : task[w] = r /\ ~done[w]})
                        + Cardinality({f \in late : f[1] = r})
                        + Cardinality({i \in OnTheWay : posted[i][1] = r}) + Len(replies[r]) <= 1
    BY DEF RequestHasOneUser, OnTheWay
  <2> DEFINE handlers == {w \in Workers : task[w] = r /\ ~done[w]}
             kept == {f \in late : f[1] = r}
             onTheWay == {i \in OnTheWay : posted[i][1] = r}
  <2>1. \A v, w \in handlers : v = w
    <3>1. PoolP!TaskHasOneOwner /\ r # None
      BY <2>0, PartsAssumptions DEF PartsInv, PoolP!Ownership, PoolP!PoolAssumption
    <3> QED
      BY <3>1 DEF PoolP!TaskHasOneOwner
  <2>2. \A f, g \in kept : f = g
    BY <2>0 DEF Users, KeptOnce
  <2>3. \A i, j \in onTheWay : i = j
    BY <2>0 DEF Users, PostedOnce
  <2>4. Len(replies[r]) \in 0..1 /\ (replies[r] = <<>> => Len(replies[r]) = 0)
    <3>1. replies[r] \in Seq(Callbacks) /\ Len(replies[r]) <= 1
      BY <2>0 DEF OwnTypes, Users, RepliedOnce
    <3>2. Len(replies[r]) \in Nat
      BY <3>1
    <3>a. \A n \in Nat : n <= 1 => n \in 0..1
      OBVIOUS
    <3>3. Len(replies[r]) \in 0..1
      BY <3>1, <3>2, <3>a
    <3>4. Len(<<>>) = 0
      OBVIOUS
    <3> QED
      BY <3>3, <3>4
  <2>5. handlers # {} => kept = {} /\ onTheWay = {} /\ replies[r] = <<>>
    BY <2>0, PartsAssumptions DEF Users, HandledIsUnused, Unused, PoolP!PoolAssumption
  <2>6. kept # {} => onTheWay = {} /\ replies[r] = <<>>
    BY <2>0 DEF Users, KeptOnce
  <2>7. onTheWay # {} => replies[r] = <<>>
    BY <2>0 DEF Users, PostedOnce
  <2> HIDE DEF handlers, kept, onTheWay
  <2>8. /\ Cardinality(handlers) \in 0..1 /\ (handlers = {} => Cardinality(handlers) = 0)
        /\ Cardinality(kept) \in 0..1 /\ (kept = {} => Cardinality(kept) = 0)
        /\ Cardinality(onTheWay) \in 0..1 /\ (onTheWay = {} => Cardinality(onTheWay) = 0)
    BY <2>1, <2>2, <2>3, AtMostOne
  <2>9. Cardinality(handlers) + Cardinality(kept) + Cardinality(onTheWay) + Len(replies[r]) <= 1
    <3>1. CASE handlers # {}
      BY <2>4, <2>5, <2>8, <3>1
    <3>2. CASE handlers = {} /\ kept # {}
      BY <2>4, <2>6, <2>8, <3>2
    <3>3. CASE handlers = {} /\ kept = {}
      <4>1. Cardinality(handlers) = 0 /\ Cardinality(kept) = 0
        BY <2>8, <3>3
      <4>2. CASE onTheWay # {}
        BY <2>4, <2>7, <2>8, <4>1, <4>2
      <4>3. CASE onTheWay = {}
        BY <2>4, <2>8, <4>1, <4>3
      <4> QED
        BY <4>2, <4>3
    <3> QED
      BY <3>1, <3>2, <3>3
  <2> QED
    BY <2>9 DEF handlers, kept, onTheWay
<1> QED
  BY <1>1, InitSInv, StepSInv, PTL DEF SafeSpec

\* The answer to a request says that it timed out exactly when its time was up
\* while it was queued.
THEOREM AnswersFitTheClock == SafeSpec => []ExpiredGetTimeoutReply
<1>1. SInv => ExpiredGetTimeoutReply
  BY DEF SInv, Kinds, Fits, ExpiredGetTimeoutReply
<1> QED
  BY <1>1, InitSInv, StepSInv, PTL DEF SafeSpec

\* The server does nothing RequestReply does not allow: it answers each request at
\* most once, after it came, and what is answerable is settled before any came.
THEOREM RequestReplyRefinement == SafeSpec => Server!SafeSpec
<1>1. Init => Server!Init
  BY DEF Init, Pool!Init, Server!Init, Answerable
<1> QED
  BY <1>1, InitSInv, StepSInv, PTL DEF SafeSpec, Server!SafeSpec
-----------------------------------------------------------------------------
(* Carried: no request falls between two hands.                             *)

\* The callback for r has not settled it.
Settling(r) == \E w \in Workers : task[w] = r /\ ~done[w]

\* A worker without a task has none to settle.
FreeIsFresh == \A w \in Workers : task[w] = None => ~done[w]

OverdueExpires == overdue # {} => expiration_

\* An answerable request is in the pool, or being settled, or its reply exists.
IsCarried == \A r \in Answerable : Queued(r) \/ Settling(r) \/ ~Unused(r)

Carried == FreeIsFresh /\ OverdueExpires /\ IsCarried

LEMMA InitCarried == Init => Carried
  BY DEF Init, Pool!Init, Carried, FreeIsFresh, OverdueExpires, IsCarried, Queued, Answerable

\* A step that only passes requests on.
LEMMA PassedOn ==
    ASSUME Carried, UNCHANGED regState, overdue' # {} => expiration_,
           \A w \in Workers : task'[w] = None => ~done'[w],
           \A r \in Answerable : Queued(r) \/ Settling(r) => Queued(r)' \/ Settling(r)' \/ ~Unused(r)',
           \A r \in Answerable : Unused(r)' => Unused(r)
    PROVE  Carried'
<1>1. Answerable' = Answerable
  BY DEF Answerable, regState
<1>2. IsCarried'
  BY <1>1 DEF Carried, IsCarried
<1>3. FreeIsFresh' /\ OverdueExpires'
  BY DEF FreeIsFresh, OverdueExpires, regState
<1> QED
  BY <1>2, <1>3 DEF Carried

\* A worker in the pool's own code drops no task, and starts on one with a fresh mind.
LEMMA WorkerCarries ==
    ASSUME SInv, Carried, NEW w \in Workers, PoolStep(w)
    PROVE  Carried'
<1>0. /\ PoolP!HandlersHoldTasks
      /\ pc \in [Workers -> PoolP!Labels] /\ task \in [Workers -> Requests \cup {None}]
      /\ tstate \in [Requests -> PoolP!TaskStates] /\ task_queue_ \in Seq(Requests)
      /\ None \notin Requests
  BY PartsAssumptions DEF SInv, PartsInv, PoolP!Counting, PoolP!Ownership, PoolP!TypeOK, PoolP!PoolAssumption
<1>1. PoolP!WorkerStep(w) /\ UNCHANGED <<regState, ioState, done, late, replies, listening>>
  BY SamePoolSteps DEF PoolStep
<1>2. UNCHANGED <<late, replies, posted, executed>> /\ OnTheWay' = OnTheWay
  BY <1>1 DEF ioState, OnTheWay
<1>3. \A r : Unused(r)' <=> Unused(r)
  BY <1>2 DEF Unused
<1>4. CASE PoolP!Acquire(w) \/ PoolP!Leave(w) \/ PoolP!Sleep(w) \/ PoolP!Reacquire(w)
  <2>1. UNCHANGED <<task, tstate, overdue, done>>
    BY <1>1, <1>4 DEF PoolP!Acquire, PoolP!Leave, PoolP!Sleep, PoolP!Reacquire
  <2>2. \A r : (Queued(r)' <=> Queued(r)) /\ (Settling(r)' <=> Settling(r))
    BY <2>1 DEF Queued, Settling
  <2> QED
    BY <1>1, <1>3, <2>1, <2>2, PassedOn DEF Carried, FreeIsFresh, OverdueExpires
<1>5. CASE PoolP!Take(w)
  <2>1. PICK t, s : /\ t = Head(task_queue_) /\ task_queue_ # <<>>
                    /\ task' = [task EXCEPT ![w] = t]
                    /\ tstate' = [tstate EXCEPT ![t] = s]
                    /\ overdue' = overdue /\ pc[w] = "loop"
    BY <1>5 DEF PoolP!Take
  <2>2. t \in Requests
    BY <1>0, <2>1
  <2>3. task[w] = None /\ ~done[w]
    BY <1>0, <2>1 DEF PoolP!HandlersHoldTasks, Carried, FreeIsFresh
  <2>4. \A v \in Workers : task'[v] = None => ~done'[v]
    BY <1>0, <1>1, <2>1, <2>2 DEF Carried, FreeIsFresh
  <2>5. ASSUME NEW r \in Answerable, Queued(r) \/ Settling(r) PROVE Queued(r)' \/ Settling(r)'
    <3>0. r \in Requests
      BY DEF Answerable
    <3>1. CASE r = t
      BY <1>0, <1>1, <2>1, <2>3, <3>1 DEF Settling
    <3>2. CASE r # t /\ Queued(r)
      BY <1>0, <2>1, <3>0, <3>2 DEF Queued
    <3>3. CASE Settling(r)
      <4>1. PICK v \in Workers : task[v] = r /\ ~done[v]
        BY <3>3 DEF Settling
      <4>2. v # w
        BY <1>0, <2>3, <3>0, <4>1
      <4> QED
        BY <1>0, <1>1, <2>1, <4>1, <4>2 DEF Settling
    <3> QED
      BY <2>5, <3>1, <3>2, <3>3
  <2> QED
    BY <1>1, <1>3, <2>1, <2>4, <2>5, PassedOn DEF Carried, OverdueExpires
<1> QED
  BY <1>1, <1>4, <1>5 DEF PoolP!WorkerStep

\* A worker that settles its request: the reply exists, or none was to be expected.
LEMMA SettlingCarries ==
    ASSUME SInv, Carried, NEW w \in Workers, Handling(w), Settle(w),
           UNCHANGED <<regState, poolState>>,
           \A r \in Answerable : r = task[w] => ~Unused(r)',
           \A r \in Answerable : Unused(r)' => Unused(r)
    PROVE  Carried'
<1>1. UNCHANGED <<task, tstate, overdue>>
  BY DEF poolState
<1>2. task[w] # None /\ done \in [Workers -> BOOLEAN]
  BY DEF SInv, TypeOK, PartsInv, PoolP!Ownership, PoolP!HandlersHoldTasks, Handling
<1>3. \A v \in Workers : task'[v] = None => ~done'[v]
  BY <1>1, <1>2 DEF Carried, FreeIsFresh, Settle
<1>4. ASSUME NEW r \in Answerable, Queued(r) \/ Settling(r)
      PROVE  Queued(r)' \/ Settling(r)' \/ ~Unused(r)'
  <2>1. CASE Queued(r)
    BY <1>1, <2>1 DEF Queued
  <2>2. CASE Settling(r)
    <3>1. PICK v \in Workers : task[v] = r /\ ~done[v]
      BY <2>2 DEF Settling
    <3>2. CASE v = w
      BY <3>1, <3>2
    <3>3. CASE v # w
      <4>1. ~done'[v] /\ task'[v] = r
        BY <1>1, <1>2, <3>1, <3>3 DEF Settle
      <4> QED
        BY <4>1 DEF Settling
    <3> QED
      BY <3>2, <3>3
  <2> QED
    BY <1>4, <2>1, <2>2
<1> QED
  BY <1>1, <1>3, <1>4, PassedOn DEF Carried, OverdueExpires

\* A worker whose callback does not answer has no answerable request.
LEMMA UnansweredIsUnanswerable ==
    ASSUME Kinds, OverdueExpires, NEW w \in Workers, pc[w] \in {"run", "expire"},
           Does(task[w], Callback(w)) \notin {"reply", "late"}
    PROVE  task[w] \notin Answerable
<1> SUFFICES ASSUME task[w] \in Requests PROVE task[w] \notin Answerable
  BY DEF Answerable
<1>1. \A c \in Callbacks : Behaviour[task[w]][c] \notin {"reply", "late"} => task[w] \notin Answers[c]
  BY DEF Answers
<1>2. CASE pc[w] = "run"
  <2>1. \/ Path[task[w]] \in callbacks_map_ /\ Callback(w) = "route"
        \/ Path[task[w]] \notin callbacks_map_ /\ default_cb_ /\ Callback(w) = "default"
        \/ Path[task[w]] \notin callbacks_map_ /\ ~default_cb_
    BY <1>2 DEF Callback
  <2>2. Callback(w) \in Callbacks => task[w] \notin Answers[Callback(w)]
    BY <1>1 DEF Does, Callbacks
  <2> QED
    BY <2>1, <2>2 DEF Answerable, Callbacks
<1>3. CASE pc[w] = "expire"
  <2>1. expiration_
    BY <1>3 DEF Kinds, OverdueExpires
  <2>2. ~timeout_cb_ \/ Callback(w) = "timeout"
    BY <1>3 DEF Callback
  <2>3. Callback(w) = "timeout" => task[w] \notin Answers["timeout"]
    BY <1>1 DEF Does, Callbacks
  <2> QED
    BY <2>1, <2>2, <2>3 DEF Answerable
<1> QED
  BY <1>2, <1>3

LEMMA StepCarried == SInv /\ Carried /\ [Next]_vars => Carried'
<1> SUFFICES ASSUME SInv, Carried, [Next]_vars PROVE Carried'
  OBVIOUS
<1>0. /\ PartsInv /\ TypeOK /\ OwnTypes /\ Users /\ Kinds /\ NoneBeforeStart
      /\ None \notin Requests
      /\ task \in [Workers -> Requests \cup {None}]
      /\ posted \in Seq(Requests \X Callbacks) /\ executed \in Nat
  BY OwnTypesSuffice, PartsAssumptions DEF SInv, PartsInv, PoolP!Counting, PoolP!TypeOK, IoP!IInv,
     IoP!TypeOK, PoolP!PoolAssumption
\* A step that leaves every hand as it is.
<1>k. ASSUME UNCHANGED <<regState, task, done, tstate, late, replies, posted, executed>>,
             overdue' # {} => expiration_
      PROVE  Carried'
  <2>1. \A r : (Queued(r)' <=> Queued(r)) /\ (Settling(r)' <=> Settling(r)) /\ (Unused(r)' <=> Unused(r))
    BY <1>k DEF Queued, Settling, Unused, OnTheWay
  <2> QED
    BY <1>k, <2>1, PassedOn DEF Carried, FreeIsFresh
\* A reply is pushed: it stays where OnTheWay sees it.
<1>p. ASSUME NEW f, posted' = Append(posted, f), executed' = executed
      PROVE  /\ \A i \in OnTheWay : i \in OnTheWay' /\ posted'[i] = posted[i]
             /\ \E i \in OnTheWay' : posted'[i] = f
  <2>1. executed <= Len(posted) /\ Len(posted) \in Nat
    <3>1. /\ executed + Len(functors) + Len(task_functors_) = Len(posted)
          /\ functors \in Seq(Requests \X Callbacks) /\ task_functors_ \in Seq(Requests \X Callbacks)
      BY <1>0 DEF PartsInv, IoP!IInv, IoP!InOrderOnce, IoP!TypeOK
    <3>2. Len(functors) \in Nat /\ Len(task_functors_) \in Nat /\ Len(posted) \in Nat
      BY <1>0, <3>1
    <3> QED
      BY <1>0, <3>1, <3>2
  <2>2. Len(posted') = Len(posted) + 1 /\ posted'[Len(posted) + 1] = f
        /\ \A i \in 1..Len(posted) : posted'[i] = posted[i]
    BY <1>0, <1>p
  <2>3. Len(posted) + 1 \in OnTheWay'
    BY <1>0, <1>p, <2>1, <2>2 DEF OnTheWay
  <2>4. ASSUME NEW i \in OnTheWay PROVE i \in OnTheWay' /\ i \in 1..Len(posted)
    BY <1>0, <1>p, <2>1, <2>2 DEF OnTheWay
  <2> QED
    BY <2>2, <2>3, <2>4
<1>1. CASE RegisterDefaultHandler \/ RegisterTimeoutHandler \/ \E uri \in Routes : RegisterHandler(uri)
  <2>1. io = "off" /\ UNCHANGED <<poolState, expiration_, done>>
    BY <1>1 DEF RegisterDefaultHandler, RegisterTimeoutHandler, RegisterHandler, Register
  <2>2. UNCHANGED <<task, tstate, overdue>> /\ \A r \in Requests : tstate[r] = "NEW"
    BY <1>0, <2>1 DEF poolState, NoneBeforeStart
  <2> QED
    BY <2>1, <2>2 DEF Carried, FreeIsFresh, OverdueExpires, IsCarried, Queued, Answerable
<1>2. CASE Start \/ DrainNotify
  <2>1. UNCHANGED <<regState, poolState, done, late, replies, posted, executed>>
    BY <1>2, SameIoSteps DEF Start, DrainNotify, IoP!Start, IoP!EventHandler, IoP!Swap, IoP!Return
  <2> QED
    BY <1>k, <2>1 DEF poolState, Carried, OverdueExpires
<1>3. ASSUME NEW r \in Requests, CoreHandleRequest(r) PROVE Carried'
  <2>1. /\ tstate' = [tstate EXCEPT ![r] = "WAITING"] /\ UNCHANGED <<task, overdue>>
        /\ UNCHANGED <<regState, ioState, done, late, replies, listening>>
    BY <1>3, SamePoolAdds DEF CoreHandleRequest, PoolP!AddTask
  <2>2. \A q : (Settling(q)' <=> Settling(q)) /\ (Unused(q)' <=> Unused(q))
    BY <2>1 DEF Settling, Unused, OnTheWay, ioState
  <2>3. \A q \in Requests : Queued(q) => Queued(q)'
    BY <2>1 DEF Queued, SInv, PartsInv, PoolP!Counting, PoolP!TypeOK
  <2> QED
    BY <2>1, <2>2, <2>3, PassedOn DEF Carried, FreeIsFresh, OverdueExpires, Answerable
<1>4. ASSUME NEW r \in Requests, Expire(r) PROVE Carried'
  BY <1>4, <1>k, SamePoolAdds DEF Expire, PoolP!Expire, PoolP!workVars, ioState
<1>5. CASE SendReply
  <2>1. /\ IoP!Execute /\ UNCHANGED <<regState, poolState, done, late>>
        /\ replies' = [replies EXCEPT ![Head(functors)[1]] = Append(@, Head(functors)[2])]
    BY <1>5, SameIoSteps DEF SendReply
  <2> DEFINE f == posted[executed + 1]
  <2>2. /\ f \in Requests \X Callbacks /\ Head(functors) = f
        /\ posted' = posted /\ OnTheWay' = OnTheWay \ {executed + 1}
    BY <1>0, <2>1, ExecutedIsNext
  <2> HIDE DEF f
  <2>3. replies' = [replies EXCEPT ![f[1]] = Append(replies[f[1]], f[2])] /\ f[1] \in Requests
    BY <2>1, <2>2
  <2>4. replies'[f[1]] # <<>>
    <3>1. replies[f[1]] \in Seq(Callbacks) /\ replies'[f[1]] = Append(replies[f[1]], f[2])
      BY <1>0, <2>3 DEF OwnTypes
    <3> QED
      BY <3>1
  <2>5. ASSUME NEW r \in Requests, Unused(r)' PROVE Unused(r)
    <3>1. r # f[1]
      BY <2>4, <2>5 DEF Unused
    <3>2. \A i \in OnTheWay : posted[i][1] # r
      BY <2>2, <2>5, <3>1 DEF Unused, f
    <3>3. replies[r] = <<>>
      BY <1>0, <2>3, <2>5, <3>1 DEF Unused, OwnTypes
    <3> QED
      BY <2>1, <2>5, <3>2, <3>3 DEF Unused
  <2>6. UNCHANGED <<task, tstate, overdue>>
    BY <2>1 DEF poolState
  <2>7. \A r : (Queued(r)' <=> Queued(r)) /\ (Settling(r)' <=> Settling(r))
    BY <2>1, <2>6 DEF Queued, Settling
  <2> QED
    BY <2>1, <2>5, <2>6, <2>7, PassedOn DEF Carried, FreeIsFresh, OverdueExpires, Answerable
<1>6. ASSUME NEW w \in Workers, PoolStep(w) PROVE Carried'
  BY <1>6, WorkerCarries
<1>7. ASSUME NEW w \in Workers, SpuriousWake(w) PROVE Carried'
  <2>1. UNCHANGED <<regState, ioState, done, late, replies, task, tstate, overdue>>
    BY <1>7, SamePoolSteps DEF SpuriousWake, PoolP!SpuriousWake
  <2> QED
    BY <1>k, <2>1 DEF ioState, Carried, OverdueExpires
<1>8. ASSUME NEW w \in Workers, Respond(w) PROVE Carried'
  <2> DEFINE f == <<task[w], Callback(w)>>
  <2>1. /\ Handling(w) /\ Settle(w) /\ posted' = Append(posted, f) /\ executed' = executed
        /\ UNCHANGED <<regState, poolState, late, replies>>
    BY <1>8 DEF Respond, Io!SubmitPush
  <2>2. f[1] = task[w]
    OBVIOUS
  <2> HIDE DEF f
  <2>3. /\ \A i \in OnTheWay : i \in OnTheWay' /\ posted'[i] = posted[i]
        /\ \E i \in OnTheWay' : posted'[i] = f
    BY <1>p, <2>1
  <2>4. \A r : Unused(r)' => Unused(r) /\ r # f[1]
    BY <2>1, <2>3 DEF Unused
  <2> QED
    BY <2>1, <2>2, <2>4, SettlingCarries
<1>9. ASSUME NEW w \in Workers, KeepForLater(w) PROVE Carried'
  <2> DEFINE f == <<task[w], Callback(w)>>
  <2>1. /\ Handling(w) /\ Settle(w) /\ late' = late \cup {f}
        /\ UNCHANGED <<regState, poolState, ioState, replies>>
    BY <1>9 DEF KeepForLater
  <2>2. f[1] = task[w]
    OBVIOUS
  <2> HIDE DEF f
  <2>3. \A r : Unused(r)' => Unused(r) /\ r # f[1]
    BY <2>1 DEF Unused, OnTheWay, ioState
  <2> QED
    BY <2>1, <2>2, <2>3, SettlingCarries
<1>10. ASSUME NEW w \in Workers, Ignore(w) PROVE Carried'
  <2>1. /\ Handling(w) /\ Settle(w)
        /\ Does(task[w], Callback(w)) = "silent"
        /\ UNCHANGED <<regState, poolState, ioState, late, replies>>
    BY <1>10 DEF Ignore
  <2>2. task[w] \notin Answerable
    BY <1>0, <2>1, UnansweredIsUnanswerable DEF Handling, Carried
  <2>3. \A r : Unused(r)' <=> Unused(r)
    BY <2>1 DEF Unused, OnTheWay, ioState
  <2> QED
    BY <2>1, <2>2, <2>3, SettlingCarries
<1>11. ASSUME NEW w \in Workers, Throw(w) \/ HandlerReturns(w) PROVE Carried'
  <2>1. UNCHANGED <<regState, ioState, late, replies>>
    BY <1>11 DEF Throw, HandlerReturns
  <2>2. \A r : Unused(r)' <=> Unused(r)
    BY <2>1 DEF Unused, OnTheWay, ioState
  <2>3. CASE PoolP!ExpireThrow(w) /\ done' = done
    BY <1>k, <2>1, <2>3 DEF PoolP!ExpireThrow, PoolP!workVars, ioState, Carried, OverdueExpires
  <2>4. CASE PoolP!RunThrow(w) \/ PoolP!RunReturn(w) \/ PoolP!ExpireReturn(w)
    <3>1. /\ task' = [task EXCEPT ![w] = None] /\ overdue' = overdue
          /\ tstate' = tstate \/ tstate' = [tstate EXCEPT ![task[w]] = "COMPLETE"]
          /\ pc[w] \in {"run", "expire"}
      BY <2>4 DEF PoolP!RunThrow, PoolP!RunReturn, PoolP!ExpireReturn, PoolP!Return
    <3>2. task[w] \in Requests /\ ~Queued(task[w])
      <4>1. task[w] # None
        BY <1>0, <3>1 DEF PartsInv, PoolP!Ownership, PoolP!HandlersHoldTasks
      <4> QED
        BY <1>0, <4>1, HandledIsNotQueued
    <3>3. ~done'[w] /\ \A v \in Workers : v # w => done'[v] = done[v]
      <4>1. ~PoolP!ExpireThrow(w)
        BY <2>4 DEF PoolP!RunThrow, PoolP!RunReturn, PoolP!ExpireReturn, PoolP!Return, PoolP!ExpireThrow
      <4>2. done' = [done EXCEPT ![w] = FALSE]
        BY <1>11, <4>1, SamePoolSteps DEF Throw, HandlerReturns
      <4> QED
        BY <1>0, <4>2 DEF OwnTypes
    <3>4. task[w] \in Answerable => done[w]
      <4>1. done[w] \/ Does(task[w], Callback(w)) = "throw"
        BY <1>11 DEF Throw, HandlerReturns
      <4> QED
        BY <1>0, <3>1, <4>1, UnansweredIsUnanswerable DEF Carried
    <3>5. \A v \in Workers : task'[v] = None => ~done'[v]
      BY <1>0, <3>1, <3>3 DEF Carried, FreeIsFresh
    <3>6. ASSUME NEW r \in Answerable, Queued(r) \/ Settling(r) PROVE Queued(r)' \/ Settling(r)'
      <4>1. CASE Queued(r)
        <5>1. r # task[w]
          BY <3>2, <4>1
        <5>2. r \in Requests /\ tstate \in [Requests -> PoolP!TaskStates]
          BY <1>0 DEF Answerable, PartsInv, PoolP!Counting, PoolP!TypeOK
        <5>3. tstate'[r] = tstate[r]
          BY <3>1, <5>1, <5>2
        <5> QED
          BY <4>1, <5>3 DEF Queued
      <4>2. CASE Settling(r)
        <5>1. PICK v \in Workers : task[v] = r /\ ~done[v]
          BY <4>2 DEF Settling
        <5>2. v # w
          BY <3>4, <5>1
        <5>3. task'[v] = r /\ ~done'[v]
          BY <3>1, <3>3, <5>1, <5>2
        <5> QED
          BY <5>3 DEF Settling
      <4> QED
        BY <3>6, <4>1, <4>2
    <3> QED
      BY <2>1, <2>2, <3>1, <3>5, <3>6, PassedOn DEF Carried, OverdueExpires
  <2> QED
    BY <1>11, <2>3, <2>4, SamePoolSteps DEF Throw, HandlerReturns
<1>12. ASSUME NEW f \in late, RespondLate(f) PROVE Carried'
  <2>1. /\ posted' = Append(posted, f) /\ executed' = executed /\ late' = late \ {f}
        /\ UNCHANGED <<regState, poolState, done, replies>>
    BY <1>12 DEF RespondLate, Io!SubmitPush
  <2>2. /\ \A i \in OnTheWay : i \in OnTheWay' /\ posted'[i] = posted[i]
        /\ \E i \in OnTheWay' : posted'[i] = f
    BY <1>p, <2>1
  <2>3. \A r : Unused(r)' => Unused(r)
    BY <2>1, <2>2 DEF Unused
  <2>4. UNCHANGED <<task, tstate, overdue>>
    BY <2>1 DEF poolState
  <2>5. \A r : (Queued(r)' <=> Queued(r)) /\ (Settling(r)' <=> Settling(r))
    BY <2>1, <2>4 DEF Queued, Settling
  <2> QED
    BY <2>1, <2>3, <2>4, <2>5, PassedOn DEF Carried, FreeIsFresh, OverdueExpires
<1>13. ASSUME NEW s \in Workers \cup {LateThread}, Notify(s) PROVE Carried'
  <2>1. /\ UNCHANGED <<regState, poolState, done, late, replies>>
        /\ UNCHANGED <<posted, executed>>
    BY <1>13, SameIoSteps DEF Notify, IoP!SubmitNotify
  <2> QED
    BY <1>k, <2>1 DEF poolState, Carried, OverdueExpires
<1>14. CASE UNCHANGED vars
  BY <1>14, <1>k DEF vars, poolState, ioState, Carried, OverdueExpires
<1> QED
  BY <1>1, <1>2, <1>3, <1>4, <1>5, <1>6, <1>7, <1>8, <1>9, <1>10, <1>11, <1>12, <1>13, <1>14
     DEF Next, IoLoop, Worker, LateStep, Idle

-----------------------------------------------------------------------------
(* What Service inherits from its parts.                                    *)

\* Inside Service the pool and the event loop's mailbox do what their own modules
\* say and nothing else, so every theorem about them is one about the server.
THEOREM PartsKeepTheirSpecs == SafeSpec => PoolP!SafeSpec /\ IoP!SafeSpec
<1>1. Init => PoolP!Init /\ IoP!Init
  BY DEF Init, Pool!Init, PoolP!Init, Io!Init, IoP!Init
<1>2. SInv /\ [Next]_vars => [PoolP!Next]_(PoolP!vars) /\ [IoP!Next]_(IoP!vars)
  BY StepOfParts DEF SInv
<1> QED
  BY <1>1, <1>2, InitSInv, StepSInv, PTL DEF SafeSpec, PoolP!SafeSpec, IoP!SafeSpec

\* So a server loses no wakeup: not of a worker over a queued request, and not of
\* the event loop over a queued reply.
THEOREM NoWakeupIsLost == SafeSpec => []PoolP!NoSleepOverBacklog /\ []IoP!NoLostNotify
<1>1. PoolP!SafeSpec => [](PoolP!NoSleepOverBacklog /\ PoolP!NobodySleepsThroughStop)
  BY PartsAssumptions, PoolP!NoLostWakeup
<1>2. IoP!SafeSpec => []IoP!NoLostNotify
  BY PartsAssumptions, IoP!NotifyIsNeverLost
<1> QED
  BY <1>1, <1>2, PartsKeepTheirSpecs, PTL

\* The wakeups of the pool, and its deque against the states of the tasks.
PoolRest == PoolP!Wakeup /\ PoolP!WaitingIsQueued

LEMMA InitPoolRest == Init => PoolRest
<1>1. Init => PoolP!Init
  BY DEF Init, Pool!Init, PoolP!Init
<1> QED
  BY <1>1, PartsAssumptions, PoolP!WakeupInit, PoolP!WaitingInit DEF PoolRest

LEMMA StepPoolRest == SInv /\ PoolRest /\ [Next]_vars => PoolRest'
<1> SUFFICES ASSUME SInv, PoolRest, [Next]_vars PROVE PoolRest'
  OBVIOUS
<1>1. [PoolP!Next]_(PoolP!vars)
  BY StepOfParts DEF SInv
<1>2. PoolP!Counting /\ PoolP!Ownership /\ PoolP!TypeOK
  BY DEF SInv, PartsInv, PoolP!Counting
<1> QED
  BY <1>1, <1>2, PartsAssumptions, PoolP!WakeupStep, PoolP!WaitingStep DEF PoolRest

\* What is on its way to the event loop is in one of its two vectors.
LEMMA OnTheWayIsHeld ==
    ASSUME PartsInv, NEW i \in OnTheWay
    PROVE  \/ \E j \in 1..Len(functors) : functors[j] = posted[i]
           \/ \E j \in 1..Len(task_functors_) : task_functors_[j] = posted[i]
<1>1. /\ executed \in Nat /\ Len(functors) \in Nat /\ Len(task_functors_) \in Nat /\ Len(posted) \in Nat
      /\ executed + Len(functors) + Len(task_functors_) = Len(posted)
      /\ \A j \in 1..Len(functors) : functors[j] = posted[executed + j]
      /\ \A j \in 1..Len(task_functors_) : task_functors_[j] = posted[executed + Len(functors) + j]
  BY DEF PartsInv, IoP!IInv, IoP!TypeOK, IoP!InOrderOnce
<1>2. i \in Nat /\ executed < i /\ i <= Len(posted)
  BY <1>1 DEF OnTheWay
<1>3. CASE i <= executed + Len(functors)
  <2>1. i - executed \in 1..Len(functors) /\ executed + (i - executed) = i
    BY <1>1, <1>2, <1>3
  <2>2. functors[i - executed] = posted[executed + (i - executed)]
    BY <1>1, <2>1
  <2> QED
    BY <2>1, <2>2
<1>4. CASE i > executed + Len(functors)
  <2> DEFINE j == i - (executed + Len(functors))
  <2>1. j \in 1..Len(task_functors_) /\ executed + Len(functors) + j = i
    BY <1>1, <1>2, <1>4
  <2> HIDE DEF j
  <2>2. task_functors_[j] = posted[executed + Len(functors) + j]
    BY <1>1, <2>1
  <2> QED
    BY <2>1, <2>2
<1> QED
  BY <1>1, <1>2, <1>3, <1>4

LEMMA CarriedInHands == SInv /\ Carried /\ PoolRest => NoRequestIsLost
<1> SUFFICES ASSUME SInv, Carried, PoolRest, NEW r \in Answerable, tstate[r] # "NEW", replies[r] = <<>>
             PROVE  InHands(r)
  BY DEF NoRequestIsLost
<1>1. r \in Requests
  BY DEF Answerable
<1>2. CASE Queued(r)
  <2>1. \E i \in 1..Len(task_queue_) : task_queue_[i] = r
    BY <1>1, <1>2 DEF Queued, PoolRest, PoolP!WaitingIsQueued
  <2> QED
    BY <2>1 DEF InHands
<1>3. CASE Settling(r)
  BY <1>3 DEF Settling, InHands
<1>4. CASE ~Unused(r)
  <2>1. CASE \E f \in late : f[1] = r
    BY <2>1 DEF InHands
  <2>2. ASSUME NEW i \in OnTheWay, posted[i][1] = r PROVE InHands(r)
    <3>1. \/ \E j \in 1..Len(functors) : functors[j] = posted[i]
          \/ \E j \in 1..Len(task_functors_) : task_functors_[j] = posted[i]
      BY OnTheWayIsHeld DEF SInv
    <3> QED
      BY <2>2, <3>1 DEF InHands
  <2> QED
    BY <1>4, <2>1, <2>2 DEF Unused
<1> QED
  BY <1>2, <1>3, <1>4 DEF Carried, IsCarried

\* No answerable request falls between two threads, whatever their number and
\* however full the socket: somebody holds it until it is answered.
THEOREM NothingIsLost == SafeSpec => []NoRequestIsLost
  BY CarriedInHands, InitSInv, StepSInv, InitCarried, StepCarried, InitPoolRest, StepPoolRest, PTL
     DEF SafeSpec

\* When all threads of the server wait, every answerable request was answered: of the
\* hands a request can be in, the wakeups empty the deque and the pipe's bytes the
\* vectors, and no worker that waits is in a callback.
THEOREM QuietServerHasAnswered == SafeSpec => []QuietMeansAnswered
<1>1. ASSUME SInv, PoolRest, NoRequestIsLost PROVE QuietMeansAnswered
  <2> SUFFICES ASSUME Quiet, NEW r \in Answerable, tstate[r] # "NEW", replies[r] = <<>> PROVE FALSE
    BY DEF QuietMeansAnswered
  <2>1. InHands(r) /\ r # None
    BY <1>1, PartsAssumptions DEF NoRequestIsLost, Answerable, PoolP!PoolAssumption
  <2>2. /\ PoolP!TypeOK /\ PoolP!Wakeup /\ PoolP!HandlersHoldTasks
        /\ IoP!NothingHeldOutsideLoop /\ IoP!NoLostNotify
    BY <1>1 DEF SInv, PartsInv, PoolP!Counting, PoolP!Ownership, PoolRest, IoP!IInv
  <2>3. task_queue_ = <<>>
    BY <2>2, PartsAssumptions, PoolP!AsleepIsEmpty DEF Quiet
  <2>4. functors = <<>> /\ task_functors_ = <<>>
    BY <2>2 DEF Quiet, IoP!NothingHeldOutsideLoop, IoP!NoLostNotify
  <2>5. \A w \in Workers : task[w] = None
    BY <2>2 DEF Quiet, PoolP!HandlersHoldTasks
  <2>6. late = {}
    BY DEF Quiet
  <2>7. Len(<<>>) = 0 /\ 1..0 = {}
    OBVIOUS
  <2> QED
    BY <2>1, <2>3, <2>4, <2>5, <2>6, <2>7 DEF InHands
<1> QED
  BY <1>1, NothingIsLost, InitSInv, StepSInv, InitPoolRest, StepPoolRest, PTL DEF SafeSpec
=============================================================================
