--------------------------- MODULE ThreadPoolProofs ---------------------------
(***************************************************************************)
(* Proofs about ThreadPool for any set of workers and tasks.               *)
(*                                                                         *)
(* Counting: TypeOK and IdleExact are inductive together, because          *)
(* idle_count_ stays a natural number only as long as it counts the        *)
(* workers inside Wait.                                                    *)
(***************************************************************************)
EXTENDS ThreadPool, FiniteSetTheorems, TLAPS

-----------------------------------------------------------------------------
(* The sets of workers the properties count. *)

\* A worker that moves joins or leaves each set according to where it goes.
LEMMA GotoSets ==
    ASSUME pc \in [Workers -> Labels], NEW w \in Workers, NEW label \in Labels, Goto(w, label)
    PROVE  /\ Sleeping' = IF label = "waiting" THEN Sleeping \cup {w} ELSE Sleeping \ {w}
           /\ Takers' = IF label \in {"lock", "relock", "loop"} THEN Takers \cup {w} ELSE Takers \ {w}
           /\ Idlers' = IF label \in {"waiting", "relock"} THEN Idlers \cup {w} ELSE Idlers \ {w}
           /\ pc' \in [Workers -> Labels]
  BY DEF Goto, Sleeping, Takers, Idlers, Labels

\* Entering or leaving neither side of idle_count_ leaves the set of idlers alone.
LEMMA IdlersKept ==
    ASSUME pc \in [Workers -> Labels], NEW w \in Workers, NEW label \in Labels, Goto(w, label),
           pc[w] \in {"waiting", "relock"} <=> label \in {"waiting", "relock"}
    PROVE  /\ Idlers' = Idlers
           /\ pc' \in [Workers -> Labels]
  BY DEF Goto, Idlers, Labels

\* Every set of workers is finite.
LEMMA WorkerSetsFinite ==
    /\ IsFiniteSet(Sleeping) /\ IsFiniteSet(Takers) /\ IsFiniteSet(Idlers)
    /\ Cardinality(Sleeping) \in Nat /\ Cardinality(Takers) \in Nat /\ Cardinality(Idlers) \in Nat
<1>1. IsFiniteSet(Workers)
  BY PoolAssumption
<1>2. Sleeping \subseteq Workers /\ Takers \subseteq Workers /\ Idlers \subseteq Workers
  BY DEF Sleeping, Takers, Idlers
<1>3. IsFiniteSet(Sleeping) /\ IsFiniteSet(Takers) /\ IsFiniteSet(Idlers)
  BY <1>1, <1>2, FS_Subset
<1> QED
  BY <1>3, FS_CardinalityType

\* A notification moves at most one worker, from Sleeping to Takers; it never
\* changes who counts as idle.
LEMMA NotifySets ==
    ASSUME pc \in [Workers -> Labels], Notify
    PROVE  /\ pc' \in [Workers -> Labels]
           /\ Idlers' = Idlers
           /\ \/ Sleeping = {} /\ pc' = pc
              \/ \E w \in Sleeping : Goto(w, "relock")
  BY DEF Notify, Sleeping, Idlers, Labels, Goto

\* notify_all empties Sleeping and leaves Idlers alone.
LEMMA WakeSets ==
    ASSUME pc \in [Workers -> Labels], Wake(Sleeping)
    PROVE  /\ pc' \in [Workers -> Labels]
           /\ Idlers' = Idlers
           /\ Sleeping' = {}
  BY DEF Wake, Sleeping, Idlers, Labels

-----------------------------------------------------------------------------
Counting == TypeOK /\ IdleExact

LEMMA CountingInit == Init => Counting
<1> SUFFICES ASSUME Init PROVE Counting
  OBVIOUS
<1>1. TypeOK
  <2>1. <<>> \in Seq(Tasks) /\ 0 \in Nat /\ {} \in SUBSET Timed
    OBVIOUS
  <2>2. pc \in [Workers -> Labels] /\ tstate \in [Tasks -> TaskStates]
    BY DEF Init, Labels, TaskStates
  <2> QED
    BY <2>1, <2>2 DEF Init, TypeOK
<1>2. Idlers = {}
  BY DEF Init, Idlers
<1>3. IdleExact
  BY <1>2, FS_EmptySet DEF IdleExact, Init
<1> QED
  BY <1>1, <1>3 DEF Counting

LEMMA CountingStep == Counting /\ [Next]_vars => Counting'
<1> SUFFICES ASSUME Counting, [Next]_vars PROVE Counting'
  OBVIOUS
<1> USE DEF Counting
<1>0. TypeOK /\ IdleExact
  OBVIOUS
<1>t. None \notin Workers /\ None \notin Tasks /\ Timed \subseteq Tasks
  BY PoolAssumption
<1>1. ASSUME NEW t \in Tasks, AddTask(t) PROVE Counting'
  <2>1. pc' \in [Workers -> Labels] /\ Idlers' = Idlers
    BY <1>0, <1>1, NotifySets DEF AddTask, TypeOK, Idlers
  <2>2. TypeOK'
    BY <1>0, <1>1, <2>1 DEF AddTask, Push, TypeOK, TaskStates
  <2>3. IdleExact'
    BY <1>0, <1>1, <2>1 DEF AddTask, IdleExact
  <2> QED
    BY <2>2, <2>3
<1>2. CASE Stop
  <2>1. pc' \in [Workers -> Labels] /\ Idlers' = Idlers
    BY <1>0, <1>2, WakeSets DEF Stop, TypeOK
  <2>2. TypeOK'
    BY <1>0, <1>2, <2>1 DEF Stop, TypeOK, poolVars, workVars, histVars
  <2>3. IdleExact'
    BY <1>0, <1>2, <2>1 DEF Stop, IdleExact
  <2> QED
    BY <2>2, <2>3
<1>3. ASSUME NEW t \in Tasks, Expire(t) PROVE Counting'
  BY <1>0, <1>3, <1>t DEF Expire, TypeOK, IdleExact, Idlers, poolVars, workVars, histVars
<1>4. ASSUME NEW w \in Workers, Acquire(w) \/ Leave(w) PROVE Counting'
  <2>1. pc[w] \in {"lock", "loop"}
    BY <1>4 DEF Acquire, Leave
  <2>2. PICK label \in {"loop", "exit"} : Goto(w, label)
    BY <1>4 DEF Acquire, Leave
  <2>3. pc' \in [Workers -> Labels] /\ Idlers' = Idlers
    BY <1>0, <2>1, <2>2, IdlersKept DEF TypeOK, Labels
  <2>4. TypeOK'
    BY <1>0, <1>4, <2>3 DEF Acquire, Leave, TypeOK, histVars
  <2> QED
    BY <1>0, <1>4, <2>3, <2>4 DEF Acquire, Leave, IdleExact
<1>5. ASSUME NEW w \in Workers, Sleep(w) PROVE Counting'
  <2>1. w \notin Idlers
    BY <1>5 DEF Sleep, Idlers
  <2>2. pc' \in [Workers -> Labels] /\ Idlers' = Idlers \cup {w}
    BY <1>0, <1>5, GotoSets DEF Sleep, TypeOK, Labels
  <2>3. Cardinality(Idlers') = Cardinality(Idlers) + 1
    BY <2>1, <2>2, WorkerSetsFinite, FS_AddElement
  <2>4. TypeOK'
    BY <1>0, <1>5, <2>2 DEF Sleep, TypeOK, histVars
  <2> QED
    BY <1>0, <1>5, <2>3, <2>4 DEF Sleep, IdleExact
<1>6. ASSUME NEW w \in Workers, Reacquire(w) PROVE Counting'
  <2>1. w \in Idlers
    BY <1>6 DEF Reacquire, Idlers
  <2>2. pc' \in [Workers -> Labels] /\ Idlers' = Idlers \ {w}
    BY <1>0, <1>6, GotoSets DEF Reacquire, TypeOK, Labels
  <2>3. IsFiniteSet(Idlers') /\ Cardinality(Idlers') = Cardinality(Idlers) - 1
    BY <2>1, <2>2, WorkerSetsFinite, FS_RemoveElement
  <2>4. Cardinality(Idlers') \in Nat
    BY <2>3, FS_CardinalityType
  <2>5. idle_count_' = Cardinality(Idlers')
    BY <1>0, <1>6, <2>3 DEF Reacquire, IdleExact
  <2>6. TypeOK'
    BY <1>0, <1>6, <2>2, <2>4, <2>5 DEF Reacquire, TypeOK, histVars
  <2> QED
    BY <2>5, <2>6 DEF IdleExact
<1>7. ASSUME NEW w \in Workers, Take(w) PROVE Counting'
  <2>1. PICK label \in {"run", "expire"} : Goto(w, label)
    BY <1>7 DEF Take
  <2>2. pc' \in [Workers -> Labels] /\ Idlers' = Idlers
    <3>1. pc[w] = "loop"
      BY <1>7 DEF Take
    <3> QED
      BY <1>0, <2>1, <3>1, IdlersKept DEF TypeOK, Labels
  <2>3. Head(task_queue_) \in Tasks /\ Tail(task_queue_) \in Seq(Tasks)
    BY <1>0, <1>7 DEF Take, TypeOK
  <2>4. TypeOK'
    <3>1. task' \in [Workers -> Tasks \cup {None}] /\ tstate' \in [Tasks -> TaskStates]
      BY <1>0, <1>7, <2>3 DEF Take, TypeOK, TaskStates
    <3>2. task_queue_' \in Seq(Tasks) /\ mutex_' = None /\ taken' \in Nat
      BY <1>0, <1>7, <2>3 DEF Take, Pop, Unlock, TypeOK
    <3> QED
      BY <1>0, <1>7, <2>2, <3>1, <3>2 DEF Take, TypeOK
  <2> QED
    BY <1>0, <1>7, <2>2, <2>4 DEF Take, IdleExact
<1>8. ASSUME NEW w \in Workers, HandlerEnds(w) PROVE Counting'
  <2>1. Goto(w, "lock") /\ pc[w] \in {"run", "expire"}
    BY <1>8 DEF HandlerEnds, RunReturn, RunThrow, ExpireReturn, Return
  <2>2. pc' \in [Workers -> Labels] /\ Idlers' = Idlers
    BY <1>0, <2>1, IdlersKept DEF TypeOK, Labels
  <2>3. TypeOK'
    BY <1>0, <1>8, <2>2 DEF HandlerEnds, RunReturn, RunThrow, ExpireReturn, Return, TypeOK,
                            TaskStates, poolVars, histVars
  <2> QED
    BY <1>0, <1>8, <2>2, <2>3 DEF HandlerEnds, RunReturn, RunThrow, ExpireReturn, Return,
                                  IdleExact, poolVars
<1>9. ASSUME NEW w \in Workers, SpuriousWake(w) PROVE Counting'
  <2>1. Goto(w, "relock") /\ pc[w] = "waiting"
    BY <1>9 DEF SpuriousWake
  <2>2. pc' \in [Workers -> Labels] /\ Idlers' = Idlers
    BY <1>0, <2>1, IdlersKept DEF TypeOK, Labels
  <2>3. TypeOK'
    BY <1>0, <1>9, <2>2 DEF SpuriousWake, TypeOK, poolVars, histVars
  <2> QED
    BY <1>0, <1>9, <2>2, <2>3 DEF SpuriousWake, IdleExact, poolVars
<1>10. ASSUME NEW w \in Workers, ExpireThrow(w) PROVE Counting'
  BY <1>0, <1>10 DEF ExpireThrow, TypeOK, IdleExact, Idlers, poolVars, workVars, histVars
<1>11. CASE UNCHANGED vars
  BY <1>0, <1>11 DEF TypeOK, IdleExact, Idlers, vars, poolVars, workVars, histVars
<1> QED
  BY <1>1, <1>2, <1>3, <1>4, <1>5, <1>6, <1>7, <1>8, <1>9, <1>10, <1>11 DEF Next, WorkerStep, Halted

\* Every variable keeps its type; in particular idle_count_, a size_t, never
\* goes below zero.
THEOREM TypeCorrect == SafeSpec => []TypeOK
<1>1. Counting => TypeOK
  BY DEF Counting
<1> QED
  BY <1>1, CountingInit, CountingStep, PTL DEF SafeSpec

\* idle_count_ is exactly the number of workers between its two updates.
THEOREM IdleCountCorrect == SafeSpec => []IdleExact
<1>1. Counting => IdleExact
  BY DEF Counting
<1> QED
  BY <1>1, CountingInit, CountingStep, PTL DEF SafeSpec

-----------------------------------------------------------------------------
(* Wakeups.  NoSleepOverBacklog needs NobodySleepsThroughStop, because a    *)
(* worker that leaves its loop no longer looks at the queue, and IdleExact, *)
(* because AddTask notifies nobody when idle_count_ is zero.                *)

Wakeup == NobodySleepsThroughStop /\ NoSleepOverBacklog

LEMMA WakeupInit == Init => Wakeup
  BY DEF Init, Wakeup, NobodySleepsThroughStop, NoSleepOverBacklog, Sleeping

LEMMA WakeupStep == Counting /\ Wakeup /\ [Next]_vars => Wakeup'
<1> SUFFICES ASSUME Counting, Wakeup, [Next]_vars PROVE Wakeup'
  OBVIOUS
<1>0. /\ TypeOK /\ IdleExact /\ NobodySleepsThroughStop /\ NoSleepOverBacklog
      /\ pc \in [Workers -> Labels] /\ task_queue_ \in Seq(Tasks)
  BY DEF Counting, Wakeup, TypeOK
<1>c. /\ Cardinality(Takers) \in Nat /\ Cardinality(Takers') \in Nat
      /\ IsFiniteSet(Takers) /\ Len(task_queue_) \in Nat
  <2>1. IsFiniteSet(Takers')
    BY PoolAssumption, FS_Subset DEF Takers
  <2> QED
    BY <1>0, <2>1, WorkerSetsFinite, FS_CardinalityType
\* Steps that neither put anyone to sleep, nor lengthen the queue, nor take a taker away.
<1>k. ASSUME Sleeping' \subseteq Sleeping, task_queue_' = task_queue_, state_' = state_,
             Cardinality(Takers') >= Cardinality(Takers)
      PROVE  Wakeup'
  BY <1>0, <1>c, <1>k DEF Wakeup, NobodySleepsThroughStop, NoSleepOverBacklog
<1>1. ASSUME NEW t \in Tasks, AddTask(t) PROVE Wakeup'
  <2>1. state_' = state_ /\ Len(task_queue_') = Len(task_queue_) + 1
    BY <1>0, <1>1 DEF AddTask, Push
  <2>2. Sleeping' \subseteq Sleeping
    BY <1>0, <1>1 DEF AddTask, Notify, Sleeping
  <2>3. Sleeping # {} => Cardinality(Takers') = Cardinality(Takers) + 1
    <3> SUFFICES ASSUME Sleeping # {} PROVE Cardinality(Takers') = Cardinality(Takers) + 1
      OBVIOUS
    <3>1. Idlers # {}
      BY DEF Sleeping, Idlers
    <3>2. MustNotify
      <4>1. Cardinality(Idlers) # 0
        BY <3>1, WorkerSetsFinite, FS_EmptySet
      <4> QED
        BY <1>0, <4>1, WorkerSetsFinite DEF IdleExact, MustNotify
    <3>3. PICK w \in Sleeping : Goto(w, "relock")
      BY <1>0, <1>1, <3>2, NotifySets DEF AddTask
    <3>4. w \in Workers /\ w \notin Takers
      BY DEF Sleeping, Takers
    <3>5. Takers' = Takers \cup {w}
      BY <1>0, <3>3, <3>4, GotoSets DEF Labels
    <3> QED
      BY <1>c, <3>4, <3>5, FS_AddElement
  <2>4. NoSleepOverBacklog'
    BY <1>0, <1>c, <2>1, <2>2, <2>3 DEF NoSleepOverBacklog
  <2> QED
    BY <1>0, <2>1, <2>2, <2>4 DEF Wakeup, NobodySleepsThroughStop
<1>2. CASE Stop
  <2>1. Sleeping' = {}
    BY <1>0, <1>2, WakeSets DEF Stop
  <2> QED
    BY <2>1 DEF Wakeup, NobodySleepsThroughStop, NoSleepOverBacklog
<1>3. ASSUME NEW t \in Tasks, Expire(t) PROVE Wakeup'
  BY <1>3, <1>c, <1>k DEF Expire, Sleeping, Takers, poolVars, workVars
<1>4. ASSUME NEW w \in Workers, Acquire(w) \/ Reacquire(w) PROVE Wakeup'
  <2>1. w \in Takers /\ Goto(w, "loop") /\ task_queue_' = task_queue_ /\ state_' = state_
    BY <1>4 DEF Acquire, Reacquire, Takers
  <2>2. Sleeping' \subseteq Sleeping /\ Takers' = Takers
    BY <1>0, <2>1 DEF Goto, Sleeping, Takers
  <2> QED
    BY <1>c, <1>k, <2>1, <2>2
<1>5. ASSUME NEW w \in Workers, Leave(w) PROVE Wakeup'
  <2>1. state_ = "STOP" /\ Sleeping = {}
    BY <1>0, <1>5 DEF Leave, IsSurvival, TypeOK, NobodySleepsThroughStop
  <2>2. Sleeping' = {}
    BY <1>0, <1>5, <2>1, GotoSets DEF Leave, Labels
  <2> QED
    BY <2>2 DEF Wakeup, NobodySleepsThroughStop, NoSleepOverBacklog
<1>6. ASSUME NEW w \in Workers, Sleep(w) PROVE Wakeup'
  <2>1. state_' # "STOP" /\ Len(task_queue_') = 0
    BY <1>6 DEF Sleep, IsSurvival
  <2> QED
    BY <1>c, <2>1 DEF Wakeup, NobodySleepsThroughStop, NoSleepOverBacklog
<1>7. ASSUME NEW w \in Workers, Take(w) PROVE Wakeup'
  <2>1. PICK label \in {"run", "expire"} : Goto(w, label)
    BY <1>7 DEF Take
  <2>2. w \in Takers
    BY <1>7 DEF Take, Takers
  <2>3. Sleeping' \subseteq Sleeping /\ Takers' = Takers \ {w}
    BY <1>0, <2>1 DEF Goto, Sleeping, Takers
  <2>4. Cardinality(Takers') = Cardinality(Takers) - 1
    BY <1>c, <2>2, <2>3, FS_RemoveElement
  <2>5. state_' = state_ /\ Len(task_queue_') = Len(task_queue_) - 1
    BY <1>0, <1>7 DEF Take, Pop
  <2> QED
    BY <1>0, <1>c, <2>3, <2>4, <2>5 DEF Wakeup, NobodySleepsThroughStop, NoSleepOverBacklog
<1>8. ASSUME NEW w \in Workers, HandlerEnds(w) \/ SpuriousWake(w) PROVE Wakeup'
  <2>1. PICK label \in {"lock", "relock"} : Goto(w, label)
    BY <1>8 DEF HandlerEnds, RunReturn, RunThrow, ExpireReturn, Return, SpuriousWake
  <2>2. task_queue_' = task_queue_ /\ state_' = state_
    BY <1>8 DEF HandlerEnds, RunReturn, RunThrow, ExpireReturn, Return, SpuriousWake, poolVars
  <2>3. Sleeping' \subseteq Sleeping /\ Takers' = Takers \cup {w}
    BY <1>0, <2>1 DEF Goto, Sleeping, Takers
  <2>4. Cardinality(Takers') >= Cardinality(Takers)
    <3>1. Cardinality(Takers \cup {w}) = IF w \in Takers THEN Cardinality(Takers) ELSE Cardinality(Takers) + 1
      BY <1>c, FS_AddElement
    <3> QED
      BY <1>c, <2>3, <3>1
  <2> QED
    BY <1>k, <2>2, <2>3, <2>4
<1>9. ASSUME NEW w \in Workers, ExpireThrow(w) PROVE Wakeup'
  BY <1>9, <1>c, <1>k DEF ExpireThrow, Sleeping, Takers, poolVars, workVars
<1>10. CASE UNCHANGED vars
  BY <1>10, <1>c, <1>k DEF vars, Sleeping, Takers, poolVars, workVars
<1> QED
  BY <1>1, <1>2, <1>3, <1>4, <1>5, <1>6, <1>7, <1>8, <1>9, <1>10 DEF Next, WorkerStep, Halted

\* No lost wakeup, for any number of workers and tasks: a queued task always has
\* an awake worker to itself while anyone sleeps.
THEOREM NoLostWakeup == SafeSpec => [](NoSleepOverBacklog /\ NobodySleepsThroughStop)
<1>1. Wakeup => NoSleepOverBacklog /\ NobodySleepsThroughStop
  BY DEF Wakeup
<1> QED
  BY <1>1, CountingInit, CountingStep, WakeupInit, WakeupStep, PTL DEF SafeSpec

\* Stop reaches everybody: whoever is inside the wait afterwards has been woken.
THEOREM StopWakesAll == SafeSpec => []NobodySleepsThroughStop
  BY NoLostWakeup, PTL

-----------------------------------------------------------------------------
(* Ownership: which worker holds which task in which state.                 *)

\* Workers in user code, and no others, hold a task, in the state of that code.
HandlersHoldTasks ==
    \A w \in Workers : /\ pc[w] \in {"run", "expire"} <=> task[w] # None
                       /\ pc[w] = "run" => tstate[task[w]] = "EXECUTING"
                       /\ pc[w] = "expire" => tstate[task[w]] = "TIMEDOUT"

\* The queued tasks are distinct and wait.
QueuedOnce == /\ \A i \in 1..Len(task_queue_) : tstate[task_queue_[i]] = "WAITING"
              /\ \A i, j \in 1..Len(task_queue_) : task_queue_[i] = task_queue_[j] => i = j

Ownership == HandlersHoldTasks /\ QueuedOnce /\ TaskHasOneOwner

LEMMA OwnershipInit == Init => Ownership
  BY PoolAssumption DEF Init, Ownership, HandlersHoldTasks, QueuedOnce, TaskHasOneOwner

LEMMA OwnershipStep == TypeOK /\ Ownership /\ [Next]_vars => Ownership'
<1> SUFFICES ASSUME TypeOK, Ownership, [Next]_vars PROVE Ownership'
  OBVIOUS
<1>0. /\ HandlersHoldTasks /\ QueuedOnce /\ TaskHasOneOwner
      /\ pc \in [Workers -> Labels] /\ task \in [Workers -> Tasks \cup {None}]
      /\ tstate \in [Tasks -> TaskStates] /\ task_queue_ \in Seq(Tasks)
  BY DEF Ownership, TypeOK
<1>t. None \notin Tasks
  BY PoolAssumption
\* Moving workers that are outside user code, with the tasks left alone, changes nothing.
<1>k. ASSUME task' = task, tstate' = tstate, task_queue_' = task_queue_,
             \A w \in Workers : pc'[w] = pc[w] \/ {pc[w], pc'[w]} \cap {"run", "expire"} = {}
      PROVE  Ownership'
  <2>1. HandlersHoldTasks'
    <3> SUFFICES ASSUME NEW w \in Workers
                 PROVE  /\ pc'[w] \in {"run", "expire"} <=> task[w] # None
                        /\ pc'[w] = "run" => tstate[task[w]] = "EXECUTING"
                        /\ pc'[w] = "expire" => tstate[task[w]] = "TIMEDOUT"
      BY <1>k DEF HandlersHoldTasks
    <3>1. /\ pc[w] \in {"run", "expire"} <=> task[w] # None
          /\ pc[w] = "run" => tstate[task[w]] = "EXECUTING"
          /\ pc[w] = "expire" => tstate[task[w]] = "TIMEDOUT"
      BY <1>0 DEF HandlersHoldTasks
    <3>2. CASE pc'[w] = pc[w]
      BY <3>1, <3>2
    <3>3. CASE {pc[w], pc'[w]} \cap {"run", "expire"} = {}
      <4>1. pc[w] \notin {"run", "expire"} /\ pc'[w] \notin {"run", "expire"}
        BY <3>3
      <4> QED
        BY <3>1, <4>1
    <3> QED
      BY <1>k, <3>2, <3>3
  <2>2. QueuedOnce'
    BY <1>0, <1>k DEF QueuedOnce
  <2>3. TaskHasOneOwner'
    BY <1>0, <1>k DEF TaskHasOneOwner
  <2> QED
    BY <2>1, <2>2, <2>3 DEF Ownership
<1>1. ASSUME NEW t \in Tasks, AddTask(t) PROVE Ownership'
  <2>1. /\ tstate[t] = "NEW" /\ task' = task
        /\ tstate' = [tstate EXCEPT ![t] = "WAITING"]
        /\ task_queue_' = Append(task_queue_, t)
    BY <1>1 DEF AddTask, Push
  <2>2. \A w \in Workers : pc'[w] = pc[w] \/ (pc[w] = "waiting" /\ pc'[w] = "relock")
    BY <1>0, <1>1 DEF AddTask, Notify, Sleeping
  <2>3. /\ Len(task_queue_') = Len(task_queue_) + 1
        /\ task_queue_'[Len(task_queue_) + 1] = t
        /\ \A i \in 1..Len(task_queue_) : task_queue_'[i] = task_queue_[i] /\ task_queue_[i] \in Tasks
        /\ Len(task_queue_) \in Nat
    BY <1>0, <2>1
  <2>4. \A i \in 1..Len(task_queue_') : i \in 1..Len(task_queue_) \/ i = Len(task_queue_) + 1
    BY <2>3
  <2>5. \A w \in Workers : task[w] # None => task[w] \in Tasks /\ task[w] # t
    BY <1>0, <2>1 DEF HandlersHoldTasks
  <2>6. HandlersHoldTasks'
    BY <1>0, <2>1, <2>2, <2>5 DEF HandlersHoldTasks
  <2>7. QueuedOnce'
    <3>1. \A i \in 1..Len(task_queue_) : task_queue_[i] # t
      BY <1>0, <2>1 DEF QueuedOnce
    <3> QED
      BY <1>0, <2>1, <2>3, <2>4, <3>1 DEF QueuedOnce
  <2>8. TaskHasOneOwner'
    BY <1>0, <2>1, <2>3, <2>4, <2>5 DEF TaskHasOneOwner
  <2> QED
    BY <2>6, <2>7, <2>8 DEF Ownership
<1>2. CASE Stop
  BY <1>0, <1>2, <1>k DEF Stop, Wake, Sleeping
<1>3. ASSUME NEW t \in Tasks, Expire(t) PROVE Ownership'
  BY <1>3, <1>k DEF Expire, poolVars, workVars
<1>4. ASSUME NEW w \in Workers, Acquire(w) \/ Leave(w) \/ Sleep(w) \/ Reacquire(w) \/ SpuriousWake(w)
      PROVE  Ownership'
  BY <1>0, <1>4, <1>k DEF Acquire, Leave, Sleep, Reacquire, SpuriousWake, Goto, poolVars
<1>5. ASSUME NEW w \in Workers, Take(w) PROVE Ownership'
  <2> DEFINE t == Head(task_queue_)
  <2>1. /\ task' = [task EXCEPT ![w] = t]
        /\ \/ /\ tstate' = [tstate EXCEPT ![t] = "TIMEDOUT"]
              /\ pc' = [pc EXCEPT ![w] = "expire"]
           \/ /\ tstate' = [tstate EXCEPT ![t] = "EXECUTING"]
              /\ pc' = [pc EXCEPT ![w] = "run"]
        /\ task_queue_' = Tail(task_queue_)
        /\ task_queue_ # <<>> /\ t \in Tasks
    <3>1. task_queue_' = Tail(task_queue_) /\ task_queue_ # <<>> /\ t \in Tasks
      BY <1>0, <1>5 DEF Take, Pop
    <3>2. /\ task' = [task EXCEPT ![w] = t]
          /\ tstate' = [tstate EXCEPT ![t] = IF TimedOut(t) THEN "TIMEDOUT" ELSE "EXECUTING"]
          /\ pc' = [pc EXCEPT ![w] = IF TimedOut(t) THEN "expire" ELSE "run"]
      BY <1>5 DEF Take, Goto
    <3> HIDE DEF t
    <3>3. CASE TimedOut(t)
      BY <3>1, <3>2, <3>3
    <3>4. CASE ~TimedOut(t)
      BY <3>1, <3>2, <3>4
    <3> QED
      BY <3>3, <3>4
  <2>2. /\ Len(task_queue_) \in Nat /\ Len(task_queue_) >= 1
        /\ Len(task_queue_') = Len(task_queue_) - 1
        /\ t = task_queue_[1]
        /\ \A i \in 1..Len(task_queue_') : task_queue_'[i] = task_queue_[i + 1]
    <3>0. task_queue_ \in Seq(Tasks) /\ task_queue_ # <<>>
      BY <1>0, <2>1
    <3>1. Len(task_queue_) \in Nat /\ Len(task_queue_) >= 1 /\ t = task_queue_[1]
      BY <3>0
    <3>2. Len(Tail(task_queue_)) = Len(task_queue_) - 1
      BY <3>0
    <3>3. \A i \in 1..Len(Tail(task_queue_)) : Tail(task_queue_)[i] = task_queue_[i + 1]
      BY <3>0
    <3> QED
      BY <2>1, <3>1, <3>2, <3>3
  <2> HIDE DEF t
  <2>3. \A i \in 1..Len(task_queue_') : task_queue_'[i] # t /\ task_queue_'[i] \in Tasks
    <3> SUFFICES ASSUME NEW i \in 1..Len(task_queue_')
                 PROVE  task_queue_'[i] # t /\ task_queue_'[i] \in Tasks
      OBVIOUS
    <3>1. i + 1 \in 1..Len(task_queue_) /\ 1 \in 1..Len(task_queue_) /\ i + 1 # 1
      BY <2>2
    <3> QED
      BY <1>0, <2>2, <3>1 DEF QueuedOnce
  <2>4. \A v \in Workers : task[v] # t
    <3>1. 1 \in 1..Len(task_queue_)
      BY <2>2
    <3> QED
      BY <1>0, <1>t, <2>1, <2>2, <3>1 DEF TaskHasOneOwner
  <2>5. HandlersHoldTasks'
    BY <1>0, <1>t, <2>1, <2>4 DEF HandlersHoldTasks
  <2>6. QueuedOnce'
    <3>1. \A i \in 1..Len(task_queue_') : i + 1 \in 1..Len(task_queue_)
      BY <2>2
    <3>2. \A i \in 1..Len(task_queue_') : tstate'[task_queue_'[i]] = "WAITING"
      <4> SUFFICES ASSUME NEW i \in 1..Len(task_queue_')
                   PROVE  tstate'[task_queue_'[i]] = "WAITING"
        OBVIOUS
      <4>1. task_queue_'[i] = task_queue_[i + 1] /\ tstate[task_queue_[i + 1]] = "WAITING"
        BY <1>0, <2>2, <3>1 DEF QueuedOnce
      <4>2. task_queue_'[i] # t /\ task_queue_'[i] \in Tasks
        BY <2>3
      <4> QED
        BY <1>0, <2>1, <4>1, <4>2
    <3>3. \A i, j \in 1..Len(task_queue_') : task_queue_'[i] = task_queue_'[j] => i = j
      <4> SUFFICES ASSUME NEW i \in 1..Len(task_queue_'), NEW j \in 1..Len(task_queue_'),
                          task_queue_'[i] = task_queue_'[j]
                   PROVE  i = j
        OBVIOUS
      <4>1. task_queue_'[i] = task_queue_[i + 1] /\ task_queue_'[j] = task_queue_[j + 1]
        BY <2>2
      <4>2. i + 1 = j + 1
        BY <1>0, <3>1, <4>1 DEF QueuedOnce
      <4> QED
        BY <4>2
    <3> QED
      BY <3>2, <3>3 DEF QueuedOnce
  <2>7. TaskHasOneOwner'
    <3>1. \A i \in 1..Len(task_queue_') : i + 1 \in 1..Len(task_queue_)
      BY <2>2
    <3> QED
      BY <1>0, <2>1, <2>2, <2>3, <2>4, <3>1 DEF TaskHasOneOwner
  <2> QED
    BY <2>5, <2>6, <2>7 DEF Ownership
<1>6. ASSUME NEW w \in Workers, HandlerEnds(w) PROVE Ownership'
  <2>1. /\ task' = [task EXCEPT ![w] = None] /\ pc' = [pc EXCEPT ![w] = "lock"]
        /\ tstate' = tstate \/ tstate' = [tstate EXCEPT ![task[w]] = "COMPLETE"]
        /\ task_queue_' = task_queue_
        /\ task[w] \in Tasks
    BY <1>0, <1>6 DEF HandlerEnds, RunReturn, RunThrow, ExpireReturn, Return, Goto, poolVars, HandlersHoldTasks
  <2>2. HandlersHoldTasks'
    BY <1>0, <1>t, <2>1 DEF HandlersHoldTasks, TaskHasOneOwner
  <2>3. QueuedOnce'
    BY <1>0, <1>t, <2>1 DEF QueuedOnce, TaskHasOneOwner
  <2>4. TaskHasOneOwner'
    BY <1>0, <2>1 DEF TaskHasOneOwner
  <2> QED
    BY <2>2, <2>3, <2>4 DEF Ownership
<1>7. ASSUME NEW w \in Workers, ExpireThrow(w) PROVE Ownership'
  BY <1>7, <1>k DEF ExpireThrow, poolVars, workVars
<1>8. CASE UNCHANGED vars
  BY <1>8, <1>k DEF vars, poolVars, workVars
<1> QED
  BY <1>1, <1>2, <1>3, <1>4, <1>5, <1>6, <1>7, <1>8 DEF Next, WorkerStep, Halted

\* A task in a worker's hands is no other worker's and no longer queued, so the
\* unlocked writes of Task::Run and Task::ExpireRun to state_ never race.
THEOREM TaskOwnership == SafeSpec => []TaskHasOneOwner
<1>1. Counting => TypeOK
  BY DEF Counting
<1>2. Ownership => TaskHasOneOwner
  BY DEF Ownership
<1> QED
  BY <1>1, <1>2, CountingInit, CountingStep, OwnershipInit, OwnershipStep, PTL DEF SafeSpec

\* A task that was decided upon is never offered again.
THEOREM DecisionsAreFinal == SafeSpec => DecidedOnce
<1> DEFINE Final == \A t \in Tasks : tstate[t] \in {"EXECUTING", "TIMEDOUT", "COMPLETE"} =>
                                      tstate'[t] \in {tstate[t], "COMPLETE"}
<1>1. ASSUME TypeOK, Ownership, Next PROVE Final
  <2>0. /\ HandlersHoldTasks /\ QueuedOnce
        /\ task \in [Workers -> Tasks \cup {None}] /\ tstate \in [Tasks -> TaskStates]
        /\ task_queue_ \in Seq(Tasks) /\ None \notin Tasks
    BY <1>1, PoolAssumption DEF Ownership, TypeOK
  <2>1. ASSUME NEW t \in Tasks, AddTask(t)
        PROVE  tstate[t] = "NEW" /\ tstate' = [tstate EXCEPT ![t] = "WAITING"]
    BY <2>1 DEF AddTask
  <2>2. ASSUME NEW w \in Workers, Take(w)
        PROVE  \E t \in Tasks, s \in TaskStates : tstate[t] = "WAITING" /\ tstate' = [tstate EXCEPT ![t] = s]
    <3>1. task_queue_ # <<>>
      BY <2>2 DEF Take
    <3>2. Head(task_queue_) = task_queue_[1] /\ 1 \in 1..Len(task_queue_) /\ Head(task_queue_) \in Tasks
      BY <2>0, <3>1
    <3>3. tstate[Head(task_queue_)] = "WAITING"
      BY <2>0, <3>2 DEF QueuedOnce
    <3> QED
      BY <2>2, <3>2, <3>3 DEF Take, TaskStates
  <2>3. ASSUME NEW w \in Workers, HandlerEnds(w)
        PROVE  \/ tstate' = tstate
               \/ task[w] \in Tasks /\ tstate' = [tstate EXCEPT ![task[w]] = "COMPLETE"]
    BY <2>0, <2>3 DEF HandlerEnds, RunReturn, RunThrow, ExpireReturn, HandlersHoldTasks
  <2>4. \/ \E t \in Tasks : AddTask(t)
        \/ \E w \in Workers : Take(w) \/ HandlerEnds(w)
        \/ tstate' = tstate
    BY <1>1 DEF Next, Stop, Expire, WorkerStep, Acquire, Leave, Sleep, Reacquire, SpuriousWake,
                ExpireThrow, Halted, vars, workVars
  <2> QED
    BY <2>0, <2>1, <2>2, <2>3, <2>4
<1>2. Counting /\ Ownership /\ [Next]_vars => [Final]_vars
  BY <1>1 DEF Counting
<1>3. Counting => TypeOK
  BY DEF Counting
<1>4. DecidedOnce <=> [][Final]_vars
  BY DEF DecidedOnce
<1> HIDE DEF Final
<1> QED
  BY <1>2, <1>3, <1>4, CountingInit, CountingStep, OwnershipInit, OwnershipStep, PTL DEF SafeSpec

-----------------------------------------------------------------------------
(* Order, and the refinement of TaskPool.                                   *)

SubmittedIsNotNew == \A i \in 1..Len(submitted) : tstate[submitted[i]] # "NEW"

Order == QueueIsTheBacklog /\ SubmittedIsNotNew

LEMMA OrderInit == Init => Order
  BY DEF Init, Order, QueueIsTheBacklog, SubmittedIsNotNew

\* What each step does to the variables TaskPool sees.
LEMMA OrderStep == TypeOK /\ Ownership /\ Order /\ [Next]_vars => Order' /\ [Pool!Next]_(Pool!vars)
<1> SUFFICES ASSUME TypeOK, Ownership, Order, [Next]_vars PROVE Order' /\ [Pool!Next]_(Pool!vars)
  OBVIOUS
<1>0. /\ HandlersHoldTasks /\ QueuedOnce /\ QueueIsTheBacklog /\ SubmittedIsNotNew
      /\ task_queue_ \in Seq(Tasks) /\ submitted \in Seq(Tasks) /\ taken \in Nat
      /\ task \in [Workers -> Tasks \cup {None}] /\ tstate \in [Tasks -> TaskStates]
      /\ Len(task_queue_) \in Nat /\ Len(submitted) \in Nat
      /\ None \notin Tasks /\ state_ \in {"RUN", "STOP"} /\ terminated \in BOOLEAN
  BY PoolAssumption DEF Ownership, Order, TypeOK
\* Steps TaskPool does not see.
<1>k. ASSUME UNCHANGED <<task_queue_, task, tstate, submitted, taken, state_, terminated>>
      PROVE  Order' /\ [Pool!Next]_(Pool!vars)
  BY <1>0, <1>k DEF Order, QueueIsTheBacklog, SubmittedIsNotNew, Pool!vars
<1>1. ASSUME NEW t \in Tasks, AddTask(t) PROVE Order' /\ [Pool!Next]_(Pool!vars)
  <2>1. /\ tstate[t] = "NEW" /\ tstate' = [tstate EXCEPT ![t] = "WAITING"]
        /\ task_queue_' = Append(task_queue_, t) /\ submitted' = Append(submitted, t)
        /\ UNCHANGED <<taken, task, state_, terminated>>
    BY <1>1 DEF AddTask, Push
  <2>2. /\ Len(task_queue_') = Len(task_queue_) + 1 /\ Len(submitted') = Len(submitted) + 1
        /\ task_queue_'[Len(task_queue_) + 1] = t /\ submitted'[Len(submitted) + 1] = t
        /\ \A i \in 1..Len(task_queue_) : task_queue_'[i] = task_queue_[i]
        /\ \A i \in 1..Len(submitted) : submitted'[i] = submitted[i] /\ submitted[i] \in Tasks
    BY <1>0, <2>1
  <2>3. /\ \A i \in 1..Len(task_queue_') : i \in 1..Len(task_queue_) \/ i = Len(task_queue_) + 1
        /\ \A i \in 1..Len(submitted') : i \in 1..Len(submitted) \/ i = Len(submitted) + 1
    BY <1>0, <2>2
  <2>4. QueueIsTheBacklog'
    <3>1. taken + Len(task_queue_) = Len(submitted)
      BY <1>0 DEF QueueIsTheBacklog
    <3>2. \A i \in 1..Len(task_queue_) : taken + i \in 1..Len(submitted)
      BY <1>0, <3>1
    <3>3. \A i \in 1..Len(task_queue_') : task_queue_'[i] = submitted'[taken + i]
      BY <1>0, <2>2, <2>3, <3>1, <3>2 DEF QueueIsTheBacklog
    <3> QED
      BY <1>0, <2>1, <2>2, <3>1, <3>3 DEF QueueIsTheBacklog
  <2>5. SubmittedIsNotNew'
    BY <1>0, <2>1, <2>2, <2>3 DEF SubmittedIsNotNew
  <2>6. Pool!Submit(t)
    BY <1>0, <2>1, <2>2 DEF Pool!Submit, SubmittedIsNotNew
  <2> QED
    BY <2>4, <2>5, <2>6 DEF Order, Pool!Next
<1>2. CASE Stop
  <2>1. UNCHANGED <<task_queue_, task, tstate, submitted, taken, terminated>> /\ state_' = "STOP"
    BY <1>2 DEF Stop, histVars
  <2>2. Pool!Close
    BY <2>1 DEF Pool!Close
  <2> QED
    BY <1>0, <2>1, <2>2 DEF Order, QueueIsTheBacklog, SubmittedIsNotNew, Pool!Next
<1>3. ASSUME NEW w \in Workers, Take(w) PROVE Order' /\ [Pool!Next]_(Pool!vars)
  <2> DEFINE t == Head(task_queue_)
  <2>1. /\ ~terminated /\ state_ = "RUN" /\ pc[w] = "loop"
        /\ task_queue_ # <<>> /\ task_queue_' = Tail(task_queue_)
        /\ task' = [task EXCEPT ![w] = t]
        /\ \E s \in {"TIMEDOUT", "EXECUTING"} : tstate' = [tstate EXCEPT ![t] = s]
        /\ taken' = taken + 1 /\ UNCHANGED <<submitted, state_, terminated>>
    BY <1>3 DEF Take, IsSurvival, Pop
  <2>2. Len(task_queue_) >= 1 /\ t = task_queue_[1] /\ Len(Tail(task_queue_)) = Len(task_queue_) - 1
    BY <1>0, <2>1
  <2>3. \A i \in 1..Len(Tail(task_queue_)) : Tail(task_queue_)[i] = task_queue_[i + 1]
    BY <1>0, <2>1
  <2>4. t = submitted[taken + 1] /\ taken < Len(submitted) /\ taken + Len(task_queue_) = Len(submitted)
    BY <1>0, <2>2 DEF QueueIsTheBacklog
  <2> HIDE DEF t
  <2>5. QueueIsTheBacklog'
    <3>1. \A i \in 1..Len(task_queue_') : i + 1 \in 1..Len(task_queue_) /\ taken' + i = taken + (i + 1)
      BY <1>0, <2>1, <2>2
    <3>2. \A i \in 1..Len(task_queue_') : task_queue_'[i] = submitted'[taken' + i]
      BY <1>0, <2>1, <2>3, <3>1 DEF QueueIsTheBacklog
    <3> QED
      BY <1>0, <2>1, <2>2, <2>4, <3>2 DEF QueueIsTheBacklog
  <2>6. SubmittedIsNotNew'
    BY <1>0, <2>1 DEF SubmittedIsNotNew
  <2>7. Pool!Begin(w)
    BY <1>0, <2>1, <2>4 DEF Pool!Begin, HandlersHoldTasks
  <2> QED
    BY <2>5, <2>6, <2>7 DEF Order, Pool!Next
<1>4. ASSUME NEW w \in Workers, HandlerEnds(w) PROVE Order' /\ [Pool!Next]_(Pool!vars)
  <2>1. /\ task[w] \in Tasks /\ task' = [task EXCEPT ![w] = None]
        /\ tstate' = tstate \/ tstate' = [tstate EXCEPT ![task[w]] = "COMPLETE"]
        /\ UNCHANGED <<task_queue_, submitted, taken, state_, terminated>>
    BY <1>0, <1>4 DEF HandlerEnds, RunReturn, RunThrow, ExpireReturn, Return, HandlersHoldTasks,
                      poolVars, histVars
  <2>2. QueueIsTheBacklog' /\ SubmittedIsNotNew'
    BY <1>0, <2>1 DEF QueueIsTheBacklog, SubmittedIsNotNew
  <2>3. Pool!End(w)
    BY <1>0, <2>1 DEF Pool!End
  <2> QED
    BY <2>2, <2>3 DEF Order, Pool!Next
<1>5. ASSUME NEW w \in Workers, ExpireThrow(w) PROVE Order' /\ [Pool!Next]_(Pool!vars)
  <2>1. UNCHANGED <<task_queue_, task, tstate, submitted, taken, state_>> /\ terminated' = TRUE
    BY <1>5 DEF ExpireThrow, poolVars, workVars, histVars
  <2>2. Pool!Close
    BY <2>1 DEF Pool!Close
  <2> QED
    BY <1>0, <2>1, <2>2 DEF Order, QueueIsTheBacklog, SubmittedIsNotNew, Pool!Next
<1>6. ASSUME NEW w \in Workers, Acquire(w) \/ Leave(w) \/ Sleep(w) \/ Reacquire(w) \/ SpuriousWake(w)
      PROVE  Order' /\ [Pool!Next]_(Pool!vars)
  BY <1>6, <1>k DEF Acquire, Leave, Sleep, Reacquire, SpuriousWake, poolVars, histVars
<1>7. ASSUME NEW t \in Tasks, Expire(t) PROVE Order' /\ [Pool!Next]_(Pool!vars)
  BY <1>7, <1>k DEF Expire, poolVars, workVars, histVars
<1>8. CASE UNCHANGED vars
  BY <1>8, <1>k DEF vars, poolVars, workVars, histVars
<1> QED
  BY <1>1, <1>2, <1>3, <1>4, <1>5, <1>6, <1>7, <1>8 DEF Next, WorkerStep, Halted

\* Tasks are taken in the order they were added, and none is lost or repeated.
THEOREM TasksInOrder == SafeSpec => []QueueIsTheBacklog
<1>1. Counting => TypeOK
  BY DEF Counting
<1>2. Order => QueueIsTheBacklog
  BY DEF Order
<1> QED
  BY <1>1, <1>2, CountingInit, CountingStep, OwnershipInit, OwnershipStep, OrderInit, OrderStep, PTL
     DEF SafeSpec

\* The pool of threads, locks and wakeups does nothing TaskPool does not allow.
THEOREM PoolRefinement == SafeSpec => RefinesPool
<1>1. Init => Pool!Init
  BY DEF Init, Pool!Init
<1>2. Counting => TypeOK
  BY DEF Counting
<1> QED
  BY <1>1, <1>2, CountingInit, CountingStep, OwnershipInit, OwnershipStep, OrderInit, OrderStep, PTL
     DEF SafeSpec, RefinesPool, Pool!SafeSpec
-----------------------------------------------------------------------------
(* Rest: when every worker sleeps, nothing is left to do.                   *)

\* A task whose state says that it waits is in the deque.
WaitingIsQueued == \A t \in Tasks : tstate[t] = "WAITING" =>
                                        \E i \in 1..Len(task_queue_) : task_queue_[i] = t

LEMMA WaitingInit == Init => WaitingIsQueued
  BY DEF Init, WaitingIsQueued

LEMMA WaitingStep == TypeOK /\ Ownership /\ WaitingIsQueued /\ [Next]_vars => WaitingIsQueued'
<1> SUFFICES ASSUME TypeOK, Ownership, WaitingIsQueued, [Next]_vars PROVE WaitingIsQueued'
  OBVIOUS
<1>0. /\ HandlersHoldTasks
      /\ task \in [Workers -> Tasks \cup {None}] /\ tstate \in [Tasks -> TaskStates]
      /\ task_queue_ \in Seq(Tasks) /\ Len(task_queue_) \in Nat
  BY DEF TypeOK, Ownership
<1>k. ASSUME task_queue_' = task_queue_, \A t \in Tasks : tstate'[t] = "WAITING" => tstate[t] = "WAITING"
      PROVE  WaitingIsQueued'
  BY <1>k DEF WaitingIsQueued
<1>1. ASSUME NEW t \in Tasks, AddTask(t) PROVE WaitingIsQueued'
  <2>1. tstate' = [tstate EXCEPT ![t] = "WAITING"] /\ task_queue_' = Append(task_queue_, t)
    BY <1>1 DEF AddTask, Push
  <2>2. /\ Len(task_queue_') = Len(task_queue_) + 1 /\ task_queue_'[Len(task_queue_) + 1] = t
        /\ \A i \in 1..Len(task_queue_) : task_queue_'[i] = task_queue_[i]
    BY <1>0, <2>1
  <2>3. /\ Len(task_queue_) + 1 \in 1..Len(task_queue_')
        /\ \A i \in 1..Len(task_queue_) : i \in 1..Len(task_queue_')
    BY <1>0, <2>2
  <2>4. ASSUME NEW q \in Tasks, tstate'[q] = "WAITING"
        PROVE  \E i \in 1..Len(task_queue_') : task_queue_'[i] = q
    <3>1. CASE q = t
      BY <2>2, <2>3, <3>1
    <3>2. CASE q # t
      <4>1. PICK i \in 1..Len(task_queue_) : task_queue_[i] = q
        BY <1>0, <2>1, <2>4, <3>2 DEF WaitingIsQueued
      <4> QED
        BY <2>2, <2>3, <4>1
    <3> QED
      BY <3>1, <3>2
  <2> QED
    BY <2>4 DEF WaitingIsQueued
<1>2. ASSUME NEW w \in Workers, Take(w) PROVE WaitingIsQueued'
  <2>1. PICK s \in {"TIMEDOUT", "EXECUTING"} :
            /\ tstate' = [tstate EXCEPT ![Head(task_queue_)] = s]
            /\ task_queue_' = Tail(task_queue_) /\ task_queue_ # <<>>
    BY <1>2 DEF Take, Pop
  <2>2. /\ Head(task_queue_) = task_queue_[1] /\ Len(task_queue_') = Len(task_queue_) - 1
        /\ \A i \in 1..Len(task_queue_') : task_queue_'[i] = task_queue_[i + 1]
    BY <1>0, <2>1
  <2>3. ASSUME NEW q \in Tasks, tstate'[q] = "WAITING"
        PROVE  \E i \in 1..Len(task_queue_') : task_queue_'[i] = q
    <3>1. q # Head(task_queue_) /\ tstate[q] = "WAITING"
      BY <1>0, <2>1, <2>3
    <3>2. PICK i \in 1..Len(task_queue_) : task_queue_[i] = q
      BY <3>1 DEF WaitingIsQueued
    <3>3. i # 1
      BY <2>2, <3>1, <3>2
    <3>4. i - 1 \in 1..Len(task_queue_') /\ (i - 1) + 1 = i
      BY <1>0, <2>2, <3>3
    <3>5. task_queue_'[i - 1] = q
      BY <2>2, <3>2, <3>4
    <3> QED
      BY <3>4, <3>5
  <2> QED
    BY <2>3 DEF WaitingIsQueued
<1>3. ASSUME NEW w \in Workers, HandlerEnds(w) PROVE WaitingIsQueued'
  <2>1. /\ tstate' = tstate \/ tstate' = [tstate EXCEPT ![task[w]] = "COMPLETE"]
        /\ task_queue_' = task_queue_
    BY <1>3 DEF HandlerEnds, RunReturn, RunThrow, ExpireReturn, Return, poolVars
  <2>2. \A t \in Tasks : tstate'[t] = "WAITING" => tstate[t] = "WAITING"
    BY <1>0, <2>1
  <2> QED
    BY <1>k, <2>1, <2>2
<1>4. CASE Stop \/ \E t \in Tasks : Expire(t)
  BY <1>4, <1>k DEF Stop, Expire, poolVars, workVars
<1>5. ASSUME NEW w \in Workers,
             Acquire(w) \/ Leave(w) \/ Sleep(w) \/ Reacquire(w) \/ SpuriousWake(w) \/ ExpireThrow(w)
      PROVE  WaitingIsQueued'
  BY <1>5, <1>k DEF Acquire, Leave, Sleep, Reacquire, SpuriousWake, ExpireThrow, poolVars, workVars
<1>6. CASE UNCHANGED vars
  BY <1>6, <1>k DEF vars, poolVars, workVars
<1> QED
  BY <1>1, <1>2, <1>3, <1>4, <1>5, <1>6 DEF Next, WorkerStep, Halted

\* With every worker asleep the deque is empty.
LEMMA AsleepIsEmpty ==
    ASSUME TypeOK, Wakeup, Workers # {}, \A w \in Workers : pc[w] = "waiting"
    PROVE  task_queue_ = <<>>
<1>1. Sleeping # {} /\ Takers = {}
  BY DEF Sleeping, Takers
<1>2. Len(task_queue_) <= 0
  BY <1>1, FS_EmptySet DEF Wakeup, NoSleepOverBacklog
<1> QED
  BY <1>2 DEF TypeOK

\* A pool whose workers all sleep has taken every task it was given.
THEOREM AsleepMeansAllTaken ==
    ASSUME Workers # {}
    PROVE  SafeSpec => []((\A w \in Workers : pc[w] = "waiting") =>
                              taken = Len(submitted) /\ \A t \in Tasks : tstate[t] # "WAITING")
<1>1. ASSUME Counting, Wakeup, Order, WaitingIsQueued, \A w \in Workers : pc[w] = "waiting"
      PROVE  taken = Len(submitted) /\ \A t \in Tasks : tstate[t] # "WAITING"
  <2>1. task_queue_ = <<>> /\ Len(task_queue_) = 0
    BY <1>1, AsleepIsEmpty DEF Counting
  <2>2. taken \in Nat /\ Len(submitted) \in Nat
    BY <1>1 DEF Counting, TypeOK
  <2> QED
    BY <1>1, <2>1, <2>2 DEF Order, QueueIsTheBacklog, WaitingIsQueued
<1>2. Counting => TypeOK
  BY DEF Counting
<1> QED
  BY <1>1, <1>2, CountingInit, CountingStep, WakeupInit, WakeupStep, OwnershipInit, OwnershipStep,
     OrderInit, OrderStep, WaitingInit, WaitingStep, PTL DEF SafeSpec
=============================================================================
