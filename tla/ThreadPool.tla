------------------------------ MODULE ThreadPool ------------------------------
(***************************************************************************)
(* kbms::ThreadPool with its Task, Guard and MonitorThread: a deque of     *)
(* tasks guarded by one std::timed_mutex, workers that wait on a           *)
(* std::condition_variable_any when the deque is empty, and a count of     *)
(* idle workers that AddTask consults before it notifies.                  *)
(*                                                                         *)
(* pc[w] is where worker w stands in ThreadWorker::operator():             *)
(*   lock     wants mutex_ (thread start, or back from a handler)          *)
(*   loop     holds mutex_ at the top of the loop                          *)
(*   waiting  asleep in condition_variable_.wait                           *)
(*   relock   notified or spuriously woken, wants mutex_ again             *)
(*   run      in Task::Run, without mutex_                                 *)
(*   expire   in Task::ExpireRun, without mutex_                           *)
(*   exit     has returned                                                 *)
(* A stretch of code that runs under mutex_ and touches nothing that is    *)
(* accessed without it is one step.                                        *)
(***************************************************************************)
EXTENDS Integers, Sequences, FiniteSets

CONSTANTS Workers, \* the threads of m_threads
          Tasks,   \* the Task objects that callers may hand to AddTask
          Timed,   \* tasks with flag_set_timeout_: an expire_fun_ and expiration > 0
          Hanging, \* tasks whose user function may never return
          None     \* no task, no owner

ASSUME PoolAssumption == /\ IsFiniteSet(Workers)
                         /\ Timed \subseteq Tasks
                         /\ Hanging \subseteq Tasks
                         /\ None \notin Workers \cup Tasks

VARIABLES mutex_,      \* the worker that holds mutex_ between two steps, or None
          task_queue_,
          state_,      \* TPOOL_STATE
          idle_count_,
          pc,
          task,        \* task[w]: the task whose Run or ExpireRun worker w is in, or None
          tstate,      \* tstate[t]: Task::state_; "NEW" before t is constructed
          overdue,     \* tasks whose expire_time_ has passed
          terminated,  \* an exception left a thread: std::terminate
          submitted,   \* history: the tasks added, in order
          taken        \* history: how many tasks were popped

poolVars == <<mutex_, task_queue_, state_, idle_count_>>
workVars == <<pc, task, tstate>>
histVars == <<submitted, taken>>
vars == <<poolVars, workVars, overdue, terminated, histVars>>

Labels == {"lock", "loop", "waiting", "relock", "run", "expire", "exit"}
TaskStates == {"NEW", "WAITING", "EXECUTING", "TIMEDOUT", "COMPLETE"}

Sleeping == {w \in Workers : pc[w] = "waiting"}
\* Workers that look at task_queue_ before they sleep or run user code again.
Takers == {w \in Workers : pc[w] \in {"lock", "relock", "loop"}}
\* Workers between idle_count_++ and idle_count_--.
Idlers == {w \in Workers : pc[w] \in {"waiting", "relock"}}

-----------------------------------------------------------------------------
\* The constructor and ThreadPool::Init: every worker thread exists and is about to lock.
Init == /\ mutex_ = None
        /\ task_queue_ = <<>>
        /\ state_ = "RUN"
        /\ idle_count_ = 0
        /\ pc = [w \in Workers |-> "lock"]
        /\ task = [w \in Workers |-> None]
        /\ tstate = [t \in Tasks |-> "NEW"]
        /\ overdue = {}
        /\ terminated = FALSE
        /\ submitted = <<>>
        /\ taken = 0

-----------------------------------------------------------------------------
(* The callers. *)

\* MonitorThread::Notify: any one sleeper, and nothing is remembered if there is none.
Notify == \/ /\ Sleeping = {}
             /\ UNCHANGED pc
          \/ \E w \in Sleeping : pc' = [pc EXCEPT ![w] = "relock"]

MustNotify_OffByOne == idle_count_ > 1
MustNotify == idle_count_ > 0

Push_Front(t) == task_queue_' = <<t>> \o task_queue_
Push(t) == task_queue_' = Append(task_queue_, t)

\* Task::Task and ThreadPool::AddTask.
AddTask(t) ==
    /\ ~terminated
    /\ tstate[t] = "NEW"
    /\ mutex_ = None
    /\ tstate' = [tstate EXCEPT ![t] = "WAITING"]
    /\ Push(t)
    /\ submitted' = Append(submitted, t)
    /\ IF MustNotify THEN Notify ELSE UNCHANGED pc
    /\ UNCHANGED <<mutex_, state_, idle_count_, task, overdue, terminated, taken>>

Wake_One(S) == IF S = {} THEN UNCHANGED pc
               ELSE \E w \in S : pc' = [pc EXCEPT ![w] = "relock"]
\* MonitorThread::NotifyAll
Wake(S) == pc' = [w \in Workers |-> IF w \in S THEN "relock" ELSE pc[w]]

\* ThreadPool::Stop.  Init detached the threads, so the first join() throws and
\* Guard unlocks on the way out: Stop never waits.  A second call finds nobody asleep.
Stop == /\ ~terminated
        /\ state_ = "RUN"
        /\ mutex_ = None
        /\ state_' = "STOP"
        /\ Wake(Sleeping)
        /\ UNCHANGED <<mutex_, task_queue_, idle_count_, task, tstate, overdue, terminated, histVars>>

\* steady_clock passes the expire_time_ of a task that has not been popped.
Expire(t) == /\ ~terminated
             /\ t \in Timed \ overdue
             /\ tstate[t] = "WAITING"
             /\ overdue' = overdue \cup {t}
             /\ UNCHANGED <<poolVars, workVars, terminated, histVars>>
-----------------------------------------------------------------------------
(* ThreadWorker::operator(). *)

Goto(w, label) == pc' = [pc EXCEPT ![w] = label]

\* Guard g(tpool_->mutex_), and mutex_.lock() after a handler.
Acquire(w) == /\ ~terminated
              /\ pc[w] = "lock"
              /\ mutex_ = None
              /\ mutex_' = w
              /\ Goto(w, "loop")
              /\ UNCHANGED <<task_queue_, state_, idle_count_, task, tstate, overdue, terminated, histVars>>

Survival_Ignored == TRUE
IsSurvival == state_ = "RUN"

\* The loop ends and ~Guard unlocks.
Leave(w) == /\ ~terminated
            /\ pc[w] = "loop"
            /\ ~IsSurvival
            /\ mutex_' = None
            /\ Goto(w, "exit")
            /\ UNCHANGED <<task_queue_, state_, idle_count_, task, tstate, overdue, terminated, histVars>>

Sleep_Uncounted(w) == /\ ~terminated
                      /\ pc[w] = "loop"
                      /\ IsSurvival
                      /\ task_queue_ = <<>>
                      /\ mutex_' = None
                      /\ Goto(w, "waiting")
                      /\ UNCHANGED <<task_queue_, state_, idle_count_, task, tstate, overdue, terminated, histVars>>
\* idle_count_++ and MonitorThread::WaitForever, which releases mutex_ as it falls asleep.
Sleep(w) == /\ ~terminated
            /\ pc[w] = "loop"
            /\ IsSurvival
            /\ task_queue_ = <<>>
            /\ idle_count_' = idle_count_ + 1
            /\ mutex_' = None
            /\ Goto(w, "waiting")
            /\ UNCHANGED <<task_queue_, state_, task, tstate, overdue, terminated, histVars>>

\* std::condition_variable_any may wake a waiter nobody notified.
SpuriousWake(w) == /\ ~terminated
                   /\ pc[w] = "waiting"
                   /\ Goto(w, "relock")
                   /\ UNCHANGED <<poolVars, task, tstate, overdue, terminated, histVars>>

\* wait() returns with mutex_ held again, then idle_count_--.
Reacquire(w) == /\ ~terminated
                /\ pc[w] = "relock"
                /\ mutex_ = None
                /\ mutex_' = w
                /\ idle_count_' = idle_count_ - 1
                /\ Goto(w, "loop")
                /\ UNCHANGED <<task_queue_, state_, task, tstate, overdue, terminated, histVars>>

TimedOut_Ignored(t) == FALSE
\* get_timeout_flag() && *get_expire_time() < now, read while the task is popped.
TimedOut(t) == t \in overdue

Unlock_Kept == UNCHANGED mutex_
Unlock == mutex_' = None
Pop_FrontOnly == UNCHANGED task_queue_
Pop == task_queue_' = Tail(task_queue_)

\* Pop the front task, decide once whether it runs or has expired, unlock.
Take(w) ==
    /\ ~terminated
    /\ pc[w] = "loop"
    /\ IsSurvival
    /\ task_queue_ # <<>>
    /\ LET t == Head(task_queue_)
       IN  /\ task' = [task EXCEPT ![w] = t]
           /\ tstate' = [tstate EXCEPT ![t] = IF TimedOut(t) THEN "TIMEDOUT" ELSE "EXECUTING"]
           /\ Goto(w, IF TimedOut(t) THEN "expire" ELSE "run")
    /\ Pop
    /\ Unlock
    /\ taken' = taken + 1
    /\ UNCHANGED <<state_, idle_count_, overdue, terminated, submitted>>

\* The worker is through with its task and goes for mutex_ again.  Its local TaskPtr
\* lives on to the end of the loop's scope, with mutex_ held; nothing reads it there.
Return(w) == /\ Goto(w, "lock")
             /\ task' = [task EXCEPT ![w] = None]
             /\ UNCHANGED <<poolVars, overdue, terminated, histVars>>

\* Task::Run to its end.
RunReturn(w) == /\ ~terminated
                /\ pc[w] = "run"
                /\ tstate' = [tstate EXCEPT ![task[w]] = "COMPLETE"]
                /\ Return(w)

RunThrow_Retry(w) == /\ ~terminated
                     /\ pc[w] = "run"
                     /\ tstate' = [tstate EXCEPT ![task[w]] = "WAITING"]
                     /\ Return(w)
\* task_fun_ throws: catch (...) keeps the worker alive and the task EXECUTING.
RunThrow(w) == /\ ~terminated
               /\ pc[w] = "run"
               /\ UNCHANGED tstate
               /\ Return(w)

\* Task::ExpireRun to its end.
ExpireReturn(w) == /\ ~terminated
                   /\ pc[w] = "expire"
                   /\ tstate' = [tstate EXCEPT ![task[w]] = "COMPLETE"]
                   /\ Return(w)

\* expire_fun_ throws: nothing catches it, the process ends.
ExpireThrow(w) == /\ ~terminated
                  /\ pc[w] = "expire"
                  /\ terminated' = TRUE
                  /\ UNCHANGED <<poolVars, workVars, overdue, histVars>>

-----------------------------------------------------------------------------
WorkerStep(w) == Acquire(w) \/ Leave(w) \/ Sleep(w) \/ Reacquire(w) \/ Take(w)
HandlerEnds(w) == RunReturn(w) \/ RunThrow(w) \/ ExpireReturn(w)

\* Every thread has returned, or the process is gone.
Halted == /\ terminated \/ \A w \in Workers : pc[w] = "exit"
          /\ UNCHANGED vars

Next == \/ \E t \in Tasks : AddTask(t) \/ Expire(t)
        \/ Stop
        \/ \E w \in Workers : WorkerStep(w) \/ HandlerEnds(w) \/ SpuriousWake(w) \/ ExpireThrow(w)
        \/ Halted

\* The scheduler runs every thread that can run, and a user function returns
\* unless its task is in Hanging.
Fairness == \A w \in Workers : /\ WF_vars(WorkerStep(w))
                               /\ WF_vars(task[w] \notin Hanging /\ HandlerEnds(w))

SafeSpec == Init /\ [][Next]_vars
Spec == SafeSpec /\ Fairness

-----------------------------------------------------------------------------
(* Properties. *)

\* The type of every variable.  idle_count_ is a size_t: it must never be
\* decremented below zero.
TypeOK == /\ mutex_ \in Workers \cup {None}
          /\ task_queue_ \in Seq(Tasks)
          /\ state_ \in {"RUN", "STOP"}
          /\ idle_count_ \in Nat
          /\ pc \in [Workers -> Labels]
          /\ task \in [Workers -> Tasks \cup {None}]
          /\ tstate \in [Tasks -> TaskStates]
          /\ overdue \in SUBSET Timed
          /\ terminated \in BOOLEAN
          /\ submitted \in Seq(Tasks)
          /\ taken \in Nat

\* idle_count_, which AddTask trusts, counts the workers inside
\* MonitorThread::Wait at every step, through notifications, spurious wakeups
\* and Stop, though the counter is only changed around the call.
IdleExact == idle_count_ = Cardinality(Idlers)

\* No lost wakeup: while any worker sleeps, every queued task has a worker of
\* its own that is awake and will look at task_queue_ before it sleeps or runs
\* user code, though AddTask calls notify_one once per task and not at all when
\* it sees nobody idle.
NoSleepOverBacklog == Sleeping # {} => Len(task_queue_) <= Cardinality(Takers)

\* After Stop nobody sleeps: Stop and IsSurvival are both under mutex_, so no
\* worker can test state_ before Stop and fall asleep after its notify_all.
NobodySleepsThroughStop == state_ = "STOP" => Sleeping = {}

\* Tasks leave the deque in the order AddTask put them in: what is queued is
\* exactly what was submitted and not yet taken, no task lost, repeated or moved.
QueueIsTheBacklog == /\ taken + Len(task_queue_) = Len(submitted)
                     /\ \A i \in 1..Len(task_queue_) : task_queue_[i] = submitted[taken + i]

\* A task that a worker works on is nobody else's and is no longer queued, so
\* Task::state_, which Run and ExpireRun write without mutex_, has one owner.
TaskHasOneOwner ==
    \A w \in {v \in Workers : task[v] # None} :
        /\ \A v \in Workers \ {w} : task[v] # task[w]
        /\ \A i \in 1..Len(task_queue_) : task_queue_[i] # task[w]

\* The decision taken at the front of the deque is final: a task that started,
\* expired or ended, even by an exception, is never offered to a worker again.
DecidedOnce ==
    [][\A t \in Tasks : tstate[t] \in {"EXECUTING", "TIMEDOUT", "COMPLETE"} => tstate'[t] \in {tstate[t], "COMPLETE"}]_vars

\* As long as fewer handlers hang than there are workers, a task handed to
\* AddTask is eventually taken, unless the pool is stopped or the process dies.
EveryTaskIsTaken ==
    Cardinality(Hanging) < Cardinality(Workers) =>
        (\A t \in Tasks : (tstate[t] = "WAITING") ~> (tstate[t] # "WAITING" \/ state_ = "STOP" \/ terminated))

\* Stop reaches every worker: each one leaves its loop, whatever it was doing,
\* unless its handler hangs or the process dies.
StopEndsWorkers ==
    \A w \in Workers : (state_ = "STOP") ~> (pc[w] = "exit" \/ task[w] \in Hanging \/ terminated)

\* The pool implements TaskPool: one slot per worker, closed by Stop or by the
\* death of the process.
Pool == INSTANCE TaskPool WITH Slots <- Workers, begun <- taken, slot <- task,
                               closed <- (state_ = "STOP" \/ terminated)
RefinesPool == Pool!SafeSpec
\* The same with its promise of progress.
ImplementsPool == Pool!Spec
=============================================================================
