------------------------------- MODULE IoThread -------------------------------
(***************************************************************************)
(* kbms::IoThread and its EventMonitor: any thread submits a functor under *)
(* mutex_ and writes one byte into a non-blocking socket pair; the thread  *)
(* of the event loop reads up to a buffer full of bytes, swaps the vector  *)
(* of functors out under mutex_ and executes them without it.              *)
(*                                                                         *)
(* io is where the thread stands:                                          *)
(*   off       IoThread::Start has not been called                         *)
(*   dispatch  in event_base_dispatch                                      *)
(*   handle    has received bytes, about to lock mutex_ in ExecuteTask     *)
(*   execute   in the loop over the functors it swapped out                *)
(***************************************************************************)
EXTENDS Naturals, Sequences

CONSTANTS Submitters, \* the threads that call Submit
          Functors,
          MaxSubmits, \* bound: calls of Submit
          PipeCap,    \* bytes the socket pair holds before send() fails
          RecvMax,    \* sizeof(buf) in EventHandler
          None

ASSUME PipeAssumption == PipeCap \in Nat \ {0} /\ RecvMax \in Nat \ {0}
ASSUME NoneAssumption == None \notin Submitters

VARIABLES mutex_,         \* the submitter between push_back and unlock, or None
          task_functors_,
          pipe,           \* bytes in the socket pair
          io,
          functors,       \* ExecuteTask: the swapped out functors not yet executed
          submitted,      \* history: the functors pushed, in order
          executed        \* history: how many functors were executed

vars == <<mutex_, task_functors_, pipe, io, functors, submitted, executed>>

Init == /\ mutex_ = None
        /\ task_functors_ = <<>>
        /\ pipe = 0
        /\ io = "off"
        /\ functors = <<>>
        /\ submitted = <<>>
        /\ executed = 0

\* IoThread::Start
Start == /\ io = "off"
         /\ io' = "dispatch"
         /\ UNCHANGED <<mutex_, task_functors_, pipe, functors, submitted, executed>>

-----------------------------------------------------------------------------
(* The submitters. *)

Push_Dropped(f) == task_functors_' = IF pipe < PipeCap THEN Append(task_functors_, f) ELSE task_functors_
Push(f) == task_functors_' = Append(task_functors_, f)

\* Submit up to the call of EventNotify.  The event loop reads the pipe without mutex_.
SubmitPush(s, f) ==
    /\ mutex_ = None
    /\ Len(submitted) < MaxSubmits
    /\ mutex_' = s
    /\ Push(f)
    /\ submitted' = Append(submitted, f)
    /\ UNCHANGED <<pipe, io, functors, executed>>

\* A send() that finds the socket full fails, and EventNotify ignores it.
Send == pipe' = IF pipe < PipeCap THEN pipe + 1 ELSE pipe

\* EventNotify, and the unlock at the end of Submit.
SubmitNotify(s) == /\ mutex_ = s
                   /\ Send
                   /\ mutex_' = None
                   /\ UNCHANGED <<task_functors_, io, functors, submitted, executed>>

-----------------------------------------------------------------------------
(* The thread of the event loop. *)

Received == IF pipe < RecvMax THEN pipe ELSE RecvMax

\* The read event fires as long as the pipe is not empty; recv() takes what fits.
EventHandler == /\ io = "dispatch"
                /\ pipe > 0
                /\ pipe' = pipe - Received
                /\ io' = "handle"
                /\ UNCHANGED <<mutex_, task_functors_, functors, submitted, executed>>

SwapOut_OnePerWakeup ==
    IF task_functors_ = <<>> THEN UNCHANGED <<functors, task_functors_>>
    ELSE functors' = <<Head(task_functors_)>> /\ task_functors_' = Tail(task_functors_)
SwapOut_Copy == functors' = task_functors_ /\ UNCHANGED task_functors_
SwapOut == functors' = task_functors_ /\ task_functors_' = <<>>

\* ExecuteTask up to the end of the locked block.
Swap == /\ io = "handle"
        /\ mutex_ = None
        /\ SwapOut
        /\ io' = "execute"
        /\ UNCHANGED <<mutex_, pipe, submitted, executed>>

\* functors[i]()
Execute == /\ io = "execute"
           /\ functors # <<>>
           /\ functors' = Tail(functors)
           /\ executed' = executed + 1
           /\ UNCHANGED <<mutex_, task_functors_, pipe, io, submitted>>

LoopOver_Early == io = "execute"
LoopOver == io = "execute" /\ functors = <<>>

\* The loop is over: back to event_base_dispatch.
Return == /\ LoopOver
          /\ io' = "dispatch"
          /\ UNCHANGED <<mutex_, task_functors_, pipe, functors, submitted, executed>>

-----------------------------------------------------------------------------
IoStep == EventHandler \/ Swap \/ Execute \/ Return

\* Nothing left to submit, nothing to read: the event loop waits.
Quiescent == /\ io = "dispatch"
             /\ pipe = 0
             /\ mutex_ = None
             /\ Len(submitted) = MaxSubmits
             /\ UNCHANGED vars

Next == \/ Start
        \/ \E s \in Submitters : SubmitNotify(s) \/ \E f \in Functors : SubmitPush(s, f)
        \/ IoStep
        \/ Quiescent

\* The event loop runs, and a submitter inside Submit leaves it.
Fairness == WF_vars(IoStep) /\ \A s \in Submitters : WF_vars(SubmitNotify(s))

SafeSpec == Init /\ [][Next]_vars
Spec == SafeSpec /\ Fairness

-----------------------------------------------------------------------------
(* Properties. *)

\* The type of every variable; no functor is executed beyond those submitted.
TypeOK == /\ mutex_ \in Submitters \cup {None}
          /\ task_functors_ \in Seq(Functors)
          /\ pipe \in 0..PipeCap
          /\ io \in {"off", "dispatch", "handle", "execute"}
          /\ functors \in Seq(Functors)
          /\ submitted \in Seq(Functors)
          /\ executed \in 0..Len(submitted)

\* No lost notification: a functor waits in task_functors_ only as long as there
\* is a byte to read, the event loop is on its way to swap, or its submitter has
\* yet to write.  Bytes and functors are not counted against each other: one
\* recv() may take many bytes, one byte may stand for many functors, and a byte
\* is not written at all when the socket is full.
NoLostNotify == task_functors_ # <<>> => pipe > 0 \/ io = "handle" \/ mutex_ # None

\* Every functor is in exactly one place, and they run in the order they were
\* submitted: what is not executed yet is what ExecuteTask holds, then what waits.
InOrderOnce == /\ executed + Len(functors) + Len(task_functors_) = Len(submitted)
               /\ \A i \in 1..Len(functors) : functors[i] = submitted[executed + i]
               /\ \A i \in 1..Len(task_functors_) :
                      task_functors_[i] = submitted[executed + Len(functors) + i]

\* The thread and its pipe implement Mailbox: nothing is executed before Start,
\* and each step delivers at most the next functor.
Mail == INSTANCE Mailbox WITH posted <- submitted, delivered <- executed, started <- (io # "off")
\* Mailbox with its promise of progress: once the event loop runs, every functor
\* that is submitted is executed, however the bytes in the pipe are merged, and
\* although Submit writes to the pipe while it holds the mutex_ that the event loop
\* must lock before it reads the pipe again.
ImplementsMailbox == Mail!Spec
=============================================================================
