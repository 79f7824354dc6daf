------------------------------- MODULE TaskPool -------------------------------
(***************************************************************************)
(* What a pool of workers promises its callers, without threads, locks or  *)
(* condition variables: tasks begin in the order they were submitted, each *)
(* of them at most once, each slot works on one task at a time, and no     *)
(* task begins once the pool is closed.  ThreadPool implements this.       *)
(***************************************************************************)
EXTENDS Naturals, Sequences

CONSTANTS Tasks,   \* the tasks that may be submitted
          Slots,   \* one per worker
          Hanging, \* tasks whose handler may never return
          None     \* a slot without a task

VARIABLES submitted, \* the tasks submitted so far, in order
          begun,     \* how many of them have begun
          slot,      \* slot[s]: the task slot s works on
          closed     \* no task begins any more

vars == <<submitted, begun, slot, closed>>

TypeOK == /\ submitted \in Seq(Tasks)
          /\ begun \in 0..Len(submitted)
          /\ slot \in [Slots -> Tasks \cup {None}]
          /\ closed \in BOOLEAN

Init == /\ submitted = <<>>
        /\ begun = 0
        /\ slot = [s \in Slots |-> None]
        /\ closed = FALSE

Submit(t) == /\ \A i \in 1..Len(submitted) : submitted[i] # t
             /\ submitted' = Append(submitted, t)
             /\ UNCHANGED <<begun, slot, closed>>

Begin(s) == /\ ~closed
            /\ slot[s] = None
            /\ begun < Len(submitted)
            /\ begun' = begun + 1
            /\ slot' = [slot EXCEPT ![s] = submitted[begun + 1]]
            /\ UNCHANGED <<submitted, closed>>

End(s) == /\ slot[s] # None
          /\ slot' = [slot EXCEPT ![s] = None]
          /\ UNCHANGED <<submitted, begun, closed>>

Close == /\ closed' = TRUE
         /\ UNCHANGED <<submitted, begun, slot>>

Next == \/ \E t \in Tasks : Submit(t)
        \/ \E s \in Slots : Begin(s) \/ End(s)
        \/ Close

SafeSpec == Init /\ [][Next]_vars

\* A task that waits while a slot is free begins, and a handler that returns frees its slot.
Fairness == /\ WF_vars(\E s \in Slots : Begin(s))
            /\ \A s \in Slots : WF_vars(slot[s] \notin Hanging /\ ~closed /\ End(s))

Spec == SafeSpec /\ Fairness
=============================================================================
