-------------------------------- MODULE Mailbox --------------------------------
(***************************************************************************)
(* What the thread of the event loop promises those who send it work:      *)
(* functors are delivered one at a time, in the order they were posted,    *)
(* each once, by the one thread that was started.  IoThread implements it. *)
(***************************************************************************)
EXTENDS Naturals, Sequences

CONSTANT Functors \* what may be posted

VARIABLES posted,    \* the functors posted so far, in order
          delivered, \* how many of them have been executed
          started    \* the delivering thread runs

vars == <<posted, delivered, started>>

Init == /\ posted = <<>>
        /\ delivered = 0
        /\ started = FALSE

Post(f) == /\ posted' = Append(posted, f)
           /\ UNCHANGED <<delivered, started>>

Start == /\ started' = TRUE
         /\ UNCHANGED <<posted, delivered>>

Deliver == /\ started
           /\ delivered < Len(posted)
           /\ delivered' = delivered + 1
           /\ UNCHANGED <<posted, started>>

Next == (\E f \in Functors : Post(f)) \/ Start \/ Deliver

SafeSpec == Init /\ [][Next]_vars
\* What was posted is delivered once the thread runs.
Spec == SafeSpec /\ WF_vars(Deliver)
=============================================================================
