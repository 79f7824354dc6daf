---------------------------- MODULE UpdatingThread ----------------------------
(***************************************************************************)
(* A thread that works in rounds until it is told to stop, as ConfigLoader *)
(* and Interact have one each.  The thread sets its own flag when it       *)
(* begins; Stop clears the flag and joins.  What is promised: whoever      *)
(* stops a thread that has begun gets it joined.  ConfigLoader and         *)
(* Discovery implement it, HttpServer is composed with it.                 *)
(***************************************************************************)

VARIABLES place, \* "off", "created", "running", "exit"
          on,    \* flag_of_updating_is_on_
          stop   \* the caller of Stop: "idle", "join", "done"

vars == <<place, on, stop>>

Init == /\ place = "off"
        /\ on \in BOOLEAN
        /\ stop = "idle"

\* The thread is created.
Run == /\ place = "off"
       /\ place' = "created"
       /\ UNCHANGED <<on, stop>>

Begin == /\ place = "created"
         /\ place' = "running"
         /\ on' = TRUE
         /\ UNCHANGED stop

\* The thread finds its flag cleared at the end of a round.
Leave == /\ place = "running"
         /\ ~on
         /\ place' = "exit"
         /\ UNCHANGED <<on, stop>>

\* Clears the flag, and waits if there is a thread.
Stop == /\ stop = "idle"
        /\ on' = FALSE
        /\ stop' = IF place = "off" THEN "done" ELSE "join"
        /\ UNCHANGED place

Joined == /\ stop = "join"
          /\ place = "exit"
          /\ stop' = "done"
          /\ UNCHANGED <<place, on>>

Next == Run \/ Begin \/ Leave \/ Stop \/ Joined

Fairness == WF_vars(Begin) /\ WF_vars(Leave) /\ WF_vars(Joined)

SafeSpec == Init /\ [][Next]_vars
Spec == SafeSpec /\ Fairness
=============================================================================
