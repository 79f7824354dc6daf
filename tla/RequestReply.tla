----------------------------- MODULE RequestReply -----------------------------
(***************************************************************************)
(* What the HTTP service promises its clients: a request is replied to at  *)
(* most once and only after it arrived, and every answerable request is    *)
(* replied to unless the process dies.  What is answerable is settled      *)
(* before the first request arrives.  Service implements it.               *)
(***************************************************************************)
EXTENDS Naturals

CONSTANT Requests

VARIABLES answerable, \* the requests whose every handler answers
          arrived, \* the requests the server has read
          replies, \* replies[r]: how many replies were sent to r
          down     \* the process is gone

vars == <<answerable, arrived, replies, down>>

Init == /\ answerable \in SUBSET Requests
        /\ arrived = {}
        /\ replies = [r \in Requests |-> 0]
        /\ down = FALSE

Offer == /\ arrived = {}
         /\ answerable' \in SUBSET Requests
         /\ UNCHANGED <<arrived, replies, down>>

Arrive(r) == /\ ~down
             /\ r \notin arrived
             /\ arrived' = arrived \cup {r}
             /\ UNCHANGED <<answerable, replies, down>>

Reply(r) == /\ ~down
            /\ r \in arrived
            /\ replies[r] = 0
            /\ replies' = [replies EXCEPT ![r] = 1]
            /\ UNCHANGED <<answerable, arrived, down>>

Die == /\ down' = TRUE
       /\ UNCHANGED <<answerable, arrived, replies>>

Next == Offer \/ (\E r \in Requests : Arrive(r) \/ Reply(r)) \/ Die

SafeSpec == Init /\ [][Next]_vars
Spec == SafeSpec /\ \A r \in Requests : WF_vars(r \in answerable /\ Reply(r))
=============================================================================
