------------------------------ MODULE ServiceCall ------------------------------
(***************************************************************************)
(* What Client promises: a call to a service returns, with what came back  *)
(* from one instance that the list named when the call began, or with the  *)
(* caller's ResBody as it was if the list named none.  Client implements   *)
(* it.                                                                     *)
(***************************************************************************)
CONSTANTS Callers, Names, Hosts, Outcomes,
          Given, \* what a ResBody holds before the call
          None

VARIABLES list,     \* list[n]: the instances of service n
          service,  \* service[c]: the service that c calls, or None
          listed,   \* listed[c]: its instances when the call began
          res_body  \* res_body[c]: the ResBody of c's last call

vars == <<list, service, listed, res_body>>

Init == /\ list = [n \in Names |-> {}]
        /\ service = [c \in Callers |-> None]
        /\ listed = [c \in Callers |-> {}]
        /\ res_body = [c \in Callers |-> Given]

Publish == /\ list' \in [Names -> SUBSET Hosts]
           /\ UNCHANGED <<service, listed, res_body>>

Ask(c, n) == /\ service[c] = None
             /\ service' = [service EXCEPT ![c] = n]
             /\ listed' = [listed EXCEPT ![c] = list[n]]
             /\ res_body' = [res_body EXCEPT ![c] = Given]
             /\ UNCHANGED list

\* A method that Client does not have.
Refuse(c) == /\ service[c] = None
             /\ res_body' = [res_body EXCEPT ![c] = Given]
             /\ UNCHANGED <<list, service, listed>>

Results(c) == IF listed[c] = {} THEN {Given} ELSE [host : listed[c], outcome : Outcomes]

Return(c) == /\ service[c] # None
             /\ \E r \in Results(c) : res_body' = [res_body EXCEPT ![c] = r]
             /\ service' = [service EXCEPT ![c] = None]
             /\ listed' = [listed EXCEPT ![c] = {}]
             /\ UNCHANGED list

Next == Publish \/ \E c \in Callers : Refuse(c) \/ Return(c) \/ \E n \in Names : Ask(c, n)

SafeSpec == Init /\ [][Next]_vars
Spec == SafeSpec /\ \A c \in Callers : WF_vars(Return(c))
=============================================================================
