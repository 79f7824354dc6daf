-------------------------------- MODULE Client --------------------------------
(***************************************************************************)
(* kbms::Client beside the service lists of Discovery: Request looks a     *)
(* service up in the lists that Interact keeps, sends one request to the   *)
(* instance it drew, with a HttpCurl and a Response of its own, and copies *)
(* what came back into the caller's ResBody.  It has no other result: what *)
(* becomes of a call that fails is seen in the ResBody alone.              *)
(*                                                                         *)
(* A ResBody is Given, what the caller handed in, be it an earlier         *)
(* answer, or the host of the url and what the exchange ended with.        *)
(***************************************************************************)
EXTENDS Discovery

CONSTANTS Callers, \* the readers that are threads in Client::Request
          Given

map_func == {"Post", "Get"}
\* Exchange says what HttpCurl makes of a call: a whole answer or an error code.
Outcomes == {"answer", "error"}

ASSUME ClientAssumption == /\ Callers \subseteq Readers
                           /\ Given \notin [host : Hosts, outcome : Outcomes]

VARIABLES service,  \* service[c]: service_name of the call that c is in, or None
          listed,   \* history: the instances of it that were listed when the call began
          res_body  \* res_body[c]: the ResBody of c's last call

clientVars == <<service, listed, res_body>>
allVars == <<vars, clientVars>>

ClientInit == /\ Init
              /\ service = [c \in Callers |-> None]
              /\ listed = [c \in Callers |-> {}]
              /\ res_body = [c \in Callers |-> Given]

\* Request finds the method, and GenParams comes to AcqInstance.
Request(c, type, n) == /\ service[c] = None
                       /\ type \in map_func
                       /\ AcqInstance(c, n)
                       /\ service' = [service EXCEPT ![c] = n]
                       /\ listed' = [listed EXCEPT ![c] = server_vec_[Current][n]]
                       /\ res_body' = [res_body EXCEPT ![c] = Given]

\* It does not: the call only logs.
RequestUnknown(c, type) == /\ service[c] = None
                           /\ type \notin map_func
                           /\ res_body' = [res_body EXCEPT ![c] = Given]
                           /\ UNCHANGED <<vars, service, listed>>

Ends(c) == /\ service' = [service EXCEPT ![c] = None]
           /\ listed' = [listed EXCEPT ![c] = {}]

\* PostRequest and GetRequest up to the HttpCurl: without an instance they return.
GenParams(c) == /\ service[c] # None
                /\ AcqInstanceReturns(c)
                /\ IF instance'[c] = None THEN Ends(c) ELSE UNCHANGED <<service, listed>>
                /\ UNCHANGED res_body

FormatRet_FirstAnswer(c, outcome) ==
    res_body' = [res_body EXCEPT ![c] = IF outcome = "answer" THEN [host |-> instance[c], outcome |-> outcome] ELSE @]
FormatRet(c, outcome) == res_body' = [res_body EXCEPT ![c] = [host |-> instance[c], outcome |-> outcome]]

\* Post or Get has returned, whatever it returned.
Exchange(c) == /\ service[c] # None
               /\ num[c] = None
               /\ \E outcome \in Outcomes : FormatRet(c, outcome)
               /\ Ends(c)
               /\ UNCHANGED vars

Others == Readers \ Callers

\* Discovery with other users of AcqInstance, and the callers.
ClientNext == \/ /\ \/ Run \/ Stop \/ Joined \/ ThreadStep \/ Tick
                    \/ \E r \in Others : AcqInstanceReturns(r) \/ \E n \in Names : AcqInstance(r, n)
                 /\ UNCHANGED clientVars
              \/ \E c \in Callers, type \in {"Post", "Get", "Put"} :
                     RequestUnknown(c, type) \/ \E n \in Names : Request(c, type, n)
              \/ \E c \in Callers : GenParams(c) \/ Exchange(c)

\* As in Discovery.  A call ends: the caller gave it a timeout, or the instance answers.
ClientFairness ==
    /\ WF_allVars(OwnStep /\ UNCHANGED clientVars)
    /\ WF_allVars(Joined /\ UNCHANGED clientVars)
    /\ WF_allVars(Tick /\ UNCHANGED clientVars)
    /\ \A r \in Others : WF_allVars(AcqInstanceReturns(r) /\ UNCHANGED clientVars)
    /\ \A c \in Callers : WF_allVars(GenParams(c)) /\ WF_allVars(Exchange(c))

SafeClientSpec == ClientInit /\ [][ClientNext]_allVars
ClientSpec == SafeClientSpec /\ ClientFairness

-----------------------------------------------------------------------------
(* Properties. *)

\* The type of every variable, those of Discovery included.
ClientTypeOK == /\ TypeOK
                /\ service \in [Callers -> Names \cup {None}]
                /\ listed \in [Callers -> SUBSET Hosts]
                /\ res_body \in [Callers -> {Given} \cup [host : Hosts, outcome : Outcomes]]

\* Lists that change under a call, a lookup beside the thread that fills them, and
\* an exchange that fails leave what ServiceCall promises: the ResBody is wholly of
\* this call, from one instance listed when it began, and only an empty list leaves
\* the caller's old ResBody in place.
Call == INSTANCE ServiceCall WITH list <- server_vec_[Current]
ImplementsServiceCall == Call!Spec
=============================================================================
