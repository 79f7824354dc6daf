----------------------------- MODULE ClientProofs -----------------------------
(***************************************************************************)
(* Proofs about Client.  A step of Client is a step of Discovery or leaves *)
(* it alone, so what DiscoveryProofs shows of the maps holds beside any    *)
(* callers.  A lookup therefore still finds what was listed when its call  *)
(* began, and what an exchange ends with is from there.                    *)
(***************************************************************************)
EXTENDS Client, DiscoveryProofs

\* A call in its lookup sees what was listed when it began, and one in its exchange
\* has drawn one of those instances; the ResBody is untouched so far.
CallsAreHeard ==
    \A c \in Callers :
        /\ num[c] # None => service[c] # None /\ server_vec_[num[c]][name[c]] = listed[c]
        /\ num[c] = None /\ service[c] # None => instance[c] \in listed[c]
        /\ service[c] # None => res_body[c] = Given

ClientInv == IInv /\ ClientTypeOK /\ CallsAreHeard

LEMMA InitClient == ClientInit => ClientInv
<1> SUFFICES ASSUME ClientInit PROVE ClientInv
  OBVIOUS
<1>1. IInv
  BY InitIInv DEF ClientInit
<1>2. TypeOK
  BY <1>1 DEF IInv
<1> QED
  BY <1>1, <1>2, ClientAssumption DEF ClientInit, ClientInv, ClientTypeOK, CallsAreHeard, Init

\* Client does to the lists only what Discovery does.
LEMMA ClientStepIsStep == [ClientNext]_allVars => [Next]_vars
<1> SUFFICES ASSUME [ClientNext]_allVars PROVE [Next]_vars
  OBVIOUS
<1>1. Callers \subseteq Readers /\ Others \subseteq Readers
  BY ClientAssumption DEF Others
<1>2. ASSUME NEW c \in Callers, NEW type, NEW n \in Names, Request(c, type, n) PROVE Next
  BY <1>1, <1>2 DEF Request, Next
<1>3. ASSUME NEW c \in Callers, GenParams(c) PROVE Next
  BY <1>1, <1>3 DEF GenParams, Next
<1>4. ASSUME NEW c \in Callers, NEW type, RequestUnknown(c, type) \/ Exchange(c) PROVE UNCHANGED vars
  BY <1>4 DEF RequestUnknown, Exchange
<1> QED
  BY <1>1, <1>2, <1>3, <1>4 DEF ClientNext, Next, allVars

\* A map that is being read does not change.
LEMMA MapsHold ==
    ASSUME IInv, [Next]_vars, NEW r \in Readers, num[r] # None
    PROVE  server_vec_'[num[r]] = server_vec_[num[r]]
<1>0. /\ TypeOK /\ ReadersAreEarly /\ Spare \in 0..1 /\ num[r] \in 0..1
      /\ server_vec_ \in [0..1 -> [Names -> SUBSET Hosts]]
  BY TwoMaps DEF IInv, TypeOK
<1>1. ASSUME upc \in {"fetch", "fill"}, NEW map, server_vec_' = [server_vec_ EXCEPT ![Spare] = map]
      PROVE  server_vec_'[num[r]] = server_vec_[num[r]]
  <2>1. num[r] # Spare
    BY <1>0, <1>1 DEF ReadersAreEarly
  <2> QED
    BY <1>0, <1>1, <2>1
<1>2. CASE Fetch
  BY <1>1, <1>2 DEF Fetch
<1>3. CASE Insert
  BY <1>1, <1>3 DEF Insert
<1>4. CASE server_vec_' = server_vec_
  BY <1>4
<1>5. \/ Fetch \/ Insert
      \/ Run \/ Stop \/ Joined \/ Enter \/ Test \/ KeepActive \/ Nap \/ FetchFails \/ ParseFails \/ Publish
      \/ Tick \/ UNCHANGED vars
      \/ \E q \in Readers : AcqInstanceReturns(q) \/ \E n \in Names : AcqInstance(q, n)
  BY DEF Next, ThreadStep, OwnStep, RequestEnds
<1>6. CASE Run \/ Stop \/ Joined \/ Enter \/ Test \/ KeepActive \/ Nap \/ FetchFails \/ ParseFails \/ Publish
  BY <1>4, <1>6 DEF Run, Stop, Joined, Enter, Test, KeepActive, Nap, FetchFails, ParseFails, Publish
<1>7. CASE Tick \/ UNCHANGED vars
  BY <1>4, <1>7 DEF Tick, vars
<1>8. ASSUME NEW q \in Readers, AcqInstanceReturns(q) \/ \E n \in Names : AcqInstance(q, n)
      PROVE  server_vec_' = server_vec_
  BY <1>8 DEF AcqInstanceReturns, AcqInstance
<1> QED
  BY <1>2, <1>3, <1>4, <1>5, <1>6, <1>7, <1>8

LEMMA StepClient == ClientInv /\ [ClientNext]_allVars => ClientInv' /\ [Call!Next]_(Call!vars)
<1> SUFFICES ASSUME ClientInv, [ClientNext]_allVars PROVE ClientInv' /\ [Call!Next]_(Call!vars)
  OBVIOUS
<1>0. /\ IInv /\ TypeOK /\ CallsAreHeard /\ ReadersAreEarly
      /\ service \in [Callers -> Names \cup {None}]
      /\ listed \in [Callers -> SUBSET Hosts]
      /\ res_body \in [Callers -> {Given} \cup [host : Hosts, outcome : Outcomes]]
      /\ None \notin Hosts /\ None \notin Names /\ None \notin 0..1
  BY AnswersAssumption DEF ClientInv, ClientTypeOK, IInv
<1>1. [Next]_vars
  BY ClientStepIsStep
<1>2. IInv' /\ TypeOK'
  BY <1>0, <1>1, StepIInv DEF IInv
<1>3. \A c \in Callers : /\ c \in Readers /\ num[c] \in 0..1 \cup {None}
                         /\ num[c] # None => name[c] \in Names
                         /\ num[c] # None => server_vec_'[num[c]] = server_vec_[num[c]]
  BY <1>0, <1>1, MapsHold, ClientAssumption DEF TypeOK, ReadersAreEarly
<1>4. Current \in 0..1 /\ Current' \in 0..1 /\ server_vec_'[Current'] \in [Names -> SUBSET Hosts]
      /\ server_vec_[Current] \in [Names -> SUBSET Hosts]
  <2>a. flag_num_ \in Nat /\ flag_num_' \in Nat
    BY <1>0, <1>2, AnswersAssumption DEF TypeOK
  <2>b. \A k \in Nat : k % MAXNUM \in 0..1
    BY DEF MAXNUM
  <2>c. MAXNUM' = MAXNUM
    BY DEF MAXNUM
  <2>1. Current \in 0..1 /\ Current' \in 0..1
    BY <2>a, <2>b, <2>c DEF Current
  <2> QED
    BY <1>0, <1>2, <2>1 DEF TypeOK
\* Steps in which no caller takes part may change the list, and nothing else that
\* ServiceCall shows.
<1>k. ASSUME UNCHANGED <<service, listed, res_body>>,
             \A c \in Callers : num'[c] = num[c] /\ name'[c] = name[c] /\ instance'[c] = instance[c]
      PROVE  ClientInv' /\ [Call!Next]_(Call!vars)
  <2>1. ClientTypeOK'
    BY <1>0, <1>2, <1>k DEF ClientTypeOK
  <2>2. CallsAreHeard'
    BY <1>0, <1>3, <1>k DEF CallsAreHeard
  <2>3. Call!Publish
    BY <1>4, <1>k DEF Call!Publish
  <2> QED
    BY <1>2, <2>1, <2>2, <2>3 DEF ClientInv, Call!Next
<1>5. ASSUME NEW c \in Callers, NEW type, NEW n \in Names, Request(c, type, n)
      PROVE  ClientInv' /\ [Call!Next]_(Call!vars)
  <2>1. /\ service[c] = None /\ num[c] = None
        /\ num' = [num EXCEPT ![c] = Current] /\ name' = [name EXCEPT ![c] = n]
        /\ UNCHANGED <<server_vec_, flag_num_, instance>>
        /\ service' = [service EXCEPT ![c] = n]
        /\ listed' = [listed EXCEPT ![c] = server_vec_[Current][n]]
        /\ res_body' = [res_body EXCEPT ![c] = Given]
    BY <1>5 DEF Request, AcqInstance
  <2>2. ClientTypeOK'
    BY <1>0, <1>2, <1>4, <2>1 DEF ClientTypeOK
  <2>3. CallsAreHeard'
    <3>1. num \in [Readers -> 0..1 \cup {None}] /\ name \in [Readers -> Names \cup {None}] /\ c \in Readers
      BY <1>0, <1>3 DEF TypeOK
    <3> SUFFICES ASSUME NEW d \in Callers
                 PROVE  /\ num'[d] # None => service'[d] # None /\ server_vec_'[num'[d]][name'[d]] = listed'[d]
                        /\ num'[d] = None /\ service'[d] # None => instance'[d] \in listed'[d]
                        /\ service'[d] # None => res_body'[d] = Given
      BY DEF CallsAreHeard
    <3>2. CASE d = c
      BY <1>0, <1>4, <2>1, <3>1, <3>2
    <3>3. CASE d # c
      BY <1>0, <1>3, <2>1, <3>1, <3>3 DEF CallsAreHeard
    <3> QED
      BY <3>2, <3>3
  <2>4. Call!Ask(c, n)
    BY <2>1 DEF Call!Ask, Current
  <2> QED
    BY <1>2, <2>2, <2>3, <2>4 DEF ClientInv, Call!Next
<1>6. ASSUME NEW c \in Callers, NEW type, RequestUnknown(c, type)
      PROVE  ClientInv' /\ [Call!Next]_(Call!vars)
  <2>1. /\ service[c] = None /\ res_body' = [res_body EXCEPT ![c] = Given]
        /\ UNCHANGED <<server_vec_, flag_num_, num, name, instance, service, listed>>
    BY <1>6 DEF RequestUnknown, vars, readVars
  <2>2. ClientTypeOK'
    BY <1>0, <1>2, <2>1 DEF ClientTypeOK
  <2>3. CallsAreHeard'
    BY <1>0, <2>1 DEF CallsAreHeard
  <2>4. Call!Refuse(c)
    BY <2>1 DEF Call!Refuse, Current
  <2> QED
    BY <1>2, <2>2, <2>3, <2>4 DEF ClientInv, Call!Next
<1>7. ASSUME NEW c \in Callers, GenParams(c)
      PROVE  ClientInv' /\ [Call!Next]_(Call!vars)
  <2>1. /\ service[c] # None /\ num[c] # None
        /\ num' = [num EXCEPT ![c] = None] /\ name' = [name EXCEPT ![c] = None]
        /\ UNCHANGED <<server_vec_, flag_num_, res_body>>
    BY <1>7 DEF GenParams, AcqInstanceReturns
  <2>2. listed[c] = server_vec_[num[c]][name[c]]
    BY <1>0, <2>1 DEF CallsAreHeard
  <2>3. PICK h \in (IF listed[c] = {} THEN {None} ELSE listed[c]) : instance' = [instance EXCEPT ![c] = h]
    BY <1>7, <2>2 DEF GenParams, AcqInstanceReturns
  <2>4. /\ num \in [Readers -> 0..1 \cup {None}] /\ name \in [Readers -> Names \cup {None}]
        /\ instance \in [Readers -> Hosts \cup {None}] /\ c \in Readers
    BY <1>0, <1>3 DEF TypeOK
  <2>5. \A d \in Callers \ {c} : num'[d] = num[d] /\ name'[d] = name[d] /\ instance'[d] = instance[d]
    BY <1>3, <2>1, <2>3, <2>4
  <2>6. num'[c] = None /\ instance'[c] = h
    BY <2>1, <2>3, <2>4
  <2>7. CASE listed[c] = {}
    <3>1. service' = [service EXCEPT ![c] = None] /\ listed' = [listed EXCEPT ![c] = {}]
      BY <1>7, <2>3, <2>6, <2>7 DEF GenParams, Ends
    <3>2. ClientTypeOK'
      BY <1>0, <1>2, <2>1, <3>1 DEF ClientTypeOK
    <3>3. CallsAreHeard'
      BY <1>0, <1>3, <2>1, <2>5, <2>6, <3>1 DEF CallsAreHeard
    <3>4. Call!Return(c)
      <4>1. res_body' = [res_body EXCEPT ![c] = Given]
        BY <1>0, <2>1 DEF CallsAreHeard
      <4> QED
        BY <2>1, <2>7, <3>1, <4>1 DEF Call!Return, Call!Results, Current
    <3> QED
      BY <1>2, <3>2, <3>3, <3>4 DEF ClientInv, Call!Next
  <2>8. CASE listed[c] # {}
    <3>1. h \in listed[c] /\ h # None
      BY <1>0, <2>3, <2>8
    <3>2. UNCHANGED <<service, listed>>
      BY <1>7, <2>6, <3>1 DEF GenParams
    <3>3. ClientTypeOK'
      BY <1>0, <1>2, <2>1, <3>2 DEF ClientTypeOK
    <3>4. CallsAreHeard'
      BY <1>0, <1>3, <2>1, <2>5, <2>6, <3>1, <3>2 DEF CallsAreHeard
    <3> QED
      BY <1>2, <2>1, <3>2, <3>3, <3>4 DEF ClientInv, Call!vars, Current
  <2> QED
    BY <2>7, <2>8
<1>8. ASSUME NEW c \in Callers, Exchange(c)
      PROVE  ClientInv' /\ [Call!Next]_(Call!vars)
  <2>1. PICK outcome \in Outcomes :
            res_body' = [res_body EXCEPT ![c] = [host |-> instance[c], outcome |-> outcome]]
    BY <1>8 DEF Exchange, FormatRet
  <2>2. /\ service[c] # None /\ num[c] = None
        /\ service' = [service EXCEPT ![c] = None] /\ listed' = [listed EXCEPT ![c] = {}]
        /\ UNCHANGED <<server_vec_, flag_num_, num, name, instance>>
    BY <1>8 DEF Exchange, Ends, vars, readVars
  <2>3. instance[c] \in listed[c] /\ listed[c] \subseteq Hosts
    BY <1>0, <2>2 DEF CallsAreHeard
  <2>4. ClientTypeOK'
    BY <1>0, <1>2, <2>1, <2>2, <2>3 DEF ClientTypeOK
  <2>5. CallsAreHeard'
    BY <1>0, <2>1, <2>2 DEF CallsAreHeard
  <2>6. Call!Return(c)
    BY <2>1, <2>2, <2>3 DEF Call!Return, Call!Results, Current
  <2> QED
    BY <1>2, <2>4, <2>5, <2>6 DEF ClientInv, Call!Next
<1>9. ASSUME NEW r \in Others, AcqInstanceReturns(r) \/ \E n \in Names : AcqInstance(r, n),
             UNCHANGED clientVars
      PROVE  ClientInv' /\ [Call!Next]_(Call!vars)
  <2>1. r \notin Callers
    BY DEF Others
  <2>2. \A c \in Callers : num'[c] = num[c] /\ name'[c] = name[c] /\ instance'[c] = instance[c]
    BY <1>0, <1>3, <1>9, <2>1 DEF AcqInstanceReturns, AcqInstance, TypeOK
  <2> QED
    BY <1>k, <1>9, <2>2 DEF clientVars
<1>10. CASE (Run \/ Stop \/ Joined \/ ThreadStep \/ Tick) /\ UNCHANGED clientVars
  <2>1. UNCHANGED <<num, name, instance>>
    BY <1>10 DEF Run, Stop, Joined, ThreadStep, OwnStep, RequestEnds, Enter, Test, KeepActive, Nap, FetchFails, Fetch, ParseFails,
                 Insert, Publish, Tick, readVars
  <2> QED
    BY <1>k, <1>10, <2>1 DEF clientVars
<1>11. CASE UNCHANGED allVars
  BY <1>k, <1>11 DEF allVars, vars, readVars, clientVars
<1> QED
  BY <1>5, <1>6, <1>7, <1>8, <1>9, <1>10, <1>11 DEF ClientNext

\* Type correctness, for any number of callers and other users of the lists.
THEOREM ClientTypeCorrect == SafeClientSpec => []ClientTypeOK
<1>1. ClientInv => ClientTypeOK
  BY DEF ClientInv
<1> QED
  BY <1>1, InitClient, StepClient, PTL DEF SafeClientSpec

\* In its safety part Client keeps the promise of ServiceCall: what a call leaves in
\* the ResBody is from one instance listed when it began, or there was none.
THEOREM CallRefinement == SafeClientSpec => Call!SafeSpec
<1>1. ClientInit => Call!Init
  BY TwoMaps DEF ClientInit, Init, Call!Init, Empty, Current, MAXNUM
<1> QED
  BY <1>1, InitClient, StepClient, PTL DEF SafeClientSpec, Call!SafeSpec

\* What is proved of Discovery holds beside any callers.
THEOREM ClientsAreReaders == SafeClientSpec => SafeSpec
<1>1. ClientInit => Init
  BY DEF ClientInit
<1> QED
  BY <1>1, ClientStepIsStep, PTL DEF SafeClientSpec, SafeSpec
=============================================================================
