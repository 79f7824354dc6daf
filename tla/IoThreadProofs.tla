---------------------------- MODULE IoThreadProofs ----------------------------
(***************************************************************************)
(* Proofs about IoThread for any submitters, functors, socket capacity and *)
(* receive buffer.  IInv strengthens NoLostNotify and InOrderOnce with the *)
(* type invariant and with one fact about ExecuteTask: its local vector is *)
(* empty whenever it is about to be swapped.                               *)
(***************************************************************************)
EXTENDS IoThread, TLAPS

NothingHeldOutsideLoop == io # "execute" => functors = <<>>

IInv == TypeOK /\ NothingHeldOutsideLoop /\ NoLostNotify /\ InOrderOnce

LEMMA InitIInv == Init => IInv
<1> SUFFICES ASSUME Init PROVE IInv
  OBVIOUS
<1>1. TypeOK
  BY PipeAssumption DEF Init, TypeOK
<1>2. NothingHeldOutsideLoop /\ NoLostNotify /\ InOrderOnce
  BY DEF Init, NothingHeldOutsideLoop, NoLostNotify, InOrderOnce
<1> QED
  BY <1>1, <1>2 DEF IInv

\* Every step keeps IInv and is a step of Mailbox or one Mailbox does not see.
LEMMA StepIInv == IInv /\ [Next]_vars => IInv' /\ [Mail!Next]_(Mail!vars)
<1> SUFFICES ASSUME IInv, [Next]_vars PROVE IInv' /\ [Mail!Next]_(Mail!vars)
  OBVIOUS
<1>0. /\ TypeOK /\ NothingHeldOutsideLoop /\ NoLostNotify /\ InOrderOnce
      /\ task_functors_ \in Seq(Functors) /\ functors \in Seq(Functors) /\ submitted \in Seq(Functors)
      /\ Len(task_functors_) \in Nat /\ Len(functors) \in Nat /\ Len(submitted) \in Nat
      /\ executed \in Nat /\ pipe \in 0..PipeCap /\ PipeCap \in Nat \ {0} /\ RecvMax \in Nat \ {0}
      /\ None \notin Submitters
  BY PipeAssumption, NoneAssumption DEF IInv, TypeOK
<1>b. executed + Len(functors) + Len(task_functors_) = Len(submitted)
  BY <1>0 DEF InOrderOnce
<1>1. CASE Start
  <2>1. NoLostNotify' /\ TypeOK' /\ NothingHeldOutsideLoop' /\ InOrderOnce'
    BY <1>0, <1>1 DEF Start, NoLostNotify, TypeOK, NothingHeldOutsideLoop, InOrderOnce
  <2>2. Mail!Start
    BY <1>1 DEF Start, Mail!Start
  <2> QED
    BY <2>1, <2>2 DEF IInv, Mail!Next
<1>2. ASSUME NEW s \in Submitters, NEW f \in Functors, SubmitPush(s, f)
      PROVE  IInv' /\ [Mail!Next]_(Mail!vars)
  <2>1. /\ task_functors_' = Append(task_functors_, f) /\ submitted' = Append(submitted, f)
        /\ mutex_' = s /\ UNCHANGED <<pipe, io, functors, executed>>
    BY <1>2 DEF SubmitPush, Push
  <2>2. /\ Len(task_functors_') = Len(task_functors_) + 1 /\ Len(submitted') = Len(submitted) + 1
        /\ task_functors_'[Len(task_functors_) + 1] = f /\ submitted'[Len(submitted) + 1] = f
        /\ \A i \in 1..Len(task_functors_) : task_functors_'[i] = task_functors_[i]
        /\ \A i \in 1..Len(submitted) : submitted'[i] = submitted[i]
    BY <1>0, <2>1
  <2>3. TypeOK' /\ NothingHeldOutsideLoop' /\ NoLostNotify'
    <3>1. executed' \in 0..Len(submitted')
      BY <1>0, <1>b, <2>1, <2>2
    <3> QED
      BY <1>0, <2>1, <3>1 DEF TypeOK, NothingHeldOutsideLoop, NoLostNotify
  <2>4. InOrderOnce'
    <3>1. executed + Len(functors) + Len(task_functors_) = Len(submitted)
      BY <1>0 DEF InOrderOnce
    <3>2. \A i \in 1..Len(functors) : functors'[i] = submitted'[executed' + i]
      BY <1>0, <2>1, <2>2, <3>1 DEF InOrderOnce
    <3>e. executed' + Len(functors') = executed + Len(functors)
      BY <2>1
    <3>3. \A i \in 1..Len(task_functors_') :
             task_functors_'[i] = submitted'[executed' + Len(functors') + i]
      <4>1. \A i \in 1..Len(task_functors_') : i \in 1..Len(task_functors_) \/ i = Len(task_functors_) + 1
        BY <1>0, <2>2
      <4>2. \A i \in 1..Len(task_functors_) : executed + Len(functors) + i \in 1..Len(submitted)
        BY <1>0, <3>1
      <4>3. executed + Len(functors) + (Len(task_functors_) + 1) = Len(submitted) + 1
        BY <1>0, <3>1
      <4>4. \A i \in 1..Len(task_functors_) :
               task_functors_'[i] = submitted'[executed + Len(functors) + i]
        BY <1>0, <2>2, <4>2 DEF InOrderOnce
      <4>5. task_functors_'[Len(task_functors_) + 1] =
               submitted'[executed + Len(functors) + (Len(task_functors_) + 1)]
        BY <2>2, <4>3
      <4> QED
        BY <3>e, <4>1, <4>4, <4>5
    <3>4. executed' + Len(functors') + Len(task_functors_') = Len(submitted')
      <4>1. Len(task_functors_') = Len(task_functors_) + 1 /\ Len(submitted') = Len(submitted) + 1
        BY <2>2
      <4>2. executed + Len(functors) + (Len(task_functors_) + 1) = Len(submitted) + 1
        BY <1>0, <3>1
      <4> QED
        BY <3>e, <4>1, <4>2
    <3> QED
      BY <2>1, <3>2, <3>3, <3>4 DEF InOrderOnce
  <2>5. Mail!Post(f)
    BY <2>1 DEF Mail!Post
  <2> QED
    BY <2>3, <2>4, <2>5 DEF IInv, Mail!Next
<1>3. ASSUME NEW s \in Submitters, SubmitNotify(s) PROVE IInv' /\ [Mail!Next]_(Mail!vars)
  <2>1. /\ pipe' \in 0..PipeCap /\ pipe' > 0 /\ mutex_' = None
        /\ UNCHANGED <<task_functors_, io, functors, submitted, executed>>
    BY <1>0, <1>3 DEF SubmitNotify, Send
  <2>2. IInv'
    BY <1>0, <2>1 DEF IInv, TypeOK, NothingHeldOutsideLoop, NoLostNotify, InOrderOnce
  <2> QED
    BY <2>1, <2>2 DEF Mail!vars
<1>4. CASE EventHandler
  <2>1. /\ pipe' \in 0..PipeCap /\ io' = "handle" /\ io = "dispatch"
        /\ UNCHANGED <<mutex_, task_functors_, functors, submitted, executed>>
    BY <1>0, <1>4 DEF EventHandler, Received
  <2>2. IInv'
    BY <1>0, <2>1 DEF IInv, TypeOK, NothingHeldOutsideLoop, NoLostNotify, InOrderOnce
  <2> QED
    BY <2>1, <2>2 DEF Mail!vars
<1>5. CASE Swap
  <2>1. /\ functors' = task_functors_ /\ task_functors_' = <<>> /\ io = "handle" /\ io' = "execute"
        /\ UNCHANGED <<mutex_, pipe, submitted, executed>>
    BY <1>5 DEF Swap, SwapOut
  <2>2. functors = <<>> /\ Len(functors) = 0
    BY <1>0, <2>1 DEF NothingHeldOutsideLoop
  <2>3. InOrderOnce'
    BY <1>0, <2>1, <2>2 DEF InOrderOnce
  <2>4. TypeOK' /\ NothingHeldOutsideLoop' /\ NoLostNotify'
    BY <1>0, <2>1 DEF TypeOK, NothingHeldOutsideLoop, NoLostNotify
  <2> QED
    BY <2>1, <2>3, <2>4 DEF IInv, Mail!vars
<1>6. CASE Execute
  <2>1. /\ functors # <<>> /\ functors' = Tail(functors) /\ executed' = executed + 1 /\ io = "execute"
        /\ UNCHANGED <<mutex_, task_functors_, pipe, io, submitted>>
    BY <1>6 DEF Execute
  <2>2. Len(functors) >= 1 /\ Len(Tail(functors)) = Len(functors) - 1 /\ Tail(functors) \in Seq(Functors)
    BY <1>0, <2>1
  <2>3. \A i \in 1..Len(Tail(functors)) : Tail(functors)[i] = functors[i + 1]
    BY <1>0, <2>1
  <2>4. InOrderOnce'
    <3>1. executed' + Len(functors') = executed + Len(functors)
      BY <1>0, <2>1, <2>2
    <3>2. \A i \in 1..Len(functors') : i + 1 \in 1..Len(functors) /\ executed' + i = executed + (i + 1)
      BY <1>0, <2>1, <2>2
    <3>3. \A i \in 1..Len(functors') : functors'[i] = submitted'[executed' + i]
      BY <1>0, <2>1, <2>3, <3>2 DEF InOrderOnce
    <3>4. \A i \in 1..Len(task_functors_') :
             task_functors_'[i] = submitted'[executed' + Len(functors') + i]
      BY <1>0, <2>1, <3>1 DEF InOrderOnce
    <3>5. executed' + Len(functors') + Len(task_functors_') = Len(submitted')
      BY <1>0, <2>1, <3>1 DEF InOrderOnce
    <3> QED
      BY <3>3, <3>4, <3>5 DEF InOrderOnce
  <2>5. TypeOK' /\ NothingHeldOutsideLoop' /\ NoLostNotify'
    <3>1. executed' \in 0..Len(submitted')
      BY <1>0, <1>b, <2>1, <2>2
    <3> QED
      BY <1>0, <2>1, <2>2, <3>1 DEF TypeOK, NothingHeldOutsideLoop, NoLostNotify
  <2>6. Mail!Deliver
    <3>1. executed < Len(submitted)
      BY <1>0, <2>2 DEF InOrderOnce
    <3> QED
      BY <2>1, <3>1 DEF Mail!Deliver
  <2> QED
    BY <2>4, <2>5, <2>6 DEF IInv, Mail!Next
<1>7. CASE Return
  <2>1. /\ io = "execute" /\ functors = <<>> /\ io' = "dispatch"
        /\ UNCHANGED <<mutex_, task_functors_, pipe, functors, submitted, executed>>
    BY <1>7 DEF Return, LoopOver
  <2>2. IInv'
    BY <1>0, <2>1 DEF IInv, TypeOK, NothingHeldOutsideLoop, NoLostNotify, InOrderOnce
  <2> QED
    BY <2>1, <2>2 DEF Mail!vars
<1>8. CASE UNCHANGED vars
  <2>1. UNCHANGED <<mutex_, task_functors_, pipe, io, functors, submitted, executed>>
    BY <1>8 DEF vars
  <2>2. IInv'
    BY <1>0, <2>1 DEF IInv, TypeOK, NothingHeldOutsideLoop, NoLostNotify, InOrderOnce
  <2> QED
    BY <2>1, <2>2 DEF Mail!vars
<1> QED
  BY <1>1, <1>2, <1>3, <1>4, <1>5, <1>6, <1>7, <1>8 DEF Next, IoStep, Quiescent

\* No functor is left behind without a wakeup, whatever the socket's capacity
\* and however many bytes one recv() takes.
THEOREM NotifyIsNeverLost == SafeSpec => []NoLostNotify
<1>1. IInv => NoLostNotify
  BY DEF IInv
<1> QED
  BY <1>1, InitIInv, StepIInv, PTL DEF SafeSpec

\* Functors run once each, in the order of the calls of Submit.
THEOREM FunctorsInOrder == SafeSpec => [](TypeOK /\ InOrderOnce)
<1>1. IInv => TypeOK /\ InOrderOnce
  BY DEF IInv
<1> QED
  BY <1>1, InitIInv, StepIInv, PTL DEF SafeSpec

\* The event loop, its pipe and its mutex do nothing Mailbox does not allow.
THEOREM MailboxRefinement == SafeSpec => Mail!SafeSpec
<1>1. Init => Mail!Init
  BY DEF Init, Mail!Init
<1> QED
  BY <1>1, InitIInv, StepIInv, PTL DEF SafeSpec, Mail!SafeSpec

\* Type correctness: the bytes stay within the socket's capacity, and no more
\* functors are executed than were submitted.
THEOREM TypeCorrect == SafeSpec => []TypeOK
  BY FunctorsInOrder, PTL

\* An event loop with nothing to read, while nobody is inside Submit, has executed
\* every functor it was given.
THEOREM NothingToReadMeansAllExecuted ==
    SafeSpec => [](io = "dispatch" /\ pipe = 0 /\ mutex_ = None => executed = Len(submitted))
<1>1. ASSUME IInv, io = "dispatch", pipe = 0, mutex_ = None PROVE executed = Len(submitted)
  <2>1. functors = <<>> /\ task_functors_ = <<>>
    BY <1>1 DEF IInv, NothingHeldOutsideLoop, NoLostNotify
  <2>2. Len(functors) = 0 /\ Len(task_functors_) = 0
    BY <2>1
  <2>3. executed \in Nat /\ executed + Len(functors) + Len(task_functors_) = Len(submitted)
    BY <1>1 DEF IInv, TypeOK, InOrderOnce
  <2> QED
    BY <2>2, <2>3
<1> QED
  BY <1>1, InitIInv, StepIInv, PTL DEF SafeSpec
=============================================================================
