--------------------------- MODULE DiscoveryProofs ---------------------------
(***************************************************************************)
(* Proofs about Discovery.  A lookup that still uses the spare map started *)
(* before the last publication, so it has run at least as long as the      *)
(* thread has slept since; the sleep outlasts it.  The spare map therefore *)
(* changes unobserved, and what is published is the list of one answer.    *)
(***************************************************************************)
EXTENDS Discovery, TLAPS

\* What the applications 1..k of answer a say about service n.
SaidBefore(n, hosts, a, k) ==
    \/ /\ hosts = {}
       /\ \A i \in 1..k : a[i].name = n => a[i].up = {}
    \/ \E i \in 1..k :
           /\ a[i].name = n /\ a[i].up # {} /\ hosts = a[i].up
           /\ \A j \in 1..(i - 1) : a[j].name = n => a[j].up = {}

\* The map holds what the applications 1..k of a say, and the others are left.
FilledFrom(map, left, a, k) ==
    /\ Len(left) = Len(a) - k
    /\ \A i \in 1..Len(left) : left[i] = a[k + i]
    /\ \A i \in 1..k : a[i] # Bad
    /\ \A n \in Names : SaidBefore(n, map[n], a, k)

Filling == upc = "fill" =>
               \E a \in Answers : \E k \in 0..Len(a) : FilledFrom(server_vec_[Spare], rest, a, k)

ThreadAwake == /\ upc # "nap" => slept = 0
               /\ upc = "fill" => flag_num_ < MaxFlag

ReadersAreEarly ==
    \A r \in Readers :
        /\ num[r] # None => name[r] # None
        /\ num[r] = Spare => upc = "nap" /\ age[r] >= slept

IInv == TypeOK /\ Filling /\ ThreadAwake /\ ReadersAreEarly

Application == [name : Names, up : SUBSET Hosts]

LEMMA TwoMaps ==
    ASSUME flag_num_ \in Nat
    PROVE  /\ Current \in 0..1 /\ Spare \in 0..1 /\ Current # Spare
           /\ (flag_num_ + 1) % MAXNUM = Spare
           /\ ((flag_num_ + 1) + 1) % MAXNUM = Current
  BY DEF Current, Spare, MAXNUM

LEMMA InitIInv == Init => IInv
<1> SUFFICES ASSUME Init PROVE IInv
  OBVIOUS
<1>1. 0 \in 0..SpanTicks /\ 0 \in 0..ReadTicks /\ 0 \in 0..MaxFlag /\ <<>> \in Seq(Application \cup {Bad})
  BY AnswersAssumption
<1>2. TypeOK
  BY <1>1 DEF Init, TypeOK, Empty, Application
<1>3. Spare \in 0..1
  BY TwoMaps DEF Init
<1> QED
  BY <1>2, <1>3, AnswersAssumption DEF Init, IInv, Filling, ThreadAwake, ReadersAreEarly

LEMMA StepIInv == IInv /\ [Next]_vars => IInv'
<1> SUFFICES ASSUME IInv, [Next]_vars PROVE IInv'
  OBVIOUS
<1>0. TypeOK /\ Filling /\ ThreadAwake /\ ReadersAreEarly
  BY DEF IInv
<1>c. /\ SpanTicks \in Nat /\ ReadTicks \in Nat /\ ReadTicks < SpanTicks /\ MaxFlag \in Nat
      /\ None \notin 0..1 /\ None \notin Names
      /\ Answers \subseteq Seq(Application \cup {Bad}) /\ Bad \notin Application
  BY AnswersAssumption, SpanAssumption DEF Application
<1>m. /\ Current \in 0..1 /\ Spare \in 0..1 /\ Current # Spare
      /\ (flag_num_ + 1) % MAXNUM = Spare /\ ((flag_num_ + 1) + 1) % MAXNUM = Current
  BY <1>0, <1>c, TwoMaps DEF TypeOK
\* Steps that leave the maps, the lookups and the sleep alone.
<1>k. ASSUME UNCHANGED <<server_vec_, flag_num_, rest, slept, num, name, age, instance>>,
             upc' = upc \/ {upc, upc'} \cap {"fill", "nap"} = {},
             upc' \in {"off", "created", "test", "beat", "fetch", "fill", "nap", "exit"},
             flag_of_updating_is_on_' \in BOOLEAN, stop' \in {"idle", "join", "done"}
      PROVE  IInv'
  <2>1. TypeOK'
    BY <1>0, <1>k DEF TypeOK
  <2>2. Spare' = Spare
    BY <1>k DEF Spare
  <2>3. ThreadAwake' /\ ReadersAreEarly'
    BY <1>0, <1>k, <2>2 DEF ThreadAwake, ReadersAreEarly
  <2>4. Filling'
    BY <1>0, <1>k, <2>2 DEF Filling
  <2> QED
    BY <2>1, <2>3, <2>4 DEF IInv
<1>1. CASE Run \/ Enter \/ Test \/ KeepActive \/ Stop \/ Joined \/ UNCHANGED vars
  BY <1>0, <1>1, <1>k DEF TypeOK, Run, Enter, Test, KeepActive, Stop, Joined, vars, readVars, flagVars
<1>2. CASE Nap
  <2>1. /\ upc = "nap" /\ upc' = "test" /\ slept >= SpanTicks /\ slept' = 0
        /\ UNCHANGED <<server_vec_, flag_num_, rest, num, name, age, instance, flag_of_updating_is_on_, stop>>
    BY <1>2 DEF Nap, NapOver, readVars, flagVars
  <2>2. TypeOK'
    BY <1>0, <1>c, <2>1 DEF TypeOK
  <2>3. \A r \in Readers : num[r] # Spare
    BY <1>0, <1>c, <2>1 DEF TypeOK, ReadersAreEarly
  <2>4. ReadersAreEarly'
    BY <1>0, <2>1, <2>3 DEF ReadersAreEarly, Spare
  <2> QED
    BY <2>1, <2>2, <2>4 DEF IInv, Filling, ThreadAwake
<1>3. CASE FetchFails \/ ParseFails
  <2>1. /\ upc \in {"fetch", "fill"} /\ upc' = "nap" /\ rest' \in {rest, <<>>}
        /\ UNCHANGED <<server_vec_, flag_num_, slept, num, name, age, instance, flag_of_updating_is_on_, stop>>
    BY <1>3 DEF FetchFails, ParseFails, readVars, flagVars
  <2>2. TypeOK'
    <3>1. rest' \in Seq(Application \cup {Bad})
      <4>1. rest \in Seq(Application \cup {Bad}) /\ <<>> \in Seq(Application \cup {Bad})
        BY <1>0 DEF TypeOK, Application
      <4> QED
        BY <2>1, <4>1
    <3> QED
      BY <1>0, <2>1, <3>1 DEF TypeOK, Application
  <2>3. ReadersAreEarly'
    BY <1>0, <2>1 DEF ReadersAreEarly, Spare
  <2> QED
    BY <2>1, <2>2, <2>3 DEF IInv, Filling, ThreadAwake
<1>4. CASE Fetch
  <2>1. /\ upc = "fetch" /\ upc' = "fill" /\ rest' \in Answers /\ flag_num_ < MaxFlag
        /\ server_vec_' = [server_vec_ EXCEPT ![Spare] = Empty]
        /\ UNCHANGED <<flag_num_, slept, num, name, age, instance, flag_of_updating_is_on_, stop>>
    BY <1>4 DEF Fetch, readVars, flagVars
  <2>2. Spare' = Spare /\ server_vec_'[Spare] = Empty
    BY <1>0, <1>m, <2>1 DEF TypeOK, Spare
  <2>3. TypeOK'
    <3>1. server_vec_' \in [0..1 -> [Names -> SUBSET Hosts]]
      BY <1>0, <2>1 DEF TypeOK, Empty
    <3>2. rest' \in Seq(Application \cup {Bad})
      BY <1>c, <2>1
    <3> QED
      BY <1>0, <2>1, <3>1, <3>2 DEF TypeOK, Application
  <2>4. Filling'
    <3>1. rest' \in Seq(Application \cup {Bad}) /\ Len(rest') \in Nat
      BY <1>c, <2>1
    <3>2. 0 \in 0..Len(rest') /\ 1..0 = {}
      BY <3>1
    <3>3. FilledFrom(Empty, rest', rest', 0)
      BY <3>1, <3>2 DEF FilledFrom, SaidBefore, Empty
    <3> QED
      BY <2>1, <2>2, <3>2, <3>3 DEF Filling
  <2>5. ThreadAwake' /\ ReadersAreEarly'
    BY <1>0, <2>1, <2>2 DEF ThreadAwake, ReadersAreEarly
  <2> QED
    BY <2>3, <2>4, <2>5 DEF IInv
<1>5. CASE Insert
  <2>1. /\ upc = "fill" /\ rest # <<>> /\ Head(rest) # Bad
        /\ server_vec_' = [server_vec_ EXCEPT ![Spare] = Inserted(server_vec_[Spare], Head(rest))]
        /\ rest' = Tail(rest)
        /\ UNCHANGED <<flag_num_, upc, slept, num, name, age, instance, flag_of_updating_is_on_, stop>>
    BY <1>5 DEF Insert, readVars, flagVars
  <2> DEFINE app == Head(rest)
             map == server_vec_[Spare]
  <2>2. app \in Application /\ map \in [Names -> SUBSET Hosts]
    BY <1>0, <1>m, <2>1 DEF TypeOK, Application
  <2>3. Inserted(map, app) \in [Names -> SUBSET Hosts]
    BY <2>2 DEF Inserted, Application
  <2>4. Spare' = Spare /\ server_vec_'[Spare] = Inserted(map, app)
    BY <1>0, <1>m, <2>1 DEF TypeOK, Spare
  <2>5. /\ rest \in Seq(Application \cup {Bad}) /\ rest' \in Seq(Application \cup {Bad})
        /\ Len(rest) \in Nat /\ Len(rest) >= 1 /\ Len(rest') = Len(rest) - 1
        /\ app = rest[1] /\ \A i \in 1..Len(rest') : rest'[i] = rest[i + 1]
    BY <1>0, <2>1 DEF TypeOK, Application
  <2>6. TypeOK'
    <3>1. server_vec_' \in [0..1 -> [Names -> SUBSET Hosts]]
      BY <1>0, <1>m, <2>1, <2>3 DEF TypeOK
    <3> QED
      BY <1>0, <2>1, <2>5, <3>1 DEF TypeOK, Application
  <2>7. Filling'
    <3>0. PICK a \in Answers : \E k \in 0..Len(a) : FilledFrom(map, rest, a, k)
      BY <1>0, <2>1 DEF Filling
    <3>1. PICK k \in 0..Len(a) : FilledFrom(map, rest, a, k)
      BY <3>0
    <3>2. a \in Seq(Application \cup {Bad}) /\ Len(a) \in Nat /\ k \in Nat
      BY <1>c, <3>1
    <3>3. k + 1 \in 0..Len(a) /\ app = a[k + 1] /\ Len(rest') = Len(a) - (k + 1)
      BY <2>5, <3>1, <3>2 DEF FilledFrom
    <3>4. \A i \in 1..Len(rest') : rest'[i] = a[(k + 1) + i]
      <4> SUFFICES ASSUME NEW i \in 1..Len(rest') PROVE rest'[i] = a[(k + 1) + i]
        OBVIOUS
      <4>1. i + 1 \in 1..Len(rest) /\ rest'[i] = rest[i + 1] /\ k + (i + 1) = (k + 1) + i
        BY <2>5, <3>2
      <4> QED
        BY <3>1, <4>1 DEF FilledFrom
    <3>5. \A i \in 1..(k + 1) : a[i] # Bad
      BY <2>1, <3>1, <3>2, <3>3 DEF FilledFrom
    <3>6. ASSUME NEW n \in Names PROVE SaidBefore(n, Inserted(map, app)[n], a, k + 1)
      <4>0. SaidBefore(n, map[n], a, k)
        BY <3>1 DEF FilledFrom
      <4>1. CASE map[n] # {}
        <5>1. Inserted(map, app)[n] = map[n]
          BY <2>2, <4>1 DEF Inserted
        <5>2. PICK i \in 1..k : /\ a[i].name = n /\ a[i].up # {} /\ map[n] = a[i].up
                                /\ \A j \in 1..(i - 1) : a[j].name = n => a[j].up = {}
          BY <4>0, <4>1 DEF SaidBefore
        <5>3. i \in 1..(k + 1)
          BY <3>2, <5>2
        <5> QED
          BY <5>1, <5>2, <5>3 DEF SaidBefore
      <4>2. CASE map[n] = {}
        <5>1. \A i \in 1..k : a[i].name = n => a[i].up = {}
          BY <4>0, <4>2 DEF SaidBefore
        <5>2. CASE app.name = n /\ app.up # {}
          <6>1. Inserted(map, app)[n] = app.up
            BY <2>2, <4>2, <5>2 DEF Inserted
          <6>2. k + 1 \in 1..(k + 1) /\ (k + 1) - 1 = k
            BY <3>2
          <6> QED
            BY <3>3, <5>1, <5>2, <6>1, <6>2 DEF SaidBefore
        <5>3. CASE ~(app.name = n /\ app.up # {})
          <6>1. Inserted(map, app)[n] = {}
            BY <2>2, <4>2, <5>3 DEF Inserted
          <6>2. \A i \in 1..(k + 1) : i \in 1..k \/ i = k + 1
            BY <3>2
          <6> QED
            BY <3>3, <5>1, <5>3, <6>1, <6>2 DEF SaidBefore
        <5> QED
          BY <5>2, <5>3
      <4> QED
        BY <4>1, <4>2
    <3>7. FilledFrom(Inserted(map, app), rest', a, k + 1)
      BY <3>3, <3>4, <3>5, <3>6 DEF FilledFrom
    <3> QED
      BY <2>4, <3>3, <3>7 DEF Filling
  <2>8. ThreadAwake' /\ ReadersAreEarly'
    BY <1>0, <2>1, <2>4 DEF ThreadAwake, ReadersAreEarly
  <2> QED
    BY <2>6, <2>7, <2>8 DEF IInv
<1>6. CASE Publish
  <2>1. /\ upc = "fill" /\ upc' = "nap" /\ flag_num_' = flag_num_ + 1 /\ slept' = slept
        /\ UNCHANGED <<server_vec_, rest, num, name, age, instance, flag_of_updating_is_on_, stop>>
    BY <1>6 DEF Publish, readVars, flagVars
  <2>2. TypeOK'
    <3>1. flag_num_' \in 0..MaxFlag
      BY <1>0, <1>c, <2>1 DEF TypeOK, ThreadAwake
    <3> QED
      BY <1>0, <2>1, <3>1 DEF TypeOK
  <2>3. Current' = Spare /\ Spare' = Current
    BY <1>m, <2>1 DEF Current, Spare
  <2>4. ReadersAreEarly'
    <3> SUFFICES ASSUME NEW r \in Readers
                 PROVE  /\ num[r] # None => name[r] # None
                        /\ age[r] >= slept
      BY <2>1, <2>3 DEF ReadersAreEarly
    <3>1. slept = 0 /\ age[r] \in 0..ReadTicks
      BY <1>0, <2>1 DEF TypeOK, ThreadAwake
    <3> QED
      BY <1>0, <1>c, <3>1 DEF ReadersAreEarly
  <2> QED
    BY <2>1, <2>2, <2>4 DEF IInv, Filling, ThreadAwake
<1>7. ASSUME NEW r \in Readers, NEW n \in Names, AcqInstance(r, n) PROVE IInv'
  <2>1. /\ num' = [num EXCEPT ![r] = Current] /\ name' = [name EXCEPT ![r] = n]
        /\ age' = [age EXCEPT ![r] = 0]
        /\ UNCHANGED <<server_vec_, flag_num_, upc, rest, slept, instance, flag_of_updating_is_on_, stop>>
    BY <1>7 DEF AcqInstance, flagVars
  <2>2. TypeOK'
    <3>1. num' \in [Readers -> 0..1 \cup {None}] /\ name' \in [Readers -> Names \cup {None}]
      BY <1>0, <1>m, <2>1 DEF TypeOK
    <3>2. age' \in [Readers -> 0..ReadTicks]
      BY <1>0, <1>c, <2>1 DEF TypeOK
    <3> QED
      BY <1>0, <2>1, <3>1, <3>2 DEF TypeOK
  <2>3. /\ num'[r] = Current /\ name'[r] = n
        /\ \A q \in Readers \ {r} : num'[q] = num[q] /\ name'[q] = name[q] /\ age'[q] = age[q]
    BY <1>0, <2>1 DEF TypeOK
  <2>4. Spare' = Spare
    BY <2>1 DEF Spare
  <2>5. ReadersAreEarly'
    BY <1>0, <1>c, <1>m, <2>1, <2>3, <2>4 DEF ReadersAreEarly
  <2>6. Filling' /\ ThreadAwake'
    BY <1>0, <2>1, <2>4 DEF Filling, ThreadAwake
  <2> QED
    BY <2>2, <2>5, <2>6 DEF IInv
<1>8. ASSUME NEW r \in Readers, AcqInstanceReturns(r) PROVE IInv'
  <2>1. /\ num[r] # None
        /\ LET hosts == server_vec_[num[r]][name[r]]
           IN  \E h \in (IF hosts = {} THEN {None} ELSE hosts) : instance' = [instance EXCEPT ![r] = h]
        /\ num' = [num EXCEPT ![r] = None] /\ name' = [name EXCEPT ![r] = None]
        /\ age' = [age EXCEPT ![r] = 0]
        /\ UNCHANGED <<server_vec_, flag_num_, upc, rest, slept, flag_of_updating_is_on_, stop>>
    BY <1>8 DEF AcqInstanceReturns, flagVars
  <2>2. server_vec_[num[r]][name[r]] \subseteq Hosts
    BY <1>0, <2>1 DEF TypeOK, ReadersAreEarly
  <2>3. TypeOK'
    <3>1. num' \in [Readers -> 0..1 \cup {None}] /\ name' \in [Readers -> Names \cup {None}]
      BY <1>0, <2>1 DEF TypeOK
    <3>2. age' \in [Readers -> 0..ReadTicks]
      BY <1>0, <1>c, <2>1 DEF TypeOK
    <3>3. instance' \in [Readers -> Hosts \cup {None}]
      BY <1>0, <2>1, <2>2 DEF TypeOK
    <3> QED
      BY <1>0, <2>1, <3>1, <3>2, <3>3 DEF TypeOK
  <2>4. /\ num'[r] = None
        /\ \A q \in Readers \ {r} : num'[q] = num[q] /\ name'[q] = name[q] /\ age'[q] = age[q]
    BY <1>0, <2>1 DEF TypeOK
  <2>5. Spare' = Spare
    BY <2>1 DEF Spare
  <2>6. ReadersAreEarly'
    BY <1>0, <1>c, <1>m, <2>1, <2>4, <2>5 DEF ReadersAreEarly
  <2>7. Filling' /\ ThreadAwake'
    BY <1>0, <2>1, <2>5 DEF Filling, ThreadAwake
  <2> QED
    BY <2>3, <2>6, <2>7 DEF IInv
<1>9. CASE Tick
  <2>1. /\ \A r \in Active : age[r] < ReadTicks
        /\ age' = [r \in Readers |-> IF r \in Active THEN age[r] + 1 ELSE age[r]]
        /\ slept' = IF upc = "nap" /\ slept < SpanTicks THEN slept + 1 ELSE slept
        /\ UNCHANGED <<server_vec_, flag_num_, upc, rest, num, name, instance, flag_of_updating_is_on_, stop>>
    BY <1>9 DEF Tick, flagVars
  <2>2. age' \in [Readers -> 0..ReadTicks] /\ slept' \in 0..SpanTicks
    <3>1. age' \in [Readers -> 0..ReadTicks]
      BY <1>0, <1>c, <2>1 DEF TypeOK
    <3>2. slept' \in 0..SpanTicks
      BY <1>0, <1>c, <2>1 DEF TypeOK
    <3> QED
      BY <3>1, <3>2
  <2>3. TypeOK'
    BY <1>0, <2>1, <2>2 DEF TypeOK
  <2>4. Spare' = Spare
    BY <2>1 DEF Spare
  <2>5. ReadersAreEarly'
    <3> SUFFICES ASSUME NEW r \in Readers, num[r] = Spare
                 PROVE  upc = "nap" /\ age'[r] >= slept'
      BY <1>0, <2>1, <2>4 DEF ReadersAreEarly
    <3>1. r \in Active
      BY <1>c, <1>m DEF Active
    <3>2. upc = "nap" /\ age[r] >= slept /\ age[r] \in 0..ReadTicks /\ slept \in 0..SpanTicks
      BY <1>0 DEF ReadersAreEarly, TypeOK
    <3>3. age'[r] = age[r] + 1 /\ slept' \in {slept, slept + 1}
      BY <2>1, <3>1
    <3> QED
      BY <1>c, <3>2, <3>3
  <2>6. Filling' /\ ThreadAwake'
    BY <1>0, <2>1, <2>4 DEF Filling, ThreadAwake
  <2> QED
    BY <2>3, <2>5, <2>6 DEF IInv
<1> QED
  BY <1>1, <1>2, <1>3, <1>4, <1>5, <1>6, <1>7, <1>8, <1>9 DEF Next, ThreadStep, OwnStep, RequestEnds

\* The two maps are enough: no lookup ever reads a map that the thread writes, as
\* long as lookups are faster than the sleep, for any number of threads and lists.
THEOREM MapsAreApart == SafeSpec => [](TypeOK /\ NoReadWhileWriting)
<1>1. IInv => TypeOK /\ NoReadWhileWriting
  BY DEF IInv, NoReadWhileWriting, ReadersAreEarly, Active
<1> QED
  BY <1>1, InitIInv, StepIInv, PTL DEF SafeSpec

-----------------------------------------------------------------------------
(* Discovery implements Directory. *)

Seen == [r \in Readers |-> IF num[r] = None THEN None ELSE server_vec_[num[r]]]

LEMMA InitDirectory == Init => Dir!Init
  BY TwoMaps DEF Init, Dir!Init, Dir!NoService, Empty

\* While the spare map changes, nothing that Directory shows does.
LEMMA SpareIsHidden ==
    ASSUME TypeOK, ReadersAreEarly, upc \in {"fetch", "fill"}, NEW map,
           server_vec_' = [server_vec_ EXCEPT ![Spare] = map],
           UNCHANGED <<flag_num_, num, name, instance>>
    PROVE  UNCHANGED Dir!vars
<1>1. Current \in 0..1 /\ Spare \in 0..1 /\ Current # Spare
  BY TwoMaps DEF TypeOK
<1>2. server_vec_'[Current] = server_vec_[Current] /\ Current' = Current
  BY <1>1 DEF TypeOK, Current
<1>3. \A r \in Readers : num[r] # None => server_vec_'[num[r]] = server_vec_[num[r]]
  BY <1>1 DEF TypeOK, ReadersAreEarly
<1>4. Seen' = Seen
  BY <1>3 DEF Seen
<1> QED
  BY <1>2, <1>4 DEF Dir!vars, Seen

LEMMA StepDirectory == IInv /\ [Next]_vars => [Dir!Next]_(Dir!vars)
<1> SUFFICES ASSUME IInv, [Next]_vars PROVE Dir!Next \/ UNCHANGED Dir!vars
  OBVIOUS
<1>0. TypeOK /\ Filling /\ ThreadAwake /\ ReadersAreEarly
  BY DEF IInv
<1>m. /\ Current \in 0..1 /\ Spare \in 0..1 /\ Current # Spare
      /\ (flag_num_ + 1) % MAXNUM = Spare
  BY <1>0, TwoMaps DEF TypeOK
<1>n. None \notin 0..1 /\ None \notin [Names -> SUBSET Hosts]
  BY AnswersAssumption
<1>1. CASE UNCHANGED <<server_vec_, flag_num_, num, name, instance>>
  BY <1>1 DEF Dir!vars, Current
<1>2. CASE Fetch \/ Insert
  <2>1. upc \in {"fetch", "fill"} /\ UNCHANGED <<flag_num_, num, name, instance>>
    BY <1>2 DEF Fetch, Insert, readVars
  <2>2. \E map : server_vec_' = [server_vec_ EXCEPT ![Spare] = map]
    BY <1>2 DEF Fetch, Insert
  <2> QED
    BY <1>0, <2>1, <2>2, SpareIsHidden
<1>3. CASE Publish
  <2>1. /\ upc = "fill" /\ rest = <<>> /\ flag_num_' = flag_num_ + 1
        /\ UNCHANGED <<server_vec_, num, name, instance>>
    BY <1>3 DEF Publish, readVars
  <2>2. Current' = Spare
    BY <1>m, <2>1 DEF Current
  <2>3. PICK a \in Answers : \E k \in 0..Len(a) : FilledFrom(server_vec_[Spare], rest, a, k)
    BY <1>0, <2>1 DEF Filling
  <2>4. Len(a) \in Nat
    BY <2>3, AnswersAssumption
  <2>5. FilledFrom(server_vec_[Spare], rest, a, Len(a))
    BY <2>1, <2>3, <2>4 DEF FilledFrom
  <2>6. /\ \A i \in 1..Len(a) : a[i] # Bad
        /\ Dir!IsListOf(server_vec_[Spare], a)
    BY <2>5 DEF FilledFrom, SaidBefore, Dir!IsListOf, Dir!ListedAs
  <2>7. server_vec_[Spare] \in Dir!Lists
    BY <1>0, <1>m DEF TypeOK, Dir!Lists
  <2>8. Dir!Publish
    BY <2>1, <2>2, <2>3, <2>6, <2>7 DEF Dir!Publish
  <2> QED
    BY <2>8 DEF Dir!Next
<1>4. ASSUME NEW r \in Readers, NEW n \in Names, AcqInstance(r, n)
      PROVE  Dir!Next
  <2>1. /\ num[r] = None /\ num' = [num EXCEPT ![r] = Current] /\ name' = [name EXCEPT ![r] = n]
        /\ UNCHANGED <<server_vec_, flag_num_, instance>>
    BY <1>4 DEF AcqInstance
  <2>2. Seen[r] = None
    BY <2>1 DEF Seen
  <2>3. Seen' = [Seen EXCEPT ![r] = server_vec_[Current]]
    BY <1>0, <1>m, <1>n, <2>1 DEF Seen, TypeOK
  <2>4. Dir!Lookup(r, n)
    BY <2>1, <2>2, <2>3 DEF Dir!Lookup, Seen, Current
  <2> QED
    BY <2>4 DEF Dir!Next
<1>5. ASSUME NEW r \in Readers, AcqInstanceReturns(r) PROVE Dir!Next
  <2>1. /\ num[r] # None
        /\ LET hosts == server_vec_[num[r]][name[r]]
           IN  \E h \in (IF hosts = {} THEN {None} ELSE hosts) : instance' = [instance EXCEPT ![r] = h]
        /\ num' = [num EXCEPT ![r] = None] /\ name' = [name EXCEPT ![r] = None]
        /\ UNCHANGED <<server_vec_, flag_num_>>
    BY <1>5 DEF AcqInstanceReturns
  <2>2. Seen[r] = server_vec_[num[r]] /\ Seen[r] # None
    BY <1>0, <1>n, <2>1 DEF Seen, TypeOK
  <2>3. Seen' = [Seen EXCEPT ![r] = None]
    BY <1>0, <2>1 DEF Seen, TypeOK
  <2>4. Dir!Answer(r)
    BY <2>1, <2>2, <2>3 DEF Dir!Answer, Seen, Current
  <2> QED
    BY <2>4 DEF Dir!Next
<1> QED
  <2>1. CASE Run \/ Enter \/ Test \/ KeepActive \/ Stop \/ Joined \/ Nap \/ FetchFails \/ ParseFails \/ Tick
             \/ UNCHANGED vars
    <3>1. UNCHANGED <<server_vec_, flag_num_, num, name, instance>>
      BY <2>1 DEF Run, Enter, Test, KeepActive, Stop, Joined, Nap, FetchFails, ParseFails, Tick, vars, readVars
    <3> QED
      BY <1>1, <3>1
  <2> QED
    BY <1>2, <1>3, <1>4, <1>5, <2>1 DEF Next, ThreadStep, OwnStep, RequestEnds

\* Every lookup is answered from one whole list that was current when it began,
\* and a list is published only from an answer that was parsed to its end.
THEOREM DirectoryRefinement == SafeSpec => ImplementsDirectory
  BY InitIInv, StepIInv, InitDirectory, StepDirectory, PTL
     DEF SafeSpec, ImplementsDirectory, Dir!SafeSpec

-----------------------------------------------------------------------------
(* The thread as an UpdatingThread.                                         *)

\* In its safety part, and hence in what may follow a Stop, the thread is an
\* UpdatingThread: only Begin sets the flag, only a cleared flag lets it leave, and
\* only then is it joined.
THEOREM ThreadLife == SafeSpec => Life!SafeSpec
<1>1. Init => Life!Init
  BY DEF Init, Life!Init
<1>2. [Next]_vars => [Life!Next]_(Life!vars)
  <2> SUFFICES ASSUME [Next]_vars PROVE [Life!Next]_(Life!vars)
    OBVIOUS
  <2>1. CASE Run
    BY <2>1 DEF Run, Life!Next, Life!Run, flagVars
  <2>2. CASE Enter
    BY <2>2 DEF Enter, Life!Next, Life!Begin
  <2>3. CASE Test
    BY <2>3 DEF Test, KeepUpdating, flagVars, Life!Next, Life!Leave, Life!vars
  <2>4. CASE Stop
    BY <2>4 DEF Stop, Life!Next, Life!Stop
  <2>5. CASE Joined
    BY <2>5 DEF Joined, Life!Next, Life!Joined
  <2>6. CASE \/ KeepActive \/ Nap \/ FetchFails \/ Fetch \/ ParseFails \/ Insert \/ Publish
    BY <2>6 DEF KeepActive, Nap, FetchFails, Fetch, ParseFails, Insert, Publish, flagVars, Life!vars
  <2>7. ASSUME UNCHANGED <<upc, flagVars>> PROVE UNCHANGED Life!vars
    BY <2>7 DEF flagVars, Life!vars
  <2>8. CASE Tick \/ UNCHANGED vars
    BY <2>7, <2>8 DEF Tick, vars
  <2>9. ASSUME NEW r \in Readers, AcqInstanceReturns(r) PROVE UNCHANGED Life!vars
    BY <2>7, <2>9 DEF AcqInstanceReturns
  <2>10. ASSUME NEW r \in Readers, NEW n \in Names, AcqInstance(r, n) PROVE UNCHANGED Life!vars
    BY <2>7, <2>10 DEF AcqInstance
  <2> QED
    BY <2>1, <2>2, <2>3, <2>4, <2>5, <2>6, <2>8, <2>9, <2>10 DEF Next, ThreadStep, OwnStep, RequestEnds
<1> QED
  BY <1>1, <1>2, PTL DEF SafeSpec, Life!SafeSpec
=============================================================================
