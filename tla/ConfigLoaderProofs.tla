-------------------------- MODULE ConfigLoaderProofs --------------------------
(***************************************************************************)
(* Proofs about ConfigLoader: time alone protects the readers, even while  *)
(* threads in HandsOnUpdate swap Configs in and delete them beside the     *)
(* updating thread, until two swaps overlap.  The inductive invariant says *)
(* that what an updater is to make current, or to delete, is there and in  *)
(* nobody else's hands, and that a reader of a Config that will be deleted *)
(* has been reading at least as long as its grace period has lasted.       *)
(***************************************************************************)
EXTENDS ConfigLoader, FiniteSetTheorems, TLAPS

\* What an updater has, by where it stands.
UpdaterPlaces ==
    \A u \in Updaters :
        /\ upc[u] = "compare" => body[u] # Null
        /\ new[u] # Null <=> upc[u] \in {"swap", "swapping"}
        /\ upc[u] # "grace" => slept[u] = 0

CurrentIsLive == config_ # Null => config_ \in Live

\* A Config that is not yet current is in one updater's hands.
NewIsPrivate ==
    \A u \in Updaters :
        new[u] # Null => /\ new[u] \in Live /\ new[u] # config_
                         /\ \A v \in Updaters \ {u} : new[v] # new[u]
                         /\ \A v \in Updaters : upc[v] = "grace" => old[v] # new[u]

\* A Config that is no longer current is deleted by one updater.
OldIsPrivate ==
    \A u \in Updaters :
        upc[u] = "grace" /\ old[u] # Null =>
            /\ old[u] \in Live /\ old[u] # config_
            /\ \A v \in Updaters \ {u} : upc[v] = "grace" => old[v] # old[u]

ReadersAreEarly ==
    \A r \in Readers :
        reading[r] # Null =>
            /\ reading[r] \in Live
            /\ \A u \in Updaters : upc[u] = "grace" /\ old[u] = reading[r] => age[r] >= slept[u]

Sound == CurrentIsLive /\ NewIsPrivate /\ OldIsPrivate /\ ReadersAreEarly

IInv == TypeOK /\ UpdaterPlaces /\ (~torn => Sound)

LEMMA InitIInv == Init => IInv
<1> SUFFICES ASSUME Init PROVE IInv
  OBVIOUS
<1>1. TypeOK
  <2>1. 0 \in 0..GraceTicks /\ 0 \in 0..ReadTicks
    BY ConfigAssumption
  <2>2. "off" \in Places
    BY DEF Places
  <2> QED
    BY <2>1, <2>2 DEF Init, TypeOK
<1>2. UpdaterPlaces /\ Sound
  BY DEF Init, UpdaterPlaces, Sound, CurrentIsLive, NewIsPrivate, OldIsPrivate, ReadersAreEarly
<1> QED
  BY <1>1, <1>2 DEF IInv

LEMMA StepIInv == IInv /\ [Next]_vars => IInv'
<1> SUFFICES ASSUME IInv, [Next]_vars PROVE IInv'
  OBVIOUS
<1>0. TypeOK /\ UpdaterPlaces /\ (~torn => CurrentIsLive /\ NewIsPrivate /\ OldIsPrivate /\ ReadersAreEarly)
  BY DEF IInv, Sound
<1>c. /\ GraceTicks \in Nat /\ ReadTicks \in Nat /\ ReadTicks < GraceTicks
      /\ Null \notin Addresses /\ Null \notin Bodies
  BY ConfigAssumption, GraceAssumption
<1>t. Thread \in Updaters
  BY DEF Updaters
\* Steps that only move an updater about, outside the grace period.
<1>k. ASSUME UNCHANGED <<config_, heap, torn, new, slept, reading, age>>, TypeOK', UpdaterPlaces',
             \A v \in Updaters : /\ upc'[v] = "grace" <=> upc[v] = "grace"
                                 /\ upc[v] = "grace" => old'[v] = old[v]
      PROVE  IInv'
  <2>1. Live' = Live
    BY <1>k DEF Live
  <2>2. ~torn => CurrentIsLive' /\ NewIsPrivate'
    BY <1>0, <1>k, <2>1 DEF NewIsPrivate, CurrentIsLive
  <2>3. ~torn => OldIsPrivate' /\ ReadersAreEarly'
    BY <1>0, <1>k, <2>1 DEF OldIsPrivate, ReadersAreEarly
  <2> QED
    BY <1>k, <2>2, <2>3 DEF IInv, Sound
<1>1. CASE Start \/ Enter \/ Test \/ Nap \/ Stop \/ Joined
  <2>1. /\ UNCHANGED <<config_, heap, torn, body, new, old, slept, reading, age>>
        /\ upc'[Thread] = upc[Thread]
             \/ {upc[Thread], upc'[Thread]} \cap {"compare", "swap", "swapping", "grace"} = {}
        /\ \A v \in Updaters \ {Thread} : upc'[v] = upc[v]
    BY <1>0, <1>1, <1>t DEF TypeOK, Start, Enter, Test, Nap, Stop, Joined, Goto, heapVars, updVars, readVars
  <2>2. upc' \in [Updaters -> Places]
    BY <1>0, <1>1, <1>t DEF TypeOK, Start, Enter, Test, Nap, Stop, Joined, Goto, updVars, Places
  <2>3. /\ flag_of_updating_is_on_' \in BOOLEAN /\ flag_of_updating_status_' \in BOOLEAN
        /\ stop' \in {"idle", "join", "done"}
    BY <1>0, <1>1 DEF TypeOK, Start, Enter, Test, Nap, Stop, Joined, flagVars
  <2>4. TypeOK'
    BY <1>0, <2>1, <2>2, <2>3 DEF TypeOK
  <2>5. UpdaterPlaces'
    BY <1>0, <2>1 DEF UpdaterPlaces
  <2> QED
    BY <1>k, <2>1, <2>4, <2>5
<1>2. ASSUME NEW u \in Updaters, FetchFails(u) \/ Fetch(u) \/ Unchanged(u) \/ HandsOnUpdate(u) PROVE IInv'
  <2>1. UNCHANGED <<config_, heap, torn, new, old, slept, reading, age, stop, flag_of_updating_is_on_>>
    BY <1>2 DEF FetchFails, Fetch, Unchanged, HandsOnUpdate, heapVars, readVars, flagVars
  <2>2. /\ upc' \in [Updaters -> Places] /\ flag_of_updating_status_' \in BOOLEAN
        /\ {upc[u], upc'[u]} \cap {"swap", "swapping", "grace"} = {}
        /\ \A v \in Updaters \ {u} : upc'[v] = upc[v]
    BY <1>0, <1>2 DEF TypeOK, FetchFails, Fetch, Unchanged, HandsOnUpdate, Leave, Goto, Places, flagVars
  <2>3. /\ body' \in [Updaters -> Bodies \cup {Null}]
        /\ \A v \in Updaters \ {u} : body'[v] = body[v]
    BY <1>0, <1>2 DEF TypeOK, FetchFails, Fetch, Accepted, Unchanged, HandsOnUpdate
  <2>4. TypeOK'
    BY <1>0, <2>1, <2>2, <2>3 DEF TypeOK
  <2>5. upc'[u] = "compare" => body'[u] # Null
    BY <1>0, <1>2, <1>c DEF TypeOK, FetchFails, Fetch, Accepted, Unchanged, HandsOnUpdate, Leave, Goto
  <2>6. UpdaterPlaces'
    BY <1>0, <2>1, <2>2, <2>3, <2>5 DEF UpdaterPlaces
  <2> QED
    BY <1>k, <2>1, <2>2, <2>4, <2>6
<1>3. ASSUME NEW u \in Updaters, SwapReads(u) PROVE IInv'
  <2>1. /\ upc[u] = "swap" /\ upc' = [upc EXCEPT ![u] = "swapping"]
        /\ old' = [old EXCEPT ![u] = config_]
        /\ UNCHANGED <<config_, heap, torn, body, new, slept, reading, age, flag_of_updating_is_on_,
                       flag_of_updating_status_, stop>>
    BY <1>3 DEF SwapReads, Goto, heapVars, readVars, flagVars
  <2>2. /\ upc'[u] = "swapping"
        /\ \A v \in Updaters \ {u} : upc'[v] = upc[v] /\ old'[v] = old[v]
    BY <1>0, <2>1 DEF TypeOK
  <2>3. TypeOK'
    <3>1. upc' \in [Updaters -> Places] /\ old' \in [Updaters -> Addresses \cup {Null}]
      BY <1>0, <2>1 DEF TypeOK, Places
    <3> QED
      BY <1>0, <2>1, <3>1 DEF TypeOK
  <2>4. UpdaterPlaces'
    BY <1>0, <2>1, <2>2 DEF UpdaterPlaces
  <2> QED
    BY <1>k, <2>1, <2>2, <2>3, <2>4
<1>4. ASSUME NEW u \in Updaters, Allocate(u) PROVE IInv'
  <2>p. PICK c \in Addresses \ Live : /\ heap' = [heap EXCEPT ![c] = body[u]]
                                     /\ new' = [new EXCEPT ![u] = c]
    BY <1>4 DEF Allocate
  <2>1. /\ upc[u] = "compare" /\ upc' = [upc EXCEPT ![u] = "swap"]
        /\ body' = [body EXCEPT ![u] = Null]
        /\ UNCHANGED <<config_, torn, old, slept, reading, age, flag_of_updating_is_on_,
                       flag_of_updating_status_, stop>>
    BY <1>4 DEF Allocate, Goto, readVars, flagVars
  <2>b. body[u] \in Bodies /\ c # Null
    BY <1>0, <1>c, <2>1 DEF TypeOK, UpdaterPlaces
  <2>2. Live' = Live \cup {c}
    <3>1. /\ \A a \in Addresses \ {c} : heap'[a] = heap[a]
          /\ heap'[c] # Null
      BY <1>0, <1>c, <2>p, <2>b DEF TypeOK
    <3> QED
      BY <3>1 DEF Live
  <2>3. TypeOK'
    <3>1. /\ upc' \in [Updaters -> Places] /\ body' \in [Updaters -> Bodies \cup {Null}]
          /\ new' \in [Updaters -> Addresses \cup {Null}] /\ heap' \in [Addresses -> Bodies \cup {Null}]
      BY <1>0, <2>p, <2>1, <2>b DEF TypeOK, Places
    <3> QED
      BY <1>0, <2>1, <3>1 DEF TypeOK
  <2>4. /\ new'[u] = c /\ upc'[u] = "swap"
        /\ \A v \in Updaters \ {u} : new'[v] = new[v] /\ upc'[v] = upc[v] /\ body'[v] = body[v]
    BY <1>0, <2>p, <2>1 DEF TypeOK
  <2>5. UpdaterPlaces'
    BY <1>0, <2>1, <2>b, <2>4 DEF UpdaterPlaces
  <2>6. ASSUME ~torn PROVE Sound'
    <3>1. CurrentIsLive'
      BY <1>0, <2>1, <2>2, <2>6 DEF CurrentIsLive
    <3>2. /\ c # config_ /\ \A v \in Updaters : new[v] # c
          /\ \A v \in Updaters : upc[v] = "grace" => old[v] # c
      BY <1>0, <2>b, <2>p, <2>6 DEF CurrentIsLive, NewIsPrivate, OldIsPrivate
    <3>3. NewIsPrivate'
      <4>1. ASSUME NEW v \in Updaters, new'[v] # Null
            PROVE  /\ new'[v] \in Live' /\ new'[v] # config_'
                   /\ \A w \in Updaters \ {v} : new'[w] # new'[v]
                   /\ \A w \in Updaters : upc'[w] = "grace" => old'[w] # new'[v]
        <5>1. CASE v = u
          BY <2>1, <2>2, <2>4, <3>2, <5>1
        <5>2. CASE v # u
          BY <1>0, <2>1, <2>2, <2>4, <2>6, <3>2, <4>1, <5>2 DEF NewIsPrivate
        <5> QED
          BY <5>1, <5>2
      <4> QED
        BY <4>1 DEF NewIsPrivate
    <3>4. OldIsPrivate'
      BY <1>0, <2>1, <2>2, <2>4, <2>6 DEF OldIsPrivate
    <3>5. ReadersAreEarly'
      BY <1>0, <2>1, <2>2, <2>4, <2>6 DEF ReadersAreEarly
    <3> QED
      BY <3>1, <3>3, <3>4, <3>5 DEF Sound
  <2> QED
    BY <2>1, <2>3, <2>5, <2>6 DEF IInv
<1>5. ASSUME NEW u \in Updaters, Swap(u) PROVE IInv'
  <2>1. /\ upc[u] = "swapping" /\ upc' = [upc EXCEPT ![u] = "grace"]
        /\ config_' = new[u] /\ new' = [new EXCEPT ![u] = Null]
        /\ torn' = (torn \/ old[u] # config_)
        /\ UNCHANGED <<heap, body, old, slept, reading, age, flag_of_updating_is_on_,
                       flag_of_updating_status_, stop>>
    BY <1>5 DEF Swap, Goto, readVars, flagVars
  <2>2. /\ upc'[u] = "grace" /\ new'[u] = Null
        /\ \A v \in Updaters \ {u} : upc'[v] = upc[v] /\ new'[v] = new[v]
    BY <1>0, <2>1 DEF TypeOK
  <2>3. new[u] \in Addresses /\ new[u] # Null /\ slept[u] = 0
    BY <1>0, <1>c, <2>1 DEF TypeOK, UpdaterPlaces
  <2>4. Live' = Live
    BY <2>1 DEF Live
  <2>5. TypeOK'
    <3>1. upc' \in [Updaters -> Places] /\ new' \in [Updaters -> Addresses \cup {Null}]
      BY <1>0, <2>1 DEF TypeOK, Places
    <3>2. torn' \in BOOLEAN
      BY <2>1
    <3> QED
      BY <1>0, <2>1, <2>3, <3>1, <3>2 DEF TypeOK
  <2>6. UpdaterPlaces'
    BY <1>0, <2>1, <2>2, <2>3 DEF UpdaterPlaces
  <2>7. ASSUME ~torn' PROVE Sound'
    <3>0. old[u] = config_ /\ ~torn
      BY <2>1, <2>7
    <3>1. CurrentIsLive'
      BY <1>0, <2>1, <2>3, <2>4, <3>0 DEF CurrentIsLive, NewIsPrivate
    <3>2. /\ new[u] \in Live /\ new[u] # config_
          /\ \A v \in Updaters \ {u} : new[v] # new[u]
          /\ \A v \in Updaters : upc[v] = "grace" => old[v] # new[u]
      BY <1>0, <2>3, <3>0 DEF NewIsPrivate
    <3>3. NewIsPrivate'
      <4>1. \A v \in Updaters \ {u} : new[v] # Null => new[v] # old[u]
        BY <1>0, <3>0 DEF NewIsPrivate
      <4> QED
        BY <1>0, <2>1, <2>2, <2>4, <3>0, <3>2, <4>1 DEF NewIsPrivate
    <3>4. OldIsPrivate'
      <4>1. ASSUME NEW v \in Updaters, upc'[v] = "grace", old'[v] # Null
            PROVE  /\ old'[v] \in Live' /\ old'[v] # config_'
                   /\ \A w \in Updaters \ {v} : upc'[w] = "grace" => old'[w] # old'[v]
        <5>1. \A w \in Updaters \ {u} : upc[w] = "grace" /\ old[w] # Null => old[w] # config_
          BY <1>0, <3>0 DEF OldIsPrivate
        <5>2. CASE v = u
          BY <1>0, <2>1, <2>2, <2>4, <3>0, <3>2, <4>1, <5>1, <5>2 DEF CurrentIsLive
        <5>3. CASE v # u
          BY <1>0, <2>1, <2>2, <2>4, <3>0, <3>2, <4>1, <5>1, <5>3 DEF OldIsPrivate
        <5> QED
          BY <5>2, <5>3
      <4> QED
        BY <4>1 DEF OldIsPrivate
    <3>5. ReadersAreEarly'
      <4>1. \A r \in Readers : age[r] >= slept[u]
        BY <1>0, <1>c, <2>3 DEF TypeOK
      <4> QED
        BY <1>0, <2>1, <2>2, <2>4, <3>0, <4>1 DEF ReadersAreEarly
    <3> QED
      BY <3>1, <3>3, <3>4, <3>5 DEF Sound
  <2> QED
    BY <2>5, <2>6, <2>7 DEF IInv
<1>6. ASSUME NEW u \in Updaters, Delete(u) PROVE IInv'
  <2>1. /\ upc[u] = "grace" /\ slept[u] >= GraceTicks
        /\ heap' = [c \in Addresses |-> IF c = old[u] THEN Null ELSE heap[c]]
        /\ old' = [old EXCEPT ![u] = Null] /\ slept' = [slept EXCEPT ![u] = 0]
        /\ UNCHANGED <<config_, torn, body, new, reading, age, flag_of_updating_is_on_, stop>>
    BY <1>6 DEF Delete, GraceOver, Discard, readVars
  <2>2. /\ upc' \in [Updaters -> Places] /\ flag_of_updating_status_' \in BOOLEAN
        /\ upc'[u] \in {"nap", "off"}
        /\ \A v \in Updaters \ {u} : upc'[v] = upc[v]
    BY <1>0, <1>6 DEF TypeOK, Delete, Leave, Goto, Places
  <2>3. /\ old'[u] = Null /\ slept'[u] = 0
        /\ \A v \in Updaters \ {u} : old'[v] = old[v] /\ slept'[v] = slept[v]
    BY <1>0, <2>1 DEF TypeOK
  <2>4. Live' = Live \ {old[u]}
    BY <2>1 DEF Live
  <2>5. TypeOK'
    <3>1. old' \in [Updaters -> Addresses \cup {Null}] /\ heap' \in [Addresses -> Bodies \cup {Null}]
      BY <1>0, <2>1 DEF TypeOK
    <3>2. slept' \in [Updaters -> 0..GraceTicks]
      <4>1. 0 \in 0..GraceTicks /\ slept \in [Updaters -> 0..GraceTicks]
        BY <1>0, <1>c DEF TypeOK
      <4> QED
        BY <2>1, <4>1
    <3> QED
      BY <1>0, <2>1, <2>2, <3>1, <3>2 DEF TypeOK
  <2>6. UpdaterPlaces'
    BY <1>0, <2>1, <2>2, <2>3 DEF UpdaterPlaces
  <2>7. ASSUME ~torn PROVE Sound'
    <3>1. CurrentIsLive'
      BY <1>0, <2>1, <2>4, <2>7 DEF CurrentIsLive, OldIsPrivate
    <3>2. NewIsPrivate'
      BY <1>0, <2>1, <2>2, <2>3, <2>4, <2>7 DEF NewIsPrivate
    <3>3. OldIsPrivate'
      BY <1>0, <2>1, <2>2, <2>3, <2>4, <2>7 DEF OldIsPrivate
    <3>4. ReadersAreEarly'
      <4>1. ASSUME NEW r \in Readers, reading[r] # Null PROVE reading[r] # old[u]
        <5>1. age[r] \in 0..ReadTicks /\ slept[u] \in 0..GraceTicks
          BY <1>0 DEF TypeOK
        <5>2. reading[r] = old[u] => age[r] >= slept[u]
          BY <1>0, <2>1, <2>7, <4>1 DEF ReadersAreEarly
        <5> QED
          BY <1>c, <2>1, <5>1, <5>2
      <4> QED
        BY <1>0, <2>1, <2>2, <2>3, <2>4, <2>7, <4>1 DEF ReadersAreEarly
    <3> QED
      BY <3>1, <3>2, <3>3, <3>4 DEF Sound
  <2> QED
    BY <2>1, <2>5, <2>6, <2>7 DEF IInv
<1>7. ASSUME NEW r \in Readers, GetConfig(r) \/ GetConfigReturns(r) PROVE IInv'
  <2>1. /\ \E d \in {config_, Null} : reading' = [reading EXCEPT ![r] = d]
        /\ age' = [age EXCEPT ![r] = 0]
        /\ UNCHANGED <<config_, heap, torn, upc, body, new, old, slept, flag_of_updating_is_on_,
                       flag_of_updating_status_, stop>>
    BY <1>7 DEF GetConfig, GetConfigReturns, heapVars, updVars, flagVars
  <2>2. /\ reading'[r] \in {config_, Null}
        /\ \A q \in Readers \ {r} : reading'[q] = reading[q] /\ age'[q] = age[q]
    BY <1>0, <2>1 DEF TypeOK
  <2>3. Live' = Live
    BY <2>1 DEF Live
  <2>4. TypeOK'
    <3>1. reading' \in [Readers -> Addresses \cup {Null}] /\ age' \in [Readers -> 0..ReadTicks]
      BY <1>0, <1>c, <2>1 DEF TypeOK
    <3> QED
      BY <1>0, <2>1, <3>1 DEF TypeOK
  <2>5. UpdaterPlaces'
    BY <1>0, <2>1 DEF UpdaterPlaces
  <2>6. ~torn => CurrentIsLive' /\ NewIsPrivate' /\ OldIsPrivate'
    BY <1>0, <2>1, <2>3 DEF CurrentIsLive, NewIsPrivate, OldIsPrivate
  <2>7. ~torn => ReadersAreEarly'
    BY <1>0, <2>1, <2>2, <2>3 DEF ReadersAreEarly, CurrentIsLive, OldIsPrivate
  <2> QED
    BY <2>1, <2>4, <2>5, <2>6, <2>7 DEF IInv, Sound
<1>8. CASE Tick
  <2>1. /\ \A r \in Active : age[r] < ReadTicks
        /\ age' = [r \in Readers |-> IF r \in Active THEN age[r] + 1 ELSE age[r]]
        /\ slept' = [v \in Updaters |-> IF v \in Sleepers THEN slept[v] + 1 ELSE slept[v]]
        /\ UNCHANGED <<config_, heap, torn, upc, body, new, old, reading, flag_of_updating_is_on_,
                       flag_of_updating_status_, stop>>
    BY <1>8 DEF Tick, heapVars, flagVars
  <2>2. age' \in [Readers -> 0..ReadTicks]
    BY <1>0, <1>c, <2>1 DEF TypeOK
  <2>3. slept' \in [Updaters -> 0..GraceTicks]
    BY <1>0, <1>c, <2>1 DEF TypeOK, Sleepers
  <2>4. TypeOK'
    BY <1>0, <2>1, <2>2, <2>3 DEF TypeOK
  <2>5. \A v \in Updaters : /\ slept'[v] <= slept[v] + 1
                            /\ upc[v] # "grace" => slept'[v] = slept[v]
    BY <1>0, <1>c, <2>1 DEF TypeOK, Sleepers
  <2>l. Live' = Live
    BY <2>1 DEF Live
  <2>6. /\ UpdaterPlaces'
        /\ ~torn => CurrentIsLive' /\ NewIsPrivate' /\ OldIsPrivate'
    BY <1>0, <2>1, <2>5, <2>l DEF UpdaterPlaces, NewIsPrivate, OldIsPrivate, CurrentIsLive
  <2>7. ASSUME ~torn PROVE ReadersAreEarly'
    <3> SUFFICES ASSUME NEW r \in Readers, reading[r] # Null,
                        NEW u \in Updaters, upc[u] = "grace", old[u] = reading[r]
                 PROVE  age'[r] >= slept'[u]
      BY <1>0, <2>1, <2>l, <2>7 DEF ReadersAreEarly
    <3>1. age[r] >= slept[u]
      BY <1>0, <2>7 DEF ReadersAreEarly
    <3>2. age'[r] = age[r] + 1 /\ age[r] \in 0..ReadTicks /\ slept[u] \in 0..GraceTicks
          /\ slept'[u] \in 0..GraceTicks
      BY <1>0, <2>1, <2>3 DEF Active, TypeOK
    <3> QED
      BY <1>c, <2>5, <3>1, <3>2
  <2> QED
    BY <2>1, <2>4, <2>6, <2>7 DEF IInv, Sound
<1>9. CASE UNCHANGED vars
  <2>1. UNCHANGED <<config_, heap, torn, upc, body, new, old, slept, reading, age,
                   flag_of_updating_is_on_, flag_of_updating_status_, stop>>
    BY <1>9 DEF vars, heapVars, updVars, readVars, flagVars
  <2>2. TypeOK' /\ UpdaterPlaces'
    BY <1>0, <2>1 DEF TypeOK, UpdaterPlaces
  <2> QED
    BY <1>k, <2>1, <2>2
<1> QED
  BY <1>1, <1>2, <1>3, <1>4, <1>5, <1>6, <1>7, <1>8, <1>9 DEF Next, ThreadStep, DoUpdating, Updaters

\* The grace period is enough: as long as every reader is faster than it, and no
\* swap has overlapped another, no GetConfig copies from a deleted Config, however
\* many threads update at once.
THEOREM GraceProtectsReaders == SafeSpec => [](TypeOK /\ NoReadAfterDelete)
<1>1. IInv => TypeOK /\ NoReadAfterDelete
  BY DEF IInv, NoReadAfterDelete, Active, Sound, ReadersAreEarly
<1> QED
  BY <1>1, InitIInv, StepIInv, PTL DEF SafeSpec

\* Type correctness.
THEOREM TypeCorrect == SafeSpec => []TypeOK
  BY GraceProtectsReaders, PTL

-----------------------------------------------------------------------------
(* The thread as an UpdatingThread.                                         *)

LEMMA StepLife == TypeOK /\ [Next]_vars => [Life!Next]_(Life!vars)
<1> SUFFICES ASSUME TypeOK, [Next]_vars PROVE [Life!Next]_(Life!vars)
  OBVIOUS
<1>0. upc \in [Updaters -> Places] /\ Thread \in Updaters
  BY DEF TypeOK, Updaters
<1>1. CASE Start
  BY <1>0, <1>1 DEF Start, Goto, flagVars, Life!Next, Life!Run
<1>2. CASE Enter
  BY <1>0, <1>2 DEF Enter, Goto, Life!Next, Life!Begin
<1>3. CASE Test
  BY <1>0, <1>3 DEF Test, KeepUpdating, Goto, Life!Next, Life!Leave, Life!vars
<1>4. CASE Stop
  BY <1>4 DEF Stop, updVars, Life!Next, Life!Stop
<1>5. CASE Joined
  BY <1>5 DEF Joined, updVars, Life!Next, Life!Joined
<1>6. CASE Nap
  BY <1>0, <1>6 DEF Nap, Goto, flagVars, Life!vars
\* DoUpdating keeps the thread running, and a caller of HandsOnUpdate is not the thread.
<1>7. ASSUME NEW u \in Updaters, DoUpdating(u) PROVE UNCHANGED Life!vars
  <2>1. \E place \in {"fetch", "compare", "swap", "swapping", "grace", "nap", "off"} :
           /\ upc' = [upc EXCEPT ![u] = place]
           /\ place = "off" => u # Thread
    BY <1>7 DEF DoUpdating, FetchFails, Fetch, Unchanged, Allocate, SwapReads, Swap, Delete, Leave, Goto
  <2>2. upc[u] \in InUpdate
    BY <1>7 DEF DoUpdating, FetchFails, Fetch, Unchanged, Allocate, SwapReads, Swap, Delete, InUpdate
  <2>3. UNCHANGED <<flag_of_updating_is_on_, stop>>
    BY <1>7 DEF DoUpdating, FetchFails, Fetch, Unchanged, Allocate, SwapReads, Swap, Delete, flagVars
  <2> QED
    BY <1>0, <2>1, <2>2, <2>3 DEF InUpdate, Life!vars
<1>8. ASSUME NEW h \in HandsOn, HandsOnUpdate(h) PROVE UNCHANGED Life!vars
  <2>1. h \in Updaters /\ h # Thread
    BY ConfigAssumption DEF Updaters
  <2> QED
    BY <1>0, <1>8, <2>1 DEF HandsOnUpdate, Goto, flagVars, Life!vars
<1>9. CASE Tick \/ (\E r \in Readers : GetConfig(r) \/ GetConfigReturns(r)) \/ UNCHANGED vars
  BY <1>9 DEF Tick, GetConfig, GetConfigReturns, vars, updVars, flagVars, Life!vars
<1> QED
  BY <1>1, <1>2, <1>3, <1>4, <1>5, <1>6, <1>7, <1>8, <1>9 DEF Next, ThreadStep, Updaters

\* In its safety part the thread is an UpdatingThread, whatever threads in
\* HandsOnUpdate do beside it.
THEOREM ThreadLife == SafeSpec => Life!SafeSpec
<1>1. Init => Life!Init
  BY DEF Init, Life!Init, Updaters
<1> QED
  BY <1>1, StepLife, TypeCorrect, PTL DEF SafeSpec, Life!SafeSpec

-----------------------------------------------------------------------------
(* Who has to look after a Config.                                          *)

Has(S, c) == IF c \in S THEN 1 ELSE 0
Free == Addresses \ Live
Holders(c) == {u \in Updaters : new[u] = c \/ (upc[u] = "grace" /\ old[u] = c)}

LEMMA CountOne == ASSUME NEW S, NEW c PROVE Cardinality(S \cap {c}) = Has(S, c)
<1>1. CASE c \in S
  <2>1. S \cap {c} = {c}
    BY <1>1
  <2> QED
    BY <1>1, <2>1, FS_Singleton DEF Has
<1>2. CASE c \notin S
  <2>1. S \cap {c} = {}
    BY <1>2
  <2> QED
    BY <1>2, <2>1, FS_EmptySet DEF Has
<1> QED
  BY <1>1, <1>2

LEMMA UpdatersFinite == ASSUME NEW S \in SUBSET Updaters PROVE IsFiniteSet(S) /\ Cardinality(S) \in Nat
<1>1. IsFiniteSet(Updaters)
  <2>1. Updaters = HandsOn \cup {Thread}
    BY DEF Updaters
  <2>2. IsFiniteSet(HandsOn)
    BY ConfigAssumption
  <2>3. IsFiniteSet(HandsOn \cup {Thread})
    BY <2>2, FS_AddElement
  <2> QED
    BY <2>1, <2>3
<1> QED
  BY <1>1, FS_Subset, FS_CardinalityType

\* The sum that Owners is, before and after a step.
LEMMA OwnersSum ==
    ASSUME NEW c \in Addresses
    PROVE  /\ Owners(c) = Has(Free, c) + Has({config_}, c) + Cardinality(Holders(c))
           /\ Owners(c)' = Has(Free', c) + Has({config_'}, c) + Cardinality(Holders(c)')
           /\ Cardinality(Holders(c)) \in Nat /\ Cardinality(Holders(c)') \in Nat
<1>0. {c} \ Live = Free \cap {c} /\ {c} \ Live' = Free' \cap {c}
  BY DEF Free
<1>1. Owners(c) = Has(Free, c) + Has({config_}, c) + Cardinality(Holders(c))
  BY <1>0, CountOne DEF Owners, Holders
<1>2. Owners(c)' = Has(Free', c) + Has({config_'}, c) + Cardinality(Holders(c)')
  BY <1>0, CountOne DEF Owners, Holders
<1>3. Holders(c) \in SUBSET Updaters /\ Holders(c)' \in SUBSET Updaters
  BY DEF Holders
<1> QED
  BY <1>1, <1>2, <1>3, UpdatersFinite

\* An address that had one owner has one after a step that tears no swap.
LEMMA StepOwners ==
    ASSUME TypeOK, UpdaterPlaces, TypeOK', [Next]_vars, NEW c \in Addresses, Owners(c) = 1, ~TornSwap
    PROVE  Owners(c)' = 1
<1>0. /\ new \in [Updaters -> Addresses \cup {Null}] /\ old \in [Updaters -> Addresses \cup {Null}]
      /\ upc \in [Updaters -> Places] /\ heap \in [Addresses -> Bodies \cup {Null}] /\ c # Null
  BY ConfigAssumption DEF TypeOK
<1>n. /\ Cardinality(Holders(c)) \in Nat /\ Cardinality(Holders(c)') \in Nat
      /\ Owners(c) = Has(Free, c) + Has({config_}, c) + Cardinality(Holders(c))
      /\ Owners(c)' = Has(Free', c) + Has({config_'}, c) + Cardinality(Holders(c)')
  BY OwnersSum
<1>f. IsFiniteSet(Holders(c))
  BY UpdatersFinite DEF Holders
<1>h. ASSUME NEW u \in Holders(c) PROVE Cardinality(Holders(c)) >= 1
  <2>1. /\ Cardinality(Holders(c) \ {u}) = Cardinality(Holders(c)) - 1
        /\ Cardinality(Holders(c) \ {u}) \in Nat
    BY <1>f, FS_RemoveElement, FS_CardinalityType
  <2> QED
    BY <1>n, <2>1
\* Steps that give no pointer to anybody else.
<1>k. ASSUME UNCHANGED <<config_, heap>>, Holders(c)' = Holders(c) PROVE Owners(c)' = 1
  <2>1. Free' = Free
    BY <1>k DEF Free, Live
  <2> QED
    BY <1>k, <1>n, <2>1
<1>1. CASE Start \/ Enter \/ Test \/ Nap \/ Stop \/ Joined
  <2>1. /\ UNCHANGED <<config_, heap, new, old>>
        /\ \A v \in Updaters : upc'[v] = "grace" <=> upc[v] = "grace"
    BY <1>0, <1>1 DEF Start, Enter, Test, Nap, Stop, Joined, Goto, heapVars, updVars, Updaters
  <2> QED
    BY <1>k, <2>1 DEF Holders
<1>2. ASSUME NEW u \in Updaters, FetchFails(u) \/ Fetch(u) \/ Unchanged(u) \/ HandsOnUpdate(u)
      PROVE  Owners(c)' = 1
  <2>1. /\ UNCHANGED <<config_, heap, new, old>>
        /\ \A v \in Updaters : upc'[v] = "grace" <=> upc[v] = "grace"
    BY <1>0, <1>2 DEF FetchFails, Fetch, Unchanged, HandsOnUpdate, Leave, Goto, heapVars
  <2> QED
    BY <1>k, <2>1 DEF Holders
<1>3. CASE Tick \/ (\E r \in Readers : GetConfig(r) \/ GetConfigReturns(r)) \/ UNCHANGED vars
  <2>1. UNCHANGED <<config_, heap, new, old, upc>>
    BY <1>3 DEF Tick, GetConfig, GetConfigReturns, vars, heapVars, updVars
  <2> QED
    BY <1>k, <2>1 DEF Holders
<1>4. ASSUME NEW u \in Updaters, SwapReads(u) PROVE Owners(c)' = 1
  <2>1. /\ upc[u] = "swap" /\ upc' = [upc EXCEPT ![u] = "swapping"]
        /\ old' = [old EXCEPT ![u] = config_] /\ UNCHANGED <<config_, heap, new>>
    BY <1>4 DEF SwapReads, Goto, heapVars
  <2>2. /\ \A v \in Updaters : upc'[v] = "grace" <=> upc[v] = "grace"
        /\ \A v \in Updaters : upc[v] = "grace" => old'[v] = old[v]
    BY <1>0, <2>1
  <2> QED
    BY <1>k, <2>1, <2>2 DEF Holders
<1>5. ASSUME NEW u \in Updaters, Allocate(u) PROVE Owners(c)' = 1
  <2>p. PICK a \in Addresses \ Live : /\ heap' = [heap EXCEPT ![a] = body[u]]
                                     /\ new' = [new EXCEPT ![u] = a]
    BY <1>5 DEF Allocate
  <2>1. /\ upc[u] = "compare" /\ upc' = [upc EXCEPT ![u] = "swap"]
        /\ UNCHANGED <<config_, old>>
    BY <1>5 DEF Allocate, Goto
  <2>2. new[u] = Null /\ body[u] # Null
    BY <2>1 DEF UpdaterPlaces
  <2>3. CASE c = a
    <3>1. Has(Free, c) = 1 /\ Has({config_}, c) \in Nat
      BY <2>3 DEF Free, Has
    <3>2. Has({config_}, c) = 0 /\ Cardinality(Holders(c)) = 0
      BY <1>n, <3>1
    <3>3. Holders(c) = {}
      BY <1>f, <3>2, FS_EmptySet
    <3>4. Holders(c)' = {u}
      BY <1>0, <2>p, <2>1, <2>3, <3>3 DEF Holders
    <3>5. c \in Live'
      BY <1>0, <2>p, <2>2, <2>3 DEF Live
    <3>6. Has(Free', c) = 0
      BY <3>5 DEF Has, Free
    <3>7. Cardinality(Holders(c)') = 1
      BY <3>4, FS_Singleton
    <3> QED
      BY <1>n, <2>1, <3>2, <3>6, <3>7
  <2>4. CASE c # a
    <3>1. Holders(c)' = Holders(c)
      BY <1>0, <2>p, <2>1, <2>2, <2>4 DEF Holders
    <3>2. c \in Live' <=> c \in Live
      BY <1>0, <2>p, <2>4 DEF Live
    <3>3. Has(Free', c) = Has(Free, c)
      BY <3>2 DEF Has, Free
    <3> QED
      BY <1>n, <2>1, <3>1, <3>3
  <2> QED
    BY <2>3, <2>4
<1>6. ASSUME NEW u \in Updaters, Swap(u) PROVE Owners(c)' = 1
  <2>1. /\ upc[u] = "swapping" /\ upc' = [upc EXCEPT ![u] = "grace"]
        /\ config_' = new[u] /\ new' = [new EXCEPT ![u] = Null]
        /\ UNCHANGED <<heap, old>>
    BY <1>6 DEF Swap, Goto
  <2>2. Has(Free', c) = Has(Free, c) /\ Has(Free, c) \in Nat
    BY <2>1 DEF Has, Free, Live
  <2>3. old[u] = config_
    BY <1>0, <2>1 DEF TornSwap
  <2>4. CASE c = new[u]
    <3>1. u \in Holders(c)
      BY <2>4 DEF Holders
    <3>2. Has({config_}, c) = 0
      BY <1>n, <1>h, <2>2, <3>1 DEF Has
    <3>3. Holders(c)' = Holders(c) \ {u}
      <4>1. c # config_
        BY <3>2 DEF Has
      <4> QED
        BY <1>0, <2>1, <2>3, <2>4, <4>1 DEF Holders
    <3>4. Cardinality(Holders(c)') = Cardinality(Holders(c)) - 1
      BY <1>f, <3>1, <3>3, FS_RemoveElement
    <3>5. Has({config_'}, c) = 1
      BY <2>1, <2>4 DEF Has
    <3> QED
      BY <1>n, <2>2, <3>2, <3>4, <3>5
  <2>5. CASE c = config_
    <3>1. Has({config_}, c) = 1
      BY <2>5 DEF Has
    <3>2. u \notin Holders(c)
      BY <1>n, <1>h, <2>2, <3>1
    <3>3. Holders(c)' = Holders(c) \cup {u} /\ c # new[u]
      BY <1>0, <2>1, <2>3, <2>5, <3>2 DEF Holders
    <3>4. Cardinality(Holders(c)') = Cardinality(Holders(c)) + 1
      BY <1>f, <3>2, <3>3, FS_AddElement
    <3>5. Has({config_'}, c) = 0
      BY <2>1, <3>3 DEF Has
    <3> QED
      BY <1>n, <2>2, <3>1, <3>4, <3>5
  <2>6. CASE c # new[u] /\ c # config_
    <3>1. Holders(c)' = Holders(c)
      BY <1>0, <2>1, <2>3, <2>6 DEF Holders
    <3>2. Has({config_}, c) = 0 /\ Has({config_'}, c) = 0
      BY <2>1, <2>6 DEF Has
    <3> QED
      BY <1>n, <2>2, <3>1, <3>2
  <2> QED
    BY <2>4, <2>5, <2>6
<1>7. ASSUME NEW u \in Updaters, Delete(u) PROVE Owners(c)' = 1
  <2>1. /\ upc[u] = "grace" /\ heap' = [d \in Addresses |-> IF d = old[u] THEN Null ELSE heap[d]]
        /\ old' = [old EXCEPT ![u] = Null] /\ UNCHANGED <<config_, new>>
        /\ upc'[u] # "grace" /\ \A v \in Updaters \ {u} : upc'[v] = upc[v]
    BY <1>0, <1>7 DEF Delete, Discard, Leave, Goto
  <2>2. new[u] = Null
    BY <2>1 DEF UpdaterPlaces
  <2>3. CASE c = old[u]
    <3>1. u \in Holders(c) /\ Holders(c)' = Holders(c) \ {u}
      BY <1>0, <2>1, <2>2, <2>3 DEF Holders
    <3>2. Cardinality(Holders(c)') = Cardinality(Holders(c)) - 1
      BY <1>f, <3>1, FS_RemoveElement
    <3>3. Has(Free, c) = 0 /\ Has({config_}, c) = 0
      BY <1>n, <1>h, <3>1 DEF Has
    <3>4. c \notin Live'
      BY <2>1, <2>3 DEF Live
    <3>5. Has(Free', c) = 1
      BY <3>4 DEF Has, Free
    <3> QED
      BY <1>n, <2>1, <3>2, <3>3, <3>5
  <2>4. CASE c # old[u]
    <3>1. Holders(c)' = Holders(c)
      BY <1>0, <2>1, <2>2, <2>4 DEF Holders
    <3>2. c \in Live' <=> c \in Live
      BY <1>0, <2>1, <2>4 DEF Live
    <3>3. Has(Free', c) = Has(Free, c)
      BY <3>2 DEF Has, Free
    <3> QED
      BY <1>n, <2>1, <3>1, <3>3
  <2> QED
    BY <2>3, <2>4
<1> QED
  BY <1>1, <1>2, <1>3, <1>4, <1>5, <1>6, <1>7 DEF Next, ThreadStep, DoUpdating, Updaters

\* Only two swaps one inside the other can leak a Config or delete it twice.
THEOREM OneOwnerUnlessTorn == SafeSpec => ConfigHasOneOwner
<1> DEFINE Owned == \A c \in Addresses : Owners(c) = 1 /\ ~TornSwap => Owners(c)' = 1
<1>1. IInv /\ IInv' /\ [Next]_vars => Owned
  BY StepOwners DEF IInv
<1>2. ConfigHasOneOwner <=> [][Owned]_vars
  BY DEF ConfigHasOneOwner
<1> HIDE DEF Owned
<1> QED
  BY <1>1, <1>2, InitIInv, StepIInv, PTL DEF SafeSpec

-----------------------------------------------------------------------------
(* The updating thread alone, when nobody calls HandsOnUpdate.              *)

OneOwnerEach == \A c \in Addresses : Owners(c) = 1

\* No swap has been torn, and one under way has read the Config that is current.
SwapIsWhole == ~torn /\ \A u \in Updaters : upc[u] = "swapping" => old[u] = config_

LEMMA AloneInit == Init => SwapIsWhole /\ OneOwnerEach
<1> SUFFICES ASSUME Init PROVE SwapIsWhole /\ OneOwnerEach
  OBVIOUS
<1>1. ASSUME NEW c \in Addresses PROVE Owners(c) = 1
  <2>1. c # Null
    BY ConfigAssumption
  <2>2. Holders(c) = {} /\ c \in Free /\ c # config_
    BY <2>1 DEF Init, Holders, Free, Live
  <2>3. Cardinality(Holders(c)) = 0
    BY <2>2, FS_EmptySet
  <2>4. Has(Free, c) = 1 /\ Has({config_}, c) = 0
    BY <2>2 DEF Has
  <2>5. Owners(c) = Has(Free, c) + Has({config_}, c) + Cardinality(Holders(c))
    BY OwnersSum
  <2> QED
    BY <2>3, <2>4, <2>5
<1> QED
  BY <1>1 DEF Init, SwapIsWhole, OneOwnerEach

LEMMA AloneStep ==
    ASSUME HandsOn = {}, IInv, IInv', SwapIsWhole, OneOwnerEach, [Next]_vars
    PROVE  SwapIsWhole' /\ OneOwnerEach'
<1>0. /\ Updaters = {Thread} /\ upc \in [Updaters -> Places]
      /\ old \in [Updaters -> Addresses \cup {Null}]
  BY DEF IInv, TypeOK, Updaters
<1>1. ~TornSwap
  BY DEF SwapIsWhole, TornSwap
<1>2. OneOwnerEach'
  BY <1>1, StepOwners DEF OneOwnerEach, IInv
<1>3. SwapIsWhole'
  <2>k. ASSUME UNCHANGED <<config_, torn, old>>, upc'[Thread] = "swapping" => upc[Thread] = "swapping"
        PROVE  SwapIsWhole'
    BY <1>0, <2>k DEF SwapIsWhole
  <2>1. CASE Start \/ Enter \/ Test \/ Nap \/ Stop \/ Joined
    BY <1>0, <2>1, <2>k DEF Start, Enter, Test, Nap, Stop, Joined, Goto, heapVars, updVars
  <2>2. CASE FetchFails(Thread) \/ Fetch(Thread) \/ Unchanged(Thread) \/ Allocate(Thread)
    BY <1>0, <2>2, <2>k DEF FetchFails, Fetch, Unchanged, Allocate, Leave, Goto, heapVars
  <2>3. CASE SwapReads(Thread)
    BY <1>0, <2>3 DEF SwapReads, SwapIsWhole, heapVars
  <2>4. CASE Swap(Thread) \/ Delete(Thread)
    <3>1. upc'[Thread] # "swapping"
      BY <1>0, <2>4 DEF Swap, Delete, Leave, Goto
    <3>2. ~torn /\ (upc[Thread] = "swapping" => old[Thread] = config_)
      BY <1>0 DEF SwapIsWhole
    <3>3. torn' = torn \/ (upc[Thread] = "swapping" /\ torn' = (torn \/ old[Thread] # config_))
      BY <2>4 DEF Swap, Delete
    <3>4. ~torn'
      BY <3>2, <3>3
    <3> QED
      BY <1>0, <3>1, <3>4 DEF SwapIsWhole
  <2>5. CASE Tick \/ (\E r \in Readers : GetConfig(r) \/ GetConfigReturns(r)) \/ UNCHANGED vars
    BY <2>5, <2>k DEF Tick, GetConfig, GetConfigReturns, vars, heapVars, updVars
  <2> QED
    BY <2>1, <2>2, <2>3, <2>4, <2>5 DEF Next, ThreadStep, DoUpdating
<1> QED
  BY <1>2, <1>3

\* A set given by two names has at most two elements.
LEMMA PairIsSmall ==
    ASSUME NEW a, NEW b
    PROVE  IsFiniteSet({a, b}) /\ Cardinality({a, b}) <= 2
<1>1. IsFiniteSet({a}) /\ Cardinality({a}) = 1
  BY FS_Singleton
<1>2. CASE a = b
  <2>1. {a, b} = {a}
    BY <1>2
  <2>2. IsFiniteSet({a, b}) /\ Cardinality({a, b}) = 1
    BY <1>1, <2>1
  <2> QED
    BY <2>2
<1>3. CASE a # b
  <2>1. b \notin {a} /\ {a, b} = {a} \cup {b}
    BY <1>3
  <2>2. IsFiniteSet({a} \cup {b}) /\ Cardinality({a} \cup {b}) = Cardinality({a}) + 1
    BY <1>1, <2>1, FS_AddElement
  <2>3. Cardinality({a, b}) = 2
    BY <1>1, <2>1, <2>2
  <2> QED
    BY <2>1, <2>2, <2>3
<1> QED
  BY <1>2, <1>3

\* With one owner each, at most the current Config and one more are there.
LEMMA TwoAlive ==
    ASSUME HandsOn = {}, IInv, OneOwnerEach
    PROVE  Cardinality(Live) <= 2
<1>0. /\ Updaters = {Thread} /\ TypeOK /\ UpdaterPlaces
  BY DEF IInv, Updaters
<1> DEFINE x == IF upc[Thread] = "grace" THEN old[Thread] ELSE new[Thread]
<1>1. ASSUME NEW c \in Live PROVE c \in {config_, x}
  <2>1. Owners(c) = 1 /\ c \in Addresses /\ c # Null
    BY ConfigAssumption DEF OneOwnerEach, Live
  <2>2. c = config_ \/ Holders(c) # {}
    <3>1. Has(Free, c) = 0 /\ (c # config_ => Has({config_}, c) = 0)
      BY DEF Has, Free
    <3>2. Owners(c) = Has(Free, c) + Has({config_}, c) + Cardinality(Holders(c))
      BY <2>1, OwnersSum
    <3>3. Cardinality({}) = 0
      BY FS_EmptySet
    <3> QED
      BY <2>1, <3>1, <3>2, <3>3
  <2>3. CASE Holders(c) # {}
    <3>1. new[Thread] = c \/ (upc[Thread] = "grace" /\ old[Thread] = c)
      BY <1>0, <2>3 DEF Holders
    <3>2. upc[Thread] = "grace" => new[Thread] = Null
      BY <1>0 DEF UpdaterPlaces
    <3>3. CASE upc[Thread] = "grace"
      <4>1. old[Thread] = c
        BY <2>1, <3>1, <3>2, <3>3
      <4> QED
        BY <3>3, <4>1
    <3>4. CASE upc[Thread] # "grace"
      <4>1. new[Thread] = c
        BY <3>1, <3>4
      <4> QED
        BY <3>4, <4>1
    <3> QED
      BY <3>3, <3>4
  <2> QED
    BY <2>2, <2>3
<1> HIDE DEF x
<1>2. IsFiniteSet({config_, x}) /\ Cardinality({config_, x}) <= 2
  BY PairIsSmall
<1>3. Live \subseteq {config_, x}
  BY <1>1
<1>4. /\ Cardinality(Live) <= Cardinality({config_, x})
      /\ Cardinality(Live) \in Nat /\ Cardinality({config_, x}) \in Nat
  BY <1>2, <1>3, FS_Subset, FS_CardinalityType
<1> QED
  BY <1>2, <1>4

\* The updating thread alone neither leaks a Config nor deletes one twice, however
\* often the configuration changes: each address has one owner, no swap is torn,
\* and two Configs at most are there.
THEOREM AloneNothingLeaks ==
    ASSUME HandsOn = {}
    PROVE  SafeSpec => [](~torn /\ OneOwnerEach /\ Cardinality(Live) <= 2)
<1>1. IInv /\ IInv' /\ SwapIsWhole /\ OneOwnerEach /\ [Next]_vars => SwapIsWhole' /\ OneOwnerEach'
  BY AloneStep
<1>2. IInv /\ OneOwnerEach => Cardinality(Live) <= 2
  BY TwoAlive
<1>3. SwapIsWhole => ~torn
  BY DEF SwapIsWhole
<1> QED
  BY <1>1, <1>2, <1>3, AloneInit, InitIInv, StepIInv, PTL DEF SafeSpec
=============================================================================
