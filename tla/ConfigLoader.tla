----------------------------- MODULE ConfigLoader -----------------------------
(***************************************************************************)
(* kbms::ConfigLoader: a thread fetches the configuration again and again, *)
(* swaps a pointer to it in, waits for time_of_waiting_for_using_ seconds  *)
(* and deletes the old one, while any thread may read through the pointer  *)
(* in GetConfig without a lock.  HandsOnUpdate runs the same update on the *)
(* caller's thread, with the same HttpCurl.                                *)
(*                                                                         *)
(* upc[u] is where updater u stands:                                       *)
(*   off      not in this code (the thread: not created)                   *)
(*   created  the thread exists, StartUpdating has not begun               *)
(*   test     at while (flag_of_updating_is_on_)                           *)
(*   fetch    in DoUpdating, waiting for http_curl_->Get                   *)
(*   compare  has a response with a body                                   *)
(*   swap     has a new Config, at std::swap                               *)
(*   swapping in std::swap, has read config_ and not written it            *)
(*   grace    asleep, to let readers of the old Config finish              *)
(*   nap      asleep between two updates                                   *)
(*   exit     StartUpdating has returned                                   *)
(* A Config is its address, which another may get once it is deleted.      *)
(* Time passes in ticks; only the readers and the grace period measure it. *)
(***************************************************************************)
EXTENDS Naturals, FiniteSets

CONSTANTS Thread,     \* the updating thread
          HandsOn,    \* threads that call HandsOnUpdate
          Readers,    \* threads that call GetConfig
          Bodies,     \* what the server may answer
          GraceTicks, \* time_of_waiting_for_using_
          ReadTicks,  \* how long a GetConfig may take at most
          Addresses,  \* bound: where a Config can be; with none free every fetch fails
          Null

Updaters == {Thread} \cup HandsOn

ASSUME ConfigAssumption == /\ Thread \notin HandsOn /\ IsFiniteSet(HandsOn)
                           /\ GraceTicks \in Nat /\ ReadTicks \in Nat
                           /\ Null \notin Addresses \cup Bodies
\* What the code relies on and does not enforce: a reader is done with the old
\* Config before its grace period is over.
ASSUME GraceAssumption == ReadTicks < GraceTicks

VARIABLES config_,  \* the current Config, or Null
          heap,     \* heap[c]: the data_ of Config c, or Null: there is none at c
          upc,
          body,     \* body[u]: the response that updater u compares, or Null
          new,      \* new[u]: config_new of updater u, or Null
          old,      \* old[u]: what u swapped out and has to delete, or Null
          slept,    \* slept[u]: ticks u has spent in its grace period
          reading,  \* reading[r]: the Config that reader r copies from, or Null
          age,      \* age[r]: ticks since r read config_
          flag_of_updating_is_on_,
          flag_of_updating_status_,
          stop,     \* the caller of Stop: "idle", "join", "done"
          torn      \* history: a swap wrote config_ that another had written since it read it

heapVars == <<config_, heap, torn>>
updVars == <<upc, body, new, old, slept>>
readVars == <<reading, age>>
flagVars == <<flag_of_updating_is_on_, flag_of_updating_status_, stop>>
vars == <<heapVars, updVars, readVars, flagVars>>

Places == {"off", "created", "test", "fetch", "compare", "swap", "swapping", "grace", "nap", "exit"}
InUpdate == {"fetch", "compare", "swap", "swapping", "grace"}

\* The constructor leaves flag_of_updating_status_ uninitialised.
Init == /\ config_ = Null
        /\ heap = [c \in Addresses |-> Null]
        /\ upc = [u \in Updaters |-> "off"]
        /\ body = [u \in Updaters |-> Null]
        /\ new = [u \in Updaters |-> Null]
        /\ old = [u \in Updaters |-> Null]
        /\ slept = [u \in Updaters |-> 0]
        /\ reading = [r \in Readers |-> Null]
        /\ age = [r \in Readers |-> 0]
        /\ flag_of_updating_is_on_ = FALSE
        /\ flag_of_updating_status_ \in BOOLEAN
        /\ stop = "idle"
        /\ torn = FALSE

Goto(u, place) == upc' = [upc EXCEPT ![u] = place]

-----------------------------------------------------------------------------
(* The updating thread around DoUpdating. *)

Start == /\ upc[Thread] = "off"
         /\ Goto(Thread, "created")
         /\ UNCHANGED <<heapVars, body, new, old, slept, readVars, flagVars>>

\* StartUpdating begins: the thread itself sets the flag.
Enter == /\ upc[Thread] = "created"
         /\ flag_of_updating_is_on_' = TRUE
         /\ Goto(Thread, "test")
         /\ UNCHANGED <<heapVars, body, new, old, slept, readVars, flag_of_updating_status_, stop>>

KeepUpdating_Always == TRUE
KeepUpdating == flag_of_updating_is_on_

Test == /\ upc[Thread] = "test"
        /\ IF KeepUpdating
           THEN Goto(Thread, "fetch") /\ flag_of_updating_status_' = TRUE
           ELSE Goto(Thread, "exit") /\ UNCHANGED flag_of_updating_status_
        /\ UNCHANGED <<heapVars, body, new, old, slept, readVars, flag_of_updating_is_on_, stop>>

\* The sleep of updating_time_span_ seconds is over.
Nap == /\ upc[Thread] = "nap"
       /\ Goto(Thread, "test")
       /\ UNCHANGED <<heapVars, body, new, old, slept, readVars, flagVars>>

\* StopUpdating, and Stop up to join().
Stop == /\ stop = "idle"
        /\ flag_of_updating_is_on_' = FALSE
        /\ stop' = IF upc[Thread] = "off" THEN "done" ELSE "join"
        /\ UNCHANGED <<heapVars, updVars, readVars, flag_of_updating_status_>>

Joined == /\ stop = "join"
          /\ upc[Thread] = "exit"
          /\ stop' = "done"
          /\ UNCHANGED <<heapVars, updVars, readVars, flag_of_updating_is_on_, flag_of_updating_status_>>

\* The condition HandsOnUpdate tests: it goes on when the flag says an update is running.
MayUpdateByHand == flag_of_updating_status_

HandsOnUpdate(h) == /\ upc[h] = "off"
                    /\ MayUpdateByHand
                    /\ Goto(h, "fetch")
                    /\ UNCHANGED <<heapVars, body, new, old, slept, readVars, flagVars>>

-----------------------------------------------------------------------------
(* DoUpdating. *)

\* DoUpdating returns: the thread clears flag_of_updating_status_ and naps.
Leave(u) == IF u = Thread
            THEN Goto(u, "nap") /\ flag_of_updating_status_' = FALSE
            ELSE Goto(u, "off") /\ UNCHANGED flag_of_updating_status_

\* An HTTP error or an empty body.
FetchFails(u) == /\ upc[u] = "fetch"
                 /\ Leave(u)
                 /\ UNCHANGED <<heapVars, body, new, old, slept, readVars, flag_of_updating_is_on_, stop>>

Live == {c \in Addresses : heap[c] # Null}

\* There is an address for whatever is yet to be allocated.
HasRoom == Cardinality({v \in Updaters : upc[v] = "compare"}) < Cardinality(Addresses \ Live)

Accepted_Empty == Bodies \cup {""}
\* The code is SC_SUCCESS and the body not empty.
Accepted == Bodies

Fetch(u) == /\ upc[u] = "fetch"
            /\ HasRoom
            /\ \E b \in Accepted : body' = [body EXCEPT ![u] = b]
            /\ Goto(u, "compare")
            /\ UNCHANGED <<heapVars, new, old, slept, readVars, flagVars>>

\* The comparison with the current data_. When an overlap of swaps has led to the
\* deletion of the current Config, what is read there is anything: both hold.
IsNews(u) == config_ # Null => heap[config_] # body[u]
IsKnown(u) == config_ # Null /\ heap[config_] \in {body[u], Null}

Unchanged(u) == /\ upc[u] = "compare"
                /\ IsKnown(u)
                /\ body' = [body EXCEPT ![u] = Null]
                /\ Leave(u)
                /\ UNCHANGED <<heapVars, new, old, slept, readVars, flag_of_updating_is_on_, stop>>

\* new Config, with the response as its data_.
Allocate(u) == /\ upc[u] = "compare"
               /\ IsNews(u)
               /\ \E c \in Addresses \ Live : /\ heap' = [heap EXCEPT ![c] = body[u]]
                                             /\ new' = [new EXCEPT ![u] = c]
               /\ body' = [body EXCEPT ![u] = Null]
               /\ Goto(u, "swap")
               /\ UNCHANGED <<config_, torn, old, slept, readVars, flagVars>>

\* The half of std::swap that reads config_.
SwapReads(u) == /\ upc[u] = "swap"
                /\ old' = [old EXCEPT ![u] = config_]
                /\ Goto(u, "swapping")
                /\ UNCHANGED <<heapVars, body, new, slept, readVars, flagVars>>

\* The half that writes config_; the grace period begins.
Swap(u) == /\ upc[u] = "swapping"
           /\ config_' = new[u]
           /\ new' = [new EXCEPT ![u] = Null]
           /\ torn' = (torn \/ old[u] # config_)
           /\ Goto(u, "grace")
           /\ UNCHANGED <<heap, body, old, slept, readVars, flagVars>>

GraceOver_TooEarly(u) == slept[u] + 1 >= GraceTicks
GraceOver(u) == slept[u] >= GraceTicks

Discard_Current(u) == heap' = [c \in Addresses |-> IF c = config_ THEN Null ELSE heap[c]]
Discard(u) == heap' = [c \in Addresses |-> IF c = old[u] THEN Null ELSE heap[c]]

\* The sleep is over: delete the old Config, if there was one, and return.
Delete(u) == /\ upc[u] = "grace"
             /\ GraceOver(u)
             /\ Discard(u)
             /\ old' = [old EXCEPT ![u] = Null]
             /\ slept' = [slept EXCEPT ![u] = 0]
             /\ Leave(u)
             /\ UNCHANGED <<config_, torn, body, new, readVars, flag_of_updating_is_on_, stop>>

-----------------------------------------------------------------------------
(* The readers, and time. *)

\* GetConfig reads config_; it returns at once when that is null.
GetConfig(r) == /\ reading[r] = Null
                /\ config_ # Null
                /\ reading' = [reading EXCEPT ![r] = config_]
                /\ age' = [age EXCEPT ![r] = 0]
                /\ UNCHANGED <<heapVars, updVars, flagVars>>

\* The copy of data_ is complete.
GetConfigReturns(r) == /\ reading[r] # Null
                       /\ reading' = [reading EXCEPT ![r] = Null]
                       /\ age' = [age EXCEPT ![r] = 0]
                       /\ UNCHANGED <<heapVars, updVars, flagVars>>

Active == {r \in Readers : reading[r] # Null}
Sleepers == {u \in Updaters : upc[u] = "grace" /\ slept[u] < GraceTicks}

\* One tick, as long as it leaves no reader over its time.
Tick == /\ \A r \in Active : age[r] < ReadTicks
        /\ age' = [r \in Readers |-> IF r \in Active THEN age[r] + 1 ELSE age[r]]
        /\ slept' = [u \in Updaters |-> IF u \in Sleepers THEN slept[u] + 1 ELSE slept[u]]
        /\ UNCHANGED <<heapVars, upc, body, new, old, reading, flagVars>>

-----------------------------------------------------------------------------
DoUpdating(u) == \/ FetchFails(u) \/ Fetch(u) \/ Unchanged(u)
                 \/ Allocate(u) \/ SwapReads(u) \/ Swap(u) \/ Delete(u)
ThreadStep == Enter \/ Test \/ Nap \/ DoUpdating(Thread)

Next == \/ Start \/ Stop \/ Joined
        \/ ThreadStep
        \/ \E h \in HandsOn : HandsOnUpdate(h) \/ DoUpdating(h)
        \/ \E r \in Readers : GetConfig(r) \/ GetConfigReturns(r)
        \/ Tick

\* The thread runs, a fetch ends (HttpCurl has a timeout), readers finish, time passes.
Fairness == /\ WF_vars(ThreadStep) /\ WF_vars(Joined) /\ WF_vars(Tick)
            /\ \A h \in HandsOn : WF_vars(DoUpdating(h))
            /\ \A r \in Readers : WF_vars(GetConfigReturns(r))

SafeSpec == Init /\ [][Next]_vars
Spec == SafeSpec /\ Fairness

-----------------------------------------------------------------------------
(* Properties. *)

\* The type of every variable.
TypeOK == /\ heap \in [Addresses -> Bodies \cup {Null}]
          /\ config_ \in Addresses \cup {Null}
          /\ upc \in [Updaters -> Places]
          /\ body \in [Updaters -> Bodies \cup {Null}]
          /\ new \in [Updaters -> Addresses \cup {Null}]
          /\ old \in [Updaters -> Addresses \cup {Null}]
          /\ slept \in [Updaters -> 0..GraceTicks]
          /\ reading \in [Readers -> Addresses \cup {Null}]
          /\ age \in [Readers -> 0..ReadTicks]
          /\ flag_of_updating_is_on_ \in BOOLEAN
          /\ flag_of_updating_status_ \in BOOLEAN
          /\ stop \in {"idle", "join", "done"}
          /\ torn \in BOOLEAN

\* No GetConfig copies from a Config that was deleted: the grace period, counted
\* from the swap, outlasts every reader that got the old pointer before the swap.
\* That ends when two swaps overlap: both updaters then delete the same old Config,
\* the second perhaps when its address is that of the current one.
NoReadAfterDelete == ~torn => \A r \in Active : reading[r] \in Live

\* How many have to look after address c: the allocator while it is free, whoever is
\* to make its Config current, config_ itself, and whoever is to delete it.
Owners(c) == LET holders == {u \in Updaters : new[u] = c \/ (upc[u] = "grace" /\ old[u] = c)}
             IN  Cardinality({c} \ Live) + Cardinality({config_} \cap {c}) + Cardinality(holders)

\* The second half of a swap whose first half read a pointer that was replaced since.
TornSwap == \E u \in Updaters : upc[u] = "swapping" /\ old[u] # config_ /\ upc'[u] # "swapping"

\* No Config is leaked, or deleted twice or while current: it has one owner from
\* its allocation on.  Only the two halves of two swaps, one inside the other,
\* can break that; the thread alone never does.
ConfigHasOneOwner ==
    [][\A c \in Addresses : Owners(c) = 1 /\ ~TornSwap => Owners(c)' = 1]_vars

\* "it will be fail if it is updating now" (config_loader.cc:86): HandsOnUpdate
\* does not begin to fetch, over the shared http_curl_, while the thread updates.
HandsOnFailsWhileUpdating ==
    [][\A h \in HandsOn : upc[Thread] \in InUpdate /\ upc[h] = "off" => upc'[h] = "off"]_vars

\* Stop ends the thread ("stop thread", config_loader.h:47) whenever it is called.
StopReturns == (stop = "join") ~> (stop = "done")

\* The thread lives as an UpdatingThread: whatever HandsOnUpdate and the readers do
\* beside it, a Stop that comes once it has begun gets it joined, in a fetch, in a
\* grace period or asleep.
Life == INSTANCE UpdatingThread WITH
            place <- IF upc[Thread] \in {"off", "created", "exit"} THEN upc[Thread] ELSE "running",
            on <- flag_of_updating_is_on_
ImplementsUpdatingThread == Life!Spec
=============================================================================
