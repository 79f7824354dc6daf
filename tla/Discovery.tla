------------------------------ MODULE Discovery ------------------------------
(***************************************************************************)
(* The service lists of kbms::Interact: its updating thread sends a        *)
(* heartbeat, asks the registry for all services, fills the spare one of   *)
(* two maps with the answer and publishes it by incrementing flag_num_,    *)
(* then sleeps; AcqInstance looks a service up in the map flag_num_ names, *)
(* without a lock.  Nothing but the sleep keeps the thread from clearing a *)
(* map that a slow AcqInstance still reads.                                *)
(*                                                                         *)
(* upc is where the thread stands:                                         *)
(*   off      not created        created  DoUpdating has not begun         *)
(*   test     at while (flag_of_updating_is_on_)                           *)
(*   beat     in KeepActive      fetch    in ReqSerList, waiting for Get   *)
(*   fill     in ParserData, has cleared the spare map                     *)
(*   nap      asleep             exit     DoUpdating has returned          *)
(* A map is a function from every name to its hosts, {} for a name that it *)
(* does not hold.  Time passes in ticks; the sleep and the lookups count.  *)
(***************************************************************************)
EXTENDS Naturals, Sequences

CONSTANTS Readers,   \* threads that call AcqInstance
          Names,     \* of services
          Hosts,
          Answers,   \* what the registry may answer: sequences of applications
          Bad,       \* an application at which ParserData gives up, not JSON at all included
          SpanTicks, \* updating_time_span_
          ReadTicks, \* how long an AcqInstance may take at most
          MaxFlag,   \* bound: every fetch fails once flag_num_ is as large
          None

MAXNUM == 2

ASSUME AnswersAssumption == /\ Answers \subseteq Seq([name : Names, up : SUBSET Hosts] \cup {Bad})
                            /\ Bad \notin [name : Names, up : SUBSET Hosts]
                            /\ None \notin Hosts \cup Names
                            /\ None \notin 0..1
                            /\ None \notin [Names -> SUBSET Hosts]
                            /\ MaxFlag \in Nat /\ SpanTicks \in Nat /\ ReadTicks \in Nat
\* What the code relies on and does not enforce: a lookup is faster than the sleep.
ASSUME SpanAssumption == ReadTicks < SpanTicks

VARIABLES server_vec_, \* the two maps
          flag_num_,
          upc,
          rest,        \* ParserData: the applications not yet visited
          slept,       \* ticks of the current sleep
          num,         \* num[r]: the index that r's AcqInstance computed, or None
          name,        \* name[r]: the service it looks up, or None
          age,         \* age[r]: ticks since it read flag_num_
          instance,    \* instance[r]: the host that the last one returned, or None
          flag_of_updating_is_on_,
          stop         \* the caller of Stop: "idle", "join", "done"

readVars == <<num, name, age, instance>>
flagVars == <<flag_of_updating_is_on_, stop>>
vars == <<server_vec_, flag_num_, upc, rest, slept, readVars, flagVars>>

Empty == [n \in Names |-> {}]

\* Impl's constructor.
Init == /\ server_vec_ = [i \in 0..1 |-> Empty]
        /\ flag_num_ = 0
        /\ upc = "off"
        /\ rest = <<>>
        /\ slept = 0
        /\ num = [r \in Readers |-> None]
        /\ name = [r \in Readers |-> None]
        /\ age = [r \in Readers |-> 0]
        /\ instance = [r \in Readers |-> None]
        /\ flag_of_updating_is_on_ \in BOOLEAN
        /\ stop = "idle"

-----------------------------------------------------------------------------
(* The thread around its work. *)

Run == /\ upc = "off"
       /\ upc' = "created"
       /\ UNCHANGED <<server_vec_, flag_num_, rest, slept, readVars, flagVars>>

\* DoUpdating begins: the thread itself sets the flag.
Enter == /\ upc = "created"
         /\ flag_of_updating_is_on_' = TRUE
         /\ upc' = "test"
         /\ UNCHANGED <<server_vec_, flag_num_, rest, slept, readVars, stop>>

KeepUpdating_Always == TRUE
KeepUpdating == flag_of_updating_is_on_

Test == /\ upc = "test"
        /\ upc' = IF KeepUpdating THEN "beat" ELSE "exit"
        /\ UNCHANGED <<server_vec_, flag_num_, rest, slept, readVars, flagVars>>

\* KeepActive ends; its result is only logged.
KeepActive == /\ upc = "beat"
              /\ upc' = "fetch"
              /\ UNCHANGED <<server_vec_, flag_num_, rest, slept, readVars, flagVars>>

NapOver_AtOnce == TRUE
NapOver == slept >= SpanTicks

Nap == /\ upc = "nap"
       /\ NapOver
       /\ upc' = "test"
       /\ slept' = 0
       /\ UNCHANGED <<server_vec_, flag_num_, rest, readVars, flagVars>>

\* StopUpdating, and Stop up to join().
Stop == /\ stop = "idle"
        /\ flag_of_updating_is_on_' = FALSE
        /\ stop' = IF upc = "off" THEN "done" ELSE "join"
        /\ UNCHANGED <<server_vec_, flag_num_, upc, rest, slept, readVars>>

Joined == /\ stop = "join"
          /\ upc = "exit"
          /\ stop' = "done"
          /\ UNCHANGED <<server_vec_, flag_num_, upc, rest, slept, readVars, flag_of_updating_is_on_>>

-----------------------------------------------------------------------------
(* ServerDisc: ReqSerList and ParserData. *)

Current_Raw == flag_num_
Current == flag_num_ % MAXNUM
Spare_InPlace == flag_num_ % MAXNUM
Spare == (flag_num_ + 1) % MAXNUM

\* The answer is not SC_SUCCESS.
FetchFails == /\ upc = "fetch"
              /\ upc' = "nap"
              /\ UNCHANGED <<server_vec_, flag_num_, rest, slept, readVars, flagVars>>

\* ParserData clears the spare map before it looks at the answer.
Fetch == /\ upc = "fetch"
         /\ flag_num_ < MaxFlag
         /\ rest' \in Answers
         /\ server_vec_' = [server_vec_ EXCEPT ![Spare] = Empty]
         /\ upc' = "fill"
         /\ UNCHANGED <<flag_num_, slept, readVars, flagVars>>

\* Not JSON, or an exception: the spare map keeps what it got and is not published.
ParseFails == /\ upc = "fill"
              /\ rest # <<>> /\ Head(rest) = Bad
              /\ rest' = <<>>
              /\ upc' = "nap"
              /\ UNCHANGED <<server_vec_, flag_num_, slept, readVars, flagVars>>

Inserted_Last(map, a) == IF a.up = {} THEN map ELSE [map EXCEPT ![a.name] = a.up]
\* std::map::insert leaves a name that is already there alone; an application
\* without an instance that is UP is skipped.
Inserted(map, a) == IF map[a.name] = {} THEN [map EXCEPT ![a.name] = a.up] ELSE map

\* One round of the loop over the applications.
Insert == /\ upc = "fill"
          /\ rest # <<>> /\ Head(rest) # Bad
          /\ server_vec_' = [server_vec_ EXCEPT ![Spare] = Inserted(@, Head(rest))]
          /\ rest' = Tail(rest)
          /\ UNCHANGED <<flag_num_, upc, slept, readVars, flagVars>>

Publish == /\ upc = "fill"
           /\ rest = <<>>
           /\ flag_num_' = flag_num_ + 1
           /\ upc' = "nap"
           /\ UNCHANGED <<server_vec_, rest, slept, readVars, flagVars>>

-----------------------------------------------------------------------------
(* AcqInstance, and time. *)

\* It reads flag_num_ and computes the index.
AcqInstance(r, n) == /\ num[r] = None
                     /\ num' = [num EXCEPT ![r] = Current]
                     /\ name' = [name EXCEPT ![r] = n]
                     /\ age' = [age EXCEPT ![r] = 0]
                     /\ UNCHANGED <<server_vec_, flag_num_, upc, rest, slept, instance, flagVars>>

\* It has looked the name up, copied the hosts and drawn one of them, if any.
AcqInstanceReturns(r) ==
    /\ num[r] # None
    /\ LET hosts == server_vec_[num[r]][name[r]]
       IN  \E h \in (IF hosts = {} THEN {None} ELSE hosts) : instance' = [instance EXCEPT ![r] = h]
    /\ num' = [num EXCEPT ![r] = None]
    /\ name' = [name EXCEPT ![r] = None]
    /\ age' = [age EXCEPT ![r] = 0]
    /\ UNCHANGED <<server_vec_, flag_num_, upc, rest, slept, flagVars>>

Active == {r \in Readers : num[r] # None}

\* One tick, as long as it leaves no lookup over its time.
Tick == /\ \A r \in Active : age[r] < ReadTicks
        /\ age' = [r \in Readers |-> IF r \in Active THEN age[r] + 1 ELSE age[r]]
        /\ slept' = IF upc = "nap" /\ slept < SpanTicks THEN slept + 1 ELSE slept
        /\ UNCHANGED <<server_vec_, flag_num_, upc, rest, num, name, instance, flagVars>>

-----------------------------------------------------------------------------
\* What the thread does by itself, and the ends of the requests it waits for.
OwnStep == Enter \/ Test \/ Nap \/ ParseFails \/ Insert \/ Publish
RequestEnds == KeepActive \/ FetchFails \/ Fetch
ThreadStep == OwnStep \/ RequestEnds

Next == \/ Run \/ Stop \/ Joined
        \/ ThreadStep
        \/ \E r \in Readers : AcqInstanceReturns(r) \/ \E n \in Names : AcqInstance(r, n)
        \/ Tick

\* The thread runs, lookups finish and time passes.  Nothing is said of its requests:
\* Impl never sets timeout_, so one that the registry does not answer may last for ever.
Fairness == /\ WF_vars(OwnStep) /\ WF_vars(Joined) /\ WF_vars(Tick)
            /\ \A r \in Readers : WF_vars(AcqInstanceReturns(r))

SafeSpec == Init /\ [][Next]_vars
Spec == SafeSpec /\ Fairness

-----------------------------------------------------------------------------
(* Properties. *)

\* The type of every variable.
TypeOK == /\ server_vec_ \in [0..1 -> [Names -> SUBSET Hosts]]
          /\ flag_num_ \in 0..MaxFlag
          /\ upc \in {"off", "created", "test", "beat", "fetch", "fill", "nap", "exit"}
          /\ rest \in Seq([name : Names, up : SUBSET Hosts] \cup {Bad})
          /\ slept \in 0..SpanTicks
          /\ num \in [Readers -> 0..1 \cup {None}]
          /\ name \in [Readers -> Names \cup {None}]
          /\ age \in [Readers -> 0..ReadTicks]
          /\ instance \in [Readers -> Hosts \cup {None}]
          /\ flag_of_updating_is_on_ \in BOOLEAN
          /\ stop \in {"idle", "join", "done"}

\* No AcqInstance walks a std::map that the thread clears or fills: the thread
\* comes back to a map only after a sleep, and every lookup that still had the
\* map from before the last publication is over by then.
NoReadWhileWriting == upc = "fill" => \A r \in Active : num[r] # Spare

\* Two maps and a counter implement Directory: a lookup never sees a list that
\* is half filled, half cleared or mixed from two answers, nor one of an answer
\* that could not be parsed to its end.
Dir == INSTANCE Directory WITH current <- server_vec_[Current],
                               asked <- name,
                               seen <- [r \in Readers |-> IF num[r] = None THEN None ELSE server_vec_[num[r]]],
                               answer <- instance
ImplementsDirectory == Dir!SafeSpec

\* The thread always gets out of KeepActive and ReqSerList again.
RequestsEnd == []<>(upc \notin {"beat", "fetch"})

\* The thread lives as an UpdatingThread: as long as its requests end, a Stop that
\* comes once it has begun gets it joined, wherever it stands in its round.
Life == INSTANCE UpdatingThread WITH
            place <- IF upc \in {"off", "created", "exit"} THEN upc ELSE "running",
            on <- flag_of_updating_is_on_
ImplementsUpdatingThread == Life!SafeSpec /\ (RequestsEnd => Life!Fairness)
=============================================================================
