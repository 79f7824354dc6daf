------------------------------ MODULE HttpServer ------------------------------
(***************************************************************************)
(* The life of kbms::HttpServer and its entry in the registry: StartServer *)
(* starts the config thread, announces the instance, serves, and announces *)
(* it as UP; Interact's thread renews the lease; SIGTERM runs SignalHandler*)
(* on whatever thread the kernel picks, which takes the instance out of    *)
(* the registry and exits; HttpServer::Stop, called by a thread of the     *)
(* user's, joins the config thread, takes the instance out and returns.    *)
(* The config thread is an UpdatingThread, as ConfigLoader implements it.  *)
(* Left out: HttpServer::UpdateStatus, by which a thread of the user's may *)
(* post any status at any time.  What is said below is said of a program   *)
(* that leaves the announcements to StartServer.                           *)
(*                                                                         *)
(* Every thread waits for the answer to its request, by HttpCurl.  A       *)
(* request may be refused, its answer may be lost, and one that timed out  *)
(* may still reach the registry later.  No caller looks at the result.     *)
(*                                                                         *)
(* pc of "main" (StartServer): config, init, starting (in UpdateStatus(    *)
(*   "STARTING")), install (signal()), listen (service_->Start()),         *)
(*   announce, up (in UpdateStatus("UP")), interact (StartInteract()), serve*)
(* pc of "beat" (Interact::DoUpdating): off, renew, renewing, list,        *)
(*   listing, nap                                                          *)
(* pc of "term" (SignalHandler) and "user" (Stop): off, down, downing,     *)
(*   cancel, cancelling, done                                              *)
(* Time passes in ticks, which the lease and the sleep of "beat" count.    *)
(***************************************************************************)
EXTENDS Naturals, FiniteSets

CONSTANTS SpanTicks,  \* updating_time_span_
          LeaseTicks, \* duration_secs_
          MaxLate,    \* bound: so many requests that were given up may still arrive
          None

ASSUME TicksAssumption == SpanTicks \in Nat /\ LeaseTicks \in Nat /\ MaxLate \in Nat
ASSUME NoneAssumption == None \notin {"main", "beat", "term", "user", "STARTING", "UP", "renew", "list",
                                     "DOWN", "cancel"}
\* What the code relies on and does not enforce: duration_secs_ is the user's,
\* updating_time_span_ is fixed, and renewal_secs_ is told to the registry only.
ASSUME LeaseAssumption == SpanTicks < LeaseTicks

Threads == {"main", "beat", "term", "user"}
Posts == {"STARTING", "UP"}                               \* ReqRegisterCenter
Requests == Posts \cup {"renew", "list", "DOWN", "cancel"} \* SendHeartbeat, ReqSerList, Interrupt

VARIABLES pc,
          awaiting,   \* awaiting[t]: the request whose answer t waits for, or None
          net,        \* threads whose request the registry has not received yet
          late,       \* requests that were given up and may still arrive, with their sender
          slept,      \* ticks of the current sleep of "beat"
          flag_of_mmserver_on_, flag_of_config_on_,
          has_timeout,\* Impl::timeout_ makes requests end
          installed,  \* signal(SIGTERM, SignalHandler) was called
          started,    \* service_->Start() was called
          frozen,     \* the one of Threads that SignalHandler interrupted, or None
          exited,
          cfl_place, cfl_on, cfl_stop, \* the config thread
          registry,   \* the status the registry has for the instance, or None
          lease,      \* ticks until the registry may drop the instance
          clean,      \* history: when SIGTERM came the server served and no Post was late
          cancelled,  \* history: the registry received SignalHandler's DELETE
          missed      \* history: since the lease was set, time passed while a request of "main"
                      \* or "beat" was under way, or a renewal failed

procVars == <<pc, awaiting, net, late, slept>>
flagVars == <<flag_of_mmserver_on_, flag_of_config_on_, has_timeout>>
lifeVars == <<flagVars, installed, started, frozen, exited>>
cflVars == <<cfl_place, cfl_on, cfl_stop>>
regVars == <<registry, lease, clean, cancelled, missed>>
vars == <<procVars, lifeVars, cflVars, regVars>>

Cfl == INSTANCE UpdatingThread WITH place <- cfl_place, on <- cfl_on, stop <- cfl_stop

\* After HttpServer::Init.  Impl's constructor initialises timeout_ with itself: any
\* value, 0 or less for ever.
Init == /\ pc = [t \in Threads |-> IF t = "main" THEN "config" ELSE "off"]
        /\ awaiting = [t \in Threads |-> None]
        /\ net = {} /\ late = {} /\ slept = 0
        /\ flag_of_mmserver_on_ \in BOOLEAN /\ flag_of_config_on_ \in BOOLEAN
        /\ has_timeout \in BOOLEAN
        /\ installed = FALSE /\ started = FALSE /\ frozen = None /\ exited = FALSE
        /\ cfl_place = "off" /\ cfl_on = FALSE /\ cfl_stop = "idle"
        /\ registry = None /\ lease = 0
        /\ clean = FALSE /\ cancelled = FALSE /\ missed = FALSE

-----------------------------------------------------------------------------
(* The registry, and the network. *)

\* The registry receives request k of thread t: a Post and a renewal set the lease.
Receive(t, k) == /\ registry' = CASE k \in Posts -> k
                                  [] k \in {"renew", "list"} -> registry
                                  [] k = "DOWN" -> IF registry = None THEN None ELSE "DOWN"
                                  [] k = "cancel" -> None
                 /\ lease' = IF registry' = None THEN 0
                             ELSE IF k \in Posts \cup {"renew"} THEN LeaseTicks ELSE lease
                 /\ missed' = (missed /\ k \notin Posts \cup {"renew"})
                 /\ cancelled' = (cancelled \/ (t = "term" /\ k = "cancel"))
                 /\ UNCHANGED <<pc, awaiting, slept, lifeVars, cflVars, clean>>

Arrive(t) == /\ t \in net
             /\ net' = net \ {t}
             /\ UNCHANGED late
             /\ Receive(t, awaiting[t])

ArriveLate == \E m \in late : /\ late' = late \ {m}
                              /\ UNCHANGED net
                              /\ Receive(m.by, m.what)

\* No renewal came for duration_secs_.
Evict == /\ registry # None
         /\ lease = 0
         /\ registry' = None
         /\ UNCHANGED <<procVars, lifeVars, cflVars, lease, clean, cancelled, missed>>

\* The requests of the threads in S, no longer waited for, are lost or still come.
MayComeLate(S) ==
    \E L \in SUBSET {[by |-> t, what |-> awaiting[t]] : t \in {u \in S : awaiting[u] # "list"}} :
        /\ Cardinality(late \cup L) <= MaxLate
        /\ late' = late \cup L

-----------------------------------------------------------------------------
(* HttpCurl. *)

Runs(t) == ~exited /\ frozen # t

Goto(t, place) == pc' = [pc EXCEPT ![t] = place]

Send(t, k, place) == /\ Runs(t)
                     /\ awaiting' = [awaiting EXCEPT ![t] = k]
                     /\ net' = net \cup {t}
                     /\ Goto(t, place)
                     /\ UNCHANGED <<late, slept, lifeVars, cflVars, regVars>>

CanTimeOut_Shared(t) == has_timeout
\* Interrupt sets a timeout of its own.
CanTimeOut(t) == t \in {"term", "user"} \/ has_timeout

After_Retry(t) == [starting |-> IF "main" \in net THEN "init" ELSE "install",
                   up |-> IF "main" \in net THEN "announce" ELSE "interact",
                   renewing |-> "list", listing |-> "nap",
                   downing |-> "cancel", cancelling |-> "done"][pc[t]]
\* Where thread t goes on after its request: nobody looks at the result.
After(t) == [starting |-> "install", up |-> "interact", renewing |-> "list", listing |-> "nap",
             downing |-> "cancel", cancelling |-> "done"][pc[t]]

Finish_StillSending(t) == /\ Runs(t)
                          /\ awaiting[t] # None
                          /\ awaiting' = [awaiting EXCEPT ![t] = None]
                          /\ UNCHANGED net
                          /\ missed' = (missed \/ (t \in net /\ awaiting[t] = "renew"))
                          /\ Goto(t, After(t))
                          /\ UNCHANGED <<slept, lifeVars, cflVars, registry, lease, clean, cancelled>>
Finish(t) == /\ Runs(t)
             /\ awaiting[t] # None
             /\ awaiting' = [awaiting EXCEPT ![t] = None]
             /\ net' = net \ {t}
             /\ missed' = (missed \/ (t \in net /\ awaiting[t] = "renew"))
             /\ Goto(t, After(t))
             /\ UNCHANGED <<slept, lifeVars, cflVars, registry, lease, clean, cancelled>>

\* The registry received the request, and the answer came or was lost.
Answered(t) == t \notin net /\ Finish(t) /\ UNCHANGED late

\* CURLOPT_TIMEOUT_MS is over; the request may still be under way.
GivenUp(t) == t \in net /\ CanTimeOut(t) /\ MayComeLate({t}) /\ Finish(t)

\* No connection, or it broke before the registry read the request.
Refused(t) == t \in net /\ Finish(t) /\ UNCHANGED late

Ended(t) == Answered(t) \/ GivenUp(t)

-----------------------------------------------------------------------------
(* StartServer. *)

\* A step of main that is no request.
Advance(from, to) == /\ Runs("main")
                     /\ pc["main"] = from
                     /\ Goto("main", to)
                     /\ UNCHANGED <<awaiting, net, late, slept, flagVars, frozen, exited, regVars>>

StartConfig == /\ Advance("config", IF flag_of_mmserver_on_ THEN "init" ELSE "listen")
               /\ IF flag_of_config_on_ THEN Cfl!Run ELSE UNCHANGED cflVars
               /\ UNCHANGED <<installed, started>>

\* UpdateStatus("STARTING") and, later, UpdateStatus("UP").
UpdateStatus == \/ pc["main"] = "init" /\ Send("main", "STARTING", "starting")
                \/ pc["main"] = "announce" /\ Send("main", "UP", "up")

Install == /\ Advance("install", "listen")
           /\ installed' = TRUE
           /\ UNCHANGED <<started, cflVars>>

StartService_Late == /\ Advance("listen", IF flag_of_mmserver_on_ THEN "announce" ELSE "serve")
                     /\ UNCHANGED <<installed, started, cflVars>>
\* service_->Start(); whether it listens is not looked at.
StartService == /\ Advance("listen", IF flag_of_mmserver_on_ THEN "announce" ELSE "serve")
                /\ started' = TRUE
                /\ UNCHANGED <<installed, cflVars>>

\* StartInteract, then while (true).
StartInteract == /\ Runs("main")
                 /\ pc["main"] = "interact"
                 /\ pc' = [pc EXCEPT !["main"] = "serve", !["beat"] = "renew"]
                 /\ UNCHANGED <<awaiting, net, late, slept, lifeVars, cflVars, regVars>>

-----------------------------------------------------------------------------
(* Interact's thread, Interrupt, and the config thread. *)

KeepActive_Registers == pc["beat"] = "renew" /\ Send("beat", "UP", "renewing")
KeepActive == pc["beat"] = "renew" /\ Send("beat", "renew", "renewing")

ServerDisc == pc["beat"] = "list" /\ Send("beat", "list", "listing")

NapOver_Lease == slept >= LeaseTicks
NapOver == slept >= SpanTicks

Nap == /\ Runs("beat")
       /\ pc["beat"] = "nap"
       /\ NapOver
       /\ slept' = 0
       /\ Goto("beat", "renew")
       /\ UNCHANGED <<awaiting, net, late, lifeVars, cflVars, regVars>>

\* Stop comes to it once the config thread is joined.
Interrupt(t) == \/ /\ pc[t] = "down"
                   /\ t = "user" => cfl_stop = "done"
                   /\ Send(t, "DOWN", "downing")
                \/ pc[t] = "cancel" /\ Send(t, "cancel", "cancelling")

UpdateConfig == /\ ~exited
                /\ Cfl!Begin \/ Cfl!Leave \/ (Runs("user") /\ Cfl!Joined)
                /\ UNCHANGED <<procVars, lifeVars, regVars>>

-----------------------------------------------------------------------------
(* SIGTERM, Stop, and time. *)

\* Requests that die with the process may still have been sent.
Die == /\ exited' = TRUE
       /\ MayComeLate(net)
       /\ net' = {}
       /\ awaiting' = [t \in Threads |-> None]
       /\ UNCHANGED <<pc, slept, flagVars, installed, started, frozen, cflVars, regVars>>

\* Before signal() SIGTERM kills.
Kill == ~exited /\ ~installed /\ Die

\* The kernel interrupts any thread: one of these, or another.
SigTerm == /\ ~exited /\ installed
           /\ pc["term"] = "off"
           /\ frozen' \in {None} \cup {t \in Threads \ {"term"} : pc[t] # "off"}
           /\ clean' = (pc["main"] = "serve" /\ {m \in late : m.what \in Posts} = {})
           /\ Goto("term", "down")
           /\ UNCHANGED <<awaiting, net, late, slept, flagVars, installed, started, exited, cflVars,
                          registry, lease, cancelled, missed>>

\* exit(signum)
Exit == ~exited /\ pc["term"] = "done" /\ Die

\* HttpServer::Stop up to the join of the config thread.  With one of the flags off
\* it would use a pointer that Init left uninitialised.
Stop == /\ Runs("user")
        /\ flag_of_mmserver_on_ /\ flag_of_config_on_
        /\ pc["user"] = "off"
        /\ Cfl!Stop
        /\ Goto("user", "down")
        /\ UNCHANGED <<awaiting, net, late, slept, lifeVars, regVars>>

\* A thread that has something to do other than to wait.
Busy(t) == \/ t = "main" /\ pc[t] # "serve" /\ awaiting[t] = None
           \/ t = "beat" /\ (pc[t] \in {"renew", "list"} \/ (pc[t] = "nap" /\ NapOver))

\* One tick: what a thread does between two waits takes no time.
Tick == /\ \A t \in {"main", "beat"} : Runs(t) => ~Busy(t)
        /\ lease' = IF lease = 0 THEN 0 ELSE lease - 1
        /\ slept' = IF pc["beat"] = "nap" /\ ~NapOver THEN slept + 1 ELSE slept
        /\ missed' = (missed \/ awaiting["main"] # None \/ awaiting["beat"] # None)
        /\ UNCHANGED <<pc, awaiting, net, late, lifeVars, cflVars, registry, clean, cancelled>>

-----------------------------------------------------------------------------
Step(t) == \/ t = "main" /\ (StartConfig \/ UpdateStatus \/ Install \/ StartService \/ StartInteract)
           \/ t = "beat" /\ (KeepActive \/ ServerDisc \/ Nap)
           \/ t \in {"term", "user"} /\ Interrupt(t)
           \/ t = "term" /\ Exit

Gone == exited /\ UNCHANGED vars

Next == \/ \E t \in Threads : Step(t) \/ Ended(t) \/ Refused(t) \/ Arrive(t)
        \/ ArriveLate \/ Evict \/ Tick
        \/ UpdateConfig
        \/ Kill \/ SigTerm \/ Stop
        \/ Gone

\* Threads run, and a request that is answered or has a timeout ends.  The
\* registry need not answer.
Fairness == /\ \A t \in Threads : WF_vars(Step(t)) /\ WF_vars(Ended(t))
            /\ WF_vars(UpdateConfig)

SafeSpec == Init /\ [][Next]_vars
Spec == SafeSpec /\ Fairness

-----------------------------------------------------------------------------
(* Properties. *)

Places == {"off", "config", "init", "starting", "install", "listen", "announce", "up", "interact",
           "serve", "renew", "renewing", "list", "listing", "nap", "down", "downing", "cancel",
           "cancelling", "done"}

\* The type of every variable.
TypeOK == /\ pc \in [Threads -> Places]
          /\ awaiting \in [Threads -> Requests \cup {None}]
          /\ net \subseteq {t \in Threads : awaiting[t] # None}
          /\ late \subseteq [by : Threads, what : Requests]
          /\ slept \in 0..SpanTicks
          /\ frozen \in Threads \cup {None}
          /\ flag_of_mmserver_on_ \in BOOLEAN /\ flag_of_config_on_ \in BOOLEAN
          /\ has_timeout \in BOOLEAN /\ installed \in BOOLEAN /\ started \in BOOLEAN
          /\ exited \in BOOLEAN /\ clean \in BOOLEAN /\ cancelled \in BOOLEAN /\ missed \in BOOLEAN
          /\ cfl_place \in {"off", "created", "running", "exit"}
          /\ cfl_on \in BOOLEAN /\ cfl_stop \in {"idle", "join", "done"}
          /\ registry \in Posts \cup {"DOWN", None}
          /\ lease \in 0..LeaseTicks

\* Clients are never sent to an instance before its service is started, even by
\* an announcement that arrives late.
UpMeansStarted == registry = "UP" => started

\* SIGTERM of a serving instance whose announcements have all arrived or failed
\* takes it out for good: once the registry has SignalHandler's DELETE, nothing
\* that the other threads have under way, or do until exit(), lists it again.
CancelIsFinal == clean /\ cancelled => registry = None

\* An instance that is listed as UP stays so, though nobody announces it again: it
\* changes only by SIGTERM, by Stop, by a STARTING that overtook nobody and comes
\* late, or when requests failed or took time since the lease was set.  A registry
\* that answers at once never drops it between two heartbeats.
UpIsKept ==
    [][registry = "UP" /\ registry' # "UP" =>
           \/ missed \/ exited
           \/ pc["term"] # "off" \/ pc["user"] \notin {"off", "down"}
           \/ \E m \in late : m.what = "STARTING"]_vars

\* SignalHandler comes to exit() though the registry may not answer and the
\* thread it interrupted may hold a request that never ends.
TermEnds == (pc["term"] = "down") ~> exited

\* StartServer comes to start the service whatever the registry does, if the
\* uninitialised timeout_ happens to end its requests.
StartsInTheEnd == has_timeout ~> (started \/ exited)

\* HttpServer::Stop, which waits for the config thread before it tells the registry,
\* comes to its end if that thread has set its flag or does not exist yet, though
\* the registry may not answer.
StopEnds == (pc["user"] = "down" /\ cfl_place # "created" /\ ~cfl_on)
                ~> (pc["user"] = "done" \/ exited)

\* "stop interacting with registry" (http_server.cc:62): when Stop has returned,
\* a heartbeat thread that was at work sends the registry no request any more.
StopStopsInteracting ==
    [][pc["user"] = "done" /\ pc["beat"] # "off" /\ awaiting["beat"] = None
          => awaiting'["beat"] = None]_vars
=============================================================================
