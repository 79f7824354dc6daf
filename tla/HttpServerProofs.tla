--------------------------- MODULE HttpServerProofs ---------------------------
(***************************************************************************)
(* Proofs about HttpServer for any sleep shorter than any lease.  The      *)
(* order of StartServer bounds what can be on its way to the registry      *)
(* (Places, Requests under way, UpIsSent); that nobody but StartServer     *)
(* announces the instance makes SIGTERM final; and LeaseIsCovered relates  *)
(* the lease that is left to where the heartbeat thread stands.            *)
(***************************************************************************)
EXTENDS HttpServer, TLAPS

\* Where each thread can be.
PlacesAreOwn == /\ pc["main"] \in {"config", "init", "starting", "install", "listen", "announce", "up",
                                   "interact", "serve"}
                /\ pc["beat"] \in {"off", "renew", "renewing", "list", "listing", "nap"}
                /\ \A t \in {"term", "user"} : pc[t] \in {"off", "down", "downing", "cancel",
                                                          "cancelling", "done"}
                /\ pc["main"] # "serve" => pc["beat"] = "off"

\* What a thread can be waiting for, and that it waits at the places for that.
WaitsAreOwn ==
    /\ awaiting["main"] # None => \/ pc["main"] = "starting" /\ awaiting["main"] = "STARTING"
                                  \/ pc["main"] = "up" /\ awaiting["main"] = "UP"
    /\ awaiting["beat"] # None => \/ pc["beat"] = "renewing" /\ awaiting["beat"] = "renew"
                                  \/ pc["beat"] = "listing" /\ awaiting["beat"] = "list"
    /\ \A t \in {"term", "user"} :
           awaiting[t] # None => \/ pc[t] = "downing" /\ awaiting[t] = "DOWN"
                                 \/ pc[t] = "cancelling" /\ awaiting[t] = "cancel"
    /\ ~exited => /\ pc["main"] = "up" => awaiting["main"] # None
                  /\ pc["beat"] \in {"renewing", "listing"} => awaiting["beat"] # None

\* StartServer has come to UpdateStatus("UP"), and the heartbeats follow.
UpSent == pc["main"] \in {"up", "interact"} \/ (pc["main"] = "serve" /\ pc["beat"] # "off")

\* What is late was sent by who sends it, and not too early.
LateIsSent == \A m \in late : /\ m.what = "UP" => UpSent
                              /\ m.what \in {"DOWN", "cancel"} <=> m.by \in {"term", "user"}
                              /\ m.by \in {"term", "user"} => pc[m.by] \notin {"off", "down"}

UpIsSent == registry = "UP" => UpSent

ServiceFirst == pc["main"] \in {"announce", "up", "interact", "serve"} => started

\* What SignalHandler alone does.
TermIsLater == pc["term"] = "off" => frozen = None /\ ~cancelled /\ ~clean

NothingListsAgain == clean => /\ pc["main"] = "serve"
                              /\ \A m \in late : m.what \notin Posts
                              /\ cancelled => registry = None

\* While all goes well the lease outlives the next heartbeat.
LeaseIsCovered ==
    registry = "UP" /\ ~missed /\ ~exited /\ pc["term"] = "off" =>
        /\ pc["beat"] \in {"off", "list", "listing"} => lease = LeaseTicks
        /\ pc["beat"] \in {"renew", "renewing"} => lease + SpanTicks >= LeaseTicks
        /\ pc["beat"] = "renewing" /\ "beat" \notin net => lease = LeaseTicks
        /\ pc["beat"] = "nap" => lease + slept >= LeaseTicks

IInv == /\ TypeOK /\ PlacesAreOwn /\ WaitsAreOwn /\ LateIsSent /\ UpIsSent /\ ServiceFirst
        /\ TermIsLater /\ NothingListsAgain /\ LeaseIsCovered

-----------------------------------------------------------------------------
(* The helpers of the actions.                                              *)

\* What is late has been late or is one of the requests just given up.
LEMMA LateGrows ==
    ASSUME NEW S \in SUBSET Threads, MayComeLate(S)
    PROVE  \A m \in late' : m \in late \/ \E t \in S : m = [by |-> t, what |-> awaiting[t]]
  BY DEF MayComeLate

LEMMA AfterIs ==
    ASSUME NEW t \in Threads
    PROVE  /\ pc[t] = "starting" => After(t) = "install"
           /\ pc[t] = "up" => After(t) = "interact"
           /\ pc[t] = "renewing" => After(t) = "list"
           /\ pc[t] = "listing" => After(t) = "nap"
           /\ pc[t] = "downing" => After(t) = "cancel"
           /\ pc[t] = "cancelling" => After(t) = "done"
  BY DEF After

LEMMA ReceiveIs ==
    ASSUME TypeOK, NEW t \in Threads, NEW k \in Requests, Receive(t, k)
    PROVE  /\ k \in Posts => registry' = k
           /\ k \in {"renew", "list"} => registry' = registry
           /\ k = "DOWN" => registry' \in {"DOWN", None} /\ (registry = None => registry' = None)
           /\ k = "cancel" => registry' = None
           /\ k \in Posts \cup {"renew"} => lease' = IF registry' = None THEN 0 ELSE LeaseTicks
           /\ k \notin Posts \cup {"renew"} => lease' = IF registry' = None THEN 0 ELSE lease
           /\ missed' \in BOOLEAN /\ (k \notin Posts \cup {"renew"} => (missed' = missed))
           /\ cancelled' \in BOOLEAN /\ (cancelled' => cancelled \/ (t = "term" /\ k = "cancel"))
           /\ UNCHANGED <<pc, awaiting, slept, lifeVars, cflVars, clean>>
<1>0. missed \in BOOLEAN /\ cancelled \in BOOLEAN
  BY DEF TypeOK
<1>1. /\ k \in Posts => registry' = k
      /\ k \in {"renew", "list"} => registry' = registry
      /\ k = "DOWN" => registry' \in {"DOWN", None} /\ (registry = None => registry' = None)
      /\ k = "cancel" => registry' = None
  BY DEF Receive, Posts, Requests
<1>2. /\ k \in Posts \cup {"renew"} => lease' = IF registry' = None THEN 0 ELSE LeaseTicks
      /\ k \notin Posts \cup {"renew"} => lease' = IF registry' = None THEN 0 ELSE lease
  BY DEF Receive
<1>3. missed' \in BOOLEAN /\ (k \notin Posts \cup {"renew"} => (missed' = missed))
  BY <1>0 DEF Receive
<1>4. cancelled' \in BOOLEAN /\ (cancelled' => cancelled \/ (t = "term" /\ k = "cancel"))
  BY <1>0 DEF Receive
<1> QED
  BY <1>1, <1>2, <1>3, <1>4 DEF Receive

-----------------------------------------------------------------------------
(* The invariant.                                                           *)

LEMMA InitIInv == Init => IInv
<1> SUFFICES ASSUME Init PROVE IInv
  OBVIOUS
<1>1. TypeOK
  <2>1. pc \in [Threads -> Places] /\ awaiting \in [Threads -> Requests \cup {None}]
    BY DEF Init, Places
  <2>2. /\ net \subseteq {t \in Threads : awaiting[t] # None}
        /\ late \subseteq [by : Threads, what : Requests]
    BY DEF Init
  <2>3. slept \in 0..SpanTicks /\ lease \in 0..LeaseTicks
    BY TicksAssumption DEF Init
  <2> QED
    BY <2>1, <2>2, <2>3 DEF Init, TypeOK
<1>2. PlacesAreOwn /\ WaitsAreOwn /\ LateIsSent /\ UpIsSent /\ ServiceFirst
  BY NoneAssumption DEF Init, PlacesAreOwn, WaitsAreOwn, LateIsSent, UpIsSent, ServiceFirst, Threads
<1>3. TermIsLater /\ NothingListsAgain /\ LeaseIsCovered
  BY NoneAssumption DEF Init, TermIsLater, NothingListsAgain, LeaseIsCovered, Threads
<1> QED
  BY <1>1, <1>2, <1>3 DEF IInv

\* A request reaches the registry, in time or late.
LEMMA ReceiveKeeps ==
    ASSUME IInv, NEW t \in Threads, NEW k \in Requests, Receive(t, k),
           net' \subseteq net, late' \subseteq late,
           k = "UP" => UpSent,
           t \in {"term", "user"} => k \in {"DOWN", "cancel"} /\ pc[t] \notin {"off", "down"},
           k \in Posts => ~clean,
           pc["beat"] = "renewing" /\ "beat" \notin net' => k = "renew" \/ "beat" \notin net
    PROVE  IInv'
<1>0. /\ TypeOK /\ PlacesAreOwn /\ WaitsAreOwn /\ LateIsSent /\ UpIsSent /\ ServiceFirst
      /\ TermIsLater /\ NothingListsAgain /\ LeaseIsCovered
  BY DEF IInv
<1>1. /\ k \in Posts => registry' = k
      /\ k \in {"renew", "list"} => registry' = registry
      /\ k = "DOWN" => registry' \in {"DOWN", None} /\ (registry = None => registry' = None)
      /\ k = "cancel" => registry' = None
      /\ k \in Posts \cup {"renew"} => lease' = IF registry' = None THEN 0 ELSE LeaseTicks
      /\ k \notin Posts \cup {"renew"} => lease' = IF registry' = None THEN 0 ELSE lease
      /\ missed' \in BOOLEAN /\ (k \notin Posts \cup {"renew"} => (missed' = missed))
      /\ cancelled' \in BOOLEAN /\ (cancelled' => cancelled \/ (t = "term" /\ k = "cancel"))
  BY <1>0, ReceiveIs
<1>2. UNCHANGED <<pc, awaiting, slept, flag_of_mmserver_on_, flag_of_config_on_, has_timeout, installed,
                  started, frozen, exited, cfl_place, cfl_on, cfl_stop, clean>>
  BY DEF Receive, lifeVars, flagVars, cflVars
<1>k. k \in Posts \/ k \in {"renew", "list"} \/ k = "DOWN" \/ k = "cancel"
  BY DEF Requests, Posts
<1>3. TypeOK'
  <2>1. registry' \in Posts \cup {"DOWN", None}
    BY <1>0, <1>1, <1>k DEF TypeOK
  <2>2. lease' \in 0..LeaseTicks
    BY <1>0, <1>1, TicksAssumption DEF TypeOK
  <2> QED
    BY <1>0, <1>1, <1>2, <2>1, <2>2 DEF TypeOK
<1>4. PlacesAreOwn' /\ WaitsAreOwn' /\ ServiceFirst' /\ LateIsSent'
  BY <1>0, <1>2 DEF PlacesAreOwn, WaitsAreOwn, ServiceFirst, LateIsSent, UpSent
<1>5. UpIsSent'
  BY <1>0, <1>1, <1>2, <1>k, NoneAssumption DEF UpIsSent, UpSent, Posts
<1>6. TermIsLater'
  BY <1>0, <1>1, <1>2 DEF TermIsLater
<1>7. NothingListsAgain'
  BY <1>0, <1>1, <1>2, <1>k DEF NothingListsAgain
<1>8. LeaseIsCovered'
  <2> SUFFICES ASSUME registry' = "UP", ~missed', ~exited', pc'["term"] = "off"
               PROVE  /\ pc["beat"] \in {"off", "list", "listing"} => lease' = LeaseTicks
                      /\ pc["beat"] \in {"renew", "renewing"} => lease' + SpanTicks >= LeaseTicks
                      /\ pc["beat"] = "renewing" /\ "beat" \notin net' => lease' = LeaseTicks
                      /\ pc["beat"] = "nap" => lease' + slept >= LeaseTicks
    BY <1>2 DEF LeaseIsCovered
  <2>1. CASE k \in Posts \cup {"renew"}
    BY <1>0, <1>1, <2>1, NoneAssumption, TicksAssumption DEF TypeOK
  <2>2. CASE k \notin Posts \cup {"renew"}
    <3>1. registry = "UP" /\ ~missed /\ lease' = lease
      BY <1>1, <1>k, <2>2, NoneAssumption
    <3> QED
      BY <1>0, <1>2, <2>2, <3>1 DEF LeaseIsCovered
  <2> QED
    BY <2>1, <2>2
<1> QED
  BY <1>3, <1>4, <1>5, <1>6, <1>7, <1>8 DEF IInv

\* A thread sends a request.
LEMMA SendKeeps ==
    ASSUME IInv, NEW t \in Threads, NEW k \in Requests, NEW place \in Places, Send(t, k, place),
           \/ t = "main" /\ \/ pc[t] = "init" /\ k = "STARTING" /\ place = "starting"
                            \/ pc[t] = "announce" /\ k = "UP" /\ place = "up"
           \/ t = "beat" /\ \/ pc[t] = "renew" /\ k = "renew" /\ place = "renewing"
                            \/ pc[t] = "list" /\ k = "list" /\ place = "listing"
           \/ t \in {"term", "user"} /\ \/ pc[t] = "down" /\ k = "DOWN" /\ place = "downing"
                                        \/ pc[t] = "cancel" /\ k = "cancel" /\ place = "cancelling"
    PROVE  IInv'
<1>0. /\ TypeOK /\ PlacesAreOwn /\ WaitsAreOwn /\ LateIsSent /\ UpIsSent /\ ServiceFirst
      /\ TermIsLater /\ NothingListsAgain /\ LeaseIsCovered
      /\ pc \in [Threads -> Places] /\ awaiting \in [Threads -> Requests \cup {None}]
      /\ {"main", "beat", "term", "user"} = Threads
  BY DEF IInv, TypeOK, Threads
<1>1. /\ pc' = [pc EXCEPT ![t] = place] /\ awaiting' = [awaiting EXCEPT ![t] = k]
      /\ net' = net \cup {t} /\ ~exited /\ k # None
      /\ UNCHANGED <<late, slept, flag_of_mmserver_on_, flag_of_config_on_, has_timeout, installed,
                     started, frozen, exited, cfl_place, cfl_on, cfl_stop, registry, lease, clean,
                     cancelled, missed>>
  BY NoneAssumption DEF Send, Runs, Goto, lifeVars, flagVars, cflVars, regVars, Requests, Posts
<1>2. \A u \in Threads : /\ pc'[u] = IF u = t THEN place ELSE pc[u]
                         /\ awaiting'[u] = IF u = t THEN k ELSE awaiting[u]
  BY <1>0, <1>1
<1>5. TypeOK'
  <2>1. net' \subseteq {u \in Threads : awaiting'[u] # None}
    BY <1>0, <1>1, <1>2 DEF TypeOK
  <2> QED
    BY <1>0, <1>1, <2>1 DEF TypeOK
<1>6. PlacesAreOwn' /\ WaitsAreOwn'
  BY <1>0, <1>1, <1>2 DEF PlacesAreOwn, WaitsAreOwn
<1>7. LateIsSent' /\ UpIsSent' /\ ServiceFirst'
  BY <1>0, <1>1, <1>2 DEF LateIsSent, UpIsSent, UpSent, ServiceFirst
<1>8. TermIsLater' /\ NothingListsAgain'
  BY <1>0, <1>1, <1>2 DEF TermIsLater, NothingListsAgain
<1>9. LeaseIsCovered'
  BY <1>0, <1>1, <1>2 DEF LeaseIsCovered
<1> QED
  BY <1>5, <1>6, <1>7, <1>8, <1>9 DEF IInv

\* A request ends for the thread that waits for it.
LEMMA FinishKeeps ==
    ASSUME IInv, NEW t \in Threads, Finish(t),
           \A m \in late' : m \in late \/ m = [by |-> t, what |-> awaiting[t]]
    PROVE  IInv'
<1>0. /\ TypeOK /\ PlacesAreOwn /\ WaitsAreOwn /\ LateIsSent /\ UpIsSent /\ ServiceFirst
      /\ TermIsLater /\ NothingListsAgain /\ LeaseIsCovered
      /\ pc \in [Threads -> Places] /\ awaiting \in [Threads -> Requests \cup {None}]
      /\ {"main", "beat", "term", "user"} = Threads
  BY DEF IInv, TypeOK, Threads
<1>1. /\ pc' = [pc EXCEPT ![t] = After(t)] /\ awaiting' = [awaiting EXCEPT ![t] = None]
      /\ net' = net \ {t} /\ ~exited /\ awaiting[t] # None
      /\ UNCHANGED <<slept, flag_of_mmserver_on_, flag_of_config_on_, has_timeout, installed,
                     started, frozen, exited, cfl_place, cfl_on, cfl_stop, registry, lease, clean,
                     cancelled>>
  BY DEF Finish, Runs, Goto, lifeVars, flagVars, cflVars
<1>m. missed' \in BOOLEAN /\ (missed => missed') /\ (t \in net /\ awaiting[t] = "renew" => missed')
  BY <1>0 DEF Finish, TypeOK
<1>a. \/ t = "main" /\ \/ pc[t] = "starting" /\ awaiting[t] = "STARTING" /\ After(t) = "install"
                       \/ pc[t] = "up" /\ awaiting[t] = "UP" /\ After(t) = "interact"
      \/ t = "beat" /\ \/ pc[t] = "renewing" /\ awaiting[t] = "renew" /\ After(t) = "list"
                       \/ pc[t] = "listing" /\ awaiting[t] = "list" /\ After(t) = "nap"
      \/ t \in {"term", "user"} /\ \/ pc[t] = "downing" /\ awaiting[t] = "DOWN" /\ After(t) = "cancel"
                                   \/ pc[t] = "cancelling" /\ awaiting[t] = "cancel" /\ After(t) = "done"
  <2>1. t \in {"main", "beat", "term", "user"}
    BY <1>0
  <2> QED
    BY <1>0, <1>1, <2>1, AfterIs DEF WaitsAreOwn
<1>2. \A u \in Threads : /\ pc'[u] = IF u = t THEN After(t) ELSE pc[u]
                         /\ awaiting'[u] = IF u = t THEN None ELSE awaiting[u]
  BY <1>0, <1>1
<1>l. \A m \in late' : m \in late \/ (m.by = t /\ m.what = awaiting[t])
  OBVIOUS
<1>5. TypeOK'
  <2>1. net' \subseteq {u \in Threads : awaiting'[u] # None}
    BY <1>0, <1>1, <1>2 DEF TypeOK
  <2>2. late' \subseteq [by : Threads, what : Requests]
    <3>1. awaiting[t] \in Requests
      BY <1>0, <1>1
    <3> QED
      BY <1>0, <3>1 DEF TypeOK
  <2>3. After(t) \in Places
    BY <1>a DEF Places
  <2>4. pc' \in [Threads -> Places] /\ awaiting' \in [Threads -> Requests \cup {None}]
    BY <1>0, <1>1, <2>3
  <2> QED
    BY <1>0, <1>1, <1>m, <2>1, <2>2, <2>4 DEF TypeOK
<1>6. PlacesAreOwn' /\ WaitsAreOwn'
  BY <1>0, <1>1, <1>2, <1>a DEF PlacesAreOwn, WaitsAreOwn
<1>7. LateIsSent' /\ UpIsSent' /\ ServiceFirst'
  <2>1. (UpSent => UpSent') /\ (awaiting[t] = "UP" => UpSent')
    BY <1>0, <1>2, <1>a DEF UpSent
  <2>2. LateIsSent'
    BY <1>0, <1>2, <1>a, <1>l, <2>1 DEF LateIsSent, TypeOK
  <2> QED
    BY <1>0, <1>1, <1>2, <1>a, <2>1, <2>2 DEF UpIsSent, ServiceFirst
<1>8. TermIsLater' /\ NothingListsAgain'
  <2>1. TermIsLater'
    BY <1>0, <1>1, <1>2, <1>a DEF TermIsLater
  <2>2. clean /\ t = "main" => FALSE
    BY <1>0, <1>a DEF NothingListsAgain
  <2>3. t # "main" => awaiting[t] \notin Posts
    BY <1>a DEF Posts
  <2> QED
    BY <1>0, <1>1, <1>2, <1>l, <2>1, <2>2, <2>3 DEF NothingListsAgain
<1>9. LeaseIsCovered'
  BY <1>0, <1>1, <1>2, <1>a, <1>m, TicksAssumption DEF LeaseIsCovered, TypeOK
<1> QED
  BY <1>5, <1>6, <1>7, <1>8, <1>9 DEF IInv

\* The process ends.
LEMMA DieKeeps ==
    ASSUME IInv, Die
    PROVE  IInv'
<1>0. /\ TypeOK /\ PlacesAreOwn /\ WaitsAreOwn /\ LateIsSent /\ UpIsSent /\ ServiceFirst
      /\ TermIsLater /\ NothingListsAgain /\ LeaseIsCovered
      /\ pc \in [Threads -> Places] /\ awaiting \in [Threads -> Requests \cup {None}]
      /\ {"main", "beat", "term", "user"} = Threads
  BY DEF IInv, TypeOK, Threads
<1>1. /\ exited' = TRUE /\ net' = {} /\ awaiting' = [t \in Threads |-> None]
      /\ UNCHANGED <<pc, slept, flag_of_mmserver_on_, flag_of_config_on_, has_timeout, installed,
                     started, frozen, cfl_place, cfl_on, cfl_stop, registry, lease, clean,
                     cancelled, missed>>
  BY DEF Die, flagVars, cflVars, regVars
<1>l. \A m \in late' : m \in late \/ \E t \in net : m = [by |-> t, what |-> awaiting[t]]
  <2>1. net \in SUBSET Threads
    BY <1>0 DEF TypeOK
  <2> QED
    BY <2>1, LateGrows DEF Die
<1>w. \A t \in net : t \in Threads /\ awaiting[t] # None /\ awaiting[t] \in Requests
  BY <1>0 DEF TypeOK
<1>s. \A t \in net : /\ awaiting[t] = "UP" => UpSent
                     /\ awaiting[t] \in {"DOWN", "cancel"} <=> t \in {"term", "user"}
                     /\ t \in {"term", "user"} => pc[t] \notin {"off", "down"}
                     /\ awaiting[t] \in Posts => t = "main" /\ pc["main"] # "serve"
  <2> SUFFICES ASSUME NEW t \in net
               PROVE  /\ awaiting[t] = "UP" => UpSent
                      /\ awaiting[t] \in {"DOWN", "cancel"} <=> t \in {"term", "user"}
                      /\ t \in {"term", "user"} => pc[t] \notin {"off", "down"}
                      /\ awaiting[t] \in Posts => t = "main" /\ pc["main"] # "serve"
    OBVIOUS
  <2>1. t \in {"main", "beat", "term", "user"} /\ awaiting[t] # None
    BY <1>0, <1>w
  <2> QED
    BY <1>0, <2>1 DEF WaitsAreOwn, UpSent, Posts
<1>5. TypeOK'
  <2>1. late' \subseteq [by : Threads, what : Requests]
    BY <1>0, <1>l, <1>w DEF TypeOK
  <2> QED
    BY <1>0, <1>1, <2>1 DEF TypeOK
<1>6. PlacesAreOwn' /\ WaitsAreOwn'
  BY <1>0, <1>1 DEF PlacesAreOwn, WaitsAreOwn
<1>7. LateIsSent' /\ UpIsSent' /\ ServiceFirst'
  <2>1. LateIsSent'
    BY <1>0, <1>1, <1>l, <1>s DEF LateIsSent, UpSent
  <2> QED
    BY <1>0, <1>1, <2>1 DEF UpIsSent, UpSent, ServiceFirst
<1>8. TermIsLater' /\ NothingListsAgain'
  BY <1>0, <1>1, <1>l, <1>s DEF TermIsLater, NothingListsAgain
<1>9. LeaseIsCovered'
  BY <1>1 DEF LeaseIsCovered
<1> QED
  BY <1>5, <1>6, <1>7, <1>8, <1>9 DEF IInv

\* StartServer between its requests.
LEMMA MainKeeps ==
    ASSUME IInv, StartConfig \/ Install \/ StartService \/ StartInteract
    PROVE  IInv'
<1> DEFINE Moves(to, b) ==
             /\ pc' = [pc EXCEPT !["main"] = to, !["beat"] = b]
             /\ pc["main"] = "config" => to \in {"init", "listen"} /\ b = "off"
             /\ pc["main"] = "install" => to = "listen" /\ b = "off"
             /\ pc["main"] = "listen" => to \in {"announce", "serve"} /\ b = "off" /\ started'
             /\ pc["main"] = "interact" => to = "serve" /\ b = "renew"
<1>0. /\ TypeOK /\ PlacesAreOwn /\ WaitsAreOwn /\ LateIsSent /\ UpIsSent /\ ServiceFirst
      /\ TermIsLater /\ NothingListsAgain /\ LeaseIsCovered
      /\ pc \in [Threads -> Places] /\ awaiting \in [Threads -> Requests \cup {None}]
      /\ {"main", "beat", "term", "user"} = Threads
  BY DEF IInv, TypeOK, Threads
<1>1. /\ UNCHANGED <<awaiting, net, late, slept, flag_of_mmserver_on_, flag_of_config_on_, has_timeout,
                     frozen, exited, registry, lease, clean, cancelled, missed>>
      /\ started' \in BOOLEAN /\ installed' \in BOOLEAN /\ (started => started')
  BY <1>0 DEF StartConfig, Install, StartService, StartInteract, Advance, flagVars, lifeVars, regVars, TypeOK
<1>2. /\ cfl_place' \in {"off", "created", "running", "exit"}
      /\ UNCHANGED <<cfl_on, cfl_stop>>
  BY <1>0 DEF StartConfig, Install, StartService, StartInteract, cflVars, Cfl!Run, TypeOK
<1>3. /\ pc["main"] \in {"config", "install", "listen", "interact"}
      /\ \E to \in {"init", "listen", "announce", "serve"}, b \in {"off", "renew"} : Moves(to, b)
  <2>1. pc["main"] # "serve" => [pc EXCEPT !["beat"] = "off"] = pc
    BY <1>0 DEF PlacesAreOwn
  <2>2. ASSUME NEW from \in {"config", "install", "listen"}, NEW to \in Places, Advance(from, to)
        PROVE  pc["main"] = from /\ pc' = [pc EXCEPT !["main"] = to, !["beat"] = "off"]
    <3>1. pc["main"] = from /\ pc' = [pc EXCEPT !["main"] = to]
      BY <2>2 DEF Advance, Goto
    <3>2. pc["beat"] = "off"
      BY <1>0, <3>1 DEF PlacesAreOwn
    <3> QED
      BY <1>0, <3>1, <3>2
  <2>3. CASE StartConfig
    BY <2>2, <2>3 DEF StartConfig, Places
  <2>4. CASE Install
    BY <2>2, <2>4 DEF Install, Places
  <2>5. CASE StartService
    BY <2>2, <2>5 DEF StartService, Places
  <2>6. CASE StartInteract
    BY <2>6 DEF StartInteract
  <2> QED
    BY <2>3, <2>4, <2>5, <2>6
<1>4. PICK to \in {"init", "listen", "announce", "serve"} : \E b \in {"off", "renew"} : Moves(to, b)
  BY <1>3
<1>b. PICK b \in {"off", "renew"} : Moves(to, b)
  BY <1>4
<1>p. /\ pc'["main"] = to /\ pc'["beat"] = b /\ pc["beat"] = "off"
      /\ pc'["term"] = pc["term"] /\ pc'["user"] = pc["user"]
      /\ pc' \in [Threads -> Places]
  BY <1>0, <1>3, <1>b DEF PlacesAreOwn, Places
<1>5. TypeOK'
  BY <1>0, <1>1, <1>2, <1>p DEF TypeOK
<1>6. PlacesAreOwn' /\ WaitsAreOwn'
  BY <1>0, <1>1, <1>3, <1>b, <1>p DEF PlacesAreOwn, WaitsAreOwn
<1>7. LateIsSent' /\ UpIsSent' /\ ServiceFirst'
  BY <1>0, <1>1, <1>3, <1>b, <1>p DEF LateIsSent, UpIsSent, UpSent, ServiceFirst
<1>8. TermIsLater' /\ NothingListsAgain'
  BY <1>0, <1>1, <1>3, <1>b, <1>p DEF TermIsLater, NothingListsAgain
<1>9. LeaseIsCovered'
  BY <1>0, <1>1, <1>b, <1>p, TicksAssumption DEF LeaseIsCovered
<1> QED
  BY <1>5, <1>6, <1>7, <1>8, <1>9 DEF IInv

\* The heartbeat thread wakes up.
LEMMA NapKeeps ==
    ASSUME IInv, Nap
    PROVE  IInv'
<1>0. /\ TypeOK /\ PlacesAreOwn /\ WaitsAreOwn /\ LateIsSent /\ UpIsSent /\ ServiceFirst
      /\ TermIsLater /\ NothingListsAgain /\ LeaseIsCovered
      /\ pc \in [Threads -> Places] /\ awaiting \in [Threads -> Requests \cup {None}]
      /\ {"main", "beat", "term", "user"} = Threads
  BY DEF IInv, TypeOK, Threads
<1>1. /\ pc["beat"] = "nap" /\ pc' = [pc EXCEPT !["beat"] = "renew"] /\ slept' = 0
      /\ UNCHANGED <<awaiting, net, late, flag_of_mmserver_on_, flag_of_config_on_, has_timeout, installed,
                     started, frozen, exited, cfl_place, cfl_on, cfl_stop, registry, lease, clean,
                     cancelled, missed>>
  BY DEF Nap, Goto, lifeVars, flagVars, cflVars, regVars
<1>p. /\ pc'["beat"] = "renew" /\ pc'["main"] = pc["main"] /\ pc'["term"] = pc["term"]
      /\ pc'["user"] = pc["user"] /\ pc' \in [Threads -> Places]
  BY <1>0, <1>1 DEF Places
<1>5. TypeOK'
  BY <1>0, <1>1, <1>p, TicksAssumption DEF TypeOK
<1>6. PlacesAreOwn' /\ WaitsAreOwn'
  BY <1>0, <1>1, <1>p DEF PlacesAreOwn, WaitsAreOwn
<1>7. LateIsSent' /\ UpIsSent' /\ ServiceFirst'
  BY <1>0, <1>1, <1>p DEF LateIsSent, UpIsSent, UpSent, ServiceFirst
<1>8. TermIsLater' /\ NothingListsAgain'
  BY <1>0, <1>1, <1>p DEF TermIsLater, NothingListsAgain
<1>9. LeaseIsCovered'
  BY <1>0, <1>1, <1>p, TicksAssumption DEF LeaseIsCovered, TypeOK
<1> QED
  BY <1>5, <1>6, <1>7, <1>8, <1>9 DEF IInv

\* Time passes: the lease runs down no faster than the sleep goes on.
LEMMA TickKeeps ==
    ASSUME IInv, Tick
    PROVE  IInv'
<1>0. /\ TypeOK /\ PlacesAreOwn /\ WaitsAreOwn /\ LateIsSent /\ UpIsSent /\ ServiceFirst
      /\ TermIsLater /\ NothingListsAgain /\ LeaseIsCovered
      /\ pc \in [Threads -> Places] /\ awaiting \in [Threads -> Requests \cup {None}]
      /\ {"main", "beat", "term", "user"} = Threads
  BY DEF IInv, TypeOK, Threads
<1>1. /\ lease' = IF lease = 0 THEN 0 ELSE lease - 1
      /\ slept' = IF pc["beat"] = "nap" /\ ~NapOver THEN slept + 1 ELSE slept
      /\ UNCHANGED <<pc, awaiting, net, late, flag_of_mmserver_on_, flag_of_config_on_, has_timeout,
                     installed, started, frozen, exited, cfl_place, cfl_on, cfl_stop, registry, clean,
                     cancelled>>
  BY DEF Tick, lifeVars, flagVars, cflVars
<1>m. missed' \in BOOLEAN /\ (~missed' => ~missed /\ awaiting["main"] = None /\ awaiting["beat"] = None)
  BY <1>0 DEF Tick, TypeOK
<1>5. TypeOK'
  <2>1. lease' \in 0..LeaseTicks
    BY <1>0, <1>1, TicksAssumption DEF TypeOK
  <2>2. slept' \in 0..SpanTicks
    BY <1>0, <1>1, TicksAssumption DEF TypeOK, NapOver
  <2> QED
    BY <1>0, <1>1, <1>m, <2>1, <2>2 DEF TypeOK
<1>6. PlacesAreOwn' /\ WaitsAreOwn'
  BY <1>0, <1>1 DEF PlacesAreOwn, WaitsAreOwn
<1>7. LateIsSent' /\ UpIsSent' /\ ServiceFirst'
  BY <1>0, <1>1 DEF LateIsSent, UpIsSent, UpSent, ServiceFirst
<1>8. TermIsLater' /\ NothingListsAgain'
  BY <1>0, <1>1 DEF TermIsLater, NothingListsAgain
<1>9. LeaseIsCovered'
  <2> SUFFICES ASSUME registry = "UP", ~missed', ~exited, pc["term"] = "off"
               PROVE  pc["beat"] = "nap" /\ lease' + slept' >= LeaseTicks
    BY <1>1 DEF LeaseIsCovered
  <2>1. ~Busy("main") /\ ~Busy("beat")
    BY <1>0, NoneAssumption DEF Tick, Runs, TermIsLater
  <2>2. pc["beat"] \notin {"renewing", "listing"} /\ pc["main"] # "up"
    BY <1>0, <1>m DEF WaitsAreOwn
  <2>3. pc["main"] = "serve"
    BY <1>m, <2>1 DEF Busy
  <2>4. pc["beat"] = "nap" /\ ~NapOver
    BY <1>0, <2>1, <2>2, <2>3 DEF Busy, UpIsSent, UpSent, PlacesAreOwn
  <2>5. lease + slept >= LeaseTicks
    BY <1>0, <1>m, <2>4 DEF LeaseIsCovered
  <2> QED
    BY <1>0, <1>1, <2>4, <2>5, TicksAssumption, LeaseAssumption DEF TypeOK, NapOver
<1> QED
  BY <1>5, <1>6, <1>7, <1>8, <1>9 DEF IInv

\* SIGTERM, and Stop.
LEMMA TermKeeps ==
    ASSUME IInv, SigTerm
    PROVE  IInv'
<1>0. /\ TypeOK /\ PlacesAreOwn /\ WaitsAreOwn /\ LateIsSent /\ UpIsSent /\ ServiceFirst
      /\ TermIsLater /\ NothingListsAgain /\ LeaseIsCovered
      /\ pc \in [Threads -> Places] /\ awaiting \in [Threads -> Requests \cup {None}]
      /\ {"main", "beat", "term", "user"} = Threads
  BY DEF IInv, TypeOK, Threads
<1>1. /\ pc["term"] = "off" /\ pc' = [pc EXCEPT !["term"] = "down"]
      /\ frozen' \in Threads \cup {None}
      /\ UNCHANGED <<awaiting, net, late, slept, flag_of_mmserver_on_, flag_of_config_on_, has_timeout,
                     installed, started, exited, cfl_place, cfl_on, cfl_stop, registry, lease,
                     cancelled, missed>>
  BY DEF SigTerm, Goto, flagVars, cflVars
<1>c. clean' \in BOOLEAN /\ (clean' => pc["main"] = "serve" /\ \A m \in late : m.what \notin Posts)
  BY DEF SigTerm
<1>p. /\ pc'["term"] = "down" /\ pc'["main"] = pc["main"] /\ pc'["beat"] = pc["beat"]
      /\ pc'["user"] = pc["user"] /\ pc' \in [Threads -> Places]
  BY <1>0, <1>1 DEF Places
<1>5. TypeOK'
  BY <1>0, <1>1, <1>c, <1>p DEF TypeOK
<1>6. PlacesAreOwn' /\ WaitsAreOwn'
  BY <1>0, <1>1, <1>p DEF PlacesAreOwn, WaitsAreOwn
<1>7. LateIsSent' /\ UpIsSent' /\ ServiceFirst'
  BY <1>0, <1>1, <1>p DEF LateIsSent, UpIsSent, UpSent, ServiceFirst
<1>8. TermIsLater' /\ NothingListsAgain'
  BY <1>0, <1>1, <1>c, <1>p DEF TermIsLater, NothingListsAgain
<1>9. LeaseIsCovered'
  BY <1>p DEF LeaseIsCovered
<1> QED
  BY <1>5, <1>6, <1>7, <1>8, <1>9 DEF IInv

LEMMA StopKeeps ==
    ASSUME IInv, Stop
    PROVE  IInv'
<1>0. /\ TypeOK /\ PlacesAreOwn /\ WaitsAreOwn /\ LateIsSent /\ UpIsSent /\ ServiceFirst
      /\ TermIsLater /\ NothingListsAgain /\ LeaseIsCovered
      /\ pc \in [Threads -> Places] /\ awaiting \in [Threads -> Requests \cup {None}]
      /\ {"main", "beat", "term", "user"} = Threads
  BY DEF IInv, TypeOK, Threads
<1>1. /\ pc["user"] = "off" /\ pc' = [pc EXCEPT !["user"] = "down"]
      /\ UNCHANGED <<awaiting, net, late, slept, flag_of_mmserver_on_, flag_of_config_on_, has_timeout,
                     installed, started, frozen, exited, registry, lease, clean, cancelled, missed>>
  BY DEF Stop, Goto, lifeVars, flagVars, regVars
<1>2. cfl_on' \in BOOLEAN /\ cfl_stop' \in {"idle", "join", "done"} /\ cfl_place' = cfl_place
  BY DEF Stop, Cfl!Stop
<1>p. /\ pc'["user"] = "down" /\ pc'["main"] = pc["main"] /\ pc'["beat"] = pc["beat"]
      /\ pc'["term"] = pc["term"] /\ pc' \in [Threads -> Places]
  BY <1>0, <1>1 DEF Places
<1>5. TypeOK'
  BY <1>0, <1>1, <1>2, <1>p DEF TypeOK
<1>6. PlacesAreOwn' /\ WaitsAreOwn'
  BY <1>0, <1>1, <1>p DEF PlacesAreOwn, WaitsAreOwn
<1>7. LateIsSent' /\ UpIsSent' /\ ServiceFirst'
  BY <1>0, <1>1, <1>p DEF LateIsSent, UpIsSent, UpSent, ServiceFirst
<1>8. TermIsLater' /\ NothingListsAgain'
  BY <1>0, <1>1, <1>p DEF TermIsLater, NothingListsAgain
<1>9. LeaseIsCovered'
  BY <1>0, <1>1, <1>p DEF LeaseIsCovered
<1> QED
  BY <1>5, <1>6, <1>7, <1>8, <1>9 DEF IInv

\* Steps that change neither places, nor requests, nor a listed instance.
LEMMA OthersKeep ==
    ASSUME IInv, UpdateConfig \/ Evict \/ UNCHANGED vars
    PROVE  IInv'
<1>0. /\ TypeOK /\ PlacesAreOwn /\ WaitsAreOwn /\ LateIsSent /\ UpIsSent /\ ServiceFirst
      /\ TermIsLater /\ NothingListsAgain /\ LeaseIsCovered
      /\ pc \in [Threads -> Places] /\ awaiting \in [Threads -> Requests \cup {None}]
      /\ {"main", "beat", "term", "user"} = Threads
  BY DEF IInv, TypeOK, Threads
<1>1. UNCHANGED <<pc, awaiting, net, late, slept, flag_of_mmserver_on_, flag_of_config_on_, has_timeout,
                  installed, started, frozen, exited, lease, clean, cancelled, missed>>
  BY DEF UpdateConfig, Evict, vars, procVars, lifeVars, flagVars, regVars
<1>2. registry' = registry \/ registry' = None
  BY DEF UpdateConfig, Evict, vars, regVars
<1>3. /\ cfl_place' \in {"off", "created", "running", "exit"} /\ cfl_on' \in BOOLEAN
      /\ cfl_stop' \in {"idle", "join", "done"}
  BY <1>0 DEF UpdateConfig, Evict, vars, cflVars, Cfl!Begin, Cfl!Leave, Cfl!Joined, TypeOK
<1>5. TypeOK'
  BY <1>0, <1>1, <1>2, <1>3 DEF TypeOK
<1>6. PlacesAreOwn' /\ WaitsAreOwn'
  BY <1>0, <1>1 DEF PlacesAreOwn, WaitsAreOwn
<1>7. LateIsSent' /\ UpIsSent' /\ ServiceFirst'
  BY <1>0, <1>1, <1>2, NoneAssumption DEF LateIsSent, UpIsSent, UpSent, ServiceFirst
<1>8. TermIsLater' /\ NothingListsAgain'
  BY <1>0, <1>1, <1>2 DEF TermIsLater, NothingListsAgain
<1>9. LeaseIsCovered'
  BY <1>0, <1>1, <1>2, NoneAssumption DEF LeaseIsCovered
<1> QED
  BY <1>5, <1>6, <1>7, <1>8, <1>9 DEF IInv

\* What is received in time, or late, was sent by whom WaitsAreOwn and LateIsSent say.
LEMMA ArriveKeeps ==
    ASSUME IInv, NEW t \in Threads, Arrive(t)
    PROVE  IInv'
<1>0. /\ TypeOK /\ PlacesAreOwn /\ WaitsAreOwn /\ LateIsSent /\ NothingListsAgain
      /\ t \in {"main", "beat", "term", "user"}
  BY DEF IInv, Threads
<1>1. /\ t \in net /\ net' = net \ {t} /\ late' = late /\ Receive(t, awaiting[t])
  BY DEF Arrive
<1>2. awaiting[t] # None /\ awaiting[t] \in Requests
  BY <1>0, <1>1 DEF TypeOK
<1>3. awaiting[t] = "UP" => UpSent
  BY <1>0, <1>2 DEF WaitsAreOwn, UpSent
<1>4. t \in {"term", "user"} => awaiting[t] \in {"DOWN", "cancel"} /\ pc[t] \notin {"off", "down"}
  BY <1>0, <1>2 DEF WaitsAreOwn
<1>5. awaiting[t] \in Posts => ~clean
  BY <1>0, <1>2 DEF WaitsAreOwn, NothingListsAgain, Posts
<1>6. pc["beat"] = "renewing" /\ "beat" \notin net' => awaiting[t] = "renew" \/ "beat" \notin net
  BY <1>0, <1>1, <1>2 DEF WaitsAreOwn
<1> QED
  BY <1>1, <1>2, <1>3, <1>4, <1>5, <1>6, ReceiveKeeps

LEMMA ArriveLateKeeps ==
    ASSUME IInv, ArriveLate
    PROVE  IInv'
<1>0. TypeOK /\ LateIsSent /\ NothingListsAgain
  BY DEF IInv
<1>1. PICK m \in late : late' = late \ {m} /\ net' = net /\ Receive(m.by, m.what)
  BY DEF ArriveLate
<1>2. m.by \in Threads /\ m.what \in Requests
  BY <1>0 DEF TypeOK
<1>3. /\ m.what = "UP" => UpSent
      /\ m.by \in {"term", "user"} => m.what \in {"DOWN", "cancel"} /\ pc[m.by] \notin {"off", "down"}
      /\ m.what \in Posts => ~clean
  BY <1>0 DEF LateIsSent, NothingListsAgain
<1> QED
  BY <1>1, <1>2, <1>3, ReceiveKeeps

\* The requests of a thread end, answered, given up or refused.
LEMMA RequestEndsKeeps ==
    ASSUME IInv, NEW t \in Threads, Ended(t) \/ Refused(t)
    PROVE  IInv'
<1>1. Finish(t)
  BY DEF Ended, Answered, GivenUp, Refused
<1>2. late' = late \/ MayComeLate({t})
  BY DEF Ended, Answered, GivenUp, Refused
<1>3. \A m \in late' : m \in late \/ m = [by |-> t, what |-> awaiting[t]]
  <2>1. {t} \in SUBSET Threads
    OBVIOUS
  <2> QED
    BY <1>2, <2>1, LateGrows
<1> QED
  BY <1>1, <1>3, FinishKeeps

LEMMA StepIInv == IInv /\ [Next]_vars => IInv'
<1> SUFFICES ASSUME IInv, [Next]_vars PROVE IInv'
  OBVIOUS
<1>r. /\ {"STARTING", "UP", "renew", "list", "DOWN", "cancel"} \subseteq Requests
      /\ {"starting", "up", "renewing", "listing", "downing", "cancelling"} \subseteq Places
      /\ {"main", "beat", "term", "user"} = Threads
  BY DEF Requests, Posts, Places, Threads
<1>1. ASSUME UpdateStatus PROVE IInv'
  <2>1. CASE pc["main"] = "init" /\ Send("main", "STARTING", "starting")
    BY <1>r, <2>1, SendKeeps
  <2>2. CASE pc["main"] = "announce" /\ Send("main", "UP", "up")
    BY <1>r, <2>2, SendKeeps
  <2> QED
    BY <1>1, <2>1, <2>2 DEF UpdateStatus
<1>2. ASSUME KeepActive PROVE IInv'
  BY <1>r, <1>2, SendKeeps DEF KeepActive
<1>3. ASSUME ServerDisc PROVE IInv'
  BY <1>r, <1>3, SendKeeps DEF ServerDisc
<1>4. ASSUME NEW t \in {"term", "user"}, Interrupt(t) PROVE IInv'
  <2>1. CASE pc[t] = "down" /\ Send(t, "DOWN", "downing")
    BY <1>r, <2>1, SendKeeps
  <2>2. CASE pc[t] = "cancel" /\ Send(t, "cancel", "cancelling")
    BY <1>r, <2>2, SendKeeps
  <2> QED
    BY <1>4, <2>1, <2>2 DEF Interrupt
<1>5. ASSUME NEW t \in Threads, Step(t) PROVE IInv'
  BY <1>1, <1>2, <1>3, <1>4, <1>5, MainKeeps, NapKeeps, DieKeeps DEF Step, Exit
<1>6. ASSUME Kill PROVE IInv'
  BY <1>6, DieKeeps DEF Kill
<1> QED
  BY <1>5, <1>6, ArriveKeeps, ArriveLateKeeps, RequestEndsKeeps, OthersKeep, TickKeeps, TermKeeps, StopKeeps
     DEF Next, Gone

-----------------------------------------------------------------------------
(* The theorems.                                                            *)

\* Type correctness, which includes that every request under way has a thread
\* that waits for it.
THEOREM TypeCorrect == SafeSpec => []TypeOK
<1>1. IInv => TypeOK
  BY DEF IInv
<1> QED
  BY <1>1, InitIInv, StepIInv, PTL DEF SafeSpec

\* Clients are never sent to an instance whose service has not been started,
\* however late its announcements arrive.
THEOREM UpNeverEarly == SafeSpec => []UpMeansStarted
<1>1. IInv => UpMeansStarted
  BY DEF IInv, UpIsSent, UpSent, ServiceFirst, UpMeansStarted
<1> QED
  BY <1>1, InitIInv, StepIInv, PTL DEF SafeSpec

\* SignalHandler's DELETE is the last word on an instance that served and whose
\* announcements were through.
THEOREM TermIsFinal == SafeSpec => []CancelIsFinal
<1>1. IInv => CancelIsFinal
  BY DEF IInv, NothingListsAgain, CancelIsFinal
<1> QED
  BY <1>1, InitIInv, StepIInv, PTL DEF SafeSpec

\* A step that takes an instance off UP is one that UpIsKept names.
LEMMA StepUpIsKept ==
    ASSUME IInv, [Next]_vars, registry = "UP", registry' # "UP"
    PROVE  \/ missed \/ exited
           \/ pc["term"] # "off" \/ pc["user"] \notin {"off", "down"}
           \/ \E m \in late : m.what = "STARTING"
<1> SUFFICES ASSUME ~missed, ~exited, pc["term"] = "off", pc["user"] \in {"off", "down"},
                    \A m \in late : m.what # "STARTING"
             PROVE  FALSE
  OBVIOUS
<1>0. /\ TypeOK /\ PlacesAreOwn /\ WaitsAreOwn /\ LateIsSent /\ UpIsSent /\ LeaseIsCovered
      /\ {"main", "beat", "term", "user"} = Threads
  BY DEF IInv, Threads
<1>1. ASSUME NEW t \in Threads, NEW k \in Requests, Receive(t, k)
      PROVE  k \in {"STARTING", "DOWN", "cancel"}
  BY <1>0, <1>1, ReceiveIs DEF Requests, Posts
<1>2. ASSUME NEW t \in Threads, Arrive(t) PROVE FALSE
  <2>1. awaiting[t] \in Requests /\ awaiting[t] # None /\ Receive(t, awaiting[t])
    BY <1>0, <1>2 DEF Arrive, TypeOK
  <2>2. awaiting[t] \in {"STARTING", "DOWN", "cancel"}
    BY <1>1, <2>1
  <2>3. t \in {"main", "beat", "term", "user"}
    BY <1>0
  <2>4. pc["main"] # "starting"
    BY <1>0 DEF UpIsSent, UpSent
  <2> QED
    BY <1>0, <2>1, <2>2, <2>3, <2>4 DEF WaitsAreOwn
<1>3. CASE ArriveLate
  <2>1. PICK m \in late : Receive(m.by, m.what)
    BY <1>3 DEF ArriveLate
  <2>2. m.by \in Threads /\ m.what \in Requests
    BY <1>0 DEF TypeOK
  <2>3. m.what \in {"DOWN", "cancel"}
    BY <1>1, <2>1, <2>2
  <2> QED
    BY <1>0, <2>3 DEF LateIsSent
<1>4. CASE Evict
  <2>1. lease = 0
    BY <1>4 DEF Evict
  <2> QED
    BY <1>0, <2>1, TicksAssumption, LeaseAssumption DEF LeaseIsCovered, PlacesAreOwn, TypeOK
<1>5. ASSUME NEW t \in Threads, Step(t) PROVE FALSE
  BY <1>5 DEF Step, StartConfig, UpdateStatus, Install, StartService, StartInteract, Advance, KeepActive,
              ServerDisc, Nap, Interrupt, Exit, Die, Send, regVars
<1>6. ASSUME NEW t \in Threads, Ended(t) \/ Refused(t) PROVE FALSE
  BY <1>6 DEF Ended, Answered, GivenUp, Refused, Finish
<1>7. CASE Tick \/ UpdateConfig \/ Kill \/ SigTerm \/ Stop \/ UNCHANGED vars
  BY <1>7 DEF Tick, UpdateConfig, Kill, Die, SigTerm, Stop, vars, regVars
<1> QED
  BY <1>2, <1>3, <1>4, <1>5, <1>6, <1>7 DEF Next, Gone

\* Heartbeats keep the instance listed, for every sleep shorter than the lease.
THEOREM HeartbeatsSuffice == SafeSpec => UpIsKept
<1> DEFINE Kept == registry = "UP" /\ registry' # "UP" =>
                      \/ missed \/ exited
                      \/ pc["term"] # "off" \/ pc["user"] \notin {"off", "down"}
                      \/ \E m \in late : m.what = "STARTING"
<1>1. IInv /\ [Next]_vars => [Kept]_vars
  BY StepUpIsKept
<1>2. UpIsKept <=> [][Kept]_vars
  BY DEF UpIsKept
<1> HIDE DEF Kept
<1> QED
  BY <1>1, <1>2, InitIInv, StepIInv, PTL DEF SafeSpec

-----------------------------------------------------------------------------
(* The config thread.                                                       *)

LEMMA StepOfCfl == Next => [Cfl!Next]_(Cfl!vars)
<1> SUFFICES ASSUME Next PROVE [Cfl!Next]_(Cfl!vars)
  OBVIOUS
<1>k. ASSUME UNCHANGED cflVars PROVE UNCHANGED Cfl!vars
  BY <1>k DEF cflVars, Cfl!vars
<1>1. CASE StartConfig \/ UpdateConfig \/ Stop
  <2>1. CASE StartConfig
    BY <1>k, <2>1 DEF StartConfig, Cfl!Next
  <2>2. CASE UpdateConfig
    BY <2>2 DEF UpdateConfig, Cfl!Next
  <2>3. CASE Stop
    BY <2>3 DEF Stop, Cfl!Next
  <2> QED
    BY <1>1, <2>1, <2>2, <2>3
<1>2. ASSUME NEW t \in Threads, Step(t), ~StartConfig PROVE UNCHANGED cflVars
  BY <1>2 DEF Step, UpdateStatus, Install, StartService, StartInteract, Advance, KeepActive,
              ServerDisc, Nap, Interrupt, Exit, Die, Send, lifeVars
<1>3. ASSUME NEW t \in Threads, Ended(t) \/ Refused(t) \/ Arrive(t) PROVE UNCHANGED cflVars
  BY <1>3 DEF Ended, Answered, GivenUp, Refused, Finish, Arrive, Receive
<1>4. CASE ArriveLate \/ Evict \/ Tick \/ Kill \/ SigTerm \/ UNCHANGED vars
  <2>1. UNCHANGED cflVars
    BY <1>4 DEF ArriveLate, Receive, Evict, Tick, Kill, Die, SigTerm, vars
  <2> QED
    BY <1>k, <2>1
<1> QED
  BY <1>k, <1>1, <1>2, <1>3, <1>4 DEF Next, Gone

\* StartServer, Stop and the end of the process use the config thread as an
\* UpdatingThread allows, which ConfigLoaderProofs shows ConfigLoader to be.
THEOREM ConfigThreadLife == SafeSpec => Cfl!SafeSpec
<1>1. Init => Cfl!Init
  BY DEF Init, Cfl!Init
<1>2. [Next]_vars => [Cfl!Next]_(Cfl!vars)
  BY StepOfCfl DEF vars, cflVars, Cfl!vars
<1> QED
  BY <1>1, <1>2, PTL DEF SafeSpec, Cfl!SafeSpec
=============================================================================
