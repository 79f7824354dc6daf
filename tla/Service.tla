-------------------------------- MODULE Service --------------------------------
(***************************************************************************)
(* kbms::Service: the thread of the event loop accepts HTTP requests and   *)
(* queues a task for each, the workers of ThreadPool run the user's        *)
(* callbacks, and the callbacks send replies back through IoThread, whose  *)
(* thread hands them to libevent.  The module composes the steps of        *)
(* ThreadPool and IoThread; the two mutexes are apart.                     *)
(*                                                                         *)
(* A callback is user code.  Behaviour[r][c] is what callback c does with  *)
(* the HTTPSendResponseCallback it is given for r:                         *)
(*   reply   calls it once before it returns                               *)
(*   late    keeps it, and another thread calls it once                    *)
(*   silent  never calls it                                                *)
(*   throw   throws before it calls it                                     *)
(* Those in Careless, pairs of a request and a callback, may throw after   *)
(* they have settled it.                                                   *)
(***************************************************************************)
EXTENDS Integers, Sequences, FiniteSets

CONSTANTS Workers,
          LateThread, \* a thread of the user's that calls kept callbacks
          Requests,
          Path,       \* Path[r]: the uri that r asks for
          Routes,     \* the uris that the user has a callback for
          Behaviour, Careless,
          PipeCap, RecvMax, MaxSubmits, None

ASSUME ServiceAssumption ==
    /\ Behaviour \in [Requests -> [{"route", "default", "timeout"} -> {"reply", "late", "silent", "throw"}]]
    /\ DOMAIN Path = Requests
    /\ LateThread \notin Workers
    /\ IsFiniteSet(Workers)
    /\ None \notin Workers \cup Requests \cup {LateThread}
    /\ PipeCap \in Nat \ {0} /\ RecvMax \in Nat \ {0}

VARIABLES pool_mutex_, task_queue_, state_, idle_count_, pc, task, tstate, overdue, terminated,
          accepted, taken,                            \* of ThreadPool
          io_mutex_, task_functors_, pipe, io, functors,
          posted, executed,                           \* of IoThread
          callbacks_map_, \* the uris of the registered callbacks
          default_cb_, timeout_cb_, \* whether they are set
          expiration_, \* whether it is more than 0
          done,    \* done[w]: the callback worker w runs is through with its request
          late,    \* the replies that kept callbacks still owe
          replies, \* replies[r]: the callbacks whose reply was sent to r, in order
          listening \* the port is bound and libevent knows CoreHandleRequest

poolState == <<pool_mutex_, task_queue_, state_, idle_count_, pc, task, tstate, overdue, terminated,
               accepted, taken>>
ioState == <<io_mutex_, task_functors_, pipe, io, functors, posted, executed>>
regState == <<callbacks_map_, default_cb_, timeout_cb_, expiration_>>
vars == <<poolState, ioState, regState, done, late, replies, listening>>

Callbacks == {"route", "default", "timeout"}

Pool == INSTANCE ThreadPool WITH Tasks <- Requests, Timed <- Requests,
                                 Hanging <- {}, mutex_ <- pool_mutex_, submitted <- accepted
Io == INSTANCE IoThread WITH Submitters <- Workers \cup {LateThread}, Functors <- Requests \X Callbacks,
                             mutex_ <- io_mutex_, submitted <- posted

Init == /\ Pool!Init
        /\ Io!Init
        /\ callbacks_map_ = {} /\ default_cb_ = FALSE /\ timeout_cb_ = FALSE
        /\ expiration_ \in BOOLEAN
        /\ done = [w \in Workers |-> FALSE]
        /\ late = {}
        /\ replies = [r \in Requests |-> <<>>]
        /\ listening = FALSE

-----------------------------------------------------------------------------
(* The user's thread, before it starts the server. *)

\* The README and the examples register first; HttpServer::StartServer, which calls
\* Start, never returns.  Nothing keeps other threads from registering later.
Register == /\ io = "off"
            /\ UNCHANGED <<poolState, ioState, expiration_, done, late, replies, listening>>

RegisterHandler(uri) == /\ Register
                        /\ callbacks_map_' = callbacks_map_ \cup {uri}
                        /\ UNCHANGED <<default_cb_, timeout_cb_>>

RegisterDefaultHandler == /\ Register
                          /\ default_cb_' = TRUE
                          /\ UNCHANGED <<callbacks_map_, timeout_cb_>>

RegisterTimeoutHandler == /\ Register
                          /\ timeout_cb_' = TRUE
                          /\ UNCHANGED <<callbacks_map_, default_cb_>>

-----------------------------------------------------------------------------
(* The thread of the event loop. *)

\* Service::Start: it starts the thread whether Listen succeeded or not.
Start == /\ Io!Start
         /\ listening' \in BOOLEAN
         /\ UNCHANGED <<regState, poolState, done, late, replies>>

\* CoreHandleRequest: libevent calls it between two events, and AddTask may have
\* to wait for the pool's mutex.
CoreHandleRequest(r) == /\ io = "dispatch"
                        /\ listening
                        /\ Pool!AddTask(r)
                        /\ UNCHANGED <<regState, ioState, done, late, replies, listening>>

\* The functor of Complete: evhttp_send_reply for the request in its context.
SendReply == /\ Io!Execute
             /\ LET r == Head(functors)[1]
                IN  replies' = [replies EXCEPT ![r] = Append(@, Head(functors)[2])]
             /\ UNCHANGED <<regState, poolState, done, late, listening>>

DrainNotify == /\ Io!EventHandler \/ Io!Swap \/ Io!Return
               /\ UNCHANGED <<regState, poolState, done, late, replies, listening>>

IoLoop == ~terminated /\ (DrainNotify \/ SendReply)

-----------------------------------------------------------------------------
(* The workers. *)

PoolStep(w) == /\ Pool!WorkerStep(w)
               /\ UNCHANGED <<regState, ioState, done, late, replies, listening>>

SpuriousWake(w) == /\ Pool!SpuriousWake(w)
                   /\ UNCHANGED <<regState, ioState, done, late, replies, listening>>

Expire(r) == /\ expiration_
             /\ Pool!Expire(r)
             /\ UNCHANGED <<regState, ioState, done, late, replies, listening>>

Callback_NoDefault(w) == IF pc[w] = "expire" THEN (IF timeout_cb_ THEN "timeout" ELSE "nobody")
                         ELSE IF Path[task[w]] \in callbacks_map_ THEN "route" ELSE "nobody"
\* Whom task_fun and expire_fun call for the request of worker w.
Callback(w) == IF pc[w] = "expire" THEN (IF timeout_cb_ THEN "timeout" ELSE "nobody")
               ELSE IF Path[task[w]] \in callbacks_map_ THEN "route"
               ELSE IF default_cb_ THEN "default" ELSE "nobody"

\* What callback c does with r; nobody does nothing.
Does(r, c) == IF c = "nobody" THEN "silent" ELSE Behaviour[r][c]

\* Worker w is inside task_fun or expire_fun and has not settled its request.
Handling(w) == /\ ~terminated
               /\ pc[w] \in {"run", "expire"}
               /\ ~done[w]

Settle(w) == done' = [done EXCEPT ![w] = TRUE]

\* Complete, called by the callback on its worker.
Respond(w) == /\ Handling(w)
              /\ Does(task[w], Callback(w)) = "reply"
              /\ Io!SubmitPush(w, <<task[w], Callback(w)>>)
              /\ Settle(w)
              /\ UNCHANGED <<regState, poolState, late, replies, listening>>

KeepForLater(w) == /\ Handling(w)
                   /\ Does(task[w], Callback(w)) = "late"
                   /\ late' = late \cup {<<task[w], Callback(w)>>}
                   /\ Settle(w)
                   /\ UNCHANGED <<regState, poolState, ioState, replies, listening>>

\* No callback is registered, or it returns without a reply.
Ignore(w) == /\ Handling(w)
             /\ Does(task[w], Callback(w)) = "silent"
             /\ Settle(w)
             /\ UNCHANGED <<regState, poolState, ioState, late, replies, listening>>

\* The callback throws, in place of a reply or after it settled its request.  An
\* exception in task_fun is swallowed by the pool, one in expire_fun ends the process.
Throw(w) == /\ pc[w] \in {"run", "expire"}
            /\ Callback(w) # "nobody"
            /\ \/ Does(task[w], Callback(w)) = "throw"
               \/ done[w] /\ <<task[w], Callback(w)>> \in Careless
            /\ io_mutex_ # w
            /\ \/ Pool!RunThrow(w) /\ done' = [done EXCEPT ![w] = FALSE]
               \/ Pool!ExpireThrow(w) /\ UNCHANGED done
            /\ UNCHANGED <<regState, ioState, late, replies, listening>>

\* The callback returns to Task::Run or Task::ExpireRun.
HandlerReturns(w) == /\ done[w]
                     /\ io_mutex_ # w
                     /\ Pool!RunReturn(w) \/ Pool!ExpireReturn(w)
                     /\ done' = [done EXCEPT ![w] = FALSE]
                     /\ UNCHANGED <<regState, ioState, late, replies, listening>>

\* Complete, called for a kept callback by a thread of the user's.
RespondLate(f) == /\ ~terminated
                  /\ f \in late
                  /\ Io!SubmitPush(LateThread, f)
                  /\ late' = late \ {f}
                  /\ UNCHANGED <<regState, poolState, done, replies, listening>>

\* The rest of IoThread::Submit.
Notify(s) == /\ ~terminated
             /\ Io!SubmitNotify(s)
             /\ UNCHANGED <<regState, poolState, done, late, replies, listening>>

-----------------------------------------------------------------------------
Worker(w) == \/ PoolStep(w) \/ Respond(w) \/ KeepForLater(w) \/ Ignore(w) \/ Throw(w)
             \/ HandlerReturns(w) \/ Notify(w)

LateStep == (\E f \in late : RespondLate(f)) \/ Notify(LateThread)

\* The process is gone, or every request is dealt with and every thread waits.
Idle == /\ \/ terminated
           \/ /\ \A r \in Requests : tstate[r] # "WAITING" /\ (listening => tstate[r] # "NEW")
              /\ \A w \in Workers : pc[w] = "waiting"
              /\ late = {} /\ io = "dispatch" /\ pipe = 0 /\ io_mutex_ = None
        /\ UNCHANGED vars

Next == \/ \E uri \in Routes : RegisterHandler(uri)
        \/ RegisterDefaultHandler \/ RegisterTimeoutHandler
        \/ Start
        \/ \E r \in Requests : CoreHandleRequest(r) \/ Expire(r)
        \/ IoLoop
        \/ \E w \in Workers : Worker(w) \/ SpuriousWake(w)
        \/ LateStep
        \/ Idle

\* Every thread that can run does, and kept callbacks are called; requests and
\* the passing of time come as they like.
Fairness == WF_vars(IoLoop) /\ WF_vars(LateStep) /\ \A w \in Workers : WF_vars(Worker(w))

SafeSpec == Init /\ [][Next]_vars
Spec == SafeSpec /\ Fairness

-----------------------------------------------------------------------------
(* Properties. *)

\* The type of the variables that Service adds; those of its parts have their own.
TypeOK == /\ Pool!TypeOK
          /\ Io!TypeOK
          /\ callbacks_map_ \subseteq Routes
          /\ default_cb_ \in BOOLEAN /\ timeout_cb_ \in BOOLEAN /\ expiration_ \in BOOLEAN
          /\ done \in [Workers -> BOOLEAN]
          /\ late \subseteq Requests \X Callbacks
          /\ replies \in [Requests -> Seq(Callbacks)]
          /\ listening \in BOOLEAN

\* libevent frees a request once its reply is sent.  At most one party may ever
\* use it: a callback that has not settled it, a kept callback, a functor on its
\* way to the event loop; and none may once it is answered.
RequestHasOneUser ==
    \A r \in Requests :
        LET handlers == {w \in Workers : task[w] = r /\ ~done[w]}
            kept == {f \in late : f[1] = r}
            onTheWay == {i \in (executed + 1)..Len(posted) : posted[i][1] = r}
        IN  Cardinality(handlers) + Cardinality(kept) + Cardinality(onTheWay) + Len(replies[r]) <= 1

\* The client of a request that was still queued when its time was up gets the
\* timeout callback's answer, and only such a client does: the clock that expired
\* it, the worker that took it and the event loop that sent the reply agree, in
\* whatever order they came to it.
ExpiredGetTimeoutReply ==
    \A r \in Requests : replies[r] # <<>> => (Head(replies[r]) = "timeout") = (r \in overdue)

\* Answers[c]: the requests that callback c answers.
Answers == [c \in Callbacks |-> {r \in Requests : Behaviour[r][c] \in {"reply", "late"}}]

\* The requests that are answered whatever befalls them: the callback that is
\* called for them answers, and the one for timeouts does if they may expire.
Answerable ==
    {r \in Requests : /\ IF Path[r] \in callbacks_map_ THEN r \in Answers["route"]
                         ELSE default_cb_ /\ r \in Answers["default"]
                      /\ expiration_ => timeout_cb_ /\ r \in Answers["timeout"]}

\* Somebody has yet to do something about r: a worker will take it, a callback has
\* not settled it, a kept callback owes its reply, or a functor carries the reply.
InHands(r) == \/ \E i \in 1..Len(task_queue_) : task_queue_[i] = r
              \/ \E w \in Workers : task[w] = r /\ ~done[w]
              \/ \E f \in late : f[1] = r
              \/ \E i \in 1..Len(task_functors_) : task_functors_[i][1] = r
              \/ \E i \in 1..Len(functors) : functors[i][1] = r

\* No request falls between two threads: from its arrival on an answerable request
\* is in somebody's hands until it is answered, through every hand-over.
NoRequestIsLost == \A r \in Answerable : tstate[r] # "NEW" /\ replies[r] = <<>> => InHands(r)

\* Every worker sleeps, the event loop has nothing to read and no callback is kept.
Quiet == /\ Workers # {} /\ \A w \in Workers : pc[w] = "waiting"
         /\ io = "dispatch" /\ pipe = 0 /\ io_mutex_ = None
         /\ late = {}

\* The server never falls asleep over a client: once all its threads wait, every
\* answerable request that came has been answered.  That takes the wakeups of the
\* pool, the bytes in the pipe and the hand-overs between them together.
QuietMeansAnswered == Quiet => \A r \in Answerable : tstate[r] # "NEW" => replies[r] # <<>>

\* Threads, queues and wakeups together keep the promise of RequestReply: each
\* request is answered at most once, and one is answered whose callbacks all answer.
Server == INSTANCE RequestReply WITH
              answerable <- Answerable,
              arrived <- {r \in Requests : tstate[r] # "NEW"},
              replies <- [r \in Requests |-> Len(replies[r])],
              down <- terminated
ImplementsRequestReply == Server!Spec
=============================================================================
