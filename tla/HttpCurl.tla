------------------------------- MODULE HttpCurl -------------------------------
(***************************************************************************)
(* HttpCurl: blocking HTTP requests, one after the other, over one curl    *)
(* handle.  Interrupt sends a PUT and a DELETE through the same HttpCurl,  *)
(* ConfigLoader all of its GETs.  libcurl keeps every option until it is   *)
(* set again or reset; it is modelled by what the options make it do.      *)
(*                                                                         *)
(* pc is where the caller stands:                                          *)
(*   idle       no call was made yet                                       *)
(*   load       in LoadInfo                                                *)
(*   prepare    in Post, Get, Del or Put of Impl                           *)
(*   execute    at the head of ExecuteRequest                              *)
(*   send, upload, wait, receive   in curl_easy_perform                    *)
(*   finish     after it                                                   *)
(*   returned, thrown                                                      *)
(* A text is a sequence of pieces, since callbacks get it piece by piece.  *)
(***************************************************************************)
EXTENDS Integers, Sequences

CONSTANTS Calls,      \* [method, data, headers, auth, timeout]: the arguments of a call
          Answers,    \* [code, lines, body]: what a server may say; a line is [name, value]
          Pieces,     \* of data and bodies
          MaxPieces,  \* bound: what one ReadCallback or WriteCallback moves at most
          CurlErrors, \* the codes curl_easy_perform fails with, but for the timeout
          ErrorText,  \* curl_easy_strerror
          Garbage, None

OperationTimedOut == 28

ASSUME CurlAssumption ==
    /\ CurlErrors \subseteq 1..99 /\ MaxPieces \in Nat \ {0}
    /\ None \notin Calls /\ None \notin Answers /\ None \notin Seq(Pieces) /\ None # "DELETE"
    /\ \A c \in Calls : /\ c.method \in {"POST", "PUT", "GET", "DELETE"}
                        /\ c.data \in Seq(Pieces) /\ c.timeout \in Nat
                        /\ c.method \in {"GET", "DELETE"} => c.data = <<>>
    /\ \A a \in Answers : /\ a.code \in 100..599 /\ a.body \in Seq(Pieces)
                          /\ Len(a.lines) \in Nat /\ DOMAIN a.lines = 1..Len(a.lines)

VARIABLES call, pc,
          timeout_, basicAuth, header_fields_,
          curl_handle_, \* its options, or None when curl_easy_init failed
          obj,          \* the PutDataStruct on Put's stack: what is left to upload, or None
          wire,         \* the request as the server has got it so far, or None
          answer,       \* the server's answer to it, or None
          nlines, nbody, \* how much of the answer the callbacks were given
          response      \* the caller's Response

params == <<timeout_, basicAuth, header_fields_>>
transfer == <<wire, answer, nlines, nbody>>
vars == <<call, pc, params, curl_handle_, obj, transfer, response>>

Fresh == [httpreq |-> "GET", custom |-> None, postfields |-> <<>>, infilesize |-> 0,
          headers |-> {}, auth |-> None, timeout |-> 0]

Performing == {"send", "upload", "wait", "receive"}

Init == /\ call = None /\ pc = "idle"
        /\ timeout_ = 50 /\ basicAuth = None /\ header_fields_ = {}
        /\ curl_handle_ \in {Fresh, None}
        /\ obj = None
        /\ wire = None /\ answer = None /\ nlines = 0 /\ nbody = 0
        /\ response = [code |-> 0, body |-> <<>>, headers |-> <<>>]

-----------------------------------------------------------------------------
(* The caller's thread. *)

\* Post, Get, Del or Put of HttpCurl begins.
Call(c) == /\ pc \in {"idle", "returned", "thrown"}
           /\ call' = c
           /\ pc' = "load"
           /\ wire' = None /\ answer' = None /\ nlines' = 0 /\ nbody' = 0
           /\ UNCHANGED <<params, curl_handle_, obj, response>>

LoadInfo == /\ pc = "load"
            /\ timeout_' = call.timeout
            /\ basicAuth' = call.auth
            /\ header_fields_' = call.headers
            /\ pc' = "prepare"
            /\ UNCHANGED <<call, curl_handle_, obj, transfer, response>>

Cleared_KeepBody == [code |-> 0, body |-> response.body, headers |-> <<>>]
Cleared == [code |-> 0, body |-> <<>>, headers |-> <<>>]

\* GetCurlHandle throws "Connection terminated": in Get not before ExecuteRequest
\* has cleared the Response, in the others before anything else.
Throw == /\ pc = "prepare"
         /\ curl_handle_ = None
         /\ response' = IF call.method = "GET" THEN Cleared ELSE response
         /\ pc' = "thrown"
         /\ UNCHANGED <<call, params, curl_handle_, obj, transfer>>

Prepare(method) == /\ pc = "prepare"
                   /\ curl_handle_ # None
                   /\ call.method = method
                   /\ pc' = "execute"
                   /\ UNCHANGED <<call, params, transfer, response>>

Post == /\ Prepare("POST")
        /\ curl_handle_' = [curl_handle_ EXCEPT !.httpreq = "POST", !.postfields = call.data]
        /\ UNCHANGED obj

Get == /\ Prepare("GET")
       /\ UNCHANGED <<curl_handle_, obj>>

Del == /\ Prepare("DELETE")
       /\ curl_handle_' = [curl_handle_ EXCEPT !.custom = "DELETE"]
       /\ UNCHANGED obj

\* READDATA points to obj.
Put == /\ Prepare("PUT")
       /\ obj' = call.data
       /\ curl_handle_' = [curl_handle_ EXCEPT !.httpreq = "PUT", !.infilesize = Len(call.data)]

\* No credentials are set for an empty user name, and no timeout when it is 0.
ExecuteRequest ==
    /\ pc = "execute"
    /\ response' = Cleared
    /\ curl_handle_' = [curl_handle_ EXCEPT !.headers = header_fields_,
                            !.auth = IF basicAuth # None THEN basicAuth ELSE @,
                            !.timeout = IF timeout_ # 0 THEN timeout_ ELSE @]
    /\ pc' = "send"
    /\ UNCHANGED <<call, params, obj, transfer>>

Reset_Skipped == curl_handle_
Reset == Fresh

\* curl_easy_reset, and Put returns.
Finish == /\ pc = "finish"
          /\ curl_handle_' = Reset
          /\ obj' = None
          /\ pc' = "returned"
          /\ UNCHANGED <<call, params, transfer, response>>

-----------------------------------------------------------------------------
(* curl_easy_perform and its callbacks. *)

\* libcurl sends the head of the request, and the fields of a POST.
SendRequest ==
    /\ pc = "send"
    /\ wire' = [method |-> IF curl_handle_.custom # None THEN curl_handle_.custom ELSE curl_handle_.httpreq,
                data |-> IF curl_handle_.httpreq = "POST" THEN curl_handle_.postfields ELSE <<>>,
                headers |-> curl_handle_.headers, auth |-> curl_handle_.auth]
    /\ pc' = IF curl_handle_.httpreq = "PUT" THEN "upload" ELSE "wait"
    /\ UNCHANGED <<call, params, curl_handle_, obj, answer, nlines, nbody, response>>

Chunk_Unbounded(s, n) == [i \in 1..n |-> IF i <= Len(s) THEN s[i] ELSE Garbage]
\* The pieces ReadCallback copies into a buffer of n.
Chunk(s, n) == SubSeq(s, 1, IF Len(s) < n THEN Len(s) ELSE n)

\* libcurl asks for the next pieces as long as INFILESIZE says there are some.
ReadCallback(n) ==
    /\ pc = "upload"
    /\ Len(wire.data) < curl_handle_.infilesize
    /\ wire' = [wire EXCEPT !.data = @ \o Chunk(obj, n)]
    /\ obj' = SubSeq(obj, Len(Chunk(obj, n)) + 1, Len(obj))
    /\ UNCHANGED <<call, pc, params, curl_handle_, answer, nlines, nbody, response>>

Uploaded == /\ pc = "upload"
            /\ Len(wire.data) >= curl_handle_.infilesize
            /\ pc' = "wait"
            /\ UNCHANGED <<call, params, curl_handle_, obj, transfer, response>>

\* The server has the whole request and begins to answer.
Serve(a) == /\ pc = "wait"
            /\ answer' = a
            /\ pc' = "receive"
            /\ UNCHANGED <<call, params, curl_handle_, obj, wire, nlines, nbody, response>>

\* A blank line is skipped, and one without a colon is stored as present.
WithField(fields, line) ==
    IF line.name = None THEN fields
    ELSE [n \in DOMAIN fields \cup {line.name} |->
             IF n # line.name THEN fields[n]
             ELSE IF line.value = None THEN "present" ELSE line.value]

HeaderCallback ==
    /\ pc = "receive"
    /\ nlines < Len(answer.lines)
    /\ nlines' = nlines + 1
    /\ response' = [response EXCEPT !.headers = WithField(@, answer.lines[nlines + 1])]
    /\ UNCHANGED <<call, pc, params, curl_handle_, obj, wire, answer, nbody>>

WriteCallback(n) ==
    /\ pc = "receive"
    /\ nlines = Len(answer.lines)
    /\ nbody + n <= Len(answer.body)
    /\ nbody' = nbody + n
    /\ response' = [response EXCEPT !.body = @ \o SubSeq(answer.body, nbody + 1, nbody + n)]
    /\ UNCHANGED <<call, pc, params, curl_handle_, obj, wire, answer, nlines>>

\* CURLE_OK: the status is the code.
Completed == /\ pc = "receive"
             /\ nlines = Len(answer.lines) /\ nbody = Len(answer.body)
             /\ response' = [response EXCEPT !.code = answer.code]
             /\ pc' = "finish"
             /\ UNCHANGED <<call, params, curl_handle_, obj, transfer>>

\* Anything else: the error is the code, and its text the body.
Failed(res) == /\ pc \in Performing
               /\ response' = [response EXCEPT !.code = IF res > 99 THEN -1 ELSE res,
                                               !.body = ErrorText]
               /\ pc' = "finish"
               /\ UNCHANGED <<call, params, curl_handle_, obj, transfer>>

TimedOut == curl_handle_.timeout # 0 /\ Failed(OperationTimedOut)
Broken == \E res \in CurlErrors : Failed(res)

-----------------------------------------------------------------------------
CallerStep == LoadInfo \/ Throw \/ Post \/ Get \/ Del \/ Put \/ ExecuteRequest \/ Finish

Perform == \/ SendRequest \/ Uploaded \/ HeaderCallback \/ Completed \/ Broken
           \/ \E n \in 1..MaxPieces : ReadCallback(n) \/ WriteCallback(n)
           \/ \E a \in Answers : Serve(a)

Next == (\E c \in Calls : Call(c)) \/ CallerStep \/ Perform \/ (pc \in Performing /\ TimedOut)

\* The caller's thread runs and curl's clock does; nothing is assumed of the
\* network and the server.
Fairness == WF_vars(CallerStep) /\ WF_vars(pc \in Performing /\ TimedOut)
SafeSpec == Init /\ [][Next]_vars
Spec == SafeSpec /\ Fairness

-----------------------------------------------------------------------------
(* Properties. *)

\* The type of every variable; what reaches the server is made of pieces of the
\* caller's data, never of what lies behind it in memory.
TypeOK == /\ call \in Calls \cup {None}
          /\ pc \in {"idle", "load", "prepare", "execute", "finish", "returned", "thrown"} \cup Performing
          /\ timeout_ \in Nat /\ basicAuth \in {c.auth : c \in Calls} \cup {None}
          /\ curl_handle_ # None => DOMAIN curl_handle_ = DOMAIN Fresh
          /\ obj \in Seq(Pieces) \cup {None}
          /\ wire # None => wire.data \in Seq(Pieces)
          /\ answer \in Answers \cup {None}
          /\ answer # None => nlines \in 0..Len(answer.lines) /\ nbody \in 0..Len(answer.body)
          /\ response.code \in -1..599

\* libcurl has READDATA from a Put only as long as the PutDataStruct it points to
\* lives: a later call never uploads from the stack frame of one that returned.
UploadIsAlive == pc = "upload" => obj # None

\* Over any sequence of calls, each server gets just what was asked, and each
\* caller just the answer or an error; with a timeout the call ends.
Promise == INSTANCE Exchange WITH
               asked <- call,
               open <- pc \notin {"idle", "returned", "thrown"},
               received <- IF answer = None THEN None ELSE wire,
               given <- answer,
               result <- IF pc = "returned" THEN response ELSE None
ImplementsExchange == Promise!Spec
=============================================================================
