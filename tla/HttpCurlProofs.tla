---------------------------- MODULE HttpCurlProofs ----------------------------
(***************************************************************************)
(* Proofs about HttpCurl, for every set of calls and answers.  First: no   *)
(* request uploads from a PutDataStruct that is gone, because the reset    *)
(* after every request makes libcurl forget it before Put returns (IInv).  *)
(* Then what the handle, the wire and the Response hold at each point of a *)
(* call (Exact): the types follow from it, and that every step is a step   *)
(* of Exchange or a stutter.                                               *)
(***************************************************************************)
EXTENDS HttpCurl, SequenceTheorems, TLAPS

\* What the calls leave behind, and what an upload under way rests on.
IInv == /\ call \in Calls \cup {None}
        /\ pc \in {"load", "prepare"} => call # None
        /\ obj \in Seq(Pieces) \cup {None}
        /\ pc \in {"idle", "load", "prepare", "returned", "thrown"} =>
              \/ curl_handle_ = None
              \/ "httpreq" \in DOMAIN curl_handle_ /\ curl_handle_.httpreq # "PUT"
        /\ pc = "execute" => "httpreq" \in DOMAIN curl_handle_
        /\ pc \in {"execute", "send"} /\ curl_handle_.httpreq = "PUT" => obj # None
        /\ pc = "upload" => obj # None

LEMMA InitIInv == Init => IInv
BY DEF Init, IInv, Fresh, Performing

LEMMA StepIInv == IInv /\ [Next]_vars => IInv'
<1> SUFFICES ASSUME IInv, [Next]_vars PROVE IInv'
  OBVIOUS
<1> USE DEF Performing
<1>1. ASSUME NEW c \in Calls, Call(c) PROVE IInv'
  BY <1>1, CurlAssumption DEF Call, IInv
<1>2. CASE LoadInfo \/ Throw
  BY <1>2 DEF LoadInfo, Throw, transfer, params, IInv
<1>3. CASE Post \/ Get \/ Del
  BY <1>3 DEF Post, Get, Del, Prepare, transfer, params, IInv
<1>4. CASE Put
  <2>1. call.data \in Seq(Pieces) /\ call.data # None
    BY <1>4, CurlAssumption DEF Put, Prepare, IInv
  <2> QED
    BY <1>4, <2>1 DEF Put, Prepare, transfer, params, IInv
<1>5. CASE ExecuteRequest
  BY <1>5 DEF ExecuteRequest, transfer, params, IInv
<1>6. CASE Finish
  BY <1>6 DEF Finish, Reset, Fresh, transfer, params, IInv
<1>7. CASE SendRequest \/ Uploaded \/ HeaderCallback \/ Completed
  BY <1>7 DEF SendRequest, Uploaded, HeaderCallback, Completed, transfer, params, IInv
<1>8. ASSUME NEW n \in 1..MaxPieces, ReadCallback(n) PROVE IInv'
  <2>1. obj \in Seq(Pieces)
    BY <1>8 DEF ReadCallback, IInv
  <2>2. Len(Chunk(obj, n)) \in Nat
    BY <2>1 DEF Chunk
  <2>3. SubSeq(obj, Len(Chunk(obj, n)) + 1, Len(obj)) \in Seq(Pieces)
    BY <2>1, <2>2
  <2>4. obj' \in Seq(Pieces) /\ obj' # None
    BY <1>8, <2>3, CurlAssumption DEF ReadCallback
  <2> QED
    BY <1>8, <2>4 DEF ReadCallback, params, IInv
<1>9. ASSUME NEW n \in 1..MaxPieces, WriteCallback(n) PROVE IInv'
  BY <1>9 DEF WriteCallback, params, IInv
<1>10. ASSUME NEW a \in Answers, Serve(a) PROVE IInv'
  BY <1>10 DEF Serve, params, IInv
<1>11. ASSUME NEW res, Failed(res) PROVE IInv'
  BY <1>11 DEF Failed, params, transfer, IInv
<1>12. CASE UNCHANGED vars
  BY <1>12 DEF vars, params, transfer, IInv
<1> QED
  BY <1>1, <1>2, <1>3, <1>4, <1>5, <1>6, <1>7, <1>8, <1>9, <1>10, <1>11, <1>12
  DEF Next, CallerStep, Perform, Broken, TimedOut

\* Over any sequence of calls libcurl reads upload data only from a PutDataStruct
\* that is still on Put's stack.
THEOREM UploadsAreAlive == SafeSpec => []UploadIsAlive
<1>1. IInv => UploadIsAlive
  BY DEF IInv, UploadIsAlive
<1> QED
  BY InitIInv, StepIInv, <1>1, PTL DEF SafeSpec

-----------------------------------------------------------------------------
(***************************************************************************)
(* Types, and what a call is at each point of its way: the options are     *)
(* those of the call and no others, the wire has what the options make of  *)
(* it, and the Response what the callbacks were given.                     *)
(***************************************************************************)

Request(c) == Promise!Request(c)
Fields(lines) == Promise!Fields(lines)

Before == {"idle", "load", "prepare", "execute", "send", "upload", "wait"}

\* The handle between Post, Put, Get or Del and ExecuteRequest.
Prepared(c) == [httpreq |-> IF c.method \in {"POST", "PUT"} THEN c.method ELSE "GET",
                custom |-> IF c.method = "DELETE" THEN "DELETE" ELSE None,
                postfields |-> IF c.method = "POST" THEN c.data ELSE <<>>,
                infilesize |-> IF c.method = "PUT" THEN Len(c.data) ELSE 0,
                headers |-> {}, auth |-> None, timeout |-> 0]

\* The handle a request is performed with.
Ready(c) == [httpreq |-> Prepared(c).httpreq, custom |-> Prepared(c).custom,
             postfields |-> Prepared(c).postfields, infilesize |-> Prepared(c).infilesize,
             headers |-> c.headers, auth |-> c.auth, timeout |-> c.timeout]

Handle == /\ pc \in {"idle", "load", "prepare", "returned", "thrown"} => curl_handle_ \in {Fresh, None}
          /\ pc = "execute" => curl_handle_ = Prepared(call)
          /\ pc \in Performing \cup {"finish"} => curl_handle_ = Ready(call)
          /\ pc \in {"prepare", "execute"} => /\ timeout_ = call.timeout
                                             /\ basicAuth = call.auth
                                             /\ header_fields_ = call.headers

\* The request: nothing yet, a part of it, or the one asked for.
Wire == /\ pc \in {"idle", "load", "prepare", "execute", "send"} => wire = None
        /\ wire # None => "data" \in DOMAIN wire /\ wire.data \in Seq(Pieces)
        /\ pc = "execute" /\ call.method = "PUT" => obj = call.data
        /\ pc = "send" /\ call.method = "PUT" => obj = call.data
        /\ pc = "upload" => /\ call.method = "PUT"
                            /\ wire = [Request(call) EXCEPT !.data = wire.data]
                            /\ wire.data \in Seq(Pieces) /\ obj \in Seq(Pieces)
                            /\ wire.data \o obj = call.data
        /\ pc \in {"wait", "receive"} => wire = Request(call)

\* The answer: none before the whole request is there, then one and how far it is read.
Given == /\ pc \in Before \cup {"thrown"} => answer = None
         /\ pc \in Before => nlines = 0 /\ nbody = 0
         /\ pc = "receive" => answer # None
         /\ answer # None => /\ answer \in Answers /\ wire = Request(call)
                             /\ nlines \in 0..Len(answer.lines) /\ nbody \in 0..Len(answer.body)

ValueOf(line) == IF line.value = None THEN "present" ELSE line.value

\* fields are those of the first n lines.
Seen(fields, lines, n) ==
    /\ n = 0 => fields = <<>>
    /\ fields = [x \in DOMAIN fields |-> fields[x]]
    /\ DOMAIN fields = {lines[i].name : i \in {j \in 1..n : lines[j].name # None}}
    /\ \A x \in DOMAIN fields :
          \E i \in 1..n : /\ lines[i].name = x /\ fields[x] = ValueOf(lines[i])
                          /\ \A j \in 1..n : lines[j].name = x => j <= i

Whole(r, a) == a # None /\ r = [code |-> a.code, body |-> a.body, headers |-> Fields(a.lines)]

Error(r, a) == \E code \in {-1} \cup 1..99, n \in 0..(IF a = None THEN 0 ELSE Len(a.lines)) :
                  r = [code |-> code, body |-> ErrorText,
                       headers |-> IF n = 0 THEN <<>> ELSE Fields(SubSeq(a.lines, 1, n))]

Replied == /\ response.code \in -1..599
           /\ pc \in {"send", "upload", "wait"} => response = Cleared
           /\ pc = "receive" =>
                 /\ response = [code |-> 0, body |-> SubSeq(answer.body, 1, nbody), headers |-> response.headers]
                 /\ Seen(response.headers, answer.lines, nlines)
           /\ pc \in {"finish", "returned"} => Whole(response, answer) \/ Error(response, answer)

Params == /\ call \in Calls \cup {None}
          /\ pc = "idle" => call = None
          /\ pc \notin {"idle"} => call \in Calls
          /\ pc \in {"idle", "load", "prepare", "execute", "finish", "returned", "thrown"} \cup Performing
          /\ timeout_ \in Nat /\ basicAuth \in {c.auth : c \in Calls} \cup {None}
          /\ obj \in Seq(Pieces) \cup {None}

Exact == IInv /\ Params /\ Handle /\ Wire /\ Given /\ Replied

-----------------------------------------------------------------------------
(* The parts, one after the other. *)

LEMMA InitExact == Init => Exact
<1> SUFFICES ASSUME Init PROVE Exact
  OBVIOUS
<1>1. IInv
  BY InitIInv
<1>2. Params /\ Handle
  BY DEF Init, Params, Handle, Performing
<1>3. Wire /\ Given /\ Replied
  BY DEF Init, Wire, Given, Replied, Before
<1> QED
  BY <1>1, <1>2, <1>3 DEF Exact

LEMMA StepParams == Exact /\ [Next]_vars => Params'
<1> SUFFICES ASSUME IInv, Params, [Next]_vars PROVE Params'
  BY DEF Exact
<1>0. obj' \in Seq(Pieces) \cup {None}
  BY StepIInv DEF IInv
<1> USE DEF Performing
<1>1. ASSUME NEW c \in Calls, Call(c) PROVE Params'
  BY <1>1, <1>0 DEF Call, Params, params
<1>2. CASE LoadInfo
  BY <1>2, <1>0, CurlAssumption DEF LoadInfo, Params
<1>3. CASE Throw \/ Post \/ Get \/ Del \/ Put
  BY <1>3, <1>0 DEF Throw, Post, Get, Del, Put, Prepare, Params, params
<1>4. CASE ExecuteRequest \/ Finish \/ SendRequest \/ Uploaded \/ HeaderCallback \/ Completed
  BY <1>4, <1>0 DEF ExecuteRequest, Finish, SendRequest, Uploaded, HeaderCallback, Completed, Params, params
<1>5. ASSUME NEW n \in 1..MaxPieces, ReadCallback(n) \/ WriteCallback(n) PROVE Params'
  BY <1>5, <1>0 DEF ReadCallback, WriteCallback, Params, params
<1>6. ASSUME NEW a \in Answers, Serve(a) PROVE Params'
  BY <1>6, <1>0 DEF Serve, Params, params
<1>7. ASSUME NEW res, Failed(res) PROVE Params'
  BY <1>7, <1>0 DEF Failed, Params, params
<1>8. CASE UNCHANGED vars
  BY <1>8, <1>0 DEF vars, Params, params
<1> QED
  BY <1>1, <1>2, <1>3, <1>4, <1>5, <1>6, <1>7, <1>8
  DEF Next, CallerStep, Perform, Broken, TimedOut

LEMMA StepHandle == Exact /\ [Next]_vars => Handle'
<1> SUFFICES ASSUME Params, Handle, [Next]_vars PROVE Handle'
  BY DEF Exact
<1> USE DEF Performing
<1>1. ASSUME NEW c \in Calls, Call(c) PROVE Handle'
  BY <1>1 DEF Call, Handle, params
<1>2. CASE LoadInfo \/ Throw
  BY <1>2 DEF LoadInfo, Throw, Handle, params
<1>3. CASE Post \/ Get \/ Del \/ Put
  <2>1. curl_handle_ = Fresh /\ call' = call /\ pc' = "execute"
    BY <1>3 DEF Post, Get, Del, Put, Prepare, Handle
  <2>2. curl_handle_' = Prepared(call)
    <3>1. CASE Post
      <4>1. call.method = "POST" /\ curl_handle_' = [Fresh EXCEPT !.httpreq = "POST", !.postfields = call.data]
        BY <3>1, <2>1 DEF Post, Prepare
      <4> QED
        BY <4>1 DEF Prepared, Fresh
    <3>2. CASE Get
      <4>1. call.method = "GET" /\ curl_handle_' = Fresh
        BY <3>2, <2>1 DEF Get, Prepare
      <4> QED
        BY <4>1 DEF Prepared, Fresh
    <3>3. CASE Del
      <4>1. call.method = "DELETE" /\ curl_handle_' = [Fresh EXCEPT !.custom = "DELETE"]
        BY <3>3, <2>1 DEF Del, Prepare
      <4> QED
        BY <4>1 DEF Prepared, Fresh
    <3>4. CASE Put
      <4>1. call.method = "PUT" /\ curl_handle_' = [Fresh EXCEPT !.httpreq = "PUT", !.infilesize = Len(call.data)]
        BY <3>4, <2>1 DEF Put, Prepare
      <4> QED
        BY <4>1 DEF Prepared, Fresh
    <3> QED
      BY <1>3, <3>1, <3>2, <3>3, <3>4
  <2>3. UNCHANGED params /\ pc = "prepare"
    BY <1>3 DEF Post, Get, Del, Put, Prepare, params
  <2> QED
    BY <2>1, <2>2, <2>3 DEF Handle, params
<1>4. CASE ExecuteRequest
  <2>1. /\ curl_handle_ = Prepared(call) /\ timeout_ = call.timeout
        /\ basicAuth = call.auth /\ header_fields_ = call.headers
    BY <1>4 DEF ExecuteRequest, Handle
  <2>2. curl_handle_.auth = None /\ curl_handle_.timeout = 0
    BY <2>1 DEF Prepared
  <2>3. curl_handle_' = [Prepared(call) EXCEPT !.headers = call.headers, !.auth = call.auth, !.timeout = call.timeout]
    BY <1>4, <2>1, <2>2 DEF ExecuteRequest
  <2>4. curl_handle_' = Ready(call)
    BY <2>3 DEF Ready, Prepared
  <2> QED
    BY <1>4, <2>4 DEF ExecuteRequest, Handle, params
<1>5. CASE Finish
  BY <1>5 DEF Finish, Reset, Handle, params
<1>6. CASE SendRequest \/ Uploaded \/ HeaderCallback \/ Completed
  BY <1>6 DEF SendRequest, Uploaded, HeaderCallback, Completed, Handle, params
<1>7. ASSUME NEW n \in 1..MaxPieces, ReadCallback(n) \/ WriteCallback(n) PROVE Handle'
  BY <1>7 DEF ReadCallback, WriteCallback, Handle, params
<1>8. ASSUME NEW a \in Answers, Serve(a) PROVE Handle'
  BY <1>8 DEF Serve, Handle, params
<1>9. ASSUME NEW res, Failed(res) PROVE Handle'
  BY <1>9 DEF Failed, Handle, params
<1>10. CASE UNCHANGED vars
  BY <1>10 DEF vars, Handle, params
<1> QED
  BY <1>1, <1>2, <1>3, <1>4, <1>5, <1>6, <1>7, <1>8, <1>9, <1>10
  DEF Next, CallerStep, Perform, Broken, TimedOut

LEMMA Concatenation ==
    \A s, t, u \in Seq(Pieces) : /\ (s \o t) \o u = s \o (t \o u)
                                /\ s \o t \in Seq(Pieces) /\ Len(s \o t) = Len(s) + Len(t)
BY ConcatAssociative, ConcatProperties

LEMMA StepWire == Exact /\ [Next]_vars => Wire'
<1> SUFFICES ASSUME IInv, Params, Handle, Wire, Given, [Next]_vars PROVE Wire'
  BY DEF Exact
<1> USE DEF Performing
<1>0. call # None => /\ call.method \in {"POST", "PUT", "GET", "DELETE"}
                     /\ call.data \in Seq(Pieces)
                     /\ call.method \in {"GET", "DELETE"} => call.data = <<>>
  BY CurlAssumption DEF Params
<1>1. ASSUME NEW c \in Calls, Call(c) PROVE Wire'
  BY <1>1 DEF Call, Wire
<1>2. CASE LoadInfo \/ Throw \/ Post \/ Get \/ Del
  <2>1. UNCHANGED <<call, wire>> /\ pc' \in {"prepare", "thrown", "execute"}
    BY <1>2 DEF LoadInfo, Throw, Post, Get, Del, Prepare, transfer
  <2>2. pc \in {"load", "prepare"}
    BY <1>2 DEF LoadInfo, Throw, Post, Get, Del, Prepare
  <2>3. pc' = "execute" => call.method # "PUT"
    BY <1>2 DEF LoadInfo, Throw, Post, Get, Del, Prepare
  <2> QED
    BY <2>1, <2>2, <2>3 DEF Wire
<1>3. CASE Put
  BY <1>3 DEF Put, Prepare, transfer, Wire
<1>4. CASE ExecuteRequest
  BY <1>4 DEF ExecuteRequest, transfer, Wire
<1>5. CASE Finish
  BY <1>5 DEF Finish, transfer, Wire
<1>6. CASE SendRequest
  <2>1. pc = "send" /\ curl_handle_ = Ready(call) /\ call' = call /\ obj' = obj /\ call \in Calls
    BY <1>6 DEF SendRequest, Handle, Params
  <2>2. wire' = [method |-> IF curl_handle_.custom # None THEN curl_handle_.custom ELSE curl_handle_.httpreq,
                 data |-> IF curl_handle_.httpreq = "POST" THEN curl_handle_.postfields ELSE <<>>,
                 headers |-> curl_handle_.headers, auth |-> curl_handle_.auth]
    BY <1>6 DEF SendRequest
  <2>3. /\ curl_handle_.custom = IF call.method = "DELETE" THEN "DELETE" ELSE None
        /\ curl_handle_.httpreq = IF call.method \in {"POST", "PUT"} THEN call.method ELSE "GET"
        /\ curl_handle_.postfields = IF call.method = "POST" THEN call.data ELSE <<>>
        /\ curl_handle_.headers = call.headers /\ curl_handle_.auth = call.auth
    BY <2>1 DEF Ready, Prepared
  <2>4. call.method \in {"POST", "PUT", "GET", "DELETE"}
    BY <2>1, CurlAssumption
  <2>5. wire' = [method |-> call.method, data |-> IF call.method = "POST" THEN call.data ELSE <<>>,
                 headers |-> call.headers, auth |-> call.auth]
    BY <2>2, <2>3, <2>4, CurlAssumption
  <2>6. wire'.data \in Seq(Pieces) /\ "data" \in DOMAIN wire'
    BY <2>1, <2>5, CurlAssumption
  <2>7. CASE call.method = "PUT"
    <3>1. pc' = "upload"
      BY <1>6, <2>3, <2>7 DEF SendRequest
    <3>2. wire' = [Request(call) EXCEPT !.data = wire'.data] /\ wire'.data = <<>>
      BY <2>5, <2>7 DEF Request, Promise!Request
    <3>3. obj = call.data /\ call.data \in Seq(Pieces)
      BY <2>1, <2>7, CurlAssumption DEF Wire
    <3>4. <<>> \o obj = call.data
      BY <3>3, ConcatEmptySeq
    <3> QED
      BY <2>1, <2>6, <2>7, <3>1, <3>2, <3>3, <3>4 DEF Wire
  <2>8. CASE call.method # "PUT"
    <3>1. pc' = "wait"
      BY <1>6, <2>3, <2>4, <2>8 DEF SendRequest
    <3>2. wire' = Request(call)
      BY <2>1, <2>4, <2>5, <2>8, CurlAssumption DEF Request, Promise!Request
    <3> QED
      BY <2>1, <2>6, <3>1, <3>2 DEF Wire
  <2> QED
    BY <2>7, <2>8
<1>7. ASSUME NEW n \in 1..MaxPieces, ReadCallback(n) PROVE Wire'
  <2> DEFINE m == Len(Chunk(obj, n))
             rest == SubSeq(obj, m + 1, Len(obj))
  <2>1. /\ call' = call /\ pc = "upload" /\ pc' = pc /\ call.method = "PUT"
        /\ wire = [Request(call) EXCEPT !.data = wire.data]
        /\ wire' = [wire EXCEPT !.data = wire.data \o Chunk(obj, n)] /\ obj' = rest
        /\ wire.data \in Seq(Pieces) /\ obj \in Seq(Pieces) /\ wire.data \o obj = call.data
    BY <1>7 DEF ReadCallback, Wire
  <2>2. n \in Nat \ {0} /\ Len(obj) \in Nat
    BY <2>1, CurlAssumption
  <2>3. PICK k \in 0..Len(obj) : Chunk(obj, n) = SubSeq(obj, 1, k)
    BY <2>2 DEF Chunk
  <2>4. m = k /\ Chunk(obj, n) \in Seq(Pieces)
    BY <2>1, <2>2, <2>3
  <2>5. rest \in Seq(Pieces)
    BY <2>1, <2>2, <2>4
  <2>6. Chunk(obj, n) \o rest = obj
    <3>1. SubSeq(obj, 1, k) \o SubSeq(obj, k + 1, Len(obj)) = SubSeq(obj, 1, Len(obj))
      <4>1. 1 \in 1..Len(obj)+1 /\ k \in (1-1)..Len(obj) /\ Len(obj) \in k..Len(obj)
        BY <2>2
      <4> HIDE DEF m, rest
      <4> QED
        BY <2>1, <4>1, ConcatAdjacentSubSeq
    <3>2. SubSeq(obj, 1, Len(obj)) = obj
      BY <2>1, SubSeqFull
    <3> QED
      BY <2>3, <2>4, <3>1, <3>2
  <2> HIDE DEF m, rest
  <2>7. (wire.data \o Chunk(obj, n)) \o rest = call.data
    <3>1. (wire.data \o Chunk(obj, n)) \o rest = wire.data \o (Chunk(obj, n) \o rest)
      <4>1. wire.data \in Seq(Pieces)
        BY <2>1
      <4> QED
        BY <4>1, <2>4, <2>5, Concatenation, Zenon
    <3> QED
      BY <2>1, <2>6, <3>1
  <2>8. wire.data \o Chunk(obj, n) \in Seq(Pieces)
    BY <2>1, <2>4
  <2>9. wire' = [Request(call) EXCEPT !.data = wire.data \o Chunk(obj, n)]
    BY <2>1 DEF Request, Promise!Request
  <2>10. wire'.data = wire.data \o Chunk(obj, n) /\ "data" \in DOMAIN wire'
    BY <2>9 DEF Request, Promise!Request
  <2> QED
    BY <2>1, <2>5, <2>7, <2>8, <2>9, <2>10 DEF Wire
<1>8. CASE Uploaded
  <2>1. /\ call' = call /\ pc = "upload" /\ pc' = "wait" /\ call.method = "PUT" /\ wire' = wire
        /\ wire = [Request(call) EXCEPT !.data = wire.data]
        /\ wire.data \in Seq(Pieces) /\ obj \in Seq(Pieces) /\ wire.data \o obj = call.data
        /\ curl_handle_ = Ready(call) /\ Len(wire.data) >= curl_handle_.infilesize
    BY <1>8 DEF Uploaded, transfer, Wire, Handle
  <2>2. Len(wire.data) >= Len(call.data)
    BY <2>1 DEF Ready, Prepared
  <2>3. Len(wire.data \o obj) = Len(wire.data) + Len(obj)
    BY <2>1, Concatenation
  <2>4. Len(obj) = 0
    BY <2>1, <2>2, <2>3
  <2>5. obj = <<>>
    BY <2>1, <2>4, EmptySeq
  <2>6. wire.data = call.data
    BY <2>1, <2>5, ConcatEmptySeq
  <2>7. wire = Request(call)
    BY <2>1, <2>6 DEF Request, Promise!Request
  <2> QED
    BY <1>8, <2>1, <2>7 DEF Wire
<1>9. CASE HeaderCallback \/ Completed
  BY <1>9 DEF HeaderCallback, Completed, transfer, Wire
<1>10. ASSUME NEW n \in 1..MaxPieces, WriteCallback(n) PROVE Wire'
  BY <1>10 DEF WriteCallback, Wire
<1>11. ASSUME NEW a \in Answers, Serve(a) PROVE Wire'
  BY <1>11 DEF Serve, Wire
<1>12. ASSUME NEW res, Failed(res) PROVE Wire'
  BY <1>12 DEF Failed, transfer, Wire
<1>13. CASE UNCHANGED vars
  BY <1>13 DEF vars, transfer, Wire
<1> QED
  BY <1>1, <1>2, <1>3, <1>4, <1>5, <1>6, <1>7, <1>8, <1>9, <1>10, <1>11, <1>12, <1>13
  DEF Next, CallerStep, Perform, Broken, TimedOut

LEMMA StepGiven == Exact /\ [Next]_vars => Given'
<1> SUFFICES ASSUME Params, Wire, Given, [Next]_vars PROVE Given'
  BY DEF Exact
<1> USE DEF Performing, Before
<1>0. \A a \in Answers : Len(a.lines) \in Nat /\ Len(a.body) \in Nat
  BY CurlAssumption
<1>1. ASSUME NEW c \in Calls, Call(c) PROVE Given'
  BY <1>1 DEF Call, Given
<1>2. CASE LoadInfo \/ Throw \/ Post \/ Get \/ Del \/ Put
  BY <1>2 DEF LoadInfo, Throw, Post, Get, Del, Put, Prepare, transfer, Given
<1>3. CASE ExecuteRequest \/ Finish \/ SendRequest \/ Uploaded \/ Completed
  BY <1>3 DEF ExecuteRequest, Finish, SendRequest, Uploaded, Completed, transfer, Given
<1>4. CASE HeaderCallback
  BY <1>4, <1>0 DEF HeaderCallback, Given
<1>5. ASSUME NEW n \in 1..MaxPieces, ReadCallback(n) PROVE Given'
  BY <1>5 DEF ReadCallback, Given
<1>6. ASSUME NEW n \in 1..MaxPieces, WriteCallback(n) PROVE Given'
  BY <1>6, <1>0, CurlAssumption DEF WriteCallback, Given
<1>7. ASSUME NEW a \in Answers, Serve(a) PROVE Given'
  BY <1>7, <1>0, CurlAssumption DEF Serve, Given, Wire
<1>8. ASSUME NEW res, Failed(res) PROVE Given'
  BY <1>8 DEF Failed, transfer, Given
<1>9. CASE UNCHANGED vars
  BY <1>9 DEF vars, transfer, Given
<1> QED
  BY <1>1, <1>2, <1>3, <1>4, <1>5, <1>6, <1>7, <1>8, <1>9
  DEF Next, CallerStep, Perform, Broken, TimedOut

-----------------------------------------------------------------------------
(* The Response. *)

\* Fields that agree with the first n lines are the Fields of any text of these lines.
LEMMA SeenFields ==
  ASSUME NEW f, NEW lines, NEW n \in Nat, Seen(f, lines, n),
         NEW t, DOMAIN t = 1..n, \A i \in 1..n : t[i] = lines[i]
  PROVE  f = Fields(t)
<1> DEFINE named == {i \in 1..n : t[i].name # None}
           last(x) == CHOOSE i \in named : /\ t[i].name = x
                                           /\ \A j \in named : t[j].name = x => j <= i
<1>1. Fields(t) = [x \in {t[i].name : i \in named} |->
                      IF t[last(x)].value = None THEN "present" ELSE t[last(x)].value]
  BY DEF Fields, Promise!Fields
<1>2. DOMAIN f = {t[i].name : i \in named}
  BY DEF Seen
<1>3. ASSUME NEW x \in DOMAIN f
      PROVE  f[x] = IF t[last(x)].value = None THEN "present" ELSE t[last(x)].value
  <2>1. PICK i \in 1..n : /\ t[i].name = x /\ f[x] = ValueOf(t[i])
                          /\ \A j \in 1..n : t[j].name = x => j <= i
    BY DEF Seen
  <2>2. i \in named
    BY <1>2, <2>1
  <2>3. last(x) \in named /\ t[last(x)].name = x /\ \A j \in named : t[j].name = x => j <= last(x)
    BY <2>1, <2>2
  <2> HIDE DEF last
  <2>4. last(x) <= i /\ i <= last(x) /\ last(x) \in 1..n
    BY <2>1, <2>2, <2>3
  <2>5. last(x) = i
    BY <2>4
  <2> QED
    BY <2>1, <2>5 DEF ValueOf
<1>4. f = [x \in DOMAIN f |-> f[x]]
  BY DEF Seen
<1> HIDE DEF named, last
<1> QED
  BY <1>1, <1>2, <1>3, <1>4

LEMMA SeenNext ==
  ASSUME NEW f, NEW lines, NEW n \in Nat, Seen(f, lines, n)
  PROVE  Seen(WithField(f, lines[n + 1]), lines, n + 1)
<1> DEFINE line == lines[n + 1]
           g == WithField(f, line)
<1>0. 1..(n + 1) = 1..n \cup {n + 1} /\ n + 1 # 0
  OBVIOUS
<1>1. CASE line.name = None
  <2>1. g = f
    BY <1>1 DEF WithField
  <2>2. DOMAIN f = {lines[i].name : i \in {j \in 1..(n + 1) : lines[j].name # None}}
    BY <1>0, <1>1 DEF Seen
  <2>3. ASSUME NEW x \in DOMAIN f
        PROVE  \E i \in 1..(n + 1) : /\ lines[i].name = x /\ f[x] = ValueOf(lines[i])
                                     /\ \A j \in 1..(n + 1) : lines[j].name = x => j <= i
    <3>1. PICK i \in 1..n : /\ lines[i].name = x /\ f[x] = ValueOf(lines[i])
                            /\ \A j \in 1..n : lines[j].name = x => j <= i
      BY DEF Seen
    <3>2. x # None
      BY DEF Seen
    <3> QED
      BY <1>0, <1>1, <3>1, <3>2
  <2> QED
    BY <1>0, <2>1, <2>2, <2>3 DEF Seen
<1>2. CASE line.name # None
  <2>1. g = [x \in DOMAIN f \cup {line.name} |-> IF x # line.name THEN f[x] ELSE ValueOf(line)]
    BY <1>2 DEF WithField, ValueOf
  <2>2. DOMAIN g = DOMAIN f \cup {line.name}
    BY <2>1
  <2>3. DOMAIN g = {lines[i].name : i \in {j \in 1..(n + 1) : lines[j].name # None}}
    BY <1>0, <1>2, <2>2 DEF Seen
  <2>4. ASSUME NEW x \in DOMAIN g
        PROVE  \E i \in 1..(n + 1) : /\ lines[i].name = x /\ g[x] = ValueOf(lines[i])
                                     /\ \A j \in 1..(n + 1) : lines[j].name = x => j <= i
    <3>1. CASE x = line.name
      <4>1. g[x] = ValueOf(lines[n + 1]) /\ lines[n + 1].name = x
        BY <2>1, <2>2, <3>1
      <4>2. n + 1 \in 1..(n + 1) /\ \A j \in 1..(n + 1) : j <= n + 1
        OBVIOUS
      <4> HIDE DEF g, line
      <4> QED
        BY <4>1, <4>2
    <3>2. CASE x # line.name
      <4>1. x \in DOMAIN f /\ g[x] = f[x]
        BY <2>1, <2>2, <3>2
      <4>2. PICK i \in 1..n : /\ lines[i].name = x /\ f[x] = ValueOf(lines[i])
                              /\ \A j \in 1..n : lines[j].name = x => j <= i
        BY <4>1 DEF Seen
      <4>3. \A j \in 1..(n + 1) : lines[j].name = x => j <= i
        BY <1>0, <3>2, <4>2
      <4> HIDE DEF g
      <4> QED
        BY <1>0, <4>1, <4>2, <4>3
    <3> QED
      BY <3>1, <3>2
  <2>5. g = [x \in DOMAIN g |-> g[x]]
    BY <2>1
  <2> HIDE DEF g
  <2> QED
    BY <1>0, <2>3, <2>4, <2>5 DEF Seen, g
<1> QED
  BY <1>1, <1>2

LEMMA StepReplied == Exact /\ [Next]_vars => Replied'
<1> SUFFICES ASSUME Params, Wire, Given, Replied, [Next]_vars PROVE Replied'
  BY DEF Exact
<1> USE DEF Performing, Before
<1>0. \A a \in Answers : /\ Len(a.lines) \in Nat /\ Len(a.body) \in Nat
                         /\ DOMAIN a.lines = 1..Len(a.lines) /\ a.body \in Seq(Pieces)
  BY CurlAssumption
<1>1. ASSUME NEW c \in Calls, Call(c) PROVE Replied'
  BY <1>1 DEF Call, Replied
<1>2. CASE LoadInfo \/ Post \/ Get \/ Del \/ Put
  BY <1>2 DEF LoadInfo, Post, Get, Del, Put, Prepare, Replied
<1>t. CASE Throw
  <2>1. pc' = "thrown"
    BY <1>t DEF Throw
  <2>2. response'.code \in -1..599
    BY <1>t DEF Throw, Cleared, Replied
  <2> QED
    BY <2>1, <2>2 DEF Replied
<1>3. CASE ExecuteRequest
  BY <1>3 DEF ExecuteRequest, Replied, Cleared
<1>4. CASE Finish
  BY <1>4 DEF Finish, transfer, Replied
<1>5. CASE SendRequest \/ Uploaded
  BY <1>5 DEF SendRequest, Uploaded, Replied
<1>6. ASSUME NEW n \in 1..MaxPieces, ReadCallback(n) PROVE Replied'
  BY <1>6 DEF ReadCallback, Replied
<1>7. ASSUME NEW a \in Answers, Serve(a) PROVE Replied'
  <2>1. /\ pc' = "receive" /\ answer' = a /\ nbody' = 0 /\ nlines' = 0 /\ response' = response
        /\ response = Cleared
    BY <1>7 DEF Serve, Given, Replied
  <2>2. SubSeq(a.body, 1, 0) = <<>>
    BY SubSeqEmpty
  <2>3. Seen(<<>>, a.lines, 0)
    <3>1. <<>> = [x \in DOMAIN <<>> |-> <<>>[x]]
      OBVIOUS
    <3>2. DOMAIN <<>> = {} /\ 1..0 = {}
      OBVIOUS
    <3> QED
      BY <3>1, <3>2 DEF Seen
  <2> QED
    BY <2>1, <2>2, <2>3 DEF Replied, Cleared
<1>8. CASE HeaderCallback
  <2> DEFINE fields == WithField(response.headers, answer.lines[nlines + 1])
  <2>1. /\ pc = "receive" /\ pc' = "receive" /\ answer' = answer /\ nbody' = nbody /\ nlines' = nlines + 1
        /\ response' = [response EXCEPT !.headers = fields]
        /\ response = [code |-> 0, body |-> SubSeq(answer.body, 1, nbody), headers |-> response.headers]
        /\ Seen(response.headers, answer.lines, nlines)
    BY <1>8 DEF HeaderCallback, Replied
  <2>2. nlines \in Nat
    BY <1>0, <2>1 DEF Given
  <2>3. Seen(fields, answer.lines, nlines + 1)
    BY <2>1, <2>2, SeenNext
  <2> HIDE DEF fields
  <2>4. response' = [code |-> 0, body |-> SubSeq(answer.body, 1, nbody), headers |-> fields]
    <3>1. PICK h : h = response.headers
      OBVIOUS
    <3>2. response = [code |-> 0, body |-> SubSeq(answer.body, 1, nbody), headers |-> h]
      BY <2>1, <3>1
    <3> QED
      BY <2>1, <3>2
  <2> QED
    BY <2>1, <2>3, <2>4 DEF Replied
<1>9. ASSUME NEW n \in 1..MaxPieces, WriteCallback(n) PROVE Replied'
  <2> DEFINE body == response.body \o SubSeq(answer.body, nbody + 1, nbody + n)
  <2>1. /\ pc = "receive" /\ pc' = "receive" /\ answer' = answer /\ nbody' = nbody + n /\ nlines' = nlines
        /\ nbody + n <= Len(answer.body)
        /\ response' = [response EXCEPT !.body = body]
        /\ response = [code |-> 0, body |-> SubSeq(answer.body, 1, nbody), headers |-> response.headers]
        /\ Seen(response.headers, answer.lines, nlines)
    BY <1>9 DEF WriteCallback, Replied
  <2>2. answer.body \in Seq(Pieces) /\ nbody \in Nat /\ n \in Nat /\ Len(answer.body) \in Nat
    <3>1. answer \in Answers /\ nbody \in 0..Len(answer.body)
      BY <2>1 DEF Given
    <3> QED
      BY <1>0, <3>1, CurlAssumption
  <2>3. body = SubSeq(answer.body, 1, nbody + n)
    <3>1. /\ 1 \in 1..Len(answer.body)+1 /\ nbody \in (1-1)..Len(answer.body)
          /\ nbody + n \in nbody..Len(answer.body)
      BY <2>1, <2>2
    <3>2. SubSeq(answer.body, 1, nbody) \o SubSeq(answer.body, nbody + 1, nbody + n)
            = SubSeq(answer.body, 1, nbody + n)
      BY <2>2, <3>1, ConcatAdjacentSubSeq
    <3>3. response.body = SubSeq(answer.body, 1, nbody)
      BY <2>1
    <3> QED
      BY <3>2, <3>3
  <2> HIDE DEF body
  <2>4. response' = [code |-> 0, body |-> body, headers |-> response.headers]
    <3>1. PICK h : h = response.headers
      OBVIOUS
    <3>2. response = [code |-> 0, body |-> SubSeq(answer.body, 1, nbody), headers |-> h]
      BY <2>1, <3>1
    <3>3. response' = [code |-> 0, body |-> body, headers |-> h]
      <4> HIDE <3>1
      <4> QED
        BY <2>1, <3>2
    <3> QED
      BY <3>1, <3>3
  <2>5. response'.code = 0 /\ response'.headers = response.headers
    BY <2>4
  <2>6. response' = [code |-> 0, body |-> SubSeq(answer'.body, 1, nbody'), headers |-> response'.headers]
    BY <2>1, <2>3, <2>4, <2>5
  <2>7. Seen(response'.headers, answer'.lines, nlines')
    BY <2>1, <2>5
  <2> QED
    BY <2>1, <2>5, <2>6, <2>7 DEF Replied
<1>10. CASE Completed
  <2>1. /\ pc' = "finish" /\ answer' = answer /\ answer \in Answers /\ answer # None
        /\ nlines = Len(answer.lines) /\ nbody = Len(answer.body)
        /\ response' = [response EXCEPT !.code = answer.code]
        /\ response = [code |-> 0, body |-> SubSeq(answer.body, 1, nbody), headers |-> response.headers]
        /\ Seen(response.headers, answer.lines, nlines)
    <3>1. pc = "receive" /\ answer # None /\ answer \in Answers
      BY <1>10 DEF Completed, Given
    <3> QED
      BY <1>10, <3>1 DEF Completed, transfer, Replied
  <2>2. SubSeq(answer.body, 1, nbody) = answer.body
    BY <1>0, <2>1, SubSeqFull
  <2>3. response.headers = Fields(answer.lines)
    BY <1>0, <2>1, SeenFields
  <2>4. response' = [code |-> answer.code, body |-> answer.body, headers |-> Fields(answer.lines)]
    BY <2>1, <2>2, <2>3
  <2>5. Whole(response', answer')
    BY <2>1, <2>4 DEF Whole
  <2>6. response'.code \in -1..599
    BY <2>1, <2>4, CurlAssumption
  <2> QED
    BY <2>1, <2>5, <2>6 DEF Replied
<1>11. ASSUME NEW res \in CurlErrors \cup {OperationTimedOut}, Failed(res) PROVE Replied'
  <2>1. res \in 1..99
    BY CurlAssumption DEF OperationTimedOut
  <2>2. /\ pc' = "finish" /\ answer' = answer /\ pc \in Performing
        /\ response' = [response EXCEPT !.code = res, !.body = ErrorText]
    <3>1. (IF res > 99 THEN -1 ELSE res) = res
      BY <2>1
    <3> QED
      BY <1>11, <3>1 DEF Failed, transfer
  <2>3. CASE pc \in {"send", "upload", "wait"}
    <3>1. response' = [code |-> res, body |-> ErrorText, headers |-> <<>>]
      <4>1. response = [code |-> 0, body |-> <<>>, headers |-> <<>>]
        BY <2>3 DEF Replied, Cleared
      <4> QED
        BY <2>2, <4>1
    <3>2. answer' = None
      BY <2>2, <2>3 DEF Given
    <3>3. Error(response', answer')
      <4>1. 0 \in 0..(IF answer' = None THEN 0 ELSE Len(answer'.lines)) /\ res \in {-1} \cup 1..99
        BY <2>1, <3>2
      <4>2. response' = [code |-> res, body |-> ErrorText,
                         headers |-> IF 0 = 0 THEN <<>> ELSE Fields(SubSeq(answer'.lines, 1, 0))]
        BY <3>1
      <4> QED
        BY <4>1, <4>2 DEF Error
    <3> QED
      BY <2>1, <2>2, <3>1, <3>3 DEF Replied
  <2>4. CASE pc = "receive"
    <3>1. /\ response = [code |-> 0, body |-> SubSeq(answer.body, 1, nbody), headers |-> response.headers]
          /\ Seen(response.headers, answer.lines, nlines)
          /\ answer # None /\ answer \in Answers /\ nlines \in 0..Len(answer.lines)
      BY <2>4 DEF Replied, Given
    <3>2. response' = [code |-> res, body |-> ErrorText, headers |-> response.headers]
      BY <2>2, <3>1
    <3>3. response.headers = IF nlines = 0 THEN <<>> ELSE Fields(SubSeq(answer.lines, 1, nlines))
      <4>1. CASE nlines = 0
        BY <3>1, <4>1 DEF Seen
      <4>2. CASE nlines # 0
        <5> DEFINE t == SubSeq(answer.lines, 1, nlines)
                   S == {answer.lines[i] : i \in 1..nlines}
        <5>1. nlines \in Nat /\ nlines \in Int /\ 1 \in Int /\ 1 <= nlines
          BY <1>0, <3>1, <4>2
        <5>2. \A i \in 1..nlines : answer.lines[i] \in S
          OBVIOUS
        <5>3. t \in Seq(S) /\ Len(t) = nlines /\ \A i \in 1..nlines : t[i] = answer.lines[i]
          <6> HIDE DEF S
          <6>1. /\ t \in Seq(S) /\ Len(t) = IF 1 <= nlines THEN nlines - 1 + 1 ELSE 0
                /\ \A i \in 1..(nlines - 1 + 1) : t[i] = answer.lines[1 + i - 1]
            BY <5>1, <5>2, SubSeqProperties
          <6> HIDE DEF t
          <6> QED
            BY <5>1, <6>1
        <5> HIDE DEF S, t
        <5>4. DOMAIN t = 1..nlines
          BY <5>3
        <5>5. response.headers = Fields(t)
          BY <3>1, <5>1, <5>3, <5>4, SeenFields
        <5> QED
          BY <4>2, <5>5 DEF t
      <4> QED
        BY <4>1, <4>2
    <3>4. Error(response', answer')
      <4>1. nlines \in 0..(IF answer' = None THEN 0 ELSE Len(answer'.lines)) /\ res \in {-1} \cup 1..99
        BY <2>1, <2>2, <3>1
      <4>2. response' = [code |-> res, body |-> ErrorText,
                         headers |-> IF nlines = 0 THEN <<>> ELSE Fields(SubSeq(answer'.lines, 1, nlines))]
        BY <2>2, <3>2, <3>3
      <4> QED
        BY <4>1, <4>2 DEF Error
    <3> QED
      BY <2>1, <2>2, <3>2, <3>4 DEF Replied
  <2> QED
    BY <2>2, <2>3, <2>4
<1>12. CASE UNCHANGED vars
  BY <1>12 DEF vars, transfer, Replied
<1> QED
  BY <1>1, <1>2, <1>t, <1>3, <1>4, <1>5, <1>6, <1>7, <1>8, <1>9, <1>10, <1>11, <1>12
  DEF Next, CallerStep, Perform, Broken, TimedOut

LEMMA StepExact == Exact /\ [Next]_vars => Exact'
BY StepIInv, StepParams, StepHandle, StepWire, StepGiven, StepReplied DEF Exact

LEMMA ExactTypes == Exact => TypeOK
<1> SUFFICES ASSUME Exact PROVE TypeOK
  OBVIOUS
<1>1. curl_handle_ # None => DOMAIN curl_handle_ = DOMAIN Fresh
  <2>1. curl_handle_ \in {Fresh, None, Prepared(call), Ready(call)}
    BY DEF Exact, Params, Handle, Performing
  <2>2. DOMAIN Prepared(call) = DOMAIN Fresh /\ DOMAIN Ready(call) = DOMAIN Fresh
    BY DEF Prepared, Ready, Fresh
  <2> QED
    BY <2>1, <2>2
<1>2. /\ call \in Calls \cup {None} /\ timeout_ \in Nat /\ basicAuth \in {c.auth : c \in Calls} \cup {None}
      /\ pc \in {"idle", "load", "prepare", "execute", "finish", "returned", "thrown"} \cup Performing
      /\ obj \in Seq(Pieces) \cup {None}
  BY DEF Exact, Params
<1>3. /\ wire # None => wire.data \in Seq(Pieces)
      /\ answer \in Answers \cup {None}
      /\ answer # None => nlines \in 0..Len(answer.lines) /\ nbody \in 0..Len(answer.body)
      /\ response.code \in -1..599
  BY DEF Exact, Wire, Given, Replied
<1> QED
  BY <1>1, <1>2, <1>3 DEF TypeOK

\* Every variable keeps its type over any sequence of calls; what reaches the
\* server is made of pieces of the caller's data, never of what lies behind it.
THEOREM TypeCorrect == SafeSpec => []TypeOK
BY InitExact, StepExact, ExactTypes, PTL DEF SafeSpec

-----------------------------------------------------------------------------
(* HttpCurl implements Exchange. *)

LEMMA InitPromise == Init => Promise!Init
BY DEF Init, Promise!Init

LEMMA StepPromise == Exact /\ [Next]_vars => [Promise!Next]_Promise!vars
<1> SUFFICES ASSUME IInv, Params, Wire, Given, Replied, [Next]_vars PROVE [Promise!Next]_Promise!vars
  BY DEF Exact
<1> USE DEF Performing
<1> DEFINE open == pc \notin {"idle", "returned", "thrown"}
           received == IF answer = None THEN None ELSE wire
           result == IF pc = "returned" THEN response ELSE None
<1>1. ASSUME NEW c \in Calls, Call(c) PROVE Promise!Ask(c)
  BY <1>1 DEF Call, Promise!Ask
<1>2. CASE Throw
  <2>1. pc = "prepare" /\ pc' = "thrown" /\ call' = call /\ answer' = answer /\ wire' = wire
    BY <1>2 DEF Throw, transfer
  <2>2. Promise!Throw
    BY <2>1 DEF Promise!Throw
  <2> QED
    BY <2>2 DEF Promise!Next, Promise!End
<1>3. ASSUME NEW a \in Answers, Serve(a) PROVE Promise!Serve(a)
  <2>1. /\ pc = "wait" /\ pc' = "receive" /\ answer = None /\ answer' = a /\ a # None
        /\ call' = call /\ wire' = wire /\ wire = Request(call)
    BY <1>3, CurlAssumption DEF Serve, Wire, Given, Before
  <2> QED
    BY <2>1 DEF Promise!Serve, Request
<1>4. CASE Finish
  <2>1. /\ pc = "finish" /\ pc' = "returned" /\ response' = response /\ call' = call
        /\ answer' = answer /\ wire' = wire
    BY <1>4 DEF Finish, transfer
  <2>2. CASE Whole(response, answer)
    <3>1. Promise!ReturnAnswer
      BY <2>1, <2>2 DEF Promise!ReturnAnswer, Whole, Fields
    <3> QED
      BY <3>1 DEF Promise!Next, Promise!End
  <2>3. CASE Error(response, answer)
    <3>1. Promise!ReturnError
      BY <2>1, <2>3 DEF Promise!ReturnError, Error, Fields
    <3> QED
      BY <3>1 DEF Promise!Next, Promise!End
  <2> QED
    BY <2>1, <2>2, <2>3 DEF Replied
<1>5. CASE LoadInfo \/ Post \/ Get \/ Del \/ Put \/ ExecuteRequest
  BY <1>5 DEF LoadInfo, Post, Get, Del, Put, Prepare, ExecuteRequest, transfer, Promise!vars
<1>6. CASE SendRequest \/ Uploaded \/ HeaderCallback \/ Completed
  BY <1>6 DEF SendRequest, Uploaded, HeaderCallback, Completed, transfer, Promise!vars, Given, Before
<1>7. ASSUME NEW n \in 1..MaxPieces, ReadCallback(n) \/ WriteCallback(n) PROVE UNCHANGED Promise!vars
  BY <1>7 DEF ReadCallback, WriteCallback, Promise!vars, Given, Before
<1>8. ASSUME NEW res, Failed(res) PROVE UNCHANGED Promise!vars
  BY <1>8 DEF Failed, transfer, Promise!vars
<1>9. CASE UNCHANGED vars
  BY <1>9 DEF vars, transfer, Promise!vars
<1> QED
  BY <1>1, <1>2, <1>3, <1>4, <1>5, <1>6, <1>7, <1>8, <1>9
  DEF Next, CallerStep, Perform, Broken, TimedOut, Promise!Next, Promise!End

\* Over any sequence of calls each server gets exactly the request that was asked
\* for, and each caller the whole answer or an error.
THEOREM ExchangeRefinement == SafeSpec => Promise!SafeSpec
BY InitExact, StepExact, InitPromise, StepPromise, PTL DEF SafeSpec, Promise!SafeSpec
=============================================================================
