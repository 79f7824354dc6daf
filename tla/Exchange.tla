------------------------------- MODULE Exchange -------------------------------
(***************************************************************************)
(* What HttpCurl promises its caller: the server gets the request that was *)
(* asked for, nothing left over from an earlier one, and the caller gets   *)
(* the server's whole answer, or an error it can tell from every HTTP      *)
(* status.  HttpCurl implements it.                                        *)
(***************************************************************************)
EXTENDS Integers, Sequences

CONSTANTS Calls,     \* [method, data, headers, auth, timeout]
          Answers,   \* [code, lines, body]; a line is [name, value]
          ErrorText, \* the body of a Response that reports an error
          None       \* no call, no answer, no name in a blank line, no colon in a line

VARIABLES asked,    \* the last call
          open,     \* it has not returned
          received, \* the request that was answered, or None
          given,    \* the server's answer to it, or None
          result    \* what the caller got back: a Response, or None

vars == <<asked, open, received, given, result>>

Request(c) == [method |-> c.method, data |-> c.data, headers |-> c.headers, auth |-> c.auth]

\* The fields of an answer: the last line of a name counts, and a line without a
\* colon, as the status line is, counts as present.
Fields(lines) ==
    LET named == {i \in DOMAIN lines : lines[i].name # None}
        last(n) == CHOOSE i \in named : /\ lines[i].name = n
                                        /\ \A j \in named : lines[j].name = n => j <= i
    IN  [n \in {lines[i].name : i \in named} |->
            IF lines[last(n)].value = None THEN "present" ELSE lines[last(n)].value]

Init == /\ asked = None /\ open = FALSE
        /\ received = None /\ given = None /\ result = None

Ask(c) == /\ ~open
          /\ asked' = c /\ open' = TRUE
          /\ received' = None /\ given' = None /\ result' = None

Serve(a) == /\ open /\ given = None
            /\ received' = Request(asked)
            /\ given' = a
            /\ UNCHANGED <<asked, open, result>>

ReturnAnswer == /\ open /\ given # None
                /\ open' = FALSE
                /\ result' = [code |-> given.code, body |-> given.body, headers |-> Fields(given.lines)]
                /\ UNCHANGED <<asked, received, given>>

\* Some of the headers may have come before the error.
ReturnError == /\ open
               /\ open' = FALSE
               /\ \E code \in {-1} \cup 1..99, n \in 0..(IF given = None THEN 0 ELSE Len(given.lines)) :
                     result' = [code |-> code, body |-> ErrorText,
                                headers |-> IF n = 0 THEN <<>> ELSE Fields(SubSeq(given.lines, 1, n))]
               /\ UNCHANGED <<asked, received, given>>

\* HttpCurl has no handle: the call throws.
Throw == /\ open
         /\ open' = FALSE
         /\ UNCHANGED <<asked, received, given, result>>

End == ReturnAnswer \/ ReturnError \/ Throw
Next == (\E c \in Calls : Ask(c)) \/ (\E a \in Answers : Serve(a)) \/ End

SafeSpec == Init /\ [][Next]_vars

\* A call with a timeout ends, whatever the server does.
Spec == SafeSpec /\ WF_vars(open /\ asked.timeout # 0 /\ End)
=============================================================================
