------------------------------ MODULE MCService ------------------------------
(* Service for TLC. *)
EXTENDS Service, TLC

CONSTANTS w1, w2, late1, r1, r2, r3, p, q

Callback3(route, default, timeout) == ("route" :> route) @@ ("default" :> default) @@ ("timeout" :> timeout)

\* A request whose callbacks reply at once, and some of them throw then; one for a
\* uri that only the default callback may answer, which replies later from another
\* thread; and one that gets an exception unless nobody is registered for its uri.
MCBehaviour == (r1 :> Callback3("reply", "reply", "reply")) @@
               (r2 :> Callback3("silent", "late", "reply")) @@
               (r3 :> Callback3("throw", "silent", "throw"))
MCCareless == {r1} \X {"default", "timeout"}
MCPath == (r1 :> p) @@ (r2 :> q) @@ (r3 :> p)
=============================================================================
