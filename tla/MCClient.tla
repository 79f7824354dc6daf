------------------------------- MODULE MCClient -------------------------------
(* Client and Discovery for TLC. *)
EXTENDS Client

CONSTANTS g1, g2, n1, n2, h1, h2

App(n, hosts) == [name |-> n, up |-> hosts]

\* Two lists that disagree on both services, one that names a service twice, once
\* without an instance, and one that ends in the middle.
MCAnswers == {<<App(n1, {h1}), App(n2, {h2})>>,
              <<App(n1, {}), App(n1, {h2}), App(n1, {h1, h2})>>,
              <<App(n2, {h1}), Bad>>}
=============================================================================
