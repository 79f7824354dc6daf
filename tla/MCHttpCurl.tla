------------------------------ MODULE MCHttpCurl ------------------------------
(* HttpCurl for TLC. *)
EXTENDS HttpCurl

CONSTANTS d1, d2, d3, eureka, alice

Ask(method, data, headers, auth, timeout) ==
    [method |-> method, data |-> data, headers |-> headers, auth |-> auth, timeout |-> timeout]

\* A registration, the two requests of Interrupt with an upload of several
\* pieces, an upload without data, and a plain GET.
MCCalls == { Ask("POST", <<d1, d2>>, {eureka}, None, 0),
             Ask("PUT", <<d1, d2, d3>>, {}, alice, 1000),
             Ask("PUT", <<>>, {}, None, 1000),
             Ask("DELETE", <<>>, {}, None, 1000),
             Ask("GET", <<>>, {}, None, 50) }

Line(name, value) == [name |-> name, value |-> value]

\* A page whose headers repeat a name, and an error page without a body.
MCAnswers == { [code |-> 200, body |-> <<d1, d2, d3>>,
                lines |-> <<Line("status", None), Line("type", "json"), Line("type", "text"), Line(None, None)>>],
               [code |-> 404, body |-> <<>>, lines |-> <<Line("status", None)>>] }

MCErrorText == <<d3>>
=============================================================================
