----------------------------- MODULE MCHttpServer -----------------------------
(* HttpServer for TLC: it has no parameter but None. *)
EXTENDS HttpServer
=============================================================================
