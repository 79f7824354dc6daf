----------------------------- MODULE MCThreadPool -----------------------------
(* ThreadPool for TLC. *)
EXTENDS ThreadPool, TLC

CONSTANTS w1, w2, w3, t1, t2, t3, t4

\* Workers are interchangeable in every safety property.
WorkerSymmetry == Permutations(Workers)
=============================================================================
