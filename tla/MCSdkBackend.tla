---------------------------- MODULE MCSdkBackend -----------------------------
(* Instances of SdkBackend for TLC: up to three clients that share one RPC. *)
EXTENDS SdkBackend

CONSTANTS c1, c2, c3, i1, i2

\* Clients and RPCs are interchangeable in every action; no run that checks a
\* liveness property uses this.
Symmetry == Permutations(Clients) \cup Permutations(Rpcs)
=============================================================================
