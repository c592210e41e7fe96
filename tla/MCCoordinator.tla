---------------------------- MODULE MCCoordinator ----------------------------
(* Instances of Coordinator for TLC: up to two calls, backends and
   threads. *)
EXTENDS Coordinator, TLC

CONSTANTS r1, r2, b1, b2, t1, t2

WriteCall == [tool |-> "codex", write |-> TRUE]
ReadReply == [tool |-> "codex-reply", write |-> FALSE]

WriteReply == [tool |-> "codex-reply", write |-> TRUE]

WriteCalls == {WriteCall}
ReplyCalls == {WriteReply}
MixedCalls == {WriteCall, ReadReply}

\* Calls, backends and threads are interchangeable in every action; none of
\* the runs that use this checks a liveness property.
Symmetry == Permutations(Runs) \cup Permutations(Backends)
            \cup Permutations(Threads)
=============================================================================
