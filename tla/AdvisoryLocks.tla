---------------------------- MODULE AdvisoryLocks ----------------------------
(***************************************************************************)
(* Bridge processes that share one CODEX_HOME (registry.py, and _RunLease  *)
(* in coordinator.py): each runs one call at a time under flocks on a file *)
(* per thread and, for writing calls, a file per workspace.  The locks are *)
(* tried, never awaited.                                                   *)
(*                                                                         *)
(* An action is what one process does up to its next system call that      *)
(* another process can see.  A call is its lease, its turn and the step    *)
(* pc[p] it has reached; the coordinator's own races are in Coordinator.   *)
(***************************************************************************)
EXTENDS FiniteSets

CONSTANTS
    Processes,
    Threads,        \* thread ids
    Workspaces,     \* resolved working directories
    NoProcess, NoThread, NoWorkspace

ASSUME LocksAssumption ==
    /\ NoProcess \notin Processes
    /\ NoThread \notin Threads /\ NoWorkspace \notin Workspaces
    /\ Threads \cap Workspaces = {}

VARIABLES
    cwdOf,      \* the working directory of each thread that was started
    flock,      \* who has locked the file of a thread or workspace
    pc,         \* the step of each process's call
    call,       \* the call
    lease,      \* _RunLease._held of the call
    retained,   \* the leases in _retained_leases
    poisoned,   \* _runtime_unrecoverable
    turn        \* the turn of the call; an unconfirmed one may execute on

local == <<call, lease, retained, poisoned, turn>>
vars == <<cwdOf, flock, pc, local>>

Files == Threads \cup Workspaces

\* What is known of a call: its tool, whether it writes, its thread and cwd.
NoCall == [tool |-> "none", write |-> FALSE, thread |-> NoThread, cwd |-> NoWorkspace]
Calls == [tool : {"none", "codex", "reply"}, write : BOOLEAN,
          thread : Threads \cup {NoThread}, cwd : Workspaces \cup {NoWorkspace}]

Steps == {"down", "idle", "lockWorkspace", "start", "lockThread", "read",
          "submit", "turn", "settle", "release"}

Init ==
    /\ cwdOf = [t \in Threads |-> NoWorkspace]
    /\ flock = [f \in Files |-> NoProcess]
    /\ pc = [p \in Processes |-> "idle"]
    /\ call = [p \in Processes |-> NoCall]
    /\ lease = [p \in Processes |-> {}]
    /\ retained = [p \in Processes |-> {}]
    /\ poisoned = [p \in Processes |-> FALSE]
    /\ turn = [p \in Processes |-> "none"]

-----------------------------------------------------------------------------
(* _AdvisoryLock *)

\* flock with LOCK_NB on a file description of its own: also a lock of the
\* same process is in the way.
CanLock(p, f) == flock[f] = NoProcess

\* Mutant of Unlocked: the lease forgets a lock without unlocking its file.
StaysLocked(f) == flock

\* LOCK_UN, and the close of the file description.
Unlocked(f) == [flock EXCEPT ![f] = NoProcess]

\* __enter__, and the lease's note of it.
Acquire(p, f, next) ==
    /\ CanLock(p, f)
    /\ flock' = [flock EXCEPT ![f] = p]
    /\ lease' = [lease EXCEPT ![p] = @ \cup {f}]
    /\ pc' = [pc EXCEPT ![p] = next]

\* Mutant of AfterBusy: a step that no task of the call is in.
AfterBusyMistyped == "busy"

\* The call fails; its lease is settled.
AfterBusy == "settle"

\* __enter__ raises: another process holds the lock, or the file cannot be
\* opened or locked, and then its descriptor is closed.
AcquireFails(p) ==
    /\ pc' = [pc EXCEPT ![p] = AfterBusy]
    /\ UNCHANGED <<flock, lease>>

\* Mutant of TryLock: flock without LOCK_NB.
AwaitLock(p, f, next) == Acquire(p, f, next)

TryLock(p, f, next) == Acquire(p, f, next) \/ AcquireFails(p)

-----------------------------------------------------------------------------
(* The calls *)

\* run_codex: policy decides the cwd; a writing call locks it first.
CodexCalled(p) ==
    /\ pc[p] = "idle" /\ ~poisoned[p]
    /\ \E write \in BOOLEAN, w \in Workspaces :
        /\ call' = [call EXCEPT ![p] = [tool |-> "codex", write |-> write,
                                        thread |-> NoThread, cwd |-> w]]
        /\ pc' = [pc EXCEPT ![p] = IF write THEN "lockWorkspace" ELSE "start"]
    /\ UNCHANGED <<cwdOf, flock, lease, retained, poisoned, turn>>

\* run_reply: the thread is locked first.
ReplyCalled(p) ==
    /\ pc[p] = "idle" /\ ~poisoned[p]
    /\ \E write \in BOOLEAN, t \in Threads :
        /\ cwdOf[t] # NoWorkspace
        /\ call' = [call EXCEPT ![p] = [tool |-> "reply", write |-> write,
                                        thread |-> t, cwd |-> NoWorkspace]]
    /\ pc' = [pc EXCEPT ![p] = "lockThread"]
    /\ UNCHANGED <<cwdOf, flock, lease, retained, poisoned, turn>>

LocksWorkspace(p) ==
    /\ pc[p] = "lockWorkspace"
    /\ TryLock(p, call[p].cwd, IF call[p].tool = "codex" THEN "start" ELSE "submit")
    /\ UNCHANGED <<cwdOf, call, retained, poisoned, turn>>

\* thread/start: the App Server invents a thread id.
ThreadStarted(p) ==
    /\ pc[p] = "start"
    /\ \E t \in Threads :
        /\ cwdOf[t] = NoWorkspace
        /\ cwdOf' = [cwdOf EXCEPT ![t] = call[p].cwd]
        /\ call' = [call EXCEPT ![p].thread = t]
    /\ pc' = [pc EXCEPT ![p] = "lockThread"]
    /\ UNCHANGED <<flock, lease, retained, poisoned, turn>>

LocksThread(p) ==
    /\ pc[p] = "lockThread"
    /\ TryLock(p, call[p].thread, IF call[p].tool = "codex" THEN "submit" ELSE "read")
    /\ UNCHANGED <<cwdOf, call, retained, poisoned, turn>>

\* _execute_reply reads the thread's cwd, which a writing call locks as well.
ThreadRead(p) ==
    /\ pc[p] = "read"
    /\ call' = [call EXCEPT ![p].cwd = cwdOf[call[p].thread]]
    /\ pc' = [pc EXCEPT ![p] = IF call[p].write THEN "lockWorkspace" ELSE "submit"]
    /\ UNCHANGED <<cwdOf, flock, lease, retained, poisoned, turn>>

\* A policy violation, an RPC error or a cancellation before the turn.
CallRejected(p) ==
    /\ pc[p] \in {"start", "read", "submit"}
    /\ pc' = [pc EXCEPT ![p] = "settle"]
    /\ UNCHANGED <<cwdOf, flock, local>>

TurnSubmitted(p) ==
    /\ pc[p] = "submit"
    /\ turn' = [turn EXCEPT ![p] = "executing"]
    /\ pc' = [pc EXCEPT ![p] = "turn"]
    /\ UNCHANGED <<cwdOf, flock, call, lease, retained, poisoned>>

\* The terminal event was read, or the stop of the runtime confirmed.
TurnConfirmed(p) ==
    /\ pc[p] = "turn"
    /\ turn' = [turn EXCEPT ![p] = "over"]
    /\ pc' = [pc EXCEPT ![p] = "settle"]
    /\ UNCHANGED <<cwdOf, flock, call, lease, retained, poisoned>>

\* The run ends with neither: the turn may execute on.
TurnUnconfirmed(p) ==
    /\ pc[p] = "turn"
    /\ pc' = [pc EXCEPT ![p] = "settle"]
    /\ UNCHANGED <<cwdOf, flock, local>>

\* Mutant of Safe: the end of the run counts as the end of its turn.
SafeAtEnd(p) == TRUE

\* What _settle_lease knows: the turn is over, or was never sent.
Safe(p) == turn[p] # "executing"

\* _settle_lease: release the lease, or retain it and refuse further calls.
LeaseSettled(p) ==
    /\ pc[p] = "settle"
    /\ IF Safe(p)
       THEN /\ pc' = [pc EXCEPT ![p] = "release"]
            /\ UNCHANGED local
       ELSE /\ pc' = [pc EXCEPT ![p] = "idle"]
            /\ retained' = [retained EXCEPT ![p] = @ \cup lease[p]]
            /\ lease' = [lease EXCEPT ![p] = {}]
            /\ poisoned' = [poisoned EXCEPT ![p] = TRUE]
            /\ UNCHANGED <<call, turn>>
    /\ UNCHANGED <<cwdOf, flock>>

\* The lease pops the lock it took last: a reply's workspace, a new thread's id.
Newest(p) ==
    LET last == IF call[p].tool = "codex" THEN Threads ELSE Workspaces
    IN IF lease[p] \cap last # {} THEN lease[p] \cap last ELSE lease[p]

LockReleased(p) ==
    /\ pc[p] = "release"
    /\ \E f \in Newest(p) :
        /\ flock' = Unlocked(f)
        /\ lease' = [lease EXCEPT ![p] = @ \ {f}]
    /\ UNCHANGED <<cwdOf, pc, call, retained, poisoned, turn>>

\* The slot is free again.
CallEnds(p) ==
    /\ pc[p] = "release" /\ lease[p] = {}
    /\ pc' = [pc EXCEPT ![p] = "idle"]
    /\ call' = [call EXCEPT ![p] = NoCall]
    /\ turn' = [turn EXCEPT ![p] = "none"]
    /\ UNCHANGED <<cwdOf, flock, lease, retained, poisoned>>

-----------------------------------------------------------------------------
(* Processes end and start *)

\* The kernel closes the descriptors, whatever the process was doing.
ProcessEnds(p) ==
    /\ pc[p] # "down"
    /\ pc' = [pc EXCEPT ![p] = "down"]
    /\ flock' = [f \in Files |-> IF flock[f] = p THEN NoProcess ELSE flock[f]]
    /\ call' = [call EXCEPT ![p] = NoCall]
    /\ lease' = [lease EXCEPT ![p] = {}]
    /\ retained' = [retained EXCEPT ![p] = {}]
    /\ poisoned' = [poisoned EXCEPT ![p] = FALSE]
    /\ turn' = [turn EXCEPT ![p] = "none"]
    /\ UNCHANGED cwdOf

ProcessStarts(p) ==
    /\ pc[p] = "down"
    /\ pc' = [pc EXCEPT ![p] = "idle"]
    /\ UNCHANGED <<cwdOf, flock, local>>

-----------------------------------------------------------------------------
(* Specification *)

Called(p) == CodexCalled(p) \/ ReplyCalled(p)
Works(p) ==
    \/ LocksWorkspace(p) \/ LocksThread(p) \/ ThreadStarted(p) \/ ThreadRead(p)
    \/ CallRejected(p) \/ TurnSubmitted(p) \/ TurnConfirmed(p) \/ TurnUnconfirmed(p)
    \/ LeaseSettled(p) \/ LockReleased(p) \/ CallEnds(p)

Next == \E p \in Processes :
    Called(p) \/ Works(p) \/ ProcessEnds(p) \/ ProcessStarts(p)

\* Every await of a call is bounded, a turn's by its deadline.
Fairness == \A p \in Processes : WF_vars(Works(p))

Spec == Init /\ [][Next]_vars
FairSpec == Spec /\ Fairness

-----------------------------------------------------------------------------
(* Properties *)

TypeOK ==
    /\ cwdOf \in [Threads -> Workspaces \cup {NoWorkspace}]
    /\ flock \in [Files -> Processes \cup {NoProcess}]
    /\ pc \in [Processes -> Steps]
    /\ call \in [Processes -> Calls]
    /\ lease \in [Processes -> SUBSET Files]
    /\ retained \in [Processes -> SUBSET Files]
    /\ poisoned \in [Processes -> BOOLEAN]
    /\ turn \in [Processes -> {"none", "executing", "over"}]

\* Two calls conflict on their thread, or on a workspace that both write.
Conflict(p, q) ==
    \/ call[p].thread = call[q].thread
    \/ call[p].write /\ call[q].write /\ call[p].cwd = call[q].cwd

\* Turns of two living bridges that may be executing never conflict, also after
\* their runs have ended without a confirmation (coordinator.py, _settle_lease).
TurnsExclusive ==
    \A p, q \in Processes :
        p # q /\ turn[p] = "executing" /\ turn[q] = "executing" => ~Conflict(p, q)

\* A process without a call holds the locks it has retained, all of them, and no
\* other: no error path between two acquisitions leaks one, and a lock that guards
\* a turn of unknown fate is kept until the process ends (_RunLease).
NothingLeaks ==
    \A p \in Processes : pc[p] = "idle" =>
        {f \in Files : flock[f] = p} = retained[p]

\* A call that met a lock gives up what it holds: every call ends, and two calls
\* that take workspace and thread in opposite orders never wait for each other.
CallsEnd == \A p \in Processes : pc[p] # "idle" ~> pc[p] \in {"idle", "down"}
=============================================================================
