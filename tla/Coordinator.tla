----------------------------- MODULE Coordinator -----------------------------
(***************************************************************************)
(* The execution coordinator (coordinator.py): one process-wide execution  *)
(* slot, the runtime backends it owns, and the cancellation, timeout, stop *)
(* and shutdown paths that race for them.                                  *)
(*                                                                         *)
(* The coordinator is single-threaded asyncio code, so an action is the    *)
(* code of one task between two awaits.  The tasks are:                    *)
(*   pc[r]       the execution task of run r (_execute_codex/_reply)       *)
(*   pump[r]     its event pump (_pump_turn_events)                        *)
(*   sup[r]      the request handler that supervises it (_supervise)       *)
(*   cleanup[r]  the cancellation cleanup task (_cancel_run)               *)
(*   stop[b]     the shared stop task of backend b (_close_backend)        *)
(*   closer      the shutdown task (_aclose_inner)                         *)
(* A backend is seen through its interface (backend/interface.py): its     *)
(* state, and whether a runtime child is alive behind it.  Timers are      *)
(* abstracted: a deadline, a grace or a budget may pass whenever the code  *)
(* waits with one.                                                         *)
(***************************************************************************)
EXTENDS Naturals, FiniteSets

CONSTANTS
    Runs,       \* tool calls the client makes (a bound)
    Backends,   \* backend instances the factory can make (a bound)
    Threads,    \* thread ids
    Calls,      \* the kinds of call made: [tool, write] records
    Events,     \* what may go wrong, a subset of AllEvents (a bound)
    NoRun, NoBackend, NoThread

AllCalls == [tool : {"codex", "codex-reply"}, write : BOOLEAN]

\* Errors of a backend RPC.
RpcErrors == {"RPC_TIMEOUT", "RUNTIME_DISCONNECTED", "RUNTIME_BUSY",
              "UNSUPPORTED_SERVER_REQUEST"}

\* Errors of RPCs and of policy; the client's and the operator's decisions to
\* cancel and to shut down; the runtime child dying, or ending a turn with a
\* terminal event the bridge cannot read; the turn deadline; a close that
\* fails; a startup that fails.
AllEvents == RpcErrors \cup
    {"rejection", "cancellation", "shutdown", "crash", "unreadable", "deadline",
     "stopFailure", "startFailure"}

ASSUME ConstantsAssumption ==
    /\ NoRun \notin Runs
    /\ NoBackend \notin Backends
    /\ NoThread \notin Threads
    /\ Calls \subseteq AllCalls
    /\ Events \subseteq AllEvents

VARIABLES
    (* the request of a run *)
    call,       \* its arguments, NoCall until it is admitted
    sup,        \* the supervising request handler
    supStop,    \* the backend whose stop the handler awaits
    reply,      \* what the client has been told
    cleanup,    \* the cancellation cleanup task
    cancelled,  \* ActiveRun.cancellation_requested
    (* the execution task of a run *)
    pc, bk, outcome, pump,
    ref,        \* ActiveRun.backend_ref
    thread,     \* ActiveRun.thread_id
    lease,      \* the advisory locks its _RunLease holds
    submitted,  \* ActiveRun.turn_submission_started
    acked,      \* ActiveRun.turn_id is known
    confirmed,  \* ActiveRun.turn_terminal_confirmed
    assured,    \* ActiveRun.runtime_stop_assured
    terminal,   \* ActiveRun.terminal_event
    (* the coordinator *)
    active, backend, poisoned, stop, stopped, threadState,
    denied,     \* tasks that were told their stop is unconfirmed
    closer,
    closerStop, \* the backend whose stop the shutdown task awaits
    (* the runtimes behind the backends *)
    bstate, child, unsupported, wire,
    closes      \* how far close() ever got with the client of a backend

request   == <<call, sup, supStop, reply, cleanup>>
task      == <<pc, bk, outcome, pump, ref, thread>>
facts     == <<submitted, acked, confirmed, assured>>
ownership == <<lease, terminal, poisoned>>
stops     == <<backend, stop, stopped, denied>>
shutdown  == <<closer, closerStop>>
runtime   == <<bstate, child, unsupported, wire, closes>>
vars == <<request, cancelled, task, facts, ownership, active, stops, shutdown,
          threadState, runtime>>

-----------------------------------------------------------------------------
(* Values *)

NoCall == [tool |-> "none", write |-> FALSE]

\* The await an execution task is suspended at.
Awaits == {"created", "starting", "aborting", "replacing", "preparing", "opening",
           "openStopping", "settings", "submitting", "startStopping",
           "lateInterrupt", "running", "interrupting", "grace",
           "settleStopping"}

\* REJECTED stands for every policy, validation, lock and mismatch error.
\* EXECUTION_STATE_UNKNOWN, of a thread start/resume and of a turn start.
ThreadUnknown == "THREAD_STATE_UNKNOWN"
TurnUnknown == "TURN_STATE_UNKNOWN"
Errors == RpcErrors \cup
          {"REJECTED", "STARTUP_TIMEOUT", "RUNTIME_STOP_UNCONFIRMED",
           ThreadUnknown, TurnUnknown,
           "TURN_TIMEOUT", "TURN_FAILED", "TURN_INTERRUPTED"}
Outcomes == Errors \cup {"none", "success", "cancelled"}

\* _FATAL_RUNTIME_CODES and _UNKNOWN_OUTCOME_CODES
FatalCodes == {"UNSUPPORTED_SERVER_REQUEST", "RPC_TIMEOUT",
               "RUNTIME_DISCONNECTED"}
UnknownOutcomeCodes == {"RPC_TIMEOUT", "RUNTIME_DISCONNECTED", "RUNTIME_BUSY"}
\* Errors raised with result_uncertain set.
UncertainCodes == {TurnUnknown, "TURN_TIMEOUT"}
\* Errors raised with may_have_side_effects=True.
SideEffectCodes == UncertainCodes \cup
    {"UNSUPPORTED_SERVER_REQUEST", "TURN_FAILED", "TURN_INTERRUPTED"}

\* What the runtime did with the run's turn/start and its turn.
EndStates == {"completed", "interrupted", "failed"}
InFlight == {"sent", "running"}
WireStates == EndStates \cup InFlight \cup {"idle", "garbled", "lost"}

BackendStates == {"UNUSED", "STARTING", "READY", "DEGRADED", "STOPPING",
                  "STOP_FAILED", "CLOSED"}

\* close() was never called; it has begun, which takes the client away and
\* keeps every later start from adopting one (_start_aborted); the SDK's close
\* of the client raised, which its close future remembers.
Closes == {"none", "begun", "failed"}

-----------------------------------------------------------------------------
(* State predicates and helpers of the code *)

Closed == closer # "open"

\* Mutant of Safe: the event pump of the turn has ended.
SafeWithoutPump(r) == r \in assured \/ r \notin submitted \/ pump[r] # "on"

\* _settle_lease, _release_slot_if_safe: the run can no longer be executing.
Safe(r) == r \in confirmed \/ r \in assured \/ r \notin submitted

\* _run_settled_safe
SettledSafe(r) == Safe(r) \/ r \in terminal

\* No other lease of this process, and no other process, holds the lock.
ThreadLockFree(t) ==
    \A q \in Runs : ~(thread[q] = t /\ "thread" \in lease[q])
WorkspaceLockFree == \A q \in Runs : "workspace" \notin lease[q]

\* A turn of the run may be executing in a live runtime.
MayExecute(r) == wire[r] \in InFlight

\* _stop_backend: join the stop task of b, or create it.
JoinStop(b) ==
    IF b # NoBackend /\ b \notin stopped /\ stop[b] = "none"
    THEN [stop EXCEPT ![b] = "created"] ELSE stop

\* The tasks that await the stop of b, as the stop task reports to them:
\* execution tasks, cleanup tasks, and the two stops of the shutdown task.
StopAwaits == {"replacing", "openStopping", "startStopping", "settleStopping"}
Awaiting(b) ==
    {<<"task", r>> : r \in {q \in Runs : pc[q] \in StopAwaits /\ bk[q] = b}}
    \cup {<<"cleanup", r>> :
            r \in {q \in Runs : cleanup[q] = "stopping" /\ ref[q] = b}}
    \cup {<<c, NoRun>> :
            c \in {x \in {"runStopping", "stopping"} : closer = x /\ closerStop = b}}

\* Task w may resume from the stop of b; the stop it awaited was confirmed.
Stopping(b) == b \in {c \in Backends : stop[c] # "none"}
StopDone(w, b) == w \in denied \/ ~Stopping(b)
StopTrusted(w, b) == TRUE  \* mutant: the result of _stop_backend is ignored
StopConfirmed(w, b) == w \notin denied /\ (b = NoBackend \/ b \in stopped)

\* Turns in flight in the child of b end with it.
LoseTurns(b) ==
    [q \in Runs |-> IF ref[q] = b /\ wire[q] \in InFlight
                    THEN "lost" ELSE wire[q]]

\* _require_ready lets an RPC through, and a child is there to take it.
Serves(b) == bstate[b] = "READY" /\ child[b] /\ closes[b] = "none"

\* An RPC fails on a backend that does not serve it, or as the bound Events
\* allows; it degrades a ready backend when it timed out or found the child
\* gone.
Degrade(b) == IF bstate[b] = "READY" THEN [bstate EXCEPT ![b] = "DEGRADED"]
              ELSE bstate
RpcFails(b, e) ==
    /\ \/ e \in Events
       \/ e = "RUNTIME_DISCONNECTED" /\ ~Serves(b)
    /\ e = "UNSUPPORTED_SERVER_REQUEST" => b \in unsupported
    /\ e = "RUNTIME_BUSY" => bstate[b] = "READY"
    /\ bstate' = IF e = "RPC_TIMEOUT"
                    \/ (e = "RUNTIME_DISCONNECTED" /\ ~child[b])
                 THEN Degrade(b) ELSE bstate
RpcWorks(b) == child[b] /\ bstate[b] \in {"READY", "DEGRADED", "STOPPING"}

Goto(r, await) == pc' = [pc EXCEPT ![r] = await]

\* Mutant: a cancelled run ends without _settle_lease.
EndRunUnsettled(r, result, safe) ==
    /\ Goto(r, "done")
    /\ outcome' = [outcome EXCEPT ![r] = result]
    /\ bk' = [bk EXCEPT ![r] = NoBackend]
    /\ IF result = "cancelled" THEN UNCHANGED <<lease, terminal>>
       ELSE /\ lease' = IF safe THEN [lease EXCEPT ![r] = {}] ELSE lease
            /\ terminal' = IF safe THEN terminal \cup {r} ELSE terminal
    /\ poisoned' = (poisoned \/ ~safe \/ result = "RUNTIME_STOP_UNCONFIRMED")

\* The execution task ends with a result: _settle_lease releases the locks
\* and the slot of a safe run, and retains an unsafe one and poisons.
EndRun(r, result, safe) ==
    /\ Goto(r, "done")
    /\ outcome' = [outcome EXCEPT ![r] = result]
    /\ bk' = [bk EXCEPT ![r] = NoBackend]
    /\ lease' = IF safe THEN [lease EXCEPT ![r] = {}] ELSE lease
    /\ terminal' = IF safe THEN terminal \cup {r} ELSE terminal
    /\ poisoned' = (poisoned \/ ~safe \/ result = "RUNTIME_STOP_UNCONFIRMED")

\* Mutant: the record leaves ACTIVE only after a success.
EndTurnForgets(r, result, safe) ==
    /\ EndRun(r, result, safe)
    /\ threadState' = IF result = "success"
                      THEN [threadState EXCEPT ![thread[r]] = "IDLE"]
                      ELSE threadState

\* The same for a run whose thread record was ACTIVE.
EndTurn(r, result, safe) ==
    /\ EndRun(r, result, safe)
    /\ threadState' = [threadState EXCEPT ![thread[r]] =
                         IF result \in UncertainCodes THEN "UNKNOWN" ELSE "IDLE"]

\* _check_cancelled, then the next await.
CheckCancelled(r, next) ==
    IF r \in cancelled THEN EndRun(r, "cancelled", Safe(r))
    ELSE Goto(r, next) /\ UNCHANGED <<bk, outcome, ownership>>

-----------------------------------------------------------------------------
(* Admission *)

\* _reserve_slot and the THREAD_BUSY check of run_reply.
SlotFree == active = NoRun \/ active \in terminal
Admissible == ~Closed /\ ~poisoned /\ SlotFree

Refuse(r) ==
    /\ reply[r] = "none" /\ pc[r] = "idle" /\ ~Admissible
    /\ reply' = [reply EXCEPT ![r] = "busy"]
    /\ UNCHANGED <<call, sup, supStop, cleanup, cancelled, task, facts,
                   ownership, active, stops, shutdown, threadState, runtime>>

Admit(r) ==
    /\ reply[r] = "none" /\ pc[r] = "idle" /\ Admissible
    /\ active' = r
    /\ Goto(r, "created")
    /\ sup' = [sup EXCEPT ![r] = "waiting"]
    /\ \E c \in Calls, t \in Threads :
        /\ call' = [call EXCEPT ![r] = c]
        /\ thread' = IF c.tool = "codex-reply"
                     THEN [thread EXCEPT ![r] = t] ELSE thread
    /\ UNCHANGED <<supStop, reply, cleanup, cancelled, bk, outcome, pump, ref,
                   facts, ownership, stops, shutdown, threadState, runtime>>

-----------------------------------------------------------------------------
(* The execution task, up to the thread *)

\* Policy or a lock held by another process rejects the call, or it was
\* cancelled before its task ran.
Reject(r) ==
    /\ pc[r] = "created"
    /\ \/ "rejection" \in Events /\ EndRun(r, "REJECTED", Safe(r))
       \/ r \in cancelled /\ EndRun(r, "cancelled", Safe(r))
    /\ UNCHANGED <<request, cancelled, pump, ref, thread, facts, active,
                   stops, shutdown, threadState, runtime>>

\* start_runtime spawns a child; a degraded instance first closes its own.
SpawnChild(b) ==
    /\ bstate' = [bstate EXCEPT ![b] = "STARTING"]
    /\ child' = [child EXCEPT ![b] = TRUE]
    /\ unsupported' = unsupported \ {b}

\* start_runtime returns the client it has: none while a close() has it.
HasRuntime(b) == bstate[b] = "READY" /\ stop[b] # "closing"

\* _get_backend up to its first await, with the first locks of the run.  Once
\* a close() has begun, the worker closes what it spawns instead of adopting it.
GetBackend(r, b) ==
    \/ /\ HasRuntime(b)
       /\ Goto(r, "preparing")
       /\ ref' = [ref EXCEPT ![r] = b]
       /\ UNCHANGED <<bstate, child, unsupported, stop>>
    \/ /\ bstate[b] \in {"UNUSED", "DEGRADED"} /\ closes[b] = "none"
       /\ SpawnChild(b)
       /\ Goto(r, "starting")
       /\ UNCHANGED <<ref, stop>>
    \/ /\ bstate[b] \in {"READY", "DEGRADED"} /\ closes[b] # "none" /\ ~HasRuntime(b)
       /\ bstate' = [bstate EXCEPT ![b] = "STARTING"]
       /\ Goto(r, "aborting")
       /\ UNCHANGED <<ref, child, unsupported, stop>>
    \/ /\ bstate[b] \in {"STOPPING", "CLOSED"}
       /\ stop' = JoinStop(b)
       /\ Goto(r, "replacing")
       /\ UNCHANGED <<ref, bstate, child, unsupported>>

\* Mutant: every run gets a new instance.
ChosenFresh(b) == bstate[b] = "UNUSED"

\* The backend _get_backend works with: the current one, or a new instance.
Chosen(b) == b = backend \/ (backend = NoBackend /\ bstate[b] = "UNUSED")

Begin(r) ==
    /\ pc[r] = "created" /\ r \notin cancelled
    /\ IF call[r].tool = "codex-reply"
       THEN /\ threadState[thread[r]] # "ACTIVE"
            /\ ThreadLockFree(thread[r])
            /\ lease' = [lease EXCEPT ![r] = {"thread"}]
       ELSE /\ call[r].write => WorkspaceLockFree
            /\ lease' = [lease EXCEPT ![r] =
                           IF call[r].write THEN {"workspace"} ELSE {}]
    /\ \E b \in Backends :
        /\ Chosen(b)
        /\ backend' = b
        /\ bk' = [bk EXCEPT ![r] = b]
        /\ GetBackend(r, b)
    /\ UNCHANGED <<request, cancelled, outcome, pump, thread, facts, terminal,
                   poisoned, active, stopped, denied, shutdown, threadState, wire, closes>>

\* _get_backend on an instance whose stop failed: _fail_replacement.
BeginUnusable(r) ==
    /\ pc[r] = "created" /\ r \notin cancelled
    /\ backend # NoBackend /\ bstate[backend] = "STOP_FAILED"
    /\ EndRun(r, "RUNTIME_STOP_UNCONFIRMED", Safe(r))
    /\ UNCHANGED <<request, cancelled, pump, ref, thread, facts, active,
                   stops, shutdown, threadState, runtime>>

\* _replace_backend after the old backend's stop was confirmed: a fresh
\* instance becomes current and is started.
Replace(r) ==
    /\ pc[r] = "replacing" /\ StopDone(<<"task", r>>, bk[r])
    /\ StopConfirmed(<<"task", r>>, bk[r])
    /\ \E b \in Backends :
        /\ bstate[b] = "UNUSED"
        /\ backend' = b
        /\ bk' = [bk EXCEPT ![r] = b]
        /\ SpawnChild(b)
    /\ Goto(r, "starting")
    /\ UNCHANGED <<request, cancelled, outcome, pump, ref, thread, facts,
                   ownership, active, stop, stopped, denied, shutdown, threadState,
                   wire, closes>>

ReplaceFails(r) ==
    /\ pc[r] = "replacing" /\ StopDone(<<"task", r>>, bk[r])
    /\ ~StopConfirmed(<<"task", r>>, bk[r])
    /\ EndRun(r, "RUNTIME_STOP_UNCONFIRMED", Safe(r))
    /\ UNCHANGED <<request, cancelled, pump, ref, thread, facts, active,
                   stops, shutdown, threadState, runtime>>

\* start_runtime returned: READY is assigned whatever became of the instance
\* during the await.
Started(r) ==
    LET b == bk[r] IN
    /\ pc[r] = "starting"
    /\ bstate' = [bstate EXCEPT ![b] = "READY"]
    /\ wire' = LoseTurns(b)
    /\ ref' = [ref EXCEPT ![r] = b]
    /\ CheckCancelled(r, "preparing")
    /\ UNCHANGED <<request, cancelled, pump, thread, facts, active, stops,
                   shutdown, threadState, child, unsupported, closes>>

\* start_runtime failed; its own close() waits for one under way, and closes
\* the child unless that one did.
StartFails(r) ==
    LET b == bk[r] IN
    /\ pc[r] \in {"starting", "aborting"}
    /\ \/ /\ bstate[b] \in {"STARTING", "STOPPING"} /\ stop[b] # "closing"
          /\ closes[b] # "failed"
          /\ \/ "startFailure" \in Events \/ pc[r] = "aborting"
             \/ bstate[b] = "STOPPING" \/ ~child[b]
          /\ bstate' = [bstate EXCEPT ![b] = "CLOSED"]
          /\ child' = [child EXCEPT ![b] = FALSE]
          /\ closes' = [closes EXCEPT ![b] = "begun"]
          /\ wire' = LoseTurns(b)
       \/ bstate[b] = "CLOSED" /\ UNCHANGED <<bstate, child, closes, wire>>
    /\ \E e \in {"RUNTIME_DISCONNECTED", "STARTUP_TIMEOUT"} :
        EndRun(r, e, Safe(r))
    /\ UNCHANGED <<request, cancelled, pump, ref, thread, facts, active,
                   stops, shutdown, threadState, unsupported>>

\* start_runtime failed and so did the close of its child.
StartUnconfirmed(r) ==
    LET b == bk[r] IN
    /\ pc[r] \in {"starting", "aborting"}
    /\ \/ /\ bstate[b] \in {"STARTING", "STOPPING"} /\ stop[b] # "closing"
          /\ "stopFailure" \in Events
       \/ bstate[b] = "STOP_FAILED"
    /\ bstate' = [bstate EXCEPT ![b] = "STOP_FAILED"]
    /\ closes' = [closes EXCEPT ![b] = "failed"]
    /\ EndRun(r, "RUNTIME_STOP_UNCONFIRMED", Safe(r))
    /\ UNCHANGED <<request, cancelled, pump, ref, thread, facts, active,
                   stops, shutdown, threadState, child, unsupported, wire>>

-----------------------------------------------------------------------------
(* The execution task: resolving settings, opening the thread *)

\* A reply to a thread in state UNKNOWN reads its metadata first; otherwise
\* the only RPC here is a catalog fetch that the cache may save.
MustRead(r) == call[r].tool = "codex-reply" /\ threadState[thread[r]] = "UNKNOWN"

\* Everything up to the thread/start or thread/resume request.
Prepared(r) ==
    /\ pc[r] = "preparing"
    /\ MustRead(r) => RpcWorks(bk[r])
    /\ IF r \notin cancelled /\ call[r].tool = "codex-reply" /\ call[r].write
       THEN /\ WorkspaceLockFree
            /\ lease' = [lease EXCEPT ![r] = @ \cup {"workspace"}]
            /\ Goto(r, "opening")
            /\ UNCHANGED <<bk, outcome, terminal, poisoned>>
       ELSE CheckCancelled(r, "opening")
    /\ UNCHANGED <<request, cancelled, pump, ref, thread, facts, active,
                   stops, shutdown, threadState, runtime>>

\* An RPC before the submission failed, or what it returned is rejected
\* (policy, catalog, confirmed settings, a lock); the error is the result.
PrepareFails(r) ==
    /\ pc[r] \in {"preparing", "settings"}
    /\ \/ "rejection" \in Events /\ EndRun(r, "REJECTED", Safe(r)) /\ UNCHANGED bstate
       \/ \E e \in RpcErrors : RpcFails(bk[r], e) /\ EndRun(r, e, Safe(r))
    /\ UNCHANGED <<request, cancelled, pump, ref, thread, facts, active,
                   stops, shutdown, threadState, child, unsupported, wire, closes>>

\* The thread is open under the confirmed settings; a new thread's lock
\* joins the lease.
Opened(r) ==
    /\ pc[r] = "opening" /\ RpcWorks(bk[r])
    /\ IF r \notin cancelled /\ call[r].tool = "codex"
       THEN \E t \in Threads :
            /\ \A q \in Runs : thread[q] # t
            /\ thread' = [thread EXCEPT ![r] = t]
            /\ lease' = [lease EXCEPT ![r] = @ \cup {"thread"}]
            /\ Goto(r, "settings")
            /\ UNCHANGED <<bk, outcome, terminal, poisoned>>
       ELSE CheckCancelled(r, "settings") /\ UNCHANGED thread
    /\ UNCHANGED <<request, cancelled, pump, ref, facts, active, stops,
                   shutdown, threadState, runtime>>

\* thread/start or thread/resume failed.  When the outcome is unknown the
\* runtime is stopped first: the run's own after a start, the current one
\* (_stop_backend without a target) after a resume.
OpenFails(r) ==
    /\ pc[r] = "opening"
    /\ \/ "rejection" \in Events /\ EndRun(r, "REJECTED", Safe(r))
          /\ UNCHANGED <<bstate, stop>>
       \/ /\ RpcFails(bk[r], "UNSUPPORTED_SERVER_REQUEST")
          /\ EndRun(r, "UNSUPPORTED_SERVER_REQUEST", Safe(r))
          /\ UNCHANGED stop
       \/ LET b == IF call[r].tool = "codex" THEN bk[r] ELSE backend IN
          /\ \E e \in UnknownOutcomeCodes : RpcFails(bk[r], e)
          /\ bk' = [bk EXCEPT ![r] = b]
          /\ stop' = JoinStop(b)
          /\ Goto(r, "openStopping")
          /\ UNCHANGED <<outcome, ownership>>
    /\ UNCHANGED <<request, cancelled, pump, ref, thread, facts, active, backend,
                   stopped, denied, shutdown, threadState, child, unsupported, wire, closes>>

OpenStopped(r) ==
    /\ pc[r] = "openStopping" /\ StopDone(<<"task", r>>, bk[r])
    /\ EndRun(r, ThreadUnknown, Safe(r))
    /\ UNCHANGED <<request, cancelled, pump, ref, thread, facts, active,
                   stops, shutdown, threadState, runtime>>

-----------------------------------------------------------------------------
(* The execution task: the turn (_run_turn) *)

\* The last check of the cancellation flag and the submission are one
\* segment.  The request reaches a ready runtime only (_require_ready).
Submit(r) ==
    /\ pc[r] = "settings" /\ r \notin cancelled
    /\ threadState' = [threadState EXCEPT ![thread[r]] = "ACTIVE"]
    /\ submitted' = submitted \cup {r}
    /\ wire' = IF Serves(bk[r])
               THEN [wire EXCEPT ![r] = "sent"] ELSE wire
    /\ Goto(r, "submitting")
    /\ UNCHANGED <<request, cancelled, bk, outcome, pump, ref, thread, acked,
                   confirmed, assured, ownership, active, stops, shutdown,
                   bstate, child, unsupported, closes>>

\* Cancelled before the submission: a reply stops before its record turns
\* ACTIVE, a new thread's record is put back to IDLE.
Withdraw(r) ==
    /\ pc[r] = "settings" /\ r \in cancelled
    /\ EndRun(r, "cancelled", Safe(r))
    /\ threadState' = IF call[r].tool = "codex"
                      THEN [threadState EXCEPT ![thread[r]] = "IDLE"]
                      ELSE threadState
    /\ UNCHANGED <<request, cancelled, pump, ref, thread, facts, active,
                   stops, shutdown, runtime>>

\* turn/start was acknowledged: the turn id is known and the pump started,
\* after a late interrupt when the run was cancelled meanwhile.
Acknowledged(r) ==
    /\ pc[r] = "submitting"
    /\ wire[r] \in EndStates \cup {"running", "garbled"}
    /\ acked' = acked \cup {r}
    /\ IF r \in cancelled
       THEN Goto(r, "lateInterrupt") /\ UNCHANGED pump
       ELSE Goto(r, "running") /\ pump' = [pump EXCEPT ![r] = "on"]
    /\ UNCHANGED <<request, cancelled, bk, outcome, ref, thread, submitted,
                   confirmed, assured, ownership, active, stops, shutdown,
                   threadState, runtime>>

\* turn/start failed with an unknown outcome: stop the run's runtime.
SubmitUnknown(r) ==
    /\ pc[r] = "submitting"
    /\ \E e \in UnknownOutcomeCodes : RpcFails(bk[r], e)
    /\ stop' = JoinStop(bk[r])
    /\ Goto(r, "startStopping")
    /\ UNCHANGED <<request, cancelled, bk, outcome, pump, ref, thread, facts,
                   ownership, active, backend, stopped, denied, shutdown, threadState,
                   child, unsupported, wire, closes>>

SubmitStopped(r) ==
    LET ok == StopConfirmed(<<"task", r>>, bk[r]) IN
    /\ pc[r] = "startStopping" /\ StopDone(<<"task", r>>, bk[r])
    /\ assured' = IF ok THEN assured \cup {r} ELSE assured
    /\ EndTurn(r, TurnUnknown, ok \/ Safe(r))
    /\ UNCHANGED <<request, cancelled, pump, ref, thread, submitted, acked,
                   confirmed, active, stops, shutdown, runtime>>

\* Any other error of turn/start is raised as it is.
SubmitRefused(r) ==
    /\ pc[r] = "submitting"
    /\ RpcFails(bk[r], "UNSUPPORTED_SERVER_REQUEST")
    /\ EndTurn(r, "UNSUPPORTED_SERVER_REQUEST", Safe(r))
    /\ UNCHANGED <<request, cancelled, pump, ref, thread, facts, active,
                   stops, shutdown, child, unsupported, wire, closes>>

\* turn/interrupt is best effort, and degrades the backend when it times out.
Interrupted(b) ==
    bstate' \in {bstate} \cup {Degrade(b) : e \in {"RPC_TIMEOUT"} \cap Events}

LateInterrupted(r) ==
    /\ pc[r] = "lateInterrupt"
    /\ Interrupted(bk[r])
    /\ Goto(r, "running")
    /\ pump' = [pump EXCEPT ![r] = "on"]
    /\ UNCHANGED <<request, cancelled, bk, outcome, ref, thread, facts, ownership,
                   active, stops, shutdown, threadState, child, unsupported,
                   wire, closes>>

\* The pump reads a valid terminal event, or fails with its backend.
PumpTerminal(r) ==
    /\ pump[r] = "on" /\ wire[r] \in EndStates
    /\ pump' = [pump EXCEPT ![r] = "terminal"]
    /\ confirmed' = confirmed \cup {r}
    /\ UNCHANGED <<request, cancelled, pc, bk, outcome, ref, thread, submitted,
                   acked, assured, ownership, active, stops, shutdown,
                   threadState, runtime>>

PumpFails(r) ==
    /\ pump[r] = "on"
    /\ ~Serves(ref[r])
    /\ \/ pump' = [pump EXCEPT ![r] = "RUNTIME_DISCONNECTED"]
       \/ /\ ref[r] \in unsupported
          /\ pump' = [pump EXCEPT ![r] = "UNSUPPORTED_SERVER_REQUEST"]
    /\ UNCHANGED <<request, cancelled, pc, bk, outcome, ref, thread, facts,
                   ownership, active, stops, shutdown, threadState, runtime>>

\* The pump has ended with a terminal: the result of the run.
TurnEnded(r) ==
    /\ pc[r] = "running" /\ pump[r] = "terminal"
    /\ \/ /\ wire[r] = "completed"
          /\ \/ EndTurn(r, "success", Safe(r))
             \/ "rejection" \in Events /\ EndTurn(r, "REJECTED", Safe(r))
       \/ /\ wire[r] = "interrupted"
          /\ EndTurn(r, IF r \in cancelled THEN "cancelled"
                        ELSE "TURN_INTERRUPTED", Safe(r))
       \/ wire[r] = "failed" /\ EndTurn(r, "TURN_FAILED", Safe(r))
    /\ UNCHANGED <<request, cancelled, pump, ref, thread, facts, active,
                   stops, shutdown, runtime>>

\* The pump failed, or the turn deadline passed: _settle_after_failure
\* interrupts the turn before the error is raised.
TurnFails(r) ==
    /\ pc[r] = "running"
    /\ \/ /\ pump[r] \in RpcErrors
          /\ outcome' = [outcome EXCEPT ![r] = pump[r]]
       \/ /\ pump[r] = "on" /\ "deadline" \in Events
          /\ outcome' = [outcome EXCEPT ![r] = "TURN_TIMEOUT"]
    /\ Goto(r, "interrupting")
    /\ UNCHANGED <<request, cancelled, bk, pump, ref, thread, facts, ownership,
                   active, stops, shutdown, threadState, runtime>>

FailureInterrupted(r) ==
    /\ pc[r] = "interrupting"
    /\ Interrupted(bk[r])
    /\ Goto(r, "grace")
    /\ UNCHANGED <<request, cancelled, bk, outcome, pump, ref, thread, facts,
                   ownership, active, stops, shutdown, threadState, child,
                   unsupported, wire, closes>>

\* The terminal arrived or the grace has passed.
GraceEnds(r) ==
    /\ pc[r] = "grace"
    /\ IF SettledSafe(r)
       THEN EndTurn(r, outcome[r], Safe(r)) /\ UNCHANGED stop
       ELSE /\ stop' = JoinStop(ref[r])
            /\ Goto(r, "settleStopping")
            /\ UNCHANGED <<bk, outcome, ownership, threadState>>
    /\ UNCHANGED <<request, cancelled, pump, ref, thread, facts, active,
                   backend, stopped, denied, shutdown, runtime>>

SettleStopped(r) ==
    LET ok == StopConfirmed(<<"task", r>>, ref[r]) IN
    /\ pc[r] = "settleStopping" /\ StopDone(<<"task", r>>, ref[r])
    /\ assured' = IF ok THEN assured \cup {r} ELSE assured
    /\ EndTurn(r, outcome[r], ok \/ Safe(r))
    /\ UNCHANGED <<request, cancelled, pump, ref, thread, submitted, acked,
                   confirmed, active, stops, shutdown, runtime>>

-----------------------------------------------------------------------------
(* The request handler (_supervise) *)

\* Mutant: side effects follow from the error alone.
ErrorReplyByCode(r) == IF outcome[r] \in SideEffectCodes THEN "risky" ELSE "safe"

ErrorReply(r) == IF outcome[r] \in SideEffectCodes \/ r \in acked
                 THEN "risky" ELSE "safe"

\* The execution task ended without a fatal error: answer.
Answer(r) ==
    /\ sup[r] = "waiting" /\ pc[r] = "done"
    /\ outcome[r] \notin FatalCodes \cup {"cancelled"}
    /\ sup' = [sup EXCEPT ![r] = "done"]
    /\ reply' = [reply EXCEPT ![r] =
                    IF outcome[r] = "success" THEN "success" ELSE ErrorReply(r)]
    /\ outcome' = [outcome EXCEPT ![r] = "none"]
    /\ UNCHANGED <<call, supStop, cleanup, cancelled, pc, bk, pump, ref, thread,
                   facts, ownership,
                   active, stops, shutdown, threadState, runtime>>

\* A fatal error stops the runtime before it is answered: the run's own, or
\* the current one when the run had none yet.
StopFatal(r) ==
    LET b == IF ref[r] # NoBackend THEN ref[r] ELSE backend IN
    /\ sup[r] = "waiting" /\ pc[r] = "done" /\ outcome[r] \in FatalCodes
    /\ sup' = [sup EXCEPT ![r] = "stopping"]
    /\ supStop' = [supStop EXCEPT ![r] = b]
    /\ stop' = JoinStop(b)
    /\ UNCHANGED <<call, reply, cleanup, cancelled, task, facts, ownership,
                   active, backend, stopped, denied, shutdown, threadState, runtime>>

FatalStopped(r) ==
    /\ sup[r] = "stopping" /\ ~Stopping(supStop[r])
    /\ sup' = [sup EXCEPT ![r] = "done"]
    /\ supStop' = [supStop EXCEPT ![r] = NoBackend]
    /\ reply' = [reply EXCEPT ![r] = ErrorReply(r)]
    /\ outcome' = [outcome EXCEPT ![r] = "none"]
    /\ UNCHANGED <<call, cleanup, cancelled, pc, bk, pump, ref, thread, facts, ownership,
                   active, stops, shutdown, threadState, runtime>>

\* Mutant of Drop: cancellation_requested is not set.
DropUnmarked(r) ==
    /\ sup[r] = "waiting"
    /\ sup' = [sup EXCEPT ![r] = "done"]
    /\ reply' = [reply EXCEPT ![r] = "dropped"]
    /\ cleanup' = [cleanup EXCEPT ![r] = "created"]
    /\ UNCHANGED <<call, supStop, cancelled, task, facts, ownership, active,
                   stops, shutdown, threadState, runtime>>

\* The client cancels the request, or its task ended cancelled: no answer,
\* and a cleanup task that outlives the handler.
Drop(r) ==
    /\ sup[r] = "waiting"
    /\ sup' = [sup EXCEPT ![r] = "done"]
    /\ reply' = [reply EXCEPT ![r] = "dropped"]
    /\ cancelled' = cancelled \cup {r}
    /\ cleanup' = [cleanup EXCEPT ![r] = "created"]
    /\ UNCHANGED <<call, supStop, task, facts, ownership, active, stops,
                   shutdown, threadState, runtime>>

DropCancelled(r) == pc[r] = "done" /\ outcome[r] = "cancelled" /\ Drop(r)
ClientCancels(r) ==
    "cancellation" \in Events /\ outcome[r] # "cancelled" /\ Drop(r)

\* Cancelled while it awaits the fatal stop, which goes on without it.
ClientCancelsStop(r) ==
    /\ sup[r] = "stopping" /\ "cancellation" \in Events
    /\ sup' = [sup EXCEPT ![r] = "done"]
    /\ supStop' = [supStop EXCEPT ![r] = NoBackend]
    /\ reply' = [reply EXCEPT ![r] = "dropped"]
    /\ UNCHANGED <<call, cleanup, cancelled, task, facts, ownership,
                   active, stops, shutdown, threadState, runtime>>

-----------------------------------------------------------------------------
(* The cancellation cleanup task (_cancel_run) *)

\* The run owns the current runtime, or there is none: interrupt its turn.
OwnsRuntime(r) == r \in acked /\ backend \in {ref[r], NoBackend}

CleanupBegins(r) ==
    /\ cleanup[r] = "created"
    /\ IF r \in terminal \/ r \notin submitted
       THEN /\ cleanup' = [cleanup EXCEPT ![r] = "done"]
            /\ UNCHANGED threadState
       ELSE /\ cleanup' = [cleanup EXCEPT ![r] =
                 IF OwnsRuntime(r) THEN "interrupting" ELSE "waiting"]
            /\ threadState' =
                 [threadState EXCEPT ![thread[r]] = "INTERRUPTING"]
    /\ UNCHANGED <<call, sup, supStop, reply, cancelled, task, facts, ownership,
                   active, stops, shutdown, runtime>>

CleanupInterrupted(r) ==
    /\ cleanup[r] = "interrupting"
    /\ Interrupted(ref[r])
    /\ cleanup' = [cleanup EXCEPT ![r] = "waiting"]
    /\ UNCHANGED <<call, sup, supStop, reply, cancelled, task, facts, ownership,
                   active, stops, shutdown, threadState, child, unsupported,
                   wire, closes>>

\* _wait_terminal_or_stop: settled, or the grace passed and the run's own
\* runtime is stopped.
CleanupWaited(r) ==
    /\ cleanup[r] = "waiting"
    /\ IF SettledSafe(r)
       THEN cleanup' = [cleanup EXCEPT ![r] = "done"] /\ UNCHANGED stop
       ELSE /\ cleanup' = [cleanup EXCEPT ![r] = "stopping"]
            /\ stop' = JoinStop(ref[r])
    /\ UNCHANGED <<call, sup, supStop, reply, cancelled, task, facts, ownership,
                   active, backend, stopped, denied, shutdown, threadState, runtime>>

\* Mutant: the slot is released when the stop has ended, whatever its result.
SettleStopAnyway(w, r) ==
    /\ terminal' = terminal \cup {r}
    /\ assured' = IF StopConfirmed(w, ref[r]) THEN assured \cup {r} ELSE assured

\* A confirmed stop settles the run: runtime_stop_assured, slot released.
SettleStop(w, r) ==
    IF StopConfirmed(w, ref[r])
    THEN assured' = assured \cup {r} /\ terminal' = terminal \cup {r}
    ELSE UNCHANGED <<assured, terminal>>

CleanupStopped(r) ==
    /\ cleanup[r] = "stopping" /\ StopDone(<<"cleanup", r>>, ref[r])
    /\ SettleStop(<<"cleanup", r>>, r)
    /\ cleanup' = [cleanup EXCEPT ![r] = "done"]
    /\ UNCHANGED <<call, sup, supStop, reply, cancelled, task, submitted, acked,
                   confirmed, lease, poisoned, active, stops, shutdown,
                   threadState, runtime>>

\* The cleanup budget of the handler passed: the task is cancelled.
CleanupOverrun(r) ==
    /\ cleanup[r] \in {"interrupting", "waiting", "stopping"}
    /\ cleanup' = [cleanup EXCEPT ![r] = "done"]
    /\ UNCHANGED <<call, sup, supStop, reply, cancelled, task, facts, ownership,
                   active, stops, shutdown, threadState, runtime>>

-----------------------------------------------------------------------------
(* The stop task of a backend (_close_backend) *)

\* A failed close is sticky: a second one raises at once.
CloseBegins(b) ==
    /\ stop[b] = "created"
    /\ IF bstate[b] = "STOP_FAILED"
       THEN /\ stop' = [stop EXCEPT ![b] = "none"]
            /\ poisoned' = TRUE
            /\ denied' = denied \cup Awaiting(b)
            /\ UNCHANGED <<bstate, closes>>
       ELSE /\ stop' = [stop EXCEPT ![b] = "closing"]
            /\ bstate' = [bstate EXCEPT ![b] = "STOPPING"]
            /\ closes' = [closes EXCEPT ![b] = IF @ = "none" THEN "begun" ELSE @]
            /\ UNCHANGED <<poisoned, denied>>
    /\ UNCHANGED <<request, cancelled, task, facts, lease, terminal, active,
                   backend, stopped, shutdown, threadState, child, unsupported,
                   wire>>

\* The outcome of the one SDK close there is per client.
CloseConfirmed(b) ==
    /\ stop[b] = "closing" /\ closes[b] # "failed"
    /\ stop' = [stop EXCEPT ![b] = "none"]
    /\ stopped' = stopped \cup {b}
    /\ backend' = IF backend = b THEN NoBackend ELSE backend
    /\ bstate' = [bstate EXCEPT ![b] = "CLOSED"]
    /\ child' = [child EXCEPT ![b] = FALSE]
    /\ wire' = LoseTurns(b)
    /\ UNCHANGED <<request, cancelled, task, facts, ownership, active, denied, shutdown,
                   threadState, unsupported, closes>>

CloseFailed(b) ==
    /\ stop[b] = "closing"
    /\ stop' = [stop EXCEPT ![b] = "none"]
    /\ poisoned' = TRUE
    /\ denied' = denied \cup Awaiting(b)
    /\ UNCHANGED <<request, cancelled, task, facts, lease, terminal, active,
                   backend, stopped, shutdown, threadState, child, unsupported,
                   wire>>

\* close() raised, for the first time or as the close future remembers.
CloseRaises(b) ==
    /\ "stopFailure" \in Events \/ closes[b] = "failed"
    /\ CloseFailed(b)
    /\ bstate' = [bstate EXCEPT ![b] = "STOP_FAILED"]
    /\ closes' = [closes EXCEPT ![b] = "failed"]

\* close() did not return within its bound and is cancelled: the client is
\* given back, and the state stays as it is.
CloseTimesOut(b) ==
    /\ "stopFailure" \in Events
    /\ CloseFailed(b)
    /\ UNCHANGED <<bstate, closes>>

-----------------------------------------------------------------------------
(* Shutdown (aclose) *)

\* The last step of _aclose_inner: stop the current backend.
FinalStop ==
    /\ closer' = "stopping"
    /\ closerStop' = backend
    /\ stop' = JoinStop(backend)

UnfinishedOrNone == active \notin terminal  \* mutant: no check for a run
UnfinishedTurn == active \in submitted \ terminal  \* mutant: only a run with a turn
Unfinished == active # NoRun /\ active \notin terminal

\* No call is admitted from here on; what there is to stop is looked at later,
\* by a task of its own (_aclose_inner).
Aclose ==
    /\ closer = "open" /\ "shutdown" \in Events
    /\ closer' = "called"
    /\ UNCHANGED <<request, cancelled, task, facts, ownership, active, stops,
                   closerStop, threadState, runtime>>

\* The unfinished run is called off: its turn is interrupted or waited for, and
\* without one the current backend is stopped.
CloserBegins ==
    /\ closer = "called"
    /\ cancelled' = IF Unfinished THEN cancelled \cup {active} ELSE cancelled
    /\ IF Unfinished /\ active \in submitted
       THEN /\ closer' = IF OwnsRuntime(active) THEN "interrupting" ELSE "waiting"
            /\ threadState' =
                 [threadState EXCEPT ![thread[active]] = "INTERRUPTING"]
            /\ UNCHANGED <<closerStop, stop>>
       ELSE FinalStop /\ UNCHANGED threadState
    /\ UNCHANGED <<request, task, facts, ownership, active, backend, stopped, denied,
                   runtime>>

CloserInterrupted ==
    /\ closer = "interrupting"
    /\ Interrupted(ref[active])
    /\ closer' = "waiting"
    /\ UNCHANGED <<request, cancelled, task, facts, ownership, active, stops,
                   closerStop, threadState, child, unsupported, wire, closes>>

CloserWaited ==
    /\ closer = "waiting"
    /\ IF SettledSafe(active) THEN FinalStop
       ELSE /\ closer' = "runStopping"
            /\ closerStop' = ref[active]
            /\ stop' = JoinStop(ref[active])
    /\ UNCHANGED <<request, cancelled, task, facts, ownership, active, backend,
                   stopped, denied, threadState, runtime>>

CloserRunStopped ==
    /\ closer = "runStopping" /\ StopDone(<<closer, NoRun>>, closerStop)
    /\ SettleStop(<<closer, NoRun>>, active)
    /\ FinalStop
    /\ UNCHANGED <<request, cancelled, task, submitted, acked, confirmed, lease,
                   poisoned, active, backend, stopped, denied, threadState, runtime>>

\* aclose returns, or raises because the stop is unconfirmed.
CloserReports ==
    /\ closer = "stopping" /\ StopDone(<<closer, NoRun>>, closerStop)
    /\ closer' = IF StopConfirmed(<<closer, NoRun>>, closerStop)
                 THEN "healthy" ELSE "failed"
    /\ closerStop' = NoBackend
    /\ UNCHANGED <<request, cancelled, task, facts, ownership, active, stops,
                   threadState, runtime>>

CloserOverrun ==
    /\ closer \in {"interrupting", "waiting", "runStopping", "stopping"}
    /\ closer' = "failed"
    /\ closerStop' = NoBackend
    /\ UNCHANGED <<request, cancelled, task, facts, ownership, active, stops,
                   threadState, runtime>>

-----------------------------------------------------------------------------
(* The runtime child of a backend *)

TurnAccepted(r) ==
    /\ wire[r] = "sent"
    /\ wire' = [wire EXCEPT ![r] = "running"]
    /\ UNCHANGED <<request, cancelled, task, facts, ownership, active, stops,
                   shutdown, threadState, bstate, child, unsupported, closes>>

\* The turn ends; its terminal event may be one the bridge cannot parse.
TurnEnds(r) ==
    /\ wire[r] = "running"
    /\ \E s \in EndStates \cup {"garbled"} :
        /\ s = "garbled" => "unreadable" \in Events
        /\ wire' = [wire EXCEPT ![r] = s]
    /\ UNCHANGED <<request, cancelled, task, facts, ownership, active, stops,
                   shutdown, threadState, bstate, child, unsupported, closes>>

ChildDies(b) ==
    /\ child[b] /\ "crash" \in Events
    /\ child' = [child EXCEPT ![b] = FALSE]
    /\ wire' = LoseTurns(b)
    /\ UNCHANGED <<request, cancelled, task, facts, ownership, active, stops,
                   shutdown, threadState, bstate, unsupported, closes>>

\* The drain task notices that the transport closed.
DeathNoticed(b) ==
    /\ ~child[b] /\ bstate[b] = "READY"
    /\ bstate' = Degrade(b)
    /\ UNCHANGED <<request, cancelled, task, facts, ownership, active, stops,
                   shutdown, threadState, child, unsupported, wire, closes>>

\* The runtime sends a server request the bridge cannot answer.
UnsupportedRequest(b) ==
    /\ child[b] /\ bstate[b] = "READY"
    /\ "UNSUPPORTED_SERVER_REQUEST" \in Events
    /\ bstate' = Degrade(b)
    /\ unsupported' = unsupported \cup {b}
    /\ UNCHANGED <<request, cancelled, task, facts, ownership, active, stops,
                   shutdown, threadState, child, wire, closes>>

-----------------------------------------------------------------------------
(* The specification *)

\* Every task has ended: the bridge waits for a call beyond the bound, or its
\* process has exited.
AtRest ==
    /\ \A r \in Runs :
        /\ pc[r] \in {"idle", "done"} /\ sup[r] \in {"off", "done"}
        /\ cleanup[r] \in {"off", "done"}
    /\ \A b \in Backends : stop[b] = "none"
    /\ closer \in {"open", "healthy", "failed"}
    /\ UNCHANGED vars

Init ==
    /\ call = [r \in Runs |-> NoCall]
    /\ sup = [r \in Runs |-> "off"]
    /\ supStop = [r \in Runs |-> NoBackend]
    /\ reply = [r \in Runs |-> "none"]
    /\ cleanup = [r \in Runs |-> "off"]
    /\ cancelled = {}
    /\ pc = [r \in Runs |-> "idle"]
    /\ bk = [r \in Runs |-> NoBackend]
    /\ outcome = [r \in Runs |-> "none"]
    /\ pump = [r \in Runs |-> "off"]
    /\ ref = [r \in Runs |-> NoBackend]
    /\ thread = [r \in Runs |-> NoThread]
    /\ lease = [r \in Runs |-> {}]
    /\ submitted = {} /\ acked = {} /\ confirmed = {} /\ assured = {}
    /\ terminal = {}
    /\ active = NoRun /\ backend = NoBackend /\ poisoned = FALSE
    /\ stop = [b \in Backends |-> "none"] /\ stopped = {} /\ denied = {}
    /\ closer = "open" /\ closerStop = NoBackend
    /\ threadState = [t \in Threads |-> "UNKNOWN"]
    /\ bstate = [b \in Backends |-> "UNUSED"]
    /\ child = [b \in Backends |-> FALSE]
    /\ unsupported = {}
    /\ wire = [r \in Runs |-> "idle"]
    /\ closes = [b \in Backends |-> "none"]

GetBackendStep(r) ==
    \/ Reject(r) \/ Begin(r) \/ BeginUnusable(r) \/ Replace(r)
    \/ ReplaceFails(r) \/ Started(r) \/ StartFails(r) \/ StartUnconfirmed(r)
OpenStep(r) ==
    \/ Prepared(r) \/ PrepareFails(r) \/ Opened(r) \/ OpenFails(r)
    \/ OpenStopped(r) \/ Submit(r) \/ Withdraw(r)
TurnStep(r) ==
    \/ Acknowledged(r) \/ SubmitUnknown(r) \/ SubmitStopped(r)
    \/ SubmitRefused(r) \/ LateInterrupted(r) \/ TurnEnded(r) \/ TurnFails(r)
    \/ FailureInterrupted(r) \/ GraceEnds(r) \/ SettleStopped(r)
PumpStep(r) == PumpTerminal(r) \/ PumpFails(r)
HandlerStep(r) ==
    Answer(r) \/ StopFatal(r) \/ FatalStopped(r) \/ DropCancelled(r)
CleanupStep(r) ==
    \/ CleanupBegins(r) \/ CleanupInterrupted(r) \/ CleanupWaited(r)
    \/ CleanupStopped(r) \/ CleanupOverrun(r)
CloseStep(b) ==
    CloseBegins(b) \/ CloseConfirmed(b) \/ CloseRaises(b) \/ CloseTimesOut(b)
CloserStep ==
    \/ CloserBegins \/ CloserInterrupted \/ CloserWaited \/ CloserRunStopped
    \/ CloserReports \/ CloserOverrun
ClientStep(r) ==
    Refuse(r) \/ Admit(r) \/ ClientCancels(r) \/ ClientCancelsStop(r)
RuntimeStep ==
    \/ \E r \in Runs : TurnAccepted(r) \/ TurnEnds(r)
    \/ \E b \in Backends :
        ChildDies(b) \/ DeathNoticed(b) \/ UnsupportedRequest(b)

Next ==
    \/ \E r \in Runs :
        \/ ClientStep(r) \/ GetBackendStep(r) \/ OpenStep(r) \/ TurnStep(r)
        \/ PumpStep(r) \/ HandlerStep(r) \/ CleanupStep(r)
    \/ \E b \in Backends : CloseStep(b)
    \/ Aclose \/ CloserStep \/ RuntimeStep \/ AtRest

Spec == Init /\ [][Next]_vars

\* The event loop runs every task that is ready, and every await of one is
\* bounded by a timer or by the backend; the client and the runtime owe
\* nothing.
Fairness ==
    /\ \A r \in Runs :
        /\ WF_vars(GetBackendStep(r) \/ OpenStep(r) \/ TurnStep(r))
        /\ WF_vars(HandlerStep(r)) /\ WF_vars(CleanupStep(r))
    /\ \A b \in Backends : WF_vars(CloseStep(b))
    /\ WF_vars(CloserStep)

FairSpec == Spec /\ Fairness

-----------------------------------------------------------------------------
(* Properties *)

StopStates == {"none", "created", "closing"}
Replies == {"none", "busy", "success", "safe", "risky", "dropped"}

TypeRequest ==
    /\ call \in [Runs -> Calls \cup {NoCall}]
    /\ sup \in [Runs -> {"off", "waiting", "stopping", "done"}]
    /\ supStop \in [Runs -> Backends \cup {NoBackend}]
    /\ reply \in [Runs -> Replies]
    /\ cleanup \in [Runs -> {"off", "created", "interrupting", "waiting",
                             "stopping", "done"}]
    /\ cancelled \subseteq Runs
TypeTask ==
    /\ pc \in [Runs -> Awaits \cup {"idle", "done"}]
    /\ bk \in [Runs -> Backends \cup {NoBackend}]
    /\ outcome \in [Runs -> Outcomes]
    /\ pump \in [Runs -> {"off", "on", "terminal"} \cup RpcErrors]
    /\ ref \in [Runs -> Backends \cup {NoBackend}]
    /\ thread \in [Runs -> Threads \cup {NoThread}]
TypeOwnership ==
    /\ submitted \subseteq Runs /\ acked \subseteq Runs
    /\ confirmed \subseteq Runs /\ assured \subseteq Runs
    /\ terminal \subseteq Runs
    /\ lease \in [Runs -> SUBSET {"thread", "workspace"}]
    /\ poisoned \in BOOLEAN
    /\ active \in Runs \cup {NoRun}
TypeStops ==
    /\ backend \in Backends \cup {NoBackend}
    /\ stop \in [Backends -> StopStates]
    /\ stopped \subseteq Backends
    /\ denied \subseteq
         {"task", "cleanup", "runStopping", "stopping"} \X (Runs \cup {NoRun})
    /\ closer \in {"open", "called", "interrupting", "waiting", "runStopping",
                   "stopping", "healthy", "failed"}
    /\ closerStop \in Backends \cup {NoBackend}
    /\ closer \in {"interrupting", "waiting", "runStopping"} => active \in Runs
TypeRuntime ==
    /\ threadState \in [Threads -> {"UNKNOWN", "IDLE", "ACTIVE", "INTERRUPTING"}]
    /\ bstate \in [Backends -> BackendStates]
    /\ child \in [Backends -> BOOLEAN]
    /\ unsupported \subseteq Backends
    /\ wire \in [Runs -> WireStates]
    /\ closes \in [Backends -> Closes]

\* Every variable holds a value of its type.
TypeOK == TypeRequest /\ TypeTask /\ TypeOwnership /\ TypeStops /\ TypeRuntime

LocksOf(r) == IF call[r].write THEN {"thread", "workspace"} ELSE {"thread"}

\* While the runtime may be executing a run's turn, the run holds the
\* advisory lock of its thread, and of the workspace when it may write.
TurnHoldsLocks == \A r \in Runs : MayExecute(r) => LocksOf(r) \subseteq lease[r]

\* While a turn may be executing its run holds the process slot, so that no
\* other call is admitted next to it.
TurnHoldsSlot == \A r \in Runs :
    MayExecute(r) => active = r /\ r \notin terminal

\* At most one turn of this bridge may be executing.
OneTurn == \A r, q \in Runs : MayExecute(r) /\ MayExecute(q) => r = q

\* A backend is replaced only after its runtime is known to be gone: two
\* runtime children never live at the same time.
OneRuntime == \A b, c \in Backends : child[b] /\ child[c] => b = c

\* A client that was answered is not left with a turn that may still be
\* executing, unless the bridge refuses all further work.
AnswerSettles == \A r \in Runs :
    reply[r] \in {"success", "safe", "risky"} /\ MayExecute(r) => poisoned

\* A result is a success only for a turn whose completion was read, and an
\* error that does not announce side effects only for a turn never sent.
RepliesHonest == \A r \in Runs :
    /\ reply[r] = "success" => wire[r] = "completed" /\ r \in confirmed
    /\ reply[r] = "safe" => wire[r] = "idle"

\* A thread record is ACTIVE or INTERRUPTING only while a run that holds the
\* thread's lock is in its turn.
RecordFollowsTurn == \A t \in Threads :
    threadState[t] \in {"ACTIVE", "INTERRUPTING"} =>
        \E r \in Runs : thread[r] = t /\ "thread" \in lease[r] /\ r \in submitted

\* Work that was called off is not started by a task that was under way: no
\* turn is sent for a call the client has cancelled, and none for any call once
\* shutdown has looked for what there is to stop.
CalledOffStaysOff ==
    [][\A r \in Runs :
         (reply[r] = "dropped" \/ closer \notin {"open", "called"}) /\ wire[r] = "idle"
             => wire'[r] = "idle"]_vars

\* A shutdown reported healthy leaves no turn executing.
HealthyLeavesNoTurn == [][closer # "healthy" /\ closer' = "healthy" =>
    \A r \in Runs : wire'[r] \notin InFlight]_vars

\* A shutdown reported healthy leaves no runtime child alive.
HealthyLeavesNoChild == [][closer # "healthy" /\ closer' = "healthy" =>
    \A b \in Backends : ~child'[b]]_vars

\* Every admitted call is answered, or dropped because it was cancelled, and its
\* slot is freed, or the bridge refuses work.
CallsSettle == \A r \in Runs :
    pc[r] = "created" ~> reply[r] # "none" /\ (r \in terminal \/ poisoned)

-----------------------------------------------------------------------------
(* The coordinator implements the slot it promises (TurnSlot) *)

SlotPhase == [r \in Runs |->
    IF r \in terminal THEN "left"
    ELSE IF pc[r] = "idle" THEN "new"
    ELSE IF wire[r] = "idle" THEN "open"
    ELSE IF MayExecute(r) THEN "executing" ELSE "ended"]

Slot == INSTANCE TurnSlot WITH phase <- SlotPhase, refusing <- poisoned

\* Whatever its tasks do, what is seen of the coordinator is a turn slot: a
\* call enters only when the one before it has left, it leaves only when its
\* turn cannot be executing, and none enters after an unconfirmed stop.
ImplementsSlot == Slot!Spec

-----------------------------------------------------------------------------
(* The inductive invariant behind TurnHoldsLocks and TurnHoldsSlot *)

\* Awaits of an execution task: for its backend, before it has submitted its
\* turn, after that, and those in which the backend it works with is its own.
BeforeBackend == {"starting", "aborting", "replacing"}
BeforeTurn == BeforeBackend \cup {"preparing", "opening", "openStopping", "settings"}
InTurn == Awaits \ (BeforeTurn \cup {"created"})
OnBackend == {"preparing", "opening", "settings", "submitting", "startStopping"}

\* A turn is submitted once, after everything before it.
SubmittedOnce == \A r \in Runs :
    /\ pc[r] \in BeforeTurn \cup {"idle", "created"} => r \notin submitted
    /\ pc[r] \in InTurn => r \in submitted
    /\ r \notin submitted => /\ wire[r] = "idle" /\ pump[r] = "off"
                             /\ r \notin confirmed /\ r \notin assured

\* A cleanup or shutdown that waits for a run, waits for a submitted one.
CleanupOfTurns ==
    /\ \A r \in Runs : cleanup[r] \in {"interrupting", "waiting", "stopping"} =>
                           r \in submitted
    /\ closer \in {"interrupting", "waiting", "runStopping"} => active \in submitted

\* The evidence of the end of a turn is true.
EvidenceIsTrue ==
    /\ \A r \in confirmed : wire[r] \in EndStates
    /\ \A r \in assured : ~MayExecute(r)

\* A turn executes only in the live child of the run's own backend.
TurnHasChild == \A r \in Runs :
    /\ MayExecute(r) => ref[r] \in Backends /\ child[ref[r]]
    /\ pc[r] \in {"starting", "aborting"} => bk[r] \in Backends
    /\ pc[r] \in OnBackend => ref[r] \in Backends /\ bk[r] = ref[r]

\* What is remembered as stopped stays without a child, and is not current.
StoppedForGood == \A b \in stopped :
    bstate[b] # "UNUSED" /\ ~child[b] /\ stop[b] = "none" /\ backend # b

\* The locks a run takes on its way to the turn.
LocksOnTheWay == \A r \in Runs :
    /\ pc[r] \in BeforeTurn \cup {"created"} => call[r] \in AllCalls
    /\ pc[r] \in BeforeTurn => IF call[r].tool = "codex-reply"
                               THEN "thread" \in lease[r]
                               ELSE call[r].write => "workspace" \in lease[r]
    /\ pc[r] \in {"opening", "settings"} /\ call[r].write => "workspace" \in lease[r]
    /\ pc[r] = "settings" => "thread" \in lease[r]

\* A run has the slot from its admission on.
SlotOnTheWay == \A r \in Runs :
    /\ pc[r] \in BeforeTurn \cup {"created"} => active = r
    /\ pc[r] \in BeforeTurn \cup {"idle", "created"} => r \notin terminal

IInv == /\ TypeOK /\ SubmittedOnce /\ CleanupOfTurns /\ EvidenceIsTrue
        /\ TurnHasChild /\ StoppedForGood /\ LocksOnTheWay /\ SlotOnTheWay
        /\ TurnHoldsLocks /\ TurnHoldsSlot

=============================================================================
