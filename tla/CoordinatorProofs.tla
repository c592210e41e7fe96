-------------------------- MODULE CoordinatorProofs --------------------------
(***************************************************************************)
(* Proofs about Coordinator, for any numbers of calls, backends, threads:  *)
(* type correctness, the inductive invariant of the coordinator, and what  *)
(* follows from it: a turn that may be executing has its locks and the     *)
(* slot.                                                                   *)
(*                                                                         *)
(* Locks and slot are given up on evidence (Safe): the terminal was read,  *)
(* the stop of the runtime was confirmed, or nothing was ever sent.  The   *)
(* invariant says that this evidence is true of the runtime, and that a    *)
(* run collects slot and locks before its turn is sent.                    *)
(***************************************************************************)
EXTENDS Coordinator, TLAPS

-----------------------------------------------------------------------------
(* Type correctness: one lemma per group of steps *)

\* The types hold initially.
LEMMA TypeInit == Init => TypeOK
<1> SUFFICES ASSUME Init PROVE TypeOK
  OBVIOUS
<1> USE DEF Init
<1>1. TypeRequest BY DEF TypeRequest, Replies
<1>2. TypeTask BY DEF TypeTask, Outcomes
<1>3. TypeOwnership BY DEF TypeOwnership
<1>4. TypeStops BY DEF TypeStops, StopStates
<1>5. TypeRuntime BY DEF TypeRuntime, BackendStates, WireStates, Closes
<1>6. QED BY <1>1, <1>2, <1>3, <1>4, <1>5 DEF TypeOK

\* Type correctness is kept by calls and cancellations of the client.
LEMMA TypeClientStep ==
    ASSUME TypeOK, NEW r \in Runs, ClientStep(r)
    PROVE  TypeOK'
<1> USE DEF TypeOK
<1>1. CASE Refuse(r)
  <2> USE <1>1 DEF Refuse, task, facts, ownership, stops, shutdown, runtime
  <2>1. TypeRequest' BY DEF TypeRequest, Replies
  <2>2. TypeTask' /\ TypeOwnership' /\ TypeStops' /\ TypeRuntime'
    BY DEF
        TypeTask, TypeOwnership, TypeStops, TypeRuntime
  <2>3. QED BY <2>1, <2>2
<1>2. CASE Admit(r)
  <2> USE <1>2 DEF Admit, Goto, facts, ownership, stops, shutdown, runtime
  <2>1. TypeRequest' BY DEF TypeRequest
  <2>2. TypeTask' BY DEF TypeTask, Awaits
  <2>3. TypeOwnership' BY DEF TypeOwnership
  <2>4. TypeStops' BY DEF TypeStops, Admissible, Closed
  <2>5. TypeRuntime'
    BY DEF TypeRuntime
  <2>6. QED BY <2>1, <2>2, <2>3, <2>4, <2>5
<1>3. CASE ClientCancels(r)
  <2> USE <1>3 DEF ClientCancels, Drop, task, facts, ownership, stops,
        shutdown, runtime
  <2>1. TypeRequest' BY DEF TypeRequest, Replies
  <2>2. TypeTask' /\ TypeOwnership' /\ TypeStops' /\ TypeRuntime'
    BY DEF
        TypeTask, TypeOwnership, TypeStops, TypeRuntime
  <2>3. QED BY <2>1, <2>2
<1>4. CASE ClientCancelsStop(r)
  <2> USE <1>4 DEF ClientCancelsStop, task, facts, ownership, stops, shutdown,
        runtime
  <2>1. TypeRequest' BY DEF TypeRequest, Replies
  <2>2. TypeTask' /\ TypeOwnership' /\ TypeStops' /\ TypeRuntime'
    BY DEF
        TypeTask, TypeOwnership, TypeStops, TypeRuntime
  <2>3. QED BY <2>1, <2>2
<1>5. QED BY <1>1, <1>2, <1>3, <1>4 DEF ClientStep

\* Type correctness is kept by a run that gets its backend (_get_backend).
LEMMA TypeGetBackendStep ==
    ASSUME TypeOK, NEW r \in Runs, GetBackendStep(r)
    PROVE  TypeOK'
<1> USE DEF TypeOK
<1>1. CASE Reject(r)
  <2> USE <1>1 DEF Reject, EndRun, Goto, request, facts, stops, shutdown,
        runtime
  <2>1. TypeTask' BY DEF TypeTask, Awaits, Errors, Outcomes
  <2>2. TypeOwnership' BY DEF TypeOwnership
  <2>3. TypeRequest' /\ TypeStops' /\ TypeRuntime'
    BY DEF TypeRequest,
        TypeStops, TypeRuntime
  <2>4. QED BY <2>1, <2>2, <2>3
<1>2. CASE Begin(r)
  <2> USE <1>2 DEF Begin, GetBackend, SpawnChild, JoinStop, Goto, request,
        facts, shutdown
  <2>1. TypeTask' BY DEF TypeTask, Awaits
  <2>2. TypeOwnership' BY DEF TypeOwnership
  <2>3. TypeStops' BY DEF TypeStops, StopStates
  <2>4. TypeRuntime' BY DEF TypeRuntime, BackendStates
  <2>5. TypeRequest'
    BY DEF TypeRequest
  <2>6. QED BY <2>1, <2>2, <2>3, <2>4, <2>5
<1>3. CASE BeginUnusable(r)
  <2> USE <1>3 DEF BeginUnusable, EndRun, Goto, request, facts, stops,
        shutdown, runtime
  <2>1. TypeTask' BY DEF TypeTask, Awaits, Errors, Outcomes
  <2>2. TypeOwnership' BY DEF TypeOwnership
  <2>3. TypeRequest' /\ TypeStops' /\ TypeRuntime'
    BY DEF TypeRequest,
        TypeStops, TypeRuntime
  <2>4. QED BY <2>1, <2>2, <2>3
<1>4. CASE Replace(r)
  <2> USE <1>4 DEF Replace, SpawnChild, Goto, request, facts, ownership,
        shutdown
  <2>1. TypeTask' BY DEF TypeTask, Awaits
  <2>2. TypeStops' BY DEF TypeStops
  <2>3. TypeRuntime' BY DEF TypeRuntime, BackendStates
  <2>4. TypeRequest' /\ TypeOwnership'
    BY DEF TypeRequest, TypeOwnership
  <2>5. QED BY <2>1, <2>2, <2>3, <2>4
<1>5. CASE ReplaceFails(r)
  <2> USE <1>5 DEF ReplaceFails, EndRun, Goto, request, facts, stops,
        shutdown, runtime
  <2>1. TypeTask' BY DEF TypeTask, Awaits, Errors, Outcomes
  <2>2. TypeOwnership' BY DEF TypeOwnership
  <2>3. TypeRequest' /\ TypeStops' /\ TypeRuntime'
    BY DEF TypeRequest,
        TypeStops, TypeRuntime
  <2>4. QED BY <2>1, <2>2, <2>3
<1>6. CASE Started(r)
  <2> USE <1>6 DEF Started, LoseTurns, CheckCancelled, Goto, EndRun, request,
        facts, ownership, stops, shutdown
  <2>1. TypeTask' BY DEF TypeTask, Awaits, Errors, Outcomes
  <2>2. TypeOwnership' BY DEF TypeOwnership
  <2>3. TypeRuntime' BY DEF TypeRuntime, BackendStates, EndStates, InFlight,
        WireStates
  <2>4. TypeRequest' /\ TypeStops'
    BY DEF TypeRequest, TypeStops
  <2>5. QED BY <2>1, <2>2, <2>3, <2>4
<1>7. CASE StartFails(r)
  <2> USE <1>7 DEF StartFails, LoseTurns, EndRun, Goto, request, facts, stops,
        shutdown
  <2>1. TypeTask' BY DEF TypeTask, Awaits, Errors, Outcomes, RpcErrors
  <2>2. TypeOwnership' BY DEF TypeOwnership
  <2>3. TypeRuntime'
    <3> USE DEF TypeRuntime
    <3>1. wire' \in [Runs -> WireStates] BY DEF WireStates
    <3>2. bstate' \in [Backends -> BackendStates] BY DEF BackendStates
    <3>3. closes' \in [Backends -> Closes] BY DEF Closes
    <3>4. QED BY <3>1, <3>2, <3>3
  <2>4. TypeRequest' /\ TypeStops'
    BY DEF TypeRequest, TypeStops
  <2>5. QED BY <2>1, <2>2, <2>3, <2>4
<1>8. CASE StartUnconfirmed(r)
  <2> USE <1>8 DEF StartUnconfirmed, EndRun, Goto, request, facts, stops,
        shutdown
  <2>1. TypeTask' BY DEF TypeTask, Awaits, Errors, Outcomes
  <2>2. TypeOwnership' BY DEF TypeOwnership
  <2>3. TypeRuntime' BY DEF TypeRuntime, BackendStates, Closes
  <2>4. TypeRequest' /\ TypeStops'
    BY DEF TypeRequest, TypeStops
  <2>5. QED BY <2>1, <2>2, <2>3, <2>4
<1>9. QED BY <1>1, <1>2, <1>3, <1>4, <1>5, <1>6, <1>7, <1>8 DEF GetBackendStep

\* Type correctness is kept by a run up to the submission of its turn.
LEMMA TypeOpenStep ==
    ASSUME TypeOK, NEW r \in Runs, OpenStep(r)
    PROVE  TypeOK'
<1> USE DEF TypeOK
<1>1. CASE Prepared(r)
  <2> USE <1>1 DEF Prepared, Goto, CheckCancelled, EndRun, request, facts,
        ownership, stops, shutdown, runtime
  <2>1. TypeTask' BY DEF TypeTask, Awaits, Errors, Outcomes
  <2>2. TypeOwnership'
    <3> USE DEF TypeOwnership
    <3>1. lease' \in [Runs -> SUBSET {"thread", "workspace"}] OBVIOUS
    <3>2. terminal' \subseteq Runs OBVIOUS
    <3>3. QED BY <3>1, <3>2
  <2>3. TypeRequest' /\ TypeStops' /\ TypeRuntime'
    BY DEF TypeRequest,
        TypeStops, TypeRuntime
  <2>4. QED BY <2>1, <2>2, <2>3
<1>2. CASE PrepareFails(r)
  <2> USE <1>2 DEF PrepareFails, RpcFails, Degrade, EndRun, Goto, request,
        facts, stops, shutdown
  <2>1. TypeTask' BY DEF TypeTask, Awaits, Errors, Outcomes, RpcErrors
  <2>2. TypeOwnership' BY DEF TypeOwnership
  <2>3. TypeRuntime' BY DEF TypeRuntime, BackendStates
  <2>4. TypeRequest' /\ TypeStops'
    BY DEF TypeRequest, TypeStops
  <2>5. QED BY <2>1, <2>2, <2>3, <2>4
<1>3. CASE Opened(r)
  <2> USE <1>3 DEF Opened, Goto, CheckCancelled, EndRun, request, facts,
        ownership, stops, shutdown, runtime
  <2>1. TypeTask' BY DEF TypeTask, Awaits, Errors, Outcomes
  <2>2. TypeOwnership' BY DEF TypeOwnership
  <2>3. TypeRequest' /\ TypeStops' /\ TypeRuntime'
    BY DEF TypeRequest,
        TypeStops, TypeRuntime
  <2>4. QED BY <2>1, <2>2, <2>3
<1>4. CASE OpenFails(r)
  <2> USE <1>4 DEF OpenFails, RpcFails, Degrade, JoinStop, Goto, EndRun,
        request, facts, ownership, shutdown
  <2>1. TypeTask' BY DEF TypeTask, Awaits, Errors, Outcomes, RpcErrors,
        TypeStops
  <2>2. TypeOwnership' BY DEF TypeOwnership
  <2>3. TypeStops' BY DEF TypeStops, StopStates
  <2>4. TypeRuntime' BY DEF TypeRuntime, BackendStates
  <2>5. TypeRequest'
    BY DEF TypeRequest
  <2>6. QED BY <2>1, <2>2, <2>3, <2>4, <2>5
<1>5. CASE OpenStopped(r)
  <2> USE <1>5 DEF OpenStopped, EndRun, Goto, request, facts, stops, shutdown,
        runtime
  <2>1. TypeTask' BY DEF TypeTask, Awaits, Errors, Outcomes
  <2>2. TypeOwnership' BY DEF TypeOwnership
  <2>3. TypeRequest' /\ TypeStops' /\ TypeRuntime'
    BY DEF TypeRequest,
        TypeStops, TypeRuntime
  <2>4. QED BY <2>1, <2>2, <2>3
<1>6. CASE Submit(r)
  <2> USE <1>6 DEF Submit, Goto, request, ownership, stops, shutdown
  <2>1. TypeTask' BY DEF TypeTask, Awaits
  <2>2. TypeOwnership' BY DEF TypeOwnership
  <2>3. TypeRuntime' BY DEF TypeRuntime, EndStates, InFlight, WireStates
  <2>4. TypeRequest' /\ TypeStops'
    BY DEF TypeRequest, TypeStops
  <2>5. QED BY <2>1, <2>2, <2>3, <2>4
<1>7. CASE Withdraw(r)
  <2> USE <1>7 DEF Withdraw, EndRun, Goto, request, facts, stops, shutdown,
        runtime
  <2>1. TypeTask' BY DEF TypeTask, Awaits, Errors, Outcomes
  <2>2. TypeOwnership' BY DEF TypeOwnership
  <2>3. TypeRuntime' BY DEF TypeRuntime
  <2>4. TypeRequest' /\ TypeStops'
    BY DEF TypeRequest, TypeStops
  <2>5. QED BY <2>1, <2>2, <2>3, <2>4
<1>8. QED BY <1>1, <1>2, <1>3, <1>4, <1>5, <1>6, <1>7 DEF OpenStep

\* Type correctness is kept by a run in its turn (_run_turn).
LEMMA TypeTurnStep ==
    ASSUME TypeOK, NEW r \in Runs, TurnStep(r)
    PROVE  TypeOK'
<1> USE DEF TypeOK
<1>1. CASE Acknowledged(r)
  <2> USE <1>1 DEF Acknowledged, Goto, request, ownership, stops, shutdown,
        runtime
  <2>1. TypeTask' BY DEF TypeTask, Awaits, RpcErrors
  <2>2. TypeOwnership' BY DEF TypeOwnership
  <2>3. TypeRequest' /\ TypeStops' /\ TypeRuntime'
    BY DEF TypeRequest,
        TypeStops, TypeRuntime
  <2>4. QED BY <2>1, <2>2, <2>3
<1>2. CASE SubmitUnknown(r)
  <2> USE <1>2 DEF SubmitUnknown, RpcFails, Degrade, JoinStop, Goto, request,
        facts, ownership, shutdown
  <2>1. TypeTask' BY DEF TypeTask, Awaits
  <2>2. TypeStops' BY DEF TypeStops, StopStates
  <2>3. TypeRuntime' BY DEF TypeRuntime, BackendStates
  <2>4. TypeRequest' /\ TypeOwnership'
    BY DEF TypeRequest, TypeOwnership
  <2>5. QED BY <2>1, <2>2, <2>3, <2>4
<1>3. CASE SubmitStopped(r)
  <2> USE <1>3 DEF SubmitStopped, EndTurn, EndRun, Goto, request, stops,
        shutdown, runtime
  <2>1. TypeTask' BY DEF TypeTask, Awaits, Errors, Outcomes
  <2>2. TypeOwnership' BY DEF TypeOwnership
  <2>3. TypeRuntime' BY DEF TypeRuntime
  <2>4. TypeRequest' /\ TypeStops'
    BY DEF TypeRequest, TypeStops
  <2>5. QED BY <2>1, <2>2, <2>3, <2>4
<1>4. CASE SubmitRefused(r)
  <2> USE <1>4 DEF SubmitRefused, RpcFails, Degrade, EndTurn, EndRun, Goto,
        request, facts, stops, shutdown
  <2>1. TypeTask' BY DEF TypeTask, Awaits, Errors, Outcomes, RpcErrors
  <2>2. TypeOwnership' BY DEF TypeOwnership
  <2>3. TypeRuntime' BY DEF TypeRuntime, BackendStates
  <2>4. TypeRequest' /\ TypeStops'
    BY DEF TypeRequest, TypeStops
  <2>5. QED BY <2>1, <2>2, <2>3, <2>4
<1>5. CASE LateInterrupted(r)
  <2> USE <1>5 DEF LateInterrupted, Interrupted, Degrade, Goto, request,
        facts, ownership, stops, shutdown
  <2>1. TypeTask' BY DEF TypeTask, Awaits, RpcErrors
  <2>2. TypeRuntime' BY DEF TypeRuntime, BackendStates
  <2>3. TypeRequest' /\ TypeOwnership' /\ TypeStops'
    BY DEF TypeRequest,
        TypeOwnership, TypeStops
  <2>4. QED BY <2>1, <2>2, <2>3
<1>6. CASE TurnEnded(r)
  <2> USE <1>6 DEF TurnEnded, EndTurn, EndRun, Goto, request, facts, stops,
        shutdown, runtime
  <2>1. TypeTask' BY DEF TypeTask, Awaits, Errors, Outcomes
  <2>2. TypeOwnership' BY DEF TypeOwnership
  <2>3. TypeRuntime' BY DEF TypeRuntime
  <2>4. TypeRequest' /\ TypeStops'
    BY DEF TypeRequest, TypeStops
  <2>5. QED BY <2>1, <2>2, <2>3, <2>4
<1>7. CASE TurnFails(r)
  <2> USE <1>7 DEF TurnFails, Goto, request, facts, ownership, stops,
        shutdown, runtime
  <2>1. TypeTask' BY DEF TypeTask, Awaits, Errors, Outcomes, RpcErrors
  <2>2. TypeRequest' /\ TypeOwnership' /\ TypeStops' /\ TypeRuntime'
    BY DEF
        TypeRequest, TypeOwnership, TypeStops, TypeRuntime
  <2>3. QED BY <2>1, <2>2
<1>8. CASE FailureInterrupted(r)
  <2> USE <1>8 DEF FailureInterrupted, Interrupted, Degrade, Goto, request,
        facts, ownership, stops, shutdown
  <2>1. TypeTask' BY DEF TypeTask, Awaits
  <2>2. TypeRuntime' BY DEF TypeRuntime, BackendStates
  <2>3. TypeRequest' /\ TypeOwnership' /\ TypeStops'
    BY DEF TypeRequest,
        TypeOwnership, TypeStops
  <2>4. QED BY <2>1, <2>2, <2>3
<1>9. CASE GraceEnds(r)
  <2> USE <1>9 DEF GraceEnds, JoinStop, Goto, EndTurn, EndRun, request, facts,
        ownership, shutdown, runtime
  <2>1. TypeTask' BY DEF TypeTask, Awaits, Errors, Outcomes
  <2>2. TypeOwnership' BY DEF TypeOwnership
  <2>3. TypeStops' BY DEF TypeStops, StopStates
  <2>4. TypeRuntime' BY DEF TypeRuntime
  <2>5. TypeRequest'
    BY DEF TypeRequest
  <2>6. QED BY <2>1, <2>2, <2>3, <2>4, <2>5
<1>10. CASE SettleStopped(r)
  <2> USE <1>10 DEF SettleStopped, EndTurn, EndRun, Goto, request, stops,
        shutdown, runtime
  <2>1. TypeTask' BY DEF TypeTask, Awaits, Errors, Outcomes
  <2>2. TypeOwnership' BY DEF TypeOwnership
  <2>3. TypeRuntime' BY DEF TypeRuntime
  <2>4. TypeRequest' /\ TypeStops'
    BY DEF TypeRequest, TypeStops
  <2>5. QED BY <2>1, <2>2, <2>3, <2>4
<1>11. QED BY <1>1, <1>2, <1>3, <1>4, <1>5, <1>6, <1>7, <1>8, <1>9, <1>10 DEF TurnStep

\* Type correctness is kept by the event pump of a run.
LEMMA TypePumpStep ==
    ASSUME TypeOK, NEW r \in Runs, PumpStep(r)
    PROVE  TypeOK'
<1> USE DEF TypeOK
<1>1. CASE PumpTerminal(r)
  <2> USE <1>1 DEF PumpTerminal, request, ownership, stops, shutdown, runtime
  <2>1. TypeTask' BY DEF TypeTask, RpcErrors
  <2>2. TypeOwnership' BY DEF TypeOwnership
  <2>3. TypeRequest' /\ TypeStops' /\ TypeRuntime'
    BY DEF TypeRequest,
        TypeStops, TypeRuntime
  <2>4. QED BY <2>1, <2>2, <2>3
<1>2. CASE PumpFails(r)
  <2> USE <1>2 DEF PumpFails, request, facts, ownership, stops, shutdown,
        runtime
  <2>1. TypeTask' BY DEF TypeTask, RpcErrors
  <2>2. TypeRequest' /\ TypeOwnership' /\ TypeStops' /\ TypeRuntime'
    BY DEF
        TypeRequest, TypeOwnership, TypeStops, TypeRuntime
  <2>3. QED BY <2>1, <2>2
<1>3. QED BY <1>1, <1>2 DEF PumpStep

\* Type correctness is kept by the request handler (_supervise).
LEMMA TypeHandlerStep ==
    ASSUME TypeOK, NEW r \in Runs, HandlerStep(r)
    PROVE  TypeOK'
<1> USE DEF TypeOK
<1>1. CASE Answer(r)
  <2> USE <1>1 DEF Answer, ErrorReply, facts, ownership, stops, shutdown,
        runtime
  <2>1. TypeRequest' BY DEF TypeRequest, Replies
  <2>2. TypeTask' BY DEF TypeTask, Errors, Outcomes
  <2>3. TypeOwnership' /\ TypeStops' /\ TypeRuntime'
    BY DEF TypeOwnership,
        TypeStops, TypeRuntime
  <2>4. QED BY <2>1, <2>2, <2>3
<1>2. CASE StopFatal(r)
  <2> USE <1>2 DEF StopFatal, JoinStop, task, facts, ownership, shutdown,
        runtime
  <2>1. TypeRequest' BY DEF TypeRequest, TypeStops, TypeTask
  <2>2. TypeStops' BY DEF TypeStops, StopStates
  <2>3. TypeTask' /\ TypeOwnership' /\ TypeRuntime'
    BY DEF TypeTask,
        TypeOwnership, TypeRuntime
  <2>4. QED BY <2>1, <2>2, <2>3
<1>3. CASE FatalStopped(r)
  <2> USE <1>3 DEF FatalStopped, ErrorReply, facts, ownership, stops,
        shutdown, runtime
  <2>1. TypeRequest' BY DEF TypeRequest, Replies
  <2>2. TypeTask' BY DEF TypeTask, Errors, Outcomes
  <2>3. TypeOwnership' /\ TypeStops' /\ TypeRuntime'
    BY DEF TypeOwnership,
        TypeStops, TypeRuntime
  <2>4. QED BY <2>1, <2>2, <2>3
<1>4. CASE DropCancelled(r)
  <2> USE <1>4 DEF DropCancelled, Drop, task, facts, ownership, stops,
        shutdown, runtime
  <2>1. TypeRequest' BY DEF TypeRequest, Replies
  <2>2. TypeTask' /\ TypeOwnership' /\ TypeStops' /\ TypeRuntime'
    BY DEF
        TypeTask, TypeOwnership, TypeStops, TypeRuntime
  <2>3. QED BY <2>1, <2>2
<1>5. QED BY <1>1, <1>2, <1>3, <1>4 DEF HandlerStep

\* Type correctness is kept by the cancellation cleanup (_cancel_run).
LEMMA TypeCleanupStep ==
    ASSUME TypeOK, NEW r \in Runs, CleanupStep(r)
    PROVE  TypeOK'
<1> USE DEF TypeOK
<1>1. CASE CleanupBegins(r)
  <2> USE <1>1 DEF CleanupBegins, task, facts, ownership, stops, shutdown,
        runtime
  <2>1. TypeRequest' BY DEF TypeRequest
  <2>2. TypeRuntime' BY DEF TypeRuntime
  <2>3. TypeTask' /\ TypeOwnership' /\ TypeStops'
    BY DEF TypeTask,
        TypeOwnership, TypeStops
  <2>4. QED BY <2>1, <2>2, <2>3
<1>2. CASE CleanupInterrupted(r)
  <2> USE <1>2 DEF CleanupInterrupted, Interrupted, Degrade, task, facts,
        ownership, stops, shutdown
  <2>1. TypeRequest' BY DEF TypeRequest
  <2>2. TypeRuntime' BY DEF TypeRuntime, BackendStates
  <2>3. TypeTask' /\ TypeOwnership' /\ TypeStops'
    BY DEF TypeTask,
        TypeOwnership, TypeStops
  <2>4. QED BY <2>1, <2>2, <2>3
<1>3. CASE CleanupWaited(r)
  <2> USE <1>3 DEF CleanupWaited, JoinStop, task, facts, ownership, shutdown,
        runtime
  <2>1. TypeRequest' BY DEF TypeRequest
  <2>2. TypeStops' BY DEF TypeStops, StopStates
  <2>3. TypeTask' /\ TypeOwnership' /\ TypeRuntime'
    BY DEF TypeTask,
        TypeOwnership, TypeRuntime
  <2>4. QED BY <2>1, <2>2, <2>3
<1>4. CASE CleanupStopped(r)
  <2> USE <1>4 DEF CleanupStopped, SettleStop, task, stops, shutdown, runtime
  <2>1. TypeRequest' BY DEF TypeRequest
  <2>2. TypeOwnership' BY DEF TypeOwnership
  <2>3. TypeTask' /\ TypeStops' /\ TypeRuntime'
    BY DEF TypeTask,
        TypeStops, TypeRuntime
  <2>4. QED BY <2>1, <2>2, <2>3
<1>5. CASE CleanupOverrun(r)
  <2> USE <1>5 DEF CleanupOverrun, task, facts, ownership, stops, shutdown,
        runtime
  <2>1. TypeRequest' BY DEF TypeRequest
  <2>2. TypeTask' /\ TypeOwnership' /\ TypeStops' /\ TypeRuntime'
    BY DEF
        TypeTask, TypeOwnership, TypeStops, TypeRuntime
  <2>3. QED BY <2>1, <2>2
<1>6. QED BY <1>1, <1>2, <1>3, <1>4, <1>5 DEF CleanupStep

\* Type correctness is kept by the stop of a backend (_close_backend).
LEMMA TypeCloseStep ==
    ASSUME TypeOK, NEW b \in Backends, CloseStep(b)
    PROVE  TypeOK'
<1> USE DEF TypeOK
<1>1. CASE CloseBegins(b)
  <2> USE <1>1 DEF CloseBegins, request, task, facts, shutdown
  <2>1. TypeOwnership' BY DEF TypeOwnership
  <2>2. TypeStops' BY DEF TypeStops, Awaiting, StopStates
  <2>3. TypeRuntime' BY DEF TypeRuntime, BackendStates, Closes
  <2>4. TypeRequest' /\ TypeTask'
    BY DEF TypeRequest, TypeTask
  <2>5. QED BY <2>1, <2>2, <2>3, <2>4
<1>2. CASE CloseConfirmed(b)
  <2> USE <1>2 DEF CloseConfirmed, LoseTurns, request, task, facts, ownership,
        shutdown
  <2>1. TypeStops' BY DEF TypeStops, StopStates
  <2>2. TypeRuntime' BY DEF TypeRuntime, BackendStates, EndStates, InFlight,
        WireStates
  <2>3. TypeRequest' /\ TypeTask' /\ TypeOwnership'
    BY DEF TypeRequest,
        TypeTask, TypeOwnership
  <2>4. QED BY <2>1, <2>2, <2>3
<1>3. CASE CloseRaises(b)
  <2> USE <1>3 DEF CloseRaises, CloseFailed, request, task, facts, shutdown
  <2>1. TypeOwnership' BY DEF TypeOwnership
  <2>2. TypeStops' BY DEF TypeStops, Awaiting, StopStates
  <2>3. TypeRuntime' BY DEF TypeRuntime, BackendStates, Closes
  <2>4. TypeRequest' /\ TypeTask'
    BY DEF TypeRequest, TypeTask
  <2>5. QED BY <2>1, <2>2, <2>3, <2>4
<1>4. CASE CloseTimesOut(b)
  <2> USE <1>4 DEF CloseTimesOut, CloseFailed, request, task, facts, shutdown
  <2>1. TypeOwnership' BY DEF TypeOwnership
  <2>2. TypeStops' BY DEF TypeStops, Awaiting, StopStates
  <2>3. TypeRequest' /\ TypeTask' /\ TypeRuntime'
    BY DEF TypeRequest,
        TypeTask, TypeRuntime
  <2>4. QED BY <2>1, <2>2, <2>3
<1>5. QED BY <1>1, <1>2, <1>3, <1>4 DEF CloseStep

\* Type correctness is kept by the shutdown task (_aclose_inner).
LEMMA TypeCloserStep ==
    ASSUME TypeOK, CloserStep
    PROVE  TypeOK'
<1> USE DEF TypeOK
<1>1. CASE CloserInterrupted
  <2> USE <1>1 DEF CloserInterrupted, Interrupted, Degrade, request, task,
        facts, ownership, stops
  <2>1. TypeStops' BY DEF TypeStops
  <2>2. TypeRuntime' BY DEF TypeRuntime, BackendStates
  <2>3. TypeRequest' /\ TypeTask' /\ TypeOwnership'
    BY DEF TypeRequest,
        TypeTask, TypeOwnership
  <2>4. QED BY <2>1, <2>2, <2>3
<1>2. CASE CloserWaited
  <2> USE <1>2 DEF CloserWaited, JoinStop, FinalStop, request, task, facts,
        ownership, runtime
  <2>1. TypeStops' BY DEF TypeStops, StopStates, TypeTask
  <2>2. TypeRequest' /\ TypeTask' /\ TypeOwnership' /\ TypeRuntime'
    BY DEF
        TypeRequest, TypeTask, TypeOwnership, TypeRuntime
  <2>3. QED BY <2>1, <2>2
<1>3. CASE CloserRunStopped
  <2> USE <1>3 DEF CloserRunStopped, SettleStop, FinalStop, JoinStop, request,
        task, runtime
  <2>1. TypeOwnership' BY DEF TypeOwnership, TypeStops
  <2>2. TypeStops' BY DEF TypeStops, StopStates
  <2>3. TypeRequest' /\ TypeTask' /\ TypeRuntime'
    BY DEF TypeRequest,
        TypeTask, TypeRuntime
  <2>4. QED BY <2>1, <2>2, <2>3
<1>4. CASE CloserReports
  <2> USE <1>4 DEF CloserReports, request, task, facts, ownership, stops,
        runtime
  <2>1. TypeStops' BY DEF TypeStops
  <2>2. TypeRequest' /\ TypeTask' /\ TypeOwnership' /\ TypeRuntime'
    BY DEF
        TypeRequest, TypeTask, TypeOwnership, TypeRuntime
  <2>3. QED BY <2>1, <2>2
<1>5. CASE CloserOverrun
  <2> USE <1>5 DEF CloserOverrun, request, task, facts, ownership, stops,
        runtime
  <2>1. TypeStops' BY DEF TypeStops
  <2>2. TypeRequest' /\ TypeTask' /\ TypeOwnership' /\ TypeRuntime'
    BY DEF
        TypeRequest, TypeTask, TypeOwnership, TypeRuntime
  <2>3. QED BY <2>1, <2>2
<1>6. CASE CloserBegins
  <2> USE <1>6 DEF CloserBegins, FinalStop, JoinStop, request, task, facts,
        ownership, runtime
  <2>1. TypeRequest' BY DEF TypeRequest, TypeOwnership, Unfinished
  <2>2. TypeStops' BY DEF TypeStops, StopStates, TypeOwnership, Unfinished
  <2>3. TypeRuntime' BY DEF TypeRuntime
  <2>4. TypeTask' /\ TypeOwnership'
    BY DEF TypeTask, TypeOwnership
  <2>5. QED BY <2>1, <2>2, <2>3, <2>4
<1>7. QED BY <1>1, <1>2, <1>3, <1>4, <1>5, <1>6 DEF CloserStep

\* Type correctness is kept by the start of shutdown and by the runtimes.
LEMMA TypeShutdownAndRuntime ==
    ASSUME TypeOK, Aclose \/ RuntimeStep \/ AtRest \/ UNCHANGED vars
    PROVE  TypeOK'
<1> USE DEF TypeOK
<1>1. CASE Aclose
  <2> USE <1>1 DEF Aclose, request, task, facts, ownership, stops, runtime
  <2>1. TypeStops' BY DEF TypeStops
  <2>2. TypeRequest' /\ TypeTask' /\ TypeOwnership' /\ TypeRuntime'
    BY DEF TypeRequest, TypeTask, TypeOwnership, TypeRuntime
  <2>3. QED BY <2>1, <2>2
<1>2. ASSUME NEW r \in Runs, TurnAccepted(r) PROVE TypeOK'
  <2> USE <1>2 DEF TurnAccepted, request, task, facts, ownership, stops,
        shutdown
  <2>1. TypeRuntime' BY DEF TypeRuntime, EndStates, InFlight, WireStates
  <2>2. TypeRequest' /\ TypeTask' /\ TypeOwnership' /\ TypeStops'
    BY DEF
        TypeRequest, TypeTask, TypeOwnership, TypeStops
  <2>3. QED BY <2>1, <2>2
<1>3. ASSUME NEW r \in Runs, TurnEnds(r) PROVE TypeOK'
  <2> USE <1>3 DEF TurnEnds, request, task, facts, ownership, stops, shutdown
  <2>1. TypeRuntime' BY DEF TypeRuntime, EndStates, InFlight, WireStates
  <2>2. TypeRequest' /\ TypeTask' /\ TypeOwnership' /\ TypeStops'
    BY DEF
        TypeRequest, TypeTask, TypeOwnership, TypeStops
  <2>3. QED BY <2>1, <2>2
<1>4. ASSUME NEW b \in Backends, ChildDies(b) PROVE TypeOK'
  <2> USE <1>4 DEF ChildDies, LoseTurns, request, task, facts, ownership,
        stops, shutdown
  <2>1. TypeRuntime' BY DEF TypeRuntime, EndStates, InFlight, WireStates
  <2>2. TypeRequest' /\ TypeTask' /\ TypeOwnership' /\ TypeStops'
    BY DEF
        TypeRequest, TypeTask, TypeOwnership, TypeStops
  <2>3. QED BY <2>1, <2>2
<1>5. ASSUME NEW b \in Backends, DeathNoticed(b) PROVE TypeOK'
  <2> USE <1>5 DEF DeathNoticed, Degrade, request, task, facts, ownership,
        stops, shutdown
  <2>1. TypeRuntime' BY DEF TypeRuntime, BackendStates
  <2>2. TypeRequest' /\ TypeTask' /\ TypeOwnership' /\ TypeStops'
    BY DEF
        TypeRequest, TypeTask, TypeOwnership, TypeStops
  <2>3. QED BY <2>1, <2>2
<1>6. ASSUME NEW b \in Backends, UnsupportedRequest(b) PROVE TypeOK'
  <2> USE <1>6 DEF UnsupportedRequest, Degrade, request, task, facts,
        ownership, stops, shutdown
  <2>1. TypeRuntime' BY DEF TypeRuntime, BackendStates
  <2>2. TypeRequest' /\ TypeTask' /\ TypeOwnership' /\ TypeStops'
    BY DEF
        TypeRequest, TypeTask, TypeOwnership, TypeStops
  <2>3. QED BY <2>1, <2>2
<1>7. CASE AtRest \/ UNCHANGED vars
  <2> USE <1>7 DEF AtRest, vars, request, task, facts, ownership, stops, shutdown, runtime
  <2>1. TypeRequest' /\ TypeTask' BY DEF TypeRequest, TypeTask
  <2>2. TypeOwnership' /\ TypeStops' BY DEF TypeOwnership, TypeStops
  <2>3. TypeRuntime' BY DEF TypeRuntime
  <2>4. QED BY <2>1, <2>2, <2>3
<1>8. QED BY <1>1, <1>2, <1>3, <1>4, <1>5, <1>6, <1>7 DEF RuntimeStep

\* Type correctness is kept by every step.
LEMMA TypeNext == TypeOK /\ [Next]_vars => TypeOK'
<1> SUFFICES ASSUME TypeOK, [Next]_vars PROVE TypeOK'
  OBVIOUS
<1>1. ASSUME NEW r \in Runs,
             \/ ClientStep(r) \/ GetBackendStep(r) \/ OpenStep(r)
             \/ TurnStep(r) \/ PumpStep(r) \/ HandlerStep(r) \/ CleanupStep(r)
      PROVE  TypeOK'
  BY <1>1, TypeClientStep, TypeGetBackendStep, TypeOpenStep, TypeTurnStep,
     TypePumpStep, TypeHandlerStep, TypeCleanupStep
<1>2. ASSUME NEW b \in Backends, CloseStep(b) PROVE TypeOK'
  BY <1>2, TypeCloseStep
<1>3. QED BY <1>1, <1>2, TypeCloserStep, TypeShutdownAndRuntime DEF Next

\* Every reachable state of the coordinator is well typed.
THEOREM TypeCorrect == Spec => []TypeOK
BY TypeInit, TypeNext, PTL DEF Spec

-----------------------------------------------------------------------------
(* The inductive invariant *)

\* A stop that was confirmed to a run has ended its turn.
LEMMA ConfirmedStop ==
    ASSUME IInv, NEW r \in Runs, NEW w, StopConfirmed(w, ref[r])
    PROVE  ~MayExecute(r)
BY ConstantsAssumption DEF IInv, TurnHasChild, StoppedForGood, StopConfirmed

\* The invariant is kept by calls and cancellations of the client.
LEMMA InvClientStep ==
    ASSUME IInv, TypeOK', NEW r \in Runs, ClientStep(r)
    PROVE  IInv'
<1> USE DEF IInv, TypeOK
<1>1. CASE Refuse(r)
  <2> USE <1>1 DEF Refuse, task, facts, ownership, stops, shutdown, runtime
  <2>1. SubmittedOnce' /\ CleanupOfTurns' /\ EvidenceIsTrue' /\
      TurnHasChild' /\ StoppedForGood' /\ LocksOnTheWay' /\
      SlotOnTheWay' /\ TurnHoldsLocks' /\ TurnHoldsSlot'
    BY DEF SubmittedOnce, CleanupOfTurns, EvidenceIsTrue, MayExecute,
        TurnHasChild, StoppedForGood, LocksOnTheWay, SlotOnTheWay,
        TurnHoldsLocks, LocksOf, TurnHoldsSlot
  <2>2. QED BY <2>1
<1>2. CASE Admit(r)
  <2> USE <1>2 DEF Admit, Goto, facts, ownership, stops, shutdown, runtime
  <2>1. SubmittedOnce' BY DEF SubmittedOnce, Awaits, BeforeTurn,
        BeforeBackend, InTurn, TypeOwnership, TypeRuntime, TypeTask
  <2>2. CleanupOfTurns' BY DEF CleanupOfTurns, Admissible, Closed,
        TypeOwnership, TypeRequest, TypeStops
  <2>3. TurnHasChild' BY DEF TurnHasChild, MayExecute, InFlight, OnBackend,
        TypeRuntime, TypeTask
  <2>4. LocksOnTheWay' BY ConstantsAssumption DEF LocksOnTheWay, BeforeTurn,
        BeforeBackend, TypeOwnership, TypeRequest, TypeTask
  <2>5. SlotOnTheWay' BY ConstantsAssumption DEF SlotOnTheWay, BeforeTurn,
        BeforeBackend, Admissible, SlotFree, TypeOwnership, TypeTask
  <2>6. TurnHoldsLocks' BY DEF TurnHoldsLocks, MayExecute, InFlight, LocksOf,
        SubmittedOnce, EvidenceIsTrue, Admissible, SlotFree, TypeOwnership,
        TypeRequest, TypeRuntime
  <2>7. TurnHoldsSlot' BY ConstantsAssumption DEF TurnHoldsSlot, MayExecute,
        InFlight, SubmittedOnce, EvidenceIsTrue, Admissible, SlotFree,
        TypeOwnership, TypeRuntime
  <2>8. EvidenceIsTrue' /\ StoppedForGood'
    BY DEF EvidenceIsTrue, MayExecute, StoppedForGood
  <2>9. QED BY <2>1, <2>2, <2>3, <2>4, <2>5, <2>6, <2>7, <2>8
<1>3. CASE ClientCancels(r)
  <2> USE <1>3 DEF ClientCancels, Drop, task, facts, ownership, stops,
        shutdown, runtime
  <2>1. CleanupOfTurns' BY DEF CleanupOfTurns, TypeOwnership, TypeRequest,
        TypeStops
  <2>2. SubmittedOnce' /\ EvidenceIsTrue' /\ TurnHasChild' /\
      StoppedForGood' /\ LocksOnTheWay' /\ SlotOnTheWay' /\
      TurnHoldsLocks' /\ TurnHoldsSlot'
    BY DEF SubmittedOnce, EvidenceIsTrue, MayExecute, TurnHasChild,
        StoppedForGood, LocksOnTheWay, SlotOnTheWay, TurnHoldsLocks, LocksOf,
        TurnHoldsSlot
  <2>3. QED BY <2>1, <2>2
<1>4. CASE ClientCancelsStop(r)
  <2> USE <1>4 DEF ClientCancelsStop, task, facts, ownership, stops, shutdown,
        runtime
  <2>1. SubmittedOnce' /\ CleanupOfTurns' /\ EvidenceIsTrue' /\
      TurnHasChild' /\ StoppedForGood' /\ LocksOnTheWay' /\
      SlotOnTheWay' /\ TurnHoldsLocks' /\ TurnHoldsSlot'
    BY DEF SubmittedOnce, CleanupOfTurns, EvidenceIsTrue, MayExecute,
        TurnHasChild, StoppedForGood, LocksOnTheWay, SlotOnTheWay,
        TurnHoldsLocks, LocksOf, TurnHoldsSlot
  <2>2. QED BY <2>1
<1>5. QED BY <1>1, <1>2, <1>3, <1>4 DEF ClientStep

\* The invariant is kept by a run that gets its backend (_get_backend).
LEMMA InvGetBackendStep ==
    ASSUME IInv, TypeOK', NEW r \in Runs, GetBackendStep(r)
    PROVE  IInv'
<1> USE DEF IInv, TypeOK
<1>1. CASE Reject(r)
  <2> USE <1>1 DEF Reject, EndRun, Goto, request, facts, stops, shutdown,
        runtime
  <2>1. SubmittedOnce' BY DEF SubmittedOnce, Awaits, BeforeTurn,
        BeforeBackend, InTurn, TypeOwnership, TypeRuntime, TypeTask
  <2>2. TurnHasChild' BY DEF TurnHasChild, MayExecute, InFlight, OnBackend,
        TypeRuntime, TypeTask
  <2>3. LocksOnTheWay' BY DEF LocksOnTheWay, BeforeTurn, BeforeBackend,
        TypeOwnership, TypeRequest, TypeTask
  <2>4. SlotOnTheWay' BY DEF SlotOnTheWay, BeforeTurn, BeforeBackend,
        TypeOwnership, TypeTask
  <2>5. TurnHoldsLocks' BY DEF TurnHoldsLocks, MayExecute, InFlight, LocksOf,
        Safe, SubmittedOnce, EvidenceIsTrue, EndStates, TypeOwnership,
        TypeRequest, TypeRuntime
  <2>6. TurnHoldsSlot' BY DEF TurnHoldsSlot, MayExecute, InFlight, Safe,
        SubmittedOnce, EvidenceIsTrue, EndStates, TypeOwnership, TypeRuntime
  <2>7. CleanupOfTurns' /\ EvidenceIsTrue' /\ StoppedForGood'
    BY DEF CleanupOfTurns, EvidenceIsTrue, MayExecute, StoppedForGood
  <2>8. QED BY <2>1, <2>2, <2>3, <2>4, <2>5, <2>6, <2>7
<1>2. CASE Begin(r)
  <2> USE <1>2 DEF Begin, GetBackend, SpawnChild, JoinStop, Goto, request,
        facts, shutdown
  <2>1. SubmittedOnce' BY DEF SubmittedOnce, Awaits, BeforeTurn,
        BeforeBackend, InTurn, TypeOwnership, TypeRuntime, TypeTask
  <2>2. TurnHasChild' BY DEF TurnHasChild, MayExecute, InFlight, OnBackend,
        SubmittedOnce, BeforeTurn, BeforeBackend, TypeRuntime, TypeTask
  <2>3. StoppedForGood' BY DEF StoppedForGood, Chosen, HasRuntime, TypeRuntime,
        TypeStops
  <2>4. LocksOnTheWay' BY DEF LocksOnTheWay, BeforeTurn, BeforeBackend,
        AllCalls, TypeOwnership, TypeRequest, TypeTask
  <2>5. SlotOnTheWay' BY DEF SlotOnTheWay, BeforeTurn, BeforeBackend,
        TypeOwnership, TypeTask
  <2>6. TurnHoldsLocks' BY DEF TurnHoldsLocks, MayExecute, InFlight, LocksOf,
        SubmittedOnce, BeforeTurn, TypeOwnership, TypeRequest, TypeRuntime
  <2>7. CleanupOfTurns' /\ EvidenceIsTrue' /\ TurnHoldsSlot'
    BY DEF CleanupOfTurns, EvidenceIsTrue, MayExecute, TurnHoldsSlot
  <2>8. QED BY <2>1, <2>2, <2>3, <2>4, <2>5, <2>6, <2>7
<1>3. CASE BeginUnusable(r)
  <2> USE <1>3 DEF BeginUnusable, EndRun, Goto, request, facts, stops,
        shutdown, runtime
  <2>1. SubmittedOnce' BY DEF SubmittedOnce, Awaits, BeforeTurn,
        BeforeBackend, InTurn, TypeOwnership, TypeRuntime, TypeTask
  <2>2. TurnHasChild' BY DEF TurnHasChild, MayExecute, InFlight, OnBackend,
        TypeRuntime, TypeTask
  <2>3. LocksOnTheWay' BY DEF LocksOnTheWay, BeforeTurn, BeforeBackend,
        TypeOwnership, TypeRequest, TypeTask
  <2>4. SlotOnTheWay' BY DEF SlotOnTheWay, BeforeTurn, BeforeBackend,
        TypeOwnership, TypeTask
  <2>5. TurnHoldsLocks' BY DEF TurnHoldsLocks, MayExecute, InFlight, LocksOf,
        Safe, SubmittedOnce, EvidenceIsTrue, EndStates, TypeOwnership,
        TypeRequest, TypeRuntime
  <2>6. TurnHoldsSlot' BY DEF TurnHoldsSlot, MayExecute, InFlight, Safe,
        SubmittedOnce, EvidenceIsTrue, EndStates, TypeOwnership, TypeRuntime
  <2>7. CleanupOfTurns' /\ EvidenceIsTrue' /\ StoppedForGood'
    BY DEF CleanupOfTurns, EvidenceIsTrue, MayExecute, StoppedForGood
  <2>8. QED BY <2>1, <2>2, <2>3, <2>4, <2>5, <2>6, <2>7
<1>4. CASE Replace(r)
  <2> USE <1>4 DEF Replace, SpawnChild, Goto, request, facts, ownership,
        shutdown
  <2>1. SubmittedOnce' BY DEF SubmittedOnce, Awaits, BeforeTurn,
        BeforeBackend, InTurn, TypeOwnership, TypeRuntime, TypeTask
  <2>2. TurnHasChild' BY DEF TurnHasChild, MayExecute, InFlight, OnBackend,
        TypeRuntime, TypeTask
  <2>3. StoppedForGood' BY DEF StoppedForGood, TypeRuntime, TypeStops
  <2>4. LocksOnTheWay' BY DEF LocksOnTheWay, BeforeTurn, BeforeBackend,
        TypeOwnership, TypeRequest, TypeTask
  <2>5. SlotOnTheWay' BY DEF SlotOnTheWay, BeforeTurn, BeforeBackend,
        TypeOwnership, TypeTask
  <2>6. CleanupOfTurns' /\ EvidenceIsTrue' /\ TurnHoldsLocks' /\
      TurnHoldsSlot'
    BY DEF CleanupOfTurns, EvidenceIsTrue, MayExecute, TurnHoldsLocks,
        LocksOf, TurnHoldsSlot
  <2>7. QED BY <2>1, <2>2, <2>3, <2>4, <2>5, <2>6
<1>5. CASE ReplaceFails(r)
  <2> USE <1>5 DEF ReplaceFails, EndRun, Goto, request, facts, stops,
        shutdown, runtime
  <2>1. SubmittedOnce' BY DEF SubmittedOnce, Awaits, BeforeTurn,
        BeforeBackend, InTurn, TypeOwnership, TypeRuntime, TypeTask
  <2>2. TurnHasChild' BY DEF TurnHasChild, MayExecute, InFlight, OnBackend,
        TypeRuntime, TypeTask
  <2>3. LocksOnTheWay' BY DEF LocksOnTheWay, BeforeTurn, BeforeBackend,
        TypeOwnership, TypeRequest, TypeTask
  <2>4. SlotOnTheWay' BY DEF SlotOnTheWay, BeforeTurn, BeforeBackend,
        TypeOwnership, TypeTask
  <2>5. TurnHoldsLocks' BY DEF TurnHoldsLocks, MayExecute, InFlight, LocksOf,
        Safe, SubmittedOnce, EvidenceIsTrue, EndStates, TypeOwnership,
        TypeRequest, TypeRuntime
  <2>6. TurnHoldsSlot' BY DEF TurnHoldsSlot, MayExecute, InFlight, Safe,
        SubmittedOnce, EvidenceIsTrue, EndStates, TypeOwnership, TypeRuntime
  <2>7. CleanupOfTurns' /\ EvidenceIsTrue' /\ StoppedForGood'
    BY DEF CleanupOfTurns, EvidenceIsTrue, MayExecute, StoppedForGood
  <2>8. QED BY <2>1, <2>2, <2>3, <2>4, <2>5, <2>6, <2>7
<1>6. CASE Started(r)
  <2> USE <1>6 DEF Started, LoseTurns, CheckCancelled, Goto, EndRun, request,
        facts, ownership, stops, shutdown
  <2>1. SubmittedOnce' BY DEF SubmittedOnce, Awaits, BeforeTurn,
        BeforeBackend, InTurn, InFlight, MayExecute, EndStates, TypeOwnership,
        TypeRuntime, TypeTask
  <2>2. EvidenceIsTrue' BY DEF EvidenceIsTrue, MayExecute, InFlight,
        EndStates, TypeOwnership, TypeRuntime
  <2>3. TurnHasChild' BY DEF TurnHasChild, MayExecute, InFlight, OnBackend,
        SubmittedOnce, BeforeTurn, BeforeBackend, TypeRuntime, TypeTask
  <2>4. StoppedForGood' BY DEF StoppedForGood, TypeRuntime, TypeStops
  <2>5. LocksOnTheWay' BY DEF LocksOnTheWay, BeforeTurn, BeforeBackend,
        TypeOwnership, TypeRequest, TypeTask
  <2>6. SlotOnTheWay' BY DEF SlotOnTheWay, BeforeTurn, BeforeBackend,
        TypeOwnership, TypeTask
  <2>7. TurnHoldsLocks' BY DEF TurnHoldsLocks, MayExecute, InFlight, LocksOf,
        Safe, SubmittedOnce, EvidenceIsTrue, EndStates, TypeOwnership,
        TypeRequest, TypeRuntime
  <2>8. TurnHoldsSlot' BY DEF TurnHoldsSlot, MayExecute, InFlight, Safe,
        SubmittedOnce, EvidenceIsTrue, EndStates, TypeOwnership, TypeRuntime
  <2>9. CleanupOfTurns'
    BY DEF CleanupOfTurns
  <2>10. QED BY <2>1, <2>2, <2>3, <2>4, <2>5, <2>6, <2>7, <2>8, <2>9
<1>7. CASE StartFails(r)
  <2> USE <1>7 DEF StartFails, LoseTurns, EndRun, Goto, request, facts, stops,
        shutdown
  <2>1. SubmittedOnce' BY DEF SubmittedOnce, Awaits, BeforeTurn,
        BeforeBackend, InTurn, InFlight, MayExecute, EndStates, TypeOwnership,
        TypeRuntime, TypeTask
  <2>2. EvidenceIsTrue' BY DEF EvidenceIsTrue, MayExecute, InFlight,
        EndStates, TypeOwnership, TypeRuntime
  <2>3. TurnHasChild' BY DEF TurnHasChild, MayExecute, InFlight, OnBackend,
        TypeRuntime, TypeTask
  <2>4. StoppedForGood' BY DEF StoppedForGood, TypeRuntime, TypeStops
  <2>5. LocksOnTheWay' BY DEF LocksOnTheWay, BeforeTurn, BeforeBackend,
        TypeOwnership, TypeRequest, TypeTask
  <2>6. SlotOnTheWay' BY DEF SlotOnTheWay, BeforeTurn, BeforeBackend,
        TypeOwnership, TypeTask
  <2>7. TurnHoldsLocks' BY DEF TurnHoldsLocks, MayExecute, InFlight, LocksOf,
        Safe, SubmittedOnce, EvidenceIsTrue, EndStates, TypeOwnership,
        TypeRequest, TypeRuntime
  <2>8. TurnHoldsSlot' BY DEF TurnHoldsSlot, MayExecute, InFlight, Safe,
        SubmittedOnce, EvidenceIsTrue, EndStates, TypeOwnership, TypeRuntime
  <2>9. CleanupOfTurns'
    BY DEF CleanupOfTurns
  <2>10. QED BY <2>1, <2>2, <2>3, <2>4, <2>5, <2>6, <2>7, <2>8, <2>9
<1>8. CASE StartUnconfirmed(r)
  <2> USE <1>8 DEF StartUnconfirmed, EndRun, Goto, request, facts, stops,
        shutdown
  <2>1. SubmittedOnce' BY DEF SubmittedOnce, Awaits, BeforeTurn,
        BeforeBackend, InTurn, TypeOwnership, TypeRuntime, TypeTask
  <2>2. TurnHasChild' BY DEF TurnHasChild, MayExecute, InFlight, OnBackend,
        TypeRuntime, TypeTask
  <2>3. StoppedForGood' BY DEF StoppedForGood, TypeRuntime, TypeStops
  <2>4. LocksOnTheWay' BY DEF LocksOnTheWay, BeforeTurn, BeforeBackend,
        TypeOwnership, TypeRequest, TypeTask
  <2>5. SlotOnTheWay' BY DEF SlotOnTheWay, BeforeTurn, BeforeBackend,
        TypeOwnership, TypeTask
  <2>6. TurnHoldsLocks' BY DEF TurnHoldsLocks, MayExecute, InFlight, LocksOf,
        Safe, SubmittedOnce, EvidenceIsTrue, EndStates, TypeOwnership,
        TypeRequest, TypeRuntime
  <2>7. TurnHoldsSlot' BY DEF TurnHoldsSlot, MayExecute, InFlight, Safe,
        SubmittedOnce, EvidenceIsTrue, EndStates, TypeOwnership, TypeRuntime
  <2>8. CleanupOfTurns' /\ EvidenceIsTrue'
    BY DEF CleanupOfTurns, EvidenceIsTrue, MayExecute
  <2>9. QED BY <2>1, <2>2, <2>3, <2>4, <2>5, <2>6, <2>7, <2>8
<1>9. QED BY <1>1, <1>2, <1>3, <1>4, <1>5, <1>6, <1>7, <1>8 DEF GetBackendStep

\* The invariant is kept by a run up to the submission of its turn.
LEMMA InvOpenStep ==
    ASSUME IInv, TypeOK', NEW r \in Runs, OpenStep(r)
    PROVE  IInv'
<1> USE DEF IInv, TypeOK
<1>1. CASE Prepared(r)
  <2> USE <1>1 DEF Prepared, Goto, CheckCancelled, EndRun, request, facts,
        ownership, stops, shutdown, runtime
  <2>1. SubmittedOnce' BY DEF SubmittedOnce, Awaits, BeforeTurn,
        BeforeBackend, InTurn, TypeOwnership, TypeRuntime, TypeTask
  <2>2. TurnHasChild' BY DEF TurnHasChild, MayExecute, InFlight, OnBackend,
        TypeRuntime, TypeTask
  <2>3. LocksOnTheWay' BY DEF LocksOnTheWay, BeforeTurn, BeforeBackend,
        TypeOwnership, TypeRequest, TypeTask
  <2>4. SlotOnTheWay' BY DEF SlotOnTheWay, BeforeTurn, BeforeBackend,
        TypeOwnership, TypeTask
  <2>5. TurnHoldsLocks' BY DEF TurnHoldsLocks, MayExecute, InFlight, LocksOf,
        Safe, SubmittedOnce, EvidenceIsTrue, EndStates, TypeOwnership,
        TypeRequest, TypeRuntime
  <2>6. TurnHoldsSlot' BY DEF TurnHoldsSlot, MayExecute, InFlight, Safe,
        SubmittedOnce, EvidenceIsTrue, EndStates, TypeOwnership, TypeRuntime
  <2>7. CleanupOfTurns' /\ EvidenceIsTrue' /\ StoppedForGood'
    BY DEF CleanupOfTurns, EvidenceIsTrue, MayExecute, StoppedForGood
  <2>8. QED BY <2>1, <2>2, <2>3, <2>4, <2>5, <2>6, <2>7
<1>2. CASE PrepareFails(r)
  <2> USE <1>2 DEF PrepareFails, RpcFails, Degrade, EndRun, Goto, request,
        facts, stops, shutdown
  <2>1. SubmittedOnce' BY DEF SubmittedOnce, Awaits, BeforeTurn,
        BeforeBackend, InTurn, TypeOwnership, TypeRuntime, TypeTask
  <2>2. TurnHasChild' BY DEF TurnHasChild, MayExecute, InFlight, OnBackend,
        TypeRuntime, TypeTask
  <2>3. StoppedForGood' BY DEF StoppedForGood, TypeRuntime, TypeStops
  <2>4. LocksOnTheWay' BY DEF LocksOnTheWay, BeforeTurn, BeforeBackend,
        TypeOwnership, TypeRequest, TypeTask
  <2>5. SlotOnTheWay' BY DEF SlotOnTheWay, BeforeTurn, BeforeBackend,
        TypeOwnership, TypeTask
  <2>6. TurnHoldsLocks' BY DEF TurnHoldsLocks, MayExecute, InFlight, LocksOf,
        Safe, SubmittedOnce, EvidenceIsTrue, EndStates, TypeOwnership,
        TypeRequest, TypeRuntime
  <2>7. TurnHoldsSlot' BY DEF TurnHoldsSlot, MayExecute, InFlight, Safe,
        SubmittedOnce, EvidenceIsTrue, EndStates, TypeOwnership, TypeRuntime
  <2>8. CleanupOfTurns' /\ EvidenceIsTrue'
    BY DEF CleanupOfTurns, EvidenceIsTrue, MayExecute
  <2>9. QED BY <2>1, <2>2, <2>3, <2>4, <2>5, <2>6, <2>7, <2>8
<1>3. CASE Opened(r)
  <2> USE <1>3 DEF Opened, Goto, CheckCancelled, EndRun, request, facts,
        ownership, stops, shutdown, runtime
  <2>1. SubmittedOnce' BY DEF SubmittedOnce, Awaits, BeforeTurn,
        BeforeBackend, InTurn, TypeOwnership, TypeRuntime, TypeTask
  <2>2. TurnHasChild' BY DEF TurnHasChild, MayExecute, InFlight, OnBackend,
        TypeRuntime, TypeTask
  <2>3. LocksOnTheWay' BY DEF LocksOnTheWay, BeforeTurn, BeforeBackend,
        AllCalls, TypeOwnership, TypeRequest, TypeTask
  <2>4. SlotOnTheWay' BY DEF SlotOnTheWay, BeforeTurn, BeforeBackend,
        TypeOwnership, TypeTask
  <2>5. TurnHoldsLocks' BY DEF TurnHoldsLocks, MayExecute, InFlight, LocksOf,
        Safe, SubmittedOnce, EvidenceIsTrue, EndStates, TypeOwnership,
        TypeRequest, TypeRuntime
  <2>6. TurnHoldsSlot' BY DEF TurnHoldsSlot, MayExecute, InFlight, Safe,
        SubmittedOnce, EvidenceIsTrue, EndStates, TypeOwnership, TypeRuntime
  <2>7. CleanupOfTurns' /\ EvidenceIsTrue' /\ StoppedForGood'
    BY DEF CleanupOfTurns, EvidenceIsTrue, MayExecute, StoppedForGood
  <2>8. QED BY <2>1, <2>2, <2>3, <2>4, <2>5, <2>6, <2>7
<1>4. CASE OpenFails(r)
  <2> USE <1>4 DEF OpenFails, RpcFails, Degrade, JoinStop, Goto, EndRun,
        request, facts, ownership, shutdown
  <2>1. SubmittedOnce' BY DEF SubmittedOnce, Awaits, BeforeTurn,
        BeforeBackend, InTurn, TypeOwnership, TypeRuntime, TypeTask
  <2>2. TurnHasChild' BY DEF TurnHasChild, MayExecute, InFlight, OnBackend,
        TypeRuntime, TypeTask
  <2>3. StoppedForGood' BY DEF StoppedForGood, TypeRuntime, TypeStops
  <2>4. LocksOnTheWay' BY DEF LocksOnTheWay, BeforeTurn, BeforeBackend,
        TypeOwnership, TypeRequest, TypeTask
  <2>5. SlotOnTheWay' BY DEF SlotOnTheWay, BeforeTurn, BeforeBackend,
        TypeOwnership, TypeTask
  <2>6. TurnHoldsLocks' BY DEF TurnHoldsLocks, MayExecute, InFlight, LocksOf,
        Safe, SubmittedOnce, EvidenceIsTrue, EndStates, TypeOwnership,
        TypeRequest, TypeRuntime
  <2>7. TurnHoldsSlot' BY DEF TurnHoldsSlot, MayExecute, InFlight, Safe,
        SubmittedOnce, EvidenceIsTrue, EndStates, TypeOwnership, TypeRuntime
  <2>8. CleanupOfTurns' /\ EvidenceIsTrue'
    BY DEF CleanupOfTurns, EvidenceIsTrue, MayExecute
  <2>9. QED BY <2>1, <2>2, <2>3, <2>4, <2>5, <2>6, <2>7, <2>8
<1>5. CASE OpenStopped(r)
  <2> USE <1>5 DEF OpenStopped, EndRun, Goto, request, facts, stops, shutdown,
        runtime
  <2>1. SubmittedOnce' BY DEF SubmittedOnce, Awaits, BeforeTurn,
        BeforeBackend, InTurn, TypeOwnership, TypeRuntime, TypeTask
  <2>2. TurnHasChild' BY DEF TurnHasChild, MayExecute, InFlight, OnBackend,
        TypeRuntime, TypeTask
  <2>3. LocksOnTheWay' BY DEF LocksOnTheWay, BeforeTurn, BeforeBackend,
        TypeOwnership, TypeRequest, TypeTask
  <2>4. SlotOnTheWay' BY DEF SlotOnTheWay, BeforeTurn, BeforeBackend,
        TypeOwnership, TypeTask
  <2>5. TurnHoldsLocks' BY DEF TurnHoldsLocks, MayExecute, InFlight, LocksOf,
        Safe, SubmittedOnce, EvidenceIsTrue, EndStates, TypeOwnership,
        TypeRequest, TypeRuntime
  <2>6. TurnHoldsSlot' BY DEF TurnHoldsSlot, MayExecute, InFlight, Safe,
        SubmittedOnce, EvidenceIsTrue, EndStates, TypeOwnership, TypeRuntime
  <2>7. CleanupOfTurns' /\ EvidenceIsTrue' /\ StoppedForGood'
    BY DEF CleanupOfTurns, EvidenceIsTrue, MayExecute, StoppedForGood
  <2>8. QED BY <2>1, <2>2, <2>3, <2>4, <2>5, <2>6, <2>7
<1>6. CASE Submit(r)
  <2> USE <1>6 DEF Submit, Goto, request, ownership, stops, shutdown
  <2>1. SubmittedOnce' BY DEF SubmittedOnce, Awaits, BeforeTurn,
        BeforeBackend, InTurn, InFlight, MayExecute, EndStates, TypeOwnership,
        TypeRuntime, TypeTask
  <2>2. CleanupOfTurns' BY DEF CleanupOfTurns, TypeOwnership, TypeRequest,
        TypeStops
  <2>3. EvidenceIsTrue' BY DEF EvidenceIsTrue, MayExecute, InFlight,
        EndStates, SubmittedOnce, BeforeTurn, TypeOwnership, TypeRuntime
  <2>4. TurnHasChild' BY DEF TurnHasChild, Serves, MayExecute, InFlight, OnBackend,
        TypeRuntime, TypeTask
  <2>5. LocksOnTheWay' BY DEF LocksOnTheWay, BeforeTurn, BeforeBackend,
        TypeOwnership, TypeRequest, TypeTask
  <2>6. SlotOnTheWay' BY DEF SlotOnTheWay, BeforeTurn, BeforeBackend,
        TypeOwnership, TypeTask
  <2>7. TurnHoldsLocks' BY DEF TurnHoldsLocks, MayExecute, InFlight, LocksOf,
        LocksOnTheWay, SlotOnTheWay, BeforeTurn, TypeOwnership, TypeRequest,
        TypeRuntime
  <2>8. TurnHoldsSlot' BY DEF TurnHoldsSlot, MayExecute, InFlight,
        LocksOnTheWay, SlotOnTheWay, BeforeTurn, TypeOwnership, TypeRuntime
  <2>9. StoppedForGood'
    BY DEF StoppedForGood
  <2>10. QED BY <2>1, <2>2, <2>3, <2>4, <2>5, <2>6, <2>7, <2>8, <2>9
<1>7. CASE Withdraw(r)
  <2> USE <1>7 DEF Withdraw, EndRun, Goto, request, facts, stops, shutdown,
        runtime
  <2>1. SubmittedOnce' BY DEF SubmittedOnce, Awaits, BeforeTurn,
        BeforeBackend, InTurn, TypeOwnership, TypeRuntime, TypeTask
  <2>2. TurnHasChild' BY DEF TurnHasChild, MayExecute, InFlight, OnBackend,
        TypeRuntime, TypeTask
  <2>3. LocksOnTheWay' BY DEF LocksOnTheWay, BeforeTurn, BeforeBackend,
        TypeOwnership, TypeRequest, TypeTask
  <2>4. SlotOnTheWay' BY DEF SlotOnTheWay, BeforeTurn, BeforeBackend,
        TypeOwnership, TypeTask
  <2>5. TurnHoldsLocks' BY DEF TurnHoldsLocks, MayExecute, InFlight, LocksOf,
        Safe, SubmittedOnce, EvidenceIsTrue, EndStates, TypeOwnership,
        TypeRequest, TypeRuntime
  <2>6. TurnHoldsSlot' BY DEF TurnHoldsSlot, MayExecute, InFlight, Safe,
        SubmittedOnce, EvidenceIsTrue, EndStates, TypeOwnership, TypeRuntime
  <2>7. CleanupOfTurns' /\ EvidenceIsTrue' /\ StoppedForGood'
    BY DEF CleanupOfTurns, EvidenceIsTrue, MayExecute, StoppedForGood
  <2>8. QED BY <2>1, <2>2, <2>3, <2>4, <2>5, <2>6, <2>7
<1>8. QED BY <1>1, <1>2, <1>3, <1>4, <1>5, <1>6, <1>7 DEF OpenStep

\* The invariant is kept by a run in its turn (_run_turn).
LEMMA InvTurnStep ==
    ASSUME IInv, TypeOK', NEW r \in Runs, TurnStep(r)
    PROVE  IInv'
<1> USE DEF IInv, TypeOK
<1>1. CASE Acknowledged(r)
  <2> USE <1>1 DEF Acknowledged, Goto, request, ownership, stops, shutdown,
        runtime
  <2>1. SubmittedOnce' BY DEF SubmittedOnce, Awaits, BeforeTurn,
        BeforeBackend, InTurn, TypeOwnership, TypeRuntime, TypeTask
  <2>2. TurnHasChild' BY DEF TurnHasChild, MayExecute, InFlight, OnBackend,
        TypeRuntime, TypeTask
  <2>3. LocksOnTheWay' BY DEF LocksOnTheWay, BeforeTurn, BeforeBackend,
        TypeOwnership, TypeRequest, TypeTask
  <2>4. SlotOnTheWay' BY DEF SlotOnTheWay, BeforeTurn, BeforeBackend,
        TypeOwnership, TypeTask
  <2>5. CleanupOfTurns' /\ EvidenceIsTrue' /\ StoppedForGood' /\
      TurnHoldsLocks' /\ TurnHoldsSlot'
    BY DEF CleanupOfTurns, EvidenceIsTrue, MayExecute, StoppedForGood,
        TurnHoldsLocks, LocksOf, TurnHoldsSlot
  <2>6. QED BY <2>1, <2>2, <2>3, <2>4, <2>5
<1>2. CASE SubmitUnknown(r)
  <2> USE <1>2 DEF SubmitUnknown, RpcFails, Degrade, JoinStop, Goto, request,
        facts, ownership, shutdown
  <2>1. SubmittedOnce' BY DEF SubmittedOnce, Awaits, BeforeTurn,
        BeforeBackend, InTurn, TypeOwnership, TypeRuntime, TypeTask
  <2>2. TurnHasChild' BY DEF TurnHasChild, MayExecute, InFlight, OnBackend,
        TypeRuntime, TypeTask
  <2>3. StoppedForGood' BY DEF StoppedForGood, TypeRuntime, TypeStops
  <2>4. LocksOnTheWay' BY DEF LocksOnTheWay, BeforeTurn, BeforeBackend,
        TypeOwnership, TypeRequest, TypeTask
  <2>5. SlotOnTheWay' BY DEF SlotOnTheWay, BeforeTurn, BeforeBackend,
        TypeOwnership, TypeTask
  <2>6. CleanupOfTurns' /\ EvidenceIsTrue' /\ TurnHoldsLocks' /\
      TurnHoldsSlot'
    BY DEF CleanupOfTurns, EvidenceIsTrue, MayExecute, TurnHoldsLocks,
        LocksOf, TurnHoldsSlot
  <2>7. QED BY <2>1, <2>2, <2>3, <2>4, <2>5, <2>6
<1>3. CASE SubmitStopped(r)
  <2> USE <1>3 DEF SubmitStopped, EndTurn, EndRun, Goto, request, stops,
        shutdown, runtime
  <2>1. StopConfirmed(<<"task", r>>, bk[r]) => ~MayExecute(r)
    BY ConfirmedStop DEF TurnHasChild, OnBackend
  <2>2. SubmittedOnce' BY DEF SubmittedOnce, Awaits, BeforeTurn,
        BeforeBackend, InTurn, TypeOwnership, TypeRuntime, TypeTask
  <2>3. EvidenceIsTrue' BY <2>1 DEF EvidenceIsTrue, MayExecute, InFlight,
        EndStates, TypeOwnership, TypeRuntime
  <2>4. TurnHasChild' BY DEF TurnHasChild, MayExecute, InFlight, OnBackend,
        TypeRuntime, TypeTask
  <2>5. LocksOnTheWay' BY DEF LocksOnTheWay, BeforeTurn, BeforeBackend,
        TypeOwnership, TypeRequest, TypeTask
  <2>6. SlotOnTheWay' BY DEF SlotOnTheWay, BeforeTurn, BeforeBackend,
        TypeOwnership, TypeTask
  <2>7. TurnHoldsLocks' BY <2>1 DEF TurnHoldsLocks, MayExecute, InFlight,
        LocksOf, Safe, SubmittedOnce, EvidenceIsTrue, EndStates,
        TypeOwnership, TypeRequest, TypeRuntime
  <2>8. TurnHoldsSlot' BY <2>1 DEF TurnHoldsSlot, MayExecute, InFlight, Safe,
        SubmittedOnce, EvidenceIsTrue, EndStates, TypeOwnership, TypeRuntime
  <2>9. CleanupOfTurns' /\ StoppedForGood'
    BY DEF CleanupOfTurns, StoppedForGood
  <2>10. QED BY <2>2, <2>3, <2>4, <2>5, <2>6, <2>7, <2>8, <2>9
<1>4. CASE SubmitRefused(r)
  <2> USE <1>4 DEF SubmitRefused, RpcFails, Degrade, EndTurn, EndRun, Goto,
        request, facts, stops, shutdown
  <2>1. SubmittedOnce' BY DEF SubmittedOnce, Awaits, BeforeTurn,
        BeforeBackend, InTurn, TypeOwnership, TypeRuntime, TypeTask
  <2>2. TurnHasChild' BY DEF TurnHasChild, MayExecute, InFlight, OnBackend,
        TypeRuntime, TypeTask
  <2>3. StoppedForGood' BY DEF StoppedForGood, TypeRuntime, TypeStops
  <2>4. LocksOnTheWay' BY DEF LocksOnTheWay, BeforeTurn, BeforeBackend,
        TypeOwnership, TypeRequest, TypeTask
  <2>5. SlotOnTheWay' BY DEF SlotOnTheWay, BeforeTurn, BeforeBackend,
        TypeOwnership, TypeTask
  <2>6. TurnHoldsLocks' BY DEF TurnHoldsLocks, MayExecute, InFlight, LocksOf,
        Safe, SubmittedOnce, EvidenceIsTrue, EndStates, TypeOwnership,
        TypeRequest, TypeRuntime
  <2>7. TurnHoldsSlot' BY DEF TurnHoldsSlot, MayExecute, InFlight, Safe,
        SubmittedOnce, EvidenceIsTrue, EndStates, TypeOwnership, TypeRuntime
  <2>8. CleanupOfTurns' /\ EvidenceIsTrue'
    BY DEF CleanupOfTurns, EvidenceIsTrue, MayExecute
  <2>9. QED BY <2>1, <2>2, <2>3, <2>4, <2>5, <2>6, <2>7, <2>8
<1>5. CASE LateInterrupted(r)
  <2> USE <1>5 DEF LateInterrupted, Interrupted, Degrade, Goto, request,
        facts, ownership, stops, shutdown
  <2>1. SubmittedOnce' BY DEF SubmittedOnce, Awaits, BeforeTurn,
        BeforeBackend, InTurn, TypeOwnership, TypeRuntime, TypeTask
  <2>2. TurnHasChild' BY DEF TurnHasChild, MayExecute, InFlight, OnBackend,
        TypeRuntime, TypeTask
  <2>3. StoppedForGood' BY DEF StoppedForGood, TypeRuntime, TypeStops
  <2>4. LocksOnTheWay' BY DEF LocksOnTheWay, BeforeTurn, BeforeBackend,
        TypeOwnership, TypeRequest, TypeTask
  <2>5. SlotOnTheWay' BY DEF SlotOnTheWay, BeforeTurn, BeforeBackend,
        TypeOwnership, TypeTask
  <2>6. CleanupOfTurns' /\ EvidenceIsTrue' /\ TurnHoldsLocks' /\
      TurnHoldsSlot'
    BY DEF CleanupOfTurns, EvidenceIsTrue, MayExecute, TurnHoldsLocks,
        LocksOf, TurnHoldsSlot
  <2>7. QED BY <2>1, <2>2, <2>3, <2>4, <2>5, <2>6
<1>6. CASE TurnEnded(r)
  <2> USE <1>6 DEF TurnEnded, EndTurn, EndRun, Goto, request, facts, stops,
        shutdown, runtime
  <2>1. SubmittedOnce' BY DEF SubmittedOnce, Awaits, BeforeTurn,
        BeforeBackend, InTurn, TypeOwnership, TypeRuntime, TypeTask
  <2>2. TurnHasChild' BY DEF TurnHasChild, MayExecute, InFlight, OnBackend,
        TypeRuntime, TypeTask
  <2>3. LocksOnTheWay' BY DEF LocksOnTheWay, BeforeTurn, BeforeBackend,
        TypeOwnership, TypeRequest, TypeTask
  <2>4. SlotOnTheWay' BY DEF SlotOnTheWay, BeforeTurn, BeforeBackend,
        TypeOwnership, TypeTask
  <2>5. TurnHoldsLocks' BY DEF TurnHoldsLocks, MayExecute, InFlight, LocksOf,
        Safe, SubmittedOnce, EvidenceIsTrue, EndStates, TypeOwnership,
        TypeRequest, TypeRuntime
  <2>6. TurnHoldsSlot' BY DEF TurnHoldsSlot, MayExecute, InFlight, Safe,
        SubmittedOnce, EvidenceIsTrue, EndStates, TypeOwnership, TypeRuntime
  <2>7. CleanupOfTurns' /\ EvidenceIsTrue' /\ StoppedForGood'
    BY DEF CleanupOfTurns, EvidenceIsTrue, MayExecute, StoppedForGood
  <2>8. QED BY <2>1, <2>2, <2>3, <2>4, <2>5, <2>6, <2>7
<1>7. CASE TurnFails(r)
  <2> USE <1>7 DEF TurnFails, Goto, request, facts, ownership, stops,
        shutdown, runtime
  <2>1. SubmittedOnce' BY DEF SubmittedOnce, Awaits, BeforeTurn,
        BeforeBackend, InTurn, TypeOwnership, TypeRuntime, TypeTask
  <2>2. TurnHasChild' BY DEF TurnHasChild, MayExecute, InFlight, OnBackend,
        TypeRuntime, TypeTask
  <2>3. LocksOnTheWay' BY DEF LocksOnTheWay, BeforeTurn, BeforeBackend,
        TypeOwnership, TypeRequest, TypeTask
  <2>4. SlotOnTheWay' BY DEF SlotOnTheWay, BeforeTurn, BeforeBackend,
        TypeOwnership, TypeTask
  <2>5. CleanupOfTurns' /\ EvidenceIsTrue' /\ StoppedForGood' /\
      TurnHoldsLocks' /\ TurnHoldsSlot'
    BY DEF CleanupOfTurns, EvidenceIsTrue, MayExecute, StoppedForGood,
        TurnHoldsLocks, LocksOf, TurnHoldsSlot
  <2>6. QED BY <2>1, <2>2, <2>3, <2>4, <2>5
<1>8. CASE FailureInterrupted(r)
  <2> USE <1>8 DEF FailureInterrupted, Interrupted, Degrade, Goto, request,
        facts, ownership, stops, shutdown
  <2>1. SubmittedOnce' BY DEF SubmittedOnce, Awaits, BeforeTurn,
        BeforeBackend, InTurn, TypeOwnership, TypeRuntime, TypeTask
  <2>2. TurnHasChild' BY DEF TurnHasChild, MayExecute, InFlight, OnBackend,
        TypeRuntime, TypeTask
  <2>3. StoppedForGood' BY DEF StoppedForGood, TypeRuntime, TypeStops
  <2>4. LocksOnTheWay' BY DEF LocksOnTheWay, BeforeTurn, BeforeBackend,
        TypeOwnership, TypeRequest, TypeTask
  <2>5. SlotOnTheWay' BY DEF SlotOnTheWay, BeforeTurn, BeforeBackend,
        TypeOwnership, TypeTask
  <2>6. CleanupOfTurns' /\ EvidenceIsTrue' /\ TurnHoldsLocks' /\
      TurnHoldsSlot'
    BY DEF CleanupOfTurns, EvidenceIsTrue, MayExecute, TurnHoldsLocks,
        LocksOf, TurnHoldsSlot
  <2>7. QED BY <2>1, <2>2, <2>3, <2>4, <2>5, <2>6
<1>9. CASE GraceEnds(r)
  <2> USE <1>9 DEF GraceEnds, JoinStop, Goto, EndTurn, EndRun, request, facts,
        ownership, shutdown, runtime
  <2>1. SubmittedOnce' BY DEF SubmittedOnce, Awaits, BeforeTurn,
        BeforeBackend, InTurn, TypeOwnership, TypeRuntime, TypeTask
  <2>2. TurnHasChild' BY DEF TurnHasChild, MayExecute, InFlight, OnBackend,
        TypeRuntime, TypeTask
  <2>3. StoppedForGood' BY DEF StoppedForGood, TypeRuntime, TypeStops
  <2>4. LocksOnTheWay' BY DEF LocksOnTheWay, BeforeTurn, BeforeBackend,
        TypeOwnership, TypeRequest, TypeTask
  <2>5. SlotOnTheWay' BY DEF SlotOnTheWay, BeforeTurn, BeforeBackend,
        TypeOwnership, TypeTask
  <2>6. TurnHoldsLocks' BY DEF TurnHoldsLocks, MayExecute, InFlight, LocksOf,
        Safe, SubmittedOnce, EvidenceIsTrue, EndStates, TypeOwnership,
        TypeRequest, TypeRuntime
  <2>7. TurnHoldsSlot' BY DEF TurnHoldsSlot, MayExecute, InFlight, Safe,
        SubmittedOnce, EvidenceIsTrue, EndStates, TypeOwnership, TypeRuntime
  <2>8. CleanupOfTurns' /\ EvidenceIsTrue'
    BY DEF CleanupOfTurns, EvidenceIsTrue, MayExecute
  <2>9. QED BY <2>1, <2>2, <2>3, <2>4, <2>5, <2>6, <2>7, <2>8
<1>10. CASE SettleStopped(r)
  <2> USE <1>10 DEF SettleStopped, EndTurn, EndRun, Goto, request, stops,
        shutdown, runtime
  <2>1. StopConfirmed(<<"task", r>>, ref[r]) => ~MayExecute(r)
    BY ConfirmedStop
  <2>2. SubmittedOnce' BY DEF SubmittedOnce, Awaits, BeforeTurn,
        BeforeBackend, InTurn, TypeOwnership, TypeRuntime, TypeTask
  <2>3. EvidenceIsTrue' BY <2>1 DEF EvidenceIsTrue, MayExecute, InFlight,
        EndStates, TypeOwnership, TypeRuntime
  <2>4. TurnHasChild' BY DEF TurnHasChild, MayExecute, InFlight, OnBackend,
        TypeRuntime, TypeTask
  <2>5. LocksOnTheWay' BY DEF LocksOnTheWay, BeforeTurn, BeforeBackend,
        TypeOwnership, TypeRequest, TypeTask
  <2>6. SlotOnTheWay' BY DEF SlotOnTheWay, BeforeTurn, BeforeBackend,
        TypeOwnership, TypeTask
  <2>7. TurnHoldsLocks' BY <2>1 DEF TurnHoldsLocks, MayExecute, InFlight,
        LocksOf, Safe, SubmittedOnce, EvidenceIsTrue, EndStates,
        TypeOwnership, TypeRequest, TypeRuntime
  <2>8. TurnHoldsSlot' BY <2>1 DEF TurnHoldsSlot, MayExecute, InFlight, Safe,
        SubmittedOnce, EvidenceIsTrue, EndStates, TypeOwnership, TypeRuntime
  <2>9. CleanupOfTurns' /\ StoppedForGood'
    BY DEF CleanupOfTurns, StoppedForGood
  <2>10. QED BY <2>2, <2>3, <2>4, <2>5, <2>6, <2>7, <2>8, <2>9
<1>11. QED BY <1>1, <1>2, <1>3, <1>4, <1>5, <1>6, <1>7, <1>8, <1>9, <1>10 DEF TurnStep

\* The invariant is kept by the event pump of a run.
LEMMA InvPumpStep ==
    ASSUME IInv, TypeOK', NEW r \in Runs, PumpStep(r)
    PROVE  IInv'
<1> USE DEF IInv, TypeOK
<1>1. CASE PumpTerminal(r)
  <2> USE <1>1 DEF PumpTerminal, request, ownership, stops, shutdown, runtime
  <2>1. SubmittedOnce' BY DEF SubmittedOnce, Awaits, BeforeTurn,
        BeforeBackend, InTurn, EndStates, TypeOwnership, TypeRuntime, TypeTask
  <2>2. EvidenceIsTrue' BY DEF EvidenceIsTrue, MayExecute, InFlight,
        EndStates, TypeOwnership, TypeRuntime
  <2>3. CleanupOfTurns' /\ TurnHasChild' /\ StoppedForGood' /\
      LocksOnTheWay' /\ SlotOnTheWay' /\ TurnHoldsLocks' /\ TurnHoldsSlot'
    BY DEF CleanupOfTurns, TurnHasChild, MayExecute, StoppedForGood,
        LocksOnTheWay, SlotOnTheWay, TurnHoldsLocks, LocksOf, TurnHoldsSlot
  <2>4. QED BY <2>1, <2>2, <2>3
<1>2. CASE PumpFails(r)
  <2> USE <1>2 DEF PumpFails, request, facts, ownership, stops, shutdown,
        runtime
  <2>1. SubmittedOnce' BY DEF SubmittedOnce, Awaits, BeforeTurn,
        BeforeBackend, InTurn, TypeOwnership, TypeRuntime, TypeTask
  <2>2. CleanupOfTurns' /\ EvidenceIsTrue' /\ TurnHasChild' /\
      StoppedForGood' /\ LocksOnTheWay' /\ SlotOnTheWay' /\
      TurnHoldsLocks' /\ TurnHoldsSlot'
    BY DEF CleanupOfTurns, EvidenceIsTrue, MayExecute, TurnHasChild,
        StoppedForGood, LocksOnTheWay, SlotOnTheWay, TurnHoldsLocks, LocksOf,
        TurnHoldsSlot
  <2>3. QED BY <2>1, <2>2
<1>3. QED BY <1>1, <1>2 DEF PumpStep

\* The invariant is kept by the request handler (_supervise).
LEMMA InvHandlerStep ==
    ASSUME IInv, TypeOK', NEW r \in Runs, HandlerStep(r)
    PROVE  IInv'
<1> USE DEF IInv, TypeOK
<1>1. CASE Answer(r)
  <2> USE <1>1 DEF Answer, ErrorReply, facts, ownership, stops, shutdown,
        runtime
  <2>1. SubmittedOnce' /\ CleanupOfTurns' /\ EvidenceIsTrue' /\
      TurnHasChild' /\ StoppedForGood' /\ LocksOnTheWay' /\
      SlotOnTheWay' /\ TurnHoldsLocks' /\ TurnHoldsSlot'
    BY DEF SubmittedOnce, CleanupOfTurns, EvidenceIsTrue, MayExecute,
        TurnHasChild, StoppedForGood, LocksOnTheWay, SlotOnTheWay,
        TurnHoldsLocks, LocksOf, TurnHoldsSlot
  <2>2. QED BY <2>1
<1>2. CASE StopFatal(r)
  <2> USE <1>2 DEF StopFatal, JoinStop, task, facts, ownership, shutdown,
        runtime
  <2>1. StoppedForGood' BY DEF StoppedForGood, TypeRuntime, TypeStops
  <2>2. SubmittedOnce' /\ CleanupOfTurns' /\ EvidenceIsTrue' /\
      TurnHasChild' /\ LocksOnTheWay' /\ SlotOnTheWay' /\
      TurnHoldsLocks' /\ TurnHoldsSlot'
    BY DEF SubmittedOnce, CleanupOfTurns, EvidenceIsTrue, MayExecute,
        TurnHasChild, LocksOnTheWay, SlotOnTheWay, TurnHoldsLocks, LocksOf,
        TurnHoldsSlot
  <2>3. QED BY <2>1, <2>2
<1>3. CASE FatalStopped(r)
  <2> USE <1>3 DEF FatalStopped, ErrorReply, facts, ownership, stops,
        shutdown, runtime
  <2>1. SubmittedOnce' /\ CleanupOfTurns' /\ EvidenceIsTrue' /\
      TurnHasChild' /\ StoppedForGood' /\ LocksOnTheWay' /\
      SlotOnTheWay' /\ TurnHoldsLocks' /\ TurnHoldsSlot'
    BY DEF SubmittedOnce, CleanupOfTurns, EvidenceIsTrue, MayExecute,
        TurnHasChild, StoppedForGood, LocksOnTheWay, SlotOnTheWay,
        TurnHoldsLocks, LocksOf, TurnHoldsSlot
  <2>2. QED BY <2>1
<1>4. CASE DropCancelled(r)
  <2> USE <1>4 DEF DropCancelled, Drop, task, facts, ownership, stops,
        shutdown, runtime
  <2>1. CleanupOfTurns' BY DEF CleanupOfTurns, TypeOwnership, TypeRequest,
        TypeStops
  <2>2. SubmittedOnce' /\ EvidenceIsTrue' /\ TurnHasChild' /\
      StoppedForGood' /\ LocksOnTheWay' /\ SlotOnTheWay' /\
      TurnHoldsLocks' /\ TurnHoldsSlot'
    BY DEF SubmittedOnce, EvidenceIsTrue, MayExecute, TurnHasChild,
        StoppedForGood, LocksOnTheWay, SlotOnTheWay, TurnHoldsLocks, LocksOf,
        TurnHoldsSlot
  <2>3. QED BY <2>1, <2>2
<1>5. QED BY <1>1, <1>2, <1>3, <1>4 DEF HandlerStep

\* The invariant is kept by the cancellation cleanup (_cancel_run).
LEMMA InvCleanupStep ==
    ASSUME IInv, TypeOK', NEW r \in Runs, CleanupStep(r)
    PROVE  IInv'
<1> USE DEF IInv, TypeOK
<1>1. CASE CleanupBegins(r)
  <2> USE <1>1 DEF CleanupBegins, task, facts, ownership, stops, shutdown,
        runtime
  <2>1. CleanupOfTurns' BY DEF CleanupOfTurns, TypeOwnership, TypeRequest,
        TypeStops
  <2>2. SubmittedOnce' /\ EvidenceIsTrue' /\ TurnHasChild' /\
      StoppedForGood' /\ LocksOnTheWay' /\ SlotOnTheWay' /\
      TurnHoldsLocks' /\ TurnHoldsSlot'
    BY DEF SubmittedOnce, EvidenceIsTrue, MayExecute, TurnHasChild,
        StoppedForGood, LocksOnTheWay, SlotOnTheWay, TurnHoldsLocks, LocksOf,
        TurnHoldsSlot
  <2>3. QED BY <2>1, <2>2
<1>2. CASE CleanupInterrupted(r)
  <2> USE <1>2 DEF CleanupInterrupted, Interrupted, Degrade, task, facts,
        ownership, stops, shutdown
  <2>1. CleanupOfTurns' BY DEF CleanupOfTurns, TypeOwnership, TypeRequest,
        TypeStops
  <2>2. StoppedForGood' BY DEF StoppedForGood, TypeRuntime, TypeStops
  <2>3. SubmittedOnce' /\ EvidenceIsTrue' /\ TurnHasChild' /\
      LocksOnTheWay' /\ SlotOnTheWay' /\ TurnHoldsLocks' /\ TurnHoldsSlot'
    BY DEF SubmittedOnce, EvidenceIsTrue, MayExecute, TurnHasChild,
        LocksOnTheWay, SlotOnTheWay, TurnHoldsLocks, LocksOf, TurnHoldsSlot
  <2>4. QED BY <2>1, <2>2, <2>3
<1>3. CASE CleanupWaited(r)
  <2> USE <1>3 DEF CleanupWaited, JoinStop, task, facts, ownership, shutdown,
        runtime
  <2>1. CleanupOfTurns' BY DEF CleanupOfTurns, TypeOwnership, TypeRequest,
        TypeStops
  <2>2. StoppedForGood' BY DEF StoppedForGood, TypeRuntime, TypeStops
  <2>3. SubmittedOnce' /\ EvidenceIsTrue' /\ TurnHasChild' /\
      LocksOnTheWay' /\ SlotOnTheWay' /\ TurnHoldsLocks' /\ TurnHoldsSlot'
    BY DEF SubmittedOnce, EvidenceIsTrue, MayExecute, TurnHasChild,
        LocksOnTheWay, SlotOnTheWay, TurnHoldsLocks, LocksOf, TurnHoldsSlot
  <2>4. QED BY <2>1, <2>2, <2>3
<1>4. CASE CleanupStopped(r)
  <2> USE <1>4 DEF CleanupStopped, SettleStop, task, stops, shutdown, runtime
  <2>1. StopConfirmed(<<"cleanup", r>>, ref[r]) => ~MayExecute(r)
    BY ConfirmedStop
  <2>2. SubmittedOnce' BY DEF SubmittedOnce, Awaits, BeforeTurn,
        BeforeBackend, InTurn, CleanupOfTurns, TypeOwnership, TypeRuntime,
        TypeTask
  <2>3. CleanupOfTurns' BY DEF CleanupOfTurns, TypeOwnership, TypeRequest,
        TypeStops
  <2>4. EvidenceIsTrue' BY <2>1 DEF EvidenceIsTrue, MayExecute, InFlight,
        EndStates, TypeOwnership, TypeRuntime
  <2>5. SlotOnTheWay' BY DEF SlotOnTheWay, BeforeTurn, BeforeBackend,
        CleanupOfTurns, SubmittedOnce, TypeOwnership, TypeTask
  <2>6. TurnHoldsSlot' BY <2>1 DEF TurnHoldsSlot, MayExecute, InFlight, Safe,
        SubmittedOnce, EvidenceIsTrue, EndStates, TypeOwnership, TypeRuntime
  <2>7. TurnHasChild' /\ StoppedForGood' /\ LocksOnTheWay' /\
      TurnHoldsLocks'
    BY DEF TurnHasChild, MayExecute, StoppedForGood, LocksOnTheWay,
        TurnHoldsLocks, LocksOf
  <2>8. QED BY <2>2, <2>3, <2>4, <2>5, <2>6, <2>7
<1>5. CASE CleanupOverrun(r)
  <2> USE <1>5 DEF CleanupOverrun, task, facts, ownership, stops, shutdown,
        runtime
  <2>1. CleanupOfTurns' BY DEF CleanupOfTurns, TypeOwnership, TypeRequest,
        TypeStops
  <2>2. SubmittedOnce' /\ EvidenceIsTrue' /\ TurnHasChild' /\
      StoppedForGood' /\ LocksOnTheWay' /\ SlotOnTheWay' /\
      TurnHoldsLocks' /\ TurnHoldsSlot'
    BY DEF SubmittedOnce, EvidenceIsTrue, MayExecute, TurnHasChild,
        StoppedForGood, LocksOnTheWay, SlotOnTheWay, TurnHoldsLocks, LocksOf,
        TurnHoldsSlot
  <2>3. QED BY <2>1, <2>2
<1>6. QED BY <1>1, <1>2, <1>3, <1>4, <1>5 DEF CleanupStep

\* The invariant is kept by the stop of a backend (_close_backend).
LEMMA InvCloseStep ==
    ASSUME IInv, TypeOK', NEW b \in Backends, CloseStep(b)
    PROVE  IInv'
<1> USE DEF IInv, TypeOK
<1>1. CASE CloseBegins(b)
  <2> USE <1>1 DEF CloseBegins, request, task, facts, shutdown
  <2>1. StoppedForGood' BY DEF StoppedForGood, TypeRuntime, TypeStops
  <2>2. SubmittedOnce' /\ CleanupOfTurns' /\ EvidenceIsTrue' /\
      TurnHasChild' /\ LocksOnTheWay' /\ SlotOnTheWay' /\
      TurnHoldsLocks' /\ TurnHoldsSlot'
    BY DEF SubmittedOnce, CleanupOfTurns, EvidenceIsTrue, MayExecute,
        TurnHasChild, LocksOnTheWay, SlotOnTheWay, TurnHoldsLocks, LocksOf,
        TurnHoldsSlot
  <2>3. QED BY <2>1, <2>2
<1>2. CASE CloseConfirmed(b)
  <2> USE <1>2 DEF CloseConfirmed, LoseTurns, request, task, facts, ownership,
        shutdown
  <2>1. SubmittedOnce' BY DEF SubmittedOnce, Awaits, BeforeTurn,
        BeforeBackend, InTurn, InFlight, MayExecute, EndStates, TypeOwnership,
        TypeRuntime, TypeTask
  <2>2. EvidenceIsTrue' BY DEF EvidenceIsTrue, MayExecute, InFlight,
        EndStates, TypeOwnership, TypeRuntime
  <2>3. TurnHasChild' BY DEF TurnHasChild, MayExecute, InFlight, OnBackend,
        TypeRuntime, TypeTask
  <2>4. StoppedForGood' BY ConstantsAssumption DEF StoppedForGood, TypeRuntime,
        TypeStops
  <2>5. TurnHoldsLocks' BY DEF TurnHoldsLocks, MayExecute, InFlight, LocksOf,
        TypeOwnership, TypeRequest, TypeRuntime
  <2>6. TurnHoldsSlot' BY DEF TurnHoldsSlot, MayExecute, InFlight,
        TypeOwnership, TypeRuntime
  <2>7. CleanupOfTurns' /\ LocksOnTheWay' /\ SlotOnTheWay'
    BY DEF CleanupOfTurns, LocksOnTheWay, SlotOnTheWay
  <2>8. QED BY <2>1, <2>2, <2>3, <2>4, <2>5, <2>6, <2>7
<1>3. CASE CloseRaises(b)
  <2> USE <1>3 DEF CloseRaises, CloseFailed, request, task, facts, shutdown
  <2>1. StoppedForGood' BY DEF StoppedForGood, TypeRuntime, TypeStops
  <2>2. SubmittedOnce' /\ CleanupOfTurns' /\ EvidenceIsTrue' /\
      TurnHasChild' /\ LocksOnTheWay' /\ SlotOnTheWay' /\
      TurnHoldsLocks' /\ TurnHoldsSlot'
    BY DEF SubmittedOnce, CleanupOfTurns, EvidenceIsTrue, MayExecute,
        TurnHasChild, LocksOnTheWay, SlotOnTheWay, TurnHoldsLocks, LocksOf,
        TurnHoldsSlot
  <2>3. QED BY <2>1, <2>2
<1>4. CASE CloseTimesOut(b)
  <2> USE <1>4 DEF CloseTimesOut, CloseFailed, request, task, facts, shutdown
  <2>1. StoppedForGood' BY DEF StoppedForGood, TypeRuntime, TypeStops
  <2>2. SubmittedOnce' /\ CleanupOfTurns' /\ EvidenceIsTrue' /\
      TurnHasChild' /\ LocksOnTheWay' /\ SlotOnTheWay' /\
      TurnHoldsLocks' /\ TurnHoldsSlot'
    BY DEF SubmittedOnce, CleanupOfTurns, EvidenceIsTrue, MayExecute,
        TurnHasChild, LocksOnTheWay, SlotOnTheWay, TurnHoldsLocks, LocksOf,
        TurnHoldsSlot
  <2>3. QED BY <2>1, <2>2
<1>5. QED BY <1>1, <1>2, <1>3, <1>4 DEF CloseStep

\* The invariant is kept by the shutdown task (_aclose_inner).
LEMMA InvCloserStep ==
    ASSUME IInv, TypeOK', CloserStep
    PROVE  IInv'
<1> USE DEF IInv, TypeOK
<1>1. CASE CloserInterrupted
  <2> USE <1>1 DEF CloserInterrupted, Interrupted, Degrade, request, task,
        facts, ownership, stops
  <2>1. CleanupOfTurns' BY DEF CleanupOfTurns, TypeOwnership, TypeRequest,
        TypeStops
  <2>2. StoppedForGood' BY DEF StoppedForGood, TypeRuntime, TypeStops
  <2>3. SubmittedOnce' /\ EvidenceIsTrue' /\ TurnHasChild' /\
      LocksOnTheWay' /\ SlotOnTheWay' /\ TurnHoldsLocks' /\ TurnHoldsSlot'
    BY DEF SubmittedOnce, EvidenceIsTrue, MayExecute, TurnHasChild,
        LocksOnTheWay, SlotOnTheWay, TurnHoldsLocks, LocksOf, TurnHoldsSlot
  <2>4. QED BY <2>1, <2>2, <2>3
<1>2. CASE CloserWaited
  <2> USE <1>2 DEF CloserWaited, JoinStop, FinalStop, request, task, facts,
        ownership, runtime
  <2>1. CleanupOfTurns' BY DEF CleanupOfTurns, TypeOwnership, TypeRequest,
        TypeStops
  <2>2. StoppedForGood' BY DEF StoppedForGood, TypeRuntime, TypeStops
  <2>3. SubmittedOnce' /\ EvidenceIsTrue' /\ TurnHasChild' /\
      LocksOnTheWay' /\ SlotOnTheWay' /\ TurnHoldsLocks' /\ TurnHoldsSlot'
    BY DEF SubmittedOnce, EvidenceIsTrue, MayExecute, TurnHasChild,
        LocksOnTheWay, SlotOnTheWay, TurnHoldsLocks, LocksOf, TurnHoldsSlot
  <2>4. QED BY <2>1, <2>2, <2>3
<1>3. CASE CloserRunStopped
  <2> USE <1>3 DEF CloserRunStopped, SettleStop, FinalStop, JoinStop, request,
        task, runtime
  <2>1. active \in Runs /\ (StopConfirmed(<<closer, NoRun>>, ref[active]) => ~MayExecute(active))
    BY ConfirmedStop DEF TypeStops
  <2>2. SubmittedOnce' BY DEF SubmittedOnce, Awaits, BeforeTurn,
        BeforeBackend, InTurn, CleanupOfTurns, TypeOwnership, TypeRuntime,
        TypeTask
  <2>3. CleanupOfTurns' BY DEF CleanupOfTurns, TypeOwnership, TypeRequest,
        TypeStops
  <2>4. EvidenceIsTrue' BY <2>1 DEF EvidenceIsTrue, MayExecute, InFlight,
        EndStates, TypeOwnership, TypeRuntime
  <2>5. StoppedForGood' BY DEF StoppedForGood, TypeRuntime, TypeStops
  <2>6. SlotOnTheWay' BY DEF SlotOnTheWay, BeforeTurn, BeforeBackend,
        CleanupOfTurns, SubmittedOnce, TypeOwnership, TypeTask
  <2>7. TurnHoldsSlot' BY <2>1 DEF TurnHoldsSlot, MayExecute, InFlight, Safe,
        SubmittedOnce, EvidenceIsTrue, EndStates, TypeOwnership, TypeRuntime
  <2>8. TurnHasChild' /\ LocksOnTheWay' /\ TurnHoldsLocks'
    BY DEF TurnHasChild, MayExecute, LocksOnTheWay, TurnHoldsLocks, LocksOf
  <2>9. QED BY <2>2, <2>3, <2>4, <2>5, <2>6, <2>7, <2>8
<1>4. CASE CloserReports
  <2> USE <1>4 DEF CloserReports, request, task, facts, ownership, stops,
        runtime
  <2>1. CleanupOfTurns' BY DEF CleanupOfTurns, TypeOwnership, TypeRequest,
        TypeStops
  <2>2. SubmittedOnce' /\ EvidenceIsTrue' /\ TurnHasChild' /\
      StoppedForGood' /\ LocksOnTheWay' /\ SlotOnTheWay' /\
      TurnHoldsLocks' /\ TurnHoldsSlot'
    BY DEF SubmittedOnce, EvidenceIsTrue, MayExecute, TurnHasChild,
        StoppedForGood, LocksOnTheWay, SlotOnTheWay, TurnHoldsLocks, LocksOf,
        TurnHoldsSlot
  <2>3. QED BY <2>1, <2>2
<1>5. CASE CloserOverrun
  <2> USE <1>5 DEF CloserOverrun, request, task, facts, ownership, stops,
        runtime
  <2>1. CleanupOfTurns' BY DEF CleanupOfTurns, TypeOwnership, TypeRequest,
        TypeStops
  <2>2. SubmittedOnce' /\ EvidenceIsTrue' /\ TurnHasChild' /\
      StoppedForGood' /\ LocksOnTheWay' /\ SlotOnTheWay' /\
      TurnHoldsLocks' /\ TurnHoldsSlot'
    BY DEF SubmittedOnce, EvidenceIsTrue, MayExecute, TurnHasChild,
        StoppedForGood, LocksOnTheWay, SlotOnTheWay, TurnHoldsLocks, LocksOf,
        TurnHoldsSlot
  <2>3. QED BY <2>1, <2>2
<1>6. CASE CloserBegins
  <2> USE <1>6 DEF CloserBegins, FinalStop, JoinStop, request, task, facts,
        ownership, runtime
  <2>1. CleanupOfTurns' BY DEF CleanupOfTurns, Unfinished,
        TypeOwnership, TypeRequest, TypeStops
  <2>2. StoppedForGood' BY DEF StoppedForGood, TypeRuntime, TypeStops
  <2>3. SubmittedOnce' /\ EvidenceIsTrue' /\ TurnHasChild' /\
      LocksOnTheWay' /\ SlotOnTheWay' /\ TurnHoldsLocks' /\ TurnHoldsSlot'
    BY DEF SubmittedOnce, EvidenceIsTrue, MayExecute, TurnHasChild,
        LocksOnTheWay, SlotOnTheWay, TurnHoldsLocks, LocksOf, TurnHoldsSlot
  <2>4. QED BY <2>1, <2>2, <2>3
<1>7. QED BY <1>1, <1>2, <1>3, <1>4, <1>5, <1>6 DEF CloserStep

\* The invariant is kept by the start of shutdown and by the runtimes.
LEMMA InvShutdownAndRuntime ==
    ASSUME IInv, TypeOK', Aclose \/ RuntimeStep \/ AtRest \/ UNCHANGED vars
    PROVE  IInv'
<1> USE DEF IInv, TypeOK
<1>1. CASE Aclose
  <2> USE <1>1 DEF Aclose, request, task, facts, ownership, stops, runtime
  <2>1. CleanupOfTurns' BY DEF CleanupOfTurns
  <2>2. StoppedForGood' BY DEF StoppedForGood
  <2>3. SubmittedOnce' /\ EvidenceIsTrue' /\ TurnHasChild' /\
      LocksOnTheWay' /\ SlotOnTheWay' /\ TurnHoldsLocks' /\ TurnHoldsSlot'
    BY DEF SubmittedOnce, EvidenceIsTrue, MayExecute, TurnHasChild,
        LocksOnTheWay, SlotOnTheWay, TurnHoldsLocks, LocksOf, TurnHoldsSlot
  <2>4. QED BY <2>1, <2>2, <2>3
<1>2. ASSUME NEW r \in Runs, TurnAccepted(r) PROVE IInv'
  <2> USE <1>2 DEF TurnAccepted, request, task, facts, ownership, stops,
        shutdown
  <2>1. SubmittedOnce' BY DEF SubmittedOnce, Awaits, BeforeTurn,
        BeforeBackend, InTurn, InFlight, MayExecute, EndStates, TypeOwnership,
        TypeRuntime, TypeTask
  <2>2. EvidenceIsTrue' BY DEF EvidenceIsTrue, MayExecute, InFlight,
        EndStates, TypeOwnership, TypeRuntime
  <2>3. TurnHasChild' BY DEF TurnHasChild, MayExecute, InFlight, OnBackend,
        TypeRuntime, TypeTask
  <2>4. TurnHoldsLocks' BY DEF TurnHoldsLocks, MayExecute, InFlight, LocksOf,
        TypeOwnership, TypeRequest, TypeRuntime
  <2>5. TurnHoldsSlot' BY DEF TurnHoldsSlot, MayExecute, InFlight,
        TypeOwnership, TypeRuntime
  <2>6. CleanupOfTurns' /\ StoppedForGood' /\ LocksOnTheWay' /\
      SlotOnTheWay'
    BY DEF CleanupOfTurns, StoppedForGood, LocksOnTheWay, SlotOnTheWay
  <2>7. QED BY <2>1, <2>2, <2>3, <2>4, <2>5, <2>6
<1>3. ASSUME NEW r \in Runs, TurnEnds(r) PROVE IInv'
  <2> USE <1>3 DEF TurnEnds, request, task, facts, ownership, stops, shutdown
  <2>1. SubmittedOnce' BY DEF SubmittedOnce, Awaits, BeforeTurn,
        BeforeBackend, InTurn, InFlight, MayExecute, EndStates, TypeOwnership,
        TypeRuntime, TypeTask
  <2>2. EvidenceIsTrue' BY DEF EvidenceIsTrue, MayExecute, InFlight,
        EndStates, TypeOwnership, TypeRuntime
  <2>3. TurnHasChild' BY DEF TurnHasChild, MayExecute, InFlight, OnBackend,
        TypeRuntime, TypeTask
  <2>4. TurnHoldsLocks' BY DEF TurnHoldsLocks, MayExecute, InFlight, LocksOf,
        TypeOwnership, TypeRequest, TypeRuntime
  <2>5. TurnHoldsSlot' BY DEF TurnHoldsSlot, MayExecute, InFlight,
        TypeOwnership, TypeRuntime
  <2>6. CleanupOfTurns' /\ StoppedForGood' /\ LocksOnTheWay' /\
      SlotOnTheWay'
    BY DEF CleanupOfTurns, StoppedForGood, LocksOnTheWay, SlotOnTheWay
  <2>7. QED BY <2>1, <2>2, <2>3, <2>4, <2>5, <2>6
<1>4. ASSUME NEW b \in Backends, ChildDies(b) PROVE IInv'
  <2> USE <1>4 DEF ChildDies, LoseTurns, request, task, facts, ownership,
        stops, shutdown
  <2>1. SubmittedOnce' BY DEF SubmittedOnce, Awaits, BeforeTurn,
        BeforeBackend, InTurn, InFlight, MayExecute, EndStates, TypeOwnership,
        TypeRuntime, TypeTask
  <2>2. EvidenceIsTrue' BY DEF EvidenceIsTrue, MayExecute, InFlight,
        EndStates, TypeOwnership, TypeRuntime
  <2>3. TurnHasChild' BY DEF TurnHasChild, MayExecute, InFlight, OnBackend,
        TypeRuntime, TypeTask
  <2>4. StoppedForGood' BY DEF StoppedForGood, TypeRuntime, TypeStops
  <2>5. TurnHoldsLocks' BY DEF TurnHoldsLocks, MayExecute, InFlight, LocksOf,
        TypeOwnership, TypeRequest, TypeRuntime
  <2>6. TurnHoldsSlot' BY DEF TurnHoldsSlot, MayExecute, InFlight,
        TypeOwnership, TypeRuntime
  <2>7. CleanupOfTurns' /\ LocksOnTheWay' /\ SlotOnTheWay'
    BY DEF CleanupOfTurns, LocksOnTheWay, SlotOnTheWay
  <2>8. QED BY <2>1, <2>2, <2>3, <2>4, <2>5, <2>6, <2>7
<1>5. ASSUME NEW b \in Backends, DeathNoticed(b) PROVE IInv'
  <2> USE <1>5 DEF DeathNoticed, Degrade, request, task, facts, ownership,
        stops, shutdown
  <2>1. StoppedForGood' BY DEF StoppedForGood, TypeRuntime, TypeStops
  <2>2. SubmittedOnce' /\ CleanupOfTurns' /\ EvidenceIsTrue' /\
      TurnHasChild' /\ LocksOnTheWay' /\ SlotOnTheWay' /\
      TurnHoldsLocks' /\ TurnHoldsSlot'
    BY DEF SubmittedOnce, CleanupOfTurns, EvidenceIsTrue, MayExecute,
        TurnHasChild, LocksOnTheWay, SlotOnTheWay, TurnHoldsLocks, LocksOf,
        TurnHoldsSlot
  <2>3. QED BY <2>1, <2>2
<1>6. ASSUME NEW b \in Backends, UnsupportedRequest(b) PROVE IInv'
  <2> USE <1>6 DEF UnsupportedRequest, Degrade, request, task, facts,
        ownership, stops, shutdown
  <2>1. StoppedForGood' BY DEF StoppedForGood, TypeRuntime, TypeStops
  <2>2. SubmittedOnce' /\ CleanupOfTurns' /\ EvidenceIsTrue' /\
      TurnHasChild' /\ LocksOnTheWay' /\ SlotOnTheWay' /\
      TurnHoldsLocks' /\ TurnHoldsSlot'
    BY DEF SubmittedOnce, CleanupOfTurns, EvidenceIsTrue, MayExecute,
        TurnHasChild, LocksOnTheWay, SlotOnTheWay, TurnHoldsLocks, LocksOf,
        TurnHoldsSlot
  <2>3. QED BY <2>1, <2>2
<1>7. CASE AtRest \/ UNCHANGED vars
  <2> USE <1>7 DEF AtRest, vars, request, task, facts, ownership, stops, shutdown, runtime
  <2>1. SubmittedOnce' /\ CleanupOfTurns' /\ EvidenceIsTrue' /\ TurnHasChild'
    BY DEF SubmittedOnce, CleanupOfTurns, EvidenceIsTrue, TurnHasChild, MayExecute
  <2>2. StoppedForGood' /\ LocksOnTheWay' /\ SlotOnTheWay'
    BY DEF StoppedForGood, LocksOnTheWay, SlotOnTheWay
  <2>3. TurnHoldsLocks' /\ TurnHoldsSlot'
    BY DEF TurnHoldsLocks, TurnHoldsSlot, LocksOf, MayExecute
  <2>4. QED BY <2>1, <2>2, <2>3
<1>8. QED BY <1>1, <1>2, <1>3, <1>4, <1>5, <1>6, <1>7 DEF RuntimeStep

-----------------------------------------------------------------------------
(* The theorems *)

\* The invariant holds initially.
LEMMA InvInit == Init => IInv
<1> SUFFICES ASSUME Init PROVE IInv
  OBVIOUS
<1>1. TypeOK BY TypeInit
<1> USE DEF Init
<1>2. SubmittedOnce /\ CleanupOfTurns
  BY DEF SubmittedOnce, CleanupOfTurns, InTurn, Awaits
<1>3. EvidenceIsTrue /\ TurnHasChild /\ StoppedForGood
  BY DEF EvidenceIsTrue, TurnHasChild, StoppedForGood, MayExecute, InFlight, OnBackend
<1>4. LocksOnTheWay /\ SlotOnTheWay
  BY DEF LocksOnTheWay, SlotOnTheWay, BeforeTurn, BeforeBackend
<1>5. TurnHoldsLocks /\ TurnHoldsSlot
  BY DEF TurnHoldsLocks, TurnHoldsSlot, MayExecute, InFlight
<1>6. QED BY <1>1, <1>2, <1>3, <1>4, <1>5 DEF IInv

\* The invariant is kept by every step.
LEMMA InvNext == IInv /\ [Next]_vars => IInv'
<1> SUFFICES ASSUME IInv, [Next]_vars PROVE IInv'
  OBVIOUS
<1>1. TypeOK' BY TypeNext DEF IInv
<1>2. ASSUME NEW r \in Runs,
             \/ ClientStep(r) \/ GetBackendStep(r) \/ OpenStep(r)
             \/ TurnStep(r) \/ PumpStep(r) \/ HandlerStep(r) \/ CleanupStep(r)
      PROVE  IInv'
  BY <1>1, <1>2, InvClientStep, InvGetBackendStep, InvOpenStep, InvTurnStep,
     InvPumpStep, InvHandlerStep, InvCleanupStep
<1>3. ASSUME NEW b \in Backends, CloseStep(b) PROVE IInv'
  BY <1>1, <1>3, InvCloseStep
<1>4. QED BY <1>1, <1>2, <1>3, InvCloserStep, InvShutdownAndRuntime DEF Next

\* The invariant holds of every reachable state.
THEOREM Invariant == Spec => []IInv
BY InvInit, InvNext, PTL DEF Spec

\* Whatever fails, times out or is cancelled: while the runtime may be
\* executing a turn, the locks of its thread and of the workspace it may
\* write are held (_settle_lease releases them on true evidence only).
THEOREM LocksHeld == Spec => []TurnHoldsLocks
BY Invariant, PTL DEF IInv

\* A turn that may be executing keeps the slot of the bridge
\* (_release_slot_if_safe frees it on true evidence only).
THEOREM SlotHeld == Spec => []TurnHoldsSlot
BY Invariant, PTL DEF IInv

\* So the bridge never has two turns executing, however many calls it gets
\* and however often it replaces its runtime.
THEOREM TurnsAlone == Spec => []OneTurn
<1>1. TurnHoldsSlot => OneTurn BY DEF TurnHoldsSlot, OneTurn
<1>2. QED BY <1>1, SlotHeld, PTL

==============================================================================
