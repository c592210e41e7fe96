-------------------------- MODULE CoordinatorSafety --------------------------
(***************************************************************************)
(* A second inductive invariant of the coordinator, over the first, and    *)
(* the safety properties that follow from it: what a client is told, what  *)
(* shutdown reports, what the records say, that the coordinator implements *)
(* TurnSlot, and that what was called off sends no turn any more.          *)
(*                                                                         *)
(* Whatever is left over from earlier calls, the run that has the slot     *)
(* works on the only backend that is not behind it for good, so the child  *)
(* of this backend is the only one there is, and its stop is the last one  *)
(* that shutdown needs.                                                    *)
(***************************************************************************)
EXTENDS CoordinatorProofs

-----------------------------------------------------------------------------
(* The invariant *)

\* A run that has not left its slot is the active one, and it leaves it safely
\* or not at all.
SlotIsActive ==
    /\ \A r \in Runs : pc[r] # "idle" /\ r \notin terminal => active = r
    /\ \A r \in terminal : Safe(r)

\* A run that ended without evidence makes the bridge refuse work.
UnsafePoisons == \A r \in Runs : pc[r] = "done" /\ ~Safe(r) => poisoned

\* A backend that is not the current one was stopped, or never used.
Untouched(b) ==
    /\ bstate[b] = "UNUSED" /\ stop[b] = "none" /\ ~child[b]
    /\ \A r \in Runs : bk[r] # b /\ ref[r] # b
OldBackendsGone ==
    \A b \in Backends : b = backend \/ b \in stopped \/ Untouched(b)

\* A run that waits to replace its backend is not overtaken.
ReplacesInOrder == \A r \in Runs :
    pc[r] = "replacing" => backend \in {bk[r], NoBackend}

\* Shutdown and cancellation reach every run that has not sent its turn.
CancelReaches ==
    /\ closer \notin {"open", "called"} => \A r \in Runs :
           pc[r] \in BeforeTurn \cup {"created"} => r \in cancelled
    /\ \A r \in Runs :
           reply[r] = "dropped" => r \in cancelled \/ pc[r] = "done"

\* The last stop of shutdown is that of the runtime whose turn may be executing.
LastStopIsOwn == \A r \in Runs :
    closer = "stopping" /\ MayExecute(r) => closerStop = ref[r]

\* A run's result agrees with its turn.
AfterAck == {"lateInterrupt", "running", "interrupting", "grace",
             "settleStopping"}
ResultsTrue == \A r \in Runs :
    /\ pc[r] \in AfterAck => r \in acked
    /\ pc[r] \in BeforeTurn \cup {"idle", "created"} => outcome[r] = "none"
    /\ pc[r] \in {"interrupting", "grace", "settleStopping"} =>
           outcome[r] \in RpcErrors \cup {"TURN_TIMEOUT"}
    /\ pump[r] = "terminal" => r \in confirmed
    /\ outcome[r] = "success" => wire[r] = "completed" /\ r \in confirmed
    /\ pc[r] = "done" /\ r \notin acked
       /\ outcome[r] \in Errors \ SideEffectCodes => wire[r] = "idle"

\* The handler answers a task that has ended, with the error that task had.
HandlerFollows == \A r \in Runs :
    /\ pc[r] = "done" /\ sup[r] = "waiting" => outcome[r] # "none"
    /\ sup[r] = "stopping" => pc[r] = "done" /\ outcome[r] \in FatalCodes
    /\ reply[r] \in {"success", "safe", "risky"} => pc[r] = "done"

\* The record of a thread follows the run that has sent its turn there.
SubmittedLocked == \A r \in Runs :
    /\ call[r].tool = "codex-reply" \/ "thread" \in lease[r] =>
           thread[r] \in Threads
    /\ r \in submitted /\ r \notin terminal => "thread" \in lease[r]

SInv == /\ IInv
        /\ SlotIsActive /\ UnsafePoisons /\ OldBackendsGone /\ ReplacesInOrder
        /\ CancelReaches /\ LastStopIsOwn /\ ResultsTrue
        /\ HandlerFollows /\ RepliesHonest
        /\ SubmittedLocked /\ RecordFollowsTurn

-----------------------------------------------------------------------------
(* Lemmas *)

\* A backend that lives or is being stopped is the current one.
LEMMA LiveIsCurrent ==
    ASSUME SInv, NEW b \in Backends, stop[b] # "none" \/ child[b]
    PROVE  b = backend
BY DEF SInv, IInv, OldBackendsGone, Untouched, StoppedForGood

\* The invariant is kept by calls and cancellations of the client.
LEMMA SafeClientStep ==
    ASSUME SInv, IInv', NEW r \in Runs, ClientStep(r)
    PROVE  SInv'
<1> USE DEF SInv, IInv, TypeOK
<1>1. CASE Refuse(r)
  <2> USE <1>1 DEF Refuse, task, facts, ownership, stops, shutdown, runtime
  <2>1. CancelReaches' BY DEF CancelReaches, BeforeTurn, BeforeBackend,
        Closed, TypeRequest, TypeStops, TypeTask
  <2>2. HandlerFollows' BY DEF HandlerFollows, TypeRequest, TypeTask
  <2>3. RepliesHonest' BY DEF RepliesHonest, TypeRequest, TypeOwnership,
        TypeRuntime
  <2>4. SlotIsActive' /\ UnsafePoisons' /\ OldBackendsGone' /\
      ReplacesInOrder' /\ LastStopIsOwn' /\ ResultsTrue' /\
      SubmittedLocked' /\ RecordFollowsTurn'
    BY DEF SlotIsActive, Safe, UnsafePoisons, OldBackendsGone, Untouched,
        ReplacesInOrder, LastStopIsOwn, MayExecute,
        ResultsTrue, SubmittedLocked, RecordFollowsTurn
  <2>5. QED BY <2>1, <2>2, <2>3, <2>4
<1>2. CASE Admit(r)
  <2> USE <1>2 DEF Admit, Goto, facts, ownership, stops, shutdown, runtime
  <2>1. SlotIsActive' BY ConstantsAssumption DEF SlotIsActive, Safe,
        Admissible, SlotFree, TypeOwnership, TypeTask
  <2>2. UnsafePoisons' BY DEF UnsafePoisons, Safe, SubmittedOnce, TypeTask,
        TypeOwnership
  <2>3. ReplacesInOrder' BY DEF ReplacesInOrder, TypeTask, TypeRuntime,
      TypeStops
  <2>4. CancelReaches' BY DEF CancelReaches, BeforeTurn, BeforeBackend,
        Closed, Admissible, TypeTask, TypeRequest, TypeStops
  <2>5. ResultsTrue' BY DEF ResultsTrue, AfterAck, BeforeTurn, BeforeBackend,
        SubmittedOnce, TypeTask, TypeOwnership, TypeRuntime
  <2>6. HandlerFollows' BY DEF HandlerFollows, TypeRequest, TypeTask
  <2>7. SubmittedLocked' BY ConstantsAssumption DEF SubmittedLocked,
        SubmittedOnce, TypeStops, TypeRequest, TypeTask, TypeOwnership
  <2>8. RecordFollowsTurn' BY DEF RecordFollowsTurn, SubmittedOnce,
        BeforeTurn, BeforeBackend, TypeTask, TypeOwnership, TypeRuntime
  <2>9. OldBackendsGone' /\ LastStopIsOwn' /\ RepliesHonest'
    BY DEF OldBackendsGone, Untouched, LastStopIsOwn, MayExecute,
        RepliesHonest
  <2>10. QED BY <2>1, <2>2, <2>3, <2>4, <2>5, <2>6, <2>7, <2>8, <2>9
<1>3. CASE ClientCancels(r)
  <2> USE <1>3 DEF ClientCancels, Drop, task, facts, ownership, stops,
        shutdown, runtime
  <2>1. CancelReaches' BY DEF CancelReaches, BeforeTurn, BeforeBackend,
        Closed, TypeRequest, TypeStops, TypeTask
  <2>2. HandlerFollows' BY DEF HandlerFollows, TypeRequest, TypeTask
  <2>3. RepliesHonest' BY DEF RepliesHonest, TypeRequest, TypeOwnership,
        TypeRuntime
  <2>4. SlotIsActive' /\ UnsafePoisons' /\ OldBackendsGone' /\
      ReplacesInOrder' /\ LastStopIsOwn' /\ ResultsTrue' /\
      SubmittedLocked' /\ RecordFollowsTurn'
    BY DEF SlotIsActive, Safe, UnsafePoisons, OldBackendsGone, Untouched,
        ReplacesInOrder, LastStopIsOwn, MayExecute,
        ResultsTrue, SubmittedLocked, RecordFollowsTurn
  <2>5. QED BY <2>1, <2>2, <2>3, <2>4
<1>4. CASE ClientCancelsStop(r)
  <2> USE <1>4 DEF ClientCancelsStop, task, facts, ownership, stops, shutdown,
        runtime
  <2>1. CancelReaches' BY DEF CancelReaches, BeforeTurn, BeforeBackend,
        Closed, HandlerFollows, TypeRequest, TypeStops, TypeTask
  <2>2. HandlerFollows' BY DEF HandlerFollows, TypeRequest, TypeTask
  <2>3. RepliesHonest' BY DEF RepliesHonest, TypeRequest, TypeOwnership,
        TypeRuntime
  <2>4. SlotIsActive' /\ UnsafePoisons' /\ OldBackendsGone' /\
      ReplacesInOrder' /\ LastStopIsOwn' /\ ResultsTrue' /\
      SubmittedLocked' /\ RecordFollowsTurn'
    BY DEF SlotIsActive, Safe, UnsafePoisons, OldBackendsGone, Untouched,
        ReplacesInOrder, LastStopIsOwn, MayExecute,
        ResultsTrue, SubmittedLocked, RecordFollowsTurn
  <2>5. QED BY <2>1, <2>2, <2>3, <2>4
<1>5. QED BY <1>1, <1>2, <1>3, <1>4 DEF ClientStep

\* The invariant is kept by a run that gets its backend (_get_backend).
LEMMA SafeGetBackendStep ==
    ASSUME SInv, IInv', NEW r \in Runs, GetBackendStep(r)
    PROVE  SInv'
<1> USE DEF SInv, IInv, TypeOK
<1>1. CASE Reject(r)
  <2> USE <1>1 DEF Reject, EndRun, Goto, request, facts, stops, shutdown,
        runtime
  <2>1. SlotIsActive' BY DEF SlotIsActive, Safe, TypeOwnership, TypeTask
  <2>2. UnsafePoisons' BY DEF UnsafePoisons, Safe, TypeOwnership, TypeTask
  <2>3. OldBackendsGone' BY ConstantsAssumption DEF OldBackendsGone,
        Untouched, TypeTask, TypeRuntime, TypeStops
  <2>4. ReplacesInOrder' BY DEF ReplacesInOrder, TypeTask, TypeRuntime,
      TypeStops
  <2>5. CancelReaches' BY DEF CancelReaches, BeforeTurn, BeforeBackend,
        Closed, TypeTask, TypeRequest, TypeStops
  <2>6. ResultsTrue' BY DEF ResultsTrue, AfterAck, BeforeTurn, BeforeBackend,
        SubmittedOnce, Errors, SideEffectCodes, UncertainCodes, TypeTask,
        TypeOwnership, TypeRuntime
  <2>7. HandlerFollows' BY DEF HandlerFollows, RpcErrors, TypeTask,
        TypeRequest
  <2>8. SubmittedLocked' BY DEF SubmittedLocked, TypeOwnership, TypeRequest,
        TypeTask
  <2>9. RecordFollowsTurn' BY DEF RecordFollowsTurn, SubmittedOnce,
        BeforeTurn, BeforeBackend, TypeOwnership, TypeRuntime, TypeTask
  <2>10. LastStopIsOwn' /\ RepliesHonest'
    BY DEF LastStopIsOwn, MayExecute, RepliesHonest
  <2>11. QED BY <2>1, <2>2, <2>3, <2>4, <2>5, <2>6, <2>7, <2>8, <2>9,
        <2>10
<1>2. CASE Begin(r)
  <2> USE <1>2 DEF Begin, GetBackend, SpawnChild, JoinStop, Goto, request,
        facts, shutdown
  <2>1. SlotIsActive' BY DEF SlotIsActive, Safe, TypeTask, TypeOwnership
  <2>2. UnsafePoisons' BY DEF UnsafePoisons, Safe, TypeTask, TypeOwnership
  <2>3. OldBackendsGone' BY ConstantsAssumption DEF OldBackendsGone,
        Untouched, Chosen, TypeRuntime, TypeStops, TypeTask
  <2>4. ReplacesInOrder' BY DEF ReplacesInOrder, SlotOnTheWay, BeforeTurn,
        BeforeBackend, Chosen, TypeRuntime, TypeStops, TypeTask
  <2>5. CancelReaches' BY DEF CancelReaches, BeforeTurn, BeforeBackend,
        Closed, TypeTask, TypeRequest, TypeStops
  <2>6. LastStopIsOwn' BY DEF LastStopIsOwn, MayExecute, InFlight,
        SubmittedOnce, BeforeTurn, BeforeBackend, TypeTask, TypeRuntime,
        TypeStops
  <2>7. ResultsTrue' BY DEF ResultsTrue, AfterAck, BeforeTurn, BeforeBackend,
        TypeTask, TypeOwnership, TypeRuntime
  <2>8. HandlerFollows' BY DEF HandlerFollows, TypeTask, TypeRequest
  <2>9. SubmittedLocked' BY DEF SubmittedLocked, SubmittedOnce, BeforeTurn,
        BeforeBackend, TypeOwnership, TypeRequest, TypeTask
  <2>10. RecordFollowsTurn' BY DEF RecordFollowsTurn, SubmittedOnce,
        BeforeTurn, BeforeBackend, TypeOwnership, TypeRuntime, TypeTask
  <2>11. RepliesHonest'
    BY DEF RepliesHonest
  <2>12. QED BY <2>1, <2>2, <2>3, <2>4, <2>5, <2>6, <2>7, <2>8, <2>9,
        <2>10, <2>11
<1>3. CASE BeginUnusable(r)
  <2> USE <1>3 DEF BeginUnusable, EndRun, Goto, request, facts, stops,
        shutdown, runtime
  <2>1. SlotIsActive' BY DEF SlotIsActive, Safe, TypeOwnership, TypeTask
  <2>2. UnsafePoisons' BY DEF UnsafePoisons, Safe, TypeOwnership, TypeTask
  <2>3. OldBackendsGone' BY ConstantsAssumption DEF OldBackendsGone,
        Untouched, TypeTask, TypeRuntime, TypeStops
  <2>4. ReplacesInOrder' BY DEF ReplacesInOrder, TypeTask, TypeRuntime,
      TypeStops
  <2>5. CancelReaches' BY DEF CancelReaches, BeforeTurn, BeforeBackend,
        Closed, TypeTask, TypeRequest, TypeStops
  <2>6. ResultsTrue' BY DEF ResultsTrue, AfterAck, BeforeTurn, BeforeBackend,
        SubmittedOnce, Errors, SideEffectCodes, UncertainCodes, TypeTask,
        TypeOwnership, TypeRuntime
  <2>7. HandlerFollows' BY DEF HandlerFollows, RpcErrors, TypeTask,
        TypeRequest
  <2>8. SubmittedLocked' BY DEF SubmittedLocked, TypeOwnership, TypeRequest,
        TypeTask
  <2>9. RecordFollowsTurn' BY DEF RecordFollowsTurn, SubmittedOnce,
        BeforeTurn, BeforeBackend, TypeOwnership, TypeRuntime, TypeTask
  <2>10. LastStopIsOwn' /\ RepliesHonest'
    BY DEF LastStopIsOwn, MayExecute, RepliesHonest
  <2>11. QED BY <2>1, <2>2, <2>3, <2>4, <2>5, <2>6, <2>7, <2>8, <2>9,
        <2>10
<1>4. CASE Replace(r)
  <2> USE <1>4 DEF Replace, SpawnChild, Goto, request, facts, ownership,
        shutdown
  <2>1. SlotIsActive' BY DEF SlotIsActive, Safe, TypeTask, TypeOwnership
  <2>2. UnsafePoisons' BY DEF UnsafePoisons, Safe, TypeTask, TypeOwnership
  <2>3. OldBackendsGone' BY ConstantsAssumption DEF OldBackendsGone,
        Untouched, ReplacesInOrder, StopConfirmed, TypeRuntime, TypeStops,
        TypeTask
  <2>4. ReplacesInOrder' BY DEF ReplacesInOrder, SlotOnTheWay, BeforeTurn,
        BeforeBackend, TypeRuntime, TypeStops, TypeTask
  <2>5. CancelReaches' BY DEF CancelReaches, BeforeTurn, BeforeBackend,
        Closed, TypeTask, TypeRequest, TypeStops
  <2>6. ResultsTrue' BY DEF ResultsTrue, AfterAck, BeforeTurn, BeforeBackend,
        TypeTask, TypeOwnership, TypeRuntime
  <2>7. HandlerFollows' BY DEF HandlerFollows, TypeTask, TypeRequest
  <2>8. LastStopIsOwn' /\ RepliesHonest' /\ SubmittedLocked' /\
      RecordFollowsTurn'
    BY DEF LastStopIsOwn, MayExecute, RepliesHonest, SubmittedLocked,
        RecordFollowsTurn
  <2>9. QED BY <2>1, <2>2, <2>3, <2>4, <2>5, <2>6, <2>7, <2>8
<1>5. CASE ReplaceFails(r)
  <2> USE <1>5 DEF ReplaceFails, EndRun, Goto, request, facts, stops,
        shutdown, runtime
  <2>1. SlotIsActive' BY DEF SlotIsActive, Safe, TypeOwnership, TypeTask
  <2>2. UnsafePoisons' BY DEF UnsafePoisons, Safe, TypeOwnership, TypeTask
  <2>3. OldBackendsGone' BY ConstantsAssumption DEF OldBackendsGone,
        Untouched, TypeTask, TypeRuntime, TypeStops
  <2>4. ReplacesInOrder' BY DEF ReplacesInOrder, TypeTask, TypeRuntime,
      TypeStops
  <2>5. CancelReaches' BY DEF CancelReaches, BeforeTurn, BeforeBackend,
        Closed, TypeTask, TypeRequest, TypeStops
  <2>6. ResultsTrue' BY DEF ResultsTrue, AfterAck, BeforeTurn, BeforeBackend,
        SubmittedOnce, Errors, SideEffectCodes, UncertainCodes, TypeTask,
        TypeOwnership, TypeRuntime
  <2>7. HandlerFollows' BY DEF HandlerFollows, RpcErrors, TypeTask,
        TypeRequest
  <2>8. SubmittedLocked' BY DEF SubmittedLocked, TypeOwnership, TypeRequest,
        TypeTask
  <2>9. RecordFollowsTurn' BY DEF RecordFollowsTurn, SubmittedOnce,
        BeforeTurn, BeforeBackend, TypeOwnership, TypeRuntime, TypeTask
  <2>10. LastStopIsOwn' /\ RepliesHonest'
    BY DEF LastStopIsOwn, MayExecute, RepliesHonest
  <2>11. QED BY <2>1, <2>2, <2>3, <2>4, <2>5, <2>6, <2>7, <2>8, <2>9,
        <2>10
<1>6. CASE Started(r)
  <2> USE <1>6 DEF Started, LoseTurns, CheckCancelled, Goto, EndRun, request,
        facts, ownership, stops, shutdown
  <2>1. SlotIsActive' BY DEF SlotIsActive, Safe, TypeOwnership, TypeTask
  <2>2. UnsafePoisons' BY DEF UnsafePoisons, Safe, TypeOwnership, TypeTask
  <2>3. OldBackendsGone' BY ConstantsAssumption DEF OldBackendsGone,
        Untouched, TypeTask, TypeRuntime, TypeStops
  <2>4. ReplacesInOrder' BY DEF ReplacesInOrder, TypeRuntime, TypeTask,
      TypeStops
  <2>5. CancelReaches' BY DEF CancelReaches, BeforeTurn, BeforeBackend,
        Closed, TypeTask, TypeRequest, TypeStops
  <2>6. LastStopIsOwn' BY DEF LastStopIsOwn, MayExecute, InFlight,
        SubmittedOnce, BeforeTurn, BeforeBackend, TypeRuntime, TypeTask,
        TypeStops
  <2>7. ResultsTrue' BY DEF ResultsTrue, AfterAck, BeforeTurn, BeforeBackend,
        SubmittedOnce, Errors, SideEffectCodes, UncertainCodes, EndStates,
        InFlight, EvidenceIsTrue, TypeRuntime, TypeTask, TypeOwnership
  <2>8. HandlerFollows' BY DEF HandlerFollows, RpcErrors, TypeTask,
        TypeRequest
  <2>9. RepliesHonest' BY DEF RepliesHonest, InFlight, EndStates,
        TypeRuntime, TypeOwnership, TypeRequest
  <2>10. SubmittedLocked' BY DEF SubmittedLocked, TypeOwnership, TypeRequest,
        TypeTask
  <2>11. RecordFollowsTurn' BY DEF RecordFollowsTurn, SubmittedOnce,
        BeforeTurn, BeforeBackend, TypeOwnership, TypeRuntime, TypeTask
  <2>12. QED BY <2>1, <2>2, <2>3, <2>4, <2>5, <2>6, <2>7, <2>8, <2>9,
        <2>10, <2>11
<1>7. CASE StartFails(r)
  <2> USE <1>7 DEF StartFails, LoseTurns, EndRun, Goto, request, facts, stops,
        shutdown
  <2>1. SlotIsActive' BY DEF SlotIsActive, Safe, TypeOwnership, TypeTask
  <2>2. UnsafePoisons'
    <3>1. poisoned \/ ~Safe(r)' => poisoned'
      BY DEF Safe, TypeOwnership
    <3>2. QED BY <3>1 DEF UnsafePoisons, Safe, TypeTask
  <2>3. OldBackendsGone' BY ConstantsAssumption DEF OldBackendsGone,
        Untouched, TypeRuntime, TypeTask, TypeStops
  <2>4. ReplacesInOrder' BY DEF ReplacesInOrder, TypeRuntime, TypeTask,
      TypeStops
  <2>5. CancelReaches' BY DEF CancelReaches, BeforeTurn, BeforeBackend,
        Closed, TypeTask, TypeRequest, TypeStops
  <2>6. LastStopIsOwn' BY DEF LastStopIsOwn, MayExecute, InFlight,
        TypeRuntime, TypeStops, TypeTask
  <2>7. ResultsTrue' BY DEF ResultsTrue, AfterAck, BeforeTurn, BeforeBackend,
        SubmittedOnce, Errors, SideEffectCodes, UncertainCodes, EndStates,
        InFlight, EvidenceIsTrue, TypeRuntime, TypeTask, TypeOwnership
  <2>8. HandlerFollows' BY DEF HandlerFollows, RpcErrors, TypeTask,
        TypeRequest
  <2>9. RepliesHonest' BY DEF RepliesHonest, InFlight, EndStates,
        TypeRuntime, TypeOwnership, TypeRequest
  <2>10. SubmittedLocked' BY DEF SubmittedLocked, TypeOwnership, TypeRequest,
        TypeTask
  <2>11. RecordFollowsTurn' BY DEF RecordFollowsTurn, SubmittedOnce,
        BeforeTurn, BeforeBackend, TypeOwnership, TypeRuntime, TypeTask
  <2>12. QED BY <2>1, <2>2, <2>3, <2>4, <2>5, <2>6, <2>7, <2>8, <2>9,
        <2>10, <2>11
<1>8. CASE StartUnconfirmed(r)
  <2> USE <1>8 DEF StartUnconfirmed, EndRun, Goto, request, facts, stops,
        shutdown
  <2>1. SlotIsActive' BY DEF SlotIsActive, Safe, TypeOwnership, TypeTask
  <2>2. UnsafePoisons' BY DEF UnsafePoisons, Safe, TypeOwnership, TypeTask
  <2>3. OldBackendsGone' BY ConstantsAssumption DEF OldBackendsGone,
        Untouched, TypeRuntime, TypeTask, TypeStops
  <2>4. ReplacesInOrder' BY DEF ReplacesInOrder, TypeRuntime, TypeTask,
      TypeStops
  <2>5. CancelReaches' BY DEF CancelReaches, BeforeTurn, BeforeBackend,
        Closed, TypeTask, TypeRequest, TypeStops
  <2>6. ResultsTrue' BY DEF ResultsTrue, AfterAck, BeforeTurn, BeforeBackend,
        SubmittedOnce, Errors, SideEffectCodes, UncertainCodes, TypeTask,
        TypeOwnership, TypeRuntime
  <2>7. HandlerFollows' BY DEF HandlerFollows, RpcErrors, TypeTask,
        TypeRequest
  <2>8. SubmittedLocked' BY DEF SubmittedLocked, TypeOwnership, TypeRequest,
        TypeTask
  <2>9. RecordFollowsTurn' BY DEF RecordFollowsTurn, SubmittedOnce,
        BeforeTurn, BeforeBackend, TypeOwnership, TypeRuntime, TypeTask
  <2>10. LastStopIsOwn' /\ RepliesHonest'
    BY DEF LastStopIsOwn, MayExecute, RepliesHonest
  <2>11. QED BY <2>1, <2>2, <2>3, <2>4, <2>5, <2>6, <2>7, <2>8, <2>9,
        <2>10
<1>9. QED BY <1>1, <1>2, <1>3, <1>4, <1>5, <1>6, <1>7, <1>8 DEF GetBackendStep

\* The invariant is kept by a run up to the submission of its turn.
LEMMA SafeOpenStep ==
    ASSUME SInv, IInv', NEW r \in Runs, OpenStep(r)
    PROVE  SInv'
<1> USE DEF SInv, IInv, TypeOK
<1>1. CASE Prepared(r)
  <2> USE <1>1 DEF Prepared, Goto, CheckCancelled, EndRun, request, facts,
        ownership, stops, shutdown, runtime
  <2>1. SlotIsActive' BY DEF SlotIsActive, Safe, TypeOwnership, TypeTask
  <2>2. UnsafePoisons' BY DEF UnsafePoisons, Safe, TypeOwnership, TypeTask
  <2>3. OldBackendsGone' BY ConstantsAssumption DEF OldBackendsGone,
        Untouched, TypeTask, TypeRuntime, TypeStops
  <2>4. ReplacesInOrder' BY DEF ReplacesInOrder, TypeTask, TypeRuntime,
      TypeStops
  <2>5. CancelReaches' BY DEF CancelReaches, BeforeTurn, BeforeBackend,
        Closed, TypeTask, TypeRequest, TypeStops
  <2>6. ResultsTrue' BY DEF ResultsTrue, AfterAck, BeforeTurn, BeforeBackend,
        SubmittedOnce, Errors, SideEffectCodes, UncertainCodes, TypeTask,
        TypeOwnership, TypeRuntime
  <2>7. HandlerFollows' BY DEF HandlerFollows, RpcErrors, TypeTask,
        TypeRequest
  <2>8. SubmittedLocked' BY DEF SubmittedLocked, SubmittedOnce, BeforeTurn,
        BeforeBackend, TypeOwnership, TypeRequest, TypeTask
  <2>9. RecordFollowsTurn' BY DEF RecordFollowsTurn, SubmittedOnce,
        BeforeTurn, BeforeBackend, TypeOwnership, TypeRuntime, TypeTask
  <2>10. LastStopIsOwn' /\ RepliesHonest'
    BY DEF LastStopIsOwn, MayExecute, RepliesHonest
  <2>11. QED BY <2>1, <2>2, <2>3, <2>4, <2>5, <2>6, <2>7, <2>8, <2>9,
        <2>10
<1>2. CASE PrepareFails(r)
  <2> USE <1>2 DEF PrepareFails, RpcFails, Degrade, EndRun, Goto, request,
        facts, stops, shutdown
  <2>1. SlotIsActive' BY DEF SlotIsActive, Safe, TypeOwnership, TypeTask
  <2>2. UnsafePoisons' BY DEF UnsafePoisons, Safe, TypeOwnership, TypeTask
  <2>3. OldBackendsGone' BY ConstantsAssumption DEF OldBackendsGone,
        Untouched, TypeRuntime, TypeTask, TypeStops
  <2>4. ReplacesInOrder' BY DEF ReplacesInOrder, TypeRuntime, TypeTask,
      TypeStops
  <2>5. CancelReaches' BY DEF CancelReaches, BeforeTurn, BeforeBackend,
        Closed, TypeTask, TypeRequest, TypeStops
  <2>6. ResultsTrue' BY DEF ResultsTrue, AfterAck, BeforeTurn, BeforeBackend,
        SubmittedOnce, Errors, SideEffectCodes, UncertainCodes, RpcErrors,
        TypeTask, TypeOwnership, TypeRuntime
  <2>7. HandlerFollows' BY DEF HandlerFollows, RpcErrors, TypeTask,
        TypeRequest
  <2>8. SubmittedLocked' BY DEF SubmittedLocked, TypeOwnership, TypeRequest,
        TypeTask
  <2>9. RecordFollowsTurn' BY DEF RecordFollowsTurn, SubmittedOnce,
        BeforeTurn, BeforeBackend, TypeOwnership, TypeRuntime, TypeTask
  <2>10. LastStopIsOwn' /\ RepliesHonest'
    BY DEF LastStopIsOwn, MayExecute, RepliesHonest
  <2>11. QED BY <2>1, <2>2, <2>3, <2>4, <2>5, <2>6, <2>7, <2>8, <2>9,
        <2>10
<1>3. CASE Opened(r)
  <2> USE <1>3 DEF Opened, Goto, CheckCancelled, EndRun, request, facts,
        ownership, stops, shutdown, runtime
  <2>1. SlotIsActive' BY DEF SlotIsActive, Safe, TypeOwnership, TypeTask
  <2>2. UnsafePoisons' BY DEF UnsafePoisons, Safe, TypeOwnership, TypeTask
  <2>3. OldBackendsGone' BY ConstantsAssumption DEF OldBackendsGone,
        Untouched, TypeTask, TypeRuntime, TypeStops
  <2>4. ReplacesInOrder' BY DEF ReplacesInOrder, TypeTask, TypeRuntime,
      TypeStops
  <2>5. CancelReaches' BY DEF CancelReaches, BeforeTurn, BeforeBackend,
        Closed, TypeTask, TypeRequest, TypeStops
  <2>6. ResultsTrue' BY DEF ResultsTrue, AfterAck, BeforeTurn, BeforeBackend,
        SubmittedOnce, Errors, SideEffectCodes, UncertainCodes, TypeTask,
        TypeOwnership, TypeRuntime
  <2>7. HandlerFollows' BY DEF HandlerFollows, RpcErrors, TypeTask,
        TypeRequest
  <2>8. SubmittedLocked' BY DEF SubmittedLocked, SubmittedOnce, BeforeTurn,
        BeforeBackend, TypeOwnership, TypeTask, TypeRequest
  <2>9. RecordFollowsTurn' BY DEF RecordFollowsTurn, SubmittedOnce,
        BeforeTurn, BeforeBackend, TypeOwnership, TypeTask, TypeRuntime
  <2>10. LastStopIsOwn' /\ RepliesHonest'
    BY DEF LastStopIsOwn, MayExecute, RepliesHonest
  <2>11. QED BY <2>1, <2>2, <2>3, <2>4, <2>5, <2>6, <2>7, <2>8, <2>9,
        <2>10
<1>4. CASE OpenFails(r)
  <2> USE <1>4 DEF OpenFails, RpcFails, Degrade, JoinStop, Goto, EndRun,
        request, facts, ownership, shutdown
  <2>1. SlotIsActive' BY DEF SlotIsActive, Safe, TypeOwnership, TypeTask
  <2>2. UnsafePoisons' BY DEF UnsafePoisons, Safe, TypeOwnership, TypeTask
  <2>3. OldBackendsGone' BY ConstantsAssumption DEF OldBackendsGone,
        Untouched, TypeRuntime, TypeStops, TypeTask
  <2>4. ReplacesInOrder' BY DEF ReplacesInOrder, TypeRuntime, TypeStops,
      TypeTask
  <2>5. CancelReaches' BY DEF CancelReaches, BeforeTurn, BeforeBackend,
        Closed, TypeTask, TypeRequest, TypeStops
  <2>6. ResultsTrue' BY DEF ResultsTrue, AfterAck, BeforeTurn, BeforeBackend,
        SubmittedOnce, Errors, SideEffectCodes, UncertainCodes, TypeTask,
        TypeOwnership, TypeRuntime
  <2>7. HandlerFollows' BY DEF HandlerFollows, RpcErrors, TypeTask,
        TypeRequest
  <2>8. SubmittedLocked' BY DEF SubmittedLocked, TypeOwnership, TypeRequest,
        TypeTask
  <2>9. RecordFollowsTurn' BY DEF RecordFollowsTurn, SubmittedOnce,
        BeforeTurn, BeforeBackend, TypeOwnership, TypeRuntime, TypeTask
  <2>10. LastStopIsOwn' /\ RepliesHonest'
    BY DEF LastStopIsOwn, MayExecute, RepliesHonest
  <2>11. QED BY <2>1, <2>2, <2>3, <2>4, <2>5, <2>6, <2>7, <2>8, <2>9,
        <2>10
<1>5. CASE OpenStopped(r)
  <2> USE <1>5 DEF OpenStopped, EndRun, Goto, request, facts, stops, shutdown,
        runtime
  <2>1. SlotIsActive' BY DEF SlotIsActive, Safe, TypeOwnership, TypeTask
  <2>2. UnsafePoisons'
    <3>1. poisoned \/ ~Safe(r)' => poisoned'
      BY DEF Safe, TypeOwnership
    <3>2. QED BY <3>1 DEF UnsafePoisons, Safe, TypeTask
  <2>3. OldBackendsGone' BY ConstantsAssumption DEF OldBackendsGone,
        Untouched, TypeTask, TypeRuntime, TypeStops
  <2>4. ReplacesInOrder' BY DEF ReplacesInOrder, TypeTask, TypeRuntime,
      TypeStops
  <2>5. CancelReaches' BY DEF CancelReaches, BeforeTurn, BeforeBackend,
        Closed, TypeTask, TypeRequest, TypeStops
  <2>6. ResultsTrue' BY DEF ResultsTrue, AfterAck, BeforeTurn, BeforeBackend,
        SubmittedOnce, Errors, SideEffectCodes, UncertainCodes, TurnUnknown,
        ThreadUnknown, TypeTask, TypeOwnership, TypeRuntime
  <2>7. HandlerFollows' BY DEF HandlerFollows, RpcErrors, TurnUnknown,
        ThreadUnknown, TypeTask, TypeRequest
  <2>8. SubmittedLocked' BY DEF SubmittedLocked, TypeOwnership, TypeRequest,
        TypeTask
  <2>9. RecordFollowsTurn' BY DEF RecordFollowsTurn, SubmittedOnce,
        BeforeTurn, BeforeBackend, TypeOwnership, TypeRuntime, TypeTask
  <2>10. LastStopIsOwn' /\ RepliesHonest'
    BY DEF LastStopIsOwn, MayExecute, RepliesHonest
  <2>11. QED BY <2>1, <2>2, <2>3, <2>4, <2>5, <2>6, <2>7, <2>8, <2>9,
        <2>10
<1>6. CASE Submit(r)
  <2> USE <1>6 DEF Submit, Goto, request, ownership, stops, shutdown
  <2>1. SlotIsActive' BY DEF SlotIsActive, Safe, SlotOnTheWay, BeforeTurn,
        BeforeBackend, TypeOwnership, TypeTask
  <2>2. UnsafePoisons' BY DEF UnsafePoisons, Safe, TypeOwnership, TypeTask
  <2>3. ReplacesInOrder' BY DEF ReplacesInOrder, TypeTask, TypeRuntime,
      TypeStops
  <2>4. CancelReaches' BY DEF CancelReaches, BeforeTurn, BeforeBackend,
        Closed, TypeTask, TypeRequest, TypeStops
  <2>5. LastStopIsOwn' BY DEF LastStopIsOwn, MayExecute, InFlight,
        CancelReaches, Closed, BeforeTurn, BeforeBackend, TypeRuntime,
        TypeStops, TypeTask
  <2>6. ResultsTrue' BY DEF ResultsTrue, AfterAck, BeforeTurn, BeforeBackend,
        SubmittedOnce, RpcErrors, TypeRuntime, TypeTask, TypeOwnership
  <2>7. HandlerFollows' BY DEF HandlerFollows, TypeTask, TypeRequest
  <2>8. RepliesHonest' BY DEF RepliesHonest, HandlerFollows, SubmittedOnce,
        BeforeTurn, BeforeBackend, ResultsTrue, TypeRuntime, TypeOwnership,
        TypeRequest
  <2>9. SubmittedLocked' BY DEF SubmittedLocked, LocksOnTheWay, BeforeTurn,
        BeforeBackend, TypeOwnership, TypeRequest, TypeTask
  <2>10. RecordFollowsTurn' BY DEF RecordFollowsTurn, LocksOnTheWay,
        BeforeTurn, BeforeBackend, TypeOwnership, TypeRuntime, TypeTask
  <2>11. OldBackendsGone'
    BY DEF OldBackendsGone, Untouched
  <2>12. QED BY <2>1, <2>2, <2>3, <2>4, <2>5, <2>6, <2>7, <2>8, <2>9,
        <2>10, <2>11
<1>7. CASE Withdraw(r)
  <2> USE <1>7 DEF Withdraw, EndRun, Goto, request, facts, stops, shutdown,
        runtime
  <2>1. SlotIsActive' BY DEF SlotIsActive, Safe, TypeOwnership, TypeTask
  <2>2. UnsafePoisons'
    <3>1. poisoned \/ ~Safe(r)' => poisoned'
      BY DEF Safe, TypeOwnership
    <3>2. QED BY <3>1 DEF UnsafePoisons, Safe, TypeTask
  <2>3. OldBackendsGone' BY ConstantsAssumption DEF OldBackendsGone,
        Untouched, TypeTask, TypeRuntime, TypeStops
  <2>4. ReplacesInOrder' BY DEF ReplacesInOrder, TypeTask, TypeRuntime,
      TypeStops
  <2>5. CancelReaches' BY DEF CancelReaches, BeforeTurn, BeforeBackend,
        Closed, TypeTask, TypeRequest, TypeStops
  <2>6. ResultsTrue' BY DEF ResultsTrue, AfterAck, BeforeTurn, BeforeBackend,
        SubmittedOnce, Errors, SideEffectCodes, UncertainCodes, TypeTask,
        TypeOwnership, TypeRuntime
  <2>7. HandlerFollows' BY DEF HandlerFollows, RpcErrors, TypeTask,
        TypeRequest
  <2>8. SubmittedLocked' BY DEF SubmittedLocked, TypeOwnership, TypeRequest,
        TypeTask
  <2>9. RecordFollowsTurn' BY DEF RecordFollowsTurn, SubmittedOnce,
        BeforeTurn, BeforeBackend, TypeOwnership, TypeRuntime, TypeTask
  <2>10. LastStopIsOwn' /\ RepliesHonest'
    BY DEF LastStopIsOwn, MayExecute, RepliesHonest
  <2>11. QED BY <2>1, <2>2, <2>3, <2>4, <2>5, <2>6, <2>7, <2>8, <2>9,
        <2>10
<1>8. QED BY <1>1, <1>2, <1>3, <1>4, <1>5, <1>6, <1>7 DEF OpenStep

\* The invariant is kept by a run in its turn (_run_turn).
LEMMA SafeTurnStep ==
    ASSUME SInv, IInv', NEW r \in Runs, TurnStep(r)
    PROVE  SInv'
<1> USE DEF SInv, IInv, TypeOK
<1>1. CASE Acknowledged(r)
  <2> USE <1>1 DEF Acknowledged, Goto, request, ownership, stops, shutdown,
        runtime
  <2>1. SlotIsActive' BY DEF SlotIsActive, Safe, TypeTask, TypeOwnership
  <2>2. UnsafePoisons' BY DEF UnsafePoisons, Safe, TypeTask, TypeOwnership
  <2>3. ReplacesInOrder' BY DEF ReplacesInOrder, TypeTask, TypeRuntime,
      TypeStops
  <2>4. CancelReaches' BY DEF CancelReaches, BeforeTurn, BeforeBackend,
        Closed, TypeTask, TypeRequest, TypeStops
  <2>5. ResultsTrue' BY DEF ResultsTrue, AfterAck, BeforeTurn, BeforeBackend,
        RpcErrors, TypeOwnership, TypeTask, TypeRuntime
  <2>6. HandlerFollows' BY DEF HandlerFollows, TypeTask, TypeRequest
  <2>7. OldBackendsGone' /\ LastStopIsOwn' /\ RepliesHonest' /\
      SubmittedLocked' /\ RecordFollowsTurn'
    BY DEF OldBackendsGone, Untouched, LastStopIsOwn, MayExecute,
        RepliesHonest, SubmittedLocked, RecordFollowsTurn
  <2>8. QED BY <2>1, <2>2, <2>3, <2>4, <2>5, <2>6, <2>7
<1>2. CASE SubmitUnknown(r)
  <2> USE <1>2 DEF SubmitUnknown, RpcFails, Degrade, JoinStop, Goto, request,
        facts, ownership, shutdown
  <2>1. SlotIsActive' BY DEF SlotIsActive, Safe, TypeTask, TypeOwnership
  <2>2. UnsafePoisons' BY DEF UnsafePoisons, Safe, TypeTask, TypeOwnership
  <2>3. OldBackendsGone' BY DEF OldBackendsGone, Untouched, TypeRuntime,
        TypeStops, TypeTask
  <2>4. ReplacesInOrder' BY DEF ReplacesInOrder, TypeRuntime, TypeStops,
      TypeTask
  <2>5. CancelReaches' BY DEF CancelReaches, BeforeTurn, BeforeBackend,
        Closed, TypeTask, TypeRequest, TypeStops
  <2>6. ResultsTrue' BY DEF ResultsTrue, AfterAck, BeforeTurn, BeforeBackend,
        TypeTask, TypeOwnership, TypeRuntime
  <2>7. HandlerFollows' BY DEF HandlerFollows, TypeTask, TypeRequest
  <2>8. LastStopIsOwn' /\ RepliesHonest' /\ SubmittedLocked' /\
      RecordFollowsTurn'
    BY DEF LastStopIsOwn, MayExecute, RepliesHonest, SubmittedLocked,
        RecordFollowsTurn
  <2>9. QED BY <2>1, <2>2, <2>3, <2>4, <2>5, <2>6, <2>7, <2>8
<1>3. CASE SubmitStopped(r)
  <2> USE <1>3 DEF SubmitStopped, EndTurn, EndRun, Goto, request, stops,
        shutdown, runtime
  <2>1. SlotIsActive' BY DEF SlotIsActive, Safe, TypeOwnership, TypeTask
  <2>2. UnsafePoisons'
    <3>1. poisoned \/ ~Safe(r)' => poisoned'
      BY DEF Safe, TypeOwnership
    <3>2. QED BY <3>1 DEF UnsafePoisons, Safe, TypeTask
  <2>3. OldBackendsGone' BY ConstantsAssumption DEF OldBackendsGone,
        Untouched, TypeTask, TypeRuntime, TypeStops
  <2>4. ReplacesInOrder' BY DEF ReplacesInOrder, TypeTask, TypeRuntime,
      TypeStops
  <2>5. CancelReaches' BY DEF CancelReaches, BeforeTurn, BeforeBackend,
        Closed, TypeTask, TypeRequest, TypeStops
  <2>6. ResultsTrue' BY DEF ResultsTrue, AfterAck, BeforeTurn, BeforeBackend,
        Errors, SideEffectCodes, UncertainCodes, TurnUnknown, ThreadUnknown,
        TypeTask, TypeOwnership, TypeRuntime
  <2>7. HandlerFollows' BY DEF HandlerFollows, RpcErrors, ResultsTrue,
        TurnUnknown, ThreadUnknown, TypeTask, TypeRequest
  <2>8. SubmittedLocked' BY DEF SubmittedLocked, TypeOwnership, TypeRequest,
        TypeTask
  <2>9. RecordFollowsTurn' BY DEF RecordFollowsTurn, SubmittedLocked,
        UncertainCodes, TypeOwnership, TypeRuntime, TypeTask
  <2>10. LastStopIsOwn' /\ RepliesHonest'
    BY DEF LastStopIsOwn, MayExecute, RepliesHonest
  <2>11. QED BY <2>1, <2>2, <2>3, <2>4, <2>5, <2>6, <2>7, <2>8, <2>9,
        <2>10
<1>4. CASE SubmitRefused(r)
  <2> USE <1>4 DEF SubmitRefused, RpcFails, Degrade, EndTurn, EndRun, Goto,
        request, facts, stops, shutdown
  <2>1. SlotIsActive' BY DEF SlotIsActive, Safe, TypeOwnership, TypeTask
  <2>2. UnsafePoisons'
    <3>1. poisoned \/ ~Safe(r)' => poisoned'
      BY DEF Safe, TypeOwnership
    <3>2. QED BY <3>1 DEF UnsafePoisons, Safe, TypeTask
  <2>3. OldBackendsGone' BY ConstantsAssumption DEF OldBackendsGone,
        Untouched, TypeRuntime, TypeTask, TypeStops
  <2>4. ReplacesInOrder' BY DEF ReplacesInOrder, TypeRuntime, TypeTask,
      TypeStops
  <2>5. CancelReaches' BY DEF CancelReaches, BeforeTurn, BeforeBackend,
        Closed, TypeTask, TypeRequest, TypeStops
  <2>6. ResultsTrue' BY DEF ResultsTrue, AfterAck, BeforeTurn, BeforeBackend,
        Errors, SideEffectCodes, UncertainCodes, TypeTask, TypeOwnership,
        TypeRuntime
  <2>7. HandlerFollows' BY DEF HandlerFollows, RpcErrors, ResultsTrue,
        TypeTask, TypeRequest
  <2>8. SubmittedLocked' BY DEF SubmittedLocked, TypeOwnership, TypeRequest,
        TypeTask
  <2>9. RecordFollowsTurn' BY DEF RecordFollowsTurn, SubmittedLocked,
        UncertainCodes, TypeOwnership, TypeRuntime, TypeTask
  <2>10. LastStopIsOwn' /\ RepliesHonest'
    BY DEF LastStopIsOwn, MayExecute, RepliesHonest
  <2>11. QED BY <2>1, <2>2, <2>3, <2>4, <2>5, <2>6, <2>7, <2>8, <2>9,
        <2>10
<1>5. CASE LateInterrupted(r)
  <2> USE <1>5 DEF LateInterrupted, Interrupted, Degrade, Goto, request,
        facts, ownership, stops, shutdown
  <2>1. SlotIsActive' BY DEF SlotIsActive, Safe, TypeTask, TypeOwnership
  <2>2. UnsafePoisons' BY DEF UnsafePoisons, Safe, TypeTask, TypeOwnership
  <2>3. OldBackendsGone' BY DEF OldBackendsGone, Untouched, TypeRuntime,
        TypeStops, TypeTask
  <2>4. ReplacesInOrder' BY DEF ReplacesInOrder, TypeRuntime, TypeTask,
      TypeStops
  <2>5. CancelReaches' BY DEF CancelReaches, BeforeTurn, BeforeBackend,
        Closed, TypeTask, TypeRequest, TypeStops
  <2>6. ResultsTrue' BY DEF ResultsTrue, AfterAck, BeforeTurn, BeforeBackend,
        RpcErrors, TypeTask, TypeOwnership, TypeRuntime
  <2>7. HandlerFollows' BY DEF HandlerFollows, TypeTask, TypeRequest
  <2>8. LastStopIsOwn' /\ RepliesHonest' /\ SubmittedLocked' /\
      RecordFollowsTurn'
    BY DEF LastStopIsOwn, MayExecute, RepliesHonest, SubmittedLocked,
        RecordFollowsTurn
  <2>9. QED BY <2>1, <2>2, <2>3, <2>4, <2>5, <2>6, <2>7, <2>8
<1>6. CASE TurnEnded(r)
  <2> USE <1>6 DEF TurnEnded, EndTurn, EndRun, Goto, request, facts, stops,
        shutdown, runtime
  <2>1. SlotIsActive' BY DEF SlotIsActive, Safe, TypeOwnership, TypeTask
  <2>2. UnsafePoisons' BY DEF UnsafePoisons, Safe, TypeOwnership, TypeTask
  <2>3. OldBackendsGone' BY ConstantsAssumption DEF OldBackendsGone,
        Untouched, TypeTask, TypeRuntime, TypeStops
  <2>4. ReplacesInOrder' BY DEF ReplacesInOrder, TypeTask, TypeRuntime,
      TypeStops
  <2>5. CancelReaches' BY DEF CancelReaches, BeforeTurn, BeforeBackend,
        Closed, TypeTask, TypeRequest, TypeStops
  <2>6. ResultsTrue' BY DEF ResultsTrue, AfterAck, BeforeTurn, BeforeBackend,
        Errors, SideEffectCodes, UncertainCodes, EvidenceIsTrue, TypeTask,
        TypeOwnership, TypeRuntime
  <2>7. HandlerFollows' BY DEF HandlerFollows, RpcErrors, ResultsTrue,
        TypeTask, TypeRequest
  <2>8. SubmittedLocked' BY DEF SubmittedLocked, TypeOwnership, TypeRequest,
        TypeTask
  <2>9. RecordFollowsTurn' BY DEF RecordFollowsTurn, SubmittedLocked,
        UncertainCodes, TypeOwnership, TypeRuntime, TypeTask
  <2>10. LastStopIsOwn' /\ RepliesHonest'
    BY DEF LastStopIsOwn, MayExecute, RepliesHonest
  <2>11. QED BY <2>1, <2>2, <2>3, <2>4, <2>5, <2>6, <2>7, <2>8, <2>9,
        <2>10
<1>7. CASE TurnFails(r)
  <2> USE <1>7 DEF TurnFails, Goto, request, facts, ownership, stops,
        shutdown, runtime
  <2>1. SlotIsActive' BY DEF SlotIsActive, Safe, TypeTask, TypeOwnership
  <2>2. UnsafePoisons' BY DEF UnsafePoisons, Safe, TypeTask, TypeOwnership
  <2>3. ReplacesInOrder' BY DEF ReplacesInOrder, TypeTask, TypeRuntime,
      TypeStops
  <2>4. CancelReaches' BY DEF CancelReaches, BeforeTurn, BeforeBackend,
        Closed, TypeTask, TypeRequest, TypeStops
  <2>5. ResultsTrue' BY DEF ResultsTrue, AfterAck, BeforeTurn, BeforeBackend,
        RpcErrors, TypeTask, TypeOwnership, TypeRuntime
  <2>6. HandlerFollows' BY DEF HandlerFollows, RpcErrors, TypeTask,
        TypeRequest
  <2>7. OldBackendsGone' /\ LastStopIsOwn' /\ RepliesHonest' /\
      SubmittedLocked' /\ RecordFollowsTurn'
    BY DEF OldBackendsGone, Untouched, LastStopIsOwn, MayExecute,
        RepliesHonest, SubmittedLocked, RecordFollowsTurn
  <2>8. QED BY <2>1, <2>2, <2>3, <2>4, <2>5, <2>6, <2>7
<1>8. CASE FailureInterrupted(r)
  <2> USE <1>8 DEF FailureInterrupted, Interrupted, Degrade, Goto, request,
        facts, ownership, stops, shutdown
  <2>1. SlotIsActive' BY DEF SlotIsActive, Safe, TypeTask, TypeOwnership
  <2>2. UnsafePoisons' BY DEF UnsafePoisons, Safe, TypeTask, TypeOwnership
  <2>3. OldBackendsGone' BY DEF OldBackendsGone, Untouched, TypeRuntime,
        TypeStops, TypeTask
  <2>4. ReplacesInOrder' BY DEF ReplacesInOrder, TypeRuntime, TypeTask,
      TypeStops
  <2>5. CancelReaches' BY DEF CancelReaches, BeforeTurn, BeforeBackend,
        Closed, TypeTask, TypeRequest, TypeStops
  <2>6. ResultsTrue' BY DEF ResultsTrue, AfterAck, BeforeTurn, BeforeBackend,
        TypeTask, TypeOwnership, TypeRuntime
  <2>7. HandlerFollows' BY DEF HandlerFollows, TypeTask, TypeRequest
  <2>8. LastStopIsOwn' /\ RepliesHonest' /\ SubmittedLocked' /\
      RecordFollowsTurn'
    BY DEF LastStopIsOwn, MayExecute, RepliesHonest, SubmittedLocked,
        RecordFollowsTurn
  <2>9. QED BY <2>1, <2>2, <2>3, <2>4, <2>5, <2>6, <2>7, <2>8
<1>9. CASE GraceEnds(r)
  <2> USE <1>9 DEF GraceEnds, JoinStop, Goto, EndTurn, EndRun, request, facts,
        ownership, shutdown, runtime
  <2>1. SlotIsActive' BY DEF SlotIsActive, Safe, TypeOwnership, TypeTask
  <2>2. UnsafePoisons' BY DEF UnsafePoisons, Safe, TypeOwnership, TypeTask
  <2>3. OldBackendsGone' BY ConstantsAssumption DEF OldBackendsGone,
        Untouched, TypeStops, TypeTask, TypeRuntime
  <2>4. ReplacesInOrder' BY DEF ReplacesInOrder, TypeStops, TypeTask,
      TypeRuntime
  <2>5. CancelReaches' BY DEF CancelReaches, BeforeTurn, BeforeBackend,
        Closed, TypeTask, TypeRequest, TypeStops
  <2>6. ResultsTrue' BY DEF ResultsTrue, AfterAck, BeforeTurn, BeforeBackend,
        Errors, SideEffectCodes, UncertainCodes, RpcErrors, TypeTask,
        TypeOwnership, TypeRuntime
  <2>7. HandlerFollows' BY DEF HandlerFollows, RpcErrors, ResultsTrue,
        TypeTask, TypeRequest
  <2>8. SubmittedLocked' BY DEF SubmittedLocked, TypeOwnership, TypeRequest,
        TypeTask
  <2>9. RecordFollowsTurn' BY DEF RecordFollowsTurn, SubmittedLocked,
        UncertainCodes, TypeOwnership, TypeRuntime, TypeTask
  <2>10. LastStopIsOwn' /\ RepliesHonest'
    BY DEF LastStopIsOwn, MayExecute, RepliesHonest
  <2>11. QED BY <2>1, <2>2, <2>3, <2>4, <2>5, <2>6, <2>7, <2>8, <2>9,
        <2>10
<1>10. CASE SettleStopped(r)
  <2> USE <1>10 DEF SettleStopped, EndTurn, EndRun, Goto, request, stops,
        shutdown, runtime
  <2>1. SlotIsActive' BY DEF SlotIsActive, Safe, TypeOwnership, TypeTask
  <2>2. UnsafePoisons'
    <3>1. poisoned \/ ~Safe(r)' => poisoned'
      BY DEF Safe, TypeOwnership
    <3>2. QED BY <3>1 DEF UnsafePoisons, Safe, TypeTask
  <2>3. OldBackendsGone' BY ConstantsAssumption DEF OldBackendsGone,
        Untouched, TypeTask, TypeRuntime, TypeStops
  <2>4. ReplacesInOrder' BY DEF ReplacesInOrder, TypeTask, TypeRuntime,
      TypeStops
  <2>5. CancelReaches' BY DEF CancelReaches, BeforeTurn, BeforeBackend,
        Closed, TypeTask, TypeRequest, TypeStops
  <2>6. ResultsTrue' BY DEF ResultsTrue, AfterAck, BeforeTurn, BeforeBackend,
        Errors, SideEffectCodes, UncertainCodes, TypeTask, TypeOwnership,
        TypeRuntime
  <2>7. HandlerFollows' BY DEF HandlerFollows, RpcErrors, ResultsTrue,
        TypeTask, TypeRequest
  <2>8. SubmittedLocked' BY DEF SubmittedLocked, TypeOwnership, TypeRequest,
        TypeTask
  <2>9. RecordFollowsTurn' BY DEF RecordFollowsTurn, SubmittedLocked,
        UncertainCodes, TypeOwnership, TypeRuntime, TypeTask
  <2>10. LastStopIsOwn' /\ RepliesHonest'
    BY DEF LastStopIsOwn, MayExecute, RepliesHonest
  <2>11. QED BY <2>1, <2>2, <2>3, <2>4, <2>5, <2>6, <2>7, <2>8, <2>9,
        <2>10
<1>11. QED BY <1>1, <1>2, <1>3, <1>4, <1>5, <1>6, <1>7, <1>8, <1>9, <1>10 DEF
    TurnStep

\* The invariant is kept by the event pump of a run.
LEMMA SafePumpStep ==
    ASSUME SInv, IInv', NEW r \in Runs, PumpStep(r)
    PROVE  SInv'
<1> USE DEF SInv, IInv, TypeOK
<1>1. CASE PumpTerminal(r)
  <2> USE <1>1 DEF PumpTerminal, request, ownership, stops, shutdown, runtime
  <2>1. SlotIsActive' BY DEF SlotIsActive, Safe, TypeOwnership, TypeTask
  <2>2. UnsafePoisons' BY DEF UnsafePoisons, Safe, TypeOwnership, TypeTask
  <2>3. ResultsTrue' BY DEF ResultsTrue, AfterAck, BeforeTurn, BeforeBackend,
        EndStates, InFlight, EvidenceIsTrue, TypeOwnership, TypeTask,
        TypeRuntime
  <2>4. RepliesHonest' BY DEF RepliesHonest, TypeOwnership, TypeRequest,
        TypeRuntime
  <2>5. OldBackendsGone' /\ ReplacesInOrder' /\ CancelReaches' /\
      LastStopIsOwn' /\ HandlerFollows' /\
      SubmittedLocked' /\ RecordFollowsTurn'
    BY DEF OldBackendsGone, Untouched, ReplacesInOrder, CancelReaches, Closed,
        LastStopIsOwn, MayExecute, HandlerFollows,
        SubmittedLocked, RecordFollowsTurn
  <2>6. QED BY <2>1, <2>2, <2>3, <2>4, <2>5
<1>2. CASE PumpFails(r)
  <2> USE <1>2 DEF PumpFails, request, facts, ownership, stops, shutdown,
        runtime
  <2>1. ResultsTrue' BY DEF ResultsTrue, AfterAck, BeforeTurn, BeforeBackend,
        RpcErrors, TypeTask, TypeOwnership, TypeRuntime
  <2>2. SlotIsActive' /\ UnsafePoisons' /\ OldBackendsGone' /\
      ReplacesInOrder' /\ CancelReaches' /\
      LastStopIsOwn' /\ HandlerFollows' /\ RepliesHonest' /\
      SubmittedLocked' /\ RecordFollowsTurn'
    BY DEF SlotIsActive, Safe, UnsafePoisons, OldBackendsGone, Untouched,
        ReplacesInOrder, CancelReaches, Closed,
        LastStopIsOwn, MayExecute, HandlerFollows, RepliesHonest,
        SubmittedLocked, RecordFollowsTurn
  <2>3. QED BY <2>1, <2>2
<1>3. QED BY <1>1, <1>2 DEF PumpStep

\* The invariant is kept by the request handler (_supervise).
LEMMA SafeHandlerStep ==
    ASSUME SInv, IInv', NEW r \in Runs, HandlerStep(r)
    PROVE  SInv'
<1> USE DEF SInv, IInv, TypeOK
<1>1. CASE Answer(r)
  <2> USE <1>1 DEF Answer, ErrorReply, facts, ownership, stops, shutdown,
        runtime
  <2>1. CancelReaches' BY DEF CancelReaches, BeforeTurn, BeforeBackend,
        Closed, TypeRequest, TypeStops, TypeTask
  <2>2. ResultsTrue' BY DEF ResultsTrue, AfterAck, BeforeTurn, BeforeBackend,
        RpcErrors, HandlerFollows, Errors, SideEffectCodes, UncertainCodes,
        TurnUnknown, ThreadUnknown, TypeTask, TypeOwnership, TypeRuntime
  <2>3. HandlerFollows' BY DEF HandlerFollows, TypeRequest, TypeTask
  <2>4. RepliesHonest' BY DEF RepliesHonest, HandlerFollows, ResultsTrue,
        Outcomes, FatalCodes, SideEffectCodes, UncertainCodes, TypeTask,
        TypeRequest, TypeOwnership, TypeRuntime
  <2>5. SlotIsActive' /\ UnsafePoisons' /\ OldBackendsGone' /\
      ReplacesInOrder' /\ LastStopIsOwn' /\
      SubmittedLocked' /\ RecordFollowsTurn'
    BY DEF SlotIsActive, Safe, UnsafePoisons, OldBackendsGone, Untouched,
        ReplacesInOrder, LastStopIsOwn, MayExecute,
        SubmittedLocked, RecordFollowsTurn
  <2>6. QED BY <2>1, <2>2, <2>3, <2>4, <2>5
<1>2. CASE StopFatal(r)
  <2> USE <1>2 DEF StopFatal, JoinStop, task, facts, ownership, shutdown,
        runtime
  <2>1. OldBackendsGone' BY DEF OldBackendsGone, Untouched, TypeStops,
        TypeRuntime, TypeTask
  <2>2. ReplacesInOrder' BY DEF ReplacesInOrder, TypeStops, TypeRuntime,
      TypeTask
  <2>3. HandlerFollows' BY DEF HandlerFollows, TypeRequest, TypeTask
  <2>4. SlotIsActive' /\ UnsafePoisons' /\ CancelReaches' /\
      LastStopIsOwn' /\ ResultsTrue' /\
      RepliesHonest' /\ SubmittedLocked' /\ RecordFollowsTurn'
    BY DEF SlotIsActive, Safe, UnsafePoisons, CancelReaches, Closed,
        LastStopIsOwn, MayExecute, ResultsTrue,
        RepliesHonest, SubmittedLocked, RecordFollowsTurn
  <2>5. QED BY <2>1, <2>2, <2>3, <2>4
<1>3. CASE FatalStopped(r)
  <2> USE <1>3 DEF FatalStopped, ErrorReply, facts, ownership, stops,
        shutdown, runtime
  <2>1. CancelReaches' BY DEF CancelReaches, BeforeTurn, BeforeBackend,
        Closed, TypeRequest, TypeStops, TypeTask
  <2>2. ResultsTrue' BY DEF ResultsTrue, AfterAck, BeforeTurn, BeforeBackend,
        RpcErrors, HandlerFollows, Errors, SideEffectCodes, UncertainCodes,
        TurnUnknown, ThreadUnknown, TypeTask, TypeOwnership, TypeRuntime
  <2>3. HandlerFollows' BY DEF HandlerFollows, TypeRequest, TypeTask
  <2>4. RepliesHonest' BY DEF RepliesHonest, HandlerFollows, ResultsTrue,
        Outcomes, FatalCodes, SideEffectCodes, UncertainCodes, TypeTask,
        TypeRequest, TypeOwnership, TypeRuntime
  <2>5. SlotIsActive' /\ UnsafePoisons' /\ OldBackendsGone' /\
      ReplacesInOrder' /\ LastStopIsOwn' /\
      SubmittedLocked' /\ RecordFollowsTurn'
    BY DEF SlotIsActive, Safe, UnsafePoisons, OldBackendsGone, Untouched,
        ReplacesInOrder, LastStopIsOwn, MayExecute,
        SubmittedLocked, RecordFollowsTurn
  <2>6. QED BY <2>1, <2>2, <2>3, <2>4, <2>5
<1>4. CASE DropCancelled(r)
  <2> USE <1>4 DEF DropCancelled, Drop, task, facts, ownership, stops,
        shutdown, runtime
  <2>1. CancelReaches' BY DEF CancelReaches, BeforeTurn, BeforeBackend,
        Closed, TypeRequest, TypeStops, TypeTask
  <2>2. HandlerFollows' BY DEF HandlerFollows, TypeRequest, TypeTask
  <2>3. RepliesHonest' BY DEF RepliesHonest, TypeRequest, TypeOwnership,
        TypeRuntime
  <2>4. SlotIsActive' /\ UnsafePoisons' /\ OldBackendsGone' /\
      ReplacesInOrder' /\ LastStopIsOwn' /\ ResultsTrue' /\
      SubmittedLocked' /\ RecordFollowsTurn'
    BY DEF SlotIsActive, Safe, UnsafePoisons, OldBackendsGone, Untouched,
        ReplacesInOrder, LastStopIsOwn, MayExecute,
        ResultsTrue, SubmittedLocked, RecordFollowsTurn
  <2>5. QED BY <2>1, <2>2, <2>3, <2>4
<1>5. QED BY <1>1, <1>2, <1>3, <1>4 DEF HandlerStep

\* The invariant is kept by the cancellation cleanup (_cancel_run).
LEMMA SafeCleanupStep ==
    ASSUME SInv, IInv', NEW r \in Runs, CleanupStep(r)
    PROVE  SInv'
<1> USE DEF SInv, IInv, TypeOK
<1>1. CASE CleanupBegins(r)
  <2> USE <1>1 DEF CleanupBegins, task, facts, ownership, stops, shutdown,
        runtime
  <2>1. RecordFollowsTurn' BY DEF RecordFollowsTurn, SubmittedLocked,
        TypeRuntime, TypeOwnership, TypeTask
  <2>2. SlotIsActive' /\ UnsafePoisons' /\ OldBackendsGone' /\
      ReplacesInOrder' /\ CancelReaches' /\
      LastStopIsOwn' /\ ResultsTrue' /\ HandlerFollows' /\
      RepliesHonest' /\ SubmittedLocked'
    BY DEF SlotIsActive, Safe, UnsafePoisons, OldBackendsGone, Untouched,
        ReplacesInOrder, CancelReaches, Closed,
        LastStopIsOwn, MayExecute, ResultsTrue, HandlerFollows, RepliesHonest,
        SubmittedLocked
  <2>3. QED BY <2>1, <2>2
<1>2. CASE CleanupInterrupted(r)
  <2> USE <1>2 DEF CleanupInterrupted, Interrupted, Degrade, task, facts,
        ownership, stops, shutdown
  <2>1. OldBackendsGone' BY DEF OldBackendsGone, Untouched, TypeRuntime,
        TypeStops, TypeTask
  <2>2. ReplacesInOrder' BY DEF ReplacesInOrder, TypeRuntime, TypeStops,
      TypeTask
  <2>3. SlotIsActive' /\ UnsafePoisons' /\ CancelReaches' /\
      LastStopIsOwn' /\ ResultsTrue' /\ HandlerFollows' /\
      RepliesHonest' /\ SubmittedLocked' /\ RecordFollowsTurn'
    BY DEF SlotIsActive, Safe, UnsafePoisons, CancelReaches, Closed,
        LastStopIsOwn, MayExecute, ResultsTrue, HandlerFollows, RepliesHonest,
        SubmittedLocked, RecordFollowsTurn
  <2>4. QED BY <2>1, <2>2, <2>3
<1>3. CASE CleanupWaited(r)
  <2> USE <1>3 DEF CleanupWaited, JoinStop, task, facts, ownership, shutdown,
        runtime
  <2>1. OldBackendsGone' BY DEF OldBackendsGone, Untouched, TypeStops,
        TypeRuntime, TypeTask
  <2>2. ReplacesInOrder' BY DEF ReplacesInOrder, TypeStops, TypeRuntime,
      TypeTask
  <2>3. SlotIsActive' /\ UnsafePoisons' /\ CancelReaches' /\
      LastStopIsOwn' /\ ResultsTrue' /\
      HandlerFollows' /\ RepliesHonest' /\ SubmittedLocked' /\
      RecordFollowsTurn'
    BY DEF SlotIsActive, Safe, UnsafePoisons, CancelReaches, Closed,
        LastStopIsOwn, MayExecute, ResultsTrue,
        HandlerFollows, RepliesHonest, SubmittedLocked, RecordFollowsTurn
  <2>4. QED BY <2>1, <2>2, <2>3
<1>4. CASE CleanupStopped(r)
  <2> USE <1>4 DEF CleanupStopped, SettleStop, task, stops, shutdown, runtime
  <2>1. SlotIsActive' BY DEF SlotIsActive, Safe, TypeOwnership, TypeTask
  <2>2. UnsafePoisons' BY DEF UnsafePoisons, Safe, TypeOwnership, TypeTask
  <2>3. SubmittedLocked' BY DEF SubmittedLocked, TypeOwnership, TypeRequest,
        TypeTask
  <2>4. OldBackendsGone' /\ ReplacesInOrder' /\ CancelReaches' /\
      LastStopIsOwn' /\ ResultsTrue' /\
      HandlerFollows' /\ RepliesHonest' /\ RecordFollowsTurn'
    BY DEF OldBackendsGone, Untouched, ReplacesInOrder, CancelReaches, Closed,
        LastStopIsOwn, MayExecute, ResultsTrue,
        HandlerFollows, RepliesHonest, RecordFollowsTurn
  <2>5. QED BY <2>1, <2>2, <2>3, <2>4
<1>5. CASE CleanupOverrun(r)
  <2> USE <1>5 DEF CleanupOverrun, task, facts, ownership, stops, shutdown,
        runtime
  <2>1. SlotIsActive' /\ UnsafePoisons' /\ OldBackendsGone' /\
      ReplacesInOrder' /\ CancelReaches' /\
      LastStopIsOwn' /\ ResultsTrue' /\ HandlerFollows' /\
      RepliesHonest' /\ SubmittedLocked' /\ RecordFollowsTurn'
    BY DEF SlotIsActive, Safe, UnsafePoisons, OldBackendsGone, Untouched,
        ReplacesInOrder, CancelReaches, Closed,
        LastStopIsOwn, MayExecute, ResultsTrue, HandlerFollows, RepliesHonest,
        SubmittedLocked, RecordFollowsTurn
  <2>2. QED BY <2>1
<1>6. QED BY <1>1, <1>2, <1>3, <1>4, <1>5 DEF CleanupStep

\* The invariant is kept by the stop of a backend (_close_backend).
LEMMA SafeCloseStep ==
    ASSUME SInv, IInv', NEW b \in Backends, CloseStep(b)
    PROVE  SInv'
<1> USE DEF SInv, IInv, TypeOK
<1>1. CASE CloseBegins(b)
  <2> USE <1>1 DEF CloseBegins, request, task, facts, shutdown
  <2>1. UnsafePoisons' BY DEF UnsafePoisons, Safe, TypeOwnership, TypeTask
  <2>2. OldBackendsGone' BY DEF OldBackendsGone, Untouched, TypeRuntime,
        TypeStops, TypeTask
  <2>3. ReplacesInOrder' BY DEF ReplacesInOrder, TypeRuntime, TypeStops,
      TypeTask
  <2>4. SlotIsActive' /\ CancelReaches' /\ LastStopIsOwn' /\
      ResultsTrue' /\ HandlerFollows' /\ RepliesHonest' /\
      SubmittedLocked' /\ RecordFollowsTurn'
    BY DEF SlotIsActive, Safe, CancelReaches, Closed, LastStopIsOwn,
        MayExecute, ResultsTrue, HandlerFollows, RepliesHonest,
        SubmittedLocked, RecordFollowsTurn
  <2>5. QED BY <2>1, <2>2, <2>3, <2>4
<1>2. CASE CloseConfirmed(b)
  <2> USE <1>2 DEF CloseConfirmed, LoseTurns, request, task, facts, ownership,
        shutdown
  <2>1. OldBackendsGone' BY DEF OldBackendsGone, Untouched, TypeRuntime,
        TypeStops, TypeTask
  <2>2. ReplacesInOrder' BY DEF ReplacesInOrder, TypeRuntime, TypeStops,
      TypeTask
  <2>3. LastStopIsOwn' BY DEF LastStopIsOwn, MayExecute, InFlight,
        TypeRuntime, TypeStops, TypeTask
  <2>4. ResultsTrue' BY DEF ResultsTrue, AfterAck, BeforeTurn, BeforeBackend,
        EndStates, InFlight, EvidenceIsTrue, TypeRuntime, TypeOwnership,
        TypeTask
  <2>5. RepliesHonest' BY DEF RepliesHonest, InFlight, EndStates, TypeRuntime,
        TypeOwnership, TypeRequest
  <2>6. SlotIsActive' /\ UnsafePoisons' /\ CancelReaches' /\
      HandlerFollows' /\ SubmittedLocked' /\ RecordFollowsTurn'
    BY DEF SlotIsActive, Safe, UnsafePoisons, CancelReaches, Closed,
        HandlerFollows, SubmittedLocked, RecordFollowsTurn
  <2>7. QED BY <2>1, <2>2, <2>3, <2>4, <2>5, <2>6
<1>3. CASE CloseRaises(b)
  <2> USE <1>3 DEF CloseRaises, CloseFailed, request, task, facts, shutdown
  <2>1. UnsafePoisons' BY DEF UnsafePoisons, Safe, TypeOwnership, TypeTask
  <2>2. OldBackendsGone' BY DEF OldBackendsGone, Untouched, TypeRuntime,
        TypeStops, TypeTask
  <2>3. ReplacesInOrder' BY DEF ReplacesInOrder, TypeRuntime, TypeStops,
      TypeTask
  <2>4. SlotIsActive' /\ CancelReaches' /\ LastStopIsOwn' /\
      ResultsTrue' /\ HandlerFollows' /\ RepliesHonest' /\
      SubmittedLocked' /\ RecordFollowsTurn'
    BY DEF SlotIsActive, Safe, CancelReaches, Closed, LastStopIsOwn,
        MayExecute, ResultsTrue, HandlerFollows, RepliesHonest,
        SubmittedLocked, RecordFollowsTurn
  <2>5. QED BY <2>1, <2>2, <2>3, <2>4
<1>4. CASE CloseTimesOut(b)
  <2> USE <1>4 DEF CloseTimesOut, CloseFailed, request, task, facts, shutdown
  <2>1. UnsafePoisons' BY DEF UnsafePoisons, Safe, TypeOwnership, TypeTask
  <2>2. OldBackendsGone' BY DEF OldBackendsGone, Untouched, TypeStops,
        TypeRuntime, TypeTask
  <2>3. ReplacesInOrder' BY DEF ReplacesInOrder, TypeStops, TypeRuntime,
      TypeTask
  <2>4. SlotIsActive' /\ CancelReaches' /\ LastStopIsOwn' /\
      ResultsTrue' /\ HandlerFollows' /\ RepliesHonest' /\
      SubmittedLocked' /\ RecordFollowsTurn'
    BY DEF SlotIsActive, Safe, CancelReaches, Closed, LastStopIsOwn,
        MayExecute, ResultsTrue, HandlerFollows, RepliesHonest,
        SubmittedLocked, RecordFollowsTurn
  <2>5. QED BY <2>1, <2>2, <2>3, <2>4
<1>5. QED BY <1>1, <1>2, <1>3, <1>4 DEF CloseStep

\* The invariant is kept by the shutdown task (_aclose_inner).
LEMMA SafeCloserStep ==
    ASSUME SInv, IInv', CloserStep
    PROVE  SInv'
<1> USE DEF SInv, IInv, TypeOK
<1>1. CASE CloserInterrupted
  <2> USE <1>1 DEF CloserInterrupted, Interrupted, Degrade, request, task,
        facts, ownership, stops
  <2>1. OldBackendsGone' BY DEF OldBackendsGone, Untouched, TypeRuntime,
        TypeStops, TypeTask
  <2>2. ReplacesInOrder' BY DEF ReplacesInOrder, TypeRuntime, TypeStops,
      TypeTask
  <2>3. CancelReaches' BY DEF CancelReaches, BeforeTurn, BeforeBackend,
        Closed, TypeStops, TypeRequest, TypeTask
  <2>4. LastStopIsOwn' BY DEF LastStopIsOwn, MayExecute, InFlight, TypeStops,
        TypeRuntime, TypeTask
  <2>5. SlotIsActive' /\ UnsafePoisons' /\ ResultsTrue' /\
      HandlerFollows' /\ RepliesHonest' /\ SubmittedLocked' /\
      RecordFollowsTurn'
    BY DEF SlotIsActive, Safe, UnsafePoisons, ResultsTrue, HandlerFollows,
        RepliesHonest, SubmittedLocked, RecordFollowsTurn
  <2>6. QED BY <2>1, <2>2, <2>3, <2>4, <2>5
<1>2. CASE CloserWaited
  <2> USE <1>2 DEF CloserWaited, JoinStop, FinalStop, request, task, facts,
        ownership, runtime
  <2>1. OldBackendsGone' BY DEF OldBackendsGone, Untouched, TypeStops,
        TypeRuntime, TypeTask
  <2>2. ReplacesInOrder' BY DEF ReplacesInOrder, TypeStops, TypeRuntime,
      TypeTask
  <2>3. CancelReaches' BY DEF CancelReaches, BeforeTurn, BeforeBackend,
        Closed, TypeStops, TypeRequest, TypeTask
  <2>4. LastStopIsOwn' BY DEF LastStopIsOwn, MayExecute, InFlight,
        TurnHasChild, OldBackendsGone, Untouched, StoppedForGood, TypeStops,
        TypeRuntime, TypeTask
  <2>5. SlotIsActive' /\ UnsafePoisons' /\ ResultsTrue' /\
      HandlerFollows' /\ RepliesHonest' /\
      SubmittedLocked' /\ RecordFollowsTurn'
    BY DEF SlotIsActive, Safe, UnsafePoisons, ResultsTrue, HandlerFollows,
        RepliesHonest, SubmittedLocked,
        RecordFollowsTurn
  <2>6. QED BY <2>1, <2>2, <2>3, <2>4, <2>5
<1>3. CASE CloserRunStopped
  <2> USE <1>3 DEF CloserRunStopped, SettleStop, FinalStop, JoinStop, request,
        task, runtime
  <2>1. SlotIsActive' BY DEF SlotIsActive, Safe, TypeOwnership, TypeTask
  <2>2. UnsafePoisons' BY DEF UnsafePoisons, Safe, TypeOwnership, TypeTask
  <2>3. OldBackendsGone' BY DEF OldBackendsGone, Untouched, TypeStops,
        TypeRuntime, TypeTask
  <2>4. ReplacesInOrder' BY DEF ReplacesInOrder, TypeStops, TypeRuntime,
      TypeTask
  <2>5. CancelReaches' BY DEF CancelReaches, BeforeTurn, BeforeBackend,
        Closed, TypeStops, TypeRequest, TypeTask
  <2>6. LastStopIsOwn' BY DEF LastStopIsOwn, MayExecute, InFlight,
        TurnHasChild, OldBackendsGone, Untouched, StoppedForGood, TypeStops,
        TypeRuntime, TypeTask
  <2>7. SubmittedLocked' BY DEF SubmittedLocked, TypeOwnership, TypeRequest,
        TypeTask
  <2>8. ResultsTrue' /\ HandlerFollows' /\
      RepliesHonest' /\ RecordFollowsTurn'
    BY DEF ResultsTrue, HandlerFollows, RepliesHonest,
        RecordFollowsTurn
  <2>9. QED BY <2>1, <2>2, <2>3, <2>4, <2>5, <2>6, <2>7, <2>8
<1>4. CASE CloserReports
  <2> USE <1>4 DEF CloserReports, request, task, facts, ownership, stops,
        runtime
  <2>1. CancelReaches' BY DEF CancelReaches, BeforeTurn, BeforeBackend,
        Closed, TypeStops, TypeRequest, TypeTask
  <2>2. LastStopIsOwn' BY DEF LastStopIsOwn, MayExecute, InFlight, TypeStops,
        TypeRuntime, TypeTask
  <2>3. SlotIsActive' /\ UnsafePoisons' /\ OldBackendsGone' /\
      ReplacesInOrder' /\ ResultsTrue' /\ HandlerFollows' /\
      RepliesHonest' /\ SubmittedLocked' /\ RecordFollowsTurn'
    BY DEF SlotIsActive, Safe, UnsafePoisons, OldBackendsGone, Untouched,
        ReplacesInOrder, ResultsTrue, HandlerFollows,
        RepliesHonest, SubmittedLocked, RecordFollowsTurn
  <2>4. QED BY <2>1, <2>2, <2>3
<1>5. CASE CloserOverrun
  <2> USE <1>5 DEF CloserOverrun, request, task, facts, ownership, stops,
        runtime
  <2>1. CancelReaches' BY DEF CancelReaches, BeforeTurn, BeforeBackend,
        Closed, TypeStops, TypeRequest, TypeTask
  <2>2. LastStopIsOwn' BY DEF LastStopIsOwn, MayExecute, InFlight, TypeStops,
        TypeRuntime, TypeTask
  <2>3. SlotIsActive' /\ UnsafePoisons' /\ OldBackendsGone' /\
      ReplacesInOrder' /\ ResultsTrue' /\ HandlerFollows' /\
      RepliesHonest' /\ SubmittedLocked' /\ RecordFollowsTurn'
    BY DEF SlotIsActive, Safe, UnsafePoisons, OldBackendsGone, Untouched,
        ReplacesInOrder, ResultsTrue, HandlerFollows,
        RepliesHonest, SubmittedLocked, RecordFollowsTurn
  <2>4. QED BY <2>1, <2>2, <2>3
<1>6. CASE CloserBegins
  <2> USE <1>6 DEF CloserBegins, FinalStop, JoinStop, request, task, facts,
        ownership, runtime
  <2>1. OldBackendsGone' BY DEF OldBackendsGone, Untouched, TypeStops,
        TypeRuntime, TypeTask
  <2>2. ReplacesInOrder' BY DEF ReplacesInOrder, TypeStops, TypeRuntime,
      TypeTask
  <2>3. CancelReaches' BY ConstantsAssumption DEF CancelReaches, BeforeTurn,
        BeforeBackend, Unfinished, SlotOnTheWay, SlotIsActive,
        TypeRequest, TypeStops, TypeTask
  <2>4. LastStopIsOwn' BY DEF LastStopIsOwn, MayExecute, InFlight,
        TurnHasChild, OldBackendsGone, Untouched, StoppedForGood, TypeStops,
        TypeRuntime, TypeTask
  <2>5. RecordFollowsTurn' BY DEF RecordFollowsTurn, SubmittedLocked,
        Unfinished, TypeRuntime, TypeOwnership, TypeTask
  <2>6. SlotIsActive' /\ UnsafePoisons' /\ ResultsTrue' /\
      HandlerFollows' /\ RepliesHonest' /\ SubmittedLocked'
    BY DEF SlotIsActive, Safe, UnsafePoisons, ResultsTrue, HandlerFollows,
        RepliesHonest, SubmittedLocked
  <2>7. QED BY <2>1, <2>2, <2>3, <2>4, <2>5, <2>6
<1>7. QED BY <1>1, <1>2, <1>3, <1>4, <1>5, <1>6 DEF CloserStep

\* The invariant is kept by the start of shutdown and by the runtimes.
LEMMA SafeShutdownAndRuntime ==
    ASSUME SInv, IInv', Aclose \/ RuntimeStep \/ AtRest \/ UNCHANGED vars
    PROVE  SInv'
<1> USE DEF SInv, IInv, TypeOK
<1>1. CASE Aclose
  <2> USE <1>1 DEF Aclose, request, task, facts, ownership, stops, runtime
  <2>1. CancelReaches' BY DEF CancelReaches
  <2>2. SlotIsActive' /\ UnsafePoisons' /\ OldBackendsGone' /\
      ReplacesInOrder' /\ LastStopIsOwn' /\ ResultsTrue' /\
      HandlerFollows' /\ RepliesHonest' /\ SubmittedLocked' /\
      RecordFollowsTurn'
    BY DEF SlotIsActive, Safe, UnsafePoisons, OldBackendsGone, Untouched,
        ReplacesInOrder, LastStopIsOwn, ResultsTrue, HandlerFollows,
        RepliesHonest, SubmittedLocked, RecordFollowsTurn
  <2>3. QED BY <2>1, <2>2
<1>2. ASSUME NEW r \in Runs, TurnAccepted(r) PROVE SInv'
  <2> USE <1>2 DEF TurnAccepted, request, task, facts, ownership, stops,
        shutdown
  <2>1. LastStopIsOwn' BY DEF LastStopIsOwn, MayExecute, InFlight,
        TypeRuntime, TypeStops, TypeTask
  <2>2. ResultsTrue' BY DEF ResultsTrue, AfterAck, BeforeTurn, BeforeBackend,
        EndStates, InFlight, EvidenceIsTrue, TypeRuntime, TypeOwnership,
        TypeTask
  <2>3. RepliesHonest' BY DEF RepliesHonest, InFlight, EndStates, TypeRuntime,
        TypeOwnership, TypeRequest
  <2>4. SlotIsActive' /\ UnsafePoisons' /\ OldBackendsGone' /\
      ReplacesInOrder' /\ CancelReaches' /\
      HandlerFollows' /\ SubmittedLocked' /\ RecordFollowsTurn'
    BY DEF SlotIsActive, Safe, UnsafePoisons, OldBackendsGone, Untouched,
        ReplacesInOrder, CancelReaches, Closed,
        HandlerFollows, SubmittedLocked, RecordFollowsTurn
  <2>5. QED BY <2>1, <2>2, <2>3, <2>4
<1>3. ASSUME NEW r \in Runs, TurnEnds(r) PROVE SInv'
  <2> USE <1>3 DEF TurnEnds, request, task, facts, ownership, stops, shutdown
  <2>1. LastStopIsOwn' BY DEF LastStopIsOwn, MayExecute, InFlight,
        TypeRuntime, TypeStops, TypeTask
  <2>2. ResultsTrue' BY DEF ResultsTrue, AfterAck, BeforeTurn, BeforeBackend,
        EndStates, InFlight, EvidenceIsTrue, TypeRuntime, TypeOwnership,
        TypeTask
  <2>3. RepliesHonest' BY DEF RepliesHonest, InFlight, EndStates, TypeRuntime,
        TypeOwnership, TypeRequest
  <2>4. SlotIsActive' /\ UnsafePoisons' /\ OldBackendsGone' /\
      ReplacesInOrder' /\ CancelReaches' /\
      HandlerFollows' /\ SubmittedLocked' /\ RecordFollowsTurn'
    BY DEF SlotIsActive, Safe, UnsafePoisons, OldBackendsGone, Untouched,
        ReplacesInOrder, CancelReaches, Closed,
        HandlerFollows, SubmittedLocked, RecordFollowsTurn
  <2>5. QED BY <2>1, <2>2, <2>3, <2>4
<1>4. ASSUME NEW b \in Backends, ChildDies(b) PROVE SInv'
  <2> USE <1>4 DEF ChildDies, LoseTurns, request, task, facts, ownership,
        stops, shutdown
  <2>1. OldBackendsGone' BY DEF OldBackendsGone, Untouched, TypeRuntime,
        TypeStops, TypeTask
  <2>2. LastStopIsOwn' BY DEF LastStopIsOwn, MayExecute, InFlight,
        TypeRuntime, TypeStops, TypeTask
  <2>3. ResultsTrue' BY DEF ResultsTrue, AfterAck, BeforeTurn, BeforeBackend,
        EndStates, InFlight, EvidenceIsTrue, TypeRuntime, TypeOwnership,
        TypeTask
  <2>4. RepliesHonest' BY DEF RepliesHonest, InFlight, EndStates, TypeRuntime,
        TypeOwnership, TypeRequest
  <2>5. SlotIsActive' /\ UnsafePoisons' /\ ReplacesInOrder' /\
      CancelReaches' /\ HandlerFollows' /\
      SubmittedLocked' /\ RecordFollowsTurn'
    BY DEF SlotIsActive, Safe, UnsafePoisons, ReplacesInOrder, CancelReaches,
        Closed, HandlerFollows, SubmittedLocked,
        RecordFollowsTurn
  <2>6. QED BY <2>1, <2>2, <2>3, <2>4, <2>5
<1>5. ASSUME NEW b \in Backends, DeathNoticed(b) PROVE SInv'
  <2> USE <1>5 DEF DeathNoticed, Degrade, request, task, facts, ownership,
        stops, shutdown
  <2>1. OldBackendsGone' BY DEF OldBackendsGone, Untouched, TypeRuntime,
        TypeStops, TypeTask
  <2>2. ReplacesInOrder' BY DEF ReplacesInOrder, TypeRuntime, TypeStops,
      TypeTask
  <2>3. SlotIsActive' /\ UnsafePoisons' /\ CancelReaches' /\
      LastStopIsOwn' /\ ResultsTrue' /\ HandlerFollows' /\
      RepliesHonest' /\ SubmittedLocked' /\ RecordFollowsTurn'
    BY DEF SlotIsActive, Safe, UnsafePoisons, CancelReaches, Closed,
        LastStopIsOwn, MayExecute, ResultsTrue, HandlerFollows, RepliesHonest,
        SubmittedLocked, RecordFollowsTurn
  <2>4. QED BY <2>1, <2>2, <2>3
<1>6. ASSUME NEW b \in Backends, UnsupportedRequest(b) PROVE SInv'
  <2> USE <1>6 DEF UnsupportedRequest, Degrade, request, task, facts,
        ownership, stops, shutdown
  <2>1. OldBackendsGone' BY DEF OldBackendsGone, Untouched, TypeRuntime,
        TypeStops, TypeTask
  <2>2. ReplacesInOrder' BY DEF ReplacesInOrder, TypeRuntime, TypeStops,
      TypeTask
  <2>3. SlotIsActive' /\ UnsafePoisons' /\ CancelReaches' /\
      LastStopIsOwn' /\ ResultsTrue' /\ HandlerFollows' /\
      RepliesHonest' /\ SubmittedLocked' /\ RecordFollowsTurn'
    BY DEF SlotIsActive, Safe, UnsafePoisons, CancelReaches, Closed,
        LastStopIsOwn, MayExecute, ResultsTrue, HandlerFollows, RepliesHonest,
        SubmittedLocked, RecordFollowsTurn
  <2>4. QED BY <2>1, <2>2, <2>3
<1>7. CASE AtRest \/ UNCHANGED vars
  <2> USE <1>7 DEF AtRest, vars, request, task, facts, ownership, stops,
      shutdown, runtime
  <2>1. SlotIsActive' /\ UnsafePoisons' /\ OldBackendsGone' /\ ReplacesInOrder'
    BY DEF SlotIsActive, UnsafePoisons, Safe, OldBackendsGone, Untouched,
        ReplacesInOrder
  <2>2. CancelReaches' /\ LastStopIsOwn' /\ ResultsTrue'
    BY DEF CancelReaches, Closed, LastStopIsOwn,
        MayExecute, ResultsTrue
  <2>3. HandlerFollows' /\ RepliesHonest' /\ SubmittedLocked' /\
      RecordFollowsTurn'
    BY DEF HandlerFollows, RepliesHonest, SubmittedLocked, RecordFollowsTurn
  <2>4. QED BY <2>1, <2>2, <2>3
<1>8. QED BY <1>1, <1>2, <1>3, <1>4, <1>5, <1>6, <1>7 DEF RuntimeStep

-----------------------------------------------------------------------------
(* The theorems *)

\* The invariant holds initially.
LEMMA SafeInit == Init => SInv
<1> SUFFICES ASSUME Init PROVE SInv
  OBVIOUS
<1>1. IInv BY InvInit
<1> USE DEF Init
<1>2. SlotIsActive /\ UnsafePoisons /\ OldBackendsGone /\ ReplacesInOrder
  BY DEF SlotIsActive, UnsafePoisons, Safe, OldBackendsGone, Untouched,
      ReplacesInOrder
<1>3. CancelReaches /\ LastStopIsOwn
  BY DEF CancelReaches, Closed, BeforeTurn,
      BeforeBackend, LastStopIsOwn
<1>4. ResultsTrue /\ HandlerFollows /\ RepliesHonest
  BY DEF ResultsTrue, AfterAck, HandlerFollows, RepliesHonest
<1>5. SubmittedLocked /\ RecordFollowsTurn
  BY DEF SubmittedLocked, NoCall, RecordFollowsTurn
<1>6. QED BY <1>1, <1>2, <1>3, <1>4, <1>5 DEF SInv

\* The invariant is kept by every step.
LEMMA SafeNext == SInv /\ [Next]_vars => SInv'
<1> SUFFICES ASSUME SInv, [Next]_vars PROVE SInv'
  OBVIOUS
<1>1. IInv' BY InvNext DEF SInv
<1>2. ASSUME NEW r \in Runs,
             \/ ClientStep(r) \/ GetBackendStep(r) \/ OpenStep(r)
             \/ TurnStep(r) \/ PumpStep(r) \/ HandlerStep(r) \/ CleanupStep(r)
      PROVE  SInv'
  BY <1>1, <1>2, SafeClientStep, SafeGetBackendStep, SafeOpenStep,
     SafeTurnStep, SafePumpStep, SafeHandlerStep, SafeCleanupStep
<1>3. ASSUME NEW b \in Backends, CloseStep(b) PROVE SInv'
  BY <1>1, <1>3, SafeCloseStep
<1>4. QED BY <1>1, <1>2, <1>3, SafeCloserStep, SafeShutdownAndRuntime DEF Next

\* The invariant holds of every reachable state.
LEMMA SafeAlways == Spec => []SInv
BY SafeInit, SafeNext, PTL DEF Spec

\* A runtime child that is alive is that of the current backend
\* (_replace_backend makes a new one only after a confirmed stop), so there is
\* never a second one.
THEOREM RuntimeAlone == Spec => []OneRuntime
<1>1. SInv => OneRuntime BY LiveIsCurrent DEF OneRuntime
<1>2. QED BY <1>1, SafeAlways, PTL

\* An answer is only given to a call whose turn has ended, or by a bridge that
\* refuses all further work (_settle_lease poisons when it retains a lease).
THEOREM AnswersSettle == Spec => []AnswerSettles
<1>1. SInv => AnswerSettles
  BY DEF SInv, IInv, HandlerFollows, UnsafePoisons, Safe, MayExecute,
      EvidenceIsTrue, EndStates, InFlight, SubmittedOnce, AnswerSettles
<1>2. QED BY <1>1, SafeAlways, PTL

\* What the client is told is true of the turn: the success was read, and an
\* error without may_have_side_effects never reached the runtime.
THEOREM AnswersHonest == Spec => []RepliesHonest
BY SafeAlways, PTL DEF SInv

\* A record says ACTIVE only under the lock of a thread whose run has submitted
\* its turn: every way out of _run_turn puts it back.
THEOREM RecordsFollow == Spec => []RecordFollowsTurn
BY SafeAlways, PTL DEF SInv

\* Only the end of the last stop makes a shutdown healthy.
LEMMA OnlyReportIsHealthy ==
    ASSUME [Next]_vars, closer # "healthy", closer' = "healthy"
    PROVE  CloserReports
<1>1. ASSUME NEW r \in Runs, ClientStep(r) PROVE closer' = closer
  BY <1>1 DEF ClientStep, Refuse, Admit, ClientCancels, ClientCancelsStop,
      Drop, shutdown
<1>2. ASSUME NEW r \in Runs, GetBackendStep(r) PROVE closer' = closer
  BY <1>2 DEF GetBackendStep, Reject, Begin, BeginUnusable, Replace,
      ReplaceFails, Started, StartFails, StartUnconfirmed, shutdown
<1>3. ASSUME NEW r \in Runs, OpenStep(r) PROVE closer' = closer
  BY <1>3 DEF OpenStep, Prepared, PrepareFails, Opened, OpenFails,
      OpenStopped, Submit, Withdraw, shutdown
<1>4. ASSUME NEW r \in Runs, TurnStep(r) PROVE closer' = closer
  BY <1>4 DEF TurnStep, Acknowledged, SubmitUnknown, SubmitStopped,
      SubmitRefused, LateInterrupted, TurnEnded, TurnFails,
      FailureInterrupted, GraceEnds, SettleStopped, shutdown
<1>5. ASSUME NEW r \in Runs, PumpStep(r) PROVE closer' = closer
  BY <1>5 DEF PumpStep, PumpTerminal, PumpFails, shutdown
<1>6. ASSUME NEW r \in Runs, HandlerStep(r) PROVE closer' = closer
  BY <1>6 DEF HandlerStep, Answer, StopFatal, FatalStopped, DropCancelled,
      Drop, shutdown
<1>7. ASSUME NEW r \in Runs, CleanupStep(r) PROVE closer' = closer
  BY <1>7 DEF CleanupStep, CleanupBegins, CleanupInterrupted, CleanupWaited,
      CleanupStopped, CleanupOverrun, shutdown
<1>8. ASSUME NEW b \in Backends, CloseStep(b) PROVE closer' = closer
  BY <1>8 DEF CloseStep, CloseBegins, CloseConfirmed, CloseRaises,
      CloseTimesOut, CloseFailed, shutdown
<1>9. ASSUME RuntimeStep \/ AtRest \/ UNCHANGED vars PROVE closer' = closer
  BY <1>9 DEF RuntimeStep, TurnAccepted, TurnEnds, ChildDies, DeathNoticed,
      UnsupportedRequest, AtRest, vars, shutdown
<1>10. ASSUME Aclose \/ (CloserStep /\ ~CloserReports) PROVE closer' # "healthy"
  BY <1>10 DEF Aclose, CloserStep, CloserBegins, CloserInterrupted,
      CloserWaited,
      CloserRunStopped, CloserOverrun, FinalStop, shutdown
<1>11. QED BY <1>1, <1>2, <1>3, <1>4, <1>5, <1>6, <1>7, <1>8, <1>9, <1>10 DEF
    Next

\* A shutdown that is reported healthy has stopped the runtime whose turn might
\* have been executing (_aclose_inner stops the current backend last).
THEOREM HealthyIsQuiet == Spec => HealthyLeavesNoTurn
<1>1. SInv /\ [Next]_vars => [closer # "healthy" /\ closer' = "healthy" =>
                                \A r \in Runs : wire'[r] \notin InFlight]_vars
  <2> SUFFICES ASSUME SInv, [Next]_vars, NEW r \in Runs,
                      closer # "healthy", closer' = "healthy"
               PROVE  wire'[r] \notin InFlight
    OBVIOUS
  <2>1. CloserReports BY OnlyReportIsHealthy
  <2>2. closer = "stopping" /\ StopConfirmed(<<closer, NoRun>>, closerStop)
    BY <2>1 DEF CloserReports
  <2>3. ~MayExecute(r)
    BY <2>2, ConstantsAssumption
    DEF SInv, IInv, LastStopIsOwn, TurnHasChild, StoppedForGood, StopConfirmed
  <2>4. QED BY <2>1, <2>3 DEF CloserReports, MayExecute, runtime
<1>2. QED BY <1>1, SafeAlways, PTL DEF Spec, HealthyLeavesNoTurn

-----------------------------------------------------------------------------
(* What a step starts and ends.  Of all the actions only two show in the   *)
(* slot by what they start: a call is admitted, and a turn is submitted.   *)
(* Any other action can only end what there is: lose a turn, leave the     *)
(* slot, refuse work (OnlyEnds).  And it does one of these at a time.      *)

\* A step neither admits a call nor sends a turn.
StartsNothing ==
    /\ active' = active
    /\ \A r \in Runs :
        /\ pc'[r] = "idle" <=> pc[r] = "idle"
        /\ wire'[r] = "idle" <=> wire[r] = "idle"

\* A step ends turns, or it leaves the slot or refuses work, never both.
OnlyEnds ==
    /\ terminal \subseteq terminal' /\ (poisoned => poisoned')
    /\ \A r \in Runs : MayExecute(r)' => MayExecute(r)
    /\ \/ \A r \in Runs : MayExecute(r) => MayExecute(r)'
       \/ terminal' = terminal /\ poisoned' = poisoned

Ends == StartsNothing /\ OnlyEnds

\* Nothing is started in the slot by calls and cancellations of the client,
\* an admission apart.
LEMMA EndsClientStep ==
    ASSUME SInv, NEW r \in Runs, ClientStep(r), ~Admit(r)
    PROVE  Ends
<1> USE DEF SInv, IInv, TypeOK
<1>1. CASE Refuse(r)
  BY <1>1 DEF Refuse, task, facts, ownership, stops, shutdown, runtime, Ends,
      StartsNothing, OnlyEnds, MayExecute
<1>2. CASE ClientCancels(r)
  BY <1>2 DEF ClientCancels, Drop, task, facts, ownership, stops, shutdown,
      runtime, Ends, StartsNothing, OnlyEnds, MayExecute
<1>3. CASE ClientCancelsStop(r)
  BY <1>3 DEF ClientCancelsStop, task, facts, ownership, stops, shutdown,
      runtime, Ends, StartsNothing, OnlyEnds, MayExecute
<1>4. QED BY <1>1, <1>2, <1>3 DEF ClientStep

\* Nothing is started in the slot by a run that gets its backend (_get_backend).
LEMMA EndsGetBackendStep ==
    ASSUME SInv, NEW r \in Runs, GetBackendStep(r)
    PROVE  Ends
<1> USE DEF SInv, IInv, TypeOK
<1>1. CASE Reject(r)
  BY <1>1 DEF Reject, EndRun, Goto, request, facts, stops, shutdown, runtime,
      Ends, StartsNothing, OnlyEnds, MayExecute, TypeTask,
      TypeOwnership
<1>2. CASE Begin(r)
  BY <1>2 DEF Begin, GetBackend, SpawnChild, JoinStop, Goto, request, facts,
      shutdown, Ends, StartsNothing, OnlyEnds, MayExecute,
      TypeTask, TypeOwnership, TypeRuntime, Chosen
<1>3. CASE BeginUnusable(r)
  BY <1>3 DEF BeginUnusable, EndRun, Goto, request, facts, stops, shutdown,
      runtime, Ends, StartsNothing, OnlyEnds, MayExecute,
      TypeTask, TypeOwnership
<1>4. CASE Replace(r)
  BY <1>4 DEF Replace, SpawnChild, Goto, request, facts, ownership, shutdown,
      Ends, StartsNothing, OnlyEnds, MayExecute, TypeTask,
      TypeRuntime, StopConfirmed
<1>5. CASE ReplaceFails(r)
  BY <1>5 DEF ReplaceFails, EndRun, Goto, request, facts, stops, shutdown,
      runtime, Ends, StartsNothing, OnlyEnds, MayExecute,
      TypeTask, TypeOwnership
<1>6. CASE Started(r)
  BY <1>6 DEF Started, LoseTurns, CheckCancelled, Goto, EndRun, request,
      facts, ownership, stops, shutdown, Ends, StartsNothing, OnlyEnds,
      MayExecute, TypeTask, TypeOwnership, InFlight,
      TypeRuntime, SlotOnTheWay, BeforeTurn, BeforeBackend, SubmittedOnce,
      TurnHoldsSlot
<1>7. CASE StartFails(r)
  BY <1>7 DEF StartFails, LoseTurns, EndRun, Goto, request, facts, stops,
      shutdown, Ends, StartsNothing, OnlyEnds, MayExecute,
      TypeTask, TypeOwnership, InFlight, TypeRuntime, SlotOnTheWay,
      BeforeTurn, BeforeBackend, SubmittedOnce, TurnHoldsSlot
<1>8. CASE StartUnconfirmed(r)
  BY <1>8 DEF StartUnconfirmed, EndRun, Goto, request, facts, stops, shutdown,
      Ends, StartsNothing, OnlyEnds, MayExecute, TypeTask,
      TypeOwnership
<1>9. QED BY <1>1, <1>2, <1>3, <1>4, <1>5, <1>6, <1>7, <1>8 DEF GetBackendStep

\* Nothing is started in the slot by a run up to the submission of its turn,
\* the submission apart.
LEMMA EndsOpenStep ==
    ASSUME SInv, NEW r \in Runs, OpenStep(r), ~Submit(r)
    PROVE  Ends
<1> USE DEF SInv, IInv, TypeOK
<1>1. CASE Prepared(r)
  BY <1>1 DEF Prepared, Goto, CheckCancelled, EndRun, request, facts,
      ownership, stops, shutdown, runtime, Ends, StartsNothing, OnlyEnds,
      MayExecute, TypeTask, TypeOwnership
<1>2. CASE PrepareFails(r)
  BY <1>2 DEF PrepareFails, RpcFails, Degrade, EndRun, Goto, request, facts,
      stops, shutdown, Ends, StartsNothing, OnlyEnds,
      MayExecute, TypeTask, TypeOwnership
<1>3. CASE Opened(r)
  BY <1>3 DEF Opened, Goto, CheckCancelled, EndRun, request, facts, ownership,
      stops, shutdown, runtime, Ends, StartsNothing, OnlyEnds,
      MayExecute, TypeTask, TypeOwnership
<1>4. CASE OpenFails(r)
  BY <1>4 DEF OpenFails, RpcFails, Degrade, JoinStop, Goto, EndRun, request,
      facts, ownership, shutdown, Ends, StartsNothing, OnlyEnds,
      MayExecute, TypeTask, TypeOwnership
<1>5. CASE OpenStopped(r)
  BY <1>5 DEF OpenStopped, EndRun, Goto, request, facts, stops, shutdown,
      runtime, Ends, StartsNothing, OnlyEnds, MayExecute,
      TypeTask, TypeOwnership
<1>6. CASE Withdraw(r)
  BY <1>6 DEF Withdraw, EndRun, Goto, request, facts, stops, shutdown,
      runtime, Ends, StartsNothing, OnlyEnds, MayExecute,
      TypeTask, TypeOwnership
<1>7. QED BY <1>1, <1>2, <1>3, <1>4, <1>5, <1>6 DEF OpenStep

\* Nothing is started in the slot by a run in its turn (_run_turn).
LEMMA EndsTurnStep ==
    ASSUME SInv, NEW r \in Runs, TurnStep(r)
    PROVE  Ends
<1> USE DEF SInv, IInv, TypeOK
<1>1. CASE Acknowledged(r)
  BY <1>1 DEF Acknowledged, Goto, request, ownership, stops, shutdown,
      runtime, Ends, StartsNothing, OnlyEnds, MayExecute,
      TypeTask
<1>2. CASE SubmitUnknown(r)
  BY <1>2 DEF SubmitUnknown, RpcFails, Degrade, JoinStop, Goto, request,
      facts, ownership, shutdown, Ends, StartsNothing, OnlyEnds,
      MayExecute, TypeTask
<1>3. CASE SubmitStopped(r)
  BY <1>3 DEF SubmitStopped, EndTurn, EndRun, Goto, request, stops, shutdown,
      runtime, Ends, StartsNothing, OnlyEnds, MayExecute,
      TypeTask, TypeOwnership
<1>4. CASE SubmitRefused(r)
  BY <1>4 DEF SubmitRefused, RpcFails, Degrade, EndTurn, EndRun, Goto,
      request, facts, stops, shutdown, Ends, StartsNothing, OnlyEnds,
      MayExecute, TypeTask, TypeOwnership
<1>5. CASE LateInterrupted(r)
  BY <1>5 DEF LateInterrupted, Interrupted, Degrade, Goto, request, facts,
      ownership, stops, shutdown, Ends, StartsNothing, OnlyEnds,
      MayExecute, TypeTask
<1>6. CASE TurnEnded(r)
  BY <1>6 DEF TurnEnded, EndTurn, EndRun, Goto, request, facts, stops,
      shutdown, runtime, Ends, StartsNothing, OnlyEnds,
      MayExecute, TypeTask, TypeOwnership
<1>7. CASE TurnFails(r)
  BY <1>7 DEF TurnFails, Goto, request, facts, ownership, stops, shutdown,
      runtime, Ends, StartsNothing, OnlyEnds, MayExecute,
      TypeTask
<1>8. CASE FailureInterrupted(r)
  BY <1>8 DEF FailureInterrupted, Interrupted, Degrade, Goto, request, facts,
      ownership, stops, shutdown, Ends, StartsNothing, OnlyEnds,
      MayExecute, TypeTask
<1>9. CASE GraceEnds(r)
  BY <1>9 DEF GraceEnds, JoinStop, Goto, EndTurn, EndRun, request, facts,
      ownership, shutdown, runtime, Ends, StartsNothing, OnlyEnds, MayExecute,
      TypeTask, TypeOwnership
<1>10. CASE SettleStopped(r)
  BY <1>10 DEF SettleStopped, EndTurn, EndRun, Goto, request, stops, shutdown,
      runtime, Ends, StartsNothing, OnlyEnds, MayExecute,
      TypeTask, TypeOwnership
<1>11. QED BY <1>1, <1>2, <1>3, <1>4, <1>5, <1>6, <1>7, <1>8, <1>9, <1>10 DEF
    TurnStep

\* Nothing is started in the slot by the event pump of a run.
LEMMA EndsPumpStep ==
    ASSUME SInv, NEW r \in Runs, PumpStep(r)
    PROVE  Ends
<1> USE DEF SInv, IInv, TypeOK
<1>1. CASE PumpTerminal(r)
  BY <1>1 DEF PumpTerminal, request, ownership, stops, shutdown, runtime,
      Ends, StartsNothing, OnlyEnds, MayExecute
<1>2. CASE PumpFails(r)
  BY <1>2 DEF PumpFails, request, facts, ownership, stops, shutdown, runtime,
      Ends, StartsNothing, OnlyEnds, MayExecute
<1>3. QED BY <1>1, <1>2 DEF PumpStep

\* Nothing is started in the slot by the request handler (_supervise).
LEMMA EndsHandlerStep ==
    ASSUME SInv, NEW r \in Runs, HandlerStep(r)
    PROVE  Ends
<1> USE DEF SInv, IInv, TypeOK
<1>1. CASE Answer(r)
  BY <1>1 DEF Answer, ErrorReply, facts, ownership, stops, shutdown, runtime,
      Ends, StartsNothing, OnlyEnds, MayExecute
<1>2. CASE StopFatal(r)
  BY <1>2 DEF StopFatal, JoinStop, task, facts, ownership, shutdown, runtime,
      Ends, StartsNothing, OnlyEnds, MayExecute
<1>3. CASE FatalStopped(r)
  BY <1>3 DEF FatalStopped, ErrorReply, facts, ownership, stops, shutdown,
      runtime, Ends, StartsNothing, OnlyEnds, MayExecute
<1>4. CASE DropCancelled(r)
  BY <1>4 DEF DropCancelled, Drop, task, facts, ownership, stops, shutdown,
      runtime, Ends, StartsNothing, OnlyEnds, MayExecute
<1>5. QED BY <1>1, <1>2, <1>3, <1>4 DEF HandlerStep

\* Nothing is started in the slot by the cancellation cleanup (_cancel_run).
LEMMA EndsCleanupStep ==
    ASSUME SInv, NEW r \in Runs, CleanupStep(r)
    PROVE  Ends
<1> USE DEF SInv, IInv, TypeOK
<1>1. CASE CleanupBegins(r)
  BY <1>1 DEF CleanupBegins, task, facts, ownership, stops, shutdown, runtime,
      Ends, StartsNothing, OnlyEnds, MayExecute
<1>2. CASE CleanupInterrupted(r)
  BY <1>2 DEF CleanupInterrupted, Interrupted, Degrade, task, facts,
      ownership, stops, shutdown, Ends, StartsNothing, OnlyEnds,
      MayExecute
<1>3. CASE CleanupWaited(r)
  BY <1>3 DEF CleanupWaited, JoinStop, task, facts, ownership, shutdown,
      runtime, Ends, StartsNothing, OnlyEnds, MayExecute
<1>4. CASE CleanupStopped(r)
  BY <1>4 DEF CleanupStopped, SettleStop, task, stops, shutdown, runtime,
      Ends, StartsNothing, OnlyEnds, MayExecute, TypeOwnership
<1>5. CASE CleanupOverrun(r)
  BY <1>5 DEF CleanupOverrun, task, facts, ownership, stops, shutdown,
      runtime, Ends, StartsNothing, OnlyEnds, MayExecute
<1>6. QED BY <1>1, <1>2, <1>3, <1>4, <1>5 DEF CleanupStep

\* Nothing is started in the slot by the stop of a backend (_close_backend).
LEMMA EndsCloseStep ==
    ASSUME SInv, NEW b \in Backends, CloseStep(b)
    PROVE  Ends
<1> USE DEF SInv, IInv, TypeOK
<1>1. CASE CloseBegins(b)
  BY <1>1 DEF CloseBegins, request, task, facts, shutdown, Ends,
      StartsNothing, OnlyEnds, MayExecute, TypeOwnership
<1>2. CASE CloseConfirmed(b)
  BY <1>2 DEF CloseConfirmed, LoseTurns, request, task, facts, ownership,
      shutdown, Ends, StartsNothing, OnlyEnds, MayExecute,
      InFlight, TypeRuntime
<1>3. CASE CloseRaises(b)
  BY <1>3 DEF CloseRaises, CloseFailed, request, task, facts, shutdown, Ends,
      StartsNothing, OnlyEnds, MayExecute, TypeOwnership
<1>4. CASE CloseTimesOut(b)
  BY <1>4 DEF CloseTimesOut, CloseFailed, request, task, facts, shutdown,
      Ends, StartsNothing, OnlyEnds, MayExecute, TypeOwnership
<1>5. QED BY <1>1, <1>2, <1>3, <1>4 DEF CloseStep

\* Nothing is started in the slot by the shutdown task (_aclose_inner).
LEMMA EndsCloserStep ==
    ASSUME SInv, CloserStep
    PROVE  Ends
<1> USE DEF SInv, IInv, TypeOK
<1>1. CASE CloserInterrupted
  BY <1>1 DEF CloserInterrupted, Interrupted, Degrade, request, task, facts,
      ownership, stops, Ends, StartsNothing, OnlyEnds,
      MayExecute
<1>2. CASE CloserWaited
  BY <1>2 DEF CloserWaited, JoinStop, FinalStop, request, task, facts,
      ownership, runtime, Ends, StartsNothing, OnlyEnds,
      MayExecute
<1>3. CASE CloserRunStopped
  BY <1>3 DEF CloserRunStopped, SettleStop, FinalStop, JoinStop, request,
      task, runtime, Ends, StartsNothing, OnlyEnds, MayExecute,
      TypeOwnership
<1>4. CASE CloserReports
  BY <1>4 DEF CloserReports, request, task, facts, ownership, stops, runtime,
      Ends, StartsNothing, OnlyEnds, MayExecute
<1>5. CASE CloserOverrun
  BY <1>5 DEF CloserOverrun, request, task, facts, ownership, stops, runtime,
      Ends, StartsNothing, OnlyEnds, MayExecute
<1>6. CASE CloserBegins
  BY <1>6 DEF CloserBegins, FinalStop, JoinStop, request, task, facts,
      ownership,
      runtime, Ends, StartsNothing, OnlyEnds, MayExecute
<1>7. QED BY <1>1, <1>2, <1>3, <1>4, <1>5, <1>6 DEF CloserStep

\* Nothing is started in the slot by the start of shutdown and the runtimes.
LEMMA EndsShutdownAndRuntime ==
    ASSUME SInv, Aclose \/ RuntimeStep \/ AtRest \/ UNCHANGED vars
    PROVE  Ends
<1> USE DEF SInv, IInv, TypeOK
<1>1. CASE Aclose
  BY <1>1 DEF Aclose, request, task, facts, ownership, stops, runtime, Ends,
      StartsNothing, OnlyEnds, MayExecute
<1>2. ASSUME NEW r \in Runs, TurnAccepted(r) PROVE Ends
  BY <1>2 DEF TurnAccepted, request, task, facts, ownership, stops, shutdown,
      Ends, StartsNothing, OnlyEnds, MayExecute, InFlight,
      TypeRuntime
<1>3. ASSUME NEW r \in Runs, TurnEnds(r) PROVE Ends
  BY <1>3 DEF TurnEnds, request, task, facts, ownership, stops, shutdown,
      Ends, StartsNothing, OnlyEnds, MayExecute, InFlight,
      TypeRuntime, EndStates
<1>4. ASSUME NEW b \in Backends, ChildDies(b) PROVE Ends
  BY <1>4 DEF ChildDies, LoseTurns, request, task, facts, ownership, stops,
      shutdown, Ends, StartsNothing, OnlyEnds, MayExecute,
      InFlight, TypeRuntime
<1>5. ASSUME NEW b \in Backends, DeathNoticed(b) PROVE Ends
  BY <1>5 DEF DeathNoticed, Degrade, request, task, facts, ownership, stops,
      shutdown, Ends, StartsNothing, OnlyEnds, MayExecute
<1>6. ASSUME NEW b \in Backends, UnsupportedRequest(b) PROVE Ends
  BY <1>6 DEF UnsupportedRequest, Degrade, request, task, facts, ownership,
      stops, shutdown, Ends, StartsNothing, OnlyEnds, MayExecute
<1>7. CASE AtRest \/ UNCHANGED vars
  BY <1>7 DEF AtRest, vars, task, ownership, runtime, Ends, StartsNothing,
      OnlyEnds, MayExecute
<1>8. QED BY <1>1, <1>2, <1>3, <1>4, <1>5, <1>6, <1>7 DEF RuntimeStep

-----------------------------------------------------------------------------
(* The refinement *)

\* The phases of the runs but r are left alone.
Others(r) == \A q \in Runs \ {r} : SlotPhase'[q] = SlotPhase[q]

\* A change of one phase is a change at one run.
LEMMA OnePhase ==
    ASSUME NEW r \in Runs, NEW p, Others(r), SlotPhase'[r] = p
    PROVE  SlotPhase' = [SlotPhase EXCEPT ![r] = p]
BY DEF SlotPhase, Others

\* A step that starts nothing keeps the phase of a run whose turn and slot it
\* keeps.
LEMMA SamePhase ==
    ASSUME NEW q \in Runs, StartsNothing,
           q \in terminal' <=> q \in terminal,
           MayExecute(q)' <=> MayExecute(q)
    PROVE  SlotPhase'[q] = SlotPhase[q]
BY DEF SlotPhase, StartsNothing

\* A step that only ends something is a step of the slot, or does not show.
LEMMA EndsIsSlotStep ==
    ASSUME SInv, SInv', Ends
    PROVE  Slot!Next \/ UNCHANGED Slot!vars
<1> USE DEF SInv, IInv, Ends
<1>1. CASE /\ terminal' = terminal
           /\ \A r \in Runs : MayExecute(r) => MayExecute(r)'
  <2>1. \A q \in Runs : SlotPhase'[q] = SlotPhase[q]
    BY <1>1, SamePhase DEF OnlyEnds
  <2>2. SlotPhase' = SlotPhase BY <2>1 DEF SlotPhase
  <2>3. poisoned' = poisoned \/ (~poisoned /\ poisoned')
    BY DEF OnlyEnds, TypeOK, TypeOwnership
  <2>4. CASE poisoned' = poisoned
    BY <2>2, <2>4 DEF Slot!vars
  <2>5. CASE poisoned' /\ ~poisoned
    BY <2>2, <2>5 DEF Slot!Next, Slot!GiveUp
  <2>6. QED BY <2>3, <2>4, <2>5
<1>2. CASE /\ terminal' # terminal
           /\ \A r \in Runs : MayExecute(r) => MayExecute(r)'
  <2>1. PICK r \in Runs : r \in terminal' \ terminal
    BY <1>2 DEF OnlyEnds, TypeOK, TypeOwnership
  <2>2. pc[r] # "idle" /\ active = r
    BY <2>1 DEF SlotOnTheWay, SlotIsActive, StartsNothing
  <2>3. ASSUME NEW q \in Runs \ {r} PROVE SlotPhase'[q] = SlotPhase[q]
    <3>1. q \in terminal' <=> q \in terminal
      BY <2>2, <2>3 DEF SlotOnTheWay, SlotIsActive, StartsNothing, OnlyEnds
    <3>2. QED BY <1>2, <3>1, SamePhase DEF OnlyEnds
  <2>4. ~MayExecute(r)
    BY <1>2, <2>1 DEF TurnHoldsSlot
  <2>5. SlotPhase[r] \in {"open", "ended"} /\ SlotPhase'[r] = "left"
    BY <2>1, <2>2, <2>4 DEF SlotPhase
  <2>6. poisoned' \in {poisoned, TRUE}
    BY DEF OnlyEnds, TypeOK, TypeOwnership
  <2>7. Slot!Leave(r)
    BY <2>3, <2>5, <2>6, OnePhase DEF Slot!Leave, Others
  <2>8. QED BY <2>7 DEF Slot!Next
<1>3. CASE /\ terminal' = terminal /\ poisoned' = poisoned
           /\ ~\A r \in Runs : MayExecute(r) => MayExecute(r)'
  <2>1. PICK r \in Runs : MayExecute(r) /\ ~MayExecute(r)'
    BY <1>3
  <2>2. active = r /\ r \notin terminal
    BY <2>1 DEF TurnHoldsSlot
  <2>3. ASSUME NEW q \in Runs \ {r} PROVE SlotPhase'[q] = SlotPhase[q]
    <3>1. ~MayExecute(q) BY <2>2 DEF TurnHoldsSlot
    <3>2. QED BY <1>3, <3>1, SamePhase DEF OnlyEnds
  <2>4. pc[r] # "idle" /\ wire[r] # "idle"
    BY <2>1 DEF SubmittedOnce, MayExecute, InFlight
  <2>5. SlotPhase[r] = "executing"
    BY <2>1, <2>2, <2>4 DEF SlotPhase
  <2>6. SlotPhase'[r] = "ended"
    BY <1>3, <2>1, <2>2, <2>4 DEF SlotPhase, StartsNothing
  <2>7. Slot!End(r)
    BY <1>3, <2>3, <2>5, <2>6, OnePhase DEF Slot!End, Others
  <2>8. QED BY <2>7 DEF Slot!Next
<1>4. QED BY <1>1, <1>2, <1>3 DEF OnlyEnds

\* An admission enters the slot.
LEMMA AdmitEnters ==
    ASSUME SInv, NEW r \in Runs, Admit(r)
    PROVE  Slot!Enter(r)
<1> USE DEF SInv, IInv, TypeOK, Admit, Goto, ownership, runtime
<1>1. r \notin terminal /\ wire[r] = "idle"
  BY DEF SlotOnTheWay, SubmittedOnce
<1>2. SlotPhase[r] = "new" /\ ~poisoned
  BY <1>1 DEF SlotPhase, Admissible
<1>3. \A q \in Runs : SlotPhase[q] \notin Slot!Holding
  BY ConstantsAssumption
  DEF SlotPhase, Slot!Holding, SlotIsActive, Admissible, SlotFree
<1>4. SlotPhase'[r] = "open"
  BY <1>1 DEF SlotPhase, TypeTask
<1>5. Others(r)
  BY DEF Others, SlotPhase, MayExecute, TypeTask
<1>6. QED BY <1>2, <1>3, <1>4, <1>5, OnePhase DEF Slot!Enter

\* A turn that is sent executes in the slot; one that is not does not show.
LEMMA SubmitExecutes ==
    ASSUME SInv, NEW r \in Runs, Submit(r)
    PROVE  Slot!Execute(r) \/ UNCHANGED Slot!vars
<1> USE DEF SInv, IInv, TypeOK, Submit, Goto, ownership
<1>1. r \notin terminal /\ wire[r] = "idle"
  BY DEF SlotOnTheWay, SubmittedOnce, BeforeTurn
<1>2. SlotPhase[r] = "open"
  BY <1>1 DEF SlotPhase
<1>3. Others(r)
  BY DEF Others, SlotPhase, MayExecute, TypeTask, TypeRuntime
<1>4. CASE wire' = [wire EXCEPT ![r] = "sent"]
  <2>1. SlotPhase'[r] = "executing"
    BY <1>1, <1>4 DEF SlotPhase, MayExecute, InFlight, TypeTask, TypeRuntime
  <2>2. QED BY <1>2, <1>3, <2>1, OnePhase DEF Slot!Execute
<1>5. CASE wire' = wire
  <2>1. SlotPhase'[r] = "open"
    BY <1>1, <1>5 DEF SlotPhase, TypeTask
  <2>2. SlotPhase' = SlotPhase
    BY <1>2, <1>3, <2>1 DEF SlotPhase, Others
  <2>3. QED BY <2>2 DEF Slot!vars
<1>6. QED BY <1>4, <1>5

\* Every step admits, submits, or only ends something.
LEMMA StepKinds ==
    ASSUME SInv, [Next]_vars
    PROVE  Ends \/ \E r \in Runs : Admit(r) \/ Submit(r)
<1>1. ASSUME NEW r \in Runs, ~Admit(r), ~Submit(r),
             \/ ClientStep(r) \/ GetBackendStep(r) \/ OpenStep(r)
             \/ TurnStep(r) \/ PumpStep(r) \/ HandlerStep(r) \/ CleanupStep(r)
      PROVE  Ends
  BY <1>1, EndsClientStep, EndsGetBackendStep, EndsOpenStep, EndsTurnStep,
     EndsPumpStep, EndsHandlerStep, EndsCleanupStep
<1>2. ASSUME NEW b \in Backends, CloseStep(b) PROVE Ends
  BY <1>2, EndsCloseStep
<1>3. QED BY <1>1, <1>2, EndsCloserStep, EndsShutdownAndRuntime DEF Next

-----------------------------------------------------------------------------
(* The theorems *)

\* What is seen of the coordinator is a turn slot: whatever its tasks do,
\* _reserve_slot, _settle_lease and _release_slot_if_safe together give a slot
\* on only when its turn cannot be executing.
THEOREM SlotImplemented == Spec => ImplementsSlot
<1>1. Init => Slot!Init
  BY DEF Init, Slot!Init, SlotPhase
<1>2. SInv /\ SInv' /\ [Next]_vars => [Slot!Next]_(Slot!vars)
  <2> SUFFICES ASSUME SInv, SInv', [Next]_vars
               PROVE  Slot!Next \/ UNCHANGED Slot!vars
    OBVIOUS
  <2>1. CASE Ends BY <2>1, EndsIsSlotStep
  <2>2. ASSUME NEW r \in Runs, Admit(r) \/ Submit(r)
        PROVE  Slot!Next \/ UNCHANGED Slot!vars
    BY <2>2, AdmitEnters, SubmitExecutes DEF Slot!Next
  <2>3. QED BY <2>1, <2>2, StepKinds
<1>3. QED BY <1>1, <1>2, SafeAlways, PTL DEF Spec, ImplementsSlot, Slot!Spec

\* Whoever implements the slot keeps its calls apart: a call enters only when
\* every other has left or is still new, as _reserve_slot admits it.
LEMMA SlotKeepsApart ==
    Slot!Init /\ [][Slot!Next]_(Slot!vars) => [](Slot!TypeOK /\ Slot!OneHolder)
<1> USE DEF Slot!TypeOK, Slot!OneHolder, Slot!Holding, Slot!Phases
<1>1. Slot!Init => Slot!TypeOK /\ Slot!OneHolder
  BY DEF Slot!Init
<1>2. Slot!TypeOK /\ Slot!OneHolder /\ [Slot!Next]_(Slot!vars)
        => Slot!TypeOK' /\ Slot!OneHolder'
  <2> SUFFICES ASSUME Slot!TypeOK, Slot!OneHolder, [Slot!Next]_(Slot!vars)
               PROVE  Slot!TypeOK' /\ Slot!OneHolder'
    OBVIOUS
  <2>1. ASSUME NEW r \in Runs, Slot!Enter(r)
        PROVE  Slot!TypeOK' /\ Slot!OneHolder'
    BY <2>1 DEF Slot!Enter
  <2>2. ASSUME NEW r \in Runs, Slot!Execute(r) \/ Slot!End(r) \/ Slot!Leave(r)
        PROVE  Slot!TypeOK' /\ Slot!OneHolder'
    BY <2>2 DEF Slot!Execute, Slot!End, Slot!Leave
  <2>3. CASE Slot!GiveUp \/ UNCHANGED Slot!vars
    BY <2>3 DEF Slot!GiveUp, Slot!vars
  <2>4. QED BY <2>1, <2>2, <2>3 DEF Slot!Next
<1>3. QED BY <1>1, <1>2, PTL

\* So at most one call has the slot of the coordinator: between _reserve_slot
\* and _release_slot_if_safe no other call is admitted.
THEOREM HolderAlone == Spec => []Slot!OneHolder
BY SlotImplemented, SlotKeepsApart, PTL DEF ImplementsSlot, Slot!Spec

\* What was called off stays off: once a client has cancelled its call, or
\* _aclose_inner has marked the call in the slot, no task that was under way
\* sends the turn, for _check_cancelled and the submission are one segment and
\* both kinds of cancellation reach a call wherever it waits.
THEOREM CalledOffHolds == Spec => CalledOffStaysOff
<1> DEFINE CalledOff(r) == reply[r] = "dropped" \/ closer \notin {"open",
    "called"}
           Off == \A r \in Runs :
                      CalledOff(r) /\ wire[r] = "idle" => wire'[r] = "idle"
<1>1. SInv /\ [Next]_vars => [Off]_vars
  <2> SUFFICES ASSUME SInv, [Next]_vars PROVE Off
    OBVIOUS
  <2> USE DEF SInv, IInv, TypeOK
  <2>1. CASE Ends
    BY <2>1 DEF Ends, StartsNothing
  <2>2. ASSUME NEW r \in Runs, Admit(r) PROVE Off
    BY <2>2 DEF Admit, runtime
  <2>3. ASSUME NEW r \in Runs, Submit(r) PROVE Off
    <3>1. ~CalledOff(r)
      BY <2>3 DEF Submit, CancelReaches, BeforeTurn
    <3>2. QED BY <2>3, <3>1 DEF Submit, TypeRuntime
  <2>4. QED BY <2>1, <2>2, <2>3, StepKinds
<1>2. QED BY <1>1, SafeAlways, PTL DEF Spec, CalledOffStaysOff

==============================================================================
