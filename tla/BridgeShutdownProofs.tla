------------------------- MODULE BridgeShutdownProofs -------------------------
(***************************************************************************)
(* Whatever goes wrong on the way, and wherever a shutdown overtakes the   *)
(* call: an exit code of 0 is evidence that no turn executes, and that the *)
(* shutdown that answers for it left no App Server it could have seen.     *)
(*                                                                         *)
(* The exit code is the answer of a cleaner, given at the close of the SDK *)
(* client or for want of a runtime.  What keeps that answer true until the *)
(* process ends is the inductive invariant: a call that was called off     *)
(* before its turn submits none, and a runtime that comes up after the     *)
(* answer is one that was installed after the cleaner had looked.          *)
(***************************************************************************)
EXTENDS BridgeShutdown, TLAPS

\* A turn is the call's, executes in a child that lives, and waits for no spawn.
TurnNeedsChild ==
    /\ turn # "none" => call = "sent"
    /\ turn = "executing" => child = "alive"
    /\ spawning => call \in {"starting", "over", "failed"}

\* A stop is confirmed by the close of the SDK client, which kills the child.
StopIsTrue ==
    /\ stop = "ok" => sdkClose = "ok"
    /\ sdkClose = "ok" => child # "alive"

\* No App Server is up, nor comes up, that shutdown u could have seen.
LeavesNone(u) == u \in late \/ (child # "alive" /\ (spawning => sdkClose # "none"))

\* A cleaner runs from the call of its aclose() on, calls the run off with its
\* first step, and what aclose() answers is what the cleaner found.
AnswersAreCleaners == \A u \in Callers :
    /\ aclose[u] = "idle" <=> cleaner[u] = "idle"
    /\ cleaner[u] \notin {"idle", "created", "cancelled"} => calledOff
    /\ cleaner[u] = "ok" => LeavesNone(u) /\ turn # "executing"
    /\ aclose[u] = "ok" => cleaner[u] = "ok"

IInv ==
    /\ TypeOK
    /\ TurnNeedsChild
    /\ StopIsTrue
    /\ AnswersAreCleaners
    /\ ExitZeroIsEarned

LEMMA Initially == Init => IInv
  BY DEF Init, IInv, TypeOK, TurnNeedsChild, StopIsTrue, AnswersAreCleaners, LeavesNone,
     ExitZeroIsEarned, Callers, Cleaners, CleanerStates, Running

-----------------------------------------------------------------------------
(* Types *)

LEMMA FinalStopTypes ==
    ASSUME TypeOK, NEW u \in Cleaners, FinalStop(u)
    PROVE  /\ cleaner' \in [Cleaners -> CleanerStates]
           /\ stop' \in {"none", "running", "ok"}
           /\ sdkClose' \in {"none", "running", "ok", "failed"}
  BY DEF FinalStop, AsksForStop, TypeOK, CleanerStates, Finished

LEMMA StartTypes ==
    ASSUME TypeOK, Start \/ Environment
    PROVE  TypeOK'
<1> USE DEF TypeOK, process, request, runtime
<1>1. CASE Start
  BY <1>1 DEF Start, RefusesToStart, Serve, Exit
<1>2. CASE EarlierCall \/ CallAdmitted \/ TurnEnds \/ ChildCrashes
  BY <1>2 DEF EarlierCall, CallAdmitted, CallChanges, TurnEnds, ChildCrashes, LosesTurn
<1>3. CASE RequestCancelled
  BY <1>3 DEF RequestCancelled, CleanerStates, Finished, Cleaners
<1>4. CASE SignalShutsDown
  BY <1>4 DEF SignalShutsDown, Aclose, CleanerStates, Cleaners, Callers
<1>8. CASE InputEnds
  BY <1>8 DEF InputEnds, Aclose, CleanerStates, Cleaners, Callers
<1>5. CASE SignalKills
  BY <1>5 DEF SignalKills, Exit
<1>6. CASE MainCancelled
  BY <1>6 DEF MainCancelled, Aclose, AcloseCancelled, CleanerStates, Cleaners, Callers
<1>7. CASE OuterBudgetEnds
  BY <1>7 DEF OuterBudgetEnds, AcloseCancelled, Callers
<1> QED
  BY <1>1, <1>2, <1>3, <1>4, <1>5, <1>6, <1>7, <1>8 DEF Environment

LEMMA CallTypes ==
    ASSUME TypeOK, Calling \/ Spawning
    PROVE  TypeOK'
<1> USE DEF TypeOK, process, request, runtime, CallChanges
<1>1. CASE GetBackend
  <2>1. CASE NewBackend
    BY <1>1, <2>1 DEF GetBackend, NewBackend, Spawns
  <2>2. CASE UsesBackend
    <3>1. UNCHANGED <<process, aclose, cleaner, calledOff, stop, sdkClose, turn, late>>
      BY <1>1, <2>2 DEF GetBackend, UsesBackend
    <3>2. call' \in {"ready", "starting"} /\ child' \in {child, "none"}
      BY <2>2 DEF UsesBackend, Spawns
    <3>3. spawning' \in BOOLEAN
      BY <2>2, Zenon DEF UsesBackend, Spawns
    <3> QED BY <3>1, <3>2, <3>3
  <2>3. CASE LeavesBackend
    BY <1>1, <2>3 DEF GetBackend, LeavesBackend
  <2> QED BY <1>1, <2>1, <2>2, <2>3 DEF GetBackend
<1>2. CASE Replace
  BY <1>2 DEF Replace, NewBackend, Spawns
<1>3. CASE Started \/ StartFails \/ SubmitTurn \/ CallEnds
  BY <1>3 DEF Started, StartFails, SubmitTurn, CallEnds
<1>4. CASE Spawn \/ StrayCloses
  BY <1>4 DEF Spawn, StrayCloses
<1> QED
  BY <1>1, <1>2, <1>3, <1>4 DEF Calling, Spawning

LEMMA StopTypes ==
    ASSUME TypeOK, Stopping \/ RequestFails
    PROVE  TypeOK'
<1> USE DEF TypeOK, process, request, runtime
<1>1. CASE SdkCloseEnds
  BY <1>1 DEF SdkCloseEnds, LosesTurn
<1>2. CASE StopSucceeds
  BY <1>2 DEF StopSucceeds, CleanerStates, Finished
<1>3. CASE StopFails
  <2>1. \A u \in Cleaners : AfterFailedStop(u) \in CleanerStates
    BY DEF AfterFailedStop, CleanerStates, Finished
  <2> QED BY <1>3, <2>1 DEF StopFails
<1>4. CASE RequestFails
  BY <1>4 DEF RequestFails, AsksForStop, CleanerStates, Cleaners
<1> QED
  BY <1>1, <1>2, <1>3, <1>4 DEF Stopping

LEMMA CleanTypes ==
    ASSUME TypeOK, NEW u \in Cleaners, Cleaning(u)
    PROVE  TypeOK'
<1> USE DEF TypeOK, process, request, runtime
<1>1. CASE InnerStarts(u)
  BY <1>1, FinalStopTypes DEF InnerStarts, CleanerStates
<1>2. CASE InterruptReturns(u)
  BY <1>2 DEF InterruptReturns, CleanerStates
<1>3. CASE WaitEnds(u)
  BY <1>3 DEF WaitEnds, AsksForStop, CleanerStates, Finished
<1>4. CASE InnerFinishes(u)
  BY <1>4, FinalStopTypes DEF InnerFinishes
<1> QED
  BY <1>1, <1>2, <1>3, <1>4 DEF Cleaning

LEMMA CloseTypes ==
    ASSUME TypeOK, NEW u \in Callers, Closing(u)
    PROVE  TypeOK'
<1> USE DEF TypeOK, process, request, runtime
<1>1. CASE AcloseReturns(u)
  BY <1>1 DEF AcloseReturns
<1>2. CASE BudgetEnds(u)
  BY <1>2 DEF BudgetEnds, BudgetResult, CancelTask, CleanerStates, Finished, Cleaners
<1>3. CASE LastChanceEnds(u)
  BY <1>3 DEF LastChanceEnds, LastChanceResult, CancelTask, CleanerStates, Finished, Cleaners
<1> QED
  BY <1>1, <1>2, <1>3 DEF Closing

LEMMA EndTypes ==
    ASSUME TypeOK, Ending
    PROVE  TypeOK'
<1> USE DEF TypeOK, process, request, runtime
<1>1. CASE GracefulExit \/ InterpreterExits
  BY <1>1 DEF GracefulExit, InterpreterExits, Exit
<1>2. CASE MainEnds
  BY <1>2 DEF MainEnds, CleanerStates, Finished, Callers
<1>3. CASE LoopCloses
  BY <1>3 DEF LoopCloses
<1> QED
  BY <1>1, <1>2, <1>3 DEF Ending

LEMMA Types == TypeOK /\ [Next]_vars => TypeOK'
<1> SUFFICES ASSUME TypeOK, [Next]_vars PROVE TypeOK'
  OBVIOUS
<1>1. CASE AtRest \/ UNCHANGED vars
  BY <1>1 DEF AtRest, vars, process, request, runtime, TypeOK
<1> QED
  BY <1>1, StartTypes, CallTypes, StopTypes, CleanTypes, CloseTypes, EndTypes DEF Next

-----------------------------------------------------------------------------
(* The steps *)

Evidence == TurnNeedsChild /\ StopIsTrue /\ AnswersAreCleaners

\* A cleaner that looks for something left to stop finds nothing, or waits.
LEMMA FinalStopFinds ==
    ASSUME TypeOK, StopIsTrue, NEW u \in Cleaners, FinalStop(u)
    PROVE  /\ \A v \in Cleaners \ {u} : cleaner'[v] = cleaner[v]
           /\ \/ /\ cleaner'[u] = "ok" /\ child # "alive" /\ (spawning => sdkClose # "none")
                 /\ UNCHANGED <<stop, sdkClose>>
              \/ /\ cleaner'[u] = "stopping" /\ stop' = "running"
                 /\ sdkClose' = IF sdkClose = "none" THEN "running" ELSE sdkClose
  BY DEF FinalStop, NoBackend, AsksForStop, TypeOK, StopIsTrue

LEMMA StartKeeps ==
    ASSUME TypeOK, Evidence, Start \/ Environment
    PROVE  Evidence'
<1> USE DEF TypeOK, process, request, runtime, Evidence, TurnNeedsChild, StopIsTrue,
            AnswersAreCleaners, LeavesNone
<1>1. CASE Start
  BY <1>1 DEF Start, RefusesToStart, Serve, Exit
<1>2. CASE EarlierCall \/ CallAdmitted
  BY <1>2 DEF EarlierCall, CallAdmitted, CallChanges, NotClosed, Callers
<1>3. CASE TurnEnds \/ ChildCrashes
  BY <1>3 DEF TurnEnds, ChildCrashes, LosesTurn
<1>4. CASE RequestCancelled
  BY <1>4 DEF RequestCancelled, Callers, Cleaners
<1>5. CASE SignalShutsDown
  BY <1>5 DEF SignalShutsDown, Aclose, Cleaners, Callers
<1>6. CASE InputEnds
  BY <1>6 DEF InputEnds, Aclose, Cleaners, Callers
<1>7. CASE SignalKills
  BY <1>7 DEF SignalKills, Exit
<1>8. CASE MainCancelled
  BY <1>8 DEF MainCancelled, Aclose, AcloseCancelled, Cleaners, Callers
<1>9. CASE OuterBudgetEnds
  BY <1>9 DEF OuterBudgetEnds, AcloseCancelled, Callers
<1> QED
  BY <1>1, <1>2, <1>3, <1>4, <1>5, <1>6, <1>7, <1>8, <1>9 DEF Environment

LEMMA CallKeeps ==
    ASSUME TypeOK, Evidence, Calling \/ Spawning
    PROVE  Evidence'
<1> USE DEF TypeOK, process, request, runtime, CallChanges, Evidence, TurnNeedsChild,
            StopIsTrue, AnswersAreCleaners, LeavesNone
<1>1. CASE GetBackend
  \* A cleaner that answered has called the run off.
  <2>1. \A u \in Callers : cleaner[u] # "ok"
    BY <1>1 DEF GetBackend
  <2>2. CASE NewBackend
    BY <1>1, <2>1, <2>2 DEF GetBackend, NewBackend, Spawns
  <2>3. CASE UsesBackend /\ ~NoBackend
    BY <1>1, <2>1, <2>3 DEF GetBackend, UsesBackend, NoBackend, Spawns
  <2>4. CASE LeavesBackend
    BY <1>1, <2>1, <2>4 DEF GetBackend, LeavesBackend
  <2> QED BY <1>1, <2>2, <2>3, <2>4 DEF GetBackend
<1>2. CASE Replace
  BY <1>2 DEF Replace, NewBackend, Spawns
<1>3. CASE Started \/ StartFails \/ CallEnds
  BY <1>3 DEF Started, StartFails, CallEnds
<1>4. CASE SubmitTurn
  BY <1>4 DEF SubmitTurn, MaySubmit
<1>5. CASE Spawn
  BY <1>5 DEF Spawn
<1>6. CASE StrayCloses
  BY <1>6 DEF StrayCloses
<1> QED
  BY <1>1, <1>2, <1>3, <1>4, <1>5, <1>6 DEF Calling, Spawning

LEMMA StopKeeps ==
    ASSUME TypeOK, Evidence, Stopping \/ RequestFails
    PROVE  Evidence'
<1> USE DEF TypeOK, process, request, runtime, Evidence, TurnNeedsChild, StopIsTrue,
            AnswersAreCleaners, LeavesNone
<1>1. CASE SdkCloseEnds
  BY <1>1 DEF SdkCloseEnds, LosesTurn
<1>2. CASE StopSucceeds
  BY <1>2 DEF StopSucceeds, StopConfirmed, Cleaners, Finished
<1>3. CASE StopFails
  BY <1>3 DEF StopFails, AfterFailedStop, Cleaners, Callers, Finished
<1>4. CASE RequestFails
  BY <1>4 DEF RequestFails, AsksForStop, Cleaners, Callers
<1> QED
  BY <1>1, <1>2, <1>3, <1>4 DEF Stopping

LEMMA CleanKeeps ==
    ASSUME TypeOK, Evidence, NEW u \in Cleaners, Cleaning(u)
    PROVE  Evidence'
<1> USE DEF TypeOK, process, request, runtime, Evidence, TurnNeedsChild, StopIsTrue,
            AnswersAreCleaners, LeavesNone
<1>1. CASE InnerStarts(u)
  BY <1>1, FinalStopFinds DEF InnerStarts, Cleaners, Finished
<1>2. CASE InterruptReturns(u)
  BY <1>2 DEF InterruptReturns, Cleaners, Finished
<1>3. CASE WaitEnds(u)
  BY <1>3 DEF WaitEnds, AsksForStop, Settled, Cleaners, Callers, Finished
<1>4. CASE InnerFinishes(u)
  BY <1>4, FinalStopFinds DEF InnerFinishes, Cleaners, Finished
<1> QED
  BY <1>1, <1>2, <1>3, <1>4 DEF Cleaning

LEMMA CloseKeeps ==
    ASSUME TypeOK, Evidence, NEW u \in Callers, Closing(u)
    PROVE  Evidence'
<1> USE DEF TypeOK, process, request, runtime, Evidence, TurnNeedsChild, StopIsTrue,
            AnswersAreCleaners, LeavesNone
<1>1. CASE AcloseReturns(u)
  BY <1>1 DEF AcloseReturns, Cleaners, Finished
<1>2. CASE BudgetEnds(u)
  BY <1>2 DEF BudgetEnds, BudgetResult, CancelTask, Cleaners, Finished
<1>3. CASE LastChanceEnds(u)
  BY <1>3 DEF LastChanceEnds, LastChanceResult, CancelTask, Cleaners, Finished
<1> QED
  BY <1>1, <1>2, <1>3 DEF Closing

LEMMA EndKeeps ==
    ASSUME TypeOK, Evidence, Ending
    PROVE  Evidence'
<1> USE DEF TypeOK, process, request, runtime, Evidence, TurnNeedsChild, StopIsTrue,
            AnswersAreCleaners, LeavesNone
<1>1. CASE GracefulExit \/ InterpreterExits
  BY <1>1 DEF GracefulExit, InterpreterExits, Exit
<1>2. CASE MainEnds
  BY <1>2 DEF MainEnds, Callers, Cleaners, Finished
<1>3. CASE LoopCloses
  BY <1>3 DEF LoopCloses
<1> QED
  BY <1>1, <1>2, <1>3 DEF Ending

\* A process that has exited does nothing more, and exits with 0 on evidence only.
LEMMA ExitKeeps ==
    ASSUME IInv, Next
    PROVE  ExitZeroIsEarned'
<1> USE DEF IInv, TypeOK, process, request, runtime, ExitZeroIsEarned, Running, Exited, Exit
<1>1. CASE Exited /\ UNCHANGED <<exitCode, aclose, child, turn, late>>
  BY <1>1
<1>2. CASE exitCode' = Running
  BY <1>2
<1>3. CASE RefusesToStart \/ SignalKills
  BY <1>3 DEF RefusesToStart, SignalKills, Killed
<1>4. CASE GracefulExit
  BY <1>4 DEF GracefulExit, AnswersAreCleaners, LeavesNone, Callers
<1>5. CASE InterpreterExits
  BY <1>5 DEF InterpreterExits, ThreadsIdle, TurnNeedsChild
<1> QED
  BY <1>1, <1>2, <1>3, <1>4, <1>5
  DEF Next, Start, Environment, Stopping, Ending, Cleaning, Closing, AtRest, vars,
      Serve, EarlierCall, CallAdmitted, NotClosed, Calling, Spawning, GetBackend, Replace,
      Spawn, StrayCloses, Started, StartFails, SubmitTurn, CallEnds, CallChanges, TurnEnds, ChildCrashes, RequestCancelled, SignalShutsDown,
      InputEnds, MainCancelled, OuterBudgetEnds, SdkCloseEnds, StopSucceeds, StopFails,
      RequestFails, InnerStarts, InterruptReturns, WaitEnds, InnerFinishes,
      AcloseReturns, BudgetEnds, LastChanceEnds, MainEnds, LoopCloses

LEMMA Inductive == IInv /\ [Next]_vars => IInv'
<1> SUFFICES ASSUME IInv, [Next]_vars PROVE IInv'
  OBVIOUS
<1>1. TypeOK'
  BY Types DEF IInv
<1>2. CASE UNCHANGED vars
  BY <1>1, <1>2 DEF vars, process, request, runtime, IInv, TurnNeedsChild, StopIsTrue,
     AnswersAreCleaners, LeavesNone, ExitZeroIsEarned
<1>3. CASE Next
  <2>1. Evidence
    BY DEF IInv, Evidence
  <2>2. AtRest => Evidence'
    BY <2>1 DEF AtRest, vars, process, request, runtime, Evidence, TurnNeedsChild,
       StopIsTrue, AnswersAreCleaners, LeavesNone
  <2>3. Evidence'
    BY <1>3, <2>1, <2>2, StartKeeps, CallKeeps, StopKeeps, CleanKeeps, CloseKeeps, EndKeeps
    DEF Next, IInv
  <2> QED BY <1>1, <1>3, <2>3, ExitKeeps DEF IInv, Evidence
<1> QED
  BY <1>2, <1>3

THEOREM Invariant == Spec => []IInv
  BY Initially, Inductive, PTL DEF Spec

-----------------------------------------------------------------------------
(* The properties *)

\* The states of the tasks, of the stop and of the child keep their types.
THEOREM ShutdownTypeCorrect == Spec => []TypeOK
  BY Initially, Types, PTL DEF Spec, IInv

\* Whatever fails, times out or is cancelled on the way, and wherever the shutdown
\* overtakes the call: a process that exits with 0 has left no executing turn, and
\* no App Server that was installed before the shutdown it answers for had looked.
THEOREM ExitZeroEarned == Spec => []ExitZeroIsEarned
<1>1. IInv => ExitZeroIsEarned
  BY DEF IInv
<1> QED
  BY <1>1, Invariant, PTL

=============================================================================
