---------------------------- MODULE BridgeShutdown ----------------------------
(***************************************************************************)
(* How the process ends (server.py, cli.py, and aclose in coordinator.py). *)
(* SIGTERM starts a task that runs aclose() and exits the process itself;  *)
(* the end of stdin, or a cancellation, runs aclose() from the lifespan    *)
(* and leaves the exit to asyncio.run and the interpreter.  Both can be    *)
(* under way at once, over one runtime whose stop they share with the      *)
(* cleanup of a cancelled request.                                         *)
(*                                                                         *)
(* One call with a turn, after an earlier one that may have left its       *)
(* runtime up or being stopped, and one runtime at a time (bounds).  A     *)
(* shutdown overtakes the call wherever it is: its runtime comes up in     *)
(* steps, in a thread, and the flag that calls it off is read now and then.*)
(* Timers may fire whenever the code waits with one, the budget outside    *)
(* aclose() before or after the equal one inside.  The runtime is stopped  *)
(* by the one SDK close of its client.                                     *)
(***************************************************************************)
EXTENDS Integers

CONSTANT Events     \* what may go wrong, a subset of AllEvents (a bound)

AllEvents == {"cancellation", "stopFailure", "slowStop", "crash"}

ASSUME ShutdownConstants == Events \subseteq AllEvents

VARIABLES
    main,       \* the main task: _serve, and asyncio.run around it
    status,     \* what _serve returned, or 1 if it raised
    cancelled,  \* the main task was cancelled
    exitCode,   \* the process's exit code, or Running
    aclose,     \* the two calls of aclose()
    cleaner,    \* _aclose_inner of each, and _cancel_run of the request
    call,       \* the execution task of the call
    calledOff,  \* run.cancellation_requested
    stop,       \* the shared stop task of the runtime
    sdkClose,   \* the SDK close of its client
    spawning,   \* a control thread is in client.start()
    child,      \* the App Server; "stray" if its client was refused registration
    turn,       \* the turn of the active run
    late        \* the shutdowns that had looked for a runtime when this one came

process == <<main, status, cancelled, exitCode>>
request == <<call, calledOff>>
runtime == <<sdkClose, spawning, child, turn, late>>
vars == <<process, aclose, cleaner, request, stop, runtime>>

Callers == {"signal", "lifespan"}
Cleaners == Callers \cup {"request"}

Running == -1
Killed == 143

\* A stop task that failed leaves "none": the next request starts another.
Finished == {"ok", "failed", "cancelled"}
CleanerStates == {"idle", "created", "interrupting", "waiting", "runStopping",
                  "finishing", "stopping"} \cup Finished

Serving == main \in {"serving", "closing"}
LoopRuns == main \in {"serving", "closing", "returned", "raised"}
Exited == exitCode # Running

\* _run_settled_safe
Settled == call # "sent" \/ turn = "ended" \/ stop = "ok"

\* _backend is None, or the runtime was stopped for good.
NoBackend == stop = "ok" \/ (sdkClose = "none" /\ child = "none" /\ ~spawning)

Init ==
    /\ main = "starting" /\ status = 0 /\ cancelled = FALSE /\ exitCode = Running
    /\ aclose = [u \in Callers |-> "idle"]
    /\ cleaner = [u \in Cleaners |-> "idle"]
    /\ call = "none" /\ calledOff = FALSE
    /\ stop = "none" /\ sdkClose = "none" /\ spawning = FALSE
    /\ child = "none" /\ turn = "none" /\ late = {}

-----------------------------------------------------------------------------
(* The start of the process, and an earlier call *)

Exit(code) ==
    /\ ~Exited
    /\ exitCode' = code

\* main() and _serve: the self-connection guard and a rejected configuration.
RefusesToStart ==
    /\ main = "starting"
    /\ \E code \in {2, 3} : Exit(code)
    /\ UNCHANGED <<main, status, cancelled, aclose, cleaner, request, stop, runtime>>

Serve ==
    /\ ~Exited /\ main = "starting"
    /\ main' = "serving"
    /\ UNCHANGED <<status, cancelled, exitCode, aclose, cleaner, request, stop, runtime>>

NotClosed == ~Exited /\ main = "serving" /\ \A u \in Callers : aclose[u] = "idle"

\* An earlier call leaves its runtime up, or fails and has it stopped.
EarlierCall ==
    /\ NotClosed /\ call = "none" /\ stop = "none" /\ sdkClose = "none"
    /\ \/ child = "none" /\ child' = "alive" /\ UNCHANGED <<stop, sdkClose>>
       \/ child = "alive" /\ stop' = "running" /\ sdkClose' = "running" /\ UNCHANGED child
    /\ UNCHANGED <<process, aclose, cleaner, request, spawning, turn, late>>

-----------------------------------------------------------------------------
(* The call: its slot, its runtime, its turn *)

CallChanges == UNCHANGED <<process, aclose, cleaner, calledOff>>

\* _reserve_slot: neither _closed nor poisoned by a stop that failed.
CallAdmitted ==
    /\ NotClosed /\ call = "none"
    /\ stop = "none" => sdkClose = "none"
    /\ call' = "admitted"
    /\ CallChanges /\ UNCHANGED <<stop, runtime>>

\* A control thread spawns an App Server.
Spawns == call' = "starting" /\ spawning' = TRUE /\ child' = "none"

\* A new backend is installed; whoever looked before does not know it.
NewBackend ==
    /\ stop' = "none" /\ sdkClose' = "none" /\ Spawns
    /\ late' = {u \in Callers : cleaner[u] \notin {"idle", "created"}}

\* start_runtime finds the client ready, or its child dead.
UsesBackend ==
    /\ UNCHANGED <<stop, sdkClose, late>>
    /\ \/ call' = "ready" /\ UNCHANGED <<spawning, child>>
       \/ child = "dead" /\ Spawns

\* start_runtime refuses: the call waits for the stop, unless that has failed.
LeavesBackend ==
    /\ UNCHANGED <<sdkClose, spawning, child, late>>
    /\ IF sdkClose = "failed" THEN call' = "failed" /\ UNCHANGED stop
       ELSE call' = "replacing" /\ stop' = "running"

\* _get_backend, behind the first _check_cancelled.
GetBackend ==
    /\ ~Exited /\ call = "admitted" /\ ~calledOff
    /\ IF NoBackend THEN NewBackend
       ELSE IF sdkClose = "none" THEN UsesBackend ELSE LeavesBackend
    /\ CallChanges /\ UNCHANGED turn

\* _replace_backend after the stop: no flag is read in between.
Replace ==
    /\ ~Exited /\ call = "replacing" /\ stop = "ok"
    /\ NewBackend
    /\ CallChanges /\ UNCHANGED turn

\* client.start() in its thread: after close() its client is not registered.
Spawn ==
    /\ ~Exited /\ spawning
    /\ spawning' = FALSE
    /\ \/ child' = IF sdkClose = "none" THEN "alive" ELSE "stray"
       \/ UNCHANGED child
    /\ CallChanges /\ UNCHANGED <<call, stop, sdkClose, turn, late>>

\* The thread closes it again, if the executor still takes the job.
StrayCloses ==
    /\ ~Exited /\ child = "stray" /\ sdkClose # "ok"
    /\ child' = "dead"
    /\ CallChanges /\ UNCHANGED <<call, stop, sdkClose, spawning, turn, late>>

\* start_runtime ends well once its client was registered, closed or not.
Started ==
    /\ ~Exited /\ call = "starting" /\ ~spawning /\ child \in {"alive", "dead"}
    /\ call' = "ready"
    /\ CallChanges /\ UNCHANGED <<stop, runtime>>

\* The start fails, times out or is refused, and closes what it has.
StartFails ==
    /\ ~Exited /\ call = "starting"
    /\ call' = "failed"
    /\ sdkClose' = IF sdkClose = "none" THEN "running" ELSE sdkClose
    /\ CallChanges /\ UNCHANGED <<stop, spawning, child, turn, late>>

\* Mutant of MaySubmit: the flag was read before the runtime came up.
MaySubmitAnyway == TRUE

\* _check_cancelled, the last time.
MaySubmit == ~calledOff

\* turn/start of _run_turn.
SubmitTurn ==
    /\ ~Exited /\ call = "ready" /\ MaySubmit
    /\ call' = "sent"
    /\ turn' = IF child = "alive" THEN "executing" ELSE "lost"
    /\ CallChanges /\ UNCHANGED <<stop, sdkClose, spawning, child, late>>

\* _check_cancelled raises, or the call fails before its turn.
CallEnds ==
    /\ ~Exited /\ call \in {"admitted", "ready"}
    /\ call' = "over"
    /\ CallChanges /\ UNCHANGED <<stop, runtime>>

\* The App Server ends the turn, by itself or because it was interrupted.
TurnEnds ==
    /\ ~Exited /\ child = "alive" /\ turn = "executing"
    /\ turn' = "ended"
    /\ UNCHANGED <<process, aclose, cleaner, request, stop, sdkClose, spawning, child, late>>

LosesTurn == turn' = IF turn = "executing" THEN "lost" ELSE turn

ChildCrashes ==
    /\ "crash" \in Events
    /\ ~Exited /\ child = "alive"
    /\ child' = "dead" /\ LosesTurn
    /\ UNCHANGED <<process, aclose, cleaner, request, stop, sdkClose, spawning, late>>

-----------------------------------------------------------------------------
(* The shared stop: _stop_backend and _close_backend *)

\* Cleaner u asks for a stop and waits in the given state.
AsksForStop(u, state) ==
    /\ cleaner' = [cleaner EXCEPT ![u] = state]
    /\ stop' = "running"
    /\ sdkClose' = IF sdkClose = "none" THEN "running" ELSE sdkClose

\* The last step of _aclose_inner: no runtime or a remembered stop is healthy.
FinalStop(u) ==
    IF NoBackend
    THEN /\ cleaner' = [cleaner EXCEPT ![u] = "ok"]
         /\ UNCHANGED <<stop, sdkClose>>
    ELSE AsksForStop(u, "stopping")

\* SDK client.close() in its control thread.
SdkCloseEnds ==
    /\ ~Exited /\ sdkClose = "running"
    /\ \/ /\ sdkClose' = "ok"
          /\ IF child = "alive" THEN child' = "dead" /\ LosesTurn ELSE UNCHANGED <<child, turn>>
       \/ /\ "stopFailure" \in Events /\ child = "alive"
          /\ sdkClose' = "failed"
          /\ UNCHANGED <<child, turn>>
    /\ UNCHANGED <<process, aclose, cleaner, request, stop, spawning, late>>

StopConfirmed == sdkClose = "ok"

StopSucceeds ==
    /\ ~Exited /\ stop = "running" /\ StopConfirmed
    /\ stop' = "ok"
    /\ cleaner' = [u \in Cleaners |->
                      IF cleaner[u] \in {"runStopping", "stopping"} THEN "ok"
                      ELSE cleaner[u]]
    /\ UNCHANGED <<process, aclose, request, runtime>>

\* What the waiters make of a stop that returned False.
AfterFailedStop(u) ==
    CASE cleaner[u] = "stopping" -> "failed"
      [] cleaner[u] = "runStopping" -> IF u = "request" THEN "failed" ELSE "finishing"
      [] OTHER -> cleaner[u]

StopFails ==
    /\ ~Exited /\ stop = "running"
    /\ \/ sdkClose = "failed"
       \/ "slowStop" \in Events /\ sdkClose = "running"
    /\ stop' = "none"
    /\ cleaner' = [u \in Cleaners |-> AfterFailedStop(u)]
    /\ call' = IF call = "replacing" THEN "failed" ELSE call
    /\ UNCHANGED <<process, aclose, calledOff, runtime>>

-----------------------------------------------------------------------------
(* _aclose_inner, and _cancel_run of the request *)

InnerStarts(u) ==
    /\ ~Exited /\ cleaner[u] = "created"
    /\ calledOff' = TRUE
    /\ IF Settled THEN FinalStop(u)
       ELSE /\ cleaner' = [cleaner EXCEPT ![u] = "interrupting"]
            /\ UNCHANGED <<stop, sdkClose>>
    /\ UNCHANGED <<process, aclose, call, spawning, child, turn, late>>

\* The client cancels the request, or the server does at the end of stdin: a
\* call that has not submitted is called off, and goes on until it looks.
RequestCancelled ==
    /\ "cancellation" \in Events
    /\ ~Exited /\ Serving
    /\ cleaner["request"] = "idle" /\ call \notin {"none", "over", "failed"}
    /\ calledOff' = TRUE
    /\ cleaner' = [cleaner EXCEPT !["request"] = IF Settled THEN "ok" ELSE "interrupting"]
    /\ UNCHANGED <<process, aclose, call, stop, runtime>>

\* A start that failed or a turn that lost its runtime may fail with a fatal
\* code: its run stops the runtime.
RequestFails ==
    /\ ~Exited /\ Serving
    /\ cleaner["request"] = "idle" /\ ~NoBackend
    /\ call = "failed" \/ turn = "lost"
    /\ AsksForStop("request", "runStopping")
    /\ UNCHANGED <<process, aclose, request, spawning, child, turn, late>>

\* interrupt_turn returns, fails or times out.
InterruptReturns(u) ==
    /\ ~Exited /\ cleaner[u] = "interrupting"
    /\ cleaner' = [cleaner EXCEPT ![u] = "waiting"]
    /\ UNCHANGED <<process, aclose, request, stop, runtime>>

\* _wait_terminal_or_stop: the run settles, or the grace ends first.
WaitEnds(u) ==
    /\ ~Exited /\ cleaner[u] = "waiting"
    /\ IF ~Settled THEN AsksForStop(u, "runStopping")
       ELSE /\ cleaner' = [cleaner EXCEPT ![u] =
                              IF u = "request" THEN "ok" ELSE "finishing"]
            /\ UNCHANGED <<stop, sdkClose>>
    /\ UNCHANGED <<process, aclose, request, spawning, child, turn, late>>

InnerFinishes(u) ==
    /\ ~Exited /\ cleaner[u] = "finishing"
    /\ FinalStop(u)
    /\ UNCHANGED <<process, aclose, request, spawning, child, turn, late>>

-----------------------------------------------------------------------------
(* aclose() *)

\* task.cancel(): the shared stop it may wait for is shielded and goes on.
CancelTask(u) ==
    cleaner' = [cleaner EXCEPT ![u] = IF @ \in Finished THEN @ ELSE "cancelled"]

Aclose(u) ==
    /\ aclose' = [aclose EXCEPT ![u] = "waiting"]
    /\ cleaner' = [cleaner EXCEPT ![u] = "created"]

AcloseReturns(u) ==
    /\ ~Exited /\ aclose[u] = "waiting" /\ cleaner[u] \in Finished
    /\ aclose' = [aclose EXCEPT ![u] = IF cleaner[u] = "ok" THEN "ok" ELSE "raised"]
    /\ UNCHANGED <<process, cleaner, request, stop, runtime>>

\* Mutant of BudgetResult: a result that no caller knows.
BudgetMistyped == "timeout"

\* The TimeoutError branch raises.
BudgetResult == "raised"

BudgetEnds(u) ==
    /\ ~Exited /\ aclose[u] = "waiting" /\ cleaner[u] \notin Finished
    /\ aclose' = [aclose EXCEPT ![u] = BudgetResult]
    /\ CancelTask(u)
    /\ UNCHANGED <<process, request, stop, runtime>>

\* The CancelledError branch waits once more, for at most three seconds.
AcloseCancelled(u) ==
    /\ aclose[u] = "waiting"
    /\ aclose' = [aclose EXCEPT ![u] = "lastChance"]

\* The budget of _graceful_then_exit fires before the equal one inside.
OuterBudgetEnds ==
    /\ ~Exited /\ AcloseCancelled("signal")
    /\ UNCHANGED <<process, cleaner, request, stop, runtime>>

\* Mutant of LastChanceResult: a cleanup that ends in time is a success.
LastChanceForgives(u) == IF cleaner[u] \in Finished THEN "ok" ELSE "raised"

\* ... and lets the cancellation propagate, whatever came of it.
LastChanceResult(u) == "raised"

LastChanceEnds(u) ==
    /\ ~Exited /\ aclose[u] = "lastChance"
    /\ aclose' = [aclose EXCEPT ![u] = LastChanceResult(u)]
    /\ CancelTask(u)
    /\ UNCHANGED <<process, request, stop, runtime>>

-----------------------------------------------------------------------------
(* SIGTERM and SIGHUP *)

\* _on_terminate_signal: a second signal finds shutdown_started set.
SignalShutsDown ==
    /\ ~Exited /\ Serving /\ aclose["signal"] = "idle"
    /\ Aclose("signal")
    /\ UNCHANGED <<process, request, stop, runtime>>

\* Before and after the loop the signals have their default effect.
SignalKills ==
    /\ main \in {"starting", "joining"}
    /\ Exit(Killed)
    /\ UNCHANGED <<main, status, cancelled, aclose, cleaner, request, stop, runtime>>

\* Mutant of ThreadsIdle: a reader outlives its connection until it is closed.
ThreadsClosed == ~spawning /\ (child = "none" \/ sdkClose = "ok")

\* The executors' threads: in client.start(), in an SDK close, or reading from a
\* live child.
ThreadsIdle == ~spawning /\ child # "alive" /\ sdkClose # "running"

\* Mutant of CanExit: sys.exit(), which has the interpreter join the threads.
CanExitPolitely == ThreadsIdle

\* os._exit waits for nobody.
CanExit == TRUE

\* _graceful_then_exit: BaseException is caught, the exit follows in any case.
GracefulExit ==
    /\ LoopRuns /\ aclose["signal"] \in {"ok", "raised"} /\ CanExit
    /\ Exit(IF aclose["signal"] = "ok" THEN 0 ELSE 1)
    /\ UNCHANGED <<main, status, cancelled, aclose, cleaner, request, stop, runtime>>

-----------------------------------------------------------------------------
(* The main task *)

\* server.run ends with stdin; lifespan's finally calls aclose().
InputEnds ==
    /\ ~Exited /\ main = "serving"
    /\ main' = "closing"
    /\ Aclose("lifespan")
    /\ UNCHANGED <<status, cancelled, exitCode, request, stop, runtime>>

\* The main task is cancelled while it serves, or inside aclose().
MainCancelled ==
    /\ "cancellation" \in Events
    /\ ~Exited /\ ~cancelled
    /\ \/ main = "serving" /\ main' = "closing" /\ Aclose("lifespan")
       \/ main = "closing" /\ AcloseCancelled("lifespan") /\ UNCHANGED <<main, cleaner>>
    /\ cancelled' = TRUE
    /\ UNCHANGED <<status, exitCode, request, stop, runtime>>

\* _serve returns 0 or 1, or lets a cancellation through; asyncio.run then cancels
\* every task: the shared stop, and the call, which closes a half-started runtime.
MainEnds ==
    /\ ~Exited /\ main = "closing" /\ aclose["lifespan"] \in {"ok", "raised"}
    /\ LET healthy == aclose["lifespan"] = "ok" /\ ~cancelled
       IN /\ main' = IF healthy THEN "returned" ELSE "raised"
          /\ status' = IF healthy THEN 0 ELSE 1
    /\ cleaner' = [u \in Cleaners |-> IF cleaner[u] \in Finished \cup {"idle"}
                                      THEN cleaner[u] ELSE "cancelled"]
    /\ aclose' = [aclose EXCEPT !["signal"] = IF @ = "waiting" THEN "lastChance" ELSE @]
    /\ stop' = IF stop = "running" THEN "none" ELSE stop
    /\ call' = IF call \in {"none", "sent"} THEN call ELSE "over"
    /\ sdkClose' = IF call = "starting" /\ sdkClose = "none" THEN "running" ELSE sdkClose
    /\ UNCHANGED <<cancelled, exitCode, calledOff, spawning, child, turn, late>>

\* Only a shutdown by signal outlives its cancellation, to exit by itself.
LoopCloses ==
    /\ ~Exited /\ main \in {"returned", "raised"} /\ aclose["signal"] = "idle"
    /\ main' = "joining"
    /\ UNCHANGED <<status, cancelled, exitCode, aclose, cleaner, request, stop, runtime>>

\* The interpreter joins the threads of every executor before it exits.
InterpreterExits ==
    /\ main = "joining" /\ ThreadsIdle
    /\ Exit(status)
    /\ UNCHANGED <<main, status, cancelled, aclose, cleaner, request, stop, runtime>>

-----------------------------------------------------------------------------
(* Specification *)

AtRest == Exited /\ UNCHANGED vars

Start == RefusesToStart \/ Serve
Environment ==
    \/ EarlierCall \/ CallAdmitted \/ TurnEnds \/ ChildCrashes
    \/ RequestCancelled \/ SignalShutsDown \/ SignalKills \/ InputEnds \/ MainCancelled
    \/ OuterBudgetEnds
Calling == GetBackend \/ Replace \/ Started \/ StartFails \/ SubmitTurn \/ CallEnds
Spawning == Spawn \/ StrayCloses
Stopping == SdkCloseEnds \/ StopSucceeds \/ StopFails
Cleaning(u) == InnerStarts(u) \/ InterruptReturns(u) \/ WaitEnds(u) \/ InnerFinishes(u)
Closing(u) == AcloseReturns(u) \/ BudgetEnds(u) \/ LastChanceEnds(u)
Ending == GracefulExit \/ MainEnds \/ LoopCloses \/ InterpreterExits

Next ==
    \/ Start \/ Environment \/ Calling \/ Spawning \/ Stopping \/ RequestFails \/ Ending
    \/ \E u \in Cleaners : Cleaning(u)
    \/ \E u \in Callers : Closing(u)
    \/ AtRest

\* Tasks, threads and timers get their turn; SDK closes end, as the SDK bounds
\* its waits.
Fairness ==
    /\ WF_vars(Calling) /\ WF_vars(Spawn) /\ WF_vars(Stopping) /\ WF_vars(Ending)
    /\ \A u \in Cleaners : WF_vars(Cleaning(u))
    /\ \A u \in Callers : WF_vars(Closing(u))

Spec == Init /\ [][Next]_vars
FairSpec == Spec /\ Fairness

-----------------------------------------------------------------------------
(* Properties *)

TypeOK ==
    /\ main \in {"starting", "serving", "closing", "returned", "raised", "joining"}
    /\ status \in {0, 1} /\ cancelled \in BOOLEAN
    /\ exitCode \in {Running, 0, 1, 2, 3, Killed}
    /\ aclose \in [Callers -> {"idle", "waiting", "lastChance", "ok", "raised"}]
    /\ cleaner \in [Cleaners -> CleanerStates]
    /\ stop \in {"none", "running", "ok"}
    /\ sdkClose \in {"none", "running", "ok", "failed"}
    /\ call \in {"none", "admitted", "replacing", "starting", "ready", "sent", "over", "failed"}
    /\ calledOff \in BOOLEAN /\ spawning \in BOOLEAN
    /\ child \in {"none", "alive", "dead", "stray"}
    /\ turn \in {"none", "executing", "ended", "lost"}
    /\ late \subseteq Callers

\* Exit code 0 is earned, wherever the shutdown overtook the call: no turn
\* executes, and an App Server that is still up was brought up by the call after
\* the shutdown that answers for it had looked (server.py, _graceful_then_exit;
\* cli.py, _serve: an unconfirmed shutdown is a failure).
ExitZeroIsEarned ==
    exitCode = 0 =>
        /\ turn # "executing"
        /\ child = "alive" => \E u \in late : aclose[u] = "ok"

\* A process that got SIGTERM while it served exits, whatever its runtime, its
\* stdin and the other shutdown do (_graceful_then_exit: shutdown must always exit).
SignalEnds == aclose["signal"] # "idle" ~> Exited

\* A process whose stdin has ended exits, unless an App Server stays alive.
InputEndEnds == main \notin {"starting", "serving"} ~> Exited \/ child = "alive"

=============================================================================
