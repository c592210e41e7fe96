# Verification of codex-app-mcp

codex-app-mcp is a stdio MCP server that offers two tools, `codex` and
`codex-reply`, and runs each call as one turn of a Codex App Server child
process. This directory holds TLA+ models of it, the TLC configurations that
check them, and proofs for TLAPS. Paths are relative to the repository
(`src/codex_app_mcp/...`); `coordinator.py` and `codex_sdk.py` are the two files
most of this is about.

    tlc -workers 2 -config one_call.cfg MCCoordinator.tla     # a run
    tlapm CoordinatorProofs.tla                               # a proof

## 1. Inventory

| component | state | operations | what is hard | modelled in |
|---|---|---|---|---|
| Execution coordinator (`coordinator.py`) | `_active`, per-run facts (`ActiveRun`), `_backend`, `_stop_tasks`, `_stopped_backends`, `_runtime_unrecoverable`, retained leases, the catalog cache | `run_codex`, `run_reply`, `_supervise`, `_cancel_run`, `_stop_backend`, `_replace_backend`, `_get_catalog`, `aclose` | cleanup, pump, stop and execution tasks of one call, and of the next, race | `Coordinator`; settings and catalog in `CallSettings`, several `aclose` in `BridgeShutdown` |
| SDK adapter (`backend/codex_sdk.py`) | `_state`, `_client`, `_pending_start_client`, `_start_aborted`, `_client_close_futures`, `_drain_task`, two control threads, two notification threads | `start_runtime`, `close`, RPCs, `next_turn_event`, `release_turn`, `_drain_globals` | the event loop races worker threads; a close can fail, be cancelled, or have no thread to run on | `SdkBackend`, `NotificationPool` |
| Turn result (`results.py`) | `TurnOutcome` | `observe`, `finalize`, envelopes | order of messages, errors and unreadable terminal events | `TurnResult` |
| Thread registry, advisory locks (`registry.py`) | thread records, flock files | `set_state`, `update_settings`, `thread_lock`, `workspace_lock` | several bridge processes; retained locks | `AdvisoryLocks`; records in `Coordinator` (state) and `CallSettings` (settings) |
| MCP server, process shutdown (`server.py`) | `shutdown_started` | `on_call_tool`, `lifespan`, SIGTERM handler | two shutdowns at a time, the exit code | `BridgeShutdown`; `on_call_tool` in `CallSettings` |
| Policy, model catalog (`policy.py`) | catalog entries | `check_*`, `validate_model`, `validate_effort` | stale catalog, a runtime that confirms something else | `CallSettings` |
| Configuration (`config.py`) | `BridgeConfig`, fixed at start | discovery, layers, confinement | precedence; files that belong to the checkout | `Configuration` |
| Contracts (`contracts.py`), errors (`errors.py`) | none | validation, which error wins | duplicates under two names | `CallContracts`, `BridgeErrors` |
| Command line (`cli.py`) | exit code | `serve`, `init`, `doctor` | what a failed shutdown is reported as | `serve` in `BridgeShutdown` and `CallSettings` |
| Logging, doctor | none | formatting, reports | nothing a model would show | no |
| SDK `openai_codex`, App Server | not in the repository | | everything they do is chosen by the environment | external actions |

How they interact. The server calls `run_codex`/`run_reply`, which reserve the
slot and let `_supervise` run the execution in a task of its own. The execution
task takes locks, obtains a backend (starting or replacing it), opens a thread,
sends the turn and waits for the event pump. Cancellation of the request starts
a cleanup task; an RPC error of a fatal code, a cleanup, a replacement and
`aclose` all stop backends through `_stop_backend`, which shares one task per
backend. The stop calls the adapter's `close()`. The adapter runs startups, RPCs
and closes of its SDK client on a pool of two threads.

What makes each component correct:

- coordinator: a turn that may be executing keeps the slot and its locks; a
  client is told the truth about its turn; what was called off sends no turn;
  one runtime at a time; a healthy shutdown leaves no turn; every call ends;
- adapter: a runtime in use is not replaced; no child that was registered is
  lost; `STOPPED` is evidence; every close ends;
- turn result: the text is the right message, a success needs a terminal event
  that says so;
- locks: turns of two bridges that would disturb each other exclude each other,
  and no path leaks a lock;
- process: it exits, and exit code 0 is evidence that nothing was left behind;
- settings: a turn runs with what the client asked for, inside what policy
  allows, or not at all; policy is the user's, not the checkout's.

`PROJECT.json` lists the hazards with their lines and the properties that watch
them.

## 2. The modules

| module | role |
|---|---|
| `TurnSlot` | what the coordinator promises of its slot: calls enter one at a time, at most one turn each, no other call enters once the bridge refuses work |
| `Coordinator` | `coordinator.py`, with backends behind their interface |
| `MCCoordinator` | call kinds and symmetry for TLC |
| `CoordinatorProofs`, `CoordinatorSafety` (EXTENDS it) | theorems: types, locks and slot; answers, runtimes, shutdown and the refinement |
| `SdkBackend`, `MCSdkBackend`, `SdkBackendProofs` | `codex_sdk.py`: one backend, its clients and threads; theorems |
| `NotificationPool`, `NotificationPoolProofs` | `codex_sdk.py`: the threads that the pump of a turn, the release of turns and the drain of global notifications share; theorems |
| `TurnResult`, `MCTurnResult`, `TurnResultProofs` | the reducer and the verdict on a turn; theorems |
| `AdvisoryLocks`, `MCAdvisoryLocks`, `AdvisoryLocksProofs` | flocks between bridge processes, the lease of a call; theorems |
| `BridgeShutdown`, `BridgeShutdownProofs` | how the process ends: SIGTERM, the end of stdin, both; theorems |
| `BridgeErrors` | a sequence of checks, and the code of the first that fails |
| `Configuration` (EXTENDS `BridgeErrors`) | `config.py`: which file, which layers, what is refused |
| `CallContracts` (EXTENDS `BridgeErrors`) | `contracts.py`: which arguments are refused, what an accepted call asks for |
| `CallSettings` (EXTENDS both), `MCCallSettings`, `CallSettingsProofs` | what a turn runs with: start, arguments, policy, catalog, confirmations; theorems |

### Coordinator

asyncio code is sequential between awaits, so an action is the code of one task
from one await to the next. The tasks are variables: `pc[r]` is the await at
which the execution task of run `r` is suspended, `pump[r]`, `sup[r]` (the
request handler) and `cleanup[r]` its companions, `stop[b]` the shared stop task
of a backend, `closer` the shutdown. The per-run booleans of `ActiveRun` are
sets of runs: `submitted`, `acked`, `confirmed`, `assured`, `cancelled`,
`terminal`. `poisoned` is `_runtime_unrecoverable`. `denied` names the tasks that
joined a stop which then failed (in the code they hold its `False` result; a new
stop of the same backend may begin before they look). A shutdown has two steps:
`aclose()` sets `_closed` (`closer = "called"`), and its inner task looks at the active
run and the current backend when its turn comes (`CloserBegins`).

Whether the bridge refuses work is read at admission only. A call that was admitted
before goes on next to a stop that fails, as it does in the code: it may replace
the runtime and send its turn.

`wire[r]` and `child[b]` are what is really happening in the App Server: whether
the turn was sent, runs, ended, or was lost with its process. The code cannot
read them; the properties do.

Abstractions, beyond leaving out what section 6 lists:

- Timers (deadline, grace, RPC timeout, shutdown budget) may fire whenever the
  code waits with one, earlier than anything else.
- The adapter is assumed honest: a `close()` that returns has killed the child,
  one that raises or runs out of time leaves it as it was. One that raised raises
  again, as its future in `_client_close_futures` does (`closes`); one that ran out of
  time may succeed when it is called again. `SdkBackend` tests the assumption, and
  section 5 shows where it fails.
- `child[b]` is the child that instance `b` serves. After `close()` has begun the
  instance adopts no other: a start then is `aborting`, and what its worker spawns
  and closes again is `SdkBackend`'s subject, as are two children of one instance.
- RPCs without a decision between them (catalog and thread read of one path)
  are one await, `preparing` or `settings`. A failing RPC degrades a `READY`
  backend only.
- Locks held by another process, a policy violation and a mismatch with the
  thread's settings are all `rejection`; the checks are those of `CallSettings`.
- `EXECUTION_STATE_UNKNOWN` is split by its origin, thread start or turn start.
  Whether an error announces side effects follows from its code.
  `OUTPUT_LIMIT_EXCEEDED` behaves as `TURN_FAILED`.
- A backend instance whose in-place restart first closes a degraded client does
  both in `STARTING`.
- When a task ends its local variables are reset, which only merges states.
- `AtRest` lets a system with nothing left to do stutter, so that TLC's deadlock
  check finds stuck tasks only.

### SdkBackend

Actors are the event loop (`starter`, `closer[k]`, `rpc[i]`), the control
threads (`queue`, `busy`, `worker[c]`, `stale`) and the SDK with its child
(`ref[c]`, `child[c]`). A step of the loop is the code between two awaits, a step
of a thread the code between two blocking calls; a loop segment that can be
interleaved with a thread is split where it takes the adopt lock
(`CloseEnters`, `CloseSnapshots`, `CloseRestores`), and no other loop step comes
in between. `future[c]` is the entry of a client in `_client_close_futures`.
`ref[c]` records who has the SDK's process reference: the SDK drops it before it
stops the child, so a second close is a no-op that succeeds. `registered` is the
history of the clients that were ever put into `_pending_start_client`, whatever
became of their startup.

Abstractions: RPC failures other than a closed transport change nothing and are
merged with `RpcReturns`; startup timeout and cancellation of the starter run
the same cleanup (`StartGivenUp`); a startup needs a client that was not used
yet (the bound on replacements).

### NotificationPool

One instance starts runtimes in place one after the other, and runs one turn
after the other. `queue` and `busy` are the executor: a job is a blocked
`next_turn_notification`, an unregistration, or a blocked `next_notification`;
`answer` is what its future holds until the task that awaits it has resumed.
`transport[c]` is the client's channel as the adapter finds it out, `routed[t]`
the events of a turn nobody has taken. Startup and close follow each other here:
their races are `SdkBackend`'s. That the next turn or restart waits for the end
of the turn before is `Coordinator!TurnHoldsSlot`.

### TurnResult

`Observe` is one iteration of the pump with `reducer.observe`; `seen` is the
history the properties are stated over. Items other than agent messages leave
the answer alone and are left out. A message text or error text is a model
value, and those in `Oversized` are over the size limit of a result; the code treats
an empty error text as absent, the model has none.

### AdvisoryLocks

An action is what one process does up to its next system call that another can
see. `flock` maps a file to the process that has locked it; `lease[p]` is what
`_RunLease` holds, `retained[p]` the leases that outlive their call because
nothing confirmed the end of the turn, and with them `poisoned[p]`. A new thread
takes the workspace first and the thread last, a reply the other way round, and
both give up what they have when a lock is taken. A process may end at any step,
which frees its locks. The coordinator's tasks are not repeated here: a turn is
over, or of unknown fate, by choice of the environment.

### BridgeShutdown

`aclose[u]` is the call of `aclose()` by the SIGTERM task or by the lifespan of
the server, `cleaner[u]` the inner task that it shields, or the cleanup of the
cancelled request; all of them share `stop`, the one stop task, and `sdkClose`,
the SDK close below it. `main` follows `_serve`, `asyncio.run` and the
interpreter, which joins the threads of the executors; the SIGTERM task leaves
by `os._exit`, which does not. The two equal budgets may fire in either order.
`call` is the execution task of a call, from its admission over the runtime it
starts or replaces to its turn, in steps that a shutdown may come between. The
runtime is spawned by a thread (`spawning`): one whose client was registered after
`close()` is `stray`, and one whose backend was installed after a shutdown had looked
for the current backend names that shutdown in `late`. An earlier call may have left a
runtime, up or being stopped.

### Configuration, CallContracts, CallSettings

Validation is a sequence of checks, each a record of a code and whether it
fails; `FirstFault` is the error that is raised (`BridgeErrors`). A text is a
model of a text: opaque but for being empty and for its size in bytes. A path is
a text with a directory, `Real`, in which links are resolved, and a directory is
the sequence of its names. A file that is no TOML, has an unknown key or a limit
that does not parse has the fault `malformed`.

`CallSettings` follows one call after the other over one thread, through
`on_call_tool`, `_execute_codex` or `_execute_reply`, `_get_catalog` and
`_validate_model_with_refresh`, `_finalize_new_settings`, `_confirm_snapshot` and
`_confirm_resume_cwd`, to `turn/start`. The runtime lists any catalog and
confirms any settings; it dies, is stopped and replaced, and its catalog is
stored after an await during which that may have happened. `Ids` are the values
of `id(backend)`, which Python uses again. Another client of the App Server may
move the thread or change its settings. What the runtime reports of a thread may
lack its model or its directory (`Reports`), as `ThreadSnapshot` allows; `known` is the
history of the models it has reported or run the thread with. Errors of RPCs end
the call with a code that says nothing about settings.

## 3. The runs

Coordinator runs, with the numbers of calls, backend instances and threads. Two
calls are what is needed for the leftovers of one call to meet the next, and two
instances allow one replacement; that nothing changes with more of them is proved,
for every safety property (section 4). The faults are spread over the runs, so
that each property is checked with the faults that endanger it.

| run | bounds | faults | properties |
|---|---|---|---|
| `one_call` | 1 / 1 / 1, both tools, fair | RPC timeout, disconnect, overload, unsupported request, rejection, cancellation, shutdown, unreadable terminal, deadline, failing stop | `TypeOK`, `RepliesHonest`, `AnswerSettles`, `CalledOffStaysOff`, `CallsSettle` |
| `overlapping_calls` | 2 / 2 / 2, writing replies, which take both locks | cancellation, RPC timeout, deadline, failing stop | `TurnHoldsLocks`, `TurnHoldsSlot`, `RecordFollowsTurn`, `ImplementsSlot` (refinement) |
| `replacement` | 2 / 2 / 2, writing new threads | crash, disconnect, unsupported request, failing start and stop, shutdown | `OneRuntime`, `HealthyLeavesNoTurn`, `CalledOffStaysOff` |

Adapter runs, with the numbers of clients and RPCs. Two clients are a runtime and
its replacement, and a third is one that is started while the second is given up.

| run | bounds | faults | properties |
|---|---|---|---|
| `adapter_replaces` | 3 / 1 | failing, slow and cancelled startups, RPC timeout, unsupported request, failing stop, `close()` | `OneInUse`, `KnownIsOwned`, `StoppedIsEvidence` |
| `adapter_ends` | 2 / 1, fair | failing, slow and cancelled startups, RPC timeout, crash, `close()` | `TypeOK`, `ClosedForGood`, `OperationsEnd` |
| `notifications` | 2 runtimes, 2 turns, 2 waiting events, fair | closing transports, unsupported request, RPC timeout, failing and stale close | `TypeOK`, `ReadyIsDrained`, `TerminalsConfirmed`, `PumpsEnd` |

`adapter_replaces` leaves out the crash only, which ends a child and is in
`adapter_ends`; the theorems on `KnownIsOwned` and `StoppedIsEvidence` are about every
event. Two children do live at a time in it
(section 5), and `OneInUse` is what the code keeps in all cases: that one of them is
being closed, was asked to, or is refused registration by its startup. What the code
keeps only until a start has closed a degraded client or a second client was
registered, `KnownIsOwned` and `StoppedIsEvidence`, is stated while `Calm`, and
section 5 says what happens after. `adapter_ends` has one RPC, as two that hang
leave no thread for a close, and no failing stop, after which a hung handshake has
nobody left to end it. The deadlock check of `notifications` is off: an App Server
that sends nothing leaves the pump waiting.

| run | bounds | what happens | properties |
|---|---|---|---|
| `turn_result` | up to 5 events, 2 texts, 2 errors | every sequence of events | `TypeOK`, `OutcomeIsTheTurns`, `SuccessIsEarned` |
| `two_processes` | 2 processes, 2 threads, 2 workspaces, fair | new threads and replies, reading and writing, unconfirmed turns, processes that end and start again | `TypeOK`, `TurnsExclusive`, `NothingLeaks`, `CallsEnd` |
| `process_exit` | 1 call and what one before it left, 1 runtime at a time, fair | SIGTERM, end of stdin, cancellation of the request and of the main task, failing and slow stops, crash | `TypeOK`, `ExitZeroIsEarned`, `SignalEnds`, `InputEndEnds` |
| `settings` | 1 thread, 2 models, 2 directories, 1 App Server | 80 startups and 28 sets of arguments, each a variation of one thing; models and directories that are not reported, approvals that are confirmed other than asked for | `TypeOK`, `TurnsAuthorised`, `NoFallback`, `PolicyIsConfined`, `HighestLayerWins` |
| `catalogs` | 1 thread, 2 models, 2 ids, 3 App Servers | one startup, few arguments; runtimes that die and are replaced, catalogs stored late | `CacheIsOwn`, `UnavailableIsFresh` |

Why the bounds are enough. Five events hold a fallback, a final answer, a later
one of each and the terminal event; the deadlock check of `turn_result` is off, as
a turn's events end. Exclusion and lock order are matters of two processes, and
two files of each kind let calls agree in one and differ in the other. A second
call would meet `BridgeShutdown` as a closed bridge; what the first leaves behind
is the coordinator's subject. In `settings` two App Servers and two ids are a
runtime and its replacement under the same or another id, a third one comes back
to the id of the first, and a catalog that lists one or both models is what a
refresh can change. What a catalog belongs to does not depend on the settings of
a call, so `settings` has one App Server and `catalogs` a few calls. The startups
vary one of file, environment and options at a time, and environment against
options in full, which is where precedence is decided.

Symmetry over calls, backends, threads and clients is used in the runs without
liveness properties; no action tells them apart.

### Fairness

`Coordinator!Fairness` is weak fairness of each task: the event loop runs a task
that is ready, and every await is bounded by a timer or by the backend's own
timeouts. Nothing is asked of the client or of the App Server: a turn that never
ends is ended by its deadline.

`SdkBackend!Fairness` is strong for tasks that contend for the loop or its locks,
which serve in FIFO order, and weak for threads. SDK closes end, as the SDK
bounds its waits. Handshakes and RPCs end only once their child is dead, and the
global drain is not fair at all. Only steps that need nothing of the child are
fair for a control thread (`WorkerGoesOn`).

`NotificationPool!Fairness` is weak for its tasks and for the threads that have
something to take; nothing is asked of the App Server. `BridgeShutdown!Fairness`
is weak for tasks and timers and for SDK closes. `AdvisoryLocks!Fairness` is weak
for the steps of a call: locks are not waited for, and every other await has a
bound.

## 4. What is proved

TLAPS checks the following for every value of the constants. What is assumed of
them is in the named ASSUMEs, which TLC evaluates in the runs: the "none" values are
not members, threads and workspaces are different, faults and calls are known ones,
numbers are numbers, and the models and efforts of `CallSettings` include those that
a configuration or an accepted call can name. A theorem with a hypothesis says so in
the table. Every safety invariant and action property that a passing run checks
is here, but for `OneInUse`.

| module | theorem | states |
|---|---|---|
| `CoordinatorProofs` | `TypeCorrect`, `Invariant` | `[]TypeOK`, `[]IInv` |
| | `LocksHeld`, `SlotHeld` | a turn that may be executing has its locks and the slot (`TurnHoldsLocks`, `TurnHoldsSlot`) |
| | `TurnsAlone` | at most one turn of the bridge may be executing |
| `CoordinatorSafety` | `RuntimeAlone`, `AnswersSettle` | `[]OneRuntime`, `[]AnswerSettles` |
| | `AnswersHonest`, `RecordsFollow` | `[]RepliesHonest`, `[]RecordFollowsTurn` |
| | `HealthyIsQuiet` | `HealthyLeavesNoTurn` |
| | `SlotImplemented` | `ImplementsSlot`: the coordinator implements `TurnSlot` |
| | `HolderAlone` | `[]Slot!OneHolder`: one call has the slot, by the refinement |
| | `CalledOffHolds` | `CalledOffStaysOff` |
| `SdkBackendProofs` | `AdapterTypeCorrect` | `[]TypeOK` |
| | `ClosedStaysClosed` | `[]ClosedForGood`, in behaviours without a `LateFailure` |
| | `ClosedStaysClosedWhereStopsSucceed` | `[]ClosedForGood`, where no SDK close fails |
| | `KnownOwnedWhileCalm`, `StoppedProvesWhileCalm` | `[]KnownIsOwned`, `[]StoppedIsEvidence`, which speak of an instance while it is `Calm` |
| | `KnownOwnedOfOneClient` | the same without `Calm`, of an instance with one client |
| `NotificationPoolProofs` | `PoolTypeCorrect`, `ReadyDrained` | `[]TypeOK`, `[]ReadyIsDrained` |
| `TurnResultProofs` | `OutcomeTypeCorrect`, `VerdictEarned` | `[]TypeOK`, `[]SuccessIsEarned`, for any number of events |
| | `OutcomeReduced` | `[]OutcomeIsTheTurns` |
| `AdvisoryLocksProofs` | `LocksTypeCorrect` | `[]TypeOK` |
| | `TurnsExcluded`, `NothingLeaked` | `[]TurnsExclusive`, `[]NothingLeaks`, for any number of processes |
| `BridgeShutdownProofs` | `ShutdownTypeCorrect` | `[]TypeOK` |
| | `ExitZeroEarned` | `[]ExitZeroIsEarned` |
| `CallSettingsProofs` | `SettingsTypeCorrect` | `[]TypeOK` |
| | `PolicyHolds` | `[]TurnsAuthorised`, for any configuration, arguments, catalogs and confirmations |
| | `NothingReplaced`, `AskedBeforeRefused` | `[]NoFallback`, `[]UnavailableIsFresh` |
| | `CacheOwned` | `[]CacheIsOwn` |
| | `PolicyConfined`, `LayersOrdered` | `PolicyIsConfined`, `HighestLayerWins` |

**Coordinator.** The code gives up locks and slot by one test, `Safe`: the terminal
event was read, the runtime's stop was confirmed, or nothing was sent. That is
sound only if the evidence is true, which is not visible in the test. `IInv`
therefore says that a confirmed run's turn has ended and an assured run's turn
cannot execute (`EvidenceIsTrue`); that a stop is true of the right runtime, as
a turn executes only in the live child of its run's own `backend_ref`
(`TurnHasChild`) and a backend remembered as stopped has no child and gets none
(`StoppedForGood`); that `turn/start` is sent once and after everything before it
(`SubmittedOnce`), so that "nothing was sent" is final for a run that is
cancelled; that waiting cleanups belong to submitted turns (`CleanupOfTurns`);
and that locks and slot were there when the turn was sent (`LocksOnTheWay`,
`SlotOnTheWay`). `TurnHoldsLocks` and `TurnHoldsSlot` are not inductive without
these. The proof has one lemma per group of `Next` and one case per action.

`CoordinatorSafety` strengthens `IInv` to `SInv`, for what concerns more than one
run or backend. A run that is not `terminal` has the slot, and leaves it safely or
not at all (`SlotIsActive`); a run that ended unsafely has poisoned the bridge
(`UnsafePoisons`); a backend that is not the current one was stopped or never used
(`OldBackendsGone`), also when a run replaces its own (`ReplacesInOrder`).
Together they say that all tasks that are still at work are at work on one run and
one backend, whether or not the bridge refuses work by then: a run that was admitted
before goes on in a poisoned bridge, and the invariant holds of it as of any other.
`CancelReaches` says that whoever was cancelled, by its client or by a shutdown that
has looked, is marked until its task ends, which is what `CalledOffStaysOff` needs.
`LastStopIsOwn`, `ResultsTrue`, `HandlerFollows` and `SubmittedLocked` carry the facts
about the last stop of shutdown, results, answers and records.

For the refinement the steps are sorted: one admits a call (`Enter`), one submits a
turn (`Execute`, or nothing when the runtime was not ready), and every other one
satisfies `Ends`, by which it loses a turn (`End`), frees the slot (`Leave`) or
poisons (`GiveUp`, `Leave`), and never loses a turn together with the other two.
`Execute` may come after `GiveUp`, as the holder of the slot is not stopped by the
refusal of others.
That the abstract slot has one holder is an invariant of `TurnSlot`, and the
refinement carries it over (`HolderAlone`).

**Adapter.** The types come first (`Types`), with one condition across variables: a
closer that is at a client has one to close. Two invariants follow, each proved
as far as the code keeps the property.

- `CloseInv`, for `ClosedForGood`. One `close()` at a time is between taking the
  references and giving them back (`OneCloser`); what it took is no longer in the
  fields (`TakenAway`); after a confirmed close both fields are empty and no closer
  has anything to put back (`GoneForGood`). One step breaks it, and the theorem
  names it: `LateFailure`, in which `start_runtime` hears that the close of a degraded
  client failed and puts that client back although `close()` has been through. It
  cannot happen where SDK closes do not fail, which is the situation of
  `adapter_ends`.
- `Held`, for `KnownIsOwned` and `StoppedIsEvidence`, by ownership: a living child in
  its handshake is the pending client, one that was returned is the client, or a
  `close()` that is under way took it from there (`OwnedBy`); what a closer has not
  confirmed is still on its list (`HeldAre`); the future of a close tells the truth of
  the child, and only a close that works or has failed holds the reference of a
  living one (`ClosesAre`); every job is there once (`JobsAre`). `NeverAborted` gives
  the order of startups before the first close. A stale client is closed outside of
  `_client_close_futures` (`codex_sdk.py:235`), which breaks `JobsAre` and `ClosesAre`
  and, once its caller is cancelled, the properties; and where `STOP_FAILED` was
  overwritten, a second client takes the field of one whose startup and close
  failed. So both are stated while `Calm`: no stale close was asked for, and no two
  clients were registered. With one client that is always so
  (`KnownOwnedOfOneClient`).

**Notifications.** `ReadyIsDrained` is inductive with the types, the finiteness of the
busy threads (their number is bounded by a cardinality) and `ClientIsThere`: the
client of a state that has one was started.

**Process exit.** `ExitZeroIsEarned` follows the exit code back to its evidence:
`_serve` returns 0 only after the lifespan's `aclose()` was healthy, and the SIGTERM
task exits on the answer of its own. A healthy answer is that of a cleaner which found
no runtime that it knew of (`AnswersAreCleaners`, `LeavesNone`): the shared stop was
confirmed, the SDK close below it killed the child (`StopIsTrue`), and a runtime
that was being spawned then is refused by its instance, or was installed after this
shutdown had looked, which `late` records. A turn executes in a living child only
(`TurnNeedsChild`), and none is sent once a shutdown has called the run off.

**Locks.** A lock is evidence of exclusion only while a lease and the lock file
agree, and they do not in the middle of an acquisition or a release. `IInv` of
`AdvisoryLocksProofs` says for each process that it has locked what its lease and
its retained leases hold and nothing else (`LeasesAreLocks`), that a process with
retained leases refuses work (`RetainedPoisons`), so that a retained turn is never
joined by another of the same process, and which locks each step of a call has
behind it (`LocksOnTheWay`). A file has one holder, so two executing turns cannot
share one.

**Settings.** `Carries(run)` says, at each step of a call, where the values it
carries come from and what was already checked of them: the arguments passed
their contract, the sandbox is that of the call or the operator and allowed, the
model was in the list and in the policy when its pass ended, the snapshot is what
the runtime confirmed and was compared. `TurnsAuthorised` speaks of the last step
only, which is why it is not inductive. A resumed thread may not report its model:
`ResumedIs` says which one the call then carries, and `Remembers` that the record it
falls back to names a model the runtime has reported of this thread or run it with.
Where neither names one (`Unseen`), the call carries no model and nothing is checked;
`TurnsAuthorised` says so, and section 5. Verdicts are sequences of at most nine
checks; the lemmas `AllPass` and `OneOfThem` turn `FirstFault(checks) = Ok` into
what each check says, by a least element found among nine (`Least`).

A catalog in hand or in the cache is `Own`: it belongs to a backend that was stopped,
to an earlier generation of the current one, or to the process that runs.
The first two never have the key of the current backend: `_stopped_backends` keeps a
reference to what was stopped, so that its `id()` is not given out again, and
generations grow. `CacheInv` adds that the current backend is not a stopped one, and
that the call's own backend either is the current one or was stopped.
`PolicyIsConfined` and `HighestLayerWins` speak of the one step that loads the
configuration, and need what each check of `Configuration` refuses (`FileAccepted`,
`LoadAccepted`). The types (`Typed`) need the enumeration of names, because a model
reaches the call from four sides: arguments, defaults, the thread and the runtime.

**Turn result.** Once the terminal event was seen nothing more is observed, so the
last event of the history is the one the verdict was read from (`Stopped`). The
outcome is a function of the whole history: `Kept` says for each field which event of
`seen` it is from, and a lemma for each kind of event how the last one of that kind
moves when an event is appended. The verdict of a completed turn depends on the
message through the size limit, so `VerdictEarned` has it follow from that text.

Only model-checked are `OneInUse` and what must eventually happen, as liveness under fairness is
out of the prover's reach: `CallsSettle`, `OperationsEnd`, `TerminalsConfirmed`,
`PumpsEnd`, `SignalEnds`, `InputEndEnds`, `CallsEnd`.

## 5. Where the code and its own words disagree

One run that TLC finds violated; `PROJECT.json` quotes the lines.

| run | what happens |
|---|---|
| `healthy_without_child` | A call that is replacing a backend while `aclose` runs installs and starts a fresh one after `aclose` has looked; shutdown is healthy and the child lives. |

Others that follow from the models, which no run is kept for. The first four
contradict what is written about the code.

- A failed stop does not reject all further work. `_close_backend` sets
  `_runtime_unrecoverable` (`coordinator.py:318`) and only `_reserve_slot` tests it
  (372): a call that was admitted before goes on through `_get_backend` (223-277) and
  `turn/start` (930-955). A close that ran out of time may succeed when the call
  asks again; then a fresh runtime is started and a turn sent in a poisoned bridge.
  `docs/architecture.md:25-26`: "An unconfirmed stop poisons the coordinator,
  retains ownership and locks, and rejects further work." The model does what the
  code does, and the properties of section 3 hold of such a call as well.
- Two children of one instance. A start that is cancelled in the close of a degraded
  client (`codex_sdk.py:235`) leaves that close running; the next start closes the
  same client again, which succeeds at once as the SDK has dropped its process
  reference, and spawns a child next to the old one. Against the comment at 229-231
  ("never start a new runtime while the old one's stop is unconfirmed") and that at
  428-430 ("cannot trigger a second, potentially no-op close and misclassify it as
  success"). `OneInUse` holds all the same: the old one is on its way out.
- Exit code 0 with an App Server alive. A call that was admitted before SIGTERM
  installs and starts a runtime after `aclose()` has looked for one
  (`coordinator.py:268`), or a control thread spawns its child after `close()` had
  nothing to close. `server.py:291-293` says "aclose() has either closed the runtime or
  exhausted its bounded cleanup by this point." `ExitZeroIsEarned` names both cases
  (`late`, and a child that is `stray`), and that no turn is sent in either.
- A resumed thread whose model the runtime does not report (`interface.py:83` allows
  that): the record's model stands in (`coordinator.py:874`), which may be older than
  the thread's; when the record has none either, line 884 skips catalog and
  allowlist. `docs/model-and-effort.md:9-10` says "Resumed threads are checked
  against current policy." `TurnsAuthorised` and `NoFallback` state what is left.
- A late RPC timeout overwrites `STOP_FAILED` with `DEGRADED`
  (`codex_sdk.py:574`; so do an unsupported request, 199, and a closed transport,
  602), and the instance can start again, although 407-408 calls `STOP_FAILED`
  sticky. The new client takes the place of the pending one whose close failed
  (332), and the reference to a living child is lost.
- `close()` while `client.start()` runs finds nothing to close, shuts the pool
  (`codex_sdk.py:509`) and reports `STOPPED`; the worker that is then told to abort
  cannot submit the close of its child (345), which is left alive.
  `StoppedIsEvidence` speaks of the clients the adapter has registered.
- A start that finishes under a running `close()` overwrites `STOPPING` with `READY`
  (`codex_sdk.py:302`), and the next start spawns a second child, which the abort
  flag makes it close again.
- With two RPCs, `OperationsEnd` fails in `adapter_ends`: both hang, hold both control
  threads (`codex_sdk.py:176`), and the close that would end them never runs.
  The coordinator gives up waiting by its own timer and refuses further work.
- An aborted startup waits for its SDK close with the adopt lock held
  (`codex_sdk.py:368-391`), which `close()` takes on the event loop: in a state
  with a worker in `aborting` and a closer in `snapshot` or `restore` the loop
  stands still for as long as the SDK close takes.
- An unsupported server request during `turn/start` is re-raised before the
  runtime is stopped (`coordinator.py:978`); the lease is settled as unsafe and the
  bridge refuses work although the stop then succeeds (562-563).
- A run that fails before it has a backend stops whatever backend is current
  (`coordinator.py:288`, 563), also one the next call is starting.
- `terminal_event` is set by a cleanup whose stop was confirmed (650), before the
  execution task has settled: a run can be in `terminal` while its `pc` is not
  `done`. The locks are still held then.
- A drain that ends after its instance was restarted in place degrades the new
  runtime (`codex_sdk.py:787-788` does not ask whose drain it is). This is spurious
  but safe: `ReadyIsDrained` shows that otherwise a ready runtime would be left
  without a drain, as the restart finds the old one not done (763).
- When stdin ends and the stop of the runtime then fails, `_serve` returns 1 but
  the interpreter joins the executors' threads, which the living child blocks: the
  process does not exit until the child does. `InputEndEnds` therefore asks for the
  child to be gone. SIGTERM leaves by `os._exit` and is not affected.
- The size limit of a call counts `compact_prompt` of `config` next to the merged
  value, so a prompt given there counts twice, and a direct `model` or `effort` not
  at all (`contracts.py:277-287`).
- A reply without an effort takes the registry's effort when the runtime confirms
  none, also after another client changed the thread (`CallSettings!ThreadResumed`).
- `_validate_startup_consistency` lets a default model outside `allowed_models` and a
  default directory outside the roots load; every call that uses them is refused.
- `_settle_lease` keeps the locks of an unconfirmed turn, but the kernel frees them
  when the bridge is killed, while its App Server may still execute the turn.
  `TurnsExclusive` is about living bridges.

## 6. Not modelled

Progress pings; the layout of envelopes and results; the
conversion of snapshots and event payloads (`interface.py` is data types); the
JSON schema that clients are shown; `init` and `doctor`, which write a file and a
report; logging; the SDK's and the App Server's own code. The syntax of TOML and
of environment variables is one fault of a layer. Whether an answer written
before `os._exit` has reached the client is below the level of the models.

The composition of `Coordinator` with `SdkBackend` is not checked as one model:
`Coordinator` alone has more than two million states at the bounds of its runs, and
`SdkBackend` more than one million. `Coordinator` assumes of `close()`
that its answer is true, `SdkBackend` is checked for that (`StoppedIsEvidence`), and
section 5 lists where it is not.

## 7. What is left

1. Proofs: `OneInUse`, which TLC checks for three clients; `KnownIsOwned` after a
   stale close, up to the cancellation that breaks it.
2. A composition of the coordinator with an abstract adapter that fails the way
   section 5 describes, to see which of those failures its own timers absorb.
3. Two calls in `CallSettings` whose awaits interleave with a cleanup of the first.
