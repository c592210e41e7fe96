---------------------------- MODULE NotificationPool ----------------------------
(***************************************************************************)
(* The notification executor of one backend instance (codex_sdk.py): its   *)
(* two threads serve the pump of the turn, which asks for one event at a   *)
(* time, the release of a turn that ended, and the drain of the global     *)
(* notifications, across the runtimes the instance starts in place.        *)
(*                                                                         *)
(* start_runtime and close() follow each other here; their races are the   *)
(* subject of SdkBackend.  Turns follow each other too: the coordinator    *)
(* starts one, or restarts the runtime, when the end of the one before is  *)
(* confirmed (Coordinator, TurnHoldsSlot).                                 *)
(***************************************************************************)
EXTENDS Naturals, Sequences, FiniteSets, SequencesExt

CONSTANTS
    MaxClients, \* SDK clients the instance constructs, in this order (a bound)
    MaxTurns,   \* turns it runs, in this order (a bound)
    MaxRouted   \* events of a turn that wait at a time (a bound)

ASSUME PoolConstants == {MaxClients, MaxTurns, MaxRouted} \subseteq Nat \ {0}

Clients == 1..MaxClients
NoClient == 0
Turns == 1..MaxTurns

VARIABLES
    state, unsupported, client, shut,   \* fields of CodexSdkBackend
    lifecycle,  \* the start_runtime or close() under way, and its client
    drain,      \* _drain_task
    pump,       \* _pump_turn_events of each turn
    confirmed,  \* turns whose terminal event a pump has seen
    queue, busy,    \* jobs of the executor that wait for a thread or have one
    answer,     \* what a job's future holds until its task has resumed
    transport,  \* of each client
    routed      \* events of each turn that nobody has taken

adapter == <<state, unsupported, client, shut, lifecycle>>
tasks   == <<drain, pump, confirmed>>
pool    == <<queue, busy, answer>>
sdk     == <<transport, routed>>
vars == <<adapter, tasks, pool, sdk>>

\* Mutant of MaxWorkers: the threads are one too few.
OneWorker == 1

\* ThreadPoolExecutor(max_workers=2)
MaxWorkers == 2

Jobs == ({"global"} \X Clients) \cup ({"event", "release"} \X Turns)
NoLifecycle == [pc |-> "idle", on |-> NoClient]

Init ==
    /\ state = "STOPPED" /\ unsupported = FALSE /\ client = NoClient /\ shut = FALSE
    /\ lifecycle = NoLifecycle
    /\ drain = "none"
    /\ pump = [t \in Turns |-> [pc |-> "none", on |-> NoClient]]
    /\ confirmed = {}
    /\ queue = <<>> /\ busy = {}
    /\ answer = [j \in Jobs |-> "none"]
    /\ transport = [c \in Clients |-> "none"]
    /\ routed = [t \in Turns |-> <<>>]

Submit(job) ==
    /\ queue' = Append(queue, job)
    /\ UNCHANGED <<busy, answer>>

\* A task has resumed with the answer of its job.
Heard(job) == answer' = [answer EXCEPT ![job] = "none"]

\* Every turn the instance ran has ended as far as the coordinator can tell.
TurnsOver == \A t \in Turns : pump[t].pc # "none" => t \in confirmed

-----------------------------------------------------------------------------
(* start_runtime and close *)

StartRequested ==
    /\ lifecycle.pc = "idle" /\ TurnsOver
    /\ state \in {"STOPPED", "DEGRADED"} /\ ~shut
    /\ transport[MaxClients] = "none"
    /\ unsupported' = FALSE
    /\ IF state = "DEGRADED" /\ client # NoClient
       THEN lifecycle' = [pc |-> "staleClosing", on |-> client] /\ UNCHANGED state
       ELSE lifecycle' = [pc |-> "starting", on |-> NoClient] /\ state' = "STARTING"
    /\ UNCHANGED <<client, shut, tasks, pool, sdk>>

StaleClosed ==
    /\ lifecycle.pc = "staleClosing" /\ transport[lifecycle.on] = "closed"
    /\ lifecycle' = [pc |-> "starting", on |-> NoClient]
    /\ client' = NoClient /\ state' = "STARTING"
    /\ UNCHANGED <<unsupported, shut, tasks, pool, sdk>>

\* _start_sync adopts a client in a control thread.
Adopt(c) ==
    /\ lifecycle.pc = "starting"
    /\ transport[c] = "none" /\ \A d \in 1..(c - 1) : transport[d] # "none"
    /\ transport' = [transport EXCEPT ![c] = "open"]
    /\ client' = c
    /\ lifecycle' = [pc |-> "adopted", on |-> c]
    /\ UNCHANGED <<state, unsupported, shut, tasks, pool, routed>>

\* _start_global_drain leaves a drain alone that is not done.
DrainRuns == drain \in {"asking", "waiting"}

Started ==
    /\ lifecycle.pc = "adopted"
    /\ state' = "READY"
    /\ drain' = IF DrainRuns THEN drain ELSE "asking"
    /\ lifecycle' = NoLifecycle
    /\ UNCHANGED <<unsupported, client, shut, pump, confirmed, pool, sdk>>

\* The drain waits for a thread: it has one job at a time.
DrainQueued == \E i \in DOMAIN queue : queue[i][1] = "global"

\* close() cancels the drain; a thread that waits for it goes on waiting.
CloseCalled ==
    /\ lifecycle.pc = "idle" /\ state # "STOP_FAILED" /\ ~shut
    /\ state' = "STOPPING"
    /\ drain' = IF DrainRuns THEN "ended" ELSE drain
    /\ IF DrainQueued
       THEN \E i \in DOMAIN queue : queue[i][1] = "global" /\ queue' = RemoveAt(queue, i)
       ELSE UNCHANGED queue
    /\ lifecycle' = [pc |-> "closing", on |-> client]
    /\ client' = NoClient
    /\ UNCHANGED <<unsupported, shut, pump, confirmed, busy, answer, sdk>>

\* The executor takes no more jobs; those it has are served.
CloseStops ==
    /\ lifecycle.pc = "closing"
    /\ lifecycle.on # NoClient => transport[lifecycle.on] = "closed"
    /\ shut' = TRUE /\ state' = "STOPPED"
    /\ lifecycle' = NoLifecycle
    /\ UNCHANGED <<unsupported, client, tasks, pool, sdk>>

\* The SDK's close raised, in close() or in start_runtime.
StopFails ==
    /\ lifecycle.pc \in {"closing", "staleClosing"} /\ lifecycle.on # NoClient
    /\ state' = "STOP_FAILED" /\ client' = lifecycle.on
    /\ lifecycle' = NoLifecycle
    /\ UNCHANGED <<unsupported, shut, tasks, pool, sdk>>

\* _call_rpc: the RPC was sent to one of the runtimes so far, maybe not the one
\* of now, and whatever the state has become.
RpcTimesOut ==
    /\ \E c \in Clients : transport[c] # "none"
    /\ state' = "DEGRADED"
    /\ UNCHANGED <<unsupported, client, shut, lifecycle, tasks, pool, sdk>>

-----------------------------------------------------------------------------
(* The pump of a turn *)

\* turn/start is acknowledged, and the pump created.
TurnStarts(t) ==
    /\ lifecycle.pc = "idle" /\ TurnsOver
    /\ state = "READY" /\ ~unsupported /\ client # NoClient
    /\ pump[t].pc = "none" /\ \A u \in 1..(t - 1) : pump[u].pc # "none"
    /\ pump' = [pump EXCEPT ![t] = [pc |-> "asking", on |-> client]]
    /\ UNCHANGED <<adapter, drain, confirmed, pool, sdk>>

\* next_turn_event: _require_ready raises, or the executor is asked.
PumpAsks(t) ==
    /\ pump[t].pc = "asking"
    /\ IF unsupported \/ client = NoClient \/ state # "READY"
       THEN pump' = [pump EXCEPT ![t].pc = "failed"] /\ UNCHANGED pool
       ELSE pump' = [pump EXCEPT ![t].pc = "waiting"] /\ Submit(<<"event", t>>)
    /\ UNCHANGED <<adapter, drain, confirmed, sdk>>

\* The event is observed; the next one is asked for once progress is reported.
PumpGetsItem(t) ==
    /\ pump[t].pc = "waiting" /\ answer[<<"event", t>>] = "item"
    /\ Heard(<<"event", t>>)
    /\ pump' = [pump EXCEPT ![t].pc = "asking"]
    /\ UNCHANGED <<adapter, drain, confirmed, queue, busy, sdk>>

\* Mutant of AfterTerminal: the pump goes on to a state of its own.
AfterTerminalMistyped == "done"

\* release_turn has nothing to do without a client or an executor.
AfterTerminal == IF client = NoClient \/ shut THEN "ended" ELSE "releasing"

PumpGetsTerminal(t) ==
    /\ pump[t].pc = "waiting" /\ answer[<<"event", t>>] = "terminal"
    /\ Heard(<<"event", t>>)
    /\ confirmed' = confirmed \cup {t}
    /\ pump' = [pump EXCEPT ![t].pc = AfterTerminal]
    /\ queue' = IF AfterTerminal = "releasing" THEN Append(queue, <<"release", t>>)
                ELSE queue
    /\ UNCHANGED <<adapter, drain, busy, sdk>>

\* _map_error degrades the instance whatever its state is.
PumpGetsError(t) ==
    /\ pump[t].pc = "waiting" /\ answer[<<"event", t>>] = "raised"
    /\ Heard(<<"event", t>>)
    /\ pump' = [pump EXCEPT ![t].pc = "failed"]
    /\ state' = IF transport[pump[t].on] = "closed" THEN "DEGRADED" ELSE state
    /\ UNCHANGED <<unsupported, client, shut, lifecycle, drain, confirmed, queue,
                   busy, sdk>>

PumpReleased(t) ==
    /\ pump[t].pc = "releasing" /\ answer[<<"release", t>>] # "none"
    /\ Heard(<<"release", t>>)
    /\ pump' = [pump EXCEPT ![t].pc = "ended"]
    /\ UNCHANGED <<adapter, drain, confirmed, queue, busy, sdk>>

-----------------------------------------------------------------------------
(* _drain_globals *)

\* The client is looked up anew for every notification.
AsksForGlobal ==
    IF client = NoClient THEN drain' = "ended" /\ UNCHANGED queue
    ELSE drain' = "waiting" /\ queue' = Append(queue, <<"global", client>>)

DrainBegins ==
    /\ drain = "asking"
    /\ AsksForGlobal
    /\ UNCHANGED <<adapter, pump, confirmed, busy, answer, sdk>>

\* The callback runs, and the next notification is asked for.
DrainGetsItem(c) ==
    /\ drain = "waiting" /\ answer[<<"global", c>>] = "item"
    /\ Heard(<<"global", c>>)
    /\ AsksForGlobal
    /\ UNCHANGED <<adapter, pump, confirmed, busy, sdk>>

\* Mutant of DegradedByDrain: only the runtime the drain read from is degraded.
DegradedIfCurrent(c) == c = client /\ state = "READY"

\* The runtime that is ready is degraded, be it the one the drain read from.
DegradedByDrain(c) == state = "READY"

\* The reader of the client is dead, by an unsupported request or otherwise.
DrainGetsError(c) ==
    /\ drain = "waiting" /\ answer[<<"global", c>>] = "raised"
    /\ Heard(<<"global", c>>)
    /\ drain' = "ended"
    /\ unsupported' = (unsupported \/ transport[c] = "refused")
    /\ state' = IF transport[c] = "refused" \/ DegradedByDrain(c) THEN "DEGRADED"
                ELSE state
    /\ UNCHANGED <<client, shut, lifecycle, pump, confirmed, queue, busy, sdk>>

-----------------------------------------------------------------------------
(* The threads of the executor *)

Take ==
    /\ queue # <<>> /\ Cardinality(busy) < MaxWorkers
    /\ busy' = busy \cup {Head(queue)} /\ queue' = Tail(queue)
    /\ UNCHANGED <<adapter, tasks, answer, sdk>>

\* An answer nobody waits for any more is dropped.
Answers(job, value) ==
    /\ job \in busy
    /\ busy' = busy \ {job}
    /\ answer' = IF job[1] = "global" /\ drain # "waiting" THEN answer
                 ELSE [answer EXCEPT ![job] = value]
    /\ UNCHANGED <<adapter, tasks, queue, transport>>

\* A global notification comes in, or was waiting.
TakesGlobal(c) ==
    /\ Answers(<<"global", c>>, "item")
    /\ transport[c] = "open"
    /\ UNCHANGED routed

TakesEvent(t) ==
    /\ routed[t] # <<>>
    /\ routed' = [routed EXCEPT ![t] = Tail(@)]
    /\ Answers(<<"event", t>>, Head(routed[t]))

\* unregister_turn_notifications waits for nothing.
Releases(t) == Answers(<<"release", t>>, "item") /\ UNCHANGED routed

\* A waiter is woken up when the reader of its client is dead.
Wakes(job, c) ==
    /\ Answers(job, "raised")
    /\ transport[c] \in {"closed", "refused"}
    /\ UNCHANGED routed

-----------------------------------------------------------------------------
(* The SDK and the App Server (external) *)

\* The client is closed by the adapter, or its child dies.
Closes(c) ==
    /\ transport[c] \in {"open", "refused"}
    /\ transport' = [transport EXCEPT ![c] = "closed"]
    /\ UNCHANGED <<adapter, tasks, pool, routed>>

\* _deny_approval_handler raises in the reader thread.
Refuses(c) ==
    /\ transport[c] = "open"
    /\ transport' = [transport EXCEPT ![c] = "refused"]
    /\ unsupported' = TRUE /\ state' = "DEGRADED"
    /\ UNCHANGED <<client, shut, lifecycle, tasks, pool, routed>>

\* Nothing follows the terminal event of a turn.
SendsEvent(t) ==
    /\ pump[t].pc # "none" /\ transport[pump[t].on] = "open"
    /\ t \notin confirmed /\ "terminal" \notin Range(routed[t])
    /\ answer[<<"event", t>>] # "terminal" /\ Len(routed[t]) < MaxRouted
    /\ \E event \in {"item", "terminal"} :
          routed' = [routed EXCEPT ![t] = Append(@, event)]
    /\ UNCHANGED <<adapter, tasks, pool, transport>>

-----------------------------------------------------------------------------

Lifecycle ==
    \/ StartRequested \/ StaleClosed \/ Started \/ CloseCalled \/ CloseStops
    \/ StopFails \/ RpcTimesOut \/ \E c \in Clients : Adopt(c)
PumpGoesOn(t) ==
    \/ PumpAsks(t) \/ PumpGetsItem(t) \/ PumpGetsTerminal(t) \/ PumpGetsError(t)
    \/ PumpReleased(t)
DrainGoesOn ==
    DrainBegins \/ \E c \in Clients : DrainGetsItem(c) \/ DrainGetsError(c)
ServesPump(t) == TakesEvent(t) \/ Releases(t) \/ Wakes(<<"event", t>>, pump[t].on)
ServesDrain(c) == Wakes(<<"global", c>>, c)
AppServer ==
    \/ \E c \in Clients : TakesGlobal(c) \/ Closes(c) \/ Refuses(c)
    \/ \E t \in Turns : SendsEvent(t)

Next ==
    \/ Lifecycle \/ DrainGoesOn \/ Take \/ AppServer
    \/ \E t \in Turns : TurnStarts(t) \/ PumpGoesOn(t) \/ ServesPump(t)
    \/ \E c \in Clients : ServesDrain(c)

Spec == Init /\ [][Next]_vars

\* Tasks and threads get their turn.  Nothing is assumed of the App Server: it
\* need not send anything, and need not end.
Fairness ==
    /\ WF_vars(Take) /\ WF_vars(DrainGoesOn)
    /\ \A t \in Turns : WF_vars(PumpGoesOn(t)) /\ WF_vars(ServesPump(t))
    /\ \A c \in Clients : WF_vars(ServesDrain(c))

FairSpec == Spec /\ Fairness

-----------------------------------------------------------------------------
(* Properties *)

\* The fields, tasks, jobs and channels keep their types, and the executor has no
\* thread too many.
TypeOK ==
    /\ state \in {"STOPPED", "STARTING", "READY", "DEGRADED", "STOPPING", "STOP_FAILED"}
    /\ unsupported \in BOOLEAN /\ shut \in BOOLEAN
    /\ client \in Clients \cup {NoClient}
    /\ lifecycle \in [pc : {"idle", "staleClosing", "starting", "adopted", "closing"},
                      on : Clients \cup {NoClient}]
    /\ drain \in {"none", "asking", "waiting", "ended"}
    /\ pump \in [Turns -> [pc : {"none", "asking", "waiting", "releasing", "ended",
                                 "failed"}, on : Clients \cup {NoClient}]]
    /\ confirmed \subseteq Turns
    /\ queue \in Seq(Jobs) /\ busy \subseteq Jobs /\ Cardinality(busy) <= MaxWorkers
    /\ answer \in [Jobs -> {"none", "item", "terminal", "raised"}]
    /\ transport \in [Clients -> {"none", "open", "refused", "closed"}]
    /\ routed \in [Turns -> Seq({"item", "terminal"})]

\* What the docstring of _drain_globals asks for: a runtime that takes calls has
\* a live drain, also when the instance restarted it in place while the drain of
\* the runtime before had not ended yet.
ReadyIsDrained == state = "READY" => drain \in {"asking", "waiting"}

\* The end of a turn is never stuck behind the waiters that hold the threads:
\* its pump confirms it, or has failed because the runtime is not ready any more.
TerminalsConfirmed == \A t \in Turns :
    "terminal" \in Range(routed[t]) ~> t \in confirmed \/ pump[t].pc = "failed"

\* The docstring of _pump_turn_events: the pump ends when the terminal event
\* arrives, or when the runtime dies; and the release that follows the terminal
\* event does not hold it up.
PumpsEnd == \A t \in Turns :
    \/ pump[t].pc = "releasing"
    \/ pump[t].pc \in {"asking", "waiting"} /\ transport[pump[t].on] # "open"
    ~> pump[t].pc \in {"ended", "failed"}

=============================================================================
