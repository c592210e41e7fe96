------------------------------ MODULE SdkBackend ------------------------------
(***************************************************************************)
(* The SDK adapter (backend/codex_sdk.py): one backend instance, the App   *)
(* Server children it spawns through SDK clients, and the two worker       *)
(* threads of the control executor that starts, RPCs and closes share.     *)
(*                                                                         *)
(* Three kinds of actor take steps:                                        *)
(*   the event loop: start_runtime, every caller of close() and the        *)
(*   callers of RPCs; an action is the code between two awaits;            *)
(*   the control threads: an action is the code between two blocking calls *)
(*   (client.start, client.initialize, an RPC, client.close, the adopt     *)
(*   lock, the result of a concurrent future);                             *)
(*   the SDK and the child process behind each client (external).          *)
(* Timers are abstracted: a startup or RPC timeout may fire whenever the   *)
(* code waits with one.                                                    *)
(***************************************************************************)
EXTENDS Naturals, Sequences, FiniteSets, SequencesExt

CONSTANTS
    Clients,    \* SDK clients the adapter can construct (a bound)
    Rpcs,       \* RPC calls that can be in flight at a time (a bound)
    Events,     \* what may go wrong, a subset of AllEvents (a bound)
    NoClient

AllEvents == {"startupTimeout", "rpcTimeout", "cancellation", "spawnFailure",
              "handshakeFailure", "stopFailure", "crash", "unsupported", "close"}

ASSUME SdkConstants == NoClient \notin Clients /\ Events \subseteq AllEvents

\* ThreadPoolExecutor(max_workers=2)
MaxWorkers == 2

VARIABLES
    (* fields of CodexSdkBackend *)
    state,          \* _state
    unsupported,    \* _unsupported is set
    aborted,        \* _start_aborted
    client,         \* _client
    pending,        \* _pending_start_client
    shut,           \* _closed_executors
    future,         \* _client_close_futures: the registered close per client
    (* tasks of the event loop *)
    starter,        \* start_runtime, serialized by _start_lock
    closer,         \* the callers of close(), serialized by _close_lock
    rpc,            \* the RPC calls
    (* the control executor *)
    queue, busy,    \* jobs that wait for a thread and jobs that have one
    worker,         \* _start_sync of each client
    stale,          \* the last stale.close() of start_runtime
    (* the SDK clients and their children *)
    ref,            \* who has the client's process reference
    child,
    (* history *)
    registered      \* the clients that _start_sync has registered so far

flags    == <<unsupported, aborted, shut>>
owned    == <<client, pending, registered>>
adapter  == <<state, flags, owned, future>>
tasks    == <<starter, closer, rpc>>
pool     == <<queue, busy>>
threads  == <<worker, stale>>
executor == <<pool, threads>>
sdk      == <<ref, child>>
vars == <<adapter, tasks, executor, sdk>>

-----------------------------------------------------------------------------
(* Values *)

States == {"STOPPED", "STARTING", "READY", "DEGRADED", "STOPPING", "STOP_FAILED"}
ClientOrNone == Clients \cup {NoClient}

\* close() is called by the coordinator's stop task and by start_runtime.
Closers == {"stop", "startup"}

Jobs == ({"start", "close", "stale"} \X Clients) \cup ({"rpc"} \X Rpcs)

\* A close future: absent, submitted, its result, or removed after success.
FutureStates == {"none", "asked", "ok", "failed", "popped"}

\* _start_sync holds the adopt lock while it waits in "aborting".
WorkerStates == {"none", "queued", "spawning", "spawned", "handshake",
                 "adopting", "failing", "awaitClose", "aborting", "returned",
                 "raised"}

\* A close() call: the clients it took, those it still has to close, and those
\* whose stop it has confirmed.
IdleCloser == [pc |-> "idle", pending |-> NoClient, client |-> NoClient,
               todo |-> <<>>, confirmed |-> {}]
IdleRpc == [pc |-> "idle", on |-> NoClient]

-----------------------------------------------------------------------------
(* Helpers *)

\* Mutant of AdoptLockFree: initialize() runs under the adopt lock as well.
LockHeldByHandshake ==
    \A c \in Clients : worker[c] \notin {"aborting", "handshake"}

\* No control thread holds the adopt lock across a wait.
AdoptLockFree == \A c \in Clients : worker[c] # "aborting"

\* No close() call is between two awaits, so another task can run.
LoopFree == \A k \in Closers : closer[k].pc \in {"idle", "waiting", "closing"}

\* Mutant of Failing: a state that no reader of the field knows.
FailingMistyped == IF state = "STOP_FAILED" THEN state ELSE "FAILED"

\* The state after a failed start, which keeps the evidence of a failed stop.
Failing == IF state = "STOP_FAILED" THEN state ELSE "DEGRADED"

\* Mutant of Asked: every close request submits another SDK close.
NeverAsked(c) == FALSE

\* A close of the client is registered.
Asked(c) == future[c] \in {"asked", "ok", "failed"}

\* Waiters keep the future they joined when its entry is removed.
StopConfirmed(c) == future[c] \in {"ok", "popped"}
StopFailed(c) == future[c] = "failed"

\* Submitting raises once the executor has been shut down.
CanAsk(c) == Asked(c) \/ ~shut

\* Register a close of the client unless one is registered.
Ask(c) ==
    /\ future' = IF Asked(c) THEN future ELSE [future EXCEPT ![c] = "asked"]
    /\ queue' = IF Asked(c) THEN queue ELSE Append(queue, <<"close", c>>)

\* wait_for cancels a job that no thread has taken yet.
Queued(job) == \E i \in DOMAIN queue : queue[i] = job
Withdraw(job) ==
    IF Queued(job)
    THEN \E i \in DOMAIN queue : queue[i] = job /\ queue' = RemoveAt(queue, i)
    ELSE UNCHANGED queue

IdleStarter == [pc |-> "idle", on |-> NoClient]

\* _start_sync is handed to the control executor with a new client.
Submit(c) ==
    /\ worker[c] = "none"
    /\ worker' = [worker EXCEPT ![c] = "queued"]
    /\ queue' = Append(queue, <<"start", c>>)
    /\ starter' = [pc |-> "starting", on |-> c]

\* close() is called: it enters at once, or waits for the close lock.
Call(k) ==
    closer' = [closer EXCEPT ![k].pc =
        IF \A other \in Closers : closer[other].pc = "idle" THEN "entering"
        ELSE "waiting"]

\* start_runtime goes on to close() and will raise.
CleanUp ==
    /\ starter' = [pc |-> "closing", on |-> NoClient]
    /\ Call("startup")

Init ==
    /\ state = "STOPPED" /\ unsupported = FALSE /\ aborted = FALSE
    /\ client = NoClient /\ pending = NoClient /\ shut = FALSE
    /\ future = [c \in Clients |-> "none"]
    /\ starter = IdleStarter
    /\ closer = [k \in Closers |-> IdleCloser]
    /\ rpc = [i \in Rpcs |-> IdleRpc]
    /\ queue = <<>> /\ busy = {}
    /\ worker = [c \in Clients |-> "none"]
    /\ stale = "none"
    /\ ref = [c \in Clients |-> "held"]
    /\ child = [c \in Clients |-> "none"]
    /\ registered = {}

-----------------------------------------------------------------------------
(* start_runtime *)

\* Mutant of MustCloseStale: a degraded runtime is replaced as it is.
NeverCloseStale == FALSE

\* A degraded runtime may be alive and is closed before its replacement starts.
MustCloseStale == state = "DEGRADED" /\ client # NoClient

\* The calls that return or raise at once change nothing and are left out.  A
\* replacement needs a client that is still unused (a bound).
StartRequested(c) ==
    /\ LoopFree /\ starter.pc = "idle"
    /\ ~(client # NoClient /\ state = "READY")
    /\ state \notin {"STOP_FAILED", "STOPPING"} /\ ~shut
    /\ unsupported' = FALSE
    /\ IF MustCloseStale
       THEN /\ c = client /\ \E d \in Clients : worker[d] = "none"
            /\ starter' = [pc |-> "staleClosing", on |-> c]
            /\ stale' = "asked"
            /\ queue' = Append(queue, <<"stale", c>>)
            /\ UNCHANGED <<state, worker>>
       ELSE /\ Submit(c)
            /\ state' = "STARTING"
            /\ UNCHANGED stale
    /\ UNCHANGED <<aborted, owned, shut, future, closer, rpc, busy, sdk>>

\* The stale runtime is gone.  A close() that ran meanwhile has shut the
\* executor down, and submitting to it raises.
StaleClosed(c) ==
    /\ LoopFree /\ starter.pc = "staleClosing" /\ stale = "ok"
    /\ client' = NoClient
    /\ IF shut
       THEN /\ CleanUp /\ c = starter.on
            /\ state' = "DEGRADED"
            /\ UNCHANGED <<queue, worker>>
       ELSE Submit(c) /\ state' = "STARTING" /\ UNCHANGED closer
    /\ UNCHANGED <<flags, pending, registered, future, rpc, busy, stale, sdk>>

StaleFailed ==
    /\ LoopFree /\ starter.pc = "staleClosing" /\ stale = "failed"
    /\ client' = starter.on
    /\ state' = "STOP_FAILED"
    /\ starter' = IdleStarter
    /\ UNCHANGED <<flags, pending, registered, future, closer, rpc, executor, sdk>>

\* Nothing in the code handles a cancellation here: the close goes on alone.
StaleCancelled ==
    /\ "cancellation" \in Events
    /\ LoopFree /\ starter.pc = "staleClosing"
    /\ Withdraw(<<"stale", starter.on>>)
    /\ starter' = IdleStarter
    /\ UNCHANGED <<adapter, closer, rpc, busy, threads, sdk>>

\* READY is assigned whatever the state has become in the meantime.
Started ==
    /\ LoopFree /\ starter.pc = "starting" /\ worker[starter.on] = "returned"
    /\ state' = "READY"
    /\ starter' = IdleStarter
    /\ UNCHANGED <<flags, owned, future, closer, rpc, executor, sdk>>

StartFails ==
    /\ LoopFree /\ starter.pc = "starting" /\ worker[starter.on] = "raised"
    /\ CleanUp /\ state' = Failing
    /\ UNCHANGED <<flags, owned, future, rpc, executor, sdk>>

\* The startup timeout, or the cancellation of the caller.
StartGivenUp ==
    /\ Events \cap {"startupTimeout", "cancellation"} # {}
    /\ LoopFree /\ starter.pc = "starting"
    /\ CleanUp /\ state' = Failing
    /\ Withdraw(<<"start", starter.on>>)
    /\ worker' = IF Queued(<<"start", starter.on>>)
                 THEN [worker EXCEPT ![starter.on] = "none"] ELSE worker
    /\ UNCHANGED <<flags, owned, future, rpc, busy, stale, sdk>>

-----------------------------------------------------------------------------
(* close *)

\* The caller of close() gets its result; start_runtime then raises.
Return(k) ==
    /\ closer' = [closer EXCEPT ![k] = IdleCloser]
    /\ starter' = IF k = "startup" THEN IdleStarter ELSE starter

CloseCalled ==
    /\ "close" \in Events
    /\ LoopFree /\ closer["stop"].pc = "idle"
    /\ Call("stop")
    /\ UNCHANGED <<adapter, starter, rpc, executor, sdk>>

\* The close lock is free.  An earlier failure is final for this instance.
CloseEnters(k) ==
    /\ \/ closer[k].pc = "entering"
       \/ /\ LoopFree /\ closer[k].pc = "waiting"
          /\ \A other \in Closers : closer[other].pc # "closing"
    /\ IF state = "STOP_FAILED"
       THEN Return(k) /\ UNCHANGED state
       ELSE /\ state' = "STOPPING"
            /\ closer' = [closer EXCEPT ![k].pc = "snapshot"]
            /\ UNCHANGED starter
    /\ UNCHANGED <<flags, owned, future, rpc, executor, sdk>>

Present(c) == IF c = NoClient THEN <<>> ELSE <<c>>

CloseSnapshots(k) ==
    /\ closer[k].pc = "snapshot" /\ AdoptLockFree
    /\ aborted' = TRUE
    /\ client' = NoClient /\ pending' = NoClient
    /\ closer' = [closer EXCEPT ![k] =
           [pc |-> "next", pending |-> pending, client |-> client,
            todo |-> Present(pending) \o Present(client),
            confirmed |-> {}]]
    /\ UNCHANGED <<state, unsupported, shut, registered, future, starter, rpc,
                   executor, sdk>>

\* _close_once: join the registered close, or register one.
CloseAsks(k) ==
    /\ closer[k].pc = "next" /\ closer[k].todo # <<>>
    /\ IF CanAsk(Head(closer[k].todo))
       THEN /\ Ask(Head(closer[k].todo))
            /\ closer' = [closer EXCEPT ![k].pc = "closing"]
       ELSE /\ closer' = [closer EXCEPT ![k].todo = Tail(@)]
            /\ UNCHANGED <<future, queue>>
    /\ UNCHANGED <<state, flags, owned, starter, rpc, busy, threads, sdk>>

CloseHears(k) == LET c == Head(closer[k].todo) IN
    /\ LoopFree /\ closer[k].pc = "closing"
    /\ StopConfirmed(c) \/ StopFailed(c)
    /\ closer' = [closer EXCEPT ![k].pc = "next", ![k].todo = Tail(@),
           ![k].confirmed = IF StopConfirmed(c) THEN @ \cup {c} ELSE @]
    /\ UNCHANGED <<adapter, starter, rpc, executor, sdk>>

Taken(k) == {closer[k].pending, closer[k].client} \ {NoClient}

CloseStops(k) ==
    /\ closer[k].pc = "next" /\ closer[k].todo = <<>>
    /\ Taken(k) \subseteq closer[k].confirmed
    /\ future' = [c \in Clients |->
                     IF c \in Taken(k) THEN "popped" ELSE future[c]]
    /\ shut' = TRUE
    /\ state' = "STOPPED"
    /\ Return(k)
    /\ UNCHANGED <<unsupported, aborted, owned, rpc, executor, sdk>>

\* A client in todo when the call restores says that it was cancelled.
CloseFails(k) ==
    /\ closer[k].pc = "next" /\ closer[k].todo = <<>>
    /\ ~(Taken(k) \subseteq closer[k].confirmed)
    /\ closer' = [closer EXCEPT ![k].pc = "restore"]
    /\ UNCHANGED <<adapter, starter, rpc, executor, sdk>>

CloseCancelled(k) ==
    /\ "cancellation" \in Events
    /\ LoopFree
    /\ \/ closer[k].pc = "waiting" /\ Return(k)
       \/ /\ closer[k].pc = "closing"
          /\ closer' = [closer EXCEPT ![k].pc = "restore"]
          /\ UNCHANGED starter
    /\ UNCHANGED <<adapter, rpc, executor, sdk>>

\* Mutant of Restored: the references are given back only after a failure.
RestoredOnFailure(k, took, field) ==
    IF took # NoClient /\ took \notin closer[k].confirmed /\ closer[k].todo = <<>>
    THEN took ELSE field

\* _restore_unconfirmed: the reference the call took, unless it has stopped.
Restored(k, took, field) ==
    IF took # NoClient /\ took \notin closer[k].confirmed THEN took ELSE field

CloseRestores(k) ==
    /\ closer[k].pc = "restore" /\ AdoptLockFree
    /\ pending' = Restored(k, closer[k].pending, pending)
    /\ client' = Restored(k, closer[k].client, client)
    /\ state' = IF closer[k].todo = <<>> THEN "STOP_FAILED" ELSE state
    /\ Return(k)
    /\ UNCHANGED <<flags, registered, future, rpc, executor, sdk>>

-----------------------------------------------------------------------------
(* _start_sync, in a control thread *)

Worker(c, from, to) ==
    /\ worker[c] = from
    /\ worker' = [worker EXCEPT ![c] = to]
    /\ busy' = IF to \in {"returned", "raised"} THEN busy \ {<<"start", c>>}
               ELSE busy

\* client.start() spawns the child (external).
Spawned(c) ==
    /\ Worker(c, "spawning", "spawned")
    /\ child' = [child EXCEPT ![c] = "alive"]
    /\ UNCHANGED <<adapter, tasks, queue, stale, ref>>

SpawnFails(c) ==
    /\ "spawnFailure" \in Events
    /\ Worker(c, "spawning", "failing")
    /\ UNCHANGED <<adapter, tasks, queue, stale, sdk>>

Register(c) ==
    /\ AdoptLockFree
    /\ IF aborted
       THEN Worker(c, "spawned", "failing") /\ UNCHANGED <<pending, registered>>
       ELSE /\ Worker(c, "spawned", "handshake")
            /\ pending' = c /\ registered' = registered \cup {c}
    /\ UNCHANGED <<state, flags, client, future, tasks, queue, stale, sdk>>

\* client.initialize() returns, or raises; it ends when the child does.
Handshake(c) ==
    /\ \/ child[c] = "alive" /\ Worker(c, "handshake", "adopting")
       \/ /\ child[c] = "dead" \/ "handshakeFailure" \in Events
          /\ Worker(c, "handshake", "failing")
    /\ UNCHANGED <<adapter, tasks, queue, stale, sdk>>

\* Publish the close of the failed client, or join the one there is.
FailAsks(c) ==
    /\ AdoptLockFree
    /\ IF CanAsk(c) THEN Ask(c) /\ Worker(c, "failing", "awaitClose")
       ELSE Worker(c, "failing", "raised") /\ UNCHANGED <<future, queue>>
    /\ UNCHANGED <<state, flags, owned, tasks, stale, sdk>>

\* Mutant of AdoptionAborted: close() is not looked for at adoption.
AdoptionUnchecked == FALSE

AdoptionAborted == aborted

Adopt(c) ==
    /\ AdoptLockFree /\ ~AdoptionAborted
    /\ Worker(c, "adopting", "returned")
    /\ pending' = IF pending = c THEN NoClient ELSE pending
    /\ client' = c
    /\ UNCHANGED <<state, flags, registered, future, tasks, queue, stale, sdk>>

\* The same close, but waited for with the adopt lock held.
AbortAsks(c) ==
    /\ AdoptLockFree /\ AdoptionAborted
    /\ IF CanAsk(c) THEN Ask(c) /\ Worker(c, "adopting", "aborting")
       ELSE Worker(c, "adopting", "raised") /\ UNCHANGED <<future, queue>>
    /\ UNCHANGED <<state, flags, owned, tasks, stale, sdk>>

\* The result of the close, on either path.
WorkerHears(c) ==
    /\ \/ worker[c] = "awaitClose" /\ (StopConfirmed(c) => AdoptLockFree)
       \/ worker[c] = "aborting"
    /\ Worker(c, worker[c], "raised")
    /\ \/ /\ StopConfirmed(c)
          /\ pending' = IF pending = c THEN NoClient ELSE pending
          /\ future' = [future EXCEPT ![c] = "popped"]
          /\ UNCHANGED state
       \/ /\ StopFailed(c)
          /\ state' = "STOP_FAILED"
          /\ UNCHANGED <<pending, future>>
    /\ UNCHANGED <<flags, client, registered, tasks, queue, stale, sdk>>

-----------------------------------------------------------------------------
(* RPCs, and the events of the reader and drain threads *)

\* _require_ready, and the submission of the RPC.
RpcCalled(i) ==
    /\ LoopFree
    /\ ~unsupported /\ client # NoClient /\ state = "READY" /\ ~shut
    /\ rpc[i].pc = "idle"
    /\ rpc' = [rpc EXCEPT ![i] = [pc |-> "waiting", on |-> client]]
    /\ queue' = Append(queue, <<"rpc", i>>)
    /\ UNCHANGED <<adapter, starter, closer, busy, threads, sdk>>

\* Nobody waits for the RPC any more; its thread stays with it.
Abandon(i) ==
    /\ rpc[i].pc = "waiting"
    /\ rpc' = [rpc EXCEPT ![i] = IF Queued(<<"rpc", i>>) THEN IdleRpc
                                 ELSE [@ EXCEPT !.pc = "abandoned"]]
    /\ Withdraw(<<"rpc", i>>)

RpcTimesOut(i) ==
    /\ "rpcTimeout" \in Events
    /\ LoopFree
    /\ Abandon(i)
    /\ state' = "DEGRADED"
    /\ UNCHANGED <<flags, owned, future, starter, closer, busy, threads, sdk>>

RpcCancelled(i) ==
    /\ "cancellation" \in Events
    /\ LoopFree
    /\ Abandon(i)
    /\ UNCHANGED <<adapter, starter, closer, busy, threads, sdk>>

\* _map_error of TransportClosedError
RpcFails(i) ==
    /\ LoopFree /\ rpc[i].pc = "broken"
    /\ rpc' = [rpc EXCEPT ![i] = IdleRpc]
    /\ state' = "DEGRADED"
    /\ UNCHANGED <<flags, owned, future, starter, closer, executor, sdk>>

\* _deny_approval_handler, in the SDK's reader thread.
UnsupportedRequest(c) ==
    /\ "unsupported" \in Events
    /\ child[c] = "alive" /\ worker[c] # "spawned"
    /\ unsupported' = TRUE
    /\ state' = "DEGRADED"
    /\ UNCHANGED <<aborted, owned, shut, future, tasks, executor, sdk>>

\* _drain_globals sees the transport close.
DrainEnds ==
    /\ LoopFree /\ client # NoClient /\ state = "READY"
    /\ child[client] = "dead"
    /\ state' = "DEGRADED"
    /\ UNCHANGED <<flags, owned, future, tasks, executor, sdk>>

-----------------------------------------------------------------------------
(* The control executor, and the SDK behind it (external) *)

Result(kind, c, result) ==
    IF kind = "close"
    THEN future' = [future EXCEPT ![c] = result] /\ UNCHANGED stale
    ELSE /\ stale' = IF Queued(<<"stale", c>>) THEN stale ELSE result
         /\ UNCHANGED future

\* A free thread takes the next job.
Take(kind) ==
    /\ Cardinality(busy) < MaxWorkers
    /\ queue # <<>> /\ Head(queue)[1] = kind
    /\ queue' = Tail(queue)

StartTaken == LET job == Head(queue) IN
    /\ Take("start")
    /\ busy' = busy \cup {job}
    /\ worker' = [worker EXCEPT ![job[2]] = "spawning"]
    /\ UNCHANGED <<adapter, tasks, stale, sdk>>

RpcTaken ==
    /\ Take("rpc")
    /\ busy' = busy \cup {Head(queue)}
    /\ UNCHANGED <<adapter, tasks, threads, sdk>>

\* The first close of a client detaches its process before it stops it; any
\* later one finds no process and returns.
CloseTaken == LET job == Head(queue) IN \E kind \in {"close", "stale"} :
    /\ Take(kind)
    /\ IF ref[job[2]] = "held"
       THEN /\ ref' = [ref EXCEPT ![job[2]] = kind]
            /\ busy' = busy \cup {job}
            /\ UNCHANGED <<future, stale>>
       ELSE /\ IF kind = "close"
               THEN future' = [future EXCEPT ![job[2]] = "ok"] /\ UNCHANGED stale
               ELSE stale' = "ok" /\ UNCHANGED future
            /\ UNCHANGED <<busy, ref>>
    /\ UNCHANGED <<state, flags, owned, tasks, worker, child>>

\* The child is dead, or the close raised.
CloseDone(c) == \E kind \in {"close", "stale"} :
    /\ <<kind, c>> \in busy
    /\ busy' = busy \ {<<kind, c>>}
    /\ ref' = [ref EXCEPT ![c] = "gone"]
    /\ \/ /\ child' = [child EXCEPT ![c] = IF @ = "alive" THEN "dead" ELSE @]
          /\ Result(kind, c, "ok")
       \/ /\ "stopFailure" \in Events
          /\ Result(kind, c, "failed")
          /\ UNCHANGED child
    /\ UNCHANGED <<state, flags, owned, tasks, queue, worker>>

\* The RPC returns.  A hung RPC only returns once its child is dead.
RpcReturns(i) ==
    /\ <<"rpc", i>> \in busy
    /\ busy' = busy \ {<<"rpc", i>>}
    /\ rpc' = [rpc EXCEPT ![i] =
                 IF @.pc = "waiting" /\ child[@.on] = "dead"
                 THEN [@ EXCEPT !.pc = "broken"] ELSE IdleRpc]
    /\ UNCHANGED <<adapter, starter, closer, queue, threads, sdk>>

Crash(c) ==
    /\ "crash" \in Events
    /\ child[c] = "alive"
    /\ child' = [child EXCEPT ![c] = "dead"]
    /\ UNCHANGED <<adapter, tasks, executor, ref>>

-----------------------------------------------------------------------------

LoopStep ==
    \/ \E c \in Clients : StartRequested(c) \/ StaleClosed(c)
    \/ StaleFailed \/ StaleCancelled \/ Started \/ StartFails \/ StartGivenUp
    \/ CloseCalled \/ DrainEnds
    \/ \E k \in Closers :
          \/ CloseEnters(k) \/ CloseSnapshots(k) \/ CloseAsks(k) \/ CloseHears(k)
          \/ CloseStops(k) \/ CloseFails(k) \/ CloseCancelled(k) \/ CloseRestores(k)
    \/ \E i \in Rpcs :
          RpcCalled(i) \/ RpcTimesOut(i) \/ RpcCancelled(i) \/ RpcFails(i)

WorkerStep == \E c \in Clients :
    \/ Spawned(c) \/ SpawnFails(c) \/ Register(c) \/ Handshake(c)
    \/ FailAsks(c) \/ Adopt(c) \/ AbortAsks(c) \/ WorkerHears(c)

SdkStep ==
    \/ StartTaken \/ RpcTaken \/ CloseTaken
    \/ \E c \in Clients : CloseDone(c) \/ Crash(c) \/ UnsupportedRequest(c)
    \/ \E i \in Rpcs : RpcReturns(i)

\* Nothing has to happen once no task, thread or job is under way.
AtRest ==
    /\ starter.pc = "idle" /\ queue = <<>> /\ busy = {}
    /\ \A k \in Closers : closer[k].pc = "idle"
    /\ \A i \in Rpcs : rpc[i].pc = "idle"
    /\ UNCHANGED vars

Next == LoopStep \/ WorkerStep \/ SdkStep \/ AtRest

Spec == Init /\ [][Next]_vars

\* A step of start_runtime after one of its awaits.
StarterGoesOn ==
    \/ \E c \in Clients : StaleClosed(c)
    \/ StaleFailed \/ Started \/ StartFails \/ StartGivenUp

\* A step of a control thread that needs nothing of its child.
WorkerGoesOn(c) ==
    \/ Spawned(c) \/ SpawnFails(c) \/ Register(c)
    \/ child[c] = "dead" /\ Handshake(c)
    \/ FailAsks(c) \/ AbortAsks(c) \/ WorkerHears(c)

\* The event loop and its locks are FIFO, so a task that is ready again and
\* again runs; threads run; an SDK close ends because the SDK bounds its waits;
\* a startup is bounded by its timer.  Nothing is assumed of the child: a
\* handshake or an RPC may hang as long as the child lives.
Fairness ==
    /\ SF_vars(StarterGoesOn)
    /\ \A c \in Clients : WF_vars(WorkerGoesOn(c)) /\ WF_vars(CloseDone(c))
    /\ \A k \in Closers :
          /\ SF_vars(CloseEnters(k) \/ CloseHears(k))
          /\ WF_vars(CloseSnapshots(k) \/ CloseAsks(k) \/ CloseStops(k)
                     \/ CloseFails(k) \/ CloseRestores(k))
    /\ \A i \in Rpcs : WF_vars(/\ rpc[i].pc # "idle" /\ child[rpc[i].on] = "dead"
                               /\ RpcReturns(i))
    /\ WF_vars(StartTaken \/ RpcTaken \/ CloseTaken)

FairSpec == Spec /\ Fairness

-----------------------------------------------------------------------------
(* Properties *)

\* The fields of the adapter, its tasks, jobs and children keep their types.
TypeOK ==
    /\ state \in States /\ unsupported \in BOOLEAN /\ aborted \in BOOLEAN
    /\ client \in ClientOrNone /\ pending \in ClientOrNone /\ shut \in BOOLEAN
    /\ future \in [Clients -> FutureStates]
    /\ starter \in [pc : {"idle", "staleClosing", "starting", "closing"},
                    on : ClientOrNone]
    /\ closer \in [Closers -> [pc : {"idle", "waiting", "entering", "snapshot", "next",
                                     "closing", "restore"},
                               pending : ClientOrNone, client : ClientOrNone,
                               todo : Seq(Clients), confirmed : SUBSET Clients]]
    /\ rpc \in [Rpcs -> [pc : {"idle", "waiting", "abandoned", "broken"},
                         on : ClientOrNone]]
    /\ queue \in Seq(Jobs) /\ busy \in SUBSET Jobs
    /\ Cardinality(busy) <= MaxWorkers
    /\ worker \in [Clients -> WorkerStates]
    /\ stale \in FutureStates
    /\ ref \in [Clients -> {"held", "close", "stale", "gone"}]
    /\ child \in [Clients -> {"none", "alive", "dead"}]
    /\ registered \subseteq Clients

\* Something is being done about the client: its SDK close has been asked for or
\* has begun, or its startup is refused registration and closes it.
OnItsWayOut(c) ==
    \/ ref[c] # "held" \/ future[c] # "none" \/ Queued(<<"stale", c>>)
    \/ \E k \in Closers : c \in Taken(k)
    \/ aborted /\ c \notin registered

\* A runtime is not replaced while it is in use: of two children that are alive
\* one is on its way out, whatever times out, is cancelled, fails or is closed.
\* That the old one is dead by then, as a comment in start_runtime says
\* (codex_sdk.py:229-231), is not so once its close was cancelled.
OneInUse == \A c, d \in Clients :
    child[c] = "alive" /\ child[d] = "alive" /\ c # d =>
        OnItsWayOut(c) \/ OnItsWayOut(d)

\* The instance has registered at most one client, and never had to close a
\* degraded runtime to start another.
Calm ==
    /\ stale = "none"
    /\ \A c, d \in registered : c = d

\* A registered child that is alive is the active or the pending client, a
\* close() has taken it, or its close is registered and has not ended.
ChildrenOwned == \A c \in registered : child[c] = "alive" =>
        \/ c \in {client, pending}
        \/ \E k \in Closers : c \in Taken(k)
        \/ future[c] = "asked"

NoneAlive == \A c \in registered : child[c] # "alive"

\* A child the adapter has registered is never lost before it is dead, also when
\* its handshake or its close fails (codex_sdk.py, _pending_start_client,
\* _client_close_futures), until a degraded runtime is closed for another.
KnownIsOwned == Calm => ChildrenOwned

\* STOPPED is evidence, to the same extent: no child the adapter ever got hold
\* of is alive, also when a close failed or was cancelled and close() was called
\* again.
StoppedIsEvidence == Calm /\ state = "STOPPED" => NoneAlive

\* After a confirmed close the instance has no client, and gets none from a
\* startup that was still running.
ClosedForGood == shut => client = NoClient /\ pending = NoClient

\* Every close() returns or raises, and every start_runtime too, as long as
\* at most one control thread is stuck in an RPC.
OperationsEnd ==
    /\ \A k \in Closers : closer[k].pc # "idle" ~> closer[k].pc = "idle"
    /\ starter.pc # "idle" ~> starter.pc = "idle"
=============================================================================
