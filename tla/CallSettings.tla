----------------------------- MODULE CallSettings -----------------------------
(***************************************************************************)
(* What a turn runs with: from the startup configuration and the arguments *)
(* of a call, past policy, model catalog and the confirmations of the      *)
(* runtime, to turn/start (server.py, policy.py, and the settings half of  *)
(* coordinator.py, whose other half is Coordinator).                       *)
(*                                                                         *)
(* One call at a time, one thread, and the App Servers it runs in.  An     *)
(* action is a step between two awaits, or a look into the catalog.  The   *)
(* runtime answers what it likes: any catalog, any confirmation.           *)
(***************************************************************************)
EXTENDS Configuration, CallContracts, FiniteSets

CONSTANTS
    NoStartup, NoConfig, NoBackend, NoCache, NoThread, NoRecord, NoSnapshot,
    NoCwd,          \* "": the runtime names no directory
    Startups,       \* the situations the bridge is started in
    CodexArguments, ReplyArguments,
    Models, Efforts,
    Catalogs,       \* what a runtime may list: the efforts of each model
    Directories,    \* of threads, as runtimes report them
    Ids,            \* id() of a backend object (a bound)
    MaxProcesses    \* App Servers that are started (a bound)

ASSUME BackendsAreReal == NoBackend \notin [id : Ids, generation : Nat]

\* Models and Efforts name all that configurations and accepted calls name, and
\* an absent configuration is not a present one.
ASSUME NamesAreEnumerated ==
    /\ Models # {} /\ MaxProcesses \in Nat
    /\ \A s \in Startups : LoadFault(s) = Ok =>
           /\ Loaded(s) # NoConfig
           /\ \A layer \in {s.disk[Discovered(s.disk, s.explicit)], s.env, s.cli} :
                  /\ layer.model \in Models \cup {None, ""}
                  /\ layer.effort \in Efforts \cup {None, ""}
    /\ \A a \in CodexArguments : CodexFault(a) = Ok =>
           Model(a) \in Models \cup {None} /\ Effort(a) \in Efforts \cup {None}
    /\ \A a \in ReplyArguments : ReplyFault(a) = Ok =>
           /\ Given(a, "model") \in Models \cup {None}
           /\ Given(a, "effort") \in Efforts \cup {None}

VARIABLES
    phase,      \* of the process: "starting", "serving" or "refused"
    startup,    \* the situation, until it was read
    config,     \* BridgeConfig
    backend,    \* _backend: its id and generation
    alive,      \* its App Server is
    process,    \* how many App Servers were started (history)
    stopped,    \* the ids in _stopped_backends
    cache,      \* _catalog and _catalog_key; process: who listed it (history)
    thread,     \* the thread as the App Server has it
    record,     \* its record in the registry
    known,      \* the models it was reported or given to run with (history)
    args,       \* the arguments of the call
    run         \* the call

bridge == <<phase, startup, config>>
runtimes == <<backend, alive, process, stopped>>
registry == <<record, known>>
vars == <<bridge, runtimes, cache, thread, registry, args, run>>

NoArguments == [k \in {} |-> None]

\* step, and what is known of the call: key names its backend, and listed says
\* whether it had the models listed (history).
NoRun == [step |-> "idle", tool |-> None, key |-> NoBackend, cwd |-> None,
          sandbox |-> None, model |-> None, effort |-> None, pass |-> 1,
          goal |-> "model", forced |-> FALSE, list |-> NoCache,
          listed |-> FALSE, snapshot |-> NoSnapshot, code |-> Ok]

Awaiting == {"backend", "listing", "listed", "start", "read", "resume"}

Init ==
    /\ phase = "starting" /\ startup \in Startups /\ config = NoConfig
    /\ backend = NoBackend /\ alive = FALSE /\ process = 0 /\ stopped = {}
    /\ cache = NoCache /\ record = NoRecord /\ known = {}
    /\ thread \in [cwd : Directories, model : Models, effort : {None}] \cup {NoThread}
    /\ args = NoArguments /\ run = NoRun

\* _serve
Starts ==
    /\ phase = "starting"
    /\ IF LoadFault(startup) = Ok
       THEN phase' = "serving" /\ config' = Loaded(startup)
       ELSE phase' = "refused" /\ UNCHANGED config
    /\ startup' = NoStartup
    /\ UNCHANGED <<runtimes, cache, thread, registry, args, run>>

-----------------------------------------------------------------------------
(* Policy *)

\* resolve_cwd
ResolvedCwd(cwd) ==
    IF cwd # None THEN Real[cwd]
    ELSE IF config.defaults.cwd # None THEN Real[config.defaults.cwd]
    ELSE Launch

\* check_workspace
WorkspaceFault(cwd) ==
    IF \E r \in config.roots : IsRelativeTo(cwd, r) THEN Ok ELSE "WORKSPACE_DENIED"

SandboxFault(sandbox) ==
    IF sandbox \in config.sandboxes THEN Ok ELSE "WORKSPACE_DENIED"

\* ModelCatalog.validate_model
ModelChecks(entries, model) ==
    <<Check("MODEL_UNAVAILABLE", model \notin DOMAIN entries),
      Check("MODEL_NOT_ALLOWED", config.models # {} /\ model \notin config.models)>>

ModelFault(entries, model) == FirstFault(ModelChecks(entries, model))

\* validate_effort: a model that declares no efforts takes any.
EffortFault(entries, model, effort) ==
    LET supported == IF model \in DOMAIN entries THEN entries[model] ELSE {}
    IN IF supported # {} /\ effort \notin supported THEN "UNSUPPORTED_EFFORT" ELSE Ok

-----------------------------------------------------------------------------
(* A call arrives *)

Answered(code) == [NoRun EXCEPT !.step = "answered", !.tool = run.tool,
                                !.code = code, !.listed = run.listed]

\* on_call_tool and _execute_codex up to _get_backend.
CodexCalled(a) ==
    /\ phase = "serving" /\ run.step = "idle"
    /\ args' = a
    /\ IF CodexFault(a) # Ok THEN run' = Answered(CodexFault(a))
       ELSE LET cwd == ResolvedCwd(Given(a, "cwd"))
                sandbox == Merged(Given(a, "sandbox"), config.defaults.sandbox)
                fault == FirstFault(<<Stage(WorkspaceFault(cwd)),
                                      Stage(SandboxFault(sandbox))>>)
            IN run' = IF fault # Ok THEN Answered(fault)
                      ELSE [NoRun EXCEPT
                               !.step = "backend", !.tool = "codex",
                               !.cwd = cwd, !.sandbox = sandbox,
                               !.model = Merged(Model(a), config.defaults.model),
                               !.effort = Merged(Effort(a), config.defaults.effort)]
    /\ UNCHANGED <<bridge, runtimes, cache, thread, registry>>

\* on_call_tool and _execute_reply up to _get_backend.
ReplyCalled(a) ==
    /\ phase = "serving" /\ run.step = "idle"
    /\ args' = a
    /\ IF ReplyFault(a) # Ok
       THEN run' = Answered(ReplyFault(a)) /\ UNCHANGED record
       ELSE /\ record' = IF record # NoRecord THEN record
                         ELSE [state |-> "unknown", cwd |-> None, model |-> None,
                               effort |-> None]
            /\ run' = IF SandboxFault(config.defaults.sandbox) # Ok
                      THEN Answered(SandboxFault(config.defaults.sandbox))
                      ELSE [NoRun EXCEPT !.step = "backend", !.tool = "codex-reply",
                                         !.sandbox = config.defaults.sandbox]
    /\ UNCHANGED <<bridge, runtimes, cache, thread, known>>

\* The envelope is returned.
CallEnds ==
    /\ run.step = "answered"
    /\ args' = NoArguments /\ run' = NoRun
    /\ UNCHANGED <<bridge, runtimes, cache, thread, registry>>

\* An RPC error, a timeout or a cancellation at an await.
CallFails ==
    /\ run.step \in Awaiting
    /\ run' = Answered("FAILED")
    /\ UNCHANGED <<bridge, runtimes, cache, thread, registry, args>>

-----------------------------------------------------------------------------
(* The runtime and the catalog *)

\* The key of _get_catalog.
CatalogKey(b) == b

\* Mutant of Kept: a stopped backend is garbage, its id() free.
Forgotten(b) == stopped

\* _stopped_backends keeps a reference: its id() is not given out again.
Kept(b) == stopped \cup {b.id}

\* A write execution needs a workspace to lock.
WriteFault(cwd) ==
    IF run.sandbox = "workspace-write" /\ cwd \in {None, NoCwd} /\ config.defaults.cwd = None
    THEN "RUNTIME_MISMATCH" ELSE Ok

\* A reply with its expected_cwd, before thread/resume.
Resuming(r, cwd) == IF WriteFault(cwd) # Ok THEN Answered(WriteFault(cwd))
                    ELSE [r EXCEPT !.step = "resume", !.cwd = cwd]

\* _get_backend: the backend runs, is restarted in place, or a new one starts.
GotBackend ==
    /\ run.step = "backend"
    /\ IF alive THEN UNCHANGED <<backend, process>>
       ELSE /\ process < MaxProcesses
            /\ process' = process + 1
            /\ IF backend # NoBackend
               THEN backend' = [backend EXCEPT !.generation = @ + 1]
               ELSE \E id \in Ids \ stopped : backend' = [id |-> id, generation |-> 1]
    /\ alive' = TRUE
    /\ LET r == [run EXCEPT !.key = CatalogKey(backend')]
       IN run' = IF run.tool = "codex"
                 THEN [r EXCEPT !.step = IF run.model # None THEN "lookup" ELSE "start"]
                 ELSE IF record.state = "unknown" THEN [r EXCEPT !.step = "read"]
                 ELSE Resuming(r, record.cwd)
    /\ UNCHANGED <<bridge, stopped, cache, thread, registry, args>>

\* What follows when model and effort of this pass are valid.
Validated == [run EXCEPT !.step = IF run.tool = "codex" /\ run.pass = 1
                                  THEN "start" ELSE "submit"]

\* Mutant of ModelMissing: the cached catalog has the last word.
ModelMissingAtOnce == Answered("MODEL_UNAVAILABLE")

\* _validate_model_with_refresh: one refresh, then the call fails.
ModelMissing == IF run.forced THEN Answered("MODEL_UNAVAILABLE")
                ELSE [run EXCEPT !.step = "listing", !.forced = TRUE]

\* The call with a catalog at hand.
Judged(entries) ==
    LET fault == IF run.goal = "model" THEN ModelFault(entries, run.model)
                 ELSE EffortFault(entries, run.model, run.effort)
    IN CASE fault = "MODEL_UNAVAILABLE" -> ModelMissing
         [] fault \notin {Ok, "MODEL_UNAVAILABLE"} -> Answered(fault)
         [] fault = Ok /\ run.goal = "model" /\ run.effort # None ->
                [run EXCEPT !.step = "lookup", !.goal = "effort", !.forced = FALSE]
         [] OTHER -> Validated

\* _get_catalog: the cache answers under the key of the run's own backend.
CatalogLookedUp ==
    /\ run.step = "lookup"
    /\ run' = IF cache # NoCache /\ cache.key = run.key THEN Judged(cache.entries)
              ELSE [run EXCEPT !.step = "listing"]
    /\ UNCHANGED <<bridge, runtimes, cache, thread, registry, args>>

\* model/list returns.
CatalogListed ==
    /\ run.step = "listing" /\ alive
    /\ \E entries \in Catalogs :
        run' = [run EXCEPT !.step = "listed", !.listed = TRUE,
                           !.list = [key |-> run.key, entries |-> entries,
                                     process |-> process]]
    /\ UNCHANGED <<bridge, runtimes, cache, thread, registry, args>>

\* ... and the task goes on, whatever became of its backend.
CatalogStored ==
    /\ run.step = "listed"
    /\ cache' = run.list
    /\ run' = [Judged(run.list.entries) EXCEPT !.list = NoCache]
    /\ UNCHANGED <<bridge, runtimes, thread, registry, args>>

-----------------------------------------------------------------------------
(* The thread *)

Approvals == {"never", "on-request"}

\* What a runtime may confirm of a request: an attribute it was not asked for is
\* its own choice, and at most one it was asked for differs or is missing (a bound).
Snapshots(cwd, sandbox, model, effort) ==
    {s \in [cwd : Directories \cup {NoCwd}, sandbox : SupportedSandboxes,
            approval : Approvals, model : Models \cup {None}, effort : Efforts \cup {None}] :
        /\ effort # None => s.effort = effort
        /\ Cardinality({k \in {"cwd", "sandbox", "approval", "model"} :
              \/ k = "cwd" /\ s.cwd # cwd
              \/ k = "sandbox" /\ s.sandbox # sandbox
              \/ k = "approval" /\ s.approval # "never"
              \/ k = "model" /\ model # None /\ s.model # model}) <= 1}

\* Mutant of SecondPass: the model the runtime chose is taken as it is.
SecondPassIfRequested(s) == IF run.model = None THEN "submit" ELSE "lookup"

\* _finalize_new_settings validates what was confirmed, whoever chose it.
SecondPass(s) == "lookup"

\* Every turn is to run without approvals; a policy that the runtime does not
\* report passes, like "never".
ApprovalDiffers(s) == s.approval # "never"

\* _confirm_snapshot, which a missing directory passes, and that there is a model.
StartChecks(s) ==
    <<Check("RUNTIME_MISMATCH", s.cwd \notin {NoCwd, run.cwd}),
      Check("RUNTIME_MISMATCH", s.sandbox # run.sandbox),
      Check("RUNTIME_MISMATCH", ApprovalDiffers(s)),
      Check("RUNTIME_MISMATCH", s.model = None),
      Check("RUNTIME_MISMATCH", run.model # None /\ s.model # run.model)>>

\* thread/start returns: _confirm_snapshot and _finalize_new_settings.  The new
\* thread is the one that is followed from here (a bound).
ThreadStarted ==
    /\ run.step = "start" /\ alive
    /\ \E s \in Snapshots(run.cwd, run.sandbox, run.model, run.effort) :
        LET fault == FirstFault(StartChecks(s))
        IN /\ record' = NoRecord /\ known' = {s.model} \ {None}
           /\ thread' = [cwd |-> IF s.cwd # NoCwd THEN s.cwd ELSE run.cwd,
                         effort |-> s.effort,
                         model |-> IF s.model # None THEN s.model
                                   ELSE CHOOSE m \in Models : TRUE]
           /\ run' = IF fault # Ok THEN Answered(fault)
                     ELSE [run EXCEPT !.step = SecondPass(s), !.snapshot = s,
                                      !.model = s.model, !.goal = "model", !.pass = 2,
                                      !.forced = FALSE,
                                      !.effort = Merged(run.effort, s.effort)]
    /\ UNCHANGED <<bridge, runtimes, cache, args>>

\* The thread as a runtime reports it: directory or model may be missing.
Reports == {[thread EXCEPT !.cwd = cwd, !.model = model] :
               cwd \in {thread.cwd, NoCwd}, model \in {thread.model, None}}

Hears(model) == known' = known \cup ({model} \ {None})

\* thread/read returns for a thread that is not loaded.
ThreadRead ==
    /\ run.step = "read" /\ alive /\ thread # NoThread
    /\ \E meta \in Reports :
        LET fault == IF meta.cwd # NoCwd THEN WorkspaceFault(meta.cwd) ELSE Ok
        IN /\ record' = [record EXCEPT !.cwd = meta.cwd, !.model = meta.model,
                                       !.effort = meta.effort]
           /\ Hears(meta.model)
           /\ run' = IF fault # Ok THEN Answered(fault) ELSE Resuming(run, meta.cwd)
    /\ UNCHANGED <<bridge, runtimes, cache, thread, args>>

\* Path(expected_cwd).resolve(): an empty path is the bridge's own directory.
Expected(cwd) == IF cwd = NoCwd THEN Launch ELSE cwd

\* _resume_thread_checked and _confirm_resume_cwd.
ResumeChecks(s) ==
    <<Check("RUNTIME_MISMATCH", s.sandbox # run.sandbox \/ ApprovalDiffers(s)),
      Check("RUNTIME_MISMATCH", s.cwd = NoCwd),
      Stage(IF s.cwd # NoCwd THEN WorkspaceFault(s.cwd) ELSE Ok),
      Check("RUNTIME_MISMATCH", run.cwd # None /\ s.cwd # Expected(run.cwd))>>

ResumeFault(s) == FirstFault(ResumeChecks(s))

\* thread/resume returns: the call's settings, else the confirmed thread's, else
\* the recorded ones; a model that nobody names is not looked up.
ThreadResumed ==
    /\ run.step = "resume" /\ alive /\ thread # NoThread
    /\ \E meta \in Reports, sandbox \in SupportedSandboxes, approval \in Approvals :
        LET s == [cwd |-> meta.cwd, sandbox |-> sandbox, approval |-> approval,
                  model |-> meta.model, effort |-> meta.effort]
            confirmed == Merged(s.model, record.model)
            model == Merged(Given(args, "model"), confirmed)
            effort == Merged(s.effort, record.effort)
        IN IF ResumeFault(s) # Ok
           THEN run' = Answered(ResumeFault(s)) /\ UNCHANGED registry
           ELSE /\ record' = [record EXCEPT !.cwd = s.cwd, !.model = confirmed,
                                            !.effort = effort]
                /\ Hears(s.model)
                /\ run' = [run EXCEPT !.step = IF model # None THEN "lookup" ELSE "submit",
                                      !.snapshot = s, !.model = model,
                                      !.effort = Merged(Given(args, "effort"), effort)]
    /\ UNCHANGED <<bridge, runtimes, cache, thread, args>>

\* upsert and update_settings, then turn/start.
TurnSubmitted ==
    /\ run.step = "submit"
    /\ LET old == IF run.tool = "codex" THEN run.snapshot ELSE record
       IN record' = [state |-> "active", cwd |-> old.cwd,
                     model |-> Merged(run.model, old.model),
                     effort |-> Merged(run.effort, old.effort)]
    /\ Hears(run.model)
    /\ run' = [run EXCEPT !.step = "turn"]
    /\ UNCHANGED <<bridge, runtimes, cache, thread, args>>

\* Mutant of AfterTurn: a state that the registry does not know.
AfterTurnMistyped(uncertain) == IF uncertain THEN "lost" ELSE "idle"

\* The state of the thread after its turn.
AfterTurn(uncertain) == IF uncertain THEN "unknown" ELSE "idle"

\* The turn is refused, or accepted, with its settings the thread's, and ends.
TurnEnds ==
    /\ run.step = "turn"
    /\ \/ UNCHANGED thread
       \/ thread' = [thread EXCEPT !.model = Merged(run.model, thread.model),
                                   !.effort = Merged(run.effort, thread.effort)]
    /\ \E uncertain \in BOOLEAN :
        record' = [record EXCEPT !.state = AfterTurn(uncertain)]
    /\ run' = Answered(Ok)
    /\ UNCHANGED <<bridge, runtimes, cache, known, args>>

-----------------------------------------------------------------------------
(* The environment *)

RuntimeDies ==
    /\ alive /\ alive' = FALSE
    /\ UNCHANGED <<bridge, backend, process, stopped, cache, thread, registry, args, run>>

\* _close_backend, for a cancelled or failed call of before, or this one.
BackendStopped ==
    /\ backend # NoBackend
    /\ stopped' = Kept(backend)
    /\ backend' = NoBackend /\ alive' = FALSE /\ cache' = NoCache
    /\ UNCHANGED <<bridge, process, thread, registry, args, run>>

\* Another client of the App Server uses the thread between two calls, or while
\* this one resumes it (a bound).
ThreadMoved ==
    /\ phase = "serving" /\ run.step \in {"idle", "resume"} /\ thread # NoThread
    /\ thread' \in [cwd : Directories, model : Models, effort : Efforts \cup {None}]
    /\ UNCHANGED <<bridge, runtimes, cache, registry, args, run>>

-----------------------------------------------------------------------------
(* Specification *)

Rests == phase = "refused" /\ UNCHANGED vars

Next ==
    \/ Starts \/ Rests
    \/ \E a \in CodexArguments : CodexCalled(a)
    \/ \E a \in ReplyArguments : ReplyCalled(a)
    \/ CallEnds \/ CallFails
    \/ GotBackend \/ CatalogLookedUp \/ CatalogListed \/ CatalogStored
    \/ ThreadStarted \/ ThreadRead \/ ThreadResumed \/ TurnSubmitted \/ TurnEnds
    \/ RuntimeDies \/ BackendStopped \/ ThreadMoved

Spec == Init /\ [][Next]_vars

-----------------------------------------------------------------------------
(* Properties *)

Steps == Awaiting \cup {"idle", "lookup", "submit", "turn", "answered"}

TypeOK ==
    /\ phase \in {"starting", "serving", "refused"}
    /\ startup \in Startups \cup {NoStartup}
    /\ (config # NoConfig) <=> (phase = "serving")
    /\ alive \in BOOLEAN /\ (alive => backend # NoBackend)
    /\ process \in 0..MaxProcesses /\ stopped \subseteq Ids
    /\ backend # NoBackend => backend.id \in Ids \ stopped
    /\ cache # NoCache => cache.entries \in Catalogs
    /\ thread # NoThread => thread.effort \in Efforts \cup {None}
    /\ record # NoRecord => record.state \in {"unknown", "idle", "active"}
    /\ known \subseteq Models
    /\ args \in CodexArguments \cup ReplyArguments \cup {NoArguments}
    /\ run.step \in Steps /\ run.goal \in {"model", "effort"} /\ run.pass \in 1..2
    /\ run.model \in Models \cup {None} /\ run.effort \in Efforts \cup {None}

\* Where the turn works: where the runtime says, or else where it was told to.
Workplace == IF run.snapshot.cwd # NoCwd THEN run.snapshot.cwd ELSE run.cwd

\* Whoever chose them, call, operator, runtime or another client: a turn runs in
\* an allowed workspace, in the sandbox that was asked for, without approvals,
\* with an allowed model; only the model of a resumed thread that neither the call
\* names nor the runtime reports goes unseen (coordinator.py,
\* _finalize_new_settings, _confirm_resume_cwd and _execute_reply).
TurnsAuthorised ==
    run.step = "turn" =>
        /\ \E r \in config.roots : IsRelativeTo(Workplace, r)
        /\ run.snapshot.sandbox \in config.sandboxes
        /\ run.snapshot.sandbox = Merged(Given(args, "sandbox"), config.defaults.sandbox)
        /\ ~ApprovalDiffers(run.snapshot)
        /\ \/ config.models = {} \/ run.model \in config.models
           \/ /\ run.tool = "codex-reply" /\ run.model = None
              /\ Given(args, "model") = None /\ run.snapshot.model = None

\* The values that the arguments give for a setting, by whichever name.
Asked(direct, key) == {Given(args, direct), Given(ConfigOf(args), key)} \ {None}

\* A turn gets the model and effort the client asked for or no turn happens; what
\* it did not ask for is the operator's default for a new thread, which a reply
\* ignores, and else what the runtime confirmed, or, of a thread it reports no
\* model of, one that it reported or ran this thread with before, or none
\* (docs/model-and-effort.md).
NoFallback ==
    run.step = "turn" =>
        /\ \A v \in Asked("model", "model") : run.model = v
        /\ \A v \in Asked("effort", "model_reasoning_effort") : run.effort = v
        /\ Asked("model", "model") = {} =>
               IF run.tool = "codex"
               THEN run.model = Merged(config.defaults.model, run.snapshot.model)
               ELSE IF run.snapshot.model # None THEN run.model = run.snapshot.model
               ELSE run.model \in known \cup {None}
        /\ run.tool = "codex" /\ Asked("effort", "model_reasoning_effort") = {} =>
               run.effort = Merged(config.defaults.effort, run.snapshot.effort)

\* The catalog that answers for the current backend was listed by its present
\* process: no restart, no stop during model/list, no reused id() leaves the one
\* of another (coordinator.py, _get_catalog and _stopped_backends).
CacheIsOwn ==
    cache # NoCache /\ backend # NoBackend /\ cache.key = CatalogKey(backend)
        => cache.process = process

\* A call fails for want of a model only after the runtime itself was asked, not
\* the cache (coordinator.py, _validate_model_with_refresh).
UnavailableIsFresh ==
    run.step = "answered" /\ run.code = "MODEL_UNAVAILABLE" => run.listed

\* The bridge serves only under a policy that lets someone in and that the file
\* may set: a file found in a checkout is the user's own and allows nothing
\* outside of its directory, whatever its links (config.py, _freeze_roots).
PolicyIsConfined ==
    [][phase' = "serving" /\ phase = "starting" =>
        LET place == Discovered(startup.disk, startup.explicit)
        IN /\ config'.roots # {}
           /\ ProjectLocal(place) =>
                  /\ startup.disk[place].owned
                  /\ \A r \in config'.roots : IsRelativeTo(r, place)]_vars

\* Each setting is that of the highest layer that gives it, an empty variable or
\* option gives nothing, and no layer hides the unsupported value of another
\* (config.py, load_bridge_config).
HighestLayerWins ==
    [][phase' = "serving" /\ phase = "starting" =>
        LET file == startup.disk[Discovered(startup.disk, startup.explicit)]
            layers == <<startup.cli, startup.env, file, Builtin>>
        IN \A k \in Settings :
            /\ \E i \in 1..4 :
                  /\ config'.defaults[k] = layers[i][k]
                  /\ \A j \in 1..(i - 1) : layers[j][k] \in {None, ""}
                  /\ i < 4 => layers[i][k] \notin {None, ""}
            /\ \A i \in 1..4 : ~Unsupported(layers[i], k)]_vars
=============================================================================
