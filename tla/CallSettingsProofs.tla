-------------------------- MODULE CallSettingsProofs --------------------------
(***************************************************************************)
(* Whatever the configuration, the arguments, the catalogs and the answers *)
(* of the runtime: no turn runs with settings that policy or client did    *)
(* not want.                                                               *)
(*                                                                         *)
(* The inductive invariant says, at each step of a call, where the values  *)
(* it carries come from and what was already checked of them (Carries).    *)
(***************************************************************************)
EXTENDS CallSettings, TLAPS

-----------------------------------------------------------------------------
(* Sequences of checks *)

\* At most nine checks, each of them told from success.
Checks(checks) ==
    /\ DOMAIN checks \subseteq 1..9
    /\ \A i \in DOMAIN checks : checks[i].fails => checks[i].code # Ok

\* A set of such numbers that is not empty has a least element.
LEMMA Least ==
    ASSUME NEW S \in SUBSET (1..9), NEW n \in S
    PROVE  \E m \in S : \A j \in S : m <= j
<1>0. SUFFICES ASSUME \A m \in S : \E j \in S : j < m PROVE FALSE
  BY SMT
<1>1. 1 \notin S BY <1>0
<1>2. 2 \notin S BY <1>0, <1>1
<1>3. 3 \notin S BY <1>0, <1>1, <1>2
<1>4. 4 \notin S BY <1>0, <1>1, <1>2, <1>3
<1>5. 5 \notin S BY <1>0, <1>1, <1>2, <1>3, <1>4
<1>6. 6 \notin S BY <1>0, <1>1, <1>2, <1>3, <1>4, <1>5
<1>7. 7 \notin S BY <1>0, <1>1, <1>2, <1>3, <1>4, <1>5, <1>6
<1>8. 8 \notin S BY <1>0, <1>1, <1>2, <1>3, <1>4, <1>5, <1>6, <1>7
<1>9. 9 \notin S BY <1>0, <1>1, <1>2, <1>3, <1>4, <1>5, <1>6, <1>7, <1>8
<1> QED
  BY <1>1, <1>2, <1>3, <1>4, <1>5, <1>6, <1>7, <1>8, <1>9

\* If the code of the first failing check is OK then none has failed.
LEMMA AllPass ==
    ASSUME NEW checks, Checks(checks), FirstFault(checks) = Ok,
           NEW i \in DOMAIN checks
    PROVE  ~checks[i].fails
<1> DEFINE Failing == {j \in DOMAIN checks : checks[j].fails}
<1>1. SUFFICES ASSUME Failing # {} PROVE FALSE
  OBVIOUS
<1>2. PICK n \in Failing : TRUE
  BY <1>1
<1>3. \E m \in Failing : \A j \in Failing : m <= j
  <2>1. Failing \in SUBSET (1..9)
    BY DEF Checks
  <2> HIDE DEF Failing
  <2> QED BY <1>2, <2>1, Least
<1>4. (CHOOSE m \in Failing : \A j \in Failing : m <= j) \in Failing
  BY <1>3
<1> QED
  BY <1>1, <1>4 DEF FirstFault, Checks

\* The code of a sequence of checks is OK or the code of one of them.
LEMMA OneOfThem ==
    ASSUME NEW checks, Checks(checks), FirstFault(checks) # Ok
    PROVE  \E i \in DOMAIN checks : FirstFault(checks) = checks[i].code
<1> DEFINE Failing == {j \in DOMAIN checks : checks[j].fails}
<1>1. PICK n \in Failing : TRUE
  BY DEF FirstFault
<1>2. \E m \in Failing : \A j \in Failing : m <= j
  <2>1. Failing \in SUBSET (1..9)
    BY DEF Checks
  <2> HIDE DEF Failing
  <2> QED BY <1>1, <2>1, Least
<1>3. (CHOOSE m \in Failing : \A j \in Failing : m <= j) \in Failing
  BY <1>2
<1> QED
  BY <1>1, <1>3 DEF FirstFault

-----------------------------------------------------------------------------
(* The verdicts *)

\* The sequences of checks are what the lemmas on FirstFault ask for, and none
\* of these blames the model for not being there.
Blameless(checks) ==
    /\ Checks(checks)
    /\ \A i \in DOMAIN checks : checks[i].code # "MODEL_UNAVAILABLE"

LEMMA BlamelessFault ==
    ASSUME NEW checks, Blameless(checks)
    PROVE  FirstFault(checks) # "MODEL_UNAVAILABLE"
  BY OneOfThem DEF Blameless, Ok

LEMMA CodexChecksBlameless ==
    ASSUME NEW a
    PROVE  DOMAIN CodexChecks(a) = 1..9 /\ Blameless(CodexChecks(a))
<1> DEFINE c == CodexChecks(a)
<1>1. DOMAIN c = 1..9
  BY DEF CodexChecks
<1>2. /\ c[1].code = "VALIDATION_ERROR" /\ c[2].code = "UNSUPPORTED_APPROVAL_POLICY"
      /\ c[3].code = "VALIDATION_ERROR" /\ c[4].code = "VALIDATION_ERROR"
      /\ c[5].code = "CONFIG_KEY_DENIED" /\ c[6].code = "VALIDATION_ERROR"
      /\ c[7].code = "VALIDATION_ERROR" /\ c[8].code = "CONFLICTING_ARGUMENTS"
      /\ c[9].code = "INPUT_LIMIT_EXCEEDED"
  BY DEF CodexChecks, Check
<1> HIDE DEF c
<1>3. \A i \in 1..9 : c[i].code \notin {Ok, "MODEL_UNAVAILABLE"}
  BY <1>2 DEF Ok
<1>4. Blameless(c)
  BY <1>1, <1>3 DEF Blameless, Checks
<1> QED
  BY <1>1, <1>4 DEF c

LEMMA ArgumentChecksBlameless ==
    ASSUME NEW a
    PROVE  /\ \A fields : Blameless(ObjectChecks(a, fields))
           /\ Blameless(ReplyChecks(a))
  BY DEF ObjectChecks, ReplyChecks, Blameless, Checks, Check, Ok

LEMMA FaultsBlameless ==
    /\ \A cwd : WorkspaceFault(cwd) # "MODEL_UNAVAILABLE"
    /\ \A sandbox : SandboxFault(sandbox) # "MODEL_UNAVAILABLE"
    /\ \A cwd : WriteFault(cwd) # "MODEL_UNAVAILABLE"
  BY DEF WorkspaceFault, SandboxFault, WriteFault, Ok

LEMMA StageIs ==
    \A c : Stage(c).code = c /\ (Stage(c).fails => c # Ok) /\ (~Stage(c).fails => c = Ok)
  BY DEF Stage, Check

\* Two stages in a row.
LEMMA Stages ==
    ASSUME NEW c, NEW d, c # "MODEL_UNAVAILABLE", d # "MODEL_UNAVAILABLE"
    PROVE  /\ FirstFault(<<Stage(c), Stage(d)>>) # "MODEL_UNAVAILABLE"
           /\ FirstFault(<<Stage(c), Stage(d)>>) = Ok => c = Ok /\ d = Ok
<1> DEFINE calls == <<Stage(c), Stage(d)>>
<1>1. DOMAIN calls = 1..2 /\ calls[1] = Stage(c) /\ calls[2] = Stage(d)
  OBVIOUS
<1> HIDE DEF calls
<1>2. Blameless(calls)
  BY <1>1, StageIs DEF Blameless, Checks
<1>3. FirstFault(calls) = Ok => c = Ok /\ d = Ok
  BY <1>1, <1>2, AllPass, StageIs DEF Blameless
<1> QED
  BY <1>2, <1>3, BlamelessFault DEF calls

LEMMA RuntimeChecksBlameless ==
    ASSUME NEW s
    PROVE  /\ DOMAIN StartChecks(s) = 1..5 /\ Blameless(StartChecks(s))
           /\ DOMAIN ResumeChecks(s) = 1..4 /\ Blameless(ResumeChecks(s))
<1>1. DOMAIN StartChecks(s) = 1..5 /\ Blameless(StartChecks(s))
  BY DEF StartChecks, Blameless, Checks, Check, Ok
<1> DEFINE r == ResumeChecks(s)
<1>2. /\ DOMAIN r = 1..4
      /\ r[1].code = "RUNTIME_MISMATCH" /\ r[2].code = "RUNTIME_MISMATCH"
      /\ r[3] = Stage(IF s.cwd # NoCwd THEN WorkspaceFault(s.cwd) ELSE Ok)
      /\ r[4].code = "RUNTIME_MISMATCH"
  BY DEF ResumeChecks, Check
<1> HIDE DEF r
<1>3. \A i \in 1..4 : r[i].code # "MODEL_UNAVAILABLE" /\ (r[i].fails => r[i].code # Ok)
  BY <1>2, StageIs, FaultsBlameless DEF Ok
<1>4. Blameless(r)
  BY <1>2, <1>3 DEF Blameless, Checks
<1> QED
  BY <1>1, <1>2, <1>4 DEF r

LEMMA ArgumentCodes ==
    ASSUME NEW a
    PROVE  /\ CodexFault(a) # "MODEL_UNAVAILABLE"
           /\ ReplyFault(a) # "MODEL_UNAVAILABLE"
<1>1. \A fields : ObjectFault(a, fields) # "MODEL_UNAVAILABLE"
  BY ArgumentChecksBlameless, BlamelessFault DEF ObjectFault
<1> QED
  BY <1>1, CodexChecksBlameless, ArgumentChecksBlameless, BlamelessFault
  DEF CodexFault, ReplyFault

\* Arguments that contradict each other are refused.
LEMMA CodexAccepted ==
    ASSUME NEW a, CodexFault(a) = Ok
    PROVE  /\ ~Conflicting(Given(a, "model"), Given(ConfigOf(a), "model"))
           /\ ~Conflicting(Given(a, "effort"), Given(ConfigOf(a), "model_reasoning_effort"))
<1>1. FirstFault(CodexChecks(a)) = Ok
  BY DEF CodexFault
<1>2. ~CodexChecks(a)[8].fails
  BY <1>1, CodexChecksBlameless, AllPass DEF Blameless
<1> QED
  BY <1>2 DEF CodexChecks, Check

\* A reply has no arguments but its own.
LEMMA ReplyAccepted ==
    ASSUME NEW a, ReplyFault(a) = Ok
    PROVE  DOMAIN a \subseteq ReplyFields
<1>1. FirstFault(ObjectChecks(a, ReplyFields)) = Ok
  BY DEF ReplyFault, ObjectFault, Ok
<1>2. 2 \in DOMAIN ObjectChecks(a, ReplyFields)
  BY DEF ObjectChecks
<1>3. ~ObjectChecks(a, ReplyFields)[2].fails
  BY <1>1, <1>2, ArgumentChecksBlameless, AllPass DEF Blameless
<1> QED
  BY <1>3 DEF ObjectChecks, Check

-----------------------------------------------------------------------------
(* The inductive invariant *)

Fields == {"step", "tool", "key", "cwd", "sandbox", "model", "effort", "pass", "goal",
           "forced", "list", "listed", "snapshot", "code"}

\* A call that has begun and is not over.
Under(r) == r.step \notin {"idle", "answered"}

FirstPass(r) == r.tool = "codex" /\ r.pass = 1

\* The runtime has confirmed the settings of the thread.
Confirmed(r) ==
    \/ r.pass = 2
    \/ r.tool = "codex-reply"
       /\ r.step \in {"lookup", "listing", "listed", "submit", "turn"}

Inside(d) == \E root \in config.roots : IsRelativeTo(d, root)

\* Where the turn of a call works (Workplace).
Place(r) == IF r.snapshot.cwd # NoCwd THEN r.snapshot.cwd ELSE r.cwd

\* A model that neither the client named nor the runtime reported.
Unseen(r) == /\ r.tool = "codex-reply" /\ r.model = None
             /\ Given(args, "model") = None /\ r.snapshot.model = None

Allowed(r) == config.models = {} \/ r.model \in config.models \/ Unseen(r)

\* Where the steps of a call are on its way.
Ordered(r) ==
    /\ r.step \in {"backend", "lookup", "listing", "listed", "start", "read", "resume",
                   "submit", "turn"}
    /\ r.tool \in {"codex", "codex-reply"} /\ r.pass \in {1, 2}
    /\ r.goal \in {"model", "effort"}
    /\ r.tool = "codex-reply" => r.pass = 1
    /\ r.step = "start" => FirstPass(r)
    /\ r.step \in {"read", "resume"} => r.tool = "codex-reply"
    /\ r.step \in {"submit", "turn"} => ~FirstPass(r)
    /\ r.step \in {"backend", "read", "resume"} => r.pass = 1 /\ r.goal = "model"
    /\ r.step \in {"backend", "read", "resume", "lookup"} => ~r.forced
    /\ r.step = "listed" => r.listed

\* What the arguments asked for, as far as the parsers vouch for it.
ArgumentsFit(r) ==
    IF r.tool = "codex"
    THEN /\ ~Conflicting(Given(args, "model"), Given(ConfigOf(args), "model"))
         /\ ~Conflicting(Given(args, "effort"),
                         Given(ConfigOf(args), "model_reasoning_effort"))
    ELSE DOMAIN args \subseteq ReplyFields

\* Where its sandbox, directory, model and effort come from.
SandboxCarried(r) ==
    /\ r.sandbox \in config.sandboxes
    /\ r.sandbox = Merged(Given(args, "sandbox"), config.defaults.sandbox)
    /\ FirstPass(r) => Inside(r.cwd)
    /\ Confirmed(r) => /\ Inside(Place(r)) /\ r.snapshot.sandbox = r.sandbox
                       /\ ~ApprovalDiffers(r.snapshot)

WantedModel == Merged(Model(args), config.defaults.model)
WantedEffort == Merged(Effort(args), config.defaults.effort)

ModelCarried(r) ==
    /\ FirstPass(r) => r.model = WantedModel /\ r.effort = WantedEffort
    /\ r.pass = 2 => /\ r.model = r.snapshot.model /\ WantedModel \in {None, r.model}
                     /\ r.effort = Merged(WantedEffort, r.snapshot.effort)
    /\ r.tool = "codex-reply" /\ Confirmed(r) =>
           /\ Given(args, "model") # None => r.model = Given(args, "model")
           /\ Given(args, "model") = None =>
                  IF r.snapshot.model # None THEN r.model = r.snapshot.model
                  ELSE r.model \in known \cup {None}
           /\ Given(args, "effort") # None => r.effort = Given(args, "effort")
    /\ r.step \in {"submit", "turn"} \/ r.goal = "effort" => Allowed(r)

Carries(r) ==
    /\ DOMAIN r = Fields
    /\ phase # "serving" => r.step = "idle"
    /\ Under(r) => Ordered(r) /\ ArgumentsFit(r) /\ SandboxCarried(r) /\ ModelCarried(r)
    /\ r.step = "answered" /\ r.code = "MODEL_UNAVAILABLE" => r.listed

RecordFields == {"state", "cwd", "model", "effort"}
IsReply(r) == r.tool = "codex-reply" /\ Under(r)

\* A record is there before a step asks for it, and names no model but one that
\* the thread was reported or given to run with.
Remembers ==
    record # NoRecord \/ IsReply(run) \/ run.step = "turn" =>
        DOMAIN record = RecordFields /\ record.model \in known \cup {None}

\* What an answered call carries does not matter any more.
LEMMA AnsweredCarries ==
    ASSUME NEW c, phase = "serving", c = "MODEL_UNAVAILABLE" => run.listed
    PROVE  Carries(Answered(c))
  BY DEF Answered, NoRun, Carries, Under, Fields

\* A call that looked for its model or effort in a catalog, and what it found.
LEMMA JudgedCarries ==
    ASSUME NEW entries, Carries(run), phase = "serving",
           run.step \in {"lookup", "listed"}
    PROVE  Carries(Judged(entries))
<1> DEFINE fault == IF run.goal = "model" THEN ModelFault(entries, run.model)
                    ELSE EffortFault(entries, run.model, run.effort)
<1>1. CASE fault = "MODEL_UNAVAILABLE"
  <2>1. Judged(entries) = ModelMissing
    BY <1>1 DEF Judged, Ok
  <2>2. CASE run.forced
    <3>1. run.listed
      BY <2>2 DEF Carries, Under, Ordered
    <3> QED BY <2>1, <2>2, <3>1, AnsweredCarries DEF ModelMissing
  <2>3. CASE ~run.forced
    <3> DEFINE r == [run EXCEPT !.step = "listing", !.forced = TRUE]
    <3>1. Carries(r)
      BY DEF Carries, Under, Fields, Ordered, FirstPass, ArgumentsFit, SandboxCarried,
             ModelCarried, Confirmed, Place, Allowed, Unseen
    <3> QED BY <2>1, <2>3, <3>1 DEF ModelMissing
  <2> QED BY <2>2, <2>3
<1>2. CASE fault \notin {Ok, "MODEL_UNAVAILABLE"}
  <2>1. Judged(entries) = Answered(fault)
    BY <1>2 DEF Judged
  <2> QED BY <1>2, <2>1, AnsweredCarries
<1>3. CASE fault = Ok
  <2>1. Allowed(run)
    <3>1. CASE run.goal = "model"
      <4>1. FirstFault(ModelChecks(entries, run.model)) = Ok
        BY <1>3, <3>1 DEF ModelFault
      <4>2. Checks(ModelChecks(entries, run.model))
        BY DEF Checks, ModelChecks, Check, Ok
      <4>3. 2 \in DOMAIN ModelChecks(entries, run.model)
        BY DEF ModelChecks
      <4>4. ~ModelChecks(entries, run.model)[2].fails
        BY <4>1, <4>2, <4>3, AllPass
      <4> QED BY <4>4 DEF ModelChecks, Check, Allowed
    <3>2. CASE run.goal # "model"
      BY <3>2 DEF Carries, Under, ModelCarried, Ordered
    <3> QED BY <3>1, <3>2
  <2>2. CASE run.goal = "model" /\ run.effort # None
    <3> DEFINE r == [run EXCEPT !.step = "lookup", !.goal = "effort", !.forced = FALSE]
    <3>1. Judged(entries) = r
      BY <1>3, <2>2 DEF Judged, Ok
    <3>2. Carries(r)
      BY <2>1 DEF Carries, Under, Fields, Ordered, FirstPass, ArgumentsFit,
         SandboxCarried, ModelCarried, Confirmed, Place, Allowed, Unseen
    <3> QED BY <3>1, <3>2
  <2>3. CASE ~(run.goal = "model" /\ run.effort # None)
    <3>1. Judged(entries) = Validated
      BY <1>3, <2>3 DEF Judged, Ok
    <3>2. Carries(Validated)
      BY <2>1 DEF Validated, Carries, Under, Fields, Ordered, FirstPass, ArgumentsFit,
         SandboxCarried, ModelCarried, Confirmed, Place, Allowed, Unseen
    <3> QED BY <3>1, <3>2
  <2> QED BY <2>2, <2>3
<1> QED
  BY <1>1, <1>2, <1>3

LEMMA AnsweredIs == \A c : Answered(c).step = "answered"
  BY DEF Answered, NoRun

\* A look into a catalog leaves the call its backend and its tool.
LEMMA JudgedIs ==
    ASSUME NEW entries, DOMAIN run = Fields
    PROVE  LET r == Judged(entries)
           IN  /\ r.step \in {"answered", "listing", "lookup", "start", "submit"}
               /\ r.step # "answered" => r.key = run.key /\ r.tool = run.tool
               /\ DOMAIN r = Fields
<1>1. \A c : Answered(c).step = "answered" /\ DOMAIN Answered(c) = Fields
  BY DEF Answered, NoRun, Fields
<1>2. /\ ModelMissing.step \in {"answered", "listing"}
      /\ ModelMissing.step # "answered" =>
             ModelMissing.key = run.key /\ ModelMissing.tool = run.tool
      /\ DOMAIN ModelMissing = Fields
  BY <1>1 DEF ModelMissing, Fields
<1>3. /\ Validated.step \in {"start", "submit"} /\ Validated.key = run.key
      /\ Validated.tool = run.tool /\ DOMAIN Validated = Fields
  BY DEF Validated, Fields
<1>4. LET r == [run EXCEPT !.step = "lookup", !.goal = "effort", !.forced = FALSE]
      IN  r.step = "lookup" /\ r.key = run.key /\ r.tool = run.tool /\ DOMAIN r = Fields
  BY DEF Fields
<1> DEFINE fault == IF run.goal = "model" THEN ModelFault(entries, run.model)
                    ELSE EffortFault(entries, run.model, run.effort)
<1>5. CASE fault = "MODEL_UNAVAILABLE"
  <2>1. Judged(entries) = ModelMissing
    BY <1>5 DEF Judged, Ok
  <2> QED BY <1>2, <2>1
<1>6. CASE fault \notin {Ok, "MODEL_UNAVAILABLE"}
  <2>1. Judged(entries) = Answered(fault)
    BY <1>6 DEF Judged
  <2> QED BY <1>1, <2>1
<1>7. CASE fault = Ok /\ run.goal = "model" /\ run.effort # None
  <2>1. Judged(entries) = [run EXCEPT !.step = "lookup", !.goal = "effort", !.forced = FALSE]
    BY <1>7 DEF Judged, Ok
  <2> QED BY <1>4, <2>1
<1>8. CASE fault = Ok /\ ~(run.goal = "model" /\ run.effort # None)
  <2>1. Judged(entries) = Validated
    BY <1>8 DEF Judged, Ok
  <2> QED BY <1>3, <2>1
<1> QED
  BY <1>5, <1>6, <1>7, <1>8

-----------------------------------------------------------------------------
(* The steps *)

\* The configuration, once the bridge serves, and the arguments of a call do not
\* change under it, and what is known of the thread of a reply only grows: it is
\* enough to look at the call.
LEMMA SameCall ==
    ASSUME phase' = phase, config' = config, args' = args, Carries(run'),
           known \subseteq known' \/ run'.tool # "codex-reply"
    PROVE  Carries(run)'
  BY DEF Carries, Under, Ordered, FirstPass, ArgumentsFit, SandboxCarried, ModelCarried,
     Confirmed, Place, Allowed, Unseen, Inside, WantedModel, WantedEffort

LEMMA SameRun ==
    ASSUME Carries(run), phase' = phase, config' = config, args' = args, run' = run,
           known' = known
    PROVE  Carries(run)'
  BY SameCall

\* An action that ends a call.
LEMMA AnswerCarries ==
    ASSUME NEW c, phase = "serving", c # "MODEL_UNAVAILABLE", phase' = phase,
           run' = Answered(c)
    PROVE  Carries(run)'
<1>1. /\ DOMAIN run' = Fields /\ run'.step = "answered" /\ run'.code = c
  BY DEF Answered, NoRun, Fields
<1> QED
  BY <1>1 DEF Carries, Under

LEMMA CodexCalledCarries ==
    ASSUME NEW a, CodexCalled(a)
    PROVE  Carries(run)'
<1> DEFINE cwd == ResolvedCwd(Given(a, "cwd"))
           sandbox == Merged(Given(a, "sandbox"), config.defaults.sandbox)
           fault == FirstFault(<<Stage(WorkspaceFault(cwd)), Stage(SandboxFault(sandbox))>>)
<1> USE DEF CodexCalled
<1>1. CASE CodexFault(a) # Ok
  BY <1>1, AnswerCarries, ArgumentCodes DEF bridge
<1>2. CASE CodexFault(a) = Ok /\ fault # Ok
  <2>2. fault # "MODEL_UNAVAILABLE"
    BY Stages, FaultsBlameless
  <2>3. run' = Answered(fault)
    BY <1>2
  <2> HIDE DEF fault
  <2> QED BY <2>2, <2>3, AnswerCarries DEF bridge
<1>3. CASE CodexFault(a) = Ok /\ fault = Ok
  <2>3. WorkspaceFault(cwd) = Ok /\ SandboxFault(sandbox) = Ok
    BY <1>3, Stages, FaultsBlameless
  <2>4. Inside(cwd) /\ sandbox \in config.sandboxes
    BY <2>3 DEF WorkspaceFault, SandboxFault, Inside, Ok
  <2>5. /\ run' = [NoRun EXCEPT !.step = "backend", !.tool = "codex", !.cwd = cwd,
                      !.sandbox = sandbox,
                      !.model = Merged(Model(a), config.defaults.model),
                      !.effort = Merged(Effort(a), config.defaults.effort)]
        /\ args' = a /\ phase' = "serving" /\ config' = config
    BY <1>3 DEF bridge
  <2> HIDE DEF cwd, sandbox, fault, CodexCalled
  <2>6. /\ DOMAIN run' = Fields /\ run'.step = "backend" /\ run'.tool = "codex"
        /\ run'.pass = 1 /\ run'.goal = "model" /\ ~run'.forced
        /\ run'.cwd = cwd /\ run'.sandbox = sandbox
        /\ run'.model = Merged(Model(a), config.defaults.model)
        /\ run'.effort = Merged(Effort(a), config.defaults.effort)
    BY <2>5 DEF NoRun, Fields
  <2>7. ArgumentsFit(run)'
    BY <1>3, <2>5, <2>6, CodexAccepted DEF ArgumentsFit
  <2>8. SandboxCarried(run)'
    BY <2>4, <2>5, <2>6 DEF SandboxCarried, Confirmed, Inside, sandbox
  <2>9. ModelCarried(run)'
    BY <2>5, <2>6 DEF ModelCarried, WantedModel, WantedEffort, FirstPass
  <2> QED BY <2>5, <2>6, <2>7, <2>8, <2>9 DEF Carries, Ordered, FirstPass
<1> QED
  BY <1>1, <1>2, <1>3

LEMMA ReplyCalledCarries ==
    ASSUME NEW a, ReplyCalled(a)
    PROVE  Carries(run)'
<1> USE DEF ReplyCalled
<1>1. CASE ReplyFault(a) # Ok
  BY <1>1, AnswerCarries, ArgumentCodes DEF bridge
<1>2. CASE ReplyFault(a) = Ok /\ SandboxFault(config.defaults.sandbox) # Ok
  BY <1>2, AnswerCarries, FaultsBlameless DEF bridge
<1>3. CASE ReplyFault(a) = Ok /\ SandboxFault(config.defaults.sandbox) = Ok
  <2>1. /\ run' = [NoRun EXCEPT !.step = "backend", !.tool = "codex-reply",
                                !.sandbox = config.defaults.sandbox]
        /\ args' = a /\ phase' = "serving" /\ config' = config
    BY <1>3 DEF bridge
  <2> HIDE DEF ReplyCalled
  <2>2. /\ DOMAIN run' = Fields /\ run'.step = "backend" /\ run'.tool = "codex-reply"
        /\ run'.pass = 1 /\ run'.goal = "model" /\ ~run'.forced
        /\ run'.sandbox = config.defaults.sandbox
    BY <2>1 DEF NoRun, Fields
  <2>3. DOMAIN a \subseteq ReplyFields
    BY <1>3, ReplyAccepted
  <2>4. Given(a, "sandbox") = None
    BY <2>3 DEF Given, ReplyFields
  <2>5. config.defaults.sandbox \in config.sandboxes
    BY <1>3 DEF SandboxFault, Ok
  <2>6. SandboxCarried(run)'
    BY <2>1, <2>2, <2>4, <2>5 DEF SandboxCarried, Confirmed, FirstPass, Merged
  <2> QED
    BY <2>1, <2>2, <2>3, <2>6
    DEF Carries, Ordered, ArgumentsFit, ModelCarried, FirstPass, Confirmed
<1> QED
  BY <1>1, <1>2, <1>3

LEMMA ThreadStartedCarries ==
    ASSUME Carries(run), ThreadStarted
    PROVE  Carries(run)'
<1>1. PICK s \in Snapshots(run.cwd, run.sandbox, run.model, run.effort) :
        run' = IF FirstFault(StartChecks(s)) # Ok THEN Answered(FirstFault(StartChecks(s)))
               ELSE [run EXCEPT !.step = SecondPass(s), !.snapshot = s,
                                !.model = s.model, !.goal = "model", !.pass = 2,
                                !.forced = FALSE,
                                !.effort = Merged(run.effort, s.effort)]
  BY DEF ThreadStarted
<1>2. /\ run.step = "start" /\ phase' = phase /\ config' = config /\ args' = args
      /\ phase = "serving"
  BY DEF ThreadStarted, bridge, Carries
<1>3. CASE FirstFault(StartChecks(s)) # Ok
  BY <1>1, <1>2, <1>3, AnswerCarries, RuntimeChecksBlameless, BlamelessFault
<1>4. CASE FirstFault(StartChecks(s)) = Ok
  <2>1. \A i \in 1..5 : ~StartChecks(s)[i].fails
    BY <1>4, RuntimeChecksBlameless, AllPass DEF Blameless
  <2>2. /\ s.cwd \in {NoCwd, run.cwd} /\ s.sandbox = run.sandbox
        /\ ~ApprovalDiffers(s) /\ s.model # None /\ run.model \in {None, s.model}
    <3>0. /\ ~StartChecks(s)[1].fails /\ ~StartChecks(s)[2].fails
          /\ ~StartChecks(s)[3].fails /\ ~StartChecks(s)[4].fails
          /\ ~StartChecks(s)[5].fails
      BY <2>1
    <3>1. s.cwd \in {NoCwd, run.cwd}
      BY <3>0 DEF StartChecks, Check
    <3>2. s.sandbox = run.sandbox
      BY <3>0 DEF StartChecks, Check
    <3>3. ~ApprovalDiffers(s)
      BY <3>0 DEF StartChecks, Check
    <3>4. s.model # None
      BY <3>0 DEF StartChecks, Check
    <3>5. ~(run.model # None /\ s.model # run.model)
      BY <3>0 DEF StartChecks, Check
    <3> QED BY <3>1, <3>2, <3>3, <3>4, <3>5
  <2>3. Ordered(run) /\ ArgumentsFit(run) /\ SandboxCarried(run) /\ ModelCarried(run)
        /\ FirstPass(run) /\ DOMAIN run = Fields
    BY <1>2 DEF Carries, Under, Ordered
  <2>4. /\ DOMAIN run' = Fields /\ run'.step = "lookup" /\ run'.snapshot = s
        /\ run'.model = s.model /\ run'.goal = "model" /\ run'.pass = 2
        /\ ~run'.forced /\ run'.effort = Merged(run.effort, s.effort)
        /\ run'.sandbox = run.sandbox /\ run'.tool = run.tool /\ run'.cwd = run.cwd
    BY <1>1, <1>4, <2>3 DEF SecondPass, Fields
  <2>5. Ordered(run') /\ ArgumentsFit(run')
    BY <2>3, <2>4 DEF Ordered, ArgumentsFit, FirstPass
  <2>6. SandboxCarried(run')
    BY <2>2, <2>3, <2>4 DEF SandboxCarried, Confirmed, Place, FirstPass
  <2>7. ModelCarried(run')
    BY <2>2, <2>3, <2>4 DEF ModelCarried, FirstPass
  <2>8. Carries(run')
    BY <1>2, <2>4, <2>5, <2>6, <2>7 DEF Carries
  <2> QED BY <1>2, <2>3, <2>4, <2>8, SameCall DEF FirstPass
<1> QED
  BY <1>3, <1>4

\* What is made of the snapshot s that thread/resume returned, and of the effort
\* that it or the record names.
ResumedWith(s, effort) ==
    LET confirmed == Merged(s.model, record.model)
        model == Merged(Given(args, "model"), confirmed)
    IN IF ResumeFault(s) # Ok
       THEN run' = Answered(ResumeFault(s)) /\ UNCHANGED registry
       ELSE /\ record' = [record EXCEPT !.cwd = s.cwd, !.model = confirmed,
                                        !.effort = effort]
            /\ Hears(s.model)
            /\ run' = [run EXCEPT !.step = IF model # None THEN "lookup" ELSE "submit",
                                  !.snapshot = s, !.model = model,
                                  !.effort = Merged(Given(args, "effort"), effort)]

LEMMA ResumedIs ==
    ASSUME ThreadResumed
    PROVE  \E meta \in Reports, sandbox \in SupportedSandboxes, approval \in Approvals :
             LET s == [cwd |-> meta.cwd, sandbox |-> sandbox, approval |-> approval,
                       model |-> meta.model, effort |-> meta.effort]
             IN ResumedWith(s, Merged(s.effort, record.effort))
  BY Zenon DEF ThreadResumed, ResumedWith

LEMMA ThreadResumedCarries ==
    ASSUME Carries(run), Remembers, ThreadResumed
    PROVE  Carries(run)'
<1>1. PICK s, effort : ResumedWith(s, effort)
  BY ResumedIs, Zenon
<1>2. /\ run.step = "resume" /\ phase' = phase /\ config' = config /\ args' = args
      /\ phase = "serving"
  BY DEF ThreadResumed, bridge, Carries
<1>3. CASE ResumeFault(s) # Ok
  BY <1>1, <1>2, <1>3, AnswerCarries, RuntimeChecksBlameless, BlamelessFault
  DEF ResumedWith, ResumeFault
<1>4. CASE ResumeFault(s) = Ok
  <2> DEFINE confirmed == Merged(s.model, record.model)
             model == Merged(Given(args, "model"), confirmed)
  <2>1. \A i \in 1..4 : ~ResumeChecks(s)[i].fails
    BY <1>4, RuntimeChecksBlameless, AllPass DEF Blameless, ResumeFault
  <2>2. /\ s.sandbox = run.sandbox /\ ~ApprovalDiffers(s)
        /\ s.cwd # NoCwd /\ WorkspaceFault(s.cwd) = Ok
    <3>0. /\ ~ResumeChecks(s)[1].fails /\ ~ResumeChecks(s)[2].fails
          /\ ~ResumeChecks(s)[3].fails
      BY <2>1
    <3>1. ~(s.sandbox # run.sandbox \/ ApprovalDiffers(s))
      BY <3>0 DEF ResumeChecks, Check
    <3>2. s.cwd # NoCwd
      BY <3>0 DEF ResumeChecks, Check
    <3>3. ResumeChecks(s)[3] = Stage(WorkspaceFault(s.cwd))
      BY <3>2 DEF ResumeChecks
    <3> QED BY <3>0, <3>1, <3>2, <3>3, StageIs
  <2>3. Ordered(run) /\ ArgumentsFit(run) /\ SandboxCarried(run)
        /\ run.tool = "codex-reply" /\ DOMAIN run = Fields /\ Under(run)
    BY <1>2 DEF Carries, Under, Ordered
  <2>4. /\ DOMAIN run' = Fields /\ run'.snapshot = s /\ run'.model = model
        /\ run'.step = IF model # None THEN "lookup" ELSE "submit"
        /\ run'.effort = Merged(Given(args, "effort"), effort)
        /\ run'.sandbox = run.sandbox /\ run'.tool = run.tool /\ run'.pass = run.pass
        /\ run'.goal = run.goal /\ run'.forced = run.forced
    BY <1>1, <1>4, <2>3 DEF ResumedWith, Fields
  <2>5. /\ known \subseteq known'
        /\ s.model = None => confirmed \in known \cup {None}
    BY <1>1, <1>4, <2>3 DEF ResumedWith, Hears, Remembers, IsReply, Merged
  <2>6. /\ Given(args, "model") # None => model = Given(args, "model")
        /\ Given(args, "model") = None => model = confirmed
        /\ s.model # None => confirmed = s.model
    BY DEF Merged
  <2> HIDE DEF model, confirmed
  <2>7. Ordered(run') /\ ArgumentsFit(run')
    BY <1>2, <2>3, <2>4 DEF Ordered, ArgumentsFit, FirstPass
  <2>8. SandboxCarried(run')
    BY <2>2, <2>3, <2>4
    DEF SandboxCarried, Confirmed, Place, FirstPass, WorkspaceFault, Inside, Ok
  <2>9. ModelCarried(run')
    <3>1. run'.step = "submit" \/ run'.goal = "effort" => Allowed(run')
      BY <1>2, <2>3, <2>4, <2>6 DEF Allowed, Unseen, Ordered
    <3>2. run'.step \in {"lookup", "submit"} /\ run'.pass = 1
      BY <1>2, <2>3, <2>4 DEF Ordered
    <3> QED
      BY <2>3, <2>4, <2>5, <2>6, <3>1, <3>2 DEF ModelCarried, FirstPass, Merged
  <2>10. Carries(run')
    BY <1>2, <2>4, <2>7, <2>8, <2>9 DEF Carries
  <2> QED BY <1>2, <2>5, <2>10, SameCall
<1> QED
  BY <1>3, <1>4

\* The steps in between: none of them touches what was checked.
LEMMA BackendStepCarries ==
    ASSUME Carries(run), GotBackend \/ CatalogListed \/ ThreadRead
    PROVE  Carries(run)'
<1>1. CASE GotBackend
  <2> USE DEF GotBackend
  <2> DEFINE r == [run EXCEPT !.key = CatalogKey(backend')]
  <2>1. \/ run.tool = "codex" /\ run' = [r EXCEPT !.step = "lookup"]
        \/ run.tool = "codex" /\ run' = [r EXCEPT !.step = "start"]
        \/ run.tool # "codex" /\ run' = [r EXCEPT !.step = "read"]
        \/ /\ run.tool # "codex" /\ WriteFault(record.cwd) = Ok
           /\ run' = [r EXCEPT !.step = "resume", !.cwd = record.cwd]
        \/ WriteFault(record.cwd) # Ok /\ run' = Answered(WriteFault(record.cwd))
    BY <1>1 DEF Resuming
  <2>2. /\ run.step = "backend" /\ phase' = phase /\ config' = config /\ args' = args
        /\ known' = known /\ phase = "serving"
    BY <1>1 DEF bridge, registry, Carries
  <2> HIDE DEF GotBackend
  <2>3. CASE run' = Answered(WriteFault(record.cwd))
    BY <2>2, <2>3, AnswerCarries, FaultsBlameless
  <2>4. CASE run' # Answered(WriteFault(record.cwd))
    <3>1. /\ DOMAIN run' = Fields /\ run'.tool = run.tool /\ run'.pass = run.pass
          /\ run'.goal = run.goal /\ run'.forced = run.forced
          /\ run'.sandbox = run.sandbox /\ run'.model = run.model
          /\ run'.effort = run.effort
          /\ run.tool = "codex" => run'.step \in {"lookup", "start"} /\ run'.cwd = run.cwd
          /\ run.tool # "codex" => run'.step \in {"read", "resume"}
      BY <2>1, <2>4 DEF Carries, Fields
    <3>2. Ordered(run) /\ ArgumentsFit(run) /\ SandboxCarried(run) /\ ModelCarried(run)
      BY <2>2 DEF Carries, Under
    <3>3. Carries(run')
      BY <2>2, <3>1, <3>2 DEF Carries, Under, Ordered, FirstPass, ArgumentsFit,
         SandboxCarried, ModelCarried, Confirmed
    <3> QED BY <2>2, <3>3, SameCall
  <2> QED BY <2>3, <2>4
<1>2. CASE CatalogListed
  <2>1. PICK list :
          run' = [run EXCEPT !.step = "listed", !.listed = TRUE, !.list = list]
    BY <1>2 DEF CatalogListed
  <2>2. /\ run.step = "listing" /\ phase' = phase /\ config' = config /\ args' = args
        /\ known' = known
    BY <1>2 DEF CatalogListed, bridge, registry
  <2>3. Carries(run')
    BY <2>1, <2>2 DEF Carries, Under, Fields, Ordered, FirstPass, ArgumentsFit,
       SandboxCarried, ModelCarried, Confirmed, Place, Allowed, Unseen
  <2> QED BY <2>2, <2>3, SameCall
<1>3. CASE ThreadRead
  <2>1. /\ run.step = "read" /\ phase' = phase /\ config' = config /\ args' = args
        /\ phase = "serving"
    BY <1>3 DEF ThreadRead, bridge, Carries
  <2>2. PICK cwd, model :
          /\ known' = known \cup ({model} \ {None})
          /\ LET fault == IF cwd # NoCwd THEN WorkspaceFault(cwd) ELSE Ok
             IN run' = IF fault # Ok THEN Answered(fault) ELSE Resuming(run, cwd)
    BY <1>3 DEF ThreadRead, Hears
  <2>3. CASE run' = [run EXCEPT !.step = "resume", !.cwd = cwd]
    <3>1. Carries(run')
      BY <2>1, <2>3 DEF Carries, Under, Fields, Ordered, FirstPass, ArgumentsFit,
         SandboxCarried, ModelCarried, Confirmed, Place, Allowed, Unseen
    <3>2. known \subseteq known'
      BY <2>2
    <3> QED BY <2>1, <3>1, <3>2, SameCall
  <2>4. CASE run' # [run EXCEPT !.step = "resume", !.cwd = cwd]
    <3>1. run' = Answered(WorkspaceFault(cwd)) \/ run' = Answered(WriteFault(cwd))
      BY <2>2, <2>4 DEF Resuming
    <3> QED BY <2>1, <3>1, AnswerCarries, FaultsBlameless
  <2> QED BY <2>3, <2>4
<1> QED
  BY <1>1, <1>2, <1>3

LEMMA CatalogStepCarries ==
    ASSUME Carries(run), CatalogLookedUp \/ CatalogStored
    PROVE  Carries(run)'
<1>1. /\ run.step \in {"lookup", "listed"}
      /\ phase' = phase /\ config' = config /\ args' = args /\ phase = "serving"
      /\ known' = known
  BY DEF CatalogLookedUp, CatalogStored, bridge, registry, Carries
<1>2. CASE CatalogLookedUp /\ run' = Judged(cache.entries)
  BY <1>1, <1>2, JudgedCarries, SameCall
<1>3. CASE CatalogLookedUp /\ run' = [run EXCEPT !.step = "listing"]
  <2>1. Carries(run')
    BY <1>1, <1>3 DEF Carries, Under, Fields, Ordered, FirstPass, ArgumentsFit,
       SandboxCarried, ModelCarried, Confirmed, Place, Allowed, Unseen
  <2> QED BY <1>1, <2>1, SameCall
<1>4. CASE CatalogStored
  <2> DEFINE r == Judged(run.list.entries)
  <2>1. Carries(r) /\ run' = [r EXCEPT !.list = NoCache]
    <3>1. Carries(r)
      BY <1>1, JudgedCarries
    <3> QED BY <1>4, <3>1 DEF CatalogStored
  <2> HIDE DEF r
  <2>2. Carries(run')
    BY <2>1 DEF Carries, Under, Fields, Ordered, FirstPass, ArgumentsFit,
       SandboxCarried, ModelCarried, Confirmed, Place, Allowed, Unseen
  <2> QED BY <1>1, <2>2, SameCall
<1> QED
  BY <1>2, <1>3, <1>4 DEF CatalogLookedUp

LEMMA EndCarries ==
    ASSUME Carries(run), CallEnds \/ CallFails \/ TurnSubmitted \/ TurnEnds
    PROVE  Carries(run)'
<1>1. CASE CallEnds
  <2>1. run' = NoRun
    BY <1>1 DEF CallEnds
  <2> QED BY <2>1 DEF NoRun, Carries, Under, Fields
<1>2. CASE CallFails
  <2>1. run' = Answered("FAILED") /\ phase' = phase /\ phase = "serving"
    BY <1>2 DEF CallFails, bridge, Carries, Awaiting
  <2> QED BY <2>1, AnswerCarries
<1>3. CASE TurnSubmitted
  <2>1. /\ run.step = "submit" /\ phase' = phase /\ config' = config /\ args' = args
        /\ run' = [run EXCEPT !.step = "turn"] /\ known \subseteq known'
    BY <1>3 DEF TurnSubmitted, Hears, bridge
  <2>2. Carries(run')
    BY <2>1 DEF Carries, Under, Fields, Ordered, FirstPass, ArgumentsFit,
       SandboxCarried, ModelCarried, Confirmed, Place, Allowed, Unseen
  <2> QED BY <2>1, <2>2, SameCall
<1>4. CASE TurnEnds
  <2>1. run' = Answered(Ok) /\ phase' = phase /\ phase = "serving"
    BY <1>4 DEF TurnEnds, bridge, Carries
  <2> QED BY <2>1, AnswerCarries DEF Ok
<1> QED
  BY <1>1, <1>2, <1>3, <1>4

\* The record of the thread.
LEMMA RecordRemembers ==
    ASSUME Carries(run), Remembers, Next
    PROVE  Remembers'
<1> DEFINE Good == DOMAIN record' = RecordFields /\ record'.model \in known' \cup {None}
<1>0. DOMAIN run = Fields /\ \A c : Answered(c).step = "answered"
  BY DEF Carries, Answered, NoRun
<1>1. CASE \E a \in CodexArguments : CodexCalled(a)
  <2>1. /\ record' = record /\ known' = known
        /\ run'.step = "answered" \/ (run'.step = "backend" /\ run'.tool = "codex")
    BY <1>0, <1>1 DEF CodexCalled, NoRun, registry
  <2> QED BY <2>1 DEF Remembers, IsReply, Under
<1>2. CASE \E a \in ReplyArguments : ReplyCalled(a)
  <2>1. PICK a \in ReplyArguments : ReplyCalled(a)
    BY <1>2
  <2>2. known' = known
    BY <2>1 DEF ReplyCalled
  <2>3. CASE ReplyFault(a) # Ok
    BY <1>0, <2>1, <2>2, <2>3 DEF ReplyCalled, Remembers, IsReply, Under
  <2>4. CASE ReplyFault(a) = Ok
    BY <2>1, <2>2, <2>4 DEF ReplyCalled, Remembers, RecordFields
  <2> QED BY <2>3, <2>4
<1>3. CASE ThreadStarted
  <2>1. /\ record' = NoRecord
        /\ run'.step = "answered" \/ (run'.step = "lookup" /\ run'.tool = run.tool)
    BY <1>0, <1>3 DEF ThreadStarted, SecondPass, Fields
  <2>2. run.tool = "codex"
    BY <1>3 DEF ThreadStarted, Carries, Under, Ordered, FirstPass
  <2> QED BY <2>1, <2>2 DEF Remembers, IsReply, Under
<1>4. CASE ThreadRead
  <2>1. DOMAIN record = RecordFields
    BY <1>4 DEF ThreadRead, Carries, Under, Ordered, Remembers, IsReply
  <2>2. PICK meta : /\ record' = [record EXCEPT !.cwd = meta.cwd, !.model = meta.model,
                                                !.effort = meta.effort]
                    /\ known' = known \cup ({meta.model} \ {None})
    BY <1>4 DEF ThreadRead, Hears
  <2>3. Good
    BY <2>1, <2>2 DEF RecordFields
  <2> QED BY <2>3 DEF Remembers
<1>5. CASE ThreadResumed
  <2>1. DOMAIN record = RecordFields /\ record.model \in known \cup {None}
    BY <1>5 DEF ThreadResumed, Carries, Under, Ordered, Remembers, IsReply
  <2>2. CASE UNCHANGED registry
    BY <2>1, <2>2 DEF registry, Remembers
  <2>3. CASE ~UNCHANGED registry
    <3>1. PICK s, effort :
            /\ record' = [record EXCEPT !.cwd = s.cwd,
                                        !.model = Merged(s.model, record.model),
                                        !.effort = effort]
            /\ known' = known \cup ({s.model} \ {None})
      <4>1. PICK s, effort : ResumedWith(s, effort)
        BY <1>5, ResumedIs, Zenon
      <4> QED BY <2>3, <4>1 DEF ResumedWith, Hears
    <3>2. Good
      BY <2>1, <3>1 DEF RecordFields, Merged
    <3> QED BY <3>2 DEF Remembers
  <2> QED BY <2>2, <2>3
<1>6. CASE TurnSubmitted
  <2> DEFINE old == IF run.tool = "codex" THEN run.snapshot ELSE record
  <2>1. /\ DOMAIN record' = RecordFields
        /\ record'.model = Merged(run.model, old.model)
        /\ known' = known \cup ({run.model} \ {None})
    BY <1>6 DEF TurnSubmitted, Hears, RecordFields
  <2>2. /\ run.tool \in {"codex", "codex-reply"}
        /\ run.tool = "codex" => run.model = run.snapshot.model
        /\ run.tool = "codex-reply" => record.model \in known \cup {None}
    BY <1>6
    DEF TurnSubmitted, Carries, Under, Ordered, FirstPass, ModelCarried, Remembers,
        IsReply
  <2>3. Good
    BY <2>1, <2>2 DEF Merged
  <2> QED BY <2>3 DEF Remembers
<1>7. CASE TurnEnds
  <2>1. DOMAIN record = RecordFields /\ record.model \in known \cup {None}
    BY <1>7 DEF TurnEnds, Remembers
  <2>2. PICK state : record' = [record EXCEPT !.state = state] /\ known' = known
    BY <1>7 DEF TurnEnds
  <2>3. Good
    BY <2>1, <2>2 DEF RecordFields
  <2> QED BY <2>3 DEF Remembers
<1>8. CASE CatalogLookedUp \/ CatalogStored
  <2>1. record' = record /\ known' = known /\ run.step \in {"lookup", "listed"}
    BY <1>8 DEF CatalogLookedUp, CatalogStored, registry
  <2>2. ASSUME NEW entries
        PROVE  LET r == Judged(entries)
               IN  /\ DOMAIN r = Fields
                   /\ r.step \in {"answered", "listing", "lookup", "start", "submit"}
                   /\ r.step # "answered" => r.tool = run.tool
    BY <1>0, JudgedIs
  <2>3. /\ run'.step # "turn"
        /\ IsReply(run') => IsReply(run)
    <3>1. CASE \E entries : run' = Judged(entries)
      BY <2>1, <2>2, <3>1 DEF IsReply, Under
    <3>2. CASE \E entries : run' = [Judged(entries) EXCEPT !.list = NoCache]
      <4>1. PICK entries : run' = [Judged(entries) EXCEPT !.list = NoCache]
        BY <3>2
      <4> DEFINE r == Judged(entries)
      <4>2. run'.step = r.step /\ run'.tool = r.tool
        BY <2>2, <4>1 DEF Fields
      <4> QED BY <2>1, <2>2, <4>2 DEF IsReply, Under
    <3>3. CASE run' = [run EXCEPT !.step = "listing"]
      BY <1>0, <2>1, <3>3 DEF IsReply, Under, Fields
    <3> QED BY <1>8, <3>1, <3>2, <3>3 DEF CatalogLookedUp, CatalogStored
  <2> QED BY <2>1, <2>3 DEF Remembers, IsReply, Under
<1>9. CASE GotBackend \/ CatalogListed
  <2>1. /\ record' = record /\ known' = known /\ run.step \in {"backend", "listing"}
        /\ run'.step # "turn" /\ (run'.step # "answered" => run'.tool = run.tool)
    BY <1>0, <1>9 DEF GotBackend, CatalogListed, Resuming, registry, Fields
  <2> QED BY <2>1 DEF Remembers, IsReply, Under
<1>10. CASE CallEnds \/ CallFails
  <2>1. record' = record /\ known' = known /\ run'.step \in {"answered", "idle"}
    BY <1>0, <1>10 DEF CallEnds, CallFails, NoRun, registry
  <2> QED BY <2>1 DEF Remembers, IsReply, Under
<1>11. CASE Starts \/ RuntimeDies \/ BackendStopped \/ ThreadMoved \/ Rests
  <2>1. record' = record /\ known' = known /\ run' = run
    BY <1>11 DEF Starts, RuntimeDies, BackendStopped, ThreadMoved, Rests, vars, registry
  <2> QED BY <2>1 DEF Remembers, IsReply, Under
<1> QED
  BY <1>1, <1>2, <1>3, <1>4, <1>5, <1>6, <1>7, <1>8, <1>9, <1>10, <1>11 DEF Next

LEMMA Initially == Init => Carries(run) /\ Remembers
  BY DEF Init, NoRun, Carries, Under, Fields, Remembers, IsReply

LEMMA Inductive ==
    Carries(run) /\ Remembers /\ [Next]_vars => Carries(run)' /\ Remembers'
<1> SUFFICES ASSUME Carries(run), Remembers, [Next]_vars
             PROVE  Carries(run)' /\ Remembers'
  OBVIOUS
<1>1. CASE Starts
  <2>1. run' = run /\ run.step = "idle"
    BY <1>1 DEF Starts, Carries
  <2> QED BY <1>1, <2>1, RecordRemembers DEF Carries, Under, Next
<1>2. CASE \E a \in CodexArguments : CodexCalled(a)
  BY <1>2, CodexCalledCarries, RecordRemembers DEF Next
<1>3. CASE \E a \in ReplyArguments : ReplyCalled(a)
  BY <1>3, ReplyCalledCarries, RecordRemembers DEF Next
<1>4. CASE GotBackend \/ CatalogListed \/ ThreadRead
  BY <1>4, BackendStepCarries, RecordRemembers DEF Next
<1>5. CASE CatalogLookedUp \/ CatalogStored
  BY <1>5, CatalogStepCarries, RecordRemembers DEF Next
<1>6. CASE CallEnds \/ CallFails \/ TurnSubmitted \/ TurnEnds
  BY <1>6, EndCarries, RecordRemembers DEF Next
<1>7. CASE ThreadStarted
  BY <1>7, ThreadStartedCarries, RecordRemembers DEF Next
<1>8. CASE ThreadResumed
  BY <1>8, ThreadResumedCarries, RecordRemembers DEF Next
<1>9. CASE RuntimeDies \/ BackendStopped \/ ThreadMoved \/ Rests \/ UNCHANGED vars
  <2>1. /\ phase' = phase /\ config' = config /\ args' = args /\ run' = run
        /\ known' = known /\ record' = record
    BY <1>9 DEF RuntimeDies, BackendStopped, ThreadMoved, Rests, vars, bridge, registry
  <2>2. Remembers'
    BY <2>1 DEF Remembers, IsReply, Under
  <2> QED BY <2>1, <2>2, SameRun
<1> QED
  BY <1>1, <1>2, <1>3, <1>4, <1>5, <1>6, <1>7, <1>8, <1>9 DEF Next

LEMMA Always == Spec => [](Carries(run) /\ Remembers)
  BY Initially, Inductive, PTL DEF Spec

-----------------------------------------------------------------------------
(* The properties *)

\* Whatever is configured, asked for, listed, confirmed or left out by the runtime:
\* a turn runs in an allowed workspace, in the sandbox it was to run in and without
\* approvals, with an allowed model unless it is a reply whose model nobody names.
THEOREM PolicyHolds == Spec => []TurnsAuthorised
<1>1. Carries(run) => TurnsAuthorised
  <2> SUFFICES ASSUME Carries(run), run.step = "turn" PROVE TurnsAuthorised
    BY DEF TurnsAuthorised
  <2>1. Ordered(run) /\ SandboxCarried(run) /\ ModelCarried(run)
    BY DEF Carries, Under
  <2>2. Confirmed(run)
    BY <2>1 DEF Ordered, Confirmed, FirstPass
  <2> QED BY <2>1, <2>2
    DEF TurnsAuthorised, SandboxCarried, ModelCarried, Inside, Place, Workplace, Allowed,
        Unseen
<1> QED
  BY <1>1, Always, PTL

\* No turn runs with a model or an effort other than what the client asked for; one
\* it did not ask for is the operator's, the one the runtime confirmed, or, of a
\* resumed thread it reports no model of, the last one this thread is known to have
\* had, and never one from elsewhere.
THEOREM NothingReplaced == Spec => []NoFallback
<1>1. Carries(run) => NoFallback
  <2> SUFFICES ASSUME Carries(run), run.step = "turn" PROVE NoFallback
    BY DEF NoFallback
  <2>1. Ordered(run) /\ ArgumentsFit(run) /\ ModelCarried(run)
    BY DEF Carries, Under
  <2>2. CASE run.tool = "codex"
    <3>1. /\ run.model = run.snapshot.model /\ WantedModel \in {None, run.model}
          /\ run.effort = Merged(WantedEffort, run.snapshot.effort)
      BY <2>1, <2>2 DEF Ordered, FirstPass, ModelCarried
    <3>2. /\ \A v \in Asked("model", "model") : v # None /\ Model(args) = v
          /\ \A v \in Asked("effort", "model_reasoning_effort") : v # None /\ Effort(args) = v
      BY <2>1, <2>2 DEF ArgumentsFit, Asked, Model, Effort, Merged, Conflicting
    <3>3. /\ Asked("model", "model") = {} => Model(args) = None
          /\ Asked("effort", "model_reasoning_effort") = {} => Effort(args) = None
      BY DEF Asked, Model, Effort, Merged
    <3> QED
      BY <2>2, <3>1, <3>2, <3>3 DEF NoFallback, WantedModel, WantedEffort, Merged
  <2>3. CASE run.tool = "codex-reply"
    <3>1. Given(args, "config") = None
      BY <2>1, <2>3 DEF ArgumentsFit, Given, ReplyFields
    <3>2. \A k : Given(ConfigOf(args), k) = None
      BY <3>1 DEF ConfigOf, NoKeys, Given
    <3>3. /\ Given(args, "model") # None => run.model = Given(args, "model")
          /\ Given(args, "model") = None =>
                 IF run.snapshot.model # None THEN run.model = run.snapshot.model
                 ELSE run.model \in known \cup {None}
          /\ Given(args, "effort") # None => run.effort = Given(args, "effort")
      BY <2>1, <2>3 DEF ModelCarried, Confirmed
    <3> QED BY <2>3, <3>2, <3>3 DEF NoFallback, Asked
  <2> QED BY <2>1, <2>2, <2>3 DEF Ordered
<1> QED
  BY <1>1, Always, PTL

\* No model is called unavailable before the runtime was asked.
THEOREM AskedBeforeRefused == Spec => []UnavailableIsFresh
<1>1. Carries(run) => UnavailableIsFresh
  BY DEF Carries, UnavailableIsFresh
<1> QED
  BY <1>1, Always, PTL

-----------------------------------------------------------------------------
(* The catalog cache *)

\* The backend object is not one of those that were stopped.
BackendIs ==
    /\ backend # NoBackend => backend \in [id : Ids, generation : Nat]
                              /\ backend.id \notin stopped
    /\ alive => backend # NoBackend

\* A catalog: of a backend that was stopped, of a generation before, or of the
\* process that runs.
Own(list) ==
    \/ list.key.id \in stopped
    \/ /\ backend # NoBackend /\ list.key.id = backend.id
       /\ list.key.generation \in Nat /\ list.key.generation < backend.generation
    \/ backend # NoBackend /\ list.key = backend /\ list.process = process

\* The call has got its backend.
Served == {"lookup", "listing", "listed", "start", "read", "resume", "submit", "turn"}

\* The backend of the call runs, or was stopped under it: no other call restarts it.
RunIs ==
    /\ run.step \in Served =>
           \/ run.key.id \in stopped
           \/ backend # NoBackend /\ run.key = backend
    /\ run.step = "listed" => Own(run.list)

CacheInv ==
    /\ BackendIs /\ RunIs
    /\ cache # NoCache => Own(cache)

\* Steps that change neither the backends nor the cache.
LEMMA CallCache ==
    ASSUME CacheInv, DOMAIN run = Fields, UNCHANGED <<backend, alive, process, stopped, cache>>,
           \/ run' = run
           \/ run'.step \notin Served
           \/ run'.step # "listed" /\ run.step \in Served /\ run'.key = run.key
           \/ run'.step = "listed" /\ run.step \in Served /\ run'.key = run.key
              /\ Own(run'.list)
    PROVE  CacheInv'
<1>1. Own(run.list)' \/ run'.step # "listed"
  BY DEF CacheInv, RunIs, Own, Served
<1>2. BackendIs' /\ (cache # NoCache => Own(cache))'
  BY DEF CacheInv, BackendIs, Own
<1>3. RunIs'
  BY <1>1 DEF CacheInv, RunIs, Served
<1> QED BY <1>2, <1>3 DEF CacheInv

\* _get_backend gives out an id that no stopped backend has, or a new generation.
LEMMA GotBackendCache ==
    ASSUME CacheInv, DOMAIN run = Fields, GotBackend
    PROVE  CacheInv'
<1>1. /\ run'.step \in Served => run'.key = backend'
      /\ run'.step # "listed" /\ stopped' = stopped /\ cache' = cache /\ alive'
  <2> DEFINE r == [run EXCEPT !.key = backend']
  <2>1. \/ run'.step = "answered"
        \/ run' = [r EXCEPT !.step = "lookup"] \/ run' = [r EXCEPT !.step = "start"]
        \/ run' = [r EXCEPT !.step = "read"]
        \/ run' = [r EXCEPT !.step = "resume", !.cwd = record.cwd]
    BY AnsweredIs DEF GotBackend, CatalogKey, Resuming
  <2>2. \/ run'.step = "answered"
        \/ run'.step \in {"lookup", "start", "read", "resume"} /\ run'.key = backend'
    BY <2>1 DEF Fields
  <2> QED BY <2>2 DEF GotBackend, Served
<1>2. CASE alive
  <2>1. backend' = backend /\ process' = process /\ backend # NoBackend
    BY <1>2 DEF GotBackend, CacheInv, BackendIs
  <2> QED BY <1>1, <2>1 DEF CacheInv, BackendIs, RunIs, Own
<1>3. CASE ~alive /\ backend # NoBackend
  <2>1. /\ backend' = [backend EXCEPT !.generation = @ + 1]
        /\ backend \in [id : Ids, generation : Nat] /\ backend.id \notin stopped
    BY <1>3 DEF GotBackend, CacheInv, BackendIs
  <2>2. /\ backend' \in [id : Ids, generation : Nat] /\ backend'.id = backend.id
        /\ backend'.generation = backend.generation + 1
    BY <2>1
  <2>3. backend' # NoBackend
    BY <2>2, BackendsAreReal
  <2>4. cache # NoCache => Own(cache)'
    BY <1>1, <2>1, <2>2, <2>3 DEF CacheInv, Own
  <2> QED BY <1>1, <2>1, <2>2, <2>3, <2>4 DEF CacheInv, BackendIs, RunIs
<1>4. CASE ~alive /\ backend = NoBackend
  <2>1. PICK id \in Ids \ stopped : backend' = [id |-> id, generation |-> 1]
    BY <1>4 DEF GotBackend
  <2>2. backend' \in [id : Ids, generation : Nat] /\ backend'.id \notin stopped
    BY <2>1
  <2>3. backend' # NoBackend
    BY <2>2, BackendsAreReal
  <2>4. cache # NoCache => Own(cache)'
    BY <1>1, <1>4 DEF CacheInv, Own
  <2> QED BY <1>1, <2>2, <2>3, <2>4 DEF CacheInv, BackendIs, RunIs
<1> QED
  BY <1>2, <1>3, <1>4

LEMMA CatalogCache ==
    ASSUME CacheInv, DOMAIN run = Fields, CatalogLookedUp \/ CatalogListed \/ CatalogStored
    PROVE  CacheInv'
<1>1. CASE CatalogLookedUp
  <2>1. UNCHANGED <<backend, alive, process, stopped, cache>> /\ run.step = "lookup"
    BY <1>1 DEF CatalogLookedUp, runtimes
  <2>2. CASE run' = Judged(cache.entries)
    BY <2>1, <2>2, JudgedIs, CallCache DEF Served
  <2>3. CASE run' = [run EXCEPT !.step = "listing"]
    BY <2>1, <2>3, CallCache DEF Served, Fields
  <2> QED BY <1>1, <2>2, <2>3 DEF CatalogLookedUp
<1>2. CASE CatalogListed
  <2>1. PICK entries \in Catalogs :
          run' = [run EXCEPT !.step = "listed", !.listed = TRUE,
                             !.list = [key |-> run.key, entries |-> entries,
                                       process |-> process]]
    BY <1>2 DEF CatalogListed
  <2>2. UNCHANGED <<backend, alive, process, stopped, cache>> /\ run.step = "listing" /\ alive
    BY <1>2 DEF CatalogListed, runtimes
  <2>3. /\ run'.step = "listed" /\ run'.key = run.key
        /\ run'.list.key = run.key /\ run'.list.process = process
    BY <2>1 DEF Fields
  <2>4. Own(run'.list)
    BY <2>2, <2>3 DEF CacheInv, RunIs, Own, Served
  <2> QED BY <2>2, <2>3, <2>4, CallCache DEF Served
<1>3. CASE CatalogStored
  <2> DEFINE r == Judged(run.list.entries)
  <2>1. /\ r.step \in {"answered", "listing", "lookup", "start", "submit"}
        /\ r.step # "answered" => r.key = run.key
        /\ DOMAIN r = Fields
    BY JudgedIs
  <2>2. /\ UNCHANGED <<backend, alive, process, stopped>> /\ run.step = "listed"
        /\ cache' = run.list /\ run' = [r EXCEPT !.list = NoCache]
    BY <1>3 DEF CatalogStored, runtimes
  <2> HIDE DEF r
  <2>3. run'.step = r.step /\ run'.key = r.key
    BY <2>1, <2>2 DEF Fields
  <2>4. Own(cache)'
    BY <2>2 DEF CacheInv, RunIs, Own
  <2>5. RunIs'
    BY <2>1, <2>2, <2>3 DEF CacheInv, RunIs, Served
  <2> QED BY <2>2, <2>4, <2>5 DEF CacheInv, BackendIs
<1> QED
  BY <1>1, <1>2, <1>3

LEMMA StoppedCache ==
    ASSUME CacheInv, BackendStopped
    PROVE  CacheInv'
<1>1. /\ backend # NoBackend /\ stopped' = stopped \cup {backend.id} /\ run' = run
      /\ backend' = NoBackend /\ alive' = FALSE /\ cache' = NoCache
  BY DEF BackendStopped, Kept
<1>2. run.step = "listed" => Own(run.list)'
  BY <1>1 DEF CacheInv, RunIs, Own
<1>3. run.step \in Served => run.key.id \in stopped'
  BY <1>1 DEF CacheInv, RunIs
<1> QED
  BY <1>1, <1>2, <1>3 DEF CacheInv, BackendIs, RunIs

LEMMA CacheStep == Carries(run) /\ CacheInv /\ [Next]_vars => CacheInv'
<1> SUFFICES ASSUME Carries(run), CacheInv, [Next]_vars PROVE CacheInv'
  OBVIOUS
<1>0. DOMAIN run = Fields
  BY DEF Carries
<1>1. CASE Starts \/ ThreadMoved \/ Rests \/ UNCHANGED vars
  <2>1. UNCHANGED <<backend, alive, process, stopped, cache, run>>
    BY <1>1 DEF Starts, ThreadMoved, Rests, vars, runtimes
  <2> QED BY <1>0, <2>1, CallCache
<1>2. CASE \/ \E a \in CodexArguments : CodexCalled(a)
           \/ \E a \in ReplyArguments : ReplyCalled(a)
  <2>1. UNCHANGED <<backend, alive, process, stopped, cache>>
    BY <1>2 DEF CodexCalled, ReplyCalled, runtimes
  <2>2. run'.step \in {"answered", "backend"}
    BY <1>2, AnsweredIs DEF CodexCalled, ReplyCalled, NoRun
  <2> QED BY <1>0, <2>1, <2>2, CallCache DEF Served
<1>3. CASE CallEnds \/ CallFails \/ TurnEnds
  <2>1. UNCHANGED <<backend, alive, process, stopped, cache>>
    BY <1>3 DEF CallEnds, CallFails, TurnEnds, runtimes
  <2>2. run'.step \in {"answered", "idle"}
    BY <1>3, AnsweredIs DEF CallEnds, CallFails, TurnEnds, NoRun
  <2> QED BY <1>0, <2>1, <2>2, CallCache DEF Served
<1>4. CASE ThreadStarted \/ ThreadRead \/ ThreadResumed \/ TurnSubmitted
  <2>1. UNCHANGED <<backend, alive, process, stopped, cache>>
    BY <1>4 DEF ThreadStarted, ThreadRead, ThreadResumed, TurnSubmitted, runtimes
  <2>2. \/ run'.step = "answered"
        \/ /\ run'.step \in {"lookup", "resume", "submit", "turn"} /\ run'.key = run.key
           /\ run.step \in {"start", "read", "resume", "submit"}
    <3>1. CASE ThreadStarted
      BY <1>0, <3>1, AnsweredIs DEF ThreadStarted, Fields, SecondPass
    <3>2. CASE ThreadRead
      BY <1>0, <3>2, AnsweredIs DEF ThreadRead, Resuming, Fields
    <3>3. CASE ThreadResumed
      <4>1. PICK s, effort : ResumedWith(s, effort)
        BY <3>3, ResumedIs, Zenon
      <4>2. run.step = "resume"
        BY <3>3 DEF ThreadResumed
      <4> QED BY <1>0, <4>1, <4>2, AnsweredIs DEF ResumedWith, Fields
    <3>4. CASE TurnSubmitted
      BY <1>0, <3>4 DEF TurnSubmitted, Fields
    <3> QED BY <1>4, <3>1, <3>2, <3>3, <3>4
  <2> QED BY <1>0, <2>1, <2>2, CallCache DEF Served
<1>5. CASE RuntimeDies
  <2>1. UNCHANGED <<backend, process, stopped, cache, run>> /\ ~alive'
    BY <1>5 DEF RuntimeDies
  <2> QED BY <2>1 DEF CacheInv, BackendIs, RunIs, Own
<1>6. CASE BackendStopped
  BY <1>6, StoppedCache
<1>7. CASE GotBackend
  BY <1>0, <1>7, GotBackendCache
<1>8. CASE CatalogLookedUp \/ CatalogListed \/ CatalogStored
  BY <1>0, <1>8, CatalogCache
<1> QED
  BY <1>1, <1>2, <1>3, <1>4, <1>5, <1>6, <1>7, <1>8 DEF Next

LEMMA CacheAlways == Spec => [](Carries(run) /\ Remembers /\ CacheInv)
<1>1. Init => CacheInv
  BY DEF Init, NoRun, CacheInv, BackendIs, RunIs, Served
<1>2. Init => Carries(run) /\ Remembers /\ CacheInv
  BY <1>1, Initially
<1>3. Carries(run) /\ Remembers /\ CacheInv /\ [Next]_vars =>
          Carries(run)' /\ Remembers' /\ CacheInv'
  BY Inductive, CacheStep
<1> QED
  BY <1>2, <1>3, PTL DEF Spec

\* However often the runtime is restarted or stopped, during model/list too: the
\* catalog that answers for a backend was listed by the process it runs now
\* (_get_catalog, and the references that _stopped_backends keeps).
THEOREM CacheOwned == Spec => []CacheIsOwn
<1>1. CacheInv => CacheIsOwn
  BY DEF CacheInv, BackendIs, Own, CacheIsOwn, CatalogKey
<1> QED
  BY <1>1, CacheAlways, PTL

-----------------------------------------------------------------------------
(* Types *)

ModelNames == Models \cup {None}
EffortNames == Efforts \cup {None}

\* A thread, and a record of one.
IsThread(t) == /\ DOMAIN t = {"cwd", "model", "effort"}
               /\ t.model \in ModelNames /\ t.effort \in EffortNames
IsRecord(r) == /\ DOMAIN r = RecordFields /\ r.state \in {"unknown", "idle", "active"}
               /\ r.model \in ModelNames /\ r.effort \in EffortNames

ProcessTyped ==
    /\ phase \in {"starting", "serving", "refused"}
    /\ startup \in Startups \cup {NoStartup}
    /\ phase = "starting" => startup \in Startups
    /\ (config # NoConfig) <=> (phase = "serving")
    /\ phase = "serving" => /\ config.defaults.model \in ModelNames
                            /\ config.defaults.effort \in EffortNames

RuntimesTyped ==
    /\ alive \in BOOLEAN /\ process \in 0..MaxProcesses /\ stopped \subseteq Ids
    /\ cache # NoCache => cache.entries \in Catalogs

RunTyped(r) ==
    /\ r.step \in Steps /\ r.goal \in {"model", "effort"} /\ r.pass \in 1..2
    /\ r.model \in ModelNames /\ r.effort \in EffortNames
    /\ r.step = "listed" => r.list.entries \in Catalogs
    /\ Confirmed(r) => r.snapshot.model \in ModelNames /\ r.snapshot.effort \in EffortNames

\* A thread and its record are there before a step asks for them.
ThreadTyped ==
    /\ thread # NoThread \/ Confirmed(run) => IsThread(thread)
    /\ record # NoRecord \/ IsReply(run) \/ run.step = "turn" => IsRecord(record)
    /\ known \subseteq Models

ArgumentsTyped ==
    /\ args \in CodexArguments \cup ReplyArguments \cup {NoArguments}
    /\ IsReply(run) =>
           Given(args, "model") \in ModelNames /\ Given(args, "effort") \in EffortNames

Typed == ProcessTyped /\ RuntimesTyped /\ RunTyped(run) /\ ThreadTyped /\ ArgumentsTyped

LEMMA BoundIsNat == MaxProcesses \in Nat
  BY NamesAreEnumerated

LEMMA NamesMerged ==
    /\ \A v \in ModelNames, w \in ModelNames : Merged(v, w) \in ModelNames
    /\ \A v \in EffortNames, w \in EffortNames : Merged(v, w) \in EffortNames
  BY DEF Merged

LEMMA NotConfirmed ==
    ASSUME NEW r, r.pass = 1, r.step \in {"idle", "answered", "backend", "read", "resume"}
    PROVE  ~Confirmed(r)
  BY DEF Confirmed

\* A call that is over, or one that begins.
LEMMA AnsweredTyped ==
    ASSUME NEW c
    PROVE  LET r == Answered(c)
           IN  RunTyped(r) /\ ~Confirmed(r) /\ ~Under(r) /\ r.step = "answered"
<1> DEFINE r == Answered(c)
<1>1. /\ r.step = "answered" /\ r.goal = "model" /\ r.pass = 1
      /\ r.model = None /\ r.effort = None
  BY DEF Answered, NoRun
<1> HIDE DEF r
<1>2. ~Confirmed(r)
  BY <1>1, NotConfirmed
<1> QED
  BY <1>1, <1>2 DEF r, RunTyped, Under, Steps, ModelNames, EffortNames

\* What becomes of a call that looks into a catalog.
Follows(r) ==
    /\ RunTyped(r) /\ r.step # "turn" /\ (Confirmed(r) => Confirmed(run))
    /\ r.step # "answered" => r.tool = run.tool

LEMMA JudgedTyped ==
    ASSUME NEW entries, RunTyped(run), DOMAIN run = Fields,
           run.step \in {"lookup", "listed"}, run.tool \in {"codex", "codex-reply"}
    PROVE  Follows(Judged(entries))
<1>1. \A c : Follows(Answered(c))
  BY AnsweredTyped DEF Follows
<1>2. Follows([run EXCEPT !.step = "listing", !.forced = TRUE])
  BY DEF Follows, RunTyped, Fields, Confirmed, Steps, Awaiting
<1>3. Follows(Validated)
  BY DEF Follows, Validated, RunTyped, Fields, Confirmed, Steps, Awaiting
<1>4. Follows([run EXCEPT !.step = "lookup", !.goal = "effort", !.forced = FALSE])
  BY DEF Follows, RunTyped, Fields, Confirmed, Steps, Awaiting
<1>5. Follows(ModelMissing)
  BY <1>1, <1>2 DEF ModelMissing
<1> DEFINE fault == IF run.goal = "model" THEN ModelFault(entries, run.model)
                    ELSE EffortFault(entries, run.model, run.effort)
<1>6. CASE fault = "MODEL_UNAVAILABLE"
  <2>1. Judged(entries) = ModelMissing
    BY <1>6 DEF Judged, Ok
  <2> QED BY <1>5, <2>1
<1>7. CASE fault \notin {Ok, "MODEL_UNAVAILABLE"}
  <2>1. Judged(entries) = Answered(fault)
    BY <1>7 DEF Judged
  <2> QED BY <1>1, <2>1
<1>8. CASE fault = Ok /\ run.goal = "model" /\ run.effort # None
  <2>1. Judged(entries) = [run EXCEPT !.step = "lookup", !.goal = "effort", !.forced = FALSE]
    BY <1>8 DEF Judged, Ok
  <2> QED BY <1>4, <2>1
<1>9. CASE fault = Ok /\ ~(run.goal = "model" /\ run.effort # None)
  <2>1. Judged(entries) = Validated
    BY <1>9 DEF Judged, Ok
  <2> QED BY <1>3, <2>1
<1> QED
  BY <1>6, <1>7, <1>8, <1>9

\* A call arrives: what it names is enumerated, and a reply has a record.
LEMMA CalledTyped ==
    ASSUME Typed,
           \/ \E a \in CodexArguments : CodexCalled(a)
           \/ \E a \in ReplyArguments : ReplyCalled(a)
    PROVE  Typed'
<1> USE DEF Typed
<1>1. ASSUME NEW a \in CodexArguments, CodexCalled(a) PROVE Typed'
  <2> DEFINE cwd == ResolvedCwd(Given(a, "cwd"))
             sandbox == Merged(Given(a, "sandbox"), config.defaults.sandbox)
             model == Merged(Model(a), config.defaults.model)
             effort == Merged(Effort(a), config.defaults.effort)
             fault == FirstFault(<<Stage(WorkspaceFault(cwd)), Stage(SandboxFault(sandbox))>>)
             r == [NoRun EXCEPT !.step = "backend", !.tool = "codex", !.cwd = cwd,
                      !.sandbox = sandbox, !.model = model, !.effort = effort]
  <2>1. /\ args' = a /\ UNCHANGED <<bridge, runtimes, cache, thread, registry>>
        /\ phase = "serving"
    BY <1>1 DEF CodexCalled
  <2>2. \/ run' = Answered(CodexFault(a)) \/ run' = Answered(fault)
        \/ CodexFault(a) = Ok /\ run' = r
    BY <1>1 DEF CodexCalled
  <2>3. CodexFault(a) = Ok => model \in ModelNames /\ effort \in EffortNames
    BY <2>1, NamesAreEnumerated, NamesMerged DEF ProcessTyped, ModelNames, EffortNames
  <2>4. /\ r.step = "backend" /\ r.tool = "codex" /\ r.pass = 1 /\ r.goal = "model"
        /\ r.model = model /\ r.effort = effort
    BY DEF NoRun
  <2> HIDE DEF cwd, sandbox, model, effort, fault, r
  <2>5. ~Confirmed(r)
    BY <2>4, NotConfirmed
  <2>6. CodexFault(a) = Ok => RunTyped(r)
    BY <2>3, <2>4, <2>5 DEF RunTyped, Steps, Awaiting
  <2>7. RunTyped(run') /\ ~Confirmed(run')
        /\ ~IsReply(run') /\ run'.step # "turn"
    BY <2>2, <2>4, <2>5, <2>6, AnsweredTyped DEF IsReply
  <2> QED
    BY <2>1, <2>7
    DEF ProcessTyped, RuntimesTyped, ThreadTyped, IsReply, ArgumentsTyped, bridge,
        runtimes, registry, Confirmed, Under, RunTyped
<1>2. ASSUME NEW a \in ReplyArguments, ReplyCalled(a) PROVE Typed'
  <2> DEFINE r == [NoRun EXCEPT !.step = "backend", !.tool = "codex-reply",
                                !.sandbox = config.defaults.sandbox]
             new == [state |-> "unknown", cwd |-> None, model |-> None, effort |-> None]
  <2>1. args' = a /\ UNCHANGED <<bridge, runtimes, cache, thread, known>>
    BY <1>2 DEF ReplyCalled
  <2>2. \/ run' = Answered(ReplyFault(a)) /\ record' = record
        \/ /\ \/ run' = Answered(SandboxFault(config.defaults.sandbox))
              \/ ReplyFault(a) = Ok /\ run' = r
           /\ record' = IF record # NoRecord THEN record ELSE new
    BY <1>2 DEF ReplyCalled
  <2>3. IsRecord(new)
    BY DEF IsRecord, RecordFields, ModelNames, EffortNames
  <2>4. /\ r.step = "backend" /\ r.pass = 1 /\ r.goal = "model"
        /\ r.model = None /\ r.effort = None
    BY DEF NoRun
  <2> HIDE DEF r, new
  <2>5. RunTyped(r) /\ ~Confirmed(r)
    BY <2>4, NotConfirmed DEF RunTyped, Steps, Awaiting, ModelNames, EffortNames
  <2>7. RunTyped(run') /\ ~Confirmed(run') /\ run'.step # "turn"
    BY <2>2, <2>4, <2>5, AnsweredTyped
  <2>8. Under(run') => run' = r /\ ReplyFault(a) = Ok
    BY <2>2, AnsweredTyped
  <2>9. record' # NoRecord => IsRecord(record')
    BY <2>2, <2>3 DEF ThreadTyped
  <2>10. Under(run') => IsRecord(record')
    BY <2>2, <2>3, <2>8, AnsweredTyped DEF ThreadTyped
  <2>11. Under(run') => Given(a, "model") \in ModelNames /\ Given(a, "effort") \in EffortNames
    BY <2>8, NamesAreEnumerated DEF ModelNames, EffortNames
  <2> QED
    BY <2>1, <2>7, <2>9, <2>10, <2>11
    DEF ProcessTyped, RuntimesTyped, ThreadTyped, IsReply, ArgumentsTyped, bridge,
        runtimes, registry, Confirmed, Under, RunTyped
<1> QED
  BY <1>1, <1>2

\* The runtime and its catalog.
LEMMA RuntimeTyped ==
    ASSUME Typed, Carries(run),
           GotBackend \/ CatalogLookedUp \/ CatalogListed \/ CatalogStored
    PROVE  Typed'
<1> USE DEF Typed
<1>0. /\ DOMAIN run = Fields
      /\ Under(run) => run.tool \in {"codex", "codex-reply"}
      /\ run.step = "backend" => run.pass = 1
  BY DEF Carries, Ordered, Under
<1>1. CASE GotBackend
  <2> DEFINE r == [run EXCEPT !.key = CatalogKey(backend')]
  <2>1. \/ run' = [r EXCEPT !.step = "lookup"] \/ run' = [r EXCEPT !.step = "start"]
        \/ run' = [r EXCEPT !.step = "read"]
        \/ run' = [r EXCEPT !.step = "resume", !.cwd = record.cwd]
        \/ run' = Answered(WriteFault(record.cwd))
    BY <1>1 DEF GotBackend, Resuming
  <2>2. /\ UNCHANGED <<bridge, stopped, cache, thread, registry, args>> /\ alive' = TRUE
        /\ run.step = "backend"
        /\ process' = process \/ (process < MaxProcesses /\ process' = process + 1)
    BY <1>1 DEF GotBackend
  <2>3. /\ RunTyped(run') /\ (run'.tool = "codex-reply" => ~Confirmed(run') \/ IsReply(run))
        /\ (IsReply(run') => IsReply(run)) /\ run'.step # "turn"
        /\ (Confirmed(run') => Confirmed(run))
    <3>1. CASE run' = Answered(WriteFault(record.cwd))
      BY <3>1, AnsweredTyped DEF IsReply
    <3>2. CASE run' # Answered(WriteFault(record.cwd))
      <4>1. /\ run'.step \in {"lookup", "start", "read", "resume"}
            /\ run'.tool = run.tool /\ run'.pass = run.pass /\ run'.goal = run.goal
            /\ run'.model = run.model /\ run'.effort = run.effort
        BY <1>0, <2>1, <3>2 DEF Fields
      <4>2. ~Confirmed(run')
        BY <1>0, <1>1, <2>2, <3>2, <4>1
        DEF Confirmed, GotBackend, Resuming, Fields
      <4> QED BY <2>2, <4>1, <4>2 DEF RunTyped, Steps, Awaiting, IsReply, Under
    <3> QED BY <3>1, <3>2
  <2>4. process' \in 0..MaxProcesses
    <3>1. process \in 0..MaxProcesses
      BY DEF RuntimesTyped
    <3>2. process' = process \/ (process < MaxProcesses /\ process' = process + 1)
      BY <2>2
    <3> QED BY ONLY <3>1, <3>2, BoundIsNat
  <2> QED
    BY <2>2, <2>3, <2>4
    DEF ProcessTyped, RuntimesTyped, ThreadTyped, IsReply, ArgumentsTyped, bridge,
        registry, Confirmed, Under, RunTyped
<1>2. CASE CatalogLookedUp
  <2>1. /\ UNCHANGED <<bridge, runtimes, cache, thread, registry, args>>
        /\ run.step = "lookup" /\ Under(run)
        /\ run' = Judged(cache.entries) \/ run' = [run EXCEPT !.step = "listing"]
    BY <1>2 DEF CatalogLookedUp, Under
  <2>2. Follows(run')
    <3>1. CASE run' = Judged(cache.entries)
      BY <1>0, <2>1, <3>1, JudgedTyped
    <3>2. CASE run' = [run EXCEPT !.step = "listing"]
      BY <1>0, <2>1, <3>2 DEF Follows, RunTyped, Fields, Confirmed, Steps, Awaiting
    <3> QED BY <2>1, <3>1, <3>2
  <2> QED
    BY <2>1, <2>2
    DEF Follows, ProcessTyped, RuntimesTyped, ThreadTyped, IsReply, ArgumentsTyped,
        bridge, runtimes, registry, Under
<1>3. CASE CatalogListed
  <2>1. PICK entries \in Catalogs :
          run' = [run EXCEPT !.step = "listed", !.listed = TRUE,
                             !.list = [key |-> run.key, entries |-> entries,
                                       process |-> process]]
    BY <1>3 DEF CatalogListed
  <2>2. /\ UNCHANGED <<bridge, runtimes, cache, thread, registry, args>>
        /\ run.step = "listing" /\ Under(run)
    BY <1>3 DEF CatalogListed, Under
  <2>3. /\ RunTyped(run') /\ run'.step # "turn" /\ (Confirmed(run') => Confirmed(run))
        /\ run'.tool = run.tool
    BY <1>0, <2>1, <2>2 DEF RunTyped, Fields, Confirmed, Steps, Awaiting
  <2> QED
    BY <2>2, <2>3
    DEF ProcessTyped, RuntimesTyped, ThreadTyped, IsReply, ArgumentsTyped, bridge,
        runtimes, registry, Confirmed, Under, RunTyped
<1>4. CASE CatalogStored
  <2> DEFINE r == Judged(run.list.entries)
  <2>1. /\ UNCHANGED <<bridge, runtimes, thread, registry, args>>
        /\ run.step = "listed" /\ Under(run) /\ cache' = run.list
        /\ run' = [r EXCEPT !.list = NoCache]
    BY <1>4 DEF CatalogStored, Under
  <2>2. Follows(r)
    BY <1>0, <2>1, JudgedTyped
  <2>3. DOMAIN r = Fields /\ r.step # "listed"
    BY <1>0, JudgedIs
  <2> HIDE DEF r
  <2>4. Follows(run')
    BY <2>1, <2>2, <2>3 DEF Follows, RunTyped, Fields, Confirmed
  <2>5. cache'.entries \in Catalogs
    BY <2>1 DEF RunTyped
  <2> QED
    BY <2>1, <2>4, <2>5
    DEF Follows, ProcessTyped, RuntimesTyped, ThreadTyped, IsReply, ArgumentsTyped,
        bridge, runtimes, registry, Under
<1> QED
  BY <1>1, <1>2, <1>3, <1>4

\* thread/start returns a thread; it is the one that is followed from here.
LEMMA StartedTyped ==
    ASSUME Typed, Carries(run), ThreadStarted
    PROVE  Typed'
<1> USE DEF Typed
<1>1. /\ DOMAIN run = Fields /\ run.step = "start" /\ run.tool = "codex" /\ run.pass = 1
      /\ UNCHANGED <<bridge, runtimes, cache, args>> /\ record' = NoRecord
  BY DEF ThreadStarted, Carries, Under, Ordered, FirstPass
<1>2. PICK s \in Snapshots(run.cwd, run.sandbox, run.model, run.effort) :
        /\ known' = {s.model} \ {None}
        /\ thread' = [cwd |-> IF s.cwd # NoCwd THEN s.cwd ELSE run.cwd,
                      effort |-> s.effort,
                      model |-> IF s.model # None THEN s.model
                                ELSE CHOOSE m \in Models : TRUE]
        /\ run' = IF FirstFault(StartChecks(s)) # Ok THEN Answered(FirstFault(StartChecks(s)))
                  ELSE [run EXCEPT !.step = SecondPass(s), !.snapshot = s,
                                   !.model = s.model, !.goal = "model", !.pass = 2,
                                   !.forced = FALSE,
                                   !.effort = Merged(run.effort, s.effort)]
  BY DEF ThreadStarted
<1>3. s.model \in ModelNames /\ s.effort \in EffortNames
  BY DEF Snapshots, ModelNames, EffortNames
<1>4. IsThread(thread') /\ known' \subseteq Models
  <2>1. (CHOOSE m \in Models : TRUE) \in Models
    BY NamesAreEnumerated
  <2> QED BY <1>2, <1>3, <2>1 DEF IsThread, ModelNames
<1>5. RunTyped(run') /\ run'.step # "turn" /\ ~IsReply(run')
  <2>1. CASE FirstFault(StartChecks(s)) # Ok
    BY <1>2, <2>1, AnsweredTyped DEF IsReply
  <2>2. CASE FirstFault(StartChecks(s)) = Ok
    <3>1. /\ run'.step = "lookup" /\ run'.snapshot = s /\ run'.model = s.model
          /\ run'.goal = "model" /\ run'.pass = 2 /\ run'.tool = "codex"
          /\ run'.effort = Merged(run.effort, s.effort)
      BY <1>1, <1>2, <2>2 DEF SecondPass, Fields
    <3>2. run'.effort \in EffortNames
      BY <1>3, <3>1, NamesMerged DEF RunTyped
    <3> QED BY <1>3, <3>1, <3>2 DEF RunTyped, Steps, IsReply
  <2> QED BY <2>1, <2>2
<1> QED
  BY <1>1, <1>4, <1>5
  DEF ProcessTyped, RuntimesTyped, ThreadTyped, ArgumentsTyped, bridge, runtimes

\* thread/read and thread/resume return what is known of the thread.
LEMMA ReplyTyped ==
    ASSUME Typed, Carries(run), ThreadRead \/ ThreadResumed
    PROVE  Typed'
<1> USE DEF Typed
<1>1. /\ DOMAIN run = Fields /\ IsReply(run) /\ run.pass = 1
      /\ UNCHANGED <<bridge, runtimes, cache, thread, args>> /\ thread # NoThread
      /\ run.goal = "model"
  BY DEF ThreadRead, ThreadResumed, Carries, Under, Ordered, IsReply
<1>2. IsThread(thread) /\ IsRecord(record)
  BY <1>1 DEF ThreadTyped
<1>3. ASSUME NEW meta \in Reports
      PROVE  meta.model \in ModelNames /\ meta.effort \in EffortNames
  <2>1. PICK cwd \in {thread.cwd, NoCwd}, model \in {thread.model, None} :
          meta = [thread EXCEPT !.cwd = cwd, !.model = model]
    BY DEF Reports
  <2> QED BY <1>2, <2>1 DEF IsThread, ModelNames
<1>4. CASE ThreadRead
  <2>1. PICK meta \in Reports :
          /\ record' = [record EXCEPT !.cwd = meta.cwd, !.model = meta.model,
                                      !.effort = meta.effort]
          /\ known' = known \cup ({meta.model} \ {None})
          /\ \/ \E c : run' = Answered(c)
             \/ run' = [run EXCEPT !.step = "resume", !.cwd = meta.cwd]
    BY <1>4 DEF ThreadRead, Hears, Resuming
  <2>2. IsRecord(record') /\ known' \subseteq Models
    BY <1>2, <1>3, <2>1 DEF IsRecord, RecordFields, ModelNames, ThreadTyped
  <2>3. RunTyped(run') /\ ~Confirmed(run')
    <3>1. CASE \E c : run' = Answered(c)
      BY <3>1, AnsweredTyped
    <3>2. CASE run' = [run EXCEPT !.step = "resume", !.cwd = meta.cwd]
      <4>1. /\ run'.step = "resume" /\ run'.pass = 1 /\ run'.goal = "model"
            /\ run'.model = run.model /\ run'.effort = run.effort
        BY <1>1, <3>2 DEF Fields
      <4>2. ~Confirmed(run')
        BY <4>1, NotConfirmed
      <4> QED BY <4>1, <4>2 DEF RunTyped, Steps, Awaiting
    <3> QED BY <2>1, <3>1, <3>2
  <2> QED
    BY <1>1, <1>2, <2>2, <2>3
    DEF ProcessTyped, RuntimesTyped, ThreadTyped, ArgumentsTyped, bridge, runtimes,
        IsThread
<1>5. CASE ThreadResumed
  <2>1. PICK meta \in Reports, sandbox \in SupportedSandboxes, approval \in Approvals :
          LET s == [cwd |-> meta.cwd, sandbox |-> sandbox, approval |-> approval,
                    model |-> meta.model, effort |-> meta.effort]
          IN ResumedWith(s, Merged(s.effort, record.effort))
    BY <1>5, ResumedIs, Zenon
  <2> DEFINE s == [cwd |-> meta.cwd, sandbox |-> sandbox, approval |-> approval,
                   model |-> meta.model, effort |-> meta.effort]
             confirmed == Merged(s.model, record.model)
             model == Merged(Given(args, "model"), confirmed)
             effort == Merged(s.effort, record.effort)
             chosen == Merged(Given(args, "effort"), effort)
             step == IF model # None THEN "lookup" ELSE "submit"
  <2>2. s.model \in ModelNames /\ s.effort \in EffortNames
    BY <1>3
  <2>3. confirmed \in ModelNames /\ effort \in EffortNames
    BY <1>2, <2>2, NamesMerged DEF IsRecord
  <2>4. model \in ModelNames /\ chosen \in EffortNames
    BY <1>1, <2>3, NamesMerged DEF ArgumentsTyped
  <2>5. \/ run' = Answered(ResumeFault(s)) /\ UNCHANGED registry
        \/ /\ record' = [record EXCEPT !.cwd = s.cwd, !.model = confirmed, !.effort = effort]
           /\ known' = known \cup ({s.model} \ {None})
           /\ run' = [run EXCEPT !.step = step, !.snapshot = s, !.model = model,
                                 !.effort = chosen]
    BY <2>1 DEF ResumedWith, Hears
  <2>6. step \in {"lookup", "submit"}
    OBVIOUS
  <2> HIDE DEF s, confirmed, effort, model, chosen, step
  <2>7. IsRecord(record') /\ known' \subseteq Models
    BY <1>2, <2>2, <2>3, <2>5 DEF IsRecord, RecordFields, ModelNames, ThreadTyped, registry
  <2>8. RunTyped(run') /\ run'.step # "turn"
    <3>1. CASE run' = Answered(ResumeFault(s))
      BY <3>1, AnsweredTyped
    <3>2. CASE run' = [run EXCEPT !.step = step, !.snapshot = s, !.model = model,
                                  !.effort = chosen]
      <4>1. /\ run'.step = step /\ run'.pass = 1 /\ run'.goal = "model"
            /\ run'.model = model /\ run'.effort = chosen /\ run'.snapshot = s
        BY <1>1, <3>2 DEF Fields
      <4> QED BY <2>2, <2>4, <2>6, <4>1 DEF RunTyped, Steps
    <3> QED BY <2>5, <3>1, <3>2
  <2> QED
    BY <1>1, <1>2, <2>7, <2>8
    DEF ProcessTyped, RuntimesTyped, ThreadTyped, ArgumentsTyped, bridge, runtimes,
        IsThread
<1> QED
  BY <1>4, <1>5

\* The turn is submitted, with a record, and leaves thread and record behind.
LEMMA TurnTyped ==
    ASSUME Typed, Carries(run), TurnSubmitted \/ TurnEnds
    PROVE  Typed'
<1> USE DEF Typed
<1>1. /\ DOMAIN run = Fields /\ run.tool \in {"codex", "codex-reply"} /\ Under(run)
      /\ (run.pass = 2 \/ run.tool = "codex-reply")
      /\ run.step \in {"submit", "turn"}
      /\ UNCHANGED <<bridge, runtimes, cache, args>>
  BY DEF TurnSubmitted, TurnEnds, Carries, Under, Ordered, FirstPass
<1>2. Confirmed(run)
  BY <1>1 DEF Confirmed
<1>4. /\ IsThread(thread)
      /\ run.snapshot.model \in ModelNames /\ run.snapshot.effort \in EffortNames
      /\ run.effort \in EffortNames /\ run.model \in ModelNames
  BY <1>2 DEF ThreadTyped, RunTyped
<1>5. CASE TurnSubmitted
  <2> DEFINE old == IF run.tool = "codex" THEN run.snapshot ELSE record
  <2>1. /\ thread' = thread /\ known' = known \cup ({run.model} \ {None})
        /\ run' = [run EXCEPT !.step = "turn"]
        /\ record' = [state |-> "active", cwd |-> old.cwd,
                      model |-> Merged(run.model, old.model),
                      effort |-> Merged(run.effort, old.effort)]
    BY <1>5 DEF TurnSubmitted, Hears
  <2>2. old.model \in ModelNames /\ old.effort \in EffortNames
    BY <1>1, <1>4 DEF ThreadTyped, IsRecord, IsReply
  <2> HIDE DEF old
  <2>3. IsRecord(record') /\ known' \subseteq Models
    BY <1>4, <2>1, <2>2, NamesMerged DEF IsRecord, RecordFields, ModelNames, ThreadTyped
  <2>4. /\ RunTyped(run') /\ (IsReply(run') => IsReply(run))
    BY <1>1, <1>2, <2>1 DEF RunTyped, Fields, Steps, Confirmed, IsReply, Under
  <2> QED
    BY <1>1, <1>4, <2>1, <2>3, <2>4
    DEF ProcessTyped, RuntimesTyped, ThreadTyped, ArgumentsTyped, bridge, runtimes
<1>6. CASE TurnEnds
  <2>1. /\ run.step = "turn" /\ run' = Answered(Ok) /\ known' = known
        /\ \E uncertain \in BOOLEAN :
             record' = [record EXCEPT !.state = AfterTurn(uncertain)]
        /\ \/ thread' = thread
           \/ thread' = [thread EXCEPT !.model = Merged(run.model, thread.model),
                                       !.effort = Merged(run.effort, thread.effort)]
    BY <1>6 DEF TurnEnds
  <2>2. IsRecord(record)
    BY <2>1 DEF ThreadTyped
  <2>3. IsRecord(record')
    BY <2>1, <2>2 DEF IsRecord, RecordFields, AfterTurn
  <2>4. /\ Merged(run.model, thread.model) \in ModelNames
        /\ Merged(run.effort, thread.effort) \in EffortNames
    BY <1>4, NamesMerged DEF IsThread
  <2>5. IsThread(thread')
    BY <1>4, <2>1, <2>4 DEF IsThread
  <2> QED
    BY <1>1, <2>1, <2>3, <2>5, AnsweredTyped
    DEF ProcessTyped, RuntimesTyped, ThreadTyped, ArgumentsTyped, bridge, runtimes,
        IsReply
<1> QED
  BY <1>5, <1>6

\* An empty value of a layer is nobody's setting.
LEMMA LoadedNames ==
    ASSUME NEW s \in Startups, LoadFault(s) = Ok
    PROVE  /\ Loaded(s) # NoConfig
           /\ Loaded(s).defaults.model \in ModelNames
           /\ Loaded(s).defaults.effort \in EffortNames
<1> DEFINE file == s.disk[Discovered(s.disk, s.explicit)]
           env == s.env
           cli == s.cli
<1>1. /\ Loaded(s).defaults = Override(Override(Override(Builtin, file), env), cli)
      /\ Loaded(s) # NoConfig
  BY NamesAreEnumerated DEF Loaded, Effective
<1>2. \A layer \in {file, env, cli} :
         /\ layer.model \in Models \cup {None, ""}
         /\ layer.effort \in Efforts \cup {None, ""}
  BY NamesAreEnumerated
<1> HIDE DEF file, env, cli
<1>3. ASSUME NEW k \in {"model", "effort"}
      PROVE  \/ Loaded(s).defaults[k] = None
             \/ Loaded(s).defaults[k] \in {file[k], env[k], cli[k]} \ {""}
  <2>1. k \in Settings /\ Builtin[k] = None
    BY DEF Builtin, Settings
  <2>2. \A low, layer : Override(low, layer)[k] = IF GivenBy(layer, k) THEN layer[k] ELSE low[k]
    BY <2>1 DEF Override
  <2>3. \A layer : GivenBy(layer, k) => layer[k] # ""
    BY DEF GivenBy
  <2>4. Loaded(s).defaults[k] = IF GivenBy(cli, k) THEN cli[k]
                                ELSE IF GivenBy(env, k) THEN env[k]
                                ELSE IF GivenBy(file, k) THEN file[k] ELSE None
    BY <1>1, <2>1, <2>2
  <2> QED BY <2>3, <2>4
<1>4. Loaded(s).defaults.model \in ModelNames /\ Loaded(s).defaults.effort \in EffortNames
  <2>1. /\ \/ Loaded(s).defaults.model = None
           \/ Loaded(s).defaults.model \in {file.model, env.model, cli.model} \ {""}
        /\ \/ Loaded(s).defaults.effort = None
           \/ Loaded(s).defaults.effort \in {file.effort, env.effort, cli.effort} \ {""}
    BY <1>3
  <2> QED BY <1>2, <2>1 DEF ModelNames, EffortNames
<1> QED
  BY <1>1, <1>4

\* The bridge starts, a call ends or fails, and what others do.
LEMMA OthersTyped ==
    ASSUME Typed, CacheInv,
           \/ Starts \/ CallEnds \/ CallFails \/ RuntimeDies \/ BackendStopped
           \/ ThreadMoved \/ Rests \/ UNCHANGED vars
    PROVE  Typed'
<1> USE DEF Typed
<1>1. CASE Starts
  <2>1. UNCHANGED <<runtimes, cache, thread, registry, args, run>>
    BY <1>1 DEF Starts
  <2>2. ProcessTyped'
    BY <1>1, LoadedNames DEF Starts, ProcessTyped, ModelNames, EffortNames
  <2> QED BY <2>1, <2>2
    DEF RuntimesTyped, ThreadTyped, ArgumentsTyped, runtimes, registry, Confirmed,
        IsReply, Under, RunTyped
<1>2. CASE CallEnds
  <2>1. /\ UNCHANGED <<bridge, runtimes, cache, thread, registry>>
        /\ args' = NoArguments /\ run' = NoRun
    BY <1>2 DEF CallEnds
  <2>2. RunTyped(run') /\ ~Confirmed(run') /\ ~Under(run')
    BY <2>1
    DEF NoRun, RunTyped, Confirmed, Under, Steps, ModelNames, EffortNames
  <2> QED
    BY <2>1, <2>2
    DEF ProcessTyped, RuntimesTyped, ThreadTyped, IsReply, ArgumentsTyped, bridge,
        runtimes, registry, Under
<1>3. CASE CallFails
  <2>1. /\ UNCHANGED <<bridge, runtimes, cache, thread, registry, args>>
        /\ run' = Answered("FAILED")
    BY <1>3 DEF CallFails
  <2> QED
    BY <2>1, AnsweredTyped
    DEF ProcessTyped, RuntimesTyped, ThreadTyped, IsReply, ArgumentsTyped, bridge,
        runtimes, registry
<1>4. CASE RuntimeDies \/ BackendStopped
  <2>1. UNCHANGED <<bridge, process, thread, registry, args, run>> /\ alive' = FALSE
    BY <1>4 DEF RuntimeDies, BackendStopped
  <2>2. stopped' \subseteq Ids /\ (cache' # NoCache => cache' = cache)
    BY <1>4 DEF RuntimeDies, BackendStopped, Kept, RuntimesTyped, CacheInv, BackendIs
  <2>3. RuntimesTyped'
    BY <2>1, <2>2 DEF RuntimesTyped
  <2>4. ProcessTyped' /\ RunTyped(run')
    BY <2>1 DEF ProcessTyped, bridge
  <2>5. ThreadTyped' /\ ArgumentsTyped'
    BY <2>1 DEF ThreadTyped, ArgumentsTyped, Confirmed, IsReply, Under, registry
  <2> QED BY <2>3, <2>4, <2>5
<1>5. CASE ThreadMoved
  <2>1. /\ UNCHANGED <<bridge, runtimes, cache, registry, args, run>>
        /\ IsThread(thread')
    BY <1>5 DEF ThreadMoved, IsThread, ModelNames, EffortNames
  <2> QED
    BY <2>1
    DEF ProcessTyped, RuntimesTyped, ThreadTyped, IsReply, ArgumentsTyped, bridge,
        runtimes, registry, Confirmed, Under, RunTyped
<1>6. CASE Rests \/ UNCHANGED vars
  BY <1>6
  DEF Rests, vars, ProcessTyped, RuntimesTyped, ThreadTyped, ArgumentsTyped, bridge,
      runtimes, registry, Confirmed, Under, RunTyped
<1> QED
  BY <1>1, <1>2, <1>3, <1>4, <1>5, <1>6

LEMMA TypedInit == Init => Typed
<1> SUFFICES ASSUME Init PROVE Typed
  OBVIOUS
<1>1. RunTyped(run) /\ ~Confirmed(run) /\ ~Under(run)
  BY DEF Init, NoRun, RunTyped, Confirmed, Under, Steps, ModelNames, EffortNames
<1>2. ProcessTyped /\ ArgumentsTyped
  BY <1>1 DEF Init, ProcessTyped, ArgumentsTyped, IsReply
<1>3. MaxProcesses \in Nat
  BY BoundIsNat
<1>4. RuntimesTyped
  <2>1. alive = FALSE /\ process = 0 /\ stopped = {} /\ cache = NoCache
    BY DEF Init
  <2>2. process \in 0..MaxProcesses
    BY <1>3, <2>1
  <2> QED BY <2>1, <2>2 DEF RuntimesTyped
<1>5. ThreadTyped
  BY <1>1
  DEF Init, ThreadTyped, IsThread, ModelNames, EffortNames, IsReply, RunTyped, Under
<1> QED
  BY <1>1, <1>2, <1>4, <1>5 DEF Typed

\* Every reachable state is well typed: no step loses a thread, its record or the
\* settings that a call brought, whatever the runtime answers.
THEOREM SettingsTypeCorrect == Spec => []TypeOK
<1>1. Typed /\ Carries(run) /\ CacheInv /\ [Next]_vars => Typed'
  BY CalledTyped, RuntimeTyped, StartedTyped, ReplyTyped, TurnTyped, OthersTyped DEF Next
<1>2. Typed /\ Carries(run) /\ CacheInv => TypeOK
  BY NamesAreEnumerated
  DEF Typed, ProcessTyped, RuntimesTyped, ThreadTyped, ArgumentsTyped, RunTyped, CacheInv,
      BackendIs, TypeOK, IsThread, IsRecord, ModelNames, EffortNames
<1> QED
  BY <1>1, <1>2, TypedInit, CacheAlways, PTL DEF Spec

-----------------------------------------------------------------------------
(* The configuration that is served *)

\* The checks on a file, and those on everything together.
LoadChecks(s) ==
    LET place == Discovered(s.disk, s.explicit)
        file == s.disk[place]
    IN <<Stage(FileFault(file, ProjectLocal(place))),
         Check("CONFIG_KEY_DENIED", ~Confined(place, file.allowed_roots)),
         Stage(LayerFault(s.env)),
         Stage(LayerFault(s.cli)),
         Stage(ConsistencyFault(Effective(file, s.env, s.cli))),
         Check("VALIDATION_ERROR", file.allowed_roots = {})>>

LEMMA FileAccepted ==
    ASSUME NEW file, NEW local, FileFault(file, local) = Ok
    PROVE  /\ ~(local /\ ~file.owned)
           /\ \A k \in Settings : ~Unsupported(file, k)
<1> DEFINE c == <<
      Check("CONFIG_KEY_DENIED", local /\ ~file.owned),
      Check("VALIDATION_ERROR", file.fault = "malformed"),
      Check("CONFIG_KEY_DENIED", file.fault = "runtime"),
      Check("VALIDATION_ERROR", \E k \in {"model", "effort", "cwd"} : file[k] = ""),
      Check("CONFIG_KEY_DENIED", \E k \in Settings : Unsupported(file, k)),
      Check("CONFIG_KEY_DENIED", "" \in {file.sandbox, file.approval_policy}),
      Check("CONFIG_KEY_DENIED", ~(file.allowed_sandboxes \subseteq SupportedSandboxes)),
      Check("VALIDATION_ERROR", file.fault = "limits")>>
<1>1. FirstFault(c) = Ok
  BY DEF FileFault
<1>2. /\ DOMAIN c = 1..8
      /\ c[1] = Check("CONFIG_KEY_DENIED", local /\ ~file.owned)
      /\ c[5] = Check("CONFIG_KEY_DENIED", \E k \in Settings : Unsupported(file, k))
  OBVIOUS
<1>3. /\ c[1].code = "CONFIG_KEY_DENIED" /\ c[2].code = "VALIDATION_ERROR"
      /\ c[3].code = "CONFIG_KEY_DENIED" /\ c[4].code = "VALIDATION_ERROR"
      /\ c[5].code = "CONFIG_KEY_DENIED" /\ c[6].code = "CONFIG_KEY_DENIED"
      /\ c[7].code = "CONFIG_KEY_DENIED" /\ c[8].code = "VALIDATION_ERROR"
  BY DEF Check
<1> HIDE DEF c
<1>4. \A i \in 1..8 : c[i].code # Ok
  BY <1>3 DEF Ok
<1>5. Checks(c)
  BY <1>2, <1>4 DEF Checks
<1>6. 1 \in DOMAIN c /\ 5 \in DOMAIN c
  BY <1>2
<1>7. ~c[1].fails /\ ~c[5].fails
  BY <1>1, <1>5, <1>6, AllPass
<1>8. ~(local /\ ~file.owned)
  <2>1. ~Check("CONFIG_KEY_DENIED", local /\ ~file.owned).fails
    BY <1>2, <1>7
  <2> QED BY <2>1 DEF Check
<1>9. ~(\E k \in Settings : Unsupported(file, k))
  BY <1>2, <1>7 DEF Check
<1> QED
  BY <1>8, <1>9

LEMMA LoadAccepted ==
    ASSUME NEW s, LoadFault(s) = Ok
    PROVE  LET place == Discovered(s.disk, s.explicit)
               file == s.disk[place]
           IN  /\ FileFault(file, ProjectLocal(place)) = Ok
               /\ Confined(place, file.allowed_roots)
               /\ LayerFault(s.env) = Ok /\ LayerFault(s.cli) = Ok
               /\ file.allowed_roots # {}
<1> DEFINE c == LoadChecks(s)
           place == Discovered(s.disk, s.explicit)
           file == s.disk[place]
<1>1. FirstFault(c) = Ok
  BY DEF LoadFault, LoadChecks, Ok
<1>2. /\ DOMAIN c = 1..6
      /\ c[1] = Stage(FileFault(file, ProjectLocal(place)))
      /\ c[2] = Check("CONFIG_KEY_DENIED", ~Confined(place, file.allowed_roots))
      /\ c[3] = Stage(LayerFault(s.env))
      /\ c[4] = Stage(LayerFault(s.cli))
      /\ c[5] = Stage(ConsistencyFault(Effective(file, s.env, s.cli)))
      /\ c[6] = Check("VALIDATION_ERROR", file.allowed_roots = {})
  BY DEF LoadChecks
<1> HIDE DEF c, place, file
<1>3. Checks(c)
  BY <1>2, StageIs DEF Checks, Check, Ok
<1>4. \A i \in 1..6 : ~c[i].fails
  BY <1>1, <1>2, <1>3, AllPass
<1>5. /\ ~c[1].fails /\ ~c[2].fails /\ ~c[3].fails /\ ~c[4].fails /\ ~c[6].fails
  BY <1>4
<1>6. /\ FileFault(file, ProjectLocal(place)) = Ok
      /\ LayerFault(s.env) = Ok /\ LayerFault(s.cli) = Ok
  BY <1>2, <1>5, StageIs
<1>7. Confined(place, file.allowed_roots) /\ file.allowed_roots # {}
  <2>1. /\ ~Check("CONFIG_KEY_DENIED", ~Confined(place, file.allowed_roots)).fails
        /\ ~Check("VALIDATION_ERROR", file.allowed_roots = {}).fails
    BY <1>2, <1>5
  <2> QED BY <2>1 DEF Check
<1> QED
  BY <1>6, <1>7 DEF place, file

\* Only the start of the bridge makes it serve.
LEMMA ServedByStart ==
    ASSUME [Next]_vars, phase = "starting", phase' = "serving"
    PROVE  LoadFault(startup) = Ok /\ config' = Loaded(startup)
<1>1. Starts
  BY DEF Next, vars, Rests, CodexCalled, ReplyCalled, CallEnds, CallFails, GotBackend,
         CatalogLookedUp, CatalogListed, CatalogStored, ThreadStarted, ThreadRead,
         ThreadResumed, TurnSubmitted, TurnEnds, RuntimeDies, BackendStopped,
         ThreadMoved, bridge
<1> QED
  BY <1>1 DEF Starts

\* Whatever files are found and whatever they say: the bridge serves only under
\* roots, and those of a file found in a checkout are inside of its directory
\* and the file is the user's own (_freeze_roots, _check_project_config_owner).
THEOREM PolicyConfined == Spec => PolicyIsConfined
<1>1. ASSUME [Next]_vars, phase' = "serving", phase = "starting"
      PROVE  LET place == Discovered(startup.disk, startup.explicit)
             IN /\ config'.roots # {}
                /\ ProjectLocal(place) =>
                       /\ startup.disk[place].owned
                       /\ \A r \in config'.roots : IsRelativeTo(r, place)
  <2> DEFINE place == Discovered(startup.disk, startup.explicit)
             file == startup.disk[place]
  <2>1. config'.roots = {Real[r] : r \in file.allowed_roots}
    BY <1>1, ServedByStart DEF Loaded, Effective
  <2>2. /\ FileFault(file, ProjectLocal(place)) = Ok
        /\ Confined(place, file.allowed_roots) /\ file.allowed_roots # {}
    BY <1>1, ServedByStart, LoadAccepted
  <2> HIDE DEF place, file
  <2>3. config'.roots # {}
    BY <2>1, <2>2
  <2>4. ProjectLocal(place) => file.owned
    BY <2>2, FileAccepted
  <2>5. ProjectLocal(place) => \A r \in config'.roots : IsRelativeTo(r, place)
    BY <2>1, <2>2 DEF Confined
  <2> QED BY <2>3, <2>4, <2>5 DEF place, file
<1>2. [Next]_vars => [phase' = "serving" /\ phase = "starting" =>
        LET place == Discovered(startup.disk, startup.explicit)
        IN /\ config'.roots # {}
           /\ ProjectLocal(place) =>
                  /\ startup.disk[place].owned
                  /\ \A r \in config'.roots : IsRelativeTo(r, place)]_vars
  BY <1>1
<1> QED
  BY <1>2, PTL DEF Spec, PolicyIsConfined

\* Each setting that is served is the one of the highest layer that gives it, and
\* no layer has a value that is not supported (load_bridge_config).
THEOREM LayersOrdered == Spec => HighestLayerWins
<1>1. ASSUME [Next]_vars, phase' = "serving", phase = "starting"
      PROVE  LET file == startup.disk[Discovered(startup.disk, startup.explicit)]
                 layers == <<startup.cli, startup.env, file, Builtin>>
             IN \A k \in Settings :
                 /\ \E i \in 1..4 :
                       /\ config'.defaults[k] = layers[i][k]
                       /\ \A j \in 1..(i - 1) : layers[j][k] \in {None, ""}
                       /\ i < 4 => layers[i][k] \notin {None, ""}
                 /\ \A i \in 1..4 : ~Unsupported(layers[i], k)
  <2> DEFINE place == Discovered(startup.disk, startup.explicit)
             file == startup.disk[place]
             cli == startup.cli
             env == startup.env
  <2>1. config'.defaults = Override(Override(Override(Builtin, file), env), cli)
    BY <1>1, ServedByStart DEF Loaded, Effective
  <2>2. /\ FileFault(file, ProjectLocal(place)) = Ok
        /\ LayerFault(env) = Ok /\ LayerFault(cli) = Ok
    BY <1>1, ServedByStart, LoadAccepted
  <2> HIDE DEF place, file, cli, env
  <2>3. \A k \in Settings : ~Unsupported(file, k)
    BY <2>2, FileAccepted
  <2>4. \A k \in Settings : ~Unsupported(env, k) /\ ~Unsupported(cli, k)
    BY <2>2 DEF LayerFault, Ok
  <2>5. \A k \in Settings : ~Unsupported(Builtin, k)
    BY DEF Unsupported, Builtin, SupportedSandboxes, SupportedApprovals, Settings
  <2>6. ASSUME NEW k \in Settings
        PROVE  config'.defaults[k] = IF GivenBy(cli, k) THEN cli[k]
                                     ELSE IF GivenBy(env, k) THEN env[k]
                                     ELSE IF GivenBy(file, k) THEN file[k]
                                     ELSE Builtin[k]
    BY <2>1 DEF Override
  <2> DEFINE layers == <<cli, env, file, Builtin>>
  <2>7. layers[1] = cli /\ layers[2] = env /\ layers[3] = file /\ layers[4] = Builtin
    OBVIOUS
  <2> DEFINE Highest(k, i) ==
                 /\ config'.defaults[k] = layers[i][k]
                 /\ \A j \in 1..(i - 1) : layers[j][k] \in {None, ""}
                 /\ i < 4 => layers[i][k] \notin {None, ""}
  <2> HIDE DEF layers
  <2>8. ASSUME NEW k \in Settings
        PROVE  \E i \in 1..4 : Highest(k, i)
    <3>1. CASE GivenBy(cli, k)
      <4>1. config'.defaults[k] = layers[1][k]
        BY <2>6, <2>7, <3>1
      <4>2. \A j \in 1..(1 - 1) : FALSE
        OBVIOUS
      <4>3. \A j \in 1..(1 - 1) : layers[j][k] \in {None, ""}
        BY <2>7, <3>1, <4>2 DEF GivenBy
      <4>4. layers[1][k] \notin {None, ""}
        BY <2>7, <3>1 DEF GivenBy
      <4>5. Highest(k, 1)
        BY <4>1, <4>3, <4>4, Zenon
      <4>6. 1 \in 1..4
        OBVIOUS
      <4> HIDE DEF Highest
      <4> QED BY <4>5, <4>6
    <3>2. CASE ~GivenBy(cli, k) /\ GivenBy(env, k)
      <4>1. config'.defaults[k] = layers[2][k]
        BY <2>6, <2>7, <3>2
      <4>2. \A j \in 1..(2 - 1) : j = 1
        OBVIOUS
      <4>3. \A j \in 1..(2 - 1) : layers[j][k] \in {None, ""}
        BY <2>7, <3>2, <4>2 DEF GivenBy
      <4>4. layers[2][k] \notin {None, ""}
        BY <2>7, <3>2 DEF GivenBy
      <4>5. Highest(k, 2)
        BY <4>1, <4>3, <4>4, Zenon
      <4>6. 2 \in 1..4
        OBVIOUS
      <4> HIDE DEF Highest
      <4> QED BY <4>5, <4>6
    <3>3. CASE ~GivenBy(cli, k) /\ ~GivenBy(env, k) /\ GivenBy(file, k)
      <4>1. config'.defaults[k] = layers[3][k]
        BY <2>6, <2>7, <3>3
      <4>2. \A j \in 1..(3 - 1) : j = 1 \/ j = 2
        OBVIOUS
      <4>3. \A j \in 1..(3 - 1) : layers[j][k] \in {None, ""}
        BY <2>7, <3>3, <4>2 DEF GivenBy
      <4>4. layers[3][k] \notin {None, ""}
        BY <2>7, <3>3 DEF GivenBy
      <4>5. Highest(k, 3)
        BY <4>1, <4>3, <4>4, Zenon
      <4>6. 3 \in 1..4
        OBVIOUS
      <4> HIDE DEF Highest
      <4> QED BY <4>5, <4>6
    <3>4. CASE ~GivenBy(cli, k) /\ ~GivenBy(env, k) /\ ~GivenBy(file, k)
      <4>1. config'.defaults[k] = layers[4][k]
        BY <2>6, <2>7, <3>4
      <4>2. \A j \in 1..(4 - 1) : j = 1 \/ j = 2 \/ j = 3
        OBVIOUS
      <4>3. \A j \in 1..(4 - 1) : layers[j][k] \in {None, ""}
        BY <2>7, <3>4, <4>2 DEF GivenBy
      <4>4. 4 \in 1..4 /\ ~(4 < 4)
        OBVIOUS
      <4>5. Highest(k, 4)
        BY <4>1, <4>3, <4>4, Zenon
      <4> HIDE DEF Highest
      <4> QED BY <4>4, <4>5
    <3> QED BY <3>1, <3>2, <3>3, <3>4
  <2>9. \A k \in Settings : \A i \in 1..4 : ~Unsupported(layers[i], k)
    BY <2>3, <2>4, <2>5, <2>7
  <2> QED BY <2>8, <2>9 DEF layers, cli, env, file, place
<1>2. [Next]_vars => [phase' = "serving" /\ phase = "starting" =>
        LET file == startup.disk[Discovered(startup.disk, startup.explicit)]
            layers == <<startup.cli, startup.env, file, Builtin>>
        IN \A k \in Settings :
            /\ \E i \in 1..4 :
                  /\ config'.defaults[k] = layers[i][k]
                  /\ \A j \in 1..(i - 1) : layers[j][k] \in {None, ""}
                  /\ i < 4 => layers[i][k] \notin {None, ""}
            /\ \A i \in 1..4 : ~Unsupported(layers[i], k)]_vars
  BY <1>1
<1> QED
  BY <1>2, PTL DEF Spec, HighestLayerWins

=============================================================================
