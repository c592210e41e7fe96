---------------------------- MODULE CallContracts ----------------------------
(***************************************************************************)
(* The arguments of a tool call (contracts.py): which are refused, with    *)
(* which code, and what an accepted call asks for.                         *)
(*                                                                         *)
(* Arguments are a function from the names that were given to JSON values: *)
(* texts, Null, NotText for a value of another type, and for "config" a    *)
(* function of its own.  A text is opaque but for its size in bytes.       *)
(***************************************************************************)
EXTENDS BridgeErrors

CONSTANTS
    Null, NotText,
    Texts, Blank,       \* the texts, among them "" and one of white space
    Size,               \* bytes of each text
    MaxInputBytes

CodexFields == {"prompt", "model", "effort", "cwd", "approval-policy", "sandbox",
                "config", "base-instructions", "developer-instructions",
                "compact-prompt"}
ReplyFields == {"prompt", "threadId", "conversationId", "model", "effort"}
ConfigKeys == {"model", "model_reasoning_effort", "compact_prompt"}

Given(args, k) == IF k \in DOMAIN args THEN args[k] ELSE None
Bytes(v) == IF v \in Texts THEN Size[v] ELSE 0

\* _require_text, for an argument that may be empty and for one that may not.
NoText(v) == v # None /\ v \notin Texts
NoFilledText(v) == NoText(v) \/ v = ""

-----------------------------------------------------------------------------
(* Duplicates *)

\* Mutant of Conflicting: the direct argument silently wins.
ConflictIgnored(direct, value) == FALSE

Conflicting(direct, value) == direct # None /\ value # None /\ direct # value

\* _merge_config_duplicate
Merged(direct, value) == IF direct # None THEN direct ELSE value

\* No config: an empty object.
NoKeys == [k \in {} |-> None]

ConfigOf(args) ==
    IF Given(args, "config") \in {None, Null, NotText} THEN NoKeys ELSE args["config"]

Model(args) == Merged(Given(args, "model"), Given(ConfigOf(args), "model"))
Effort(args) ==
    Merged(Given(args, "effort"), Given(ConfigOf(args), "model_reasoning_effort"))
Compact(args) ==
    Merged(Given(args, "compact-prompt"), Given(ConfigOf(args), "compact_prompt"))

\* threadId or its alias.
ThreadId(args) == Merged(Given(args, "threadId"), Given(args, "conversationId"))

-----------------------------------------------------------------------------
(* Size *)

\* _check_total_input_size of a codex call.  The values of config count, and
\* the merged compact prompt a second time when it is one of them.
TotalBytes(args) ==
    LET config == ConfigOf(args)
    IN Bytes(args["prompt"]) + Bytes(Given(args, "base-instructions"))
       + Bytes(Given(args, "developer-instructions")) + Bytes(Compact(args))
       + Bytes(Given(config, "model")) + Bytes(Given(config, "model_reasoning_effort"))
       + Bytes(Given(config, "compact_prompt"))

-----------------------------------------------------------------------------
(* The verdict on the arguments *)

\* _check_object, _reject_nulls, _reject_unknown_fields, the prompt.
ObjectChecks(args, fields) ==
    <<Check("VALIDATION_ERROR", \E k \in DOMAIN args : args[k] = Null),
      Check("VALIDATION_ERROR", ~(DOMAIN args \subseteq fields)),
      Check("VALIDATION_ERROR", "prompt" \notin DOMAIN args),
      Check("VALIDATION_ERROR", NoFilledText(Given(args, "prompt"))),
      Check("VALIDATION_ERROR", Given(args, "prompt") = Blank),
      Check("INPUT_LIMIT_EXCEEDED", Bytes(Given(args, "prompt")) > MaxInputBytes)>>

ObjectFault(args, fields) ==
    IF args = NotText THEN "VALIDATION_ERROR" ELSE FirstFault(ObjectChecks(args, fields))

\* parse_codex_call, after the checks of the object.
CodexChecks(args) ==
    LET v(k) == Given(args, k)
        config == ConfigOf(args)
    IN <<Check("VALIDATION_ERROR",
            \E k \in {"model", "effort", "cwd", "approval-policy"} : NoFilledText(v(k))),
         Check("UNSUPPORTED_APPROVAL_POLICY", v("approval-policy") \notin {None, "never"}),
         Check("VALIDATION_ERROR", v("sandbox") \notin {None, "read-only", "workspace-write"}),
         Check("VALIDATION_ERROR", v("config") = NotText),
         Check("CONFIG_KEY_DENIED", ~(DOMAIN config \subseteq ConfigKeys)),
         Check("VALIDATION_ERROR", \E k \in DOMAIN config :
            IF k = "compact_prompt" THEN config[k] \notin Texts
            ELSE config[k] \notin Texts \ {""}),
         Check("VALIDATION_ERROR",
            \E k \in {"base-instructions", "developer-instructions", "compact-prompt"} :
                NoText(v(k))),
         Check("CONFLICTING_ARGUMENTS",
            \/ Conflicting(v("model"), Given(config, "model"))
            \/ Conflicting(v("effort"), Given(config, "model_reasoning_effort"))
            \/ Conflicting(v("compact-prompt"), Given(config, "compact_prompt"))),
         Check("INPUT_LIMIT_EXCEEDED", TotalBytes(args) > MaxInputBytes)>>

\* parse_codex_reply_call, likewise.
ReplyChecks(args) ==
    LET v(k) == Given(args, k)
    IN <<Check("VALIDATION_ERROR",
             \E k \in {"threadId", "conversationId"} : NoFilledText(v(k))),
         Check("VALIDATION_ERROR", ThreadId(args) = None),
         Check("VALIDATION_ERROR", Conflicting(v("threadId"), v("conversationId"))),
         Check("VALIDATION_ERROR", \E k \in {"model", "effort"} : NoFilledText(v(k)))>>

CodexFault(args) ==
    IF ObjectFault(args, CodexFields) # Ok THEN ObjectFault(args, CodexFields)
    ELSE FirstFault(CodexChecks(args))

ReplyFault(args) ==
    IF ObjectFault(args, ReplyFields) # Ok THEN ObjectFault(args, ReplyFields)
    ELSE FirstFault(ReplyChecks(args))
=============================================================================
