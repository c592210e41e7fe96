---------------------------- MODULE Configuration ----------------------------
(***************************************************************************)
(* The startup configuration (config.py, _serve in cli.py): which file is  *)
(* read, which files and overrides are refused, and what is served.        *)
(*                                                                         *)
(* A file is a record of the keys that decide something later; a text that *)
(* is no TOML, an unknown section or key, and a limit or log setting that  *)
(* does not parse are the fault "malformed".  A path is a text; Real is    *)
(* pathlib's resolve() of it against the launch directory.  A directory is *)
(* the sequence of its names.  A text may be empty.                      *)
(***************************************************************************)
EXTENDS BridgeErrors, Sequences

CONSTANTS
    NoFile,
    Explicit, User, Nowhere,    \* the places of a file other than directories
    Real,       \* the directory of each path text
    Launch      \* the directory the bridge was started in

Settings == {"model", "effort", "cwd", "sandbox", "approval_policy"}

SupportedSandboxes == {"read-only", "workspace-write"}
SupportedApprovals == {"never"}

\* Builtin defaults of [defaults] and [policy].
Builtin == [model |-> None, effort |-> None, cwd |-> None,
            sandbox |-> "read-only", approval_policy |-> "never"]

-----------------------------------------------------------------------------
(* Which file *)

\* Path.relative_to: d is root or lies under it.
IsRelativeTo(d, root) ==
    Len(root) <= Len(d) /\ SubSeq(d, 1, Len(root)) = root

\* discover_bridge_config: the explicit file, the nearest bridge.toml at or
\* above the launch directory, the user's.  disk maps each place to its file.
Discovered(disk, explicit) ==
    LET Above == {d \in DOMAIN disk \ {Explicit, User} :
                     IsRelativeTo(Launch, d) /\ disk[d] # NoFile}
    IN IF explicit THEN Explicit
       ELSE IF Above # {} THEN CHOOSE d \in Above : \A e \in Above : Len(e) <= Len(d)
       ELSE IF disk[User] # NoFile THEN User
       ELSE Nowhere

ProjectLocal(place) == place \notin {Explicit, User, Nowhere}

-----------------------------------------------------------------------------
(* What a file says *)

GivenBy(layer, k) == layer[k] \notin {None, ""}

Unsupported(layer, k) ==
    /\ GivenBy(layer, k)
    /\ \/ k = "sandbox" /\ layer[k] \notin SupportedSandboxes
       \/ k = "approval_policy" /\ layer[k] \notin SupportedApprovals

\* _check_project_config_owner and _parse_toml_section.  An empty sandbox or
\* approval policy is no supported one, an empty text elsewhere an error.
FileFault(file, local) == FirstFault(<<
    Check("CONFIG_KEY_DENIED", local /\ ~file.owned),
    Check("VALIDATION_ERROR", file.fault = "malformed"),
    Check("CONFIG_KEY_DENIED", file.fault = "runtime"),
    Check("VALIDATION_ERROR", \E k \in {"model", "effort", "cwd"} : file[k] = ""),
    Check("CONFIG_KEY_DENIED", \E k \in Settings : Unsupported(file, k)),
    Check("CONFIG_KEY_DENIED", "" \in {file.sandbox, file.approval_policy}),
    Check("CONFIG_KEY_DENIED", ~(file.allowed_sandboxes \subseteq SupportedSandboxes)),
    Check("VALIDATION_ERROR", file.fault = "limits")>>)

\* Mutant of Confined: one root inside of the project vouches for all.
ConfinedByOne(place, roots) ==
    ProjectLocal(place) => \E r \in roots : IsRelativeTo(Real[r], place)

\* _freeze_roots: the roots of a discovered file stay under its directory.
Confined(place, roots) ==
    ProjectLocal(place) => \A r \in roots : IsRelativeTo(Real[r], place)

-----------------------------------------------------------------------------
(* The layers *)

\* Mutant of Override: an empty variable clears the setting.
OverrideEmpty(defaults, layer) ==
    [k \in Settings |-> IF layer[k] = None THEN defaults[k] ELSE layer[k]]

\* One layer over the ones below; an empty text counts as absent.
Override(defaults, layer) ==
    [k \in Settings |-> IF GivenBy(layer, k) THEN layer[k] ELSE defaults[k]]

LayerFault(layer) ==
    IF \E k \in Settings : Unsupported(layer, k) THEN "CONFIG_KEY_DENIED" ELSE Ok

\* _validate_startup_consistency
ConsistencyFault(config) ==
    IF config.defaults.sandbox \notin config.sandboxes
       \/ config.defaults.approval_policy # "never"
    THEN "CONFIG_KEY_DENIED" ELSE Ok

\* The configuration of a file under environment and command line.
Effective(file, env, cli) ==
    [defaults |-> Override(Override(Override(Builtin, file), env), cli),
     roots |-> {Real[r] : r \in file.allowed_roots},
     models |-> file.allowed_models,
     sandboxes |-> IF file.allowed_sandboxes = {} THEN SupportedSandboxes
                   ELSE file.allowed_sandboxes]

\* discover_bridge_config, load_bridge_config and require_operational_policy:
\* OK, or the code that _serve reports before it returns 2.
LoadFault(s) ==
    LET place == Discovered(s.disk, s.explicit)
        file == s.disk[place]
    IN IF place = Nowhere \/ file = NoFile THEN "VALIDATION_ERROR"
       ELSE FirstFault(<<
                Stage(FileFault(file, ProjectLocal(place))),
                Check("CONFIG_KEY_DENIED", ~Confined(place, file.allowed_roots)),
                Stage(LayerFault(s.env)),
                Stage(LayerFault(s.cli)),
                Stage(ConsistencyFault(Effective(file, s.env, s.cli))),
                Check("VALIDATION_ERROR", file.allowed_roots = {})>>)

Loaded(s) == Effective(s.disk[Discovered(s.disk, s.explicit)], s.env, s.cli)
=============================================================================
