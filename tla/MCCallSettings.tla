---------------------------- MODULE MCCallSettings ----------------------------
(* Instances of CallSettings: one checkout with a link that leaves it, two     *)
(* models, and one variation at a time of a file, its layers and a call.       *)
EXTENDS CallSettings, TLC

CONSTANTS i1, i2

P == <<"p">>
Here == <<"p", "s">>
Outside == <<"o">>

MCLaunch == Here
MCDirectories == {Here, Outside}
MCReal == ("here" :> Here) @@ ("up" :> P) @@ ("link" :> Outside)

-----------------------------------------------------------------------------
(* Startups *)

NoLayer == [k \in Settings |-> None]

Plain == NoLayer @@ [allowed_roots |-> {"here"}, allowed_models |-> {},
                     allowed_sandboxes |-> {}, owned |-> TRUE, fault |-> "none"]
Strict == [Plain EXCEPT !.allowed_models = {"m1"}, !.allowed_sandboxes = {"read-only"},
                        !.effort = "high"]

Faulty ==
    {[Plain EXCEPT !.fault = f] : f \in {"malformed", "runtime", "limits"}}
    \cup {[Plain EXCEPT !.owned = FALSE], [Plain EXCEPT !.allowed_roots = {}],
          [Plain EXCEPT !.allowed_roots = {"here", "link"}],
          [Plain EXCEPT !.allowed_roots = {"up"}],
          [Plain EXCEPT !.allowed_sandboxes = {"danger-full-access"}],
          [Plain EXCEPT !.model = ""], [Plain EXCEPT !.sandbox = ""],
          [Plain EXCEPT !.sandbox = "danger-full-access"],
          [Plain EXCEPT !.approval_policy = "on-request"],
          [Strict EXCEPT !.sandbox = "workspace-write"]}

\* Only a file found in a checkout is tried with these roots (a bound).
Wider == {[Plain EXCEPT !.allowed_roots = {"here", "link"}],
          [Plain EXCEPT !.allowed_roots = {"up"}]}

Layers == {NoLayer, [NoLayer EXCEPT !.model = "m2", !.sandbox = "workspace-write"],
           [NoLayer EXCEPT !.model = ""], [NoLayer EXCEPT !.sandbox = ""],
           [NoLayer EXCEPT !.sandbox = "danger-full-access"],
           [NoLayer EXCEPT !.approval_policy = "on-request"]}

Disk(explicit, project, above, user) ==
    (Explicit :> explicit) @@ (Here :> project) @@ (P :> above) @@ (User :> user)

Situation(disk, env, cli) == [disk |-> disk, explicit |-> FALSE, env |-> env, cli |-> cli]

MCStartups ==
    {Situation(Disk(NoFile, Plain, NoFile, NoFile), env, cli) : env, cli \in Layers}
    \cup {Situation(Disk(NoFile, f, Plain, NoFile), NoLayer, NoLayer) : f \in Faulty}
    \cup {Situation(Disk(NoFile, NoFile, f, Plain), NoLayer, NoLayer) :
              f \in (Faulty \ Wider) \cup {Strict, NoFile}}
    \cup {Situation(Disk(NoFile, NoFile, NoFile, f), NoLayer, NoLayer) :
              f \in (Faulty \ Wider) \cup {NoFile}}
    \cup {[Situation(Disk(f, Strict, NoFile, NoFile), NoLayer, NoLayer)
              EXCEPT !.explicit = TRUE] : f \in {NoFile, Plain}}

-----------------------------------------------------------------------------
(* Calls *)

MCTexts == {"", "hi", "long", "m1", "m2", "high", "here", "link", "t", "u", "never",
            "on-request", "read-only", "workspace-write"}
MCSize == [s \in MCTexts \cup {Blank} |->
              IF s = "" THEN 0 ELSE IF s = "long" THEN 5 ELSE 1]
MCModels == {"m1", "m2"}
MCEfforts == {"high"}
MCCatalogs == {"m1" :> {"high"}, ("m1" :> {"low"}) @@ ("m2" :> {})}

Prompt == "prompt" :> "hi"
Config(c) == Prompt @@ ("config" :> c)

Compacts == ("config" :> ("compact_prompt" :> "")) @@ ("compact-prompt" :> "")

MCCodexArguments ==
    {NotText, NoKeys, Prompt, "prompt" :> Blank, "prompt" :> "long",
     Prompt @@ ("model" :> Null), Prompt @@ ("x" :> "hi"), Prompt @@ ("cwd" :> ""),
     Prompt @@ ("approval-policy" :> "on-request"), Prompt @@ ("sandbox" :> "never"),
     Prompt @@ ("compact-prompt" :> NotText),
     Prompt @@ ("base-instructions" :> "long"),
     Prompt @@ ("model" :> "m1"),
     Prompt @@ ("cwd" :> "link"),
     Prompt @@ ("sandbox" :> "workspace-write") @@ ("cwd" :> "here") @@ Compacts,
     Config(NotText), Config("x" :> "hi"), Config("model" :> ""),
     Config("model" :> "m2"), Config("model" :> "m2") @@ ("model" :> "m1"),
     Config("model_reasoning_effort" :> "high") @@ ("effort" :> "high")}

Reply == Prompt @@ ("threadId" :> "t")
MCReplyArguments ==
    {Prompt, Reply, "threadId" :> "t", Reply @@ ("conversationId" :> "u"),
     Reply @@ ("model" :> ""), Prompt @@ ("conversationId" :> "t") @@ ("model" :> "m2"),
     Reply @@ ("conversationId" :> "t") @@ ("effort" :> "high")}

-----------------------------------------------------------------------------
(* Catalogs: one policy, calls with and without a model, more App Servers *)

CatalogStartups == {Situation(Disk(NoFile, Strict, NoFile, NoFile), NoLayer, NoLayer)}
CatalogCodexArguments == {Prompt, Prompt @@ ("model" :> "m1")}
CatalogReplyArguments == {Reply}
CatalogDirectories == {Here}

Symmetry == Permutations(Ids)
=============================================================================
