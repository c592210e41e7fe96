----------------------------- MODULE BridgeErrors -----------------------------
(***************************************************************************)
(* Code that checks one thing after the other and raises BridgeError at    *)
(* the first that fails (errors.py), as a sequence of checks.              *)
(***************************************************************************)
EXTENDS Naturals

CONSTANT None       \* Python's None: an absent value

Ok == "OK"

Check(code, fails) == [code |-> code, fails |-> fails]

\* A call of a function that makes checks of its own.
Stage(code) == Check(code, code # Ok)

\* The code of the first check that fails.
FirstFault(checks) ==
    LET Failing == {i \in DOMAIN checks : checks[i].fails}
    IN IF Failing = {} THEN Ok
       ELSE checks[CHOOSE i \in Failing : \A j \in Failing : i <= j].code
=============================================================================
