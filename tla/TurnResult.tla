------------------------------ MODULE TurnResult ------------------------------
(***************************************************************************)
(* What a turn's events become for the client (results.py, and the end of  *)
(* _run_turn in coordinator.py): the reducer observes the routed events in *)
(* order, the pump stops at the first terminal event that can be read, and *)
(* the outcome is judged once.                                             *)
(***************************************************************************)
EXTENDS Naturals, Sequences, SequencesExt

CONSTANTS
    Texts,      \* texts of agent messages
    Oversized,  \* those longer than max_result_bytes
    Errors,     \* messages of errors
    MaxEvents,  \* events of the turn (a bound)
    None

ASSUME ResultConstants ==
    MaxEvents \in Nat /\ None \notin Texts \cup Errors /\ Oversized \subseteq Texts

\* item/completed of an agent message: its phase may be unspecified.  Other
\* items, deltas and usage leave the answer alone and are left out.
Phases == {"final_answer", "commentary", None}
Messages == [method : {"item/completed"}, phase : Phases, text : Texts]

Notifications == [method : {"error"}, message : Errors]

\* turn/completed: its status may be non-terminal, unknown or unreadable.
TerminalStatuses == {"completed", "failed", "interrupted"}
Statuses == TerminalStatuses \cup {"inProgress"}
Terminals == [method : {"turn/completed"}, status : Statuses,
              error : Errors \cup {None}]

VARIABLES
    finalText, fallback, status, turnError, lastError, validTerminal,
    seen        \* the events observed so far

outcome == <<finalText, fallback, status, turnError, lastError, validTerminal>>
vars == <<outcome, seen>>

Init ==
    /\ finalText = None /\ fallback = None /\ status = None
    /\ turnError = None /\ lastError = None
    /\ validTerminal = FALSE
    /\ seen = <<>>

\* Mutant of Readable: every status ends the turn.
ReadableAny(event) == TRUE

\* The event proves that the runtime ended the turn.
Readable(event) == event.status \in TerminalStatuses

\* Mutant of FillsText: the fallback is taken by any turn/completed event.
FillsAlways(event) == TRUE

\* A terminal event settles the text if it can be read.
FillsText(event) == Readable(event)

\* _observe_item_completed: phase-less messages are the fallback.
IsFallback(event) == event.phase = None

ObserveMessage(event) ==
    /\ finalText' = IF event.phase = "final_answer" THEN event.text ELSE finalText
    /\ fallback' = IF IsFallback(event) THEN event.text ELSE fallback
    /\ UNCHANGED <<status, turnError, lastError, validTerminal>>

ObserveError(event) ==
    /\ lastError' = event.message
    /\ UNCHANGED <<finalText, fallback, status, turnError, validTerminal>>

\* _observe_turn_completed: anything but a known terminal status is ignored.
ObserveTerminal(event) == LET readable == Readable(event) IN
    /\ finalText' = IF FillsText(event) /\ finalText = None THEN fallback
                    ELSE finalText
    /\ status' = IF readable THEN event.status ELSE status
    /\ turnError' = IF readable /\ event.error # None THEN event.error ELSE turnError
    /\ validTerminal' = (validTerminal \/ readable)
    /\ UNCHANGED <<fallback, lastError>>

\* The pump observes one event and stops after a readable terminal event.
Observe ==
    /\ ~validTerminal /\ Len(seen) < MaxEvents
    /\ \E event \in Messages \cup Notifications \cup Terminals :
          /\ seen' = Append(seen, event)
          /\ \/ event.method = "item/completed" /\ ObserveMessage(event)
             \/ event.method = "error" /\ ObserveError(event)
             \/ event.method = "turn/completed" /\ ObserveTerminal(event)

Next == Observe

Spec == Init /\ [][Next]_vars

-----------------------------------------------------------------------------
(* The end of the turn *)

\* finalize: the error of the turn, or else the last error notification.
FailureText == IF turnError # None THEN turnError ELSE lastError

\* Mutant of Verdict: any terminal event that is no failure is a success.
VerdictLenient(cancelled) ==
    IF status = "failed" THEN "TURN_FAILED" ELSE "success"

\* What the caller is given once the terminal event is in.
Verdict(cancelled) ==
    IF status = "failed" THEN "TURN_FAILED"
    ELSE IF validTerminal /\ status = "completed"
         THEN IF finalText \in Oversized THEN "OUTPUT_LIMIT_EXCEEDED" ELSE "success"
    ELSE IF status = "interrupted" /\ cancelled THEN "cancelled"
    ELSE IF status = "interrupted" THEN "TURN_INTERRUPTED"
    ELSE "TURN_FAILED"

-----------------------------------------------------------------------------
(* Properties *)

\* The fields of TurnOutcome keep their types.
TypeOK ==
    /\ {finalText, fallback} \subseteq Texts \cup {None}
    /\ {turnError, lastError} \subseteq Errors \cup {None}
    /\ status \in TerminalStatuses \cup {None} /\ validTerminal \in BOOLEAN
    /\ seen \in Seq(Messages \cup Notifications \cup Terminals)

\* The last value of the field f among the events of the turn that satisfy P.
LastOf(P(_), f) ==
    LET positions == {i \in DOMAIN seen : P(seen[i])} IN
    IF positions = {} THEN None ELSE seen[Max(positions)][f]

IsMessage(event, phase) == event.method = "item/completed" /\ event.phase = phase

\* The last final answer, or without one the last message without a phase.
Answer == LET final == LastOf(LAMBDA e : IsMessage(e, "final_answer"), "text")
          IN IF final # None THEN final
             ELSE LastOf(LAMBDA e : IsMessage(e, None), "text")

\* Whatever came in between or after them: the text of a turn is its answer, and
\* a failed turn reports its own error, or without one the last error
\* notification (results.py, TurnResultReducer).
OutcomeIsTheTurns == validTerminal =>
    /\ finalText = Answer
    /\ Verdict(FALSE) = "TURN_FAILED" =>
           FailureText = IF Last(seen).error # None THEN Last(seen).error
                         ELSE LastOf(LAMBDA e : e.method = "error", "message")

\* A success is only reported of a turn whose last event says "completed" and
\* whose answer is short enough to be given whole, and only a cancelled request is
\* told nothing (coordinator.py, _run_turn; results.py, build_success_envelope).
SuccessIsEarned == validTerminal => \A cancelled \in BOOLEAN :
    /\ Verdict(cancelled) = "success" <=>
          Last(seen).status = "completed" /\ Answer \notin Oversized
    /\ Verdict(cancelled) = "cancelled" <=>
          cancelled /\ Last(seen).status = "interrupted"

=============================================================================
