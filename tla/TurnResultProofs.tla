--------------------------- MODULE TurnResultProofs ---------------------------
(* However many events a turn has: what its caller is told of its end, and of  *)
(* its text.                                                                   *)
EXTENDS TurnResult, TLAPS

Events == Messages \cup Notifications \cup Terminals

\* The event that stopped the pump is the last one, and status is its status.
Stopped ==
    validTerminal =>
        /\ Last(seen).status = status
        /\ status \in TerminalStatuses

Inv == TypeOK /\ Stopped

LEMMA Initially == Init => Inv
<1> SUFFICES ASSUME Init PROVE Inv
  OBVIOUS
<1>1. seen \in Seq(Messages \cup Notifications \cup Terminals)
  <2> DEFINE E == Messages \cup Notifications \cup Terminals
  <2>1. seen = <<>>
    BY DEF Init
  <2> HIDE DEF E
  <2>2. seen \in Seq(E)
    BY <2>1
  <2> QED BY <2>2 DEF E
<1> QED
  BY <1>1 DEF Init, Inv, TypeOK, Stopped

LEMMA Inductive == Inv /\ [Next]_vars => Inv'
<1> SUFFICES ASSUME Inv, [Next]_vars PROVE Inv'
  OBVIOUS
<1>1. CASE Next
  <2> USE DEF Inv
  <2>1. PICK event \in Events :
          /\ seen' = Append(seen, event)
          /\ \/ event.method = "item/completed" /\ ObserveMessage(event)
             \/ event.method = "error" /\ ObserveError(event)
             \/ event.method = "turn/completed" /\ ObserveTerminal(event)
    BY <1>1 DEF Next, Observe, Events
  <2>2. ~validTerminal
    BY <1>1 DEF Next, Observe
  <2>3. seen' \in Seq(Events) /\ Last(seen') = event
    BY <2>1 DEF TypeOK, Events, Last
  <2>4. CASE event.method = "item/completed" /\ ObserveMessage(event)
    <3>1. event \in Messages
      BY <2>4 DEF Events, Notifications, Terminals
    <3> QED
      BY <2>2, <2>3, <2>4, <3>1 DEF ObserveMessage, TypeOK, Stopped, Messages, Events
  <2>5. CASE event.method = "error" /\ ObserveError(event)
    <3>1. event \in Notifications
      BY <2>5 DEF Events, Messages, Terminals
    <3> QED
      BY <2>2, <2>3, <2>5, <3>1
      DEF ObserveError, TypeOK, Stopped, Notifications, Events
  <2>6. CASE event.method = "turn/completed" /\ ObserveTerminal(event)
    <3>1. event \in Terminals
      BY <2>6 DEF Events, Messages, Notifications
    <3>2. /\ event.error \in Errors \cup {None}
          /\ Readable(event) <=> event.status \in TerminalStatuses
      BY <3>1 DEF Terminals, Readable
    <3>3. TypeOK'
      BY <2>3, <2>6, <3>2 DEF ObserveTerminal, TypeOK, Events
    <3>4. Stopped'
      BY <2>2, <2>3, <2>6, <3>2 DEF ObserveTerminal, Stopped
    <3> QED BY <3>3, <3>4
  <2> QED BY <2>1, <2>4, <2>5, <2>6
<1>2. CASE UNCHANGED vars
  BY <1>2 DEF vars, outcome, Inv, TypeOK, Stopped
<1> QED
  BY <1>1, <1>2

\* The fields of TurnOutcome keep their types.
THEOREM OutcomeTypeCorrect == Spec => []TypeOK
<1>1. Inv => TypeOK
  BY DEF Inv
<1> QED
  BY <1>1, Initially, Inductive, PTL DEF Spec

-----------------------------------------------------------------------------
(* The reducer against the whole sequence of events *)

\* Where the events that count are, and what the last of them says.
FinalAt(s) == {i \in DOMAIN s : IsMessage(s[i], "final_answer")}
PlainAt(s) == {i \in DOMAIN s : IsMessage(s[i], None)}
ErrorAt(s) == {i \in DOMAIN s : s[i].method = "error"}
Value(s, at, f) == IF at = {} THEN None ELSE s[Max(at)][f]

\* The set has a last position, or none at all.
Newest(i, at) == i \in at /\ \A j \in at : j <= i
Settled(at) == at = {} \/ \E i \in at : Newest(i, at)

LEMMA MaxIs ==
    ASSUME NEW at \in SUBSET Nat, NEW i, Newest(i, at)
    PROVE  Max(at) = i
<1>1. i \in at /\ \A j \in at : i >= j
  BY DEF Newest
<1>2. \A k \in at : (\A j \in at : k >= j) => k = i
  <2> TAKE k \in at
  <2> HAVE \A j \in at : k >= j
  <2>1. k >= i /\ i >= k
    BY <1>1
  <2> QED BY <1>1, <2>1
<1> QED
  BY <1>1, <1>2 DEF Max

LEMMA LastOfIs ==
    /\ LastOf(LAMBDA e : IsMessage(e, "final_answer"), "text")
           = Value(seen, FinalAt(seen), "text")
    /\ LastOf(LAMBDA e : IsMessage(e, None), "text")
           = Value(seen, PlainAt(seen), "text")
    /\ LastOf(LAMBDA e : e.method = "error", "message")
           = Value(seen, ErrorAt(seen), "message")
  BY DEF LastOf, Value, FinalAt, PlainAt, ErrorAt

\* An event more: one position more, or the same ones.
LEMMA Appended ==
    ASSUME NEW s \in Seq(Events), NEW e \in Events
    PROVE  /\ FinalAt(Append(s, e)) = IF IsMessage(e, "final_answer")
                                      THEN FinalAt(s) \cup {Len(s) + 1} ELSE FinalAt(s)
           /\ PlainAt(Append(s, e)) = IF IsMessage(e, None)
                                      THEN PlainAt(s) \cup {Len(s) + 1} ELSE PlainAt(s)
           /\ ErrorAt(Append(s, e)) = IF e.method = "error"
                                      THEN ErrorAt(s) \cup {Len(s) + 1} ELSE ErrorAt(s)
<1>1. /\ DOMAIN Append(s, e) = DOMAIN s \cup {Len(s) + 1}
      /\ Len(s) + 1 \notin DOMAIN s
      /\ Append(s, e)[Len(s) + 1] = e
      /\ \A i \in DOMAIN s : Append(s, e)[i] = s[i]
  OBVIOUS
<1> QED
  BY <1>1 DEF FinalAt, PlainAt, ErrorAt

LEMMA NewestCounts ==
    ASSUME NEW s \in Seq(Events), NEW e \in Events, NEW at \in SUBSET DOMAIN s, NEW f
    PROVE  /\ Settled(at \cup {Len(s) + 1})
           /\ Value(Append(s, e), at \cup {Len(s) + 1}, f) = e[f]
<1>1. Newest(Len(s) + 1, at \cup {Len(s) + 1}) /\ at \cup {Len(s) + 1} \subseteq Nat
  BY DEF Newest
<1>2. Max(at \cup {Len(s) + 1}) = Len(s) + 1
  BY <1>1, MaxIs
<1>3. Append(s, e)[Len(s) + 1] = e
  OBVIOUS
<1> QED
  BY <1>1, <1>2, <1>3 DEF Settled, Value

LEMMA OthersDoNot ==
    ASSUME NEW s \in Seq(Events), NEW e \in Events, NEW at \in SUBSET DOMAIN s,
           Settled(at), NEW f
    PROVE  Value(Append(s, e), at, f) = Value(s, at, f)
<1>1. CASE at = {}
  BY <1>1 DEF Value
<1>2. ASSUME NEW i \in at, Newest(i, at)
      PROVE  Value(Append(s, e), at, f) = Value(s, at, f)
  <2>1. Max(at) = i
    BY <1>2, MaxIs
  <2>2. Append(s, e)[i] = s[i]
    BY <1>2
  <2> QED BY <2>1, <2>2 DEF Value
<1> QED
  BY <1>1, <1>2 DEF Settled

LEMMA OneMore ==
    ASSUME NEW s \in Seq(Events), NEW e \in Events, NEW at \in SUBSET DOMAIN s,
           Settled(at), NEW now, NEW hit,
           now = IF hit THEN at \cup {Len(s) + 1} ELSE at
    PROVE  /\ Settled(now)
           /\ \A f \in {"text", "message"} :
                  Value(Append(s, e), now, f) = IF hit THEN e[f] ELSE Value(s, at, f)
  BY NewestCounts, OthersDoNot

\* The reducer has kept the last of each kind, and the terminal event has settled
\* the text and the error.
Kept ==
    /\ Settled(FinalAt(seen)) /\ Settled(PlainAt(seen)) /\ Settled(ErrorAt(seen))
    /\ fallback = Value(seen, PlainAt(seen), "text")
    /\ lastError = Value(seen, ErrorAt(seen), "message")
    /\ ~validTerminal =>
           finalText = Value(seen, FinalAt(seen), "text") /\ turnError = None
    /\ validTerminal =>
           /\ finalText = IF Value(seen, FinalAt(seen), "text") # None
                          THEN Value(seen, FinalAt(seen), "text") ELSE fallback
           /\ turnError = Last(seen).error

LEMMA InitiallyKept == Init => Kept
  BY DEF Init, Kept, Settled, Value, FinalAt, PlainAt, ErrorAt

LEMMA KeptOn == Inv /\ Kept /\ [Next]_vars => Kept'
<1> SUFFICES ASSUME Inv, Kept, Next PROVE Kept'
  BY DEF vars, outcome, Kept
<1> USE DEF Kept
<1>1. PICK event \in Events :
        /\ seen' = Append(seen, event)
        /\ \/ event.method = "item/completed" /\ ObserveMessage(event)
           \/ event.method = "error" /\ ObserveError(event)
           \/ event.method = "turn/completed" /\ ObserveTerminal(event)
  BY DEF Next, Observe, Events
<1>2. ~validTerminal /\ seen \in Seq(Events)
  BY DEF Next, Observe, Inv, TypeOK, Events
<1>3. /\ FinalAt(seen) \subseteq DOMAIN seen
      /\ PlainAt(seen) \subseteq DOMAIN seen
      /\ ErrorAt(seen) \subseteq DOMAIN seen
  BY DEF FinalAt, PlainAt, ErrorAt
<1>4. /\ Settled(FinalAt(seen')) /\ Settled(PlainAt(seen')) /\ Settled(ErrorAt(seen'))
      /\ Value(seen', FinalAt(seen'), "text")
             = IF IsMessage(event, "final_answer") THEN event.text
               ELSE Value(seen, FinalAt(seen), "text")
      /\ Value(seen', PlainAt(seen'), "text")
             = IF IsMessage(event, None) THEN event.text
               ELSE Value(seen, PlainAt(seen), "text")
      /\ Value(seen', ErrorAt(seen'), "message")
             = IF event.method = "error" THEN event.message
               ELSE Value(seen, ErrorAt(seen), "message")
  <2>1. /\ FinalAt(seen') = IF IsMessage(event, "final_answer")
                            THEN FinalAt(seen) \cup {Len(seen) + 1} ELSE FinalAt(seen)
        /\ PlainAt(seen') = IF IsMessage(event, None)
                            THEN PlainAt(seen) \cup {Len(seen) + 1} ELSE PlainAt(seen)
        /\ ErrorAt(seen') = IF event.method = "error"
                            THEN ErrorAt(seen) \cup {Len(seen) + 1} ELSE ErrorAt(seen)
    BY <1>1, <1>2, Appended
  <2>2. /\ Settled(FinalAt(seen'))
        /\ Value(seen', FinalAt(seen'), "text")
               = IF IsMessage(event, "final_answer") THEN event.text
                 ELSE Value(seen, FinalAt(seen), "text")
    BY <1>1, <1>2, <1>3, <2>1, OneMore
  <2>3. /\ Settled(PlainAt(seen'))
        /\ Value(seen', PlainAt(seen'), "text")
               = IF IsMessage(event, None) THEN event.text
                 ELSE Value(seen, PlainAt(seen), "text")
    BY <1>1, <1>2, <1>3, <2>1, OneMore
  <2>4. /\ Settled(ErrorAt(seen'))
        /\ Value(seen', ErrorAt(seen'), "message")
               = IF event.method = "error" THEN event.message
                 ELSE Value(seen, ErrorAt(seen), "message")
    BY <1>1, <1>2, <1>3, <2>1, OneMore
  <2> QED BY <2>2, <2>3, <2>4
<1>5. CASE event.method = "item/completed" /\ ObserveMessage(event)
  BY <1>2, <1>4, <1>5 DEF ObserveMessage, IsMessage, IsFallback
<1>6. CASE event.method = "error" /\ ObserveError(event)
  BY <1>2, <1>4, <1>6 DEF ObserveError, IsMessage
<1>7. CASE event.method = "turn/completed" /\ ObserveTerminal(event)
  <2>1. Last(seen') = event
    BY <1>1, <1>2 DEF Last
  <2>2. ~IsMessage(event, "final_answer") /\ ~IsMessage(event, None)
        /\ event.method # "error"
    BY <1>7 DEF IsMessage
  <2> QED
    BY <1>2, <1>4, <1>7, <2>1, <2>2 DEF ObserveTerminal, FillsText
<1> QED
  BY <1>1, <1>5, <1>6, <1>7

LEMMA KeptAlways == Spec => [](Inv /\ Kept)
<1>1. Init => Inv /\ Kept
  BY Initially, InitiallyKept
<1>2. Inv /\ Kept /\ [Next]_vars => Inv' /\ Kept'
  BY Inductive, KeptOn
<1> QED
  BY <1>1, <1>2, PTL DEF Spec

LEMMA ReducedIs == Inv /\ Kept => OutcomeIsTheTurns
  BY LastOfIs DEF Kept, OutcomeIsTheTurns, Answer, FailureText

\* Of all the events of a turn, however many: its text is the last final answer,
\* or else the last message without a phase, and a failure reports the error of
\* the turn, or else the last error notification (TurnReducer in results.py).
THEOREM OutcomeReduced == Spec => []OutcomeIsTheTurns
<1>1. Inv /\ Kept => OutcomeIsTheTurns
  BY ReducedIs
<1> QED
  BY <1>1, KeptAlways, PTL

\* A caller hears of a success exactly when the last event of the turn says so and
\* its answer is not too long, however many events led to it, and of nothing at all
\* exactly when it cancelled a turn that was interrupted (_run_turn,
\* build_success_envelope).
THEOREM VerdictEarned == Spec => []SuccessIsEarned
<1>1. Inv /\ Kept => SuccessIsEarned
  BY ReducedIs
  DEF OutcomeIsTheTurns, Inv, Stopped, SuccessIsEarned, Verdict, TerminalStatuses
<1> QED
  BY <1>1, KeptAlways, PTL

=============================================================================
