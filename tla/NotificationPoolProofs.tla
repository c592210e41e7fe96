------------------------ MODULE NotificationPoolProofs ------------------------
(***************************************************************************)
(* However many runtimes an instance starts in place and however many      *)
(* turns they run: a runtime that takes calls has a live drain.            *)
(***************************************************************************)
EXTENDS NotificationPool, FiniteSetTheorems, TLAPS

\* A sequence without one of its elements.
LEMMA Without ==
    ASSUME NEW S, NEW s \in Seq(S), NEW i \in DOMAIN s
    PROVE  RemoveAt(s, i) \in Seq(S)
  BY DEF RemoveAt

\* Whoever adopts a client keeps it until the runtime is ready, and a runtime that
\* is ready has it and a drain.
ClientIsThere ==
    /\ lifecycle.pc = "adopted" => client # NoClient
    /\ state = "READY" => client # NoClient

IInv ==
    /\ TypeOK
    /\ IsFiniteSet(busy)
    /\ ClientIsThere
    /\ ReadyIsDrained

LEMMA Initially == Init => IInv
<1> SUFFICES ASSUME Init PROVE IInv
  OBVIOUS
<1>1. IsFiniteSet(busy) /\ Cardinality(busy) <= MaxWorkers
  BY FS_EmptySet DEF Init, MaxWorkers
<1>2. queue \in Seq(Jobs)
  <2>1. queue = <<>>
    BY DEF Init
  <2> QED BY <2>1
<1>3. routed \in [Turns -> Seq({"item", "terminal"})]
  BY DEF Init
<1>4. /\ lifecycle \in [pc : {"idle", "staleClosing", "starting", "adopted", "closing"},
                        on : Clients \cup {NoClient}]
      /\ pump \in [Turns -> [pc : {"none", "asking", "waiting", "releasing", "ended",
                                   "failed"}, on : Clients \cup {NoClient}]]
  BY DEF Init, NoLifecycle
<1>5. TypeOK
  BY <1>1, <1>2, <1>3, <1>4 DEF Init, TypeOK
<1> QED
  BY <1>1, <1>5 DEF Init, IInv, ClientIsThere, ReadyIsDrained, NoLifecycle

-----------------------------------------------------------------------------
(* Types *)

\* What TypeOK says of the executor, and of everything else.
PoolTypes ==
    /\ queue \in Seq(Jobs) /\ busy \subseteq Jobs
    /\ Cardinality(busy) <= MaxWorkers /\ IsFiniteSet(busy)
    /\ answer \in [Jobs -> {"none", "item", "terminal", "raised"}]

OtherTypes ==
    /\ state \in {"STOPPED", "STARTING", "READY", "DEGRADED", "STOPPING", "STOP_FAILED"}
    /\ unsupported \in BOOLEAN /\ shut \in BOOLEAN
    /\ client \in Clients \cup {NoClient}
    /\ lifecycle \in [pc : {"idle", "staleClosing", "starting", "adopted", "closing"},
                      on : Clients \cup {NoClient}]
    /\ drain \in {"none", "asking", "waiting", "ended"}
    /\ pump \in [Turns -> [pc : {"none", "asking", "waiting", "releasing", "ended",
                                 "failed"}, on : Clients \cup {NoClient}]]
    /\ confirmed \subseteq Turns
    /\ transport \in [Clients -> {"none", "open", "refused", "closed"}]
    /\ routed \in [Turns -> Seq({"item", "terminal"})]

Types == PoolTypes /\ OtherTypes

LEMMA TypesAre == Types <=> TypeOK /\ IsFiniteSet(busy)
  BY DEF Types, PoolTypes, OtherTypes, TypeOK

\* The jobs of clients and turns.
LEMMA JobsAre ==
    /\ \A c \in Clients : <<"global", c>> \in Jobs
    /\ \A t \in Turns : <<"event", t>> \in Jobs /\ <<"release", t>> \in Jobs
  BY DEF Jobs

LEMMA SubmitTypes ==
    ASSUME PoolTypes, NEW job \in Jobs, queue' = Append(queue, job)
    PROVE  queue' \in Seq(Jobs)
  BY DEF PoolTypes

\* A thread answers a job, and is free again.
LEMMA AnswersTypes ==
    ASSUME PoolTypes, NEW job, NEW value \in {"item", "terminal", "raised"},
           Answers(job, value)
    PROVE  PoolTypes'
<1>1. job \in Jobs /\ busy' = busy \ {job} /\ queue' = queue
  BY DEF Answers, PoolTypes
<1>2. IsFiniteSet(busy') /\ Cardinality(busy') <= MaxWorkers
  <2>1. IsFiniteSet(busy) /\ Cardinality(busy) <= MaxWorkers
    BY DEF PoolTypes
  <2>2. IsFiniteSet(busy \ {job}) /\ Cardinality(busy \ {job}) <= Cardinality(busy)
    BY <2>1, FS_Subset
  <2>3. Cardinality(busy) \in Nat /\ Cardinality(busy \ {job}) \in Nat
    BY <2>1, <2>2, FS_CardinalityType
  <2> QED BY <1>1, <2>1, <2>2, <2>3 DEF MaxWorkers
<1>3. answer' \in [Jobs -> {"none", "item", "terminal", "raised"}]
  BY <1>1 DEF Answers, PoolTypes
<1> QED
  BY <1>1, <1>2, <1>3 DEF PoolTypes

LEMMA LifecycleTypes ==
    ASSUME Types, Lifecycle
    PROVE  Types'
<1> USE DEF Types, OtherTypes, adapter, tasks, pool, sdk
<1>1. CASE StartRequested
  <2>1. lifecycle' \in [pc : {"idle", "staleClosing", "starting", "adopted", "closing"},
                         on : Clients \cup {NoClient}]
    BY <1>1 DEF StartRequested
  <2>2. state' \in {"STARTING", state}
    BY <1>1 DEF StartRequested
  <2> QED BY <1>1, <2>1, <2>2 DEF StartRequested, PoolTypes
<1>2. CASE StaleClosed \/ RpcTimesOut
  BY <1>2 DEF StaleClosed, RpcTimesOut, PoolTypes
<1>3. CASE \E c \in Clients : Adopt(c)
  BY <1>3 DEF Adopt, PoolTypes
<1>4. CASE Started
  BY <1>4 DEF Started, NoLifecycle, PoolTypes
<1>5. CASE CloseCalled
  <2>1. queue' \in Seq(Jobs)
    BY <1>5, Without DEF CloseCalled, PoolTypes
  <2>2. OtherTypes'
    BY <1>5 DEF CloseCalled
  <2>3. busy' = busy /\ answer' = answer
    BY <1>5 DEF CloseCalled
  <2> QED BY <2>1, <2>2, <2>3 DEF PoolTypes
<1>6. CASE CloseStops
  BY <1>6 DEF CloseStops, NoLifecycle, PoolTypes
<1>7. CASE StopFails
  <2>1. lifecycle' \in [pc : {"idle", "staleClosing", "starting", "adopted", "closing"},
                         on : Clients \cup {NoClient}]
    BY <1>7 DEF StopFails, NoLifecycle
  <2>2. client' \in Clients \cup {NoClient}
    BY <1>7 DEF StopFails
  <2> QED BY <1>7, <2>1, <2>2 DEF StopFails, PoolTypes
<1> QED
  BY <1>1, <1>2, <1>3, <1>4, <1>5, <1>6, <1>7 DEF Lifecycle

LEMMA PumpTypes ==
    ASSUME Types, NEW t \in Turns, TurnStarts(t) \/ PumpGoesOn(t)
    PROVE  Types'
<1> USE DEF Types, OtherTypes, adapter, tasks, pool, sdk
<1>1. CASE TurnStarts(t)
  BY <1>1 DEF TurnStarts, PoolTypes
<1>2. CASE PumpAsks(t)
  <2>1. pump' \in [Turns -> [pc : {"none", "asking", "waiting", "releasing", "ended",
                                   "failed"}, on : Clients \cup {NoClient}]]
    <3>1. \/ pump' = [pump EXCEPT ![t].pc = "failed"]
          \/ pump' = [pump EXCEPT ![t].pc = "waiting"]
      BY <1>2 DEF PumpAsks
    <3>2. CASE pump' = [pump EXCEPT ![t].pc = "failed"]
      BY <3>2
    <3>3. CASE pump' = [pump EXCEPT ![t].pc = "waiting"]
      BY <3>3
    <3> QED BY <3>1, <3>2, <3>3
  <2>2. PoolTypes'
    BY <1>2, JobsAre, SubmitTypes DEF PumpAsks, Submit, PoolTypes
  <2>3. OtherTypes'
    BY <1>2, <2>1 DEF PumpAsks
  <2> QED BY <2>2, <2>3
<1>3. ASSUME NEW job, Heard(job), UNCHANGED <<queue, busy>> PROVE PoolTypes'
  BY <1>3 DEF Heard, PoolTypes
<1>4. CASE PumpGetsItem(t)
  BY <1>3, <1>4 DEF PumpGetsItem
<1>5. CASE PumpGetsError(t)
  <2>1. pump' \in [Turns -> [pc : {"none", "asking", "waiting", "releasing", "ended",
                                   "failed"}, on : Clients \cup {NoClient}]]
    BY <1>5 DEF PumpGetsError
  <2>2. state' \in {"DEGRADED", state}
    BY <1>5 DEF PumpGetsError
  <2> QED BY <1>3, <1>5, <2>1, <2>2 DEF PumpGetsError
<1>6. CASE PumpReleased(t)
  BY <1>3, <1>6 DEF PumpReleased
<1>7. CASE PumpGetsTerminal(t)
  <2>1. OtherTypes'
    BY <1>7 DEF PumpGetsTerminal, AfterTerminal
  <2>2. queue' \in Seq(Jobs)
    BY <1>7, JobsAre, SubmitTypes DEF PumpGetsTerminal, PoolTypes
  <2>3. PoolTypes'
    BY <1>7, <2>2 DEF PumpGetsTerminal, Heard, PoolTypes
  <2> QED BY <2>1, <2>3
<1> QED
  BY <1>1, <1>2, <1>4, <1>5, <1>6, <1>7 DEF PumpGoesOn

LEMMA DrainTypes ==
    ASSUME Types, DrainGoesOn
    PROVE  Types'
<1> USE DEF Types, OtherTypes, adapter, tasks, pool, sdk
<1>1. AsksForGlobal => drain' \in {"waiting", "ended"} /\ queue' \in Seq(Jobs)
  BY JobsAre, SubmitTypes DEF AsksForGlobal, PoolTypes
<1>2. CASE DrainBegins
  BY <1>1, <1>2 DEF DrainBegins, PoolTypes
<1>3. CASE \E c \in Clients : DrainGetsItem(c)
  BY <1>1, <1>3 DEF DrainGetsItem, Heard, PoolTypes
<1>4. CASE \E c \in Clients : DrainGetsError(c)
  BY <1>4 DEF DrainGetsError, Heard, PoolTypes
<1> QED
  BY <1>2, <1>3, <1>4 DEF DrainGoesOn

LEMMA TakeTypes ==
    ASSUME Types, Take
    PROVE  Types'
<1> USE DEF Types
<1>1. Head(queue) \in Jobs /\ Tail(queue) \in Seq(Jobs)
  BY DEF Take, PoolTypes
<1>2. /\ IsFiniteSet(busy \cup {Head(queue)})
      /\ Cardinality(busy \cup {Head(queue)}) <= Cardinality(busy) + 1
  <2>1. IsFiniteSet(busy) /\ Cardinality(busy) \in Nat
    BY FS_CardinalityType DEF PoolTypes
  <2>2. \/ Cardinality(busy \cup {Head(queue)}) = Cardinality(busy)
        \/ Cardinality(busy \cup {Head(queue)}) = Cardinality(busy) + 1
    <3>1. CASE Head(queue) \in busy
      <4>1. busy \cup {Head(queue)} = busy
        BY <3>1
      <4> QED BY <4>1
    <3>2. CASE Head(queue) \notin busy
      BY <2>1, <3>2, FS_AddElement
    <3> QED BY <3>1, <3>2
  <2>3. IsFiniteSet(busy \cup {Head(queue)})
    BY <2>1, FS_AddElement
  <2> QED BY <2>1, <2>2, <2>3
<1>3. Cardinality(busy) \in Nat /\ Cardinality(busy \cup {Head(queue)}) \in Nat
  BY <1>2, FS_CardinalityType DEF PoolTypes
<1>4. PoolTypes'
  BY <1>1, <1>2, <1>3 DEF Take, PoolTypes, MaxWorkers
<1> QED
  BY <1>4 DEF Take, OtherTypes, adapter, tasks, sdk

LEMMA ServeTypes ==
    ASSUME Types, \/ \E t \in Turns : ServesPump(t)
                  \/ \E c \in Clients : ServesDrain(c) \/ TakesGlobal(c)
    PROVE  Types'
<1> USE DEF Types, OtherTypes, adapter, tasks, pool, sdk
<1>1. ASSUME NEW t \in Turns, TakesEvent(t) PROVE Types'
  <2>1. Head(routed[t]) \in {"item", "terminal"} /\ Tail(routed[t]) \in Seq({"item", "terminal"})
    BY <1>1 DEF TakesEvent
  <2>2. PoolTypes'
    BY <1>1, <2>1, AnswersTypes DEF TakesEvent
  <2> QED BY <1>1, <2>1, <2>2 DEF TakesEvent, Answers
<1>2. ASSUME NEW job, NEW c, Wakes(job, c) PROVE Types'
  BY <1>2, AnswersTypes DEF Wakes, Answers
<1>3. ASSUME NEW t \in Turns, Releases(t) PROVE Types'
  BY <1>3, AnswersTypes DEF Releases, Answers
<1>4. ASSUME NEW c \in Clients, TakesGlobal(c) PROVE Types'
  BY <1>4, AnswersTypes DEF TakesGlobal, Answers
<1> QED
  BY <1>1, <1>2, <1>3, <1>4 DEF ServesPump, ServesDrain

LEMMA SdkTypes ==
    ASSUME Types, \/ \E c \in Clients : Closes(c) \/ Refuses(c)
                  \/ \E t \in Turns : SendsEvent(t)
    PROVE  Types'
<1> USE DEF Types, OtherTypes, adapter, tasks, pool, sdk
<1>1. CASE \E c \in Clients : Closes(c) \/ Refuses(c)
  BY <1>1 DEF Closes, Refuses, PoolTypes
<1>2. CASE \E t \in Turns : SendsEvent(t)
  BY <1>2 DEF SendsEvent, PoolTypes
<1> QED
  BY <1>1, <1>2

LEMMA TypesKept == Types /\ [Next]_vars => Types'
<1> SUFFICES ASSUME Types, [Next]_vars PROVE Types'
  OBVIOUS
<1>1. CASE UNCHANGED vars
  BY <1>1 DEF vars, adapter, tasks, pool, sdk, Types, PoolTypes, OtherTypes
<1> QED
  BY <1>1, LifecycleTypes, PumpTypes, DrainTypes, TakeTypes, ServeTypes, SdkTypes
  DEF Next, AppServer

-----------------------------------------------------------------------------
(* Readiness *)

Evidence == ClientIsThere /\ ReadyIsDrained

LEMMA EvidenceKept == Types /\ Evidence /\ [Next]_vars => Evidence'
<1> SUFFICES ASSUME Types, Evidence, [Next]_vars PROVE Evidence'
  OBVIOUS
<1> USE DEF Evidence, ClientIsThere, ReadyIsDrained, adapter, tasks, pool, sdk
<1>1. CASE StartRequested
  BY <1>1 DEF StartRequested
<1>2. CASE StaleClosed
  BY <1>2 DEF StaleClosed
<1>3. CASE \E c \in Clients : Adopt(c)
  \* Clients count from one
  BY <1>3 DEF Adopt, Clients, NoClient
<1>4. CASE Started
  BY <1>4 DEF Started, DrainRuns, NoLifecycle
<1>5. CASE CloseCalled
  BY <1>5 DEF CloseCalled
<1>6. CASE CloseStops \/ StopFails
  BY <1>6 DEF CloseStops, StopFails, NoLifecycle
<1>7. CASE RpcTimesOut
  BY <1>7 DEF RpcTimesOut
<1>8. CASE \E t \in Turns : TurnStarts(t) \/ PumpGoesOn(t)
  BY <1>8 DEF TurnStarts, PumpGoesOn, PumpAsks, PumpGetsItem, PumpGetsTerminal,
              PumpGetsError, PumpReleased
<1>9. CASE DrainGoesOn
  <2>1. AsksForGlobal => drain' \in {"asking", "waiting"} \/ client = NoClient
    BY DEF AsksForGlobal
  <2>2. CASE DrainBegins \/ \E c \in Clients : DrainGetsItem(c)
    BY <2>1, <2>2 DEF DrainBegins, DrainGetsItem
  <2>3. CASE \E c \in Clients : DrainGetsError(c)
    BY <2>3 DEF DrainGetsError, DegradedByDrain
  <2> QED BY <1>9, <2>2, <2>3 DEF DrainGoesOn
<1>10. CASE Take \/ UNCHANGED vars
  BY <1>10 DEF Take, vars
<1>11. CASE \/ \E t \in Turns : ServesPump(t)
            \/ \E c \in Clients : ServesDrain(c) \/ TakesGlobal(c)
  BY <1>11 DEF ServesPump, ServesDrain, TakesGlobal, TakesEvent, Releases, Wakes, Answers
<1>12. CASE \/ \E c \in Clients : Closes(c) \/ Refuses(c)
            \/ \E t \in Turns : SendsEvent(t)
  BY <1>12 DEF Closes, Refuses, SendsEvent
<1> QED
  BY <1>1, <1>2, <1>3, <1>4, <1>5, <1>6, <1>7, <1>8, <1>9, <1>10, <1>11, <1>12
  DEF Next, Lifecycle, AppServer

LEMMA Inductive == IInv /\ [Next]_vars => IInv'
<1>1. IInv <=> Types /\ Evidence
  BY TypesAre DEF IInv, Evidence, Types, PoolTypes
<1>2. IInv' <=> Types' /\ Evidence'
  BY <1>1, PTL
<1> QED
  BY <1>1, <1>2, TypesKept, EvidenceKept

-----------------------------------------------------------------------------

\* What holds however many runtimes and turns there are.
THEOREM Invariant == Spec => []IInv
  BY Initially, Inductive, PTL DEF Spec

\* The executor of _notification_executor never has more than its two threads at
\* work, and every field, task and channel keeps its type.
THEOREM PoolTypeCorrect == Spec => []TypeOK
<1>1. IInv => TypeOK
  BY DEF IInv
<1> QED
  BY Invariant, <1>1, PTL

\* A runtime that takes calls has a live drain (_drain_globals), also when
\* start_runtime replaced the client in place while the drain of the one before
\* was still waiting in a thread.
THEOREM ReadyDrained == Spec => []ReadyIsDrained
<1>1. IInv => ReadyIsDrained
  BY DEF IInv
<1> QED
  BY Invariant, <1>1, PTL

=============================================================================
