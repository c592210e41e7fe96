------------------------- MODULE AdvisoryLocksProofs -------------------------
(***************************************************************************)
(* Conflicting turns of living bridges exclude each other, and no error    *)
(* path leaks a lock, for any number of processes, threads and workspaces. *)
(***************************************************************************)
EXTENDS AdvisoryLocks, TLAPS

Held(p) == lease[p] \cup retained[p]

\* A process has locked exactly what its leases say.
LeasesAreLocks(p) == \A f \in Files : flock[f] = p <=> f \in Held(p)

\* A process that keeps locks or a turn past a call takes no further call.
RetainedPoisons(p) ==
    /\ retained[p] # {} => poisoned[p]
    /\ turn[p] = "executing" /\ pc[p] = "idle" => poisoned[p]
    /\ poisoned[p] => pc[p] = "idle"
    /\ pc[p] \in {"idle", "down"} => lease[p] = {}

\* What a call has locked on its way to its turn.
HasThread(p) == call[p].thread \in Threads /\ call[p].thread \in Held(p)
HasWorkspace(p) ==
    call[p].cwd \in Workspaces /\ (call[p].write => call[p].cwd \in Held(p))
Resumable(p) == call[p].tool # "codex" /\ cwdOf[call[p].thread] # NoWorkspace

LocksOnTheWay(p) ==
    /\ pc[p] = "lockWorkspace" =>
           call[p].cwd \in Workspaces /\ (call[p].tool # "codex" => HasThread(p))
    /\ pc[p] = "start" => HasWorkspace(p) /\ call[p].tool = "codex"
    /\ pc[p] = "lockThread" =>
           /\ call[p].thread \in Threads
           /\ Resumable(p) \/ (call[p].tool = "codex" /\ HasWorkspace(p))
    /\ pc[p] = "read" => HasThread(p) /\ Resumable(p)
    /\ pc[p] = "submit" => HasThread(p) /\ HasWorkspace(p)
    /\ pc[p] = "turn" => turn[p] = "executing"
    /\ turn[p] = "executing" =>
           HasThread(p) /\ HasWorkspace(p) /\ pc[p] \in {"turn", "settle", "idle"}

PInv(p) == LeasesAreLocks(p) /\ RetainedPoisons(p) /\ LocksOnTheWay(p)
IInv == TypeOK /\ \A p \in Processes : PInv(p)

Step(p) == Called(p) \/ Works(p) \/ ProcessEnds(p) \/ ProcessStarts(p)

LEMMA InitInv == Init => IInv
BY LocksAssumption DEF Init, IInv, PInv, TypeOK, LeasesAreLocks, RetainedPoisons,
    LocksOnTheWay, Held, Files, Calls, NoCall, Steps

\* Every variable keeps its type, whichever step process p takes.
LEMMA TypeStep ==
    ASSUME IInv, NEW p \in Processes, Step(p)
    PROVE  TypeOK'
<1> USE LocksAssumption DEF IInv, PInv, TypeOK
<1>1. CASE CodexCalled(p)
  <2>1. PICK write \in BOOLEAN, w \in Workspaces :
            /\ call' = [call EXCEPT ![p] = [tool |-> "codex", write |-> write,
                                            thread |-> NoThread, cwd |-> w]]
            /\ pc' = [pc EXCEPT ![p] = IF write THEN "lockWorkspace" ELSE "start"]
    BY <1>1 DEF CodexCalled
  <2>2. [tool |-> "codex", write |-> write, thread |-> NoThread, cwd |-> w] \in Calls
    BY DEF Calls
  <2>3. call' \in [Processes -> Calls] BY <2>1, <2>2
  <2>4. pc' \in [Processes -> Steps] BY <2>1 DEF Steps
  <2>5. QED BY <1>1, <2>3, <2>4 DEF CodexCalled
<1>2. CASE ReplyCalled(p)
  <2>1. PICK write \in BOOLEAN, t \in Threads :
            call' = [call EXCEPT ![p] = [tool |-> "reply", write |-> write,
                                         thread |-> t, cwd |-> NoWorkspace]]
    BY <1>2 DEF ReplyCalled
  <2>2. [tool |-> "reply", write |-> write, thread |-> t, cwd |-> NoWorkspace] \in Calls
    BY DEF Calls
  <2>3. call' \in [Processes -> Calls] BY <2>1, <2>2
  <2>4. pc' \in [Processes -> Steps] BY <1>2 DEF ReplyCalled, Steps
  <2>5. QED BY <1>2, <2>3, <2>4 DEF ReplyCalled
<1>3. ASSUME NEW f \in Files, NEW next \in Steps, TryLock(p, f, next)
      PROVE  /\ flock' \in [Files -> Processes \cup {NoProcess}]
             /\ lease' \in [Processes -> SUBSET Files]
             /\ pc' \in [Processes -> Steps]
  BY <1>3 DEF TryLock, Acquire, AcquireFails, AfterBusy, Steps
<1>4. CASE LocksWorkspace(p)
  <2>1. call[p].cwd \in Files BY <1>4 DEF LocksWorkspace, LocksOnTheWay, Files
  <2>2. QED BY <1>3, <1>4, <2>1 DEF LocksWorkspace, Steps
<1>5. CASE LocksThread(p)
  <2>1. call[p].thread \in Files BY <1>5 DEF LocksThread, LocksOnTheWay, Files
  <2>2. QED BY <1>3, <1>5, <2>1 DEF LocksThread, Steps
<1>6. CASE ThreadStarted(p)
  <2>1. PICK t \in Threads : /\ cwdOf' = [cwdOf EXCEPT ![t] = call[p].cwd]
                             /\ call' = [call EXCEPT ![p].thread = t]
    BY <1>6 DEF ThreadStarted
  <2>2. call[p].cwd \in Workspaces BY <1>6 DEF ThreadStarted, LocksOnTheWay, HasWorkspace
  <2>3. cwdOf' \in [Threads -> Workspaces \cup {NoWorkspace}] BY <2>1, <2>2
  <2>4. call' \in [Processes -> Calls] BY <2>1 DEF Calls
  <2>5. pc' \in [Processes -> Steps] BY <1>6 DEF ThreadStarted, Steps
  <2>6. QED BY <1>6, <2>3, <2>4, <2>5 DEF ThreadStarted
<1>7. CASE ThreadRead(p)
  <2>1. call[p].thread \in Threads BY <1>7 DEF ThreadRead, LocksOnTheWay, HasThread
  <2>2. cwdOf[call[p].thread] \in Workspaces \cup {NoWorkspace} BY <2>1
  <2>3. [call[p] EXCEPT !.cwd = cwdOf[call[p].thread]] \in Calls BY <2>2 DEF Calls
  <2>4. call' = [call EXCEPT ![p] = [call[p] EXCEPT !.cwd = cwdOf[call[p].thread]]]
    BY <1>7 DEF ThreadRead
  <2>5. call' \in [Processes -> Calls] BY <2>3, <2>4
  <2>6. pc' \in [Processes -> Steps] BY <1>7 DEF ThreadRead, Steps
  <2>7. QED BY <1>7, <2>5, <2>6 DEF ThreadRead
<1>8. CASE CallRejected(p) \/ TurnSubmitted(p) \/ TurnConfirmed(p) \/ TurnUnconfirmed(p)
  <2>1. pc' \in [Processes -> Steps]
    BY <1>8 DEF CallRejected, TurnSubmitted, TurnConfirmed, TurnUnconfirmed, Steps
  <2>2. turn' \in [Processes -> {"none", "executing", "over"}]
    BY <1>8 DEF CallRejected, TurnSubmitted, TurnConfirmed, TurnUnconfirmed, local
  <2>3. QED
    BY <1>8, <2>1, <2>2 DEF CallRejected, TurnSubmitted, TurnConfirmed, TurnUnconfirmed, local
<1>9. CASE LeaseSettled(p)
  <2>1. pc' \in [Processes -> Steps] BY <1>9 DEF LeaseSettled, Steps
  <2>2. CASE Safe(p) BY <1>9, <2>1, <2>2 DEF LeaseSettled, local
  <2>3. CASE ~Safe(p)
    <3>1. /\ retained' = [retained EXCEPT ![p] = @ \cup lease[p]]
          /\ lease' = [lease EXCEPT ![p] = {}]
          /\ poisoned' = [poisoned EXCEPT ![p] = TRUE]
          /\ UNCHANGED <<call, turn, cwdOf, flock>>
      BY <1>9, <2>3 DEF LeaseSettled
    <3>2. retained' \in [Processes -> SUBSET Files] BY <3>1
    <3>3. lease' \in [Processes -> SUBSET Files] BY <3>1
    <3>4. QED BY <2>1, <3>1, <3>2, <3>3
  <2>4. QED BY <2>2, <2>3
<1>10. CASE LockReleased(p)
  <2>1. PICK f : flock' = Unlocked(f) /\ lease' = [lease EXCEPT ![p] = @ \ {f}]
    BY <1>10 DEF LockReleased
  <2>2. flock' \in [Files -> Processes \cup {NoProcess}] BY <2>1 DEF Unlocked
  <2>3. lease' \in [Processes -> SUBSET Files] BY <2>1
  <2>4. QED BY <1>10, <2>2, <2>3 DEF LockReleased
<1>11. CASE CallEnds(p)
  <2>1. NoCall \in Calls BY DEF NoCall, Calls
  <2>2. pc' \in [Processes -> Steps] BY <1>11 DEF CallEnds, Steps
  <2>3. QED BY <1>11, <2>1, <2>2 DEF CallEnds
<1>12. CASE ProcessEnds(p)
  <2>1. NoCall \in Calls BY DEF NoCall, Calls
  <2>2. pc' \in [Processes -> Steps] BY <1>12 DEF ProcessEnds, Steps
  <2>3. QED BY <1>12, <2>1, <2>2 DEF ProcessEnds
<1>13. CASE ProcessStarts(p)
  <2>1. pc' \in [Processes -> Steps] BY <1>13 DEF ProcessStarts, Steps
  <2>2. QED BY <1>13, <2>1 DEF ProcessStarts, local
<1>14. QED
  BY <1>1, <1>2, <1>4, <1>5, <1>6, <1>7, <1>8, <1>9, <1>10, <1>11, <1>12, <1>13
     DEF Step, Called, Works

\* A step of p leaves every other process its call, its locks and its directory.
LEMMA OthersKeep ==
    ASSUME IInv, NEW p \in Processes, Step(p), NEW q \in Processes \ {p}
    PROVE  /\ pc'[q] = pc[q] /\ call'[q] = call[q] /\ turn'[q] = turn[q]
           /\ lease'[q] = lease[q] /\ retained'[q] = retained[q]
           /\ poisoned'[q] = poisoned[q]
           /\ \A f \in Files : flock'[f] = q <=> flock[f] = q
           /\ \A t \in Threads : cwdOf[t] # NoWorkspace => cwdOf'[t] # NoWorkspace
<1> DEFINE Same == /\ pc'[q] = pc[q] /\ call'[q] = call[q] /\ turn'[q] = turn[q]
                   /\ lease'[q] = lease[q] /\ retained'[q] = retained[q]
                   /\ poisoned'[q] = poisoned[q]
           Locks == \A f \in Files : flock'[f] = q <=> flock[f] = q
           Cwds == \A t \in Threads : cwdOf[t] # NoWorkspace => cwdOf'[t] # NoWorkspace
<1> USE LocksAssumption DEF IInv, TypeOK
<1>1. CASE Called(p) BY <1>1 DEF Called, CodexCalled, ReplyCalled
<1>2. CASE LocksWorkspace(p) \/ LocksThread(p)
  BY <1>2 DEF LocksWorkspace, LocksThread, TryLock, Acquire, AcquireFails, CanLock
<1>3. CASE ThreadStarted(p) BY <1>3 DEF ThreadStarted
<1>4. CASE ThreadRead(p) BY <1>4 DEF ThreadRead
<1>5. CASE CallRejected(p) \/ TurnUnconfirmed(p) \/ ProcessStarts(p)
  BY <1>5 DEF CallRejected, TurnUnconfirmed, ProcessStarts, local
<1>6. CASE TurnSubmitted(p) \/ TurnConfirmed(p)
  BY <1>6 DEF TurnSubmitted, TurnConfirmed
<1>7. CASE LeaseSettled(p) BY <1>7 DEF LeaseSettled, local
<1>8. CASE LockReleased(p)
  <2>1. PICK f \in Newest(p) : /\ flock' = Unlocked(f)
                               /\ lease' = [lease EXCEPT ![p] = @ \ {f}]
    BY <1>8 DEF LockReleased
  <2>2. f \in Held(p) BY <2>1 DEF Newest, Held
  <2>3. f \in Files BY <2>1 DEF Newest
  <2>4. flock[f] = p BY <2>2, <2>3 DEF PInv, LeasesAreLocks
  <2>5. Locks BY <2>1, <2>3, <2>4 DEF Unlocked
  <2>6. Same /\ Cwds BY <1>8, <2>1 DEF LockReleased
  <2>7. QED BY <2>5, <2>6
<1>9. CASE CallEnds(p) BY <1>9 DEF CallEnds
<1>10. CASE ProcessEnds(p) BY <1>10 DEF ProcessEnds
<1>11. QED
  BY <1>1, <1>2, <1>3, <1>4, <1>5, <1>6, <1>7, <1>8, <1>9, <1>10 DEF Step, Works

\* What the locks of q mean survives a step of another process.
LEMMA OtherStep ==
    ASSUME IInv, NEW p \in Processes, Step(p), NEW q \in Processes \ {p}
    PROVE  PInv(q)'
<1>1. PInv(q) /\ call[q] \in Calls BY DEF IInv, TypeOK
<1>2. LeasesAreLocks(q)' BY <1>1, OthersKeep DEF PInv, LeasesAreLocks, Held
<1>3. RetainedPoisons(q)' BY <1>1, OthersKeep DEF PInv, RetainedPoisons
<1>4. HasThread(q) => HasThread(q)' BY OthersKeep DEF HasThread, Held
<1>5. HasWorkspace(q) => HasWorkspace(q)' BY OthersKeep DEF HasWorkspace, Held
<1>6. call[q].thread \in Threads /\ Resumable(q) => Resumable(q)'
  BY OthersKeep DEF Resumable
<1>7. HasThread(q) => call[q].thread \in Threads BY DEF HasThread
<1>8. LocksOnTheWay(q)'
  BY <1>1, <1>4, <1>5, <1>6, <1>7, OthersKeep DEF PInv, LocksOnTheWay
<1>9. QED BY <1>2, <1>3, <1>8 DEF PInv

\* The locks of p are what its lease says after each of its steps.
LEMMA OwnLeases ==
    ASSUME IInv, NEW p \in Processes, Step(p)
    PROVE  LeasesAreLocks(p)'
<1> USE LocksAssumption DEF IInv, TypeOK, PInv, LeasesAreLocks, Held
<1>1. CASE Called(p) BY <1>1 DEF Called, CodexCalled, ReplyCalled
<1>2. CASE LocksWorkspace(p) \/ LocksThread(p)
  BY <1>2 DEF LocksWorkspace, LocksThread, TryLock, Acquire, AcquireFails, CanLock
<1>3. CASE ThreadStarted(p) BY <1>3 DEF ThreadStarted
<1>4. CASE ThreadRead(p) BY <1>4 DEF ThreadRead
<1>5. CASE CallRejected(p) \/ TurnUnconfirmed(p) \/ ProcessStarts(p)
  BY <1>5 DEF CallRejected, TurnUnconfirmed, ProcessStarts, local
<1>6. CASE TurnSubmitted(p) \/ TurnConfirmed(p)
  BY <1>6 DEF TurnSubmitted, TurnConfirmed
<1>7. CASE LeaseSettled(p)
  <2>1. flock' = flock /\ lease'[p] \cup retained'[p] = lease[p] \cup retained[p]
    BY <1>7 DEF LeaseSettled, local
  <2>2. QED BY <2>1
<1>8. CASE LockReleased(p)
  <2>1. PICK f \in Newest(p) : /\ flock' = Unlocked(f)
                               /\ lease' = [lease EXCEPT ![p] = @ \ {f}]
    BY <1>8 DEF LockReleased
  <2>2. f \in Files /\ f \in lease[p] BY <2>1 DEF Newest
  <2>3. retained[p] = {} BY <1>8 DEF LockReleased, RetainedPoisons
  <2>4. retained'[p] = {} /\ lease'[p] = lease[p] \ {f}
    BY <1>8, <2>1, <2>3 DEF LockReleased
  <2>5. QED BY <2>1, <2>2, <2>3, <2>4 DEF Unlocked
<1>9. CASE CallEnds(p) BY <1>9 DEF CallEnds
<1>10. CASE ProcessEnds(p)
  <2>1. \A f \in Files : flock'[f] # p BY <1>10 DEF ProcessEnds
  <2>2. lease'[p] = {} /\ retained'[p] = {} BY <1>10 DEF ProcessEnds
  <2>3. QED BY <2>1, <2>2
<1>11. QED
  BY <1>1, <1>2, <1>3, <1>4, <1>5, <1>6, <1>7, <1>8, <1>9, <1>10 DEF Step, Works

\* p keeps locks past its call only if it takes no further call.
LEMMA OwnPoison ==
    ASSUME IInv, NEW p \in Processes, Step(p)
    PROVE  RetainedPoisons(p)'
<1> USE LocksAssumption DEF IInv, TypeOK, PInv, RetainedPoisons
<1>1. CASE Called(p) BY <1>1 DEF Called, CodexCalled, ReplyCalled
<1>2. CASE LocksWorkspace(p) \/ LocksThread(p)
  BY <1>2 DEF LocksWorkspace, LocksThread, TryLock, Acquire, AcquireFails, AfterBusy
<1>3. CASE ThreadStarted(p) BY <1>3 DEF ThreadStarted
<1>4. CASE ThreadRead(p) BY <1>4 DEF ThreadRead
<1>5. CASE CallRejected(p) \/ TurnUnconfirmed(p)
  BY <1>5 DEF CallRejected, TurnUnconfirmed, local
<1>6. CASE TurnSubmitted(p) \/ TurnConfirmed(p)
  BY <1>6 DEF TurnSubmitted, TurnConfirmed
<1>7. CASE LeaseSettled(p)
  <2>1. CASE Safe(p) BY <1>7, <2>1 DEF LeaseSettled, local
  <2>2. CASE ~Safe(p)
    <3>1. poisoned'[p] /\ pc'[p] = "idle" /\ lease'[p] = {}
      BY <1>7, <2>2 DEF LeaseSettled
    <3>2. QED BY <3>1
  <2>3. QED BY <2>1, <2>2
<1>8. CASE LockReleased(p)
  <2>1. /\ pc' = pc /\ retained' = retained /\ poisoned' = poisoned /\ turn' = turn
        /\ pc[p] = "release"
    BY <1>8 DEF LockReleased
  <2>2. QED BY <2>1
<1>9. CASE CallEnds(p) BY <1>9 DEF CallEnds
<1>10. CASE ProcessEnds(p) BY <1>10 DEF ProcessEnds
<1>11. CASE ProcessStarts(p) BY <1>11 DEF ProcessStarts, LocksOnTheWay, local
<1>12. QED
  BY <1>1, <1>2, <1>3, <1>4, <1>5, <1>6, <1>7, <1>8, <1>9, <1>10, <1>11
     DEF Step, Works

\* p comes to its turn with the locks of its thread and of what it writes.
LEMMA OwnWay ==
    ASSUME IInv, NEW p \in Processes, Step(p)
    PROVE  LocksOnTheWay(p)'
<1> USE LocksAssumption DEF IInv, TypeOK, PInv, LocksOnTheWay, HasThread,
        HasWorkspace, Resumable, Held
<1>1. CASE CodexCalled(p)
  <2>1. PICK write \in BOOLEAN, w \in Workspaces :
            /\ call' = [call EXCEPT ![p] = [tool |-> "codex", write |-> write,
                                            thread |-> NoThread, cwd |-> w]]
            /\ pc' = [pc EXCEPT ![p] = IF write THEN "lockWorkspace" ELSE "start"]
    BY <1>1 DEF CodexCalled
  <2>2. /\ call'[p].tool = "codex" /\ call'[p].write = write /\ call'[p].cwd = w
        /\ pc'[p] = IF write THEN "lockWorkspace" ELSE "start"
    BY <2>1
  <2>3. turn'[p] # "executing" BY <1>1 DEF CodexCalled, RetainedPoisons
  <2>4. QED BY <2>2, <2>3
<1>2. CASE ReplyCalled(p)
  <2>1. PICK write \in BOOLEAN, t \in Threads :
            /\ cwdOf[t] # NoWorkspace
            /\ call' = [call EXCEPT ![p] = [tool |-> "reply", write |-> write,
                                            thread |-> t, cwd |-> NoWorkspace]]
    BY <1>2 DEF ReplyCalled
  <2>2. call'[p].tool = "reply" /\ call'[p].thread = t BY <2>1
  <2>3. pc'[p] = "lockThread" /\ cwdOf' = cwdOf BY <1>2 DEF ReplyCalled
  <2>4. turn'[p] # "executing" BY <1>2 DEF ReplyCalled, RetainedPoisons
  <2>5. QED BY <2>1, <2>2, <2>3, <2>4
<1>3. CASE LocksWorkspace(p)
  BY <1>3 DEF LocksWorkspace, TryLock, Acquire, AcquireFails, AfterBusy
<1>4. CASE LocksThread(p)
  BY <1>4 DEF LocksThread, TryLock, Acquire, AcquireFails, AfterBusy
<1>5. CASE ThreadStarted(p)
  <2>1. PICK t \in Threads : call' = [call EXCEPT ![p].thread = t]
    BY <1>5 DEF ThreadStarted
  <2>2. call[p] \in Calls BY DEF Calls
  <2>3. /\ call'[p].thread = t /\ call'[p].cwd = call[p].cwd
        /\ call'[p].write = call[p].write /\ call'[p].tool = call[p].tool
    BY <2>1, <2>2 DEF Calls
  <2>4. QED BY <1>5, <2>3 DEF ThreadStarted
<1>6. CASE ThreadRead(p)
  <2>1. call[p] \in Calls BY DEF Calls
  <2>2. /\ call'[p].thread = call[p].thread /\ call'[p].write = call[p].write
        /\ call'[p].cwd = cwdOf[call[p].thread]
    BY <1>6, <2>1 DEF ThreadRead, Calls
  <2>3. cwdOf[call[p].thread] \in Workspaces BY <1>6 DEF ThreadRead
  <2>4. QED BY <1>6, <2>2, <2>3 DEF ThreadRead
<1>7. CASE CallRejected(p) \/ TurnUnconfirmed(p) \/ ProcessStarts(p)
  BY <1>7 DEF CallRejected, TurnUnconfirmed, ProcessStarts, local
<1>8. CASE TurnSubmitted(p) \/ TurnConfirmed(p)
  BY <1>8 DEF TurnSubmitted, TurnConfirmed
<1>9. CASE LeaseSettled(p)
  <2>1. CASE Safe(p) BY <1>9, <2>1 DEF LeaseSettled, Safe, local
  <2>2. CASE ~Safe(p)
    <3>1. /\ pc'[p] = "idle" /\ call'[p] = call[p] /\ turn'[p] = turn[p]
          /\ lease'[p] \cup retained'[p] = Held(p)
      BY <1>9, <2>2 DEF LeaseSettled
    <3>2. QED BY <2>2, <3>1 DEF Safe
  <2>3. QED BY <2>1, <2>2
<1>10. CASE LockReleased(p)
  <2>1. pc' = pc /\ turn' = turn /\ pc[p] = "release" BY <1>10 DEF LockReleased
  <2>2. QED BY <2>1
<1>11. CASE CallEnds(p) BY <1>11 DEF CallEnds
<1>12. CASE ProcessEnds(p) BY <1>12 DEF ProcessEnds
<1>13. QED
  BY <1>1, <1>2, <1>3, <1>4, <1>5, <1>6, <1>7, <1>8, <1>9, <1>10, <1>11, <1>12
     DEF Step, Called, Works

\* The invariant is inductive.
LEMMA Inductive == IInv /\ [Next]_vars => IInv'
<1> SUFFICES ASSUME IInv, [Next]_vars PROVE IInv' OBVIOUS
<1>1. CASE Next
  <2>1. PICK p \in Processes : Step(p) BY <1>1 DEF Next, Step
  <2>2. PInv(p)' BY <2>1, OwnLeases, OwnPoison, OwnWay DEF PInv
  <2>3. \A q \in Processes \ {p} : PInv(q)' BY <2>1, OtherStep
  <2>4. QED BY <2>1, <2>2, <2>3, TypeStep DEF IInv
<1>2. CASE UNCHANGED vars
  BY <1>2 DEF vars, local, IInv, TypeOK, PInv, LeasesAreLocks, RetainedPoisons,
      LocksOnTheWay, HasThread, HasWorkspace, Resumable, Held
<1>3. QED BY <1>1, <1>2

LEMMA InvariantHolds == Spec => []IInv
BY InitInv, Inductive, PTL DEF Spec

\* Every variable has its type in every reachable state.
THEOREM LocksTypeCorrect == Spec => []TypeOK
<1>1. IInv => TypeOK BY DEF IInv
<1>2. QED BY <1>1, InvariantHolds, PTL

\* Two turns that may be executing hold their files, and a file has one holder:
\* _settle_lease keeps the locks of a turn whose end nothing confirms.
THEOREM TurnsExcluded == Spec => []TurnsExclusive
<1>1. IInv => TurnsExclusive
  <2> SUFFICES ASSUME IInv, NEW p \in Processes, NEW q \in Processes, p # q,
                      turn[p] = "executing", turn[q] = "executing"
               PROVE  ~Conflict(p, q)
    BY DEF TurnsExclusive
  <2>1. \A f \in Files : ~(f \in Held(p) /\ f \in Held(q))
    BY DEF IInv, PInv, LeasesAreLocks
  <2>2. HasThread(p) /\ HasThread(q) /\ HasWorkspace(p) /\ HasWorkspace(q)
    BY DEF IInv, PInv, LocksOnTheWay
  <2>3. QED BY <2>1, <2>2 DEF HasThread, HasWorkspace, Conflict, Files
<1>2. QED BY <1>1, InvariantHolds, PTL

\* Between two calls a process has locked what _retained_leases holds and no more,
\* whichever acquisition of the last call failed.
THEOREM NothingLeaked == Spec => []NothingLeaks
<1>1. IInv => NothingLeaks
  <2> SUFFICES ASSUME IInv, NEW p \in Processes, pc[p] = "idle"
               PROVE  {f \in Files : flock[f] = p} = retained[p]
    BY DEF NothingLeaks
  <2>1. lease[p] = {} /\ retained[p] \subseteq Files
    BY DEF IInv, TypeOK, PInv, RetainedPoisons
  <2>2. \A f \in Files : flock[f] = p <=> f \in retained[p]
    BY <2>1 DEF IInv, PInv, LeasesAreLocks, Held
  <2>3. QED BY <2>1, <2>2
<1>2. QED BY <1>1, InvariantHolds, PTL
=============================================================================
