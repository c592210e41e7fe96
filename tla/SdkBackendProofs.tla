--------------------------- MODULE SdkBackendProofs ---------------------------
(***************************************************************************)
(* However many clients and RPCs there are: the types of the adapter, what *)
(* close() leaves behind, and what becomes of the children.                *)
(***************************************************************************)
EXTENDS SdkBackend, FiniteSetTheorems, TLAPS

-----------------------------------------------------------------------------
(* Queues of jobs *)

In(q, job) == \E i \in DOMAIN q : q[i] = job

\* No job waits twice, but for those of the kinds in K; and none that concerns a
\* client.
OnceBut(q, K) == \A i, j \in DOMAIN q : q[i] = q[j] /\ q[i][1] \notin K => i = j
Once(q) == OnceBut(q, {"rpc"})

LEMMA Submitted ==
    ASSUME NEW q \in Seq(Jobs), NEW job \in Jobs
    PROVE  /\ Append(q, job) \in Seq(Jobs)
           /\ \A other : In(Append(q, job), other) <=> In(q, other) \/ other = job
           /\ \A K : OnceBut(q, K) /\ (job[1] \in K \/ ~In(q, job)) =>
                        OnceBut(Append(q, job), K)
           /\ Once(q) /\ (job[1] = "rpc" \/ ~In(q, job)) => Once(Append(q, job))
<1>1. /\ Append(q, job) \in Seq(Jobs)
      /\ DOMAIN Append(q, job) = DOMAIN q \cup {Len(q) + 1}
      /\ Append(q, job)[Len(q) + 1] = job
      /\ \A i \in DOMAIN q : Append(q, job)[i] = q[i]
  OBVIOUS
<1> HIDE DEF Jobs
<1>2. \A other : In(Append(q, job), other) <=> In(q, other) \/ other = job
  BY <1>1 DEF In
<1>3. ASSUME NEW K, OnceBut(q, K), job[1] \in K \/ ~In(q, job)
      PROVE  OnceBut(Append(q, job), K)
  BY <1>1, <1>3 DEF OnceBut, In
<1> QED
  BY <1>1, <1>2, <1>3 DEF Once

LEMMA Served ==
    ASSUME NEW q \in Seq(Jobs), q # <<>>
    PROVE  /\ Head(q) \in Jobs /\ Tail(q) \in Seq(Jobs)
           /\ In(q, Head(q))
           /\ \A job : In(Tail(q), job) => In(q, job)
           /\ \A K : OnceBut(q, K) =>
                /\ OnceBut(Tail(q), K)
                /\ Head(q)[1] \notin K => ~In(Tail(q), Head(q))
           /\ Once(q) => Once(Tail(q)) /\ (Head(q)[1] # "rpc" => ~In(Tail(q), Head(q)))
<1>1. /\ Head(q) \in Jobs /\ Tail(q) \in Seq(Jobs)
      /\ 1 \in DOMAIN q /\ Head(q) = q[1]
      /\ DOMAIN q = 1..Len(q) /\ Len(q) \in Nat
      /\ DOMAIN Tail(q) = 1..(Len(q) - 1)
      /\ \A i \in DOMAIN Tail(q) : Tail(q)[i] = q[i + 1]
  OBVIOUS
<1>2. \A i \in DOMAIN Tail(q) : i + 1 \in DOMAIN q /\ i + 1 # 1
  BY <1>1
<1>3. \A job : In(Tail(q), job) => In(q, job)
  BY <1>1, <1>2 DEF In
<1>4. ASSUME NEW K, OnceBut(q, K), NEW i \in DOMAIN Tail(q), NEW j \in DOMAIN Tail(q),
             Tail(q)[i] = Tail(q)[j], Tail(q)[i][1] \notin K
      PROVE  i = j
  <2>1. q[i + 1] = q[j + 1] /\ q[i + 1][1] \notin K
    BY <1>1, <1>4
  <2>2. i + 1 = j + 1
    BY <1>2, <1>4, <2>1 DEF OnceBut
  <2> QED BY <1>1, <2>2
<1>5. ASSUME NEW K, OnceBut(q, K), Head(q)[1] \notin K, In(Tail(q), Head(q)) PROVE FALSE
  <2>1. PICK i \in DOMAIN Tail(q) : Tail(q)[i] = Head(q)
    BY <1>5 DEF In
  <2> QED BY <1>1, <1>2, <1>5, <2>1 DEF OnceBut
<1>6. ASSUME NEW K, OnceBut(q, K)
      PROVE  OnceBut(Tail(q), K) /\ (Head(q)[1] \notin K => ~In(Tail(q), Head(q)))
  BY <1>4, <1>5, <1>6 DEF OnceBut
<1>7. In(q, Head(q))
  BY <1>1 DEF In
<1> QED
  BY <1>1, <1>3, <1>6, <1>7 DEF Once

LEMMA Removed ==
    ASSUME NEW q \in Seq(Jobs), NEW n \in DOMAIN q
    PROVE  /\ RemoveAt(q, n) \in Seq(Jobs)
           /\ \A job : In(RemoveAt(q, n), job) => In(q, job)
           /\ \A K : OnceBut(q, K) => /\ OnceBut(RemoveAt(q, n), K)
                                      /\ q[n][1] \notin K => ~In(RemoveAt(q, n), q[n])
<1> DEFINE r == RemoveAt(q, n)
           From(i) == IF i < n THEN i ELSE i + 1
<1>1. r \in Seq(Jobs)
  BY DEF RemoveAt
<1>2. DOMAIN r = 1..(Len(q) - 1) /\ DOMAIN q = 1..Len(q) /\ Len(q) \in Nat /\ n \in 1..Len(q)
  BY DEF RemoveAt
<1>3. \A i \in DOMAIN r : r[i] = q[From(i)]
  <2> DEFINE a == SubSeq(q, 1, n - 1)
             b == SubSeq(q, n + 1, Len(q))
  <2>1. /\ a \in Seq(Jobs) /\ Len(a) = n - 1 /\ \A i \in 1..(n - 1) : a[i] = q[i]
        /\ b \in Seq(Jobs) /\ Len(b) = Len(q) - n
        /\ \A i \in 1..(Len(q) - n) : b[i] = q[n + i]
    BY <1>2
  <2>2. r = a \o b
    BY DEF RemoveAt
  <2> HIDE DEF a, b, r
  <2>3. \A i \in 1..(Len(q) - 1) : (a \o b)[i] = IF i < n THEN a[i] ELSE b[i - (n - 1)]
    BY <1>2, <2>1
  <2>4. ASSUME NEW i \in 1..(Len(q) - 1) PROVE (a \o b)[i] = q[From(i)]
    <3>1. CASE i < n
      BY <1>2, <2>1, <2>3, <3>1
    <3>2. CASE ~(i < n)
      <4>1. i - (n - 1) \in 1..(Len(q) - n) /\ n + (i - (n - 1)) = i + 1
        BY <1>2, <3>2
      <4>2. b[i - (n - 1)] = q[i + 1]
        BY <2>1, <4>1
      <4> QED BY <2>3, <3>2, <4>2
    <3> QED BY <3>1, <3>2
  <2> QED BY <1>2, <2>2, <2>4
<1>4. \A i \in DOMAIN r : From(i) \in DOMAIN q /\ From(i) # n
  BY <1>2
<1>5. \A i, j \in DOMAIN r : From(i) = From(j) => i = j
  BY <1>2
<1> HIDE DEF r, From
<1>6. \A job : In(r, job) => In(q, job)
  BY <1>3, <1>4 DEF In
<1>7. ASSUME NEW K, OnceBut(q, K) PROVE OnceBut(r, K)
  BY <1>3, <1>4, <1>5, <1>7 DEF OnceBut
<1>8. ASSUME NEW K, OnceBut(q, K), q[n][1] \notin K, In(r, q[n]) PROVE FALSE
  <2>1. PICK i \in DOMAIN r : r[i] = q[n]
    BY <1>8 DEF In
  <2> QED BY <1>3, <1>4, <1>8, <2>1 DEF OnceBut
<1> QED
  BY <1>1, <1>6, <1>7, <1>8 DEF r

\* wait_for takes the job out of the queue, if no thread has it.
LEMMA Withdrawn ==
    ASSUME queue \in Seq(Jobs), NEW job, Withdraw(job)
    PROVE  /\ queue' \in Seq(Jobs)
           /\ \A other : In(queue', other) => In(queue, other)
           /\ \A K : OnceBut(queue, K) => /\ OnceBut(queue', K)
                                          /\ job[1] \notin K => ~In(queue', job)
           /\ Once(queue) => Once(queue') /\ (job[1] # "rpc" => ~In(queue', job))
<1>1. CASE Queued(job)
  <2>1. PICK i \in DOMAIN queue : queue[i] = job /\ queue' = RemoveAt(queue, i)
    BY <1>1 DEF Withdraw
  <2> QED BY <2>1, Removed DEF Once
<1>2. CASE ~Queued(job)
  <2>1. queue' = queue /\ ~In(queue, job)
    BY <1>2 DEF Withdraw, Queued, In
  <2> QED BY <2>1
<1> QED
  BY <1>1, <1>2

-----------------------------------------------------------------------------
(* Types *)

FieldTypes ==
    /\ state \in States /\ unsupported \in BOOLEAN /\ aborted \in BOOLEAN
    /\ client \in ClientOrNone /\ pending \in ClientOrNone /\ shut \in BOOLEAN
    /\ registered \subseteq Clients
    /\ future \in [Clients -> FutureStates]
StarterType == [pc : {"idle", "staleClosing", "starting", "closing"}, on : ClientOrNone]
\* A call that waits for a close has a client to close.
CloserType ==
    {r \in [pc : {"idle", "waiting", "entering", "snapshot", "next", "closing", "restore"},
            pending : ClientOrNone, client : ClientOrNone,
            todo : Seq(Clients), confirmed : SUBSET Clients] :
        r.pc = "closing" => r.todo # <<>>}
RpcType == [pc : {"idle", "waiting", "abandoned", "broken"}, on : ClientOrNone]
TaskTypes ==
    /\ starter \in StarterType
    /\ closer \in [Closers -> CloserType]
    /\ rpc \in [Rpcs -> RpcType]
PoolTypes ==
    /\ queue \in Seq(Jobs) /\ busy \in SUBSET Jobs
    /\ IsFiniteSet(busy) /\ Cardinality(busy) <= MaxWorkers
ThreadTypes == worker \in [Clients -> WorkerStates] /\ stale \in FutureStates
SdkTypes ==
    /\ ref \in [Clients -> {"held", "close", "stale", "gone"}]
    /\ child \in [Clients -> {"none", "alive", "dead"}]

Types == FieldTypes /\ TaskTypes /\ PoolTypes /\ ThreadTypes /\ SdkTypes

LEMMA TypesAre == Types => TypeOK
  BY DEF Types, FieldTypes, TaskTypes, PoolTypes, ThreadTypes, SdkTypes, TypeOK,
     StarterType, CloserType, RpcType

LEMMA TypesInitially == Init => Types
<1> SUFFICES ASSUME Init PROVE Types
  OBVIOUS
<1>1. FieldTypes
  BY DEF Init, FieldTypes, States, ClientOrNone, FutureStates
<1>2. IdleCloser \in CloserType /\ IdleRpc \in RpcType /\ IdleStarter \in StarterType
  <2>1. <<>> \in Seq(Clients)
    OBVIOUS
  <2> QED BY <2>1 DEF IdleCloser, CloserType, IdleRpc, RpcType, IdleStarter, StarterType,
                     ClientOrNone
<1>3. TaskTypes
  BY <1>2 DEF Init, TaskTypes
<1>4. queue \in Seq(Jobs)
  <2>1. queue = <<>>
    BY DEF Init
  <2> QED BY <2>1
<1>5. PoolTypes
  BY <1>4, FS_EmptySet DEF Init, PoolTypes, MaxWorkers
<1>6. ThreadTypes /\ SdkTypes
  BY DEF Init, ThreadTypes, SdkTypes, WorkerStates, FutureStates
<1> QED
  BY <1>1, <1>3, <1>5, <1>6 DEF Types

LEMMA JobsOf ==
    /\ \A c \in Clients : /\ <<"start", c>> \in Jobs /\ <<"close", c>> \in Jobs
                          /\ <<"stale", c>> \in Jobs
    /\ \A i \in Rpcs : <<"rpc", i>> \in Jobs
    /\ \A job \in Jobs :
          /\ job[1] \in {"start", "close", "stale", "rpc"}
          /\ job[1] # "rpc" => job[2] \in Clients /\ job = <<job[1], job[2]>>
          /\ job[1] = "rpc" => job[2] \in Rpcs /\ job = <<job[1], job[2]>>
  BY DEF Jobs

\* The callers of close() are typed one at a time.
LEMMA CallerTyped ==
    ASSUME TaskTypes, NEW k \in Closers, NEW r \in CloserType,
           closer' = [closer EXCEPT ![k] = r]
    PROVE  closer' \in [Closers -> CloserType]
  BY DEF TaskTypes

LEMMA IdleTyped ==
    /\ IdleCloser \in CloserType /\ IdleRpc \in RpcType /\ IdleStarter \in StarterType
<1>1. <<>> \in Seq(Clients)
  OBVIOUS
<1> QED BY <1>1 DEF IdleCloser, CloserType, IdleRpc, RpcType, IdleStarter, StarterType,
                   ClientOrNone

LEMMA CallTyped ==
    ASSUME TaskTypes, NEW k \in Closers, Call(k)
    PROVE  closer' \in [Closers -> CloserType]
<1>1. PICK pc \in {"entering", "waiting"} : closer' = [closer EXCEPT ![k].pc = pc]
  BY DEF Call
<1>2. [closer[k] EXCEPT !.pc = pc] \in CloserType
  BY DEF TaskTypes, CloserType
<1>3. closer' = [closer EXCEPT ![k] = [closer[k] EXCEPT !.pc = pc]]
  BY <1>1
<1> QED
  BY <1>2, <1>3, CallerTyped

LEMMA ReturnTyped ==
    ASSUME TaskTypes, NEW k \in Closers, Return(k)
    PROVE  closer' \in [Closers -> CloserType] /\ starter' \in StarterType
  BY CallerTyped, IdleTyped DEF Return, TaskTypes

\* Jobs come and go; only threads that take one add to those at work.
LEMMA PoolTyped ==
    ASSUME PoolTypes, queue' \in Seq(Jobs), NEW gone, busy' = busy \ gone
    PROVE  PoolTypes'
<1>1. IsFiniteSet(busy) /\ Cardinality(busy) <= MaxWorkers
  BY DEF PoolTypes
<1>2. IsFiniteSet(busy \ gone) /\ Cardinality(busy \ gone) <= Cardinality(busy)
  BY <1>1, FS_Subset
<1>3. Cardinality(busy) \in Nat /\ Cardinality(busy \ gone) \in Nat
  BY <1>1, <1>2, FS_CardinalityType
<1>4. Cardinality(busy') <= MaxWorkers /\ IsFiniteSet(busy')
  BY <1>1, <1>2, <1>3 DEF MaxWorkers
<1> QED
  BY <1>4 DEF PoolTypes

LEMMA SamePool ==
    ASSUME PoolTypes, queue' \in Seq(Jobs), busy' = busy
    PROVE  PoolTypes'
  BY DEF PoolTypes

LEMMA TakenTyped ==
    ASSUME PoolTypes, NEW kind, Take(kind), busy' = busy \cup {Head(queue)}
    PROVE  PoolTypes'
<1>1. Head(queue) \in Jobs /\ queue' \in Seq(Jobs)
  BY Served DEF Take, PoolTypes
<1>2. IsFiniteSet(busy) /\ Cardinality(busy) \in Nat /\ Cardinality(busy) < 2
  BY FS_CardinalityType DEF PoolTypes, Take, MaxWorkers
<1>3. IsFiniteSet(busy \cup {Head(queue)})
  BY <1>2, FS_AddElement
<1>4. \/ Cardinality(busy \cup {Head(queue)}) = Cardinality(busy)
      \/ Cardinality(busy \cup {Head(queue)}) = Cardinality(busy) + 1
  <2>1. CASE Head(queue) \in busy
    <3>1. busy \cup {Head(queue)} = busy
      BY <2>1
    <3> QED BY <3>1
  <2>2. CASE Head(queue) \notin busy
    BY <1>2, <2>2, FS_AddElement
  <2> QED BY <2>1, <2>2
<1> QED
  BY <1>1, <1>2, <1>3, <1>4 DEF PoolTypes, MaxWorkers

\* A close is registered.
LEMMA AskTyped ==
    ASSUME Types, NEW c \in Clients, Ask(c)
    PROVE  future' \in [Clients -> FutureStates] /\ queue' \in Seq(Jobs)
<1>1. queue \in Seq(Jobs) /\ future \in [Clients -> FutureStates]
  BY DEF Types, PoolTypes, FieldTypes
<1>2. <<"close", c>> \in Jobs
  BY JobsOf
<1>3. queue' \in Seq(Jobs)
  BY <1>1, <1>2, Submitted DEF Ask
<1> QED
  BY <1>1, <1>3 DEF Ask, FutureStates

LEMMA WorkerTyped ==
    ASSUME ThreadTypes, NEW c \in Clients, NEW from, NEW to \in WorkerStates,
           Worker(c, from, to)
    PROVE  /\ worker' \in [Clients -> WorkerStates]
           /\ \E gone : busy' = busy \ gone
<1>1. worker' \in [Clients -> WorkerStates]
  BY DEF Worker, ThreadTypes
<1>2. busy' = busy \ {<<"start", c>>} \/ busy' = busy \ {}
  BY DEF Worker
<1> QED
  BY <1>1, <1>2

\* The groups of variables that a step leaves alone keep their types.
LEMMA SameTypes ==
    ASSUME Types
    PROVE  /\ UNCHANGED adapter => FieldTypes'
           /\ UNCHANGED tasks => TaskTypes'
           /\ UNCHANGED pool => PoolTypes'
           /\ UNCHANGED threads => ThreadTypes'
           /\ UNCHANGED sdk => SdkTypes'
  BY DEF Types, FieldTypes, TaskTypes, PoolTypes, ThreadTypes, SdkTypes, adapter, flags,
     owned, tasks, pool, threads, sdk

LEMMA StarterTypes ==
    ASSUME Types,
           \/ \E c \in Clients : StartRequested(c) \/ StaleClosed(c)
           \/ StaleFailed \/ StaleCancelled \/ Started \/ StartFails \/ StartGivenUp
    PROVE  Types'
<1> USE DEF Types
<1>1. ASSUME NEW c \in Clients, StartRequested(c) PROVE Types'
  <2>1. FieldTypes'
    BY <1>1 DEF StartRequested, FieldTypes, States, owned
  <2>2. TaskTypes'
    BY <1>1 DEF StartRequested, TaskTypes, StarterType, Submit, ClientOrNone
  <2>3. queue' \in Seq(Jobs)
    <3>1. Append(queue, <<"stale", c>>) \in Seq(Jobs) /\ Append(queue, <<"start", c>>) \in Seq(Jobs)
      BY JobsOf, Submitted DEF PoolTypes
    <3> QED BY <1>1, <3>1 DEF StartRequested, Submit
  <2>4. PoolTypes'
    BY <1>1, <2>3, SamePool DEF StartRequested
  <2>5. ThreadTypes'
    BY <1>1 DEF StartRequested, Submit, ThreadTypes, WorkerStates, FutureStates
  <2>6. SdkTypes'
    BY <1>1, SameTypes DEF StartRequested, sdk
  <2> QED BY <2>1, <2>2, <2>4, <2>5, <2>6
<1>2. ASSUME NEW c \in Clients, StaleClosed(c) PROVE Types'
  <2>1. FieldTypes'
    BY <1>2 DEF StaleClosed, FieldTypes, States, flags, ClientOrNone
  <2>2. TaskTypes'
    <3>1. closer' \in [Closers -> CloserType]
      BY <1>2, CallTyped DEF StaleClosed, CleanUp, TaskTypes, Closers
    <3>2. starter' \in StarterType /\ rpc' = rpc
      BY <1>2 DEF StaleClosed, Submit, CleanUp, StarterType, ClientOrNone
    <3> QED BY <3>1, <3>2 DEF TaskTypes
  <2>3. queue' \in Seq(Jobs)
    <3>1. Append(queue, <<"start", c>>) \in Seq(Jobs)
      BY JobsOf, Submitted DEF PoolTypes
    <3> QED BY <1>2, <3>1 DEF StaleClosed, Submit, PoolTypes
  <2>4. PoolTypes'
    BY <1>2, <2>3, SamePool DEF StaleClosed
  <2>5. ThreadTypes'
    BY <1>2 DEF StaleClosed, Submit, ThreadTypes, WorkerStates
  <2>6. SdkTypes'
    BY <1>2, SameTypes DEF StaleClosed, sdk
  <2> QED BY <2>1, <2>2, <2>4, <2>5, <2>6
<1>3. CASE StaleFailed
  <2>1. FieldTypes'
    BY <1>3 DEF StaleFailed, FieldTypes, TaskTypes, StarterType, States, flags
  <2>2. TaskTypes'
    BY <1>3, IdleTyped DEF StaleFailed, TaskTypes
  <2> QED BY <1>3, <2>1, <2>2, SameTypes DEF StaleFailed, executor
<1>4. CASE StaleCancelled
  <2>1. TaskTypes'
    BY <1>4, IdleTyped DEF StaleCancelled, TaskTypes
  <2>2. PoolTypes'
    BY <1>4, Withdrawn, SamePool DEF StaleCancelled, PoolTypes
  <2> QED BY <1>4, <2>1, <2>2, SameTypes DEF StaleCancelled
<1>5. CASE Started
  <2>1. FieldTypes'
    BY <1>5 DEF Started, FieldTypes, States, flags, owned
  <2>2. TaskTypes'
    BY <1>5, IdleTyped DEF Started, TaskTypes
  <2> QED BY <1>5, <2>1, <2>2, SameTypes DEF Started, executor
<1>6. CASE StartFails \/ StartGivenUp
  <2>1. FieldTypes'
    BY <1>6 DEF StartFails, StartGivenUp, Failing, FieldTypes, States, flags, owned
  <2>2. TaskTypes'
    <3>1. closer' \in [Closers -> CloserType]
      BY <1>6, CallTyped DEF StartFails, StartGivenUp, CleanUp, Closers
    <3>2. starter' \in StarterType /\ rpc' = rpc
      BY <1>6 DEF StartFails, StartGivenUp, CleanUp, StarterType, ClientOrNone
    <3> QED BY <3>1, <3>2 DEF TaskTypes
  <2>3. PoolTypes'
    BY <1>6, Withdrawn, SamePool, SameTypes DEF StartFails, StartGivenUp, PoolTypes, executor
  <2>4. ThreadTypes'
    BY <1>6 DEF StartFails, StartGivenUp, ThreadTypes, WorkerStates, executor, threads
  <2>5. SdkTypes'
    BY <1>6, SameTypes DEF StartFails, StartGivenUp
  <2> QED BY <2>1, <2>2, <2>3, <2>4, <2>5
<1> QED
  BY <1>1, <1>2, <1>3, <1>4, <1>5, <1>6

LEMMA CloseTypes ==
    ASSUME Types,
           \/ CloseCalled
           \/ \E k \in Closers :
                \/ CloseEnters(k) \/ CloseSnapshots(k) \/ CloseAsks(k) \/ CloseHears(k)
                \/ CloseStops(k) \/ CloseFails(k) \/ CloseCancelled(k) \/ CloseRestores(k)
    PROVE  Types'
<1> USE DEF Types
<1>0. \A k \in Closers : closer[k] \in CloserType
  BY DEF TaskTypes
<1>1. CASE CloseCalled
  <2>1. closer' \in [Closers -> CloserType]
    BY <1>1, CallTyped DEF CloseCalled, Closers
  <2>2. TaskTypes'
    BY <1>1, <2>1 DEF CloseCalled, TaskTypes
  <2> QED BY <1>1, <2>2, SameTypes DEF CloseCalled, executor
<1>2. ASSUME NEW k \in Closers, CloseEnters(k) PROVE Types'
  <2>1. FieldTypes'
    BY <1>2 DEF CloseEnters, FieldTypes, States, flags, owned
  <2>2. [closer[k] EXCEPT !.pc = "snapshot"] \in CloserType
    BY <1>0 DEF CloserType
  <2>3. CASE state = "STOP_FAILED"
    BY <1>2, <2>1, <2>3, ReturnTyped, SameTypes DEF CloseEnters, executor, TaskTypes
  <2>4. CASE state # "STOP_FAILED"
    <3>1. closer' = [closer EXCEPT ![k] = [closer[k] EXCEPT !.pc = "snapshot"]]
      BY <1>2, <2>4 DEF CloseEnters
    <3>2. TaskTypes'
      BY <1>2, <2>2, <2>4, <3>1, CallerTyped DEF CloseEnters, TaskTypes
    <3> QED BY <1>2, <2>1, <3>2, SameTypes DEF CloseEnters, executor
  <2> QED BY <2>3, <2>4
<1>3. ASSUME NEW k \in Closers, CloseSnapshots(k) PROVE Types'
  <2>1. FieldTypes'
    BY <1>3 DEF CloseSnapshots, FieldTypes, ClientOrNone
  <2> DEFINE todo == Present(pending) \o Present(client)
             taken == [pc |-> "next", pending |-> pending, client |-> client,
                       todo |-> todo, confirmed |-> {}]
  <2>2. \A c \in ClientOrNone : Present(c) \in Seq(Clients)
    BY DEF Present, ClientOrNone
  <2>3. todo \in Seq(Clients)
    BY <2>2 DEF FieldTypes
  <2> HIDE DEF todo
  <2>4. taken \in CloserType
    BY <2>3 DEF CloserType, FieldTypes
  <2>5. closer' = [closer EXCEPT ![k] = taken]
    BY <1>3 DEF CloseSnapshots, todo
  <2>6. TaskTypes'
    BY <1>3, <2>4, <2>5, CallerTyped DEF CloseSnapshots, TaskTypes
  <2> QED BY <1>3, <2>1, <2>6, SameTypes DEF CloseSnapshots, executor
<1>4. ASSUME NEW k \in Closers, CloseAsks(k) PROVE Types'
  <2>1. Head(closer[k].todo) \in Clients /\ Tail(closer[k].todo) \in Seq(Clients)
    BY <1>0, <1>4 DEF CloseAsks, CloserType
  <2>2. future' \in [Clients -> FutureStates] /\ queue' \in Seq(Jobs)
    BY <1>4, <2>1, AskTyped DEF CloseAsks, FieldTypes, PoolTypes
  <2>3. \E r \in {[closer[k] EXCEPT !.pc = "closing"],
                  [closer[k] EXCEPT !.todo = Tail(closer[k].todo)]} :
            closer' = [closer EXCEPT ![k] = r]
    BY <1>4 DEF CloseAsks
  <2>4. /\ [closer[k] EXCEPT !.pc = "closing"] \in CloserType
        /\ [closer[k] EXCEPT !.todo = Tail(closer[k].todo)] \in CloserType
    BY <1>0, <1>4, <2>1 DEF CloserType, CloseAsks
  <2>5. TaskTypes'
    BY <1>4, <2>3, <2>4, CallerTyped DEF CloseAsks, TaskTypes
  <2>6. FieldTypes'
    BY <1>4, <2>2 DEF CloseAsks, FieldTypes, flags, owned
  <2>7. PoolTypes'
    BY <1>4, <2>2, SamePool DEF CloseAsks
  <2> QED BY <1>4, <2>5, <2>6, <2>7, SameTypes DEF CloseAsks
<1>5. ASSUME NEW k \in Closers, CloseHears(k) PROVE Types'
  <2> DEFINE c == Head(closer[k].todo)
             done == IF StopConfirmed(c) THEN closer[k].confirmed \cup {c}
                     ELSE closer[k].confirmed
             heard == [closer[k] EXCEPT !.pc = "next", !.todo = Tail(closer[k].todo),
                                        !.confirmed = done]
  <2>1. closer' = [closer EXCEPT ![k] = heard]
    BY <1>5 DEF CloseHears
  <2>2. heard \in CloserType
    <3>1. c \in Clients /\ Tail(closer[k].todo) \in Seq(Clients)
      <4>1. closer[k].todo # <<>>
        BY <1>0, <1>5 DEF CloserType, CloseHears
      <4> QED BY <1>0, <4>1 DEF CloserType
    <3>2. done \in SUBSET Clients
      BY <1>0, <3>1 DEF CloserType
    <3> QED BY <1>0, <3>1, <3>2 DEF CloserType
  <2>3. TaskTypes'
    BY <1>5, <2>1, <2>2, CallerTyped DEF CloseHears, TaskTypes
  <2> QED BY <1>5, <2>3, SameTypes DEF CloseHears, executor
<1>6. ASSUME NEW k \in Closers, CloseStops(k) PROVE Types'
  <2>1. FieldTypes'
    BY <1>6 DEF CloseStops, FieldTypes, States, owned, FutureStates
  <2>2. TaskTypes'
    BY <1>6, ReturnTyped DEF CloseStops, TaskTypes
  <2> QED BY <1>6, <2>1, <2>2, SameTypes DEF CloseStops, executor
<1>7. ASSUME NEW k \in Closers,
             CloseFails(k) \/ (CloseCancelled(k) /\ closer[k].pc = "closing")
      PROVE  Types'
  <2>1. [closer[k] EXCEPT !.pc = "restore"] \in CloserType
    BY <1>0 DEF CloserType
  <2>2. closer' = [closer EXCEPT ![k] = [closer[k] EXCEPT !.pc = "restore"]]
    BY <1>7 DEF CloseFails, CloseCancelled
  <2>3. TaskTypes'
    BY <1>7, <2>1, <2>2, CallerTyped DEF CloseFails, CloseCancelled, TaskTypes
  <2> QED BY <1>7, <2>3, SameTypes DEF CloseFails, CloseCancelled, executor
<1>8. ASSUME NEW k \in Closers, CloseCancelled(k), closer[k].pc # "closing" PROVE Types'
  <2>1. TaskTypes'
    BY <1>8, ReturnTyped DEF CloseCancelled, TaskTypes
  <2> QED BY <1>8, <2>1, SameTypes DEF CloseCancelled, executor
<1>9. ASSUME NEW k \in Closers, CloseRestores(k) PROVE Types'
  <2>1. /\ Restored(k, closer[k].pending, pending) \in ClientOrNone
        /\ Restored(k, closer[k].client, client) \in ClientOrNone
    BY <1>0 DEF Restored, FieldTypes, CloserType
  <2>2. FieldTypes'
    BY <1>9, <2>1 DEF CloseRestores, FieldTypes, States, flags
  <2>3. TaskTypes'
    BY <1>9, ReturnTyped DEF CloseRestores, TaskTypes
  <2> QED BY <1>9, <2>2, <2>3, SameTypes DEF CloseRestores, executor
<1> QED
  BY <1>1, <1>2, <1>3, <1>4, <1>5, <1>6, <1>7, <1>8, <1>9

LEMMA RpcTypes ==
    ASSUME Types,
           \/ DrainEnds
           \/ \E i \in Rpcs :
                RpcCalled(i) \/ RpcTimesOut(i) \/ RpcCancelled(i) \/ RpcFails(i)
    PROVE  Types'
<1> USE DEF Types
<1>1. CASE DrainEnds
  <2>1. FieldTypes'
    BY <1>1 DEF DrainEnds, FieldTypes, States, flags, owned
  <2> QED BY <1>1, <2>1, SameTypes DEF DrainEnds, executor
<1>2. ASSUME NEW i \in Rpcs, RpcCalled(i) PROVE Types'
  <2>1. TaskTypes'
    BY <1>2 DEF RpcCalled, TaskTypes, RpcType, FieldTypes
  <2>2. queue' \in Seq(Jobs)
    BY <1>2, JobsOf, Submitted DEF RpcCalled, PoolTypes
  <2>3. PoolTypes'
    BY <1>2, <2>2, SamePool DEF RpcCalled
  <2> QED BY <1>2, <2>1, <2>3, SameTypes DEF RpcCalled
<1>3. ASSUME NEW i \in Rpcs, Abandon(i), busy' = busy
      PROVE  PoolTypes' /\ rpc' \in [Rpcs -> RpcType]
  <2>1. PoolTypes'
    BY <1>3, Withdrawn, SamePool DEF Abandon, PoolTypes
  <2>2. [rpc[i] EXCEPT !.pc = "abandoned"] \in RpcType
    BY DEF TaskTypes, RpcType
  <2>3. rpc' \in [Rpcs -> RpcType]
    BY <1>3, <2>2, IdleTyped DEF Abandon, TaskTypes
  <2> QED BY <2>1, <2>3
<1>4. ASSUME NEW i \in Rpcs, RpcTimesOut(i) PROVE Types'
  <2>1. PoolTypes' /\ TaskTypes'
    BY <1>3, <1>4 DEF RpcTimesOut, TaskTypes
  <2>2. FieldTypes'
    BY <1>4 DEF RpcTimesOut, FieldTypes, States, flags, owned
  <2> QED BY <1>4, <2>1, <2>2, SameTypes DEF RpcTimesOut
<1>5. ASSUME NEW i \in Rpcs, RpcCancelled(i) PROVE Types'
  <2>1. PoolTypes' /\ TaskTypes'
    BY <1>3, <1>5 DEF RpcCancelled, TaskTypes
  <2> QED BY <1>5, <2>1, SameTypes DEF RpcCancelled
<1>6. ASSUME NEW i \in Rpcs, RpcFails(i) PROVE Types'
  <2>1. FieldTypes'
    BY <1>6 DEF RpcFails, FieldTypes, States, flags, owned
  <2>2. TaskTypes'
    BY <1>6, IdleTyped DEF RpcFails, TaskTypes
  <2> QED BY <1>6, <2>1, <2>2, SameTypes DEF RpcFails, executor
<1> QED
  BY <1>1, <1>2, <1>4, <1>5, <1>6

LEMMA WorkerTypes ==
    ASSUME Types, WorkerStep
    PROVE  Types'
<1> USE DEF Types
<1>0. PICK c \in Clients :
        \/ Spawned(c) \/ SpawnFails(c) \/ Register(c) \/ Handshake(c)
        \/ FailAsks(c) \/ Adopt(c) \/ AbortAsks(c) \/ WorkerHears(c)
  BY DEF WorkerStep
<1>1. PICK to \in WorkerStates : \E from : Worker(c, from, to)
  BY <1>0 DEF Spawned, SpawnFails, Register, Handshake, FailAsks, Adopt, AbortAsks,
     WorkerHears, WorkerStates
<1>2. worker' \in [Clients -> WorkerStates] /\ \E gone : busy' = busy \ gone
  BY <1>1, WorkerTyped
<1>3. ThreadTypes'
  BY <1>0, <1>2 DEF Spawned, SpawnFails, Register, Handshake, FailAsks, Adopt, AbortAsks,
     WorkerHears, ThreadTypes, WorkerStates
<1>4. queue' \in Seq(Jobs) /\ future' \in [Clients -> FutureStates]
  <2>1. CASE Ask(c)
    BY <2>1, AskTyped
  <2>2. CASE UNCHANGED queue /\ (UNCHANGED future \/ future' = [future EXCEPT ![c] = "popped"])
    BY <2>2 DEF PoolTypes, FieldTypes, FutureStates
  <2> QED
    BY <1>0, <2>1, <2>2 DEF Spawned, SpawnFails, Register, Handshake, FailAsks, Adopt,
       AbortAsks, WorkerHears, adapter
<1>5. PoolTypes'
  BY <1>2, <1>4, PoolTyped
<1>6. TaskTypes'
  BY <1>0, SameTypes DEF Spawned, SpawnFails, Register, Handshake, FailAsks, Adopt,
     AbortAsks, WorkerHears
<1>7. /\ state' \in {state, "STOP_FAILED"} /\ UNCHANGED flags
      /\ client' \in {client, c} /\ pending' \in {pending, c, NoClient}
      /\ registered' \in {registered, registered \cup {c}}
  BY <1>0 DEF Spawned, SpawnFails, Register, Handshake, FailAsks, Adopt,
     AbortAsks, WorkerHears, adapter, owned
<1>8. FieldTypes'
  BY <1>4, <1>7 DEF FieldTypes, States, flags, ClientOrNone
<1>9. SdkTypes'
  BY <1>0 DEF Spawned, SpawnFails, Register, Handshake, FailAsks, Adopt,
     AbortAsks, WorkerHears, sdk, SdkTypes
<1> QED
  BY <1>3, <1>5, <1>6, <1>8, <1>9

LEMMA SdkStepTypes ==
    ASSUME Types, SdkStep
    PROVE  Types'
<1> USE DEF Types
<1>1. CASE StartTaken
  <2>1. Head(queue)[2] \in Clients
    BY <1>1, Served, JobsOf DEF StartTaken, Take, PoolTypes
  <2>2. PoolTypes'
    BY <1>1, TakenTyped DEF StartTaken
  <2>3. ThreadTypes'
    BY <1>1, <2>1 DEF StartTaken, ThreadTypes, WorkerStates
  <2> QED BY <1>1, <2>2, <2>3, SameTypes DEF StartTaken
<1>2. CASE RpcTaken
  <2>1. PoolTypes'
    BY <1>2, TakenTyped DEF RpcTaken
  <2> QED BY <1>2, <2>1, SameTypes DEF RpcTaken
<1>3. CASE CloseTaken
  <2>1. PICK kind \in {"close", "stale"} : Take(kind)
    BY <1>3 DEF CloseTaken
  <2>2. Head(queue)[2] \in Clients /\ queue' \in Seq(Jobs)
    BY <2>1, Served, JobsOf DEF Take, PoolTypes
  <2>3. PoolTypes'
    BY <1>3, <2>1, <2>2, TakenTyped, SamePool DEF CloseTaken
  <2>4. FieldTypes'
    BY <1>3, <2>2 DEF CloseTaken, FieldTypes, FutureStates, flags, owned
  <2>5. ThreadTypes'
    BY <1>3 DEF CloseTaken, ThreadTypes, FutureStates
  <2>6. SdkTypes'
    BY <1>3 DEF CloseTaken, SdkTypes
  <2> QED BY <1>3, <2>3, <2>4, <2>5, <2>6, SameTypes DEF CloseTaken
<1>4. ASSUME NEW c \in Clients, CloseDone(c) PROVE Types'
  <2>1. queue' = queue /\ \E gone : busy' = busy \ gone
    BY <1>4 DEF CloseDone
  <2>2. PoolTypes'
    BY <2>1, PoolTyped DEF PoolTypes
  <2>3. FieldTypes'
    BY <1>4 DEF CloseDone, Result, FieldTypes, FutureStates, flags, owned
  <2>4. ThreadTypes'
    BY <1>4 DEF CloseDone, Result, ThreadTypes, FutureStates
  <2>5. SdkTypes'
    BY <1>4 DEF CloseDone, SdkTypes
  <2> QED BY <1>4, <2>2, <2>3, <2>4, <2>5, SameTypes DEF CloseDone
<1>5. ASSUME NEW c \in Clients, Crash(c) \/ UnsupportedRequest(c) PROVE Types'
  <2>1. FieldTypes'
    BY <1>5 DEF Crash, UnsupportedRequest, FieldTypes, States, adapter, flags, owned
  <2>2. SdkTypes'
    BY <1>5 DEF Crash, UnsupportedRequest, SdkTypes, sdk
  <2> QED BY <1>5, <2>1, <2>2, SameTypes DEF Crash, UnsupportedRequest, executor
<1>6. ASSUME NEW i \in Rpcs, RpcReturns(i) PROVE Types'
  <2>1. queue' = queue /\ \E gone : busy' = busy \ gone
    BY <1>6 DEF RpcReturns
  <2>2. PoolTypes'
    BY <2>1, PoolTyped DEF PoolTypes
  <2>3. [rpc[i] EXCEPT !.pc = "broken"] \in RpcType
    BY DEF TaskTypes, RpcType
  <2>4. TaskTypes'
    BY <1>6, <2>3, IdleTyped DEF RpcReturns, TaskTypes
  <2> QED BY <1>6, <2>2, <2>4, SameTypes DEF RpcReturns
<1> QED
  BY <1>1, <1>2, <1>3, <1>4, <1>5, <1>6 DEF SdkStep

LEMMA TypesKept ==
    ASSUME Types, [Next]_vars
    PROVE  Types'
<1>1. CASE UNCHANGED vars
  BY <1>1, SameTypes DEF vars, executor, Types
<1> QED
  BY <1>1, StarterTypes, CloseTypes, RpcTypes, WorkerTypes, SdkStepTypes
     DEF Next, LoopStep, AtRest

\* The fields, tasks, jobs and children keep their types, and at most two
\* control threads are at work.
THEOREM AdapterTypeCorrect == Spec => []TypeOK
<1>1. Spec => []Types
  BY TypesInitially, TypesKept, PTL DEF Spec
<1> QED
  BY <1>1, TypesAre, PTL

-----------------------------------------------------------------------------
(* What close() leaves behind *)

Critical == {"entering", "snapshot", "next", "closing", "restore"}
Took == {"next", "closing", "restore"}

\* The close lock: one call at a time is past it.
OneCloser == \A k, l \in Closers :
    closer[k].pc \in Critical /\ closer[l].pc \in Critical => k = l

\* While a call holds the references the fields are empty, and no startup can
\* fill them again.
TakenAway == \A k \in Closers :
    closer[k].pc \in Took => aborted /\ client = NoClient /\ pending = NoClient

GoneForGood == shut =>
    /\ aborted /\ client = NoClient /\ pending = NoClient
    /\ \A k \in Closers : closer[k].pc \in Took =>
           closer[k].client = NoClient /\ closer[k].pending = NoClient

CloseInv == OneCloser /\ TakenAway /\ GoneForGood

\* Where the code breaks ClosedForGood: start_runtime hears that the close of a
\* degraded runtime has failed, and puts the client back, after a close() has
\* taken the references.
LateFailure == StaleFailed /\ aborted

LEMMA CloseInvInitially == Init => CloseInv
  BY DEF Init, CloseInv, OneCloser, TakenAway, GoneForGood, Critical, Took, IdleCloser

\* Steps that touch none of the variables of the invariant, or call close().
LEMMA CloseInvFrame ==
    ASSUME CloseInv, Types, UNCHANGED <<aborted, shut>>,
           UNCHANGED owned \/ (~aborted) \/ (client' = NoClient /\ UNCHANGED pending),
           UNCHANGED closer \/ \E k \in Closers : Call(k)
    PROVE  CloseInv'
<1>0. \A k \in Closers : closer[k] \in CloserType /\ closer \in [Closers -> CloserType]
  BY DEF Types, TaskTypes
<1>1. /\ \A k \in Closers : closer'[k].pc \in Took => closer'[k] = closer[k]
      /\ OneCloser'
  <2>1. CASE UNCHANGED closer
    BY <2>1 DEF CloseInv, OneCloser
  <2>2. ASSUME NEW k \in Closers, Call(k)
        PROVE  /\ \A l \in Closers : closer'[l].pc \in Took => closer'[l] = closer[l]
               /\ OneCloser'
    <3>1. \A l \in Closers : closer'[l] = IF l = k THEN closer'[k] ELSE closer[l]
      BY <1>0, <2>2 DEF Call
    <3>2. closer'[k].pc \in {"entering", "waiting"}
      BY <1>0, <2>2 DEF Call, CloserType
    <3>3. closer'[k].pc = "entering" => \A l \in Closers : closer[l].pc = "idle"
      BY <1>0, <2>2 DEF Call, CloserType
    <3> QED BY <3>1, <3>2, <3>3 DEF CloseInv, OneCloser, Critical, Took
  <2> QED BY <2>1, <2>2
<1>2. TakenAway' /\ GoneForGood'
  BY <1>1 DEF CloseInv, TakenAway, GoneForGood, owned
<1> QED
  BY <1>1, <1>2 DEF CloseInv

LEMMA CloseInvKept ==
    ASSUME Types, CloseInv, [Next]_vars, ~LateFailure
    PROVE  CloseInv'
<1>0. closer \in [Closers -> CloserType] /\ \A k \in Closers : closer[k] \in CloserType
  BY DEF Types, TaskTypes
<1>1. CASE UNCHANGED vars \/ AtRest
  BY <1>1, CloseInvFrame DEF vars, adapter, flags, tasks, AtRest
<1>2. ASSUME NEW c \in Clients, StartRequested(c) \/ StaleClosed(c) PROVE CloseInv'
  BY <1>2, CloseInvFrame DEF StartRequested, StaleClosed, CleanUp, Closers, flags
<1>3. CASE StaleFailed \/ StaleCancelled \/ Started \/ StartFails \/ StartGivenUp
           \/ CloseCalled \/ DrainEnds
  BY <1>3, CloseInvFrame DEF StaleFailed, StaleCancelled, Started, StartFails, StartGivenUp,
     CloseCalled, DrainEnds, CleanUp, Closers, LateFailure, flags, adapter, tasks
<1>4. ASSUME NEW i \in Rpcs,
             RpcCalled(i) \/ RpcTimesOut(i) \/ RpcCancelled(i) \/ RpcFails(i) \/ RpcReturns(i)
      PROVE  CloseInv'
  BY <1>4, CloseInvFrame DEF RpcCalled, RpcTimesOut, RpcCancelled, RpcFails, RpcReturns,
     flags, adapter
<1>5. CASE WorkerStep
  <2>1. PICK c \in Clients :
          \/ Spawned(c) \/ SpawnFails(c) \/ Register(c) \/ Handshake(c)
          \/ FailAsks(c) \/ Adopt(c) \/ AbortAsks(c) \/ WorkerHears(c)
    BY <1>5 DEF WorkerStep
  <2>2. CASE WorkerHears(c)
    <3>1. /\ UNCHANGED <<aborted, shut, closer, client>>
          /\ pending' = pending \/ pending' = NoClient
      BY <2>2 DEF WorkerHears, flags, tasks
    <3> QED BY <3>1 DEF CloseInv, OneCloser, TakenAway, GoneForGood
  <2>3. CASE ~WorkerHears(c)
    BY <2>1, <2>3, CloseInvFrame DEF Spawned, SpawnFails, Register, Handshake, FailAsks,
       Adopt, AdoptionAborted, AbortAsks, flags, adapter, tasks, owned
  <2> QED BY <2>2, <2>3
<1>6. CASE StartTaken \/ RpcTaken \/ CloseTaken
  BY <1>6, CloseInvFrame DEF StartTaken, RpcTaken, CloseTaken, flags, adapter, tasks
<1>7. ASSUME NEW c \in Clients, CloseDone(c) \/ Crash(c) \/ UnsupportedRequest(c)
      PROVE  CloseInv'
  BY <1>7, CloseInvFrame DEF CloseDone, Crash, UnsupportedRequest, flags, adapter, tasks
<1>8. ASSUME NEW k \in Closers,
             \/ CloseEnters(k) \/ CloseSnapshots(k) \/ CloseAsks(k) \/ CloseHears(k)
             \/ CloseStops(k) \/ CloseFails(k) \/ CloseCancelled(k) \/ CloseRestores(k)
      PROVE  CloseInv'
  <2>1. \A l \in Closers : l # k => closer'[l] = closer[l]
    BY <1>0, <1>8 DEF CloseEnters, CloseSnapshots, CloseAsks, CloseHears, CloseStops,
       CloseFails, CloseCancelled, CloseRestores, Return
  <2>2. CASE CloseEnters(k)
    <3>1. closer'[k].pc \in {"idle", "snapshot"} /\ UNCHANGED <<aborted, shut, client, pending>>
      BY <1>0, <2>2 DEF CloseEnters, Return, IdleCloser, CloserType, flags, owned
    <3>2. \A l \in Closers : l # k => closer[l].pc \notin Critical
      BY <1>0, <2>2 DEF CloseEnters, LoopFree, CloseInv, OneCloser, Critical
    <3> QED BY <2>1, <3>1, <3>2 DEF CloseInv, OneCloser, TakenAway, GoneForGood, Critical, Took
  <2>3. CASE CloseSnapshots(k)
    <3>1. /\ closer'[k].pc = "next" /\ closer'[k].pending = pending
          /\ closer'[k].client = client
          /\ aborted' /\ client' = NoClient /\ pending' = NoClient /\ shut' = shut
          /\ closer[k].pc \in Critical
      BY <1>0, <2>3 DEF CloseSnapshots, CloserType, Critical
    <3> QED BY <2>1, <3>1 DEF CloseInv, OneCloser, TakenAway, GoneForGood, Critical, Took
  <2>4. CASE CloseAsks(k) \/ CloseHears(k) \/ CloseFails(k)
             \/ (CloseCancelled(k) /\ closer[k].pc = "closing")
    <3>1. /\ closer[k].pc \in Took /\ closer'[k].pc \in Took
          /\ closer'[k].pending = closer[k].pending /\ closer'[k].client = closer[k].client
          /\ UNCHANGED <<aborted, shut, client, pending>>
      BY <1>0, <2>4 DEF CloseAsks, CloseHears, CloseFails, CloseCancelled, CloserType, Took,
         flags, owned, adapter
    <3> QED BY <2>1, <3>1 DEF CloseInv, OneCloser, TakenAway, GoneForGood, Critical, Took
  <2>5. CASE CloseCancelled(k) /\ closer[k].pc # "closing"
    <3>1. closer'[k].pc = "idle" /\ UNCHANGED <<aborted, shut, client, pending>>
      BY <1>0, <2>5 DEF CloseCancelled, Return, IdleCloser, flags, owned, adapter
    <3> QED BY <2>1, <3>1 DEF CloseInv, OneCloser, TakenAway, GoneForGood, Critical, Took
  <2>6. CASE CloseStops(k)
    <3>1. /\ closer'[k].pc = "idle" /\ UNCHANGED <<aborted, client, pending>>
          /\ closer[k].pc \in Critical /\ closer[k].pc \in Took
      BY <1>0, <2>6 DEF CloseStops, Return, IdleCloser, owned, Critical, Took
    <3>2. \A l \in Closers : closer'[l].pc \notin Took
      BY <2>1, <3>1 DEF CloseInv, OneCloser, Critical, Took
    <3> QED BY <2>1, <3>1, <3>2 DEF CloseInv, OneCloser, TakenAway, GoneForGood, Critical, Took
  <2>7. CASE CloseRestores(k)
    <3>1. /\ closer'[k].pc = "idle" /\ UNCHANGED <<aborted, shut>>
          /\ closer[k].pc \in Critical /\ closer[k].pc \in Took
          /\ pending' \in {pending, closer[k].pending} /\ client' \in {client, closer[k].client}
      BY <1>0, <2>7 DEF CloseRestores, Restored, Return, IdleCloser, flags, Critical, Took
    <3>2. \A l \in Closers : closer'[l].pc \notin Took
      BY <2>1, <3>1 DEF CloseInv, OneCloser, Critical, Took
    <3> QED BY <2>1, <3>1, <3>2 DEF CloseInv, OneCloser, TakenAway, GoneForGood, Critical, Took
  <2> QED BY <1>8, <2>2, <2>3, <2>4, <2>5, <2>6, <2>7
<1> QED
  BY <1>1, <1>2, <1>3, <1>4, <1>5, <1>6, <1>7, <1>8 DEF Next, LoopStep, SdkStep

\* After a confirmed close() the instance has no client and no startup gives it
\* one, unless the failed close of a degraded runtime is heard after that.
THEOREM ClosedStaysClosed ==
    Spec /\ [][~LateFailure]_vars => []ClosedForGood
<1>1. Init => Types /\ CloseInv
  BY TypesInitially, CloseInvInitially
<1>2. Types /\ CloseInv /\ [Next]_vars /\ [~LateFailure]_vars => (Types /\ CloseInv)'
  <2>1. Types /\ CloseInv /\ UNCHANGED vars => CloseInv'
    BY CloseInvFrame DEF vars, adapter, flags, tasks
  <2> QED BY <2>1, TypesKept, CloseInvKept
<1>3. CloseInv => ClosedForGood
  BY DEF CloseInv, GoneForGood, ClosedForGood
<1> QED
  BY <1>1, <1>2, <1>3, PTL DEF Spec

\* What becomes of a stale close.
LEMMA StaleMoves ==
    ASSUME [Next]_vars
    PROVE  \/ stale' = stale
           \/ stale' = "ok" /\ CloseTaken /\ queue # <<>> /\ Head(queue)[1] = "stale"
           \/ \E c \in Clients : /\ CloseDone(c) /\ <<"stale", c>> \in busy
                                 /\ \/ stale' = "ok"
                                    \/ stale' = "failed" /\ "stopFailure" \in Events
           \/ \E c \in Clients : StartRequested(c) /\ MustCloseStale /\ stale' = "asked"
<1>1. ASSUME NEW c \in Clients, StartRequested(c)
      PROVE  stale' = stale \/ (MustCloseStale /\ stale' = "asked")
  BY <1>1 DEF StartRequested
<1>2. CASE CloseTaken
  BY <1>2 DEF CloseTaken, Take
<1>3. ASSUME NEW c \in Clients, CloseDone(c)
      PROVE  \/ stale' = stale
             \/ /\ <<"stale", c>> \in busy
                /\ stale' = "ok" \/ (stale' = "failed" /\ "stopFailure" \in Events)
  BY <1>3 DEF CloseDone, Result
<1>4. CASE LoopStep /\ ~\E c \in Clients : StartRequested(c)
  <2>1. UNCHANGED stale
    BY <1>4 DEF LoopStep, StaleClosed, StaleFailed, StaleCancelled, Started, StartFails,
       StartGivenUp, CloseCalled, DrainEnds, CloseEnters, CloseSnapshots, CloseAsks,
       CloseHears, CloseStops, CloseFails, CloseCancelled, CloseRestores, RpcCalled,
       RpcTimesOut, RpcCancelled, RpcFails, executor, threads
  <2> QED BY <2>1
<1>5. CASE WorkerStep
  <2>1. UNCHANGED stale
    BY <1>5 DEF WorkerStep, Spawned, SpawnFails, Register, Handshake, FailAsks, Adopt,
       AbortAsks, WorkerHears
  <2> QED BY <2>1
<1>6. CASE SdkStep /\ ~CloseTaken /\ ~\E c \in Clients : CloseDone(c)
  <2>1. UNCHANGED stale
    BY <1>6 DEF SdkStep, StartTaken, RpcTaken, Crash, UnsupportedRequest, RpcReturns,
       executor, threads
  <2> QED BY <2>1
<1>7. CASE AtRest \/ UNCHANGED vars
  BY <1>7 DEF AtRest, vars, executor, threads
<1> QED
  BY <1>1, <1>2, <1>3, <1>4, <1>5, <1>6, <1>7 DEF Next

\* Where stops do not fail, nothing is left to assume.
THEOREM ClosedStaysClosedWhereStopsSucceed ==
    ASSUME "stopFailure" \notin Events
    PROVE  Spec => []ClosedForGood
<1> DEFINE Sound == stale # "failed"
<1>1. Init => Sound
  BY DEF Init
<1>2. Sound /\ [Next]_vars => Sound'
  BY StaleMoves DEF CloseDone, Result
<1>3. Sound => ~LateFailure
  BY DEF LateFailure, StaleFailed
<1>4. Spec => [][~LateFailure]_vars
  BY <1>1, <1>2, <1>3, PTL DEF Spec
<1> QED
  BY <1>4, ClosedStaysClosed, PTL

-----------------------------------------------------------------------------
(* What becomes of the children *)

\* STOPPED is evidence of every registered child.
StopsProven == state = "STOPPED" => NoneAlive

Early == {"none", "queued", "spawning"}
Active == WorkerStates \ {"none", "returned", "raised"}

StarterIs ==
    /\ starter.pc # "staleClosing"
    /\ starter.pc = "closing" <=> closer["startup"].pc # "idle"
    /\ state = "STARTING" => starter.pc = "starting"

\* Until a close() takes the references there is one startup at a time, and
\* nothing to replace while it goes on.
NeverAborted == ~aborted =>
    /\ \A k \in Closers : closer[k].pc \in {"idle", "entering", "snapshot"}
    /\ state = "STOPPED" => \A c \in Clients : worker[c] = "none"
    /\ \A c \in Clients : worker[c] \in Active =>
          /\ client = NoClient /\ state # "STOP_FAILED"
          /\ \/ starter.pc = "starting" /\ starter.on = c
             \/ starter.pc = "closing"
          /\ \A d \in Clients : worker[d] \in Active => d = c

\* A registered close is one job, which waits or is at work.
JobsAre ==
    /\ Once(queue)
    /\ \A c \in Clients :
          /\ ~In(queue, <<"stale", c>>) /\ <<"stale", c>> \notin busy
          /\ In(queue, <<"start", c>>) => worker[c] = "queued"
          /\ In(queue, <<"close", c>>) => future[c] = "asked" /\ <<"close", c>> \notin busy
          /\ <<"close", c>> \in busy => future[c] = "asked"

\* What the futures say of the children.
ClosesAre == \A c \in Clients :
    /\ future[c] \in {"ok", "popped"} => child[c] # "alive"
    /\ future[c] = "popped" => shut \/ worker[c] = "raised"
    /\ ref[c] # "held" =>
          child[c] # "alive" \/ future[c] = "failed" \/ <<"close", c>> \in busy
    /\ worker[c] \in Early => future[c] = "none" /\ ref[c] = "held" /\ child[c] = "none"

\* What a close() has yet to do, of what it took.
TodoIs(todo, p, c, confirmed) ==
    \/ todo = Present(p) \o Present(c) /\ confirmed = {}
    \/ todo = Present(c) /\ confirmed \subseteq {p} \ {NoClient}
    \/ todo = <<>> /\ confirmed \subseteq {p, c} \ {NoClient}

MayPend(c) == c = NoClient \/ worker[c] \notin Early \cup {"returned"}
MayServe(c) == c = NoClient \/ worker[c] = "returned"

HeldAre ==
    /\ MayPend(pending) /\ MayServe(client)
    /\ \A k \in Closers : closer[k].pc \in Took =>
          /\ MayPend(closer[k].pending) /\ MayServe(closer[k].client)
          /\ TodoIs(closer[k].todo, closer[k].pending, closer[k].client, closer[k].confirmed)
          /\ \A c \in closer[k].confirmed : StopConfirmed(c)

\* Who has a child that is alive.
OwnedBy == registered \subseteq Clients /\ \A c \in registered :
    /\ worker[c] \notin Early \cup {"spawned"}
    /\ child[c] = "alive" /\ worker[c] # "returned" =>
          \/ pending = c
          \/ \E k \in Closers : closer[k].pc \in Took /\ closer[k].pending = c
    /\ child[c] = "alive" /\ worker[c] = "returned" =>
          \/ client = c
          \/ \E k \in Closers : closer[k].pc \in Took /\ closer[k].client = c

Held == /\ StarterIs /\ NeverAborted /\ JobsAre /\ ClosesAre /\ HeldAre /\ OwnedBy
        /\ StopsProven /\ CloseInv

LEMMA HeldInitially == Init => Held
<1> SUFFICES ASSUME Init PROVE Held
  OBVIOUS
<1>1. StarterIs /\ NeverAborted /\ StopsProven /\ CloseInv
  BY CloseInvInitially DEF Init, StarterIs, NeverAborted, StopsProven, NoneAlive, IdleStarter,
     IdleCloser, Closers, Active
<1>2. queue = <<>> /\ \A job : ~In(queue, job)
  BY DEF Init, In
<1>3. JobsAre /\ ClosesAre /\ OwnedBy
  BY <1>2 DEF Init, JobsAre, ClosesAre, OwnedBy, Once, OnceBut
<1>4. HeldAre
  BY DEF Init, HeldAre, MayPend, MayServe, IdleCloser, Took
<1> QED
  BY <1>1, <1>3, <1>4 DEF Held

LEMMA HeldFrame ==
    ASSUME Held
    PROVE  /\ UNCHANGED <<starter, closer, state>> => StarterIs'
           /\ UNCHANGED <<aborted, closer, worker, client, state, starter>> => NeverAborted'
           /\ UNCHANGED <<queue, busy, worker, future>> => JobsAre'
           /\ UNCHANGED <<future, shut, worker, child, ref, busy>> => ClosesAre'
           /\ UNCHANGED <<pending, client, closer, worker, future>> => HeldAre'
           /\ UNCHANGED <<pending, client, registered, closer, worker, child>> => OwnedBy'
           /\ UNCHANGED <<state, registered, child>> => StopsProven'
<1>1. UNCHANGED <<starter, closer, state>> => StarterIs'
  BY DEF Held, StarterIs
<1>2. UNCHANGED <<aborted, closer, worker, client, state, starter>> => NeverAborted'
  BY DEF Held, NeverAborted
<1>3. UNCHANGED <<queue, busy, worker, future>> => JobsAre'
  BY DEF Held, JobsAre, In, Once, OnceBut
<1>4. UNCHANGED <<future, shut, worker, child, ref, busy>> => ClosesAre'
  <2> SUFFICES ASSUME UNCHANGED <<future, shut, worker, child, ref, busy>>
               PROVE  ClosesAre'
    OBVIOUS
  <2>1. shut' <=> shut
    OBVIOUS
  <2>2. UNCHANGED <<future, worker, child, ref, busy>>
    OBVIOUS
  <2> QED BY <2>1, <2>2 DEF Held, ClosesAre
<1>5. UNCHANGED <<pending, client, closer, worker, future>> => HeldAre'
  BY DEF Held, HeldAre, MayPend, MayServe, StopConfirmed, TodoIs, Present
<1>6. UNCHANGED <<pending, client, registered, closer, worker, child>> => OwnedBy'
  BY DEF Held, OwnedBy
<1>7. UNCHANGED <<state, registered, child>> => StopsProven'
  BY DEF Held, StopsProven, NoneAlive
<1> QED
  BY <1>1, <1>2, <1>3, <1>4, <1>5, <1>6, <1>7

LEMMA JobsDiffer ==
    /\ \A c, d : /\ <<"start", c>> # <<"close", d>> /\ <<"start", c>> # <<"stale", d>>
                 /\ <<"close", c>> # <<"stale", d>> /\ <<"rpc", c>> # <<"close", d>>
                 /\ <<"rpc", c>> # <<"stale", d>> /\ <<"rpc", c>> # <<"start", d>>
    /\ \A kind, c, d : <<kind, c>> = <<kind, d>> => c = d
    /\ \A kind, c : <<kind, c>>[1] = kind /\ <<kind, c>>[2] = c
  OBVIOUS

\* A close of a client that has been spawned is registered once.
LEMMA AskHeld ==
    ASSUME Types, Held, NEW c \in Clients, Ask(c), worker[c] \notin Early,
           \A d \in Clients : /\ worker[d] \in Early <=> worker'[d] \in Early
                              /\ worker[d] = "queued" => worker'[d] = "queued"
                              /\ worker[d] = "raised" => worker'[d] = "raised"
                              /\ <<"close", d>> \in busy <=> <<"close", d>> \in busy'
                              /\ <<"stale", d>> \in busy' => <<"stale", d>> \in busy,
           UNCHANGED <<shut, child, ref>>
    PROVE  /\ JobsAre' /\ ClosesAre'
           /\ \A d \in Clients : StopConfirmed(d)' <=> StopConfirmed(d) /\ (d # c \/ Asked(c))
<1>0. queue \in Seq(Jobs) /\ <<"close", c>> \in Jobs /\ future \in [Clients -> FutureStates]
  BY JobsOf DEF Types, PoolTypes, FieldTypes
<1>1. CASE Asked(c)
  <2>1. UNCHANGED <<future, queue>>
    BY <1>1 DEF Ask
  <2> QED BY <2>1, <1>1 DEF Held, JobsAre, ClosesAre, In, Once, OnceBut, StopConfirmed
<1>2. CASE ~Asked(c)
  <2>1. future' = [future EXCEPT ![c] = "asked"] /\ queue' = Append(queue, <<"close", c>>)
    BY <1>2 DEF Ask
  <2>2. ~In(queue, <<"close", c>>) /\ <<"close", c>> \notin busy
    BY <1>2 DEF Held, JobsAre, Asked
  <2>3. /\ Once(queue')
        /\ \A job : In(queue', job) <=> In(queue, job) \/ job = <<"close", c>>
    <3>1. Once(queue)
      BY DEF Held, JobsAre
    <3> QED BY <1>0, <2>1, <2>2, <3>1, Submitted
  <2>4. JobsAre'
    BY <1>0, <2>1, <2>2, <2>3, JobsDiffer DEF Held, JobsAre
  <2>5. ClosesAre'
    BY <1>0, <1>2, <2>1, <2>2 DEF Held, ClosesAre, Asked
  <2> QED BY <1>0, <1>2, <2>1, <2>4, <2>5 DEF StopConfirmed, Asked
<1> QED
  BY <1>1, <1>2

\* start_runtime
LEMMA StarterHeld ==
    ASSUME Types, Held, CloseInv', Calm, Calm',
           \/ \E c \in Clients : StartRequested(c) \/ StaleClosed(c)
           \/ StaleFailed \/ StaleCancelled \/ Started \/ StartFails \/ StartGivenUp
    PROVE  Held'
<1> USE DEF Calm
<1>0. /\ queue \in Seq(Jobs) /\ worker \in [Clients -> WorkerStates]
      /\ closer \in [Closers -> CloserType] /\ \A k \in Closers : closer[k] \in CloserType
      /\ starter.pc # "staleClosing"
      /\ Once(queue)
  BY DEF Types, PoolTypes, ThreadTypes, TaskTypes, Held, StarterIs, JobsAre
<1>1. ASSUME NEW c \in Clients, StartRequested(c) PROVE Held'
  <2>1. /\ worker[c] = "none" /\ worker' = [worker EXCEPT ![c] = "queued"]
        /\ queue' = Append(queue, <<"start", c>>)
        /\ starter' = [pc |-> "starting", on |-> c] /\ state' = "STARTING"
        /\ starter.pc = "idle"
        /\ UNCHANGED <<aborted, client, pending, registered, shut, future, closer, busy, ref, child>>
    BY <1>1 DEF StartRequested, Submit, owned, sdk
  <2>2. StarterIs'
    BY <2>1 DEF Held, StarterIs
  <2>3. ~aborted => client = NoClient /\ \A d \in Clients : worker[d] \notin Active
    <3>1. ~aborted => \A d \in Clients : worker[d] \notin Active
      BY <2>1 DEF Held, NeverAborted
    <3>2. ASSUME ~aborted, client # NoClient PROVE FALSE
      <4>1. state \in {"STOPPED", "STARTING"}
        BY <1>1, <2>1, <3>2 DEF StartRequested, MustCloseStale, Types, FieldTypes, States
      <4>2. state = "STOPPED"
        BY <2>1, <4>1 DEF Held, StarterIs
      <4>3. client \in Clients /\ worker[client] = "returned"
        BY <3>2 DEF Held, HeldAre, MayServe, Types, FieldTypes, ClientOrNone
      <4> QED BY <3>2, <4>2, <4>3 DEF Held, NeverAborted
    <3> QED BY <3>1, <3>2
  <2>4. NeverAborted'
    BY <1>0, <2>1, <2>3 DEF Held, NeverAborted
  <2>5. JobsAre'
    <3>1. ~In(queue, <<"start", c>>)
      BY <2>1 DEF Held, JobsAre
    <3>2. /\ Once(queue')
          /\ \A job : In(queue', job) <=> In(queue, job) \/ job = <<"start", c>>
      BY <1>0, <2>1, <3>1, JobsOf, Submitted
    <3> QED BY <1>0, <2>1, <3>2, JobsDiffer DEF Held, JobsAre
  <2>6. ClosesAre'
    BY <1>0, <2>1 DEF Held, ClosesAre, Early
  <2>7. \A d \in Clients : d # c => worker'[d] = worker[d]
    BY <1>0, <2>1
  <2>8. HeldAre'
    <3>1. \A d \in ClientOrNone : /\ MayPend(d) => MayPend(d)'
                                  /\ MayServe(d) => MayServe(d)'
      BY <2>1, <2>7 DEF MayPend, MayServe, ClientOrNone, Early
    <3> QED BY <1>0, <2>1, <3>1 DEF Held, HeldAre, StopConfirmed, TodoIs, Present, Types,
               FieldTypes, CloserType
  <2>9. OwnedBy' /\ StopsProven'
    BY <1>0, <2>1, <2>7 DEF Held, OwnedBy, StopsProven, NoneAlive, ClosesAre, Early
  <2> QED BY <2>2, <2>4, <2>5, <2>6, <2>8, <2>9 DEF Held
<1>2. CASE Started
  <2>1. /\ starter.pc = "starting" /\ worker[starter.on] = "returned"
        /\ state' = "READY" /\ starter' = IdleStarter
        /\ UNCHANGED <<aborted, client, pending, registered, shut, future, closer, queue, busy, worker,
                       ref, child>>
    BY <1>2 DEF Started, flags, owned, executor, pool, threads, sdk
  <2>2. StarterIs'
    BY <2>1 DEF Held, StarterIs, IdleStarter
  <2>3. ~aborted => \A c \in Clients : worker[c] \notin Active
    BY <2>1 DEF Held, NeverAborted, Active
  <2>4. NeverAborted' /\ StopsProven'
    BY <2>1, <2>3 DEF Held, NeverAborted, StopsProven, NoneAlive
  <2> QED BY <2>1, <2>2, <2>4, HeldFrame DEF Held
<1>3. CASE StartFails \/ StartGivenUp
  <2>1. /\ starter.pc = "starting" /\ starter' = [pc |-> "closing", on |-> NoClient]
        /\ state' = Failing /\ Call("startup") /\ LoopFree
        /\ UNCHANGED <<aborted, client, pending, registered, shut, future, busy, ref, child>>
    BY <1>3 DEF StartFails, StartGivenUp, CleanUp, flags, owned, executor, pool, sdk
  <2>2. state' \in {"DEGRADED", "STOP_FAILED"} /\ (state' = "STOP_FAILED" => state' = state)
    BY <2>1 DEF Failing
  <2>3. /\ closer'["startup"].pc \in {"entering", "waiting"}
        /\ closer'["stop"] = closer["stop"]
        /\ closer'["startup"].pc = "waiting" => \E k \in Closers : closer[k].pc # "idle"
    BY <1>0, <2>1 DEF Call, Closers, CloserType
  <2>4. \A c \in Clients : /\ worker'[c] \in {worker[c], "none"}
                           /\ worker'[c] # worker[c] => worker[c] = "queued"
    <3>1. CASE UNCHANGED worker
      BY <3>1
    <3>2. CASE StartGivenUp /\ In(queue, <<"start", starter.on>>)
               /\ worker' = [worker EXCEPT ![starter.on] = "none"]
      BY <1>0, <3>2 DEF Held, JobsAre
    <3> QED BY <1>3, <3>1, <3>2 DEF StartFails, StartGivenUp, Queued, In, executor, threads
  <2>5. StarterIs'
    BY <2>1, <2>2, <2>3 DEF StarterIs
  <2>6. NeverAborted'
    <3> SUFFICES ASSUME ~aborted PROVE NeverAborted'
      BY <2>1 DEF NeverAborted
    <3>1. \A k \in Closers : closer'[k].pc \in {"idle", "entering", "snapshot"}
      BY <2>1, <2>3 DEF Held, NeverAborted, LoopFree, Closers
    <3>2. \A c \in Clients : worker'[c] \in Active => worker[c] \in Active
      BY <2>4 DEF Active
    <3> QED BY <2>1, <2>2, <3>1, <3>2 DEF Held, NeverAborted
  <2>7. Once(queue') /\ \A job : In(queue', job) => In(queue, job)
    <3>1. CASE StartFails
      BY <1>0, <3>1 DEF StartFails, executor, pool
    <3>2. CASE StartGivenUp
      BY <1>0, <3>2, Withdrawn DEF StartGivenUp
    <3> QED BY <1>3, <3>1, <3>2
  <2>8. \A c \in Clients : In(queue', <<"start", c>>) => worker'[c] = worker[c]
    <3>1. CASE UNCHANGED worker
      BY <3>1
    <3>2. CASE StartGivenUp /\ worker' = [worker EXCEPT ![starter.on] = "none"]
      <4>1. ~In(queue', <<"start", starter.on>>)
        BY <1>0, <3>2, Withdrawn, JobsDiffer DEF StartGivenUp
      <4> QED BY <1>0, <3>2, <4>1
    <3> QED BY <1>3, <3>1, <3>2 DEF StartFails, StartGivenUp, executor, threads
  <2>9. JobsAre'
    BY <2>1, <2>7, <2>8 DEF Held, JobsAre
  <2>10. ClosesAre'
    BY <2>1, <2>4 DEF Held, ClosesAre, Early
  <2>11. HeldAre'
    <3>1. \A c \in ClientOrNone : /\ MayPend(c) => MayPend(c)'
                                  /\ MayServe(c) => MayServe(c)'
      BY <2>4 DEF MayPend, MayServe, ClientOrNone, Early
    <3>2. \A k \in Closers : closer'[k].pc \in Took => closer'[k] = closer[k]
      BY <2>3 DEF Closers, Took
    <3> QED BY <1>0, <2>1, <3>1, <3>2 DEF Held, HeldAre, StopConfirmed, TodoIs, Present,
               Types, FieldTypes, CloserType
  <2>12. OwnedBy' /\ StopsProven'
    <3>1. \A k \in Closers : closer[k].pc \in Took => closer'[k] = closer[k]
      <4>1. closer["startup"].pc = "idle"
        BY <2>1 DEF Held, StarterIs
      <4> QED BY <2>3, <4>1 DEF Closers, Took
    <3>2. \A c \in registered : worker'[c] = worker[c]
      BY <2>4 DEF Held, OwnedBy, Early
    <3> QED BY <2>1, <2>2, <3>1, <3>2 DEF Held, OwnedBy, StopsProven, NoneAlive
  <2> QED BY <2>5, <2>6, <2>9, <2>10, <2>11, <2>12 DEF Held
<1> QED
  BY <1>0, <1>1, <1>2, <1>3 DEF StaleClosed, StaleFailed, StaleCancelled

\* The list of a close() loses its head, which has not been confirmed before.
LEMMA TodoGoesOn ==
    ASSUME NEW p \in ClientOrNone, NEW c \in ClientOrNone, p # c \/ p = NoClient,
           NEW todo, NEW confirmed, TodoIs(todo, p, c, confirmed), todo # <<>>
    PROVE  /\ Head(todo) \in {p, c} \ {NoClient} /\ Head(todo) \notin confirmed
           /\ TodoIs(Tail(todo), p, c, confirmed)
           /\ TodoIs(Tail(todo), p, c, confirmed \cup {Head(todo)})
<1>0. ASSUME NEW d \in ClientOrNone, NEW e \in ClientOrNone
      PROVE  /\ <<>> \o <<d>> = <<d>> /\ <<d>> \o <<>> = <<d>> /\ <<d>> \o <<e>> = <<d, e>>
             /\ Head(<<d>>) = d /\ Tail(<<d>>) = <<>>
  <2>1. <<>> \in Seq(ClientOrNone) /\ <<d>> \in Seq(ClientOrNone) /\ <<e>> \in Seq(ClientOrNone)
    OBVIOUS
  <2>2. <<>> \o <<d>> = <<d>>
    BY <2>1
  <2>3. <<d>> \o <<>> = <<d>>
    BY <2>1
  <2>4. <<d>> \o <<e>> = <<d, e>>
    <3> DEFINE both == <<d>> \o <<e>>
    <3>1. both \in Seq(ClientOrNone) /\ Len(both) = 2 /\ both[1] = d /\ both[2] = e
      BY <2>1
    <3> HIDE DEF both
    <3>2. both = <<d, e>>
      BY <3>1
    <3> QED BY <3>2 DEF both
  <2>5. Head(<<d>>) = d /\ Tail(<<d>>) = <<>>
    OBVIOUS
  <2> QED BY <2>2, <2>3, <2>4, <2>5
<1>1. CASE todo = Present(p) \o Present(c) /\ confirmed = {}
  <2>1. CASE p = NoClient \/ c = NoClient
    <3>1. \/ p # NoClient /\ c = NoClient /\ todo = <<p>> /\ Present(c) = <<>>
          \/ p = NoClient /\ c # NoClient /\ todo = <<c>>
      <4>1. <<>> \o <<>> = <<>>
        OBVIOUS
      <4>2. Present(p) = (IF p = NoClient THEN <<>> ELSE <<p>>)
            /\ Present(c) = (IF c = NoClient THEN <<>> ELSE <<c>>)
        BY DEF Present
      <4> QED BY <1>0, <1>1, <2>1, <4>1, <4>2
    <3>2. PICK d \in {p, c} \ {NoClient} : todo = <<d>> /\ (d = p => Present(c) = <<>>)
      BY <3>1
    <3>3. Head(todo) = d /\ Tail(todo) = <<>>
      BY <1>0, <3>2
    <3> QED BY <1>1, <3>2, <3>3 DEF TodoIs
  <2>2. CASE p # NoClient /\ c # NoClient
    <3>1. todo = <<p, c>>
      BY <1>0, <1>1, <2>2 DEF Present
    <3>2. Head(todo) = p /\ Tail(todo) = <<c>> /\ Present(c) = <<c>>
      BY <2>2, <3>1 DEF Present
    <3> QED BY <1>1, <2>2, <3>2 DEF TodoIs
  <2> QED BY <2>1, <2>2
<1>2. CASE todo = Present(c) /\ confirmed \subseteq {p} \ {NoClient}
  <2>1. c # NoClient /\ Head(todo) = c /\ Tail(todo) = <<>>
    BY <1>2 DEF Present
  <2> QED BY <1>2, <2>1 DEF TodoIs
<1> QED
  BY <1>1, <1>2 DEF TodoIs

\* close()
LEMMA CloserHeld ==
    ASSUME Types, Held, CloseInv', Calm, Calm', NEW k \in Closers,
           \/ CloseEnters(k) \/ CloseSnapshots(k) \/ CloseAsks(k) \/ CloseHears(k)
           \/ CloseStops(k) \/ CloseFails(k) \/ CloseCancelled(k) \/ CloseRestores(k)
    PROVE  Held'
<1>0. /\ queue \in Seq(Jobs) /\ worker \in [Clients -> WorkerStates]
      /\ future \in [Clients -> FutureStates]
      /\ closer \in [Closers -> CloserType] /\ \A l \in Closers : closer[l] \in CloserType
      /\ client \in ClientOrNone /\ pending \in ClientOrNone
  BY DEF Types, PoolTypes, ThreadTypes, TaskTypes, FieldTypes
<1>1. \A l \in Closers : l # k => closer'[l] = closer[l]
  BY <1>0 DEF CloseEnters, CloseSnapshots, CloseAsks, CloseHears, CloseStops,
     CloseFails, CloseCancelled, CloseRestores, Return
<1>2. closer[k].pc \in Critical => \A l \in Closers : l # k => closer[l].pc \notin Took
  BY DEF Held, CloseInv, OneCloser, Critical, Took
<1>3. UNCHANGED <<worker, child, ref, busy, registered>>
  BY DEF CloseEnters, CloseSnapshots, CloseAsks, CloseHears, CloseStops, CloseFails,
     CloseCancelled, CloseRestores, adapter, owned, executor, pool, threads, sdk
\* The call goes on.
<1>4. ASSUME closer[k].pc # "idle", closer'[k].pc # "idle", starter' = starter,
             state' \in {state, "STOPPING"}
      PROVE  StarterIs' /\ StopsProven'
  BY <1>1, <1>3, <1>4 DEF Held, StarterIs, StopsProven, NoneAlive, Closers
\* The call ends.
<1>5. ASSUME closer[k].pc # "idle", Return(k), state' \in {state, "STOPPED", "STOP_FAILED"}
      PROVE  StarterIs' /\ closer'[k].pc = "idle"
  <2>1. closer'[k].pc = "idle"
    BY <1>0, <1>5 DEF Return, IdleCloser
  <2>2. starter.pc = "closing" \/ k = "stop"
    BY <1>5 DEF Held, StarterIs, Closers
  <2> QED BY <1>1, <1>5, <2>1, <2>2 DEF Held, StarterIs, Return, IdleStarter, Closers
\* What a call that takes the references does not disturb.
<1>6. ASSUME closer[k].pc \in Took
      PROVE  aborted /\ closer[k].pc \in Critical /\ client = NoClient /\ pending = NoClient
             /\ \A l \in Closers : l # k => closer[l].pc \notin Took /\ closer'[l].pc \notin Took
  BY <1>1, <1>2, <1>6 DEF Held, CloseInv, TakenAway, Critical, Took
<1>7. ASSUME closer[k].pc \in Took, closer'[k].pc \in Took,
             closer'[k].pending = closer[k].pending, closer'[k].client = closer[k].client,
             UNCHANGED owned
      PROVE  OwnedBy'
  BY <1>1, <1>3, <1>7 DEF Held, OwnedBy, owned
<1>8. ASSUME NEW c \in ClientOrNone
      PROVE  /\ MayPend(c) => MayPend(c)'
             /\ MayServe(c) => MayServe(c)'
  BY <1>3 DEF MayPend, MayServe
<1>9. ASSUME closer[k].pc \in Took, closer[k].todo # <<>>
      PROVE  LET c == Head(closer[k].todo) IN
             /\ c \in Clients /\ worker[c] \notin Early /\ c \notin closer[k].confirmed
             /\ TodoIs(Tail(closer[k].todo), closer[k].pending, closer[k].client,
                       closer[k].confirmed)
             /\ TodoIs(Tail(closer[k].todo), closer[k].pending, closer[k].client,
                       closer[k].confirmed \cup {c})
  <2>1. /\ closer[k].pending \in ClientOrNone /\ closer[k].client \in ClientOrNone
        /\ MayPend(closer[k].pending) /\ MayServe(closer[k].client)
        /\ TodoIs(closer[k].todo, closer[k].pending, closer[k].client, closer[k].confirmed)
    BY <1>0, <1>9 DEF Held, HeldAre, CloserType
  <2>2. closer[k].pending # closer[k].client \/ closer[k].pending = NoClient
    BY <2>1 DEF MayPend, MayServe
  <2>3. /\ Head(closer[k].todo) \in {closer[k].pending, closer[k].client} \ {NoClient}
        /\ Head(closer[k].todo) \notin closer[k].confirmed
        /\ TodoIs(Tail(closer[k].todo), closer[k].pending, closer[k].client,
                  closer[k].confirmed)
        /\ TodoIs(Tail(closer[k].todo), closer[k].pending, closer[k].client,
                  closer[k].confirmed \cup {Head(closer[k].todo)})
    <3> DEFINE p == closer[k].pending
               c == closer[k].client
               todo == closer[k].todo
               confirmed == closer[k].confirmed
    <3>1. /\ p \in ClientOrNone /\ c \in ClientOrNone /\ (p # c \/ p = NoClient)
          /\ TodoIs(todo, p, c, confirmed) /\ todo # <<>>
      BY <1>9, <2>1, <2>2
    <3> HIDE DEF p, c, todo, confirmed
    <3>2. /\ Head(todo) \in {p, c} \ {NoClient} /\ Head(todo) \notin confirmed
          /\ TodoIs(Tail(todo), p, c, confirmed)
          /\ TodoIs(Tail(todo), p, c, confirmed \cup {Head(todo)})
      BY <3>1, TodoGoesOn
    <3> QED BY <3>2 DEF p, c, todo, confirmed
  <2> QED BY <2>1, <2>3 DEF MayPend, MayServe, ClientOrNone, Early
<1>10. ASSUME aborted' PROVE NeverAborted'
  BY <1>10 DEF NeverAborted
<1>11. CASE CloseEnters(k)
  <2>1. /\ UNCHANGED <<aborted, shut, client, pending, registered, future, queue>>
        /\ closer[k].pc \in {"entering", "waiting"}
    BY <1>11 DEF CloseEnters, flags, owned, executor, pool
  <2>2. closer'[k].pc \in {"idle", "snapshot"}
    BY <1>0, <1>11 DEF CloseEnters, Return, IdleCloser, CloserType
  <2>3. HeldAre' /\ OwnedBy'
    <3>1. \A l \in Closers : closer'[l].pc \in Took => closer'[l] = closer[l]
      BY <1>1, <2>2 DEF Took
    <3>2. \A l \in Closers : closer[l].pc \in Took => closer'[l] = closer[l]
      BY <1>1, <2>1 DEF Took
    <3>3. OwnedBy'
      BY <1>3, <2>1, <3>2 DEF Held, OwnedBy
    <3>4. HeldAre'
      BY <1>3, <2>1, <3>1 DEF Held, HeldAre, MayPend, MayServe, StopConfirmed, TodoIs, Present
    <3> QED BY <3>3, <3>4
  <2>4. CASE state = "STOP_FAILED"
    <3>1. Return(k) /\ state' = state
      BY <1>11, <2>4 DEF CloseEnters
    <3>2. NeverAborted'
      BY <1>1, <1>3, <2>1, <2>2, <2>4, <3>1 DEF Held, NeverAborted
    <3>3. StarterIs' /\ StopsProven'
      BY <1>3, <1>5, <2>1, <2>4, <3>1 DEF StopsProven, NoneAlive
    <3> QED BY <1>3, <2>1, <2>3, <3>2, <3>3, HeldFrame DEF Held
  <2>5. CASE state # "STOP_FAILED"
    <3>1. closer'[k].pc = "snapshot" /\ starter' = starter /\ state' = "STOPPING"
      BY <1>0, <1>11, <2>5 DEF CloseEnters, CloserType
    <3>2. NeverAborted'
      BY <1>1, <1>3, <2>1, <3>1 DEF Held, NeverAborted
    <3> QED BY <1>3, <1>4, <2>1, <2>3, <3>1, <3>2, HeldFrame DEF Held
  <2> QED BY <2>4, <2>5
<1>12. CASE CloseSnapshots(k)
  <2>1. /\ closer[k].pc = "snapshot" /\ aborted' /\ client' = NoClient /\ pending' = NoClient
        /\ closer'[k] = [pc |-> "next", pending |-> pending, client |-> client,
                         todo |-> Present(pending) \o Present(client), confirmed |-> {}]
        /\ UNCHANGED <<state, shut, future, starter, queue>>
    BY <1>0, <1>12 DEF CloseSnapshots, executor, pool
  <2>2. /\ closer'[k].pc = "next" /\ closer'[k].pending = pending
        /\ closer'[k].client = client /\ closer'[k].confirmed = {}
        /\ closer'[k].todo = Present(pending) \o Present(client)
    BY <2>1
  <2>3. \A l \in Closers : l # k => closer[l].pc \notin Took
    BY <1>2, <2>1 DEF Critical
  <2>4. TodoIs(closer'[k].todo, closer'[k].pending, closer'[k].client, closer'[k].confirmed)
    BY <2>2 DEF TodoIs
  <2>5. HeldAre'
    <3>1. MayPend(NoClient)' /\ MayServe(NoClient)'
      BY DEF MayPend, MayServe
    <3>2. MayPend(pending) /\ MayServe(client)
      BY DEF Held, HeldAre
    <3>3. MayPend(closer[k].pending)' /\ MayServe(closer[k].client)'
      BY <1>3, <2>2, <3>2 DEF MayPend, MayServe
    <3>4. TodoIs(closer[k].todo, closer[k].pending, closer[k].client, closer[k].confirmed)'
      BY <2>4 DEF TodoIs, Present
    <3> QED BY <1>1, <2>1, <2>2, <2>3, <3>1, <3>3, <3>4 DEF HeldAre, MayPend, MayServe
  <2>6. OwnedBy'
    <3>1. k \in Closers /\ closer'[k].pc \in Took
      BY <2>2 DEF Took
    <3>2. \A l \in Closers : closer[l].pc \notin Took
      BY <2>1, <2>3 DEF Took
    <3> QED BY <1>3, <2>2, <3>1, <3>2 DEF Held, OwnedBy
  <2>7. StarterIs' /\ StopsProven'
    BY <1>4, <2>1, <2>2
  <2> QED BY <1>3, <1>10, <2>1, <2>5, <2>6, <2>7, HeldFrame DEF Held
<1>13. CASE CloseAsks(k)
  <2> DEFINE c == Head(closer[k].todo)
  <2>1. /\ closer[k].pc = "next" /\ closer[k].todo # <<>>
        /\ UNCHANGED <<state, aborted, shut, client, pending, registered, starter>>
    BY <1>13 DEF CloseAsks, flags, owned
  <2>2. closer[k].pc \in Took
    BY <2>1 DEF Took
  <2>3. /\ closer'[k].pc \in {"next", "closing"}
        /\ closer'[k].pending = closer[k].pending /\ closer'[k].client = closer[k].client
        /\ closer'[k].confirmed = closer[k].confirmed
        /\ CanAsk(c) => closer'[k].todo = closer[k].todo
        /\ ~CanAsk(c) => closer'[k].todo = Tail(closer[k].todo)
    <3>1. CASE CanAsk(c)
      <4>1. closer' = [closer EXCEPT ![k].pc = "closing"]
        BY <1>13, <3>1 DEF CloseAsks
      <4> QED BY <1>0, <3>1, <4>1 DEF CloserType
    <3>2. CASE ~CanAsk(c)
      <4>1. closer' = [closer EXCEPT ![k].todo = Tail(@)]
        BY <1>13, <3>2 DEF CloseAsks
      <4> QED BY <1>0, <2>1, <3>2, <4>1 DEF CloserType
    <3> QED BY <3>1, <3>2
  <2>4. /\ c \in Clients /\ worker[c] \notin Early /\ c \notin closer[k].confirmed
        /\ TodoIs(Tail(closer[k].todo), closer[k].pending, closer[k].client,
                  closer[k].confirmed)
    BY <1>9, <2>1, <2>2
  <2>5. /\ JobsAre' /\ ClosesAre'
        /\ \A d \in closer[k].confirmed : StopConfirmed(d)'
    <3>1. closer[k].confirmed \subseteq Clients
      BY <1>0 DEF CloserType
    <3>2. \A d \in closer[k].confirmed : StopConfirmed(d)
      BY <2>2 DEF Held, HeldAre
    <3>3. CASE CanAsk(c)
      <4>1. Ask(c)
        BY <1>13, <3>3 DEF CloseAsks
      <4> QED BY <1>3, <2>1, <2>4, <3>1, <3>2, <4>1, AskHeld
    <3>4. CASE ~CanAsk(c)
      <4>1. UNCHANGED <<future, queue>>
        BY <1>13, <3>4 DEF CloseAsks
      <4> QED BY <1>3, <2>1, <3>2, <4>1, HeldFrame DEF StopConfirmed
    <3> QED BY <3>3, <3>4
  <2> HIDE DEF c
  <2>6. TodoIs(closer'[k].todo, closer[k].pending, closer[k].client, closer[k].confirmed)
    BY <2>2, <2>3, <2>4 DEF Held, HeldAre
  <2>7. HeldAre'
    <3>1. /\ MayPend(pending)' /\ MayServe(client)'
          /\ MayPend(closer[k].pending)' /\ MayServe(closer[k].client)'
      BY <1>3, <2>1, <2>2, <2>3 DEF Held, HeldAre, MayPend, MayServe
    <3>2. TodoIs(closer[k].todo, closer[k].pending, closer[k].client, closer[k].confirmed)'
      BY <2>3, <2>6 DEF TodoIs, Present
    <3>3. \A l \in Closers : l # k => closer'[l].pc \notin Took
      BY <1>6, <2>2
    <3>4. \A d \in closer'[k].confirmed : StopConfirmed(d)'
      BY <2>3, <2>5
    <3> QED BY <3>1, <3>2, <3>3, <3>4 DEF HeldAre, MayPend, MayServe, StopConfirmed
  <2>8. OwnedBy'
    BY <1>7, <2>1, <2>2, <2>3 DEF Took, owned
  <2>9. StarterIs' /\ StopsProven' /\ NeverAborted'
    BY <1>4, <1>6, <1>10, <2>1, <2>2, <2>3
  <2> QED BY <2>5, <2>7, <2>8, <2>9 DEF Held
<1>14. CASE CloseHears(k)
  <2> DEFINE c == Head(closer[k].todo)
  <2>1. /\ closer[k].pc = "closing" /\ closer[k].pc \in Took
        /\ UNCHANGED <<state, aborted, shut, client, pending, registered, future, starter, queue>>
    BY <1>14 DEF CloseHears, adapter, flags, owned, executor, pool, Took
  <2>2. closer[k].todo # <<>>
    BY <1>0, <2>1 DEF CloserType
  <2>3. /\ closer'[k].pc = "next" /\ closer'[k].todo = Tail(closer[k].todo)
        /\ closer'[k].pending = closer[k].pending /\ closer'[k].client = closer[k].client
        /\ \/ closer'[k].confirmed = closer[k].confirmed
           \/ closer'[k].confirmed = closer[k].confirmed \cup {c} /\ StopConfirmed(c)
    BY <1>0, <1>14 DEF CloseHears, CloserType
  <2>4. /\ TodoIs(Tail(closer[k].todo), closer[k].pending, closer[k].client,
                  closer[k].confirmed)
        /\ TodoIs(Tail(closer[k].todo), closer[k].pending, closer[k].client,
                  closer[k].confirmed \cup {c})
    BY <1>9, <2>1, <2>2
  <2>5. HeldAre'
    <3>1. /\ MayPend(pending)' /\ MayServe(client)'
          /\ MayPend(closer[k].pending)' /\ MayServe(closer[k].client)'
      BY <1>3, <2>1, <2>3 DEF Held, HeldAre, MayPend, MayServe
    <3>2. TodoIs(closer[k].todo, closer[k].pending, closer[k].client, closer[k].confirmed)'
      BY <2>3, <2>4 DEF TodoIs, Present
    <3>3. \A l \in Closers : l # k => closer'[l].pc \notin Took
      BY <1>6, <2>1
    <3>4. \A d \in closer'[k].confirmed : StopConfirmed(d)'
      BY <2>1, <2>3 DEF Held, HeldAre, StopConfirmed
    <3> QED BY <3>1, <3>2, <3>3, <3>4 DEF HeldAre, MayPend, MayServe, StopConfirmed
  <2>6. OwnedBy'
    BY <1>7, <2>1, <2>3 DEF Took, owned
  <2>7. StarterIs' /\ StopsProven' /\ NeverAborted'
    BY <1>4, <1>6, <1>10, <2>1, <2>3
  <2> QED BY <1>3, <2>1, <2>5, <2>6, <2>7, HeldFrame DEF Held
<1>15. CASE CloseFails(k) \/ (CloseCancelled(k) /\ closer[k].pc = "closing")
  <2>1. /\ closer[k].pc \in Took /\ closer'[k].pc = "restore"
        /\ closer'[k].pending = closer[k].pending /\ closer'[k].client = closer[k].client
        /\ closer'[k].todo = closer[k].todo /\ closer'[k].confirmed = closer[k].confirmed
        /\ UNCHANGED <<state, aborted, shut, client, pending, registered, future, starter, queue>>
    BY <1>0, <1>15 DEF CloseFails, CloseCancelled, CloserType, Took, adapter, flags, owned,
       executor, pool
  <2>2. HeldAre'
    <3>1. \A l \in Closers : l # k => closer'[l].pc \notin Took
      BY <1>6, <2>1
    <3> QED BY <1>3, <2>1, <3>1 DEF Held, HeldAre, MayPend, MayServe, TodoIs, Present,
               StopConfirmed
  <2>3. OwnedBy'
    BY <1>7, <2>1 DEF Took, owned
  <2>4. StarterIs' /\ StopsProven' /\ NeverAborted'
    BY <1>4, <1>6, <1>10, <2>1 DEF Took
  <2> QED BY <1>3, <2>1, <2>2, <2>3, <2>4, HeldFrame DEF Held
<1>16. CASE CloseCancelled(k) /\ closer[k].pc # "closing"
  <2>1. /\ closer[k].pc = "waiting" /\ Return(k)
        /\ UNCHANGED <<state, aborted, shut, client, pending, registered, future, queue>>
    BY <1>16 DEF CloseCancelled, adapter, flags, owned, executor, pool
  <2>2. StarterIs' /\ closer'[k].pc = "idle"
    BY <1>5, <2>1
  <2>3. aborted /\ NeverAborted'
    BY <2>1 DEF Held, NeverAborted
  <2>4. HeldAre' /\ OwnedBy'
    <3>1. \A l \in Closers : closer'[l].pc \in Took => closer'[l] = closer[l]
      BY <1>1, <2>2 DEF Took
    <3>2. \A l \in Closers : closer[l].pc \in Took => closer'[l] = closer[l]
      BY <1>1, <2>1 DEF Took
    <3>3. OwnedBy'
      BY <1>3, <2>1, <3>2 DEF Held, OwnedBy
    <3>4. HeldAre'
      BY <1>3, <2>1, <3>1 DEF Held, HeldAre, MayPend, MayServe, StopConfirmed, TodoIs, Present
    <3> QED BY <3>3, <3>4
  <2> QED BY <1>3, <2>1, <2>2, <2>3, <2>4, HeldFrame DEF Held
<1>17. CASE CloseStops(k)
  <2>1. /\ closer[k].pc = "next" /\ closer[k].pc \in Took
        /\ Taken(k) \subseteq closer[k].confirmed
        /\ future' = [c \in Clients |-> IF c \in Taken(k) THEN "popped" ELSE future[c]]
        /\ shut' = TRUE /\ state' = "STOPPED" /\ Return(k)
        /\ UNCHANGED <<aborted, client, pending, registered, queue>>
    BY <1>17 DEF CloseStops, Took, owned, executor, pool
  <2>2. StarterIs' /\ closer'[k].pc = "idle"
    BY <1>5, <2>1
  <2>3. \A c \in Taken(k) : StopConfirmed(c)
    BY <2>1 DEF Held, HeldAre
  <2>4. /\ client = NoClient /\ pending = NoClient /\ aborted
        /\ \A l \in Closers : closer'[l].pc \notin Took /\ (l # k => closer[l].pc \notin Took)
    BY <1>6, <2>1, <2>2 DEF Took
  <2>5. \A c \in registered : child[c] # "alive"
    <3> SUFFICES ASSUME NEW c \in registered, child[c] = "alive" PROVE FALSE
      OBVIOUS
    <3>1. c \in Taken(k) /\ c \in Clients
      BY <2>4, SdkConstants DEF Held, OwnedBy, Taken, Types, FieldTypes
    <3> QED BY <2>3, <3>1 DEF Held, ClosesAre, StopConfirmed
  <2>6. OwnedBy' /\ StopsProven'
    BY <1>3, <2>5 DEF Held, OwnedBy, StopsProven, NoneAlive
  <2>7. JobsAre' /\ ClosesAre'
    BY <1>0, <1>3, <2>1, <2>3 DEF Held, JobsAre, ClosesAre, StopConfirmed
  <2>8. HeldAre'
    BY <2>1, <2>4 DEF HeldAre, MayPend, MayServe
  <2> QED BY <1>10, <2>1, <2>2, <2>4, <2>6, <2>7, <2>8 DEF Held
<1>18. CASE CloseRestores(k)
  <2>1. /\ closer[k].pc = "restore" /\ closer[k].pc \in Took
        /\ pending' = Restored(k, closer[k].pending, pending)
        /\ client' = Restored(k, closer[k].client, client)
        /\ state' \in {state, "STOP_FAILED"} /\ Return(k)
        /\ UNCHANGED <<aborted, shut, future, queue>>
    BY <1>18 DEF CloseRestores, Took, flags, executor, pool
  <2>2. StarterIs' /\ closer'[k].pc = "idle"
    BY <1>5, <2>1
  <2>3. /\ client = NoClient /\ pending = NoClient /\ aborted
        /\ \A l \in Closers : closer'[l].pc \notin Took /\ (l # k => closer[l].pc \notin Took)
    BY <1>6, <2>1, <2>2 DEF Took
  <2>4. HeldAre'
    <3>1. MayPend(closer[k].pending) /\ MayServe(closer[k].client)
      BY <2>1 DEF Held, HeldAre
    <3> QED BY <1>3, <2>1, <2>3, <3>1 DEF HeldAre, MayPend, MayServe, Restored
  <2>5. OwnedBy'
    <3> SUFFICES ASSUME NEW c \in registered, child[c] = "alive"
                 PROVE  /\ worker[c] # "returned" => pending' = c
                        /\ worker[c] = "returned" => client' = c
      BY <1>3 DEF Held, OwnedBy
    <3>1. c # NoClient /\ c \notin closer[k].confirmed
      BY <2>1, SdkConstants
         DEF Held, HeldAre, ClosesAre, StopConfirmed, Types, FieldTypes
    <3> QED BY <2>1, <2>3, <3>1 DEF Held, OwnedBy, Restored
  <2>6. StopsProven'
    BY <1>3, <2>1 DEF Held, StopsProven, NoneAlive
  <2> QED BY <1>3, <1>10, <2>1, <2>2, <2>3, <2>4, <2>5, <2>6, HeldFrame DEF Held
<1> QED
  BY <1>11, <1>12, <1>13, <1>14, <1>15, <1>16, <1>17, <1>18

\* Steps that change the state for the worse at most, and serve RPCs.
LEMMA PassiveHeld ==
    ASSUME Types, Held, CloseInv', state' \in {state, "DEGRADED"},
           UNCHANGED <<aborted, client, pending, registered, shut, future, starter, closer, worker,
                       ref, child>>,
           Once(queue'),
           \A job : job[1] # "rpc" /\ In(queue', job) => In(queue, job),
           \A job : job[1] # "rpc" => (job \in busy' <=> job \in busy)
    PROVE  Held'
<1>1. StarterIs' /\ NeverAborted' /\ StopsProven'
  BY DEF Held, StarterIs, NeverAborted, StopsProven, NoneAlive
<1>2. JobsAre'
  BY JobsDiffer DEF Held, JobsAre
<1>3. ClosesAre'
  <2>1. shut' <=> shut
    OBVIOUS
  <2>2. UNCHANGED <<future, worker, child, ref>>
    OBVIOUS
  <2> QED BY <2>1, <2>2, JobsDiffer DEF Held, ClosesAre
<1> QED
  BY <1>1, <1>2, <1>3, HeldFrame DEF Held

LEMMA RpcHeld ==
    ASSUME Types, Held, CloseInv',
           \/ DrainEnds \/ RpcTaken \/ AtRest \/ UNCHANGED vars
           \/ \E c \in Clients : UnsupportedRequest(c)
           \/ \E i \in Rpcs : \/ RpcCalled(i) \/ RpcTimesOut(i) \/ RpcCancelled(i)
                              \/ RpcFails(i) \/ RpcReturns(i)
    PROVE  Held'
<1>0. queue \in Seq(Jobs) /\ Once(queue)
  BY DEF Types, PoolTypes, Held, JobsAre
<1>1. /\ state' \in {state, "DEGRADED"}
      /\ UNCHANGED <<aborted, client, pending, registered, shut, future, starter, closer, worker, ref, child>>
  BY DEF DrainEnds, RpcTaken, AtRest, UnsupportedRequest, RpcCalled, RpcTimesOut, RpcCancelled,
     RpcFails, RpcReturns, vars, adapter, flags, owned, tasks, executor, pool, threads, sdk
<1>2. CASE UNCHANGED <<queue, busy>>
  BY <1>0, <1>1, <1>2, PassiveHeld DEF In, Once, OnceBut
<1>3. ASSUME NEW i \in Rpcs, RpcCalled(i) PROVE Held'
  <2>1. queue' = Append(queue, <<"rpc", i>>) /\ busy' = busy
    BY <1>3 DEF RpcCalled
  <2>2. /\ \A job : In(queue', job) <=> In(queue, job) \/ job = <<"rpc", i>>
        /\ Once(queue')
    <3>1. <<"rpc", i>> \in Jobs /\ <<"rpc", i>>[1] = "rpc"
      BY JobsOf
    <3> QED BY <1>0, <2>1, <3>1, Submitted
  <2>3. \A job : job[1] # "rpc" /\ In(queue', job) => In(queue, job)
    BY <2>2, JobsDiffer
  <2> QED BY <1>1, <2>1, <2>2, <2>3, PassiveHeld
<1>4. ASSUME NEW i \in Rpcs, RpcTimesOut(i) \/ RpcCancelled(i) PROVE Held'
  <2>1. Withdraw(<<"rpc", i>>) /\ busy' = busy
    BY <1>4 DEF RpcTimesOut, RpcCancelled, Abandon
  <2> QED BY <1>0, <1>1, <2>1, Withdrawn, PassiveHeld
<1>5. CASE RpcTaken
  <2>1. /\ queue # <<>> /\ queue' = Tail(queue) /\ Head(queue)[1] = "rpc"
        /\ busy' = busy \cup {Head(queue)}
    BY <1>5 DEF RpcTaken, Take
  <2>2. Once(queue') /\ \A job : In(queue', job) => In(queue, job)
    BY <1>0, <2>1, Served
  <2> QED BY <1>1, <2>1, <2>2, PassiveHeld
<1>6. ASSUME NEW i \in Rpcs, RpcReturns(i) PROVE Held'
  <2>1. queue' = queue /\ busy' = busy \ {<<"rpc", i>>}
    BY <1>6 DEF RpcReturns
  <2>2. Once(queue') /\ \A job : In(queue', job) => In(queue, job)
    BY <1>0, <2>1 DEF In, Once, OnceBut
  <2>3. \A job : job[1] # "rpc" => (job \in busy' <=> job \in busy)
    BY <2>1, JobsDiffer
  <2> QED BY <1>1, <2>2, <2>3, PassiveHeld
<1> QED
  BY <1>2, <1>3, <1>4, <1>5, <1>6 DEF DrainEnds, AtRest, UnsupportedRequest, RpcFails, vars,
     executor, pool

LEMMA CloseCalledHeld ==
    ASSUME Types, Held, CloseInv', CloseCalled
    PROVE  Held'
<1>1. /\ closer["stop"].pc = "idle" /\ Call("stop") /\ LoopFree
      /\ UNCHANGED <<state, aborted, client, pending, registered, shut, future, starter, worker, ref, child,
                     queue, busy>>
  BY DEF CloseCalled, adapter, flags, owned, executor, pool, threads, sdk
<1>2. /\ closer'["stop"].pc \in {"entering", "waiting"}
      /\ closer'["startup"] = closer["startup"]
      /\ closer'["stop"].pc = "waiting" => \E k \in Closers : closer[k].pc # "idle"
  BY <1>1 DEF Call, Closers, CloserType, Types, TaskTypes
<1>3. StarterIs' /\ NeverAborted'
  BY <1>1, <1>2 DEF Held, StarterIs, NeverAborted, LoopFree, Closers
<1>4. /\ \A k \in Closers : closer'[k].pc \in Took => closer'[k] = closer[k]
      /\ \A k \in Closers : closer[k].pc \in Took => closer'[k] = closer[k]
  BY <1>1, <1>2 DEF Closers, Took
<1>5. OwnedBy'
  BY <1>1, <1>4 DEF Held, OwnedBy
<1>6. HeldAre'
  BY <1>1, <1>4 DEF Held, HeldAre, MayPend, MayServe, StopConfirmed, TodoIs, Present
<1> QED
  BY <1>1, <1>3, <1>5, <1>6, HeldFrame DEF Held

\* _start_sync moves on, in the thread that has it.
LEMMA WorkerMoves ==
    ASSUME Types, Held, NEW c \in Clients, NEW from, NEW to, Worker(c, from, to),
           from \in Active \ {"queued"}, to \in WorkerStates \ Early,
           UNCHANGED <<starter, closer, aborted, shut, ref>>, state' \in {state, "STOP_FAILED"}
    PROVE  /\ worker[c] = from /\ worker'[c] = to
           /\ \A d \in Clients : d # c => worker'[d] = worker[d]
           /\ \A job : job[1] # "start" => (job \in busy' <=> job \in busy)
           /\ StarterIs'
           /\ (state' = state /\ client' = client) \/ to \in {"returned", "raised"}
                 => NeverAborted'
           /\ UNCHANGED <<queue, future>> => JobsAre'
           /\ UNCHANGED <<future, child>> => ClosesAre'
           /\ UNCHANGED <<child, registered>> => StopsProven'
<1>0. worker \in [Clients -> WorkerStates]
  BY DEF Types, ThreadTypes
<1>1. /\ worker[c] = from /\ worker'[c] = to
      /\ \A d \in Clients : d # c => worker'[d] = worker[d]
  BY <1>0 DEF Worker
<1>2. \A job : job[1] # "start" => (job \in busy' <=> job \in busy)
  BY JobsDiffer DEF Worker
<1>3. StarterIs'
  BY DEF Held, StarterIs
<1>4. ASSUME (state' = state /\ client' = client) \/ to \in {"returned", "raised"}
      PROVE  NeverAborted'
  <2> SUFFICES ASSUME ~aborted PROVE NeverAborted'
    BY DEF NeverAborted
  <2>1. worker[c] \in Active /\ state # "STOPPED" /\ state' # "STOPPED"
    BY <1>1 DEF Held, NeverAborted, Active
  <2>2. \A d \in Clients : worker[d] \in Active => d = c
    BY <2>1 DEF Held, NeverAborted
  <2>3. \A d \in Clients : worker'[d] \in Active => d = c /\ to \in Active
    BY <1>1, <2>2
  <2> QED BY <1>1, <1>4, <2>1, <2>3 DEF Held, NeverAborted, Active
<1>5. ASSUME UNCHANGED <<queue, future>> PROVE JobsAre'
  BY <1>1, <1>2, <1>5, JobsDiffer DEF Held, JobsAre, In, Once, OnceBut
<1>6. ASSUME UNCHANGED <<future, child>> PROVE ClosesAre'
  <2>1. shut' <=> shut
    OBVIOUS
  <2>2. \A d \in Clients : /\ worker[d] = "raised" => worker'[d] = "raised"
                           /\ worker'[d] \in Early => worker[d] \in Early
    BY <1>1 DEF Active
  <2>3. \A d \in Clients : <<"close", d>> \in busy => <<"close", d>> \in busy'
    BY <1>2, JobsDiffer
  <2> QED BY <1>6, <2>1, <2>2, <2>3 DEF Held, ClosesAre
<1>7. ASSUME UNCHANGED <<child, registered>> PROVE StopsProven'
  BY <1>7 DEF Held, StopsProven, NoneAlive
<1> QED
  BY <1>1, <1>2, <1>3, <1>4, <1>5, <1>6, <1>7

\* _start_sync
LEMMA WorkerHeld ==
    ASSUME Types, Held, CloseInv', Calm', NEW c \in Clients,
           \/ Spawned(c) \/ SpawnFails(c) \/ Register(c) \/ Handshake(c)
           \/ FailAsks(c) \/ Adopt(c) \/ AbortAsks(c) \/ WorkerHears(c)
    PROVE  Held'
<1>0. /\ worker \in [Clients -> WorkerStates] /\ future \in [Clients -> FutureStates]
      /\ child \in [Clients -> {"none", "alive", "dead"}]
      /\ c # NoClient
  BY SdkConstants DEF Types, ThreadTypes, FieldTypes, SdkTypes
<1>1. /\ UNCHANGED <<aborted, shut, starter, closer, ref>>
      /\ state' \in {state, "STOP_FAILED"}
      /\ UNCHANGED registered \/ (Register(c) /\ ~aborted)
  BY DEF Spawned, SpawnFails, Register, Handshake, FailAsks, Adopt, AbortAsks, WorkerHears,
     adapter, flags, owned, tasks, sdk
\* What the other clients keep.
<1>2. ASSUME NEW to, worker'[c] = to, \A d \in Clients : d # c => worker'[d] = worker[d],
             worker[c] \in Active \ {"queued"}, to \notin Early
      PROVE  /\ \A d : MayPend(d) /\ d # NoClient /\ d \in Clients
                          /\ (d = c => to # "returned") => MayPend(d)'
             /\ \A d : MayServe(d) /\ d \in ClientOrNone => MayServe(d)'
             /\ MayPend(NoClient)'
  BY <1>2 DEF MayPend, MayServe, ClientOrNone, Active
\* A step that keeps the references of the adapter and confirms nothing less.
<1>3. ASSUME NEW to, worker'[c] = to, \A d \in Clients : d # c => worker'[d] = worker[d],
             worker[c] \in Active \ {"queued"}, to \notin Early \cup {"returned"},
             pending' \in {pending, NoClient}, client' = client,
             \A d \in Clients : (\E k \in Closers : closer[k].pc \in Took
                                                    /\ d \in closer[k].confirmed)
                                /\ StopConfirmed(d) => StopConfirmed(d)'
      PROVE  HeldAre'
  <2>1. \A d \in ClientOrNone : (MayPend(d) => MayPend(d)') /\ (MayServe(d) => MayServe(d)')
    BY <1>2, <1>3 DEF ClientOrNone, MayPend
  <2>2. \A k \in Closers : closer[k] \in CloserType
    BY DEF Types, TaskTypes
  <2>3. client \in ClientOrNone /\ pending \in ClientOrNone /\ NoClient \in ClientOrNone
    BY DEF Types, FieldTypes, ClientOrNone
  <2>4. MayPend(pending)' /\ MayServe(client)'
    <3>1. MayPend(pending) /\ MayServe(client)
      BY DEF Held, HeldAre
    <3> QED BY <1>3, <2>1, <2>3, <3>1 DEF MayPend, MayServe
  <2>5. ASSUME NEW k \in Closers, closer[k].pc \in Took
        PROVE  /\ MayPend(closer[k].pending)' /\ MayServe(closer[k].client)'
               /\ TodoIs(closer[k].todo, closer[k].pending, closer[k].client,
                         closer[k].confirmed)'
               /\ \A d \in closer[k].confirmed : StopConfirmed(d)'
    <3>1. /\ MayPend(closer[k].pending) /\ MayServe(closer[k].client)
          /\ TodoIs(closer[k].todo, closer[k].pending, closer[k].client, closer[k].confirmed)
          /\ \A d \in closer[k].confirmed : StopConfirmed(d)
      BY <2>5 DEF Held, HeldAre
    <3>2. closer[k].pending \in ClientOrNone /\ closer[k].client \in ClientOrNone
          /\ closer[k].confirmed \subseteq Clients
      BY <2>2 DEF CloserType
    <3>3. MayPend(closer[k].pending)' /\ MayServe(closer[k].client)'
      BY <1>1, <2>1, <3>1, <3>2 DEF MayPend, MayServe
    <3>4. TodoIs(closer[k].todo, closer[k].pending, closer[k].client, closer[k].confirmed)'
      BY <1>1, <3>1 DEF TodoIs, Present
    <3>5. \A d \in closer[k].confirmed : StopConfirmed(d)'
      BY <1>3, <2>5, <3>1, <3>2
    <3> QED BY <1>1, <3>3, <3>4, <3>5
  <2> QED BY <1>1, <2>4, <2>5 DEF HeldAre, MayPend, MayServe, StopConfirmed
<1>4. CASE Spawned(c)
  <2>1. /\ Worker(c, "spawning", "spawned") /\ child' = [child EXCEPT ![c] = "alive"]
        /\ UNCHANGED <<state, client, pending, registered, future, queue>>
    BY <1>4 DEF Spawned, adapter, owned
  <2>2. /\ worker[c] = "spawning" /\ worker'[c] = "spawned"
        /\ \A d \in Clients : d # c => worker'[d] = worker[d]
        /\ \A job : job[1] # "start" => (job \in busy' <=> job \in busy)
        /\ StarterIs' /\ NeverAborted' /\ JobsAre'
    BY <1>1, <2>1, WorkerMoves DEF Active, WorkerStates, Early
  <2>3. \A d \in Clients : d # c => child'[d] = child[d]
    BY <1>0, <2>1
  <2>4. ClosesAre'
    <3>1. future[c] = "none" /\ ref[c] = "held"
      BY <2>2 DEF Held, ClosesAre, Early
    <3>2. \A d \in Clients : <<"close", d>> \in busy' <=> <<"close", d>> \in busy
      BY <2>2, JobsDiffer
    <3>3. shut' <=> shut
      BY <1>1
    <3> QED BY <1>1, <2>1, <2>2, <2>3, <3>1, <3>2, <3>3 DEF Held, ClosesAre, Early
  <2>5. HeldAre'
    BY <1>3, <2>1, <2>2 DEF Active, WorkerStates, Early, StopConfirmed
  <2>6. OwnedBy' /\ StopsProven'
    <3>1. \A d \in registered : d # c /\ d \in Clients
      BY <2>2 DEF Held, OwnedBy, Early
    <3> QED BY <1>1, <2>1, <2>2, <2>3, <3>1 DEF Held, OwnedBy, StopsProven, NoneAlive, Early
  <2> QED BY <2>2, <2>4, <2>5, <2>6 DEF Held
<1>5. CASE SpawnFails(c) \/ Handshake(c) \/ (Register(c) /\ aborted)
  <2>1. PICK from \in {"spawning", "handshake", "spawned"}, to \in {"failing", "adopting"} :
          Worker(c, from, to) /\ (to = "adopting" => from = "handshake")
    BY <1>5 DEF SpawnFails, Handshake, Register
  <2>2. UNCHANGED <<state, client, pending, registered, future, queue, child>>
    BY <1>5 DEF SpawnFails, Handshake, Register, adapter, owned, sdk
  <2>3. /\ worker[c] = from /\ worker'[c] = to
        /\ \A d \in Clients : d # c => worker'[d] = worker[d]
        /\ StarterIs' /\ NeverAborted' /\ JobsAre' /\ ClosesAre'
    BY <1>1, <2>1, <2>2, WorkerMoves DEF Active, WorkerStates, Early
  <2>4. HeldAre'
    BY <1>3, <2>1, <2>2, <2>3 DEF Active, WorkerStates, Early, StopConfirmed
  <2>5. OwnedBy' /\ StopsProven'
    BY <1>1, <2>1, <2>2, <2>3 DEF Held, OwnedBy, StopsProven, NoneAlive, Early
  <2> QED BY <2>3, <2>4, <2>5 DEF Held
\* Before a close() took the references this is the only startup.
<1>6. ASSUME ~aborted, worker[c] \in Active
      PROVE  /\ client = NoClient /\ state # "STOPPED"
             /\ \A d \in Clients : worker[d] \in Active => d = c
             /\ \A k \in Closers : closer[k].pc \notin Took
  BY <1>6 DEF Held, NeverAborted, Active, Took
<1>7. CASE Register(c) /\ ~aborted
  <2>1. /\ Worker(c, "spawned", "handshake") /\ pending' = c
        /\ UNCHANGED <<state, client, future, queue, child>>
    BY <1>7 DEF Register, sdk
  <2>2. /\ worker[c] = "spawned" /\ worker'[c] = "handshake"
        /\ \A d \in Clients : d # c => worker'[d] = worker[d]
        /\ StarterIs' /\ NeverAborted' /\ JobsAre' /\ ClosesAre'
    BY <1>1, <2>1, WorkerMoves DEF Active, WorkerStates, Early
  <2>3. /\ client = NoClient /\ state # "STOPPED"
        /\ \A d \in Clients : worker[d] \in Active => d = c
        /\ \A k \in Closers : closer[k].pc \notin Took
    BY <1>6, <1>7, <2>2 DEF Active, WorkerStates
  <2>4. HeldAre'
    BY <1>1, <2>1, <2>2, <2>3 DEF HeldAre, MayPend, MayServe, Early
  <2>5. OwnedBy'
    <3>1. registered' = registered \cup {c}
      BY <1>7 DEF Register
    <3>2. \A d \in registered' : d = c
      BY <3>1 DEF Calm
    <3> QED BY <2>1, <2>2, <3>1, <3>2 DEF Held, OwnedBy, Early
  <2>6. StopsProven'
    BY <2>1, <2>3 DEF StopsProven, NoneAlive
  <2> QED BY <2>2, <2>4, <2>5, <2>6 DEF Held
<1>8. CASE Adopt(c)
  <2>1. /\ ~aborted /\ Worker(c, "adopting", "returned") /\ client' = c
        /\ pending' = (IF pending = c THEN NoClient ELSE pending)
        /\ UNCHANGED <<state, future, queue, child, registered>>
    BY <1>8 DEF Adopt, AdoptionAborted, sdk
  <2>2. /\ worker[c] = "adopting" /\ worker'[c] = "returned"
        /\ \A d \in Clients : d # c => worker'[d] = worker[d]
        /\ StarterIs' /\ NeverAborted' /\ JobsAre' /\ ClosesAre' /\ StopsProven'
    BY <1>1, <2>1, WorkerMoves DEF Active, WorkerStates, Early
  <2>3. /\ client = NoClient /\ state # "STOPPED"
        /\ \A d \in Clients : worker[d] \in Active => d = c
        /\ \A k \in Closers : closer[k].pc \notin Took
    BY <1>6, <2>1, <2>2 DEF Active, WorkerStates
  <2>4. HeldAre'
    <3>1. MayPend(pending) /\ pending \in ClientOrNone
      BY DEF Held, HeldAre, Types, FieldTypes
    <3> QED BY <1>1, <2>1, <2>2, <2>3, <3>1 DEF HeldAre, MayPend, MayServe, ClientOrNone
  <2>5. OwnedBy'
    <3>1. \A d \in registered : d # c /\ child[d] = "alive" =>
              worker[d] # "returned" /\ pending = d
      BY <2>3, SdkConstants DEF Held, OwnedBy, Types, FieldTypes
    <3>2. registered' = registered /\ child' = child /\ client' = c
      BY <1>8, <2>1 DEF Adopt
    <3> QED BY <2>1, <2>2, <3>1, <3>2 DEF Held, OwnedBy, Early, Types, FieldTypes
  <2> QED BY <2>2, <2>4, <2>5 DEF Held
<1>9. CASE FailAsks(c) \/ AbortAsks(c)
  <2>1. PICK from \in {"failing", "adopting"}, to \in {"awaitClose", "aborting", "raised"} :
          /\ Worker(c, from, to)
          /\ from = "failing" => to # "aborting"
          /\ from = "adopting" => to # "awaitClose"
          /\ (Ask(c) /\ CanAsk(c)) \/ UNCHANGED <<future, queue>>
    BY <1>9 DEF FailAsks, AbortAsks
  <2>2. UNCHANGED <<state, client, pending, registered, child>>
    BY <1>9 DEF FailAsks, AbortAsks, owned, sdk
  <2>3. /\ worker[c] = from /\ worker'[c] = to
        /\ \A d \in Clients : d # c => worker'[d] = worker[d]
        /\ \A job : job[1] # "start" => (job \in busy' <=> job \in busy)
        /\ StarterIs' /\ NeverAborted' /\ StopsProven'
        /\ UNCHANGED <<future, queue>> => JobsAre' /\ ClosesAre'
    BY <1>1, <2>1, <2>2, WorkerMoves DEF Active, WorkerStates, Early
  <2>4. /\ JobsAre' /\ ClosesAre'
        /\ \A d \in Clients : StopConfirmed(d) => StopConfirmed(d)'
    <3>1. CASE UNCHANGED <<future, queue>>
      BY <2>3, <3>1 DEF StopConfirmed
    <3>2. CASE Ask(c) /\ CanAsk(c)
      <4>1. /\ worker[c] \notin Early
            /\ \A d \in Clients : /\ worker[d] \in Early <=> worker'[d] \in Early
                                  /\ worker[d] = "queued" => worker'[d] = "queued"
                                  /\ worker[d] = "raised" => worker'[d] = "raised"
        BY <2>1, <2>3 DEF Early
      <4>2. \A d \in Clients : /\ <<"close", d>> \in busy <=> <<"close", d>> \in busy'
                               /\ <<"stale", d>> \in busy' => <<"stale", d>> \in busy
        BY <2>3, JobsDiffer
      <4>3. /\ JobsAre' /\ ClosesAre'
            /\ \A d \in Clients : StopConfirmed(d)' <=> StopConfirmed(d) /\ (d # c \/ Asked(c))
        BY <1>1, <2>2, <3>2, <4>1, <4>2, AskHeld
      <4>4. StopConfirmed(c) => Asked(c)
        BY <2>1, <2>3, <3>2 DEF Held, ClosesAre, StopConfirmed, Asked, CanAsk
      <4> QED BY <4>3, <4>4
    <3> QED BY <2>1, <3>1, <3>2
  <2>5. HeldAre'
    BY <1>3, <2>1, <2>2, <2>3, <2>4 DEF Active, WorkerStates, Early
  <2>6. OwnedBy'
    BY <1>1, <2>1, <2>2, <2>3 DEF Held, OwnedBy, Early
  <2> QED BY <2>3, <2>4, <2>5, <2>6 DEF Held
<1>10. CASE WorkerHears(c)
  <2>1. /\ Worker(c, worker[c], "raised") /\ worker[c] \in {"awaitClose", "aborting"}
        /\ UNCHANGED <<client, queue, child, registered>>
    BY <1>10 DEF WorkerHears, sdk
  <2>2. \/ /\ StopConfirmed(c) /\ pending' = (IF pending = c THEN NoClient ELSE pending)
           /\ future' = [future EXCEPT ![c] = "popped"] /\ state' = state
        \/ UNCHANGED <<pending, future>>
    BY <1>10 DEF WorkerHears
  <2>3. /\ worker'[c] = "raised"
        /\ \A d \in Clients : d # c => worker'[d] = worker[d]
        /\ \A job : job[1] # "start" => (job \in busy' <=> job \in busy)
        /\ StarterIs' /\ NeverAborted' /\ StopsProven'
        /\ UNCHANGED <<future, queue>> => JobsAre' /\ ClosesAre'
    BY <1>1, <2>1, WorkerMoves DEF Active, WorkerStates, Early
  <2>4. /\ JobsAre' /\ ClosesAre'
        /\ \A d \in Clients : StopConfirmed(d) => StopConfirmed(d)'
    <3>1. CASE UNCHANGED future
      BY <2>1, <2>3, <3>1 DEF StopConfirmed
    <3>2. CASE StopConfirmed(c) /\ future' = [future EXCEPT ![c] = "popped"]
      <4>1. \A d \in Clients : /\ <<"close", d>> \in busy <=> <<"close", d>> \in busy'
                               /\ <<"stale", d>> \in busy' <=> <<"stale", d>> \in busy
        BY <2>3, JobsDiffer
      <4>2. ~In(queue, <<"start", c>>)
        BY <2>1 DEF Held, JobsAre
      <4>3. JobsAre'
        BY <1>0, <2>1, <2>3, <3>2, <4>1, <4>2 DEF Held, JobsAre, StopConfirmed, In, Once, OnceBut
      <4>4. shut' <=> shut
        BY <1>1
      <4>5. ClosesAre'
        BY <1>0, <1>1, <2>1, <2>3, <3>2, <4>1, <4>4 DEF Held, ClosesAre, StopConfirmed, Early
      <4> QED BY <1>0, <3>2, <4>3, <4>5 DEF StopConfirmed
    <3> QED BY <2>2, <3>1, <3>2
  <2>5. HeldAre'
    BY <1>3, <2>1, <2>2, <2>3, <2>4 DEF Active, WorkerStates, Early
  <2>6. OwnedBy'
    <3>1. \A d \in Clients : d # c /\ pending = d => pending' = d
      BY <2>2
    <3>2. StopConfirmed(c) => child[c] # "alive"
      BY DEF Held, ClosesAre, StopConfirmed
    <3> QED BY <1>1, <2>1, <2>2, <2>3, <3>1, <3>2 DEF Held, OwnedBy, Early
  <2> QED BY <2>3, <2>4, <2>5, <2>6 DEF Held
<1> QED
  BY <1>4, <1>5, <1>7, <1>8, <1>9, <1>10

\* The control executor, the SDK and the children
LEMMA SdkHeld ==
    ASSUME Types, Held, CloseInv',
           \/ StartTaken \/ CloseTaken
           \/ \E c \in Clients : CloseDone(c) \/ Crash(c)
    PROVE  Held'
<1>0. /\ queue \in Seq(Jobs) /\ Once(queue) /\ worker \in [Clients -> WorkerStates]
      /\ future \in [Clients -> FutureStates]
      /\ ref \in [Clients -> {"held", "close", "stale", "gone"}]
      /\ child \in [Clients -> {"none", "alive", "dead"}]
  BY DEF Types, PoolTypes, ThreadTypes, FieldTypes, SdkTypes, Held, JobsAre
<1>1. UNCHANGED <<state, aborted, shut, client, pending, registered, starter, closer>>
  BY DEF StartTaken, CloseTaken, CloseDone, Crash, adapter, flags, owned, tasks
<1>2. shut' <=> shut
  BY <1>1
\* A close future that gets its result had none.
<1>3. ASSUME NEW c \in Clients, NEW result, future[c] = "asked",
             future' = [future EXCEPT ![c] = result] \/ future' = future, worker' = worker
      PROVE  HeldAre'
  <2>1. \A d : StopConfirmed(d) /\ d \in Clients => StopConfirmed(d)'
    BY <1>0, <1>3 DEF StopConfirmed
  <2>2. \A k \in Closers : closer[k].confirmed \subseteq Clients
    BY DEF Types, TaskTypes, CloserType
  <2> QED BY <1>1, <1>3, <2>1, <2>2 DEF Held, HeldAre, MayPend, MayServe, TodoIs, Present
\* Children die, and none comes to life.
<1>4. ASSUME worker' = worker, \A c \in Clients : child'[c] = "alive" => child[c] = "alive"
      PROVE  StarterIs' /\ NeverAborted' /\ OwnedBy' /\ StopsProven'
  BY <1>1, <1>4 DEF Held, StarterIs, NeverAborted, OwnedBy, StopsProven, NoneAlive
<1>5. CASE StartTaken
  <2> DEFINE c == Head(queue)[2]
  <2>1. /\ queue # <<>> /\ Head(queue)[1] = "start" /\ queue' = Tail(queue)
        /\ busy' = busy \cup {Head(queue)} /\ worker' = [worker EXCEPT ![c] = "spawning"]
        /\ UNCHANGED <<future, ref, child>>
    BY <1>5 DEF StartTaken, Take, adapter, sdk
  <2>2. /\ Head(queue) \in Jobs /\ In(queue, Head(queue)) /\ Once(queue')
        /\ \A job : In(queue', job) => In(queue, job)
        /\ ~In(queue', Head(queue))
    BY <1>0, <2>1, Served
  <2>3. c \in Clients /\ Head(queue) = <<"start", c>>
    BY <2>1, <2>2, JobsOf
  <2>4. worker[c] = "queued"
    BY <2>2, <2>3 DEF Held, JobsAre
  <2> HIDE DEF c
  <2>5. worker'[c] = "spawning" /\ \A d \in Clients : d # c => worker'[d] = worker[d]
    BY <1>0, <2>1, <2>3 DEF c
  <2>6. JobsAre'
    BY <2>1, <2>2, <2>3, <2>5, JobsDiffer DEF Held, JobsAre
  <2>7. StarterIs' /\ NeverAborted'
    BY <1>1, <2>3, <2>4, <2>5 DEF Held, StarterIs, NeverAborted, Active, WorkerStates
  <2>8. ClosesAre'
    <3>1. \A d \in Clients : <<"close", d>> \in busy' <=> <<"close", d>> \in busy
      BY <2>1, <2>3, JobsDiffer
    <3>2. future[c] = "none" /\ ref[c] = "held" /\ child[c] = "none"
      BY <2>3, <2>4 DEF Held, ClosesAre, Early
    <3>3. UNCHANGED <<future, ref, child>>
      BY <2>1
    <3> QED BY <1>2, <2>3, <2>5, <3>1, <3>2, <3>3 DEF Held, ClosesAre
  <2>9. HeldAre'
    <3>1. \A d \in ClientOrNone : (MayPend(d) => MayPend(d)') /\ (MayServe(d) => MayServe(d)')
      BY <2>3, <2>4, <2>5 DEF MayPend, MayServe, Early, ClientOrNone
    <3>2. /\ pending \in ClientOrNone /\ client \in ClientOrNone
          /\ \A k \in Closers : /\ closer[k].pending \in ClientOrNone
                                /\ closer[k].client \in ClientOrNone
      BY DEF Types, FieldTypes, TaskTypes, CloserType
    <3>3. MayPend(pending)' /\ MayServe(client)'
      BY <1>1, <3>1, <3>2 DEF Held, HeldAre, MayPend, MayServe
    <3>4. \A k \in Closers : closer[k].pc \in Took =>
              MayPend(closer[k].pending)' /\ MayServe(closer[k].client)'
      <4> SUFFICES ASSUME NEW k \in Closers, closer[k].pc \in Took
                   PROVE  MayPend(closer[k].pending)' /\ MayServe(closer[k].client)'
        OBVIOUS
      <4>1. MayPend(closer[k].pending) /\ MayServe(closer[k].client)
        BY DEF Held, HeldAre
      <4> QED BY <1>1, <3>1, <3>2, <4>1 DEF MayPend, MayServe
    <3>5. \A k \in Closers : closer[k].pc \in Took =>
              /\ TodoIs(closer[k].todo, closer[k].pending, closer[k].client,
                        closer[k].confirmed)'
              /\ \A d \in closer[k].confirmed : StopConfirmed(d)'
      BY <1>1, <2>1 DEF Held, HeldAre, TodoIs, Present, StopConfirmed
    <3> QED BY <1>1, <3>3, <3>4, <3>5 DEF HeldAre, MayPend, MayServe, StopConfirmed
  <2>10. OwnedBy' /\ StopsProven'
    <3>1. \A d \in registered : d # c
      BY <2>4 DEF Held, OwnedBy, Early
    <3> QED BY <1>1, <2>1, <2>5, <3>1 DEF Held, OwnedBy, StopsProven, NoneAlive
  <2> QED BY <2>6, <2>7, <2>8, <2>9, <2>10 DEF Held
<1>6. CASE CloseTaken
  <2> DEFINE c == Head(queue)[2]
  <2>1. PICK kind \in {"close", "stale"} :
          /\ queue # <<>> /\ Head(queue)[1] = kind /\ queue' = Tail(queue)
          /\ IF ref[c] = "held"
             THEN /\ ref' = [ref EXCEPT ![c] = kind]
                  /\ busy' = busy \cup {Head(queue)}
                  /\ UNCHANGED <<future, stale>>
             ELSE /\ IF kind = "close"
                     THEN future' = [future EXCEPT ![c] = "ok"] /\ UNCHANGED stale
                     ELSE stale' = "ok" /\ UNCHANGED future
                  /\ UNCHANGED <<busy, ref>>
    BY <1>6 DEF CloseTaken, Take
  <2>2. UNCHANGED <<worker, child>>
    BY <1>6 DEF CloseTaken
  <2>3. /\ Head(queue) \in Jobs /\ In(queue, Head(queue)) /\ Once(queue')
        /\ \A job : In(queue', job) => In(queue, job)
        /\ ~In(queue', Head(queue))
    BY <1>0, <2>1, Served
  <2>4. c \in Clients /\ Head(queue) = <<kind, c>>
    BY <2>1, <2>3, JobsOf
  <2>5. kind = "close" /\ future[c] = "asked" /\ <<"close", c>> \notin busy
    BY <2>3, <2>4 DEF Held, JobsAre
  <2>6. CASE ref[c] = "held"
    <3>1. /\ ref' = [ref EXCEPT ![c] = "close"] /\ busy' = busy \cup {<<"close", c>>}
          /\ future' = future
      BY <2>1, <2>4, <2>5, <2>6
    <3> HIDE DEF c
    <3>2. JobsAre'
      BY <2>2, <2>3, <2>4, <2>5, <3>1, JobsDiffer DEF Held, JobsAre
    <3>3. ClosesAre'
      BY <1>0, <1>2, <2>2, <2>4, <2>5, <3>1, JobsDiffer DEF Held, ClosesAre
    <3> QED BY <1>1, <1>4, <2>2, <3>1, <3>2, <3>3, HeldFrame DEF Held
  <2>7. CASE ref[c] # "held"
    <3>1. future' = [future EXCEPT ![c] = "ok"] /\ UNCHANGED <<busy, ref>>
      BY <2>1, <2>5, <2>7
    <3> HIDE DEF c
    <3>2. child[c] # "alive"
      BY <2>4, <2>5, <2>7 DEF Held, ClosesAre
    <3>3. JobsAre'
      <4>1. \A d \in Clients : In(queue', <<"close", d>>) => d # c
        BY <2>3, <2>4, <2>5
      <4>2. \A d \in Clients : d # c => future'[d] = future[d]
        BY <1>0, <3>1
      <4> QED BY <2>2, <2>3, <2>5, <3>1, <4>1, <4>2 DEF Held, JobsAre
    <3>4. ClosesAre'
      BY <1>0, <1>2, <2>2, <2>4, <2>5, <3>1, <3>2 DEF Held, ClosesAre
    <3> QED BY <1>3, <1>4, <2>2, <2>4, <2>5, <3>1, <3>3, <3>4 DEF Held
  <2> QED BY <2>6, <2>7
<1>7. ASSUME NEW c \in Clients, CloseDone(c) PROVE Held'
  <2>1. PICK kind \in {"close", "stale"} :
          /\ <<kind, c>> \in busy /\ busy' = busy \ {<<kind, c>>}
          /\ ref' = [ref EXCEPT ![c] = "gone"]
          /\ \/ /\ child' = [child EXCEPT ![c] = IF @ = "alive" THEN "dead" ELSE @]
                /\ Result(kind, c, "ok")
             \/ Result(kind, c, "failed") /\ child' = child
    BY <1>7 DEF CloseDone
  <2>2. UNCHANGED <<queue, worker>>
    BY <1>7 DEF CloseDone
  <2>3. kind = "close" /\ future[c] = "asked"
    BY <2>1 DEF Held, JobsAre
  <2>4. PICK result \in {"ok", "failed"} :
          /\ future' = [future EXCEPT ![c] = result]
          /\ result = "ok" => child'[c] # "alive"
          /\ \A d \in Clients : child'[d] = "alive" => child[d] = "alive"
          /\ child'[c] = "none" <=> child[c] = "none"
          /\ \A d \in Clients : d # c => child'[d] = child[d]
    BY <1>0, <2>1, <2>3 DEF Result
  <2>5. ~In(queue, <<"close", c>>)
    BY <2>1, <2>3 DEF Held, JobsAre
  <2>6. JobsAre'
    BY <1>0, <2>1, <2>2, <2>3, <2>4, <2>5, JobsDiffer DEF Held, JobsAre, In, Once, OnceBut
  <2>7. ClosesAre'
    <3>1. worker[c] \notin Early
      BY <2>3 DEF Held, ClosesAre
    <3> QED BY <1>0, <1>2, <2>1, <2>2, <2>3, <2>4, <3>1, JobsDiffer DEF Held, ClosesAre
  <2> QED BY <1>3, <1>4, <2>2, <2>3, <2>4, <2>6, <2>7 DEF Held
<1>8. ASSUME NEW c \in Clients, Crash(c) PROVE Held'
  <2>1. /\ child[c] = "alive" /\ child' = [child EXCEPT ![c] = "dead"]
        /\ UNCHANGED <<future, queue, busy, worker, ref>>
    BY <1>8 DEF Crash, adapter, executor, pool, threads
  <2>2. ClosesAre'
    BY <1>0, <1>2, <2>1 DEF Held, ClosesAre
  <2> QED BY <1>0, <1>1, <1>4, <2>1, <2>2, HeldFrame DEF Held
<1> QED
  BY <1>5, <1>6, <1>7, <1>8

\* No client is forgotten.
LEMMA RegisteredGrows == [Next]_vars => registered \subseteq registered'
<1> SUFFICES ASSUME [Next]_vars PROVE registered \subseteq registered'
  OBVIOUS
<1>1. CASE LoopStep
  BY <1>1 DEF LoopStep, StartRequested, StaleClosed, StaleFailed, StaleCancelled, Started,
     StartFails, StartGivenUp, CloseCalled, DrainEnds, CloseEnters, CloseSnapshots, CloseAsks,
     CloseHears, CloseStops, CloseFails, CloseCancelled, CloseRestores, RpcCalled,
     RpcTimesOut, RpcCancelled, RpcFails, adapter, owned
<1>2. CASE WorkerStep
  BY <1>2 DEF WorkerStep, Spawned, SpawnFails, Register, Handshake, FailAsks, Adopt,
     AbortAsks, WorkerHears, adapter, owned
<1>3. CASE SdkStep
  BY <1>3 DEF SdkStep, StartTaken, RpcTaken, CloseTaken, CloseDone, Crash,
     UnsupportedRequest, RpcReturns, adapter, owned
<1>4. CASE AtRest \/ UNCHANGED vars
  BY <1>4 DEF AtRest, vars, adapter, owned
<1> QED
  BY <1>1, <1>2, <1>3, <1>4 DEF Next

LEMMA HeldKept ==
    ASSUME Types, Calm => Held, [Next]_vars, Calm'
    PROVE  Calm /\ Held'
<1>1. Calm
  BY StaleMoves, RegisteredGrows DEF Calm
<1>2. Held /\ CloseInv /\ ~LateFailure
  BY <1>1 DEF Held, LateFailure, StaleFailed, StarterIs
<1>3. CloseInv'
  BY <1>2, CloseInvKept
<1> QED
  BY <1>1, <1>2, <1>3, StarterHeld, CloserHeld, CloseCalledHeld, RpcHeld, WorkerHeld, SdkHeld
     DEF Next, LoopStep, WorkerStep, SdkStep

LEMMA HeldAlways == Spec => [](Types /\ (Calm => Held))
<1>1. Init => Types /\ (Calm => Held)
  BY TypesInitially, HeldInitially
<1>2. Types /\ (Calm => Held) /\ [Next]_vars => (Types /\ (Calm => Held))'
  BY TypesKept, HeldKept
<1> QED
  BY <1>1, <1>2, PTL DEF Spec

LEMMA HeldOwns == Types /\ Held => ChildrenOwned /\ StopsProven
<1> SUFFICES ASSUME Types, Held PROVE ChildrenOwned
  BY DEF Held
<1>1. ASSUME NEW c \in registered, child[c] = "alive"
      PROVE  c \in {client, pending} \/ \E k \in Closers : c \in Taken(k)
  <2>1. c # NoClient
    BY SdkConstants DEF Types, FieldTypes
  <2>2. \/ c \in {client, pending}
        \/ \E k \in Closers : closer[k].pending = c \/ closer[k].client = c
    BY <1>1 DEF Held, OwnedBy
  <2> QED BY <2>1, <2>2 DEF Taken
<1> QED
  BY <1>1 DEF ChildrenOwned

\* A child that the adapter has registered is never lost, whatever fails, is
\* cancelled or times out, until the instance closes a degraded runtime to start
\* another or registers a second client.
THEOREM KnownOwnedWhileCalm == Spec => []KnownIsOwned
<1>1. Types /\ (Calm => Held) => KnownIsOwned
  BY HeldOwns DEF KnownIsOwned
<1> QED
  BY <1>1, HeldAlways, PTL

\* STOPPED is evidence that every registered child is dead, to the same extent.
THEOREM StoppedProvesWhileCalm == Spec => []StoppedIsEvidence
<1>1. Types /\ (Calm => Held) => StoppedIsEvidence
  BY HeldOwns DEF StoppedIsEvidence, StopsProven, NoneAlive
<1> QED
  BY <1>1, HeldAlways, PTL

\* An instance that starts at most one client stays calm: a degraded runtime is
\* only closed when there is another client to start.
LEMMA OneClientIsCalm ==
    ASSUME \A c, d \in Clients : c = d
    PROVE  Spec => []Calm
<1>1. Init => Calm
  BY DEF Init, Calm
<1>2. Types /\ (Calm => Held) /\ Calm /\ [Next]_vars => Calm'
  <2> SUFFICES ASSUME Types, Held, Calm, [Next]_vars PROVE Calm'
    OBVIOUS
  <2>1. ~(queue # <<>> /\ Head(queue)[1] = "stale")
    <3> SUFFICES ASSUME queue # <<>>, Head(queue)[1] = "stale" PROVE FALSE
      OBVIOUS
    <3>1. In(queue, Head(queue)) /\ Head(queue) \in Jobs
      BY Served DEF Types, PoolTypes
    <3>2. Head(queue)[2] \in Clients /\ Head(queue) = <<"stale", Head(queue)[2]>>
      BY <3>1, JobsOf
    <3> QED BY <3>1, <3>2 DEF Held, JobsAre
  <2>2. \A c \in Clients : <<"stale", c>> \notin busy
    BY DEF Held, JobsAre
  <2>3. ASSUME NEW c \in Clients, StartRequested(c), MustCloseStale PROVE FALSE
    <3>1. PICK d \in Clients : worker[d] = "none"
      BY <2>3 DEF StartRequested
    <3>2. client \in Clients /\ worker[client] = "returned"
      BY <2>3 DEF MustCloseStale, Held, HeldAre, MayServe, Types, FieldTypes, ClientOrNone
    <3> QED BY <3>1, <3>2
  <2>4. \A c, d \in registered' : c = d
    BY TypesKept DEF Types, FieldTypes
  <2> QED BY <2>1, <2>2, <2>3, <2>4, StaleMoves DEF Calm
<1> QED
  BY <1>1, <1>2, HeldAlways, PTL DEF Spec

\* The same for an instance with one client, where nothing is left to assume.
THEOREM KnownOwnedOfOneClient ==
    ASSUME \A c, d \in Clients : c = d
    PROVE  Spec => [](ChildrenOwned /\ StopsProven)
<1>1. Spec => []Calm
  BY OneClientIsCalm
<1>2. Calm /\ KnownIsOwned /\ StoppedIsEvidence => ChildrenOwned /\ StopsProven
  BY DEF KnownIsOwned, StoppedIsEvidence, StopsProven
<1> QED
  BY <1>1, <1>2, KnownOwnedWhileCalm, StoppedProvesWhileCalm, PTL
=============================================================================
