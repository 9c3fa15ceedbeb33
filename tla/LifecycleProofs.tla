--------------------------- MODULE LifecycleProofs --------------------------
(***************************************************************************)
(* Proofs about Lifecycle, for any number of requests, any environments    *)
(* and any size of the schema: types, GracefulExit and SchemaWhole.        *)
(***************************************************************************)
EXTENDS Lifecycle, FiniteSetTheorems, TLAPS

Startup == {"load", "ping", "sleep", "migrate"}
Labels == Asks \cup {"new", "done", "over", "idle", "set", "answer", "stream"}

\* What the variables range over, with what the pool's bound needs.
Typed ==
    /\ env \in Envs
    /\ phase \in Startup \cup {"serve", "failed", "poll", "wait", "close", "exited", "crashed"}
    /\ code \in 0..2
    /\ schema \in 0..Objects /\ mine \in 0..Objects
    /\ creating => mine < Objects
    /\ at \in [Clients -> Labels]

\* Who holds a connection is in the middle of a statement.
Holding ==
    /\ IsFiniteSet(held)
    /\ held \subseteq { x \in Clients : at[x] \in Asks }
    /\ held # {} => Cardinality(held) <= env.max

\* No total is read that has not been there.
Reading ==
    /\ total \in Nat
    /\ seen \in [Clients -> 0..total]
    /\ gauge \in 0..total

\* What the phases say about the listener and the requests.
Stopping ==
    /\ phase \in Startup => ~listening /\ at[Sampler] = "over" /\ \A r \in Requests : at[r] = "new"
    /\ phase \in {"poll", "wait", "exited"} => ~listening
    /\ phase \in {"close", "exited"} /\ code = 0 =>
          ~listening /\ \A r \in Requests : at[r] \in {"new", "done"}
    /\ phase = "exited" => held = {}

\* Who migrates on start begins to listen with the commit of the schema.
Prepared ==
    /\ schema \in {0, Objects}
    /\ listening /\ env.migrate => schema = Objects

LInv == Typed /\ Holding /\ Reading /\ Stopping /\ Prepared

-----------------------------------------------------------------------------

\* A process that has not started has nothing to violate.
LEMMA InitInv == Init => LInv
  <1> SUFFICES ASSUME Init PROVE LInv
      OBVIOUS
  <1> USE LifecycleAssumption DEF Init, Fresh, Clients
  <1>1. Typed /\ Prepared
      BY DEF Typed, Startup, Labels, Prepared
  <1>2. Holding
      BY FS_EmptySet DEF Holding
  <1>3. Reading /\ Stopping
      BY DEF Reading, Stopping, Startup
  <1> QED
      BY <1>1, <1>2, <1>3 DEF LInv

\* The part of the invariant about money, step by step.
LEMMA ReadingStep == LInv /\ [Next]_vars => Reading'
  <1> SUFFICES ASSUME LInv, [Next]_vars PROVE Reading'
      OBVIOUS
  <1> USE LifecycleAssumption DEF LInv, Reading, ctl, boot, work, money
  <1>1. CASE UNCHANGED vars
      BY <1>1 DEF vars
  <1>2. CASE Main
      BY <1>2 DEF Main, Load, PingOk, Serve, PingFails, Retry, LookFor, Create, CommitSchema,
                  MigrateFails, AbortMigration, Return, ReturnErr, BeginShutdown, Poll,
                  GraceExpires, Exit
  <1>3. ASSUME NEW x \in Clients, Work(x) PROVE Reading'
      BY <1>3 DEF Work, Acquire, PoolClosed, TimesOut, Abandon, SetGauges, Respond, Tick,
                  SamplerStops
  <1>4. CASE Signal \/ ListenFails \/ OtherMigrates
      BY <1>4 DEF Signal, ListenFails, OtherMigrates
  <1>5. CASE Crash
      BY <1>5 DEF Crash, Fresh
  <1>6. ASSUME NEW r \in Requests, Accept(r) \/ ClientLeaves(r) PROVE Reading'
      BY <1>6 DEF Accept, ClientLeaves
  <1>7. ASSUME NEW x \in Clients, DbAnswers(x) PROVE Reading'
      <2>1. total' \in {total, total + 1} /\ gauge' = gauge
          BY <1>7 DEF DbAnswers
      <2>2. seen' \in [Clients -> 0..total]
          BY <1>7 DEF DbAnswers
      <2> QED
          BY <2>1, <2>2
  <1>8. ASSUME NEW x \in Clients, DbError(x) PROVE Reading'
      BY <1>8 DEF DbError, Abandon
  <1> QED
      BY <1>1, <1>2, <1>3, <1>4, <1>5, <1>6, <1>7, <1>8 DEF Next, Environment, Ended

\* Control: where the process is, and the labels of its goroutines.
LEMMA TypedStep == LInv /\ [Next]_vars => Typed'
  <1> SUFFICES ASSUME LInv, [Next]_vars PROVE Typed'
      OBVIOUS
  <1> USE LifecycleAssumption DEF LInv, Typed, Labels, Startup, Asks, ctl, boot, work, money
  <1>1. CASE UNCHANGED vars
      BY <1>1 DEF vars
  <1>2. CASE Main
      <2>1. CASE Load \/ PingFails \/ Retry \/ ReturnErr \/ BeginShutdown \/ Poll \/ GraceExpires \/ Exit
          BY <2>1 DEF Load, PingFails, Retry, Return, ReturnErr, BeginShutdown, Poll, GraceExpires,
                      Exit
      <2>2. CASE PingOk
          BY <2>2 DEF PingOk, Serve, Clients
      <2>3. CASE LookFor \/ MigrateFails
          BY <2>3 DEF LookFor, MigrateFails, AbortMigration, Return
      <2>4. CASE Create
          BY <2>4 DEF Create, AbortMigration, Return, Persisted
      <2>5. CASE CommitSchema
          BY <2>5 DEF CommitSchema, Serve, Return, Clients
      <2> QED
          BY <1>2, <2>1, <2>2, <2>3, <2>4, <2>5 DEF Main
  <1>3. ASSUME NEW x \in Clients, Work(x) PROVE Typed'
      BY <1>3 DEF Work, Acquire, PoolClosed, TimesOut, Abandon, OnError, SetGauges, Respond, Tick,
                  SamplerStops, Goto, Clients
  <1>4. CASE Signal \/ ListenFails \/ OtherMigrates
      BY <1>4 DEF Signal, ListenFails, OtherMigrates
  <1>5. CASE Crash
      BY <1>5 DEF Crash, Fresh
  <1>6. ASSUME NEW r \in Requests, Accept(r) \/ ClientLeaves(r) PROVE Typed'
      BY <1>6 DEF Accept, ClientLeaves, Goto, First, Clients
  <1>7. ASSUME NEW x \in Clients, DbAnswers(x) \/ DbError(x) PROVE Typed'
      BY <1>7 DEF DbAnswers, Then, DbError, Abandon, OnError, Goto
  <1> QED
      BY <1>1, <1>2, <1>3, <1>4, <1>5, <1>6, <1>7 DEF Next, Environment, Ended

\* A goroutine that gives its connection back, or has none, may go anywhere.
LEMMA GivesBack ==
    ASSUME Typed, Holding, NEW x \in Clients, NEW label, Goto(x, label), env' = env,
           \/ held' = held \ {x}
           \/ x \notin held /\ held' = held
    PROVE  Holding'
  <1>1. held' = held \ {x}
      OBVIOUS
  <1>2. IsFiniteSet(held') /\ Cardinality(held') <= Cardinality(held)
      <2>1. IsFiniteSet(held)
          BY DEF Holding
      <2>2. Cardinality(held) \in Nat
          BY <2>1, FS_CardinalityType
      <2>3. Cardinality(held \ {x}) = IF x \in held THEN Cardinality(held) - 1 ELSE Cardinality(held)
          BY <2>1, FS_RemoveElement
      <2> QED
          BY <1>1, <2>1, <2>2, <2>3, FS_RemoveElement
  <1>3. held' \subseteq { y \in Clients : at'[y] \in Asks }
      BY <1>1 DEF Holding, Goto, Typed
  <1>4. held' # {} => Cardinality(held') <= env'.max
      <2>1. SUFFICES ASSUME held' # {} PROVE Cardinality(held') <= env'.max
          OBVIOUS
      <2>2. Cardinality(held) <= env.max
          BY <2>1, <1>1 DEF Holding
      <2>3. Cardinality(held) \in Nat /\ Cardinality(held') \in Nat /\ env.max \in Int
          BY <1>2, FS_CardinalityType, LifecycleAssumption DEF Holding, Typed
      <2> QED
          BY <1>2, <2>2, <2>3
  <1> QED
      BY <1>2, <1>3, <1>4 DEF Holding

\* The pool: no connection is handed out twice, beyond the maximum, or to a
\* goroutine that asks nothing.
LEMMA HoldingStep == LInv /\ [Next]_vars => Holding'
  <1> SUFFICES ASSUME LInv, [Next]_vars PROVE Holding'
      OBVIOUS
  <1> USE LifecycleAssumption DEF LInv, ctl, boot, work, money
  <1>1. CASE UNCHANGED vars
      BY <1>1 DEF vars, Holding
  <1>2. CASE Main
      <2>1. CASE UNCHANGED <<env, at, held>>
          BY <2>1 DEF Holding
      <2>2. CASE Serve /\ UNCHANGED <<env, held>> /\ phase \in Startup
          <3>1. held = {}
              BY <2>2 DEF Holding, Stopping, Asks, Clients
          <3> QED
              BY <2>2, <3>1 DEF Holding
      <2> QED
          BY <1>2, <2>1, <2>2
             DEF Main, Load, PingOk, PingFails, Retry, LookFor, Create, CommitSchema,
                 MigrateFails, AbortMigration, ReturnErr, BeginShutdown, Poll, GraceExpires, Exit,
                 Startup
  <1>3. ASSUME NEW x \in Clients, Work(x) PROVE Holding'
      <2>1. CASE Acquire(x)
          <3>1. held' = held \cup {x} /\ x \notin held /\ at[x] \in Asks /\ UNCHANGED <<env, at>>
              BY <2>1 DEF Acquire
          <3>2. IsFiniteSet(held) /\ Cardinality(held) \in Nat
              BY FS_CardinalityType DEF Holding
          <3>3. IsFiniteSet(held') /\ Cardinality(held') = Cardinality(held) + 1
              BY <3>1, <3>2, FS_AddElement
          <3>4. Cardinality(held) < env.max /\ env.max \in Int
              BY <2>1 DEF Acquire, ConnFree, Typed
          <3>5. Cardinality(held') <= env'.max
              BY <3>1, <3>2, <3>3, <3>4
          <3> QED
              BY <3>1, <3>3, <3>5 DEF Holding
      <2>2. CASE PoolClosed(x) \/ TimesOut(x)
          BY <2>2, GivesBack DEF PoolClosed, TimesOut, Abandon
      <2>3. CASE SetGauges(x) \/ (x # Sampler /\ Respond(x))
          <3>1. x \notin held
              BY <2>3 DEF Holding, SetGauges, Respond, Asks
          <3> QED
              BY <2>3, <3>1, GivesBack DEF SetGauges, Respond
      <2>4. CASE x = Sampler /\ Tick
          <3>1. x \notin held
              BY <2>4 DEF Holding, Tick, Asks
          <3> QED
              BY <2>4, <3>1, GivesBack DEF Tick
      <2>5. CASE x = Sampler /\ SamplerStops
          BY <2>5, GivesBack DEF SamplerStops
      <2> QED
          BY <1>3, <2>1, <2>2, <2>3, <2>4, <2>5 DEF Work
  <1>4. CASE Signal \/ ListenFails \/ OtherMigrates
      BY <1>4 DEF Signal, ListenFails, OtherMigrates, Holding
  <1>5. CASE Crash
      BY <1>5, FS_EmptySet DEF Crash, Fresh, Holding
  <1>6. ASSUME NEW r \in Requests, Accept(r) \/ ClientLeaves(r) PROVE Holding'
      <2>1. r \in Clients
          BY DEF Clients
      <2>2. CASE Accept(r)
          <3>1. r \notin held
              BY <2>2 DEF Holding, Accept, Asks
          <3>2. PICK label \in First : Goto(r, label)
              BY <2>2 DEF Accept
          <3> QED
              BY <2>1, <2>2, <3>1, <3>2, GivesBack DEF Accept
      <2>3. CASE ClientLeaves(r)
          BY <2>1, <2>3, GivesBack DEF ClientLeaves
      <2> QED
          BY <1>6, <2>2, <2>3
  <1>7. ASSUME NEW x \in Clients, DbAnswers(x) \/ DbError(x) PROVE Holding'
      BY <1>7, GivesBack DEF DbAnswers, DbError, Abandon
  <1> QED
      BY <1>1, <1>2, <1>3, <1>4, <1>5, <1>6, <1>7 DEF Next, Environment, Ended

\* The way out: once nothing is accepted, no request becomes active again.
LEMMA StoppingStep == LInv /\ [Next]_vars => Stopping'
  <1> SUFFICES ASSUME LInv, [Next]_vars PROVE Stopping'
      OBVIOUS
  <1> USE LifecycleAssumption DEF LInv, Stopping, Startup, ctl, boot, work, money
  <1>1. CASE UNCHANGED vars
      BY <1>1 DEF vars
  <1>2. CASE Main
      <2>1. CASE Load
          <3>1. held = {}
              BY <2>1 DEF Load, Holding, Asks, Clients
          <3> QED
              BY <2>1, <3>1 DEF Load
      <2>2. CASE PingOk \/ CommitSchema
          BY <2>2 DEF PingOk, CommitSchema, Serve, Return
      <2>3. CASE PingFails \/ Retry \/ LookFor \/ Create \/ MigrateFails
          BY <2>3 DEF PingFails, Retry, LookFor, Create, MigrateFails, AbortMigration, Return
      <2>4. CASE ReturnErr \/ BeginShutdown \/ GraceExpires \/ Exit
          BY <2>4 DEF ReturnErr, BeginShutdown, GraceExpires, Exit, Return
      <2>5. CASE Poll
          BY <2>5 DEF Poll, Return, Active
      <2> QED
          BY <1>2, <2>1, <2>2, <2>3, <2>4, <2>5 DEF Main
  <1>3. ASSUME NEW x \in Clients, Work(x) PROVE Stopping'
      <2> USE DEF Typed, Goto, OnError, Alive, Clients, Asks
      <2>1. CASE Acquire(x)
          BY <1>3, <2>1 DEF Acquire
      <2>2. CASE PoolClosed(x) \/ TimesOut(x)
          BY <1>3, <2>2 DEF PoolClosed, TimesOut, Abandon
      <2>3. CASE SetGauges(x) \/ (x # Sampler /\ Respond(x))
          BY <1>3, <2>3 DEF SetGauges, Respond
      <2>4. CASE x = Sampler /\ (Tick \/ SamplerStops)
          BY <1>3, <2>4 DEF Tick, SamplerStops
      <2> QED
          BY <1>3, <2>1, <2>2, <2>3, <2>4 DEF Work
  <1>4. CASE Signal \/ ListenFails \/ OtherMigrates
      BY <1>4 DEF Signal, ListenFails, OtherMigrates, Alive
  <1>5. CASE Crash
      BY <1>5 DEF Crash
  <1>6. ASSUME NEW r \in Requests, Accept(r) \/ ClientLeaves(r) PROVE Stopping'
      BY <1>6 DEF Accept, ClientLeaves, Goto, Typed, Alive, Clients
  <1>7. ASSUME NEW x \in Clients, DbAnswers(x) \/ DbError(x) PROVE Stopping'
      <2>1. at[x] \in Asks
          BY <1>7 DEF Holding, DbAnswers, DbError
      <2> QED
          BY <1>7, <2>1 DEF DbAnswers, DbError, Abandon, OnError, Goto, Typed, Alive, Clients, Asks,
                            Then
  <1> QED
      BY <1>1, <1>2, <1>3, <1>4, <1>5, <1>6, <1>7 DEF Next, Environment, Ended

\* The schema: what is committed is nothing or everything.
LEMMA PreparedStep == LInv /\ [Next]_vars => Prepared'
  <1> SUFFICES ASSUME LInv, [Next]_vars PROVE Prepared'
      OBVIOUS
  <1> USE LifecycleAssumption DEF LInv, Prepared, ctl, boot, work, money
  <1>1. CASE UNCHANGED vars
      BY <1>1 DEF vars
  <1>2. CASE Main
      <2>1. CASE PingOk \/ CommitSchema
          BY <2>1 DEF PingOk, CommitSchema, Serve
      <2>2. CASE Create
          BY <2>2 DEF Create, Persisted, AbortMigration
      <2> QED
          BY <1>2, <2>1, <2>2
             DEF Main, Load, PingFails, Retry, LookFor, MigrateFails, AbortMigration, ReturnErr,
                 BeginShutdown, Poll, GraceExpires, Exit
  <1>3. ASSUME NEW x \in Clients, Work(x) PROVE Prepared'
      BY <1>3 DEF Work, Acquire, PoolClosed, TimesOut, Abandon, SetGauges, Respond, Tick,
                  SamplerStops
  <1>4. CASE Signal \/ ListenFails \/ OtherMigrates \/ Crash
      BY <1>4 DEF Signal, ListenFails, OtherMigrates, Crash
  <1>5. ASSUME NEW r \in Requests, Accept(r) \/ ClientLeaves(r) PROVE Prepared'
      BY <1>5 DEF Accept, ClientLeaves
  <1>6. ASSUME NEW x \in Clients, DbAnswers(x) \/ DbError(x) PROVE Prepared'
      BY <1>6 DEF DbAnswers, DbError, Abandon
  <1> QED
      BY <1>1, <1>2, <1>3, <1>4, <1>5, <1>6 DEF Next, Environment, Ended

-----------------------------------------------------------------------------

\* The inductive invariant holds from start to exit.
LEMMA LifecycleInvariance == Spec => []LInv
  <1>1. LInv /\ [Next]_vars => LInv'
      BY TypedStep, HoldingStep, ReadingStep, StoppingStep, PreparedStep DEF LInv
  <1> QED
      BY InitInv, <1>1, PTL DEF Spec

\* However many requests there are, the pool never lends out more connections than
\* it has, and only to goroutines in the middle of a statement; the gauge never
\* shows a total that was never there.
THEOREM LifecycleTypes == Spec => []TypeOK
  <1>1. LInv => TypeOK
      BY DEF LInv, Typed, Holding, Reading, TypeOK, Startup
  <1> QED
      BY <1>1, LifecycleInvariance, PTL

\* run: whatever way it comes to its end, no statement is cut off, and exit code 0
\* says that every accepted request is over.
THEOREM ExitsGracefully == Spec => []GracefulExit
  <1>1. LInv => GracefulExit
      BY DEF LInv, Stopping, GracefulExit
  <1> QED
      BY <1>1, LifecycleInvariance, PTL

\* Migrate: for a script of any length, against another replica that migrates and
\* failures at any point, the schema is all or nothing, and whole when a process
\* that migrates on start accepts its first request.
THEOREM MigratesWhole == Spec => []SchemaWhole
  <1>1. LInv => SchemaWhole
      BY DEF LInv, Prepared, SchemaWhole
  <1> QED
      BY <1>1, LifecycleInvariance, PTL
=============================================================================
