----------------------------- MODULE Lifecycle ------------------------------
(***************************************************************************)
(* One process of cmd/wallet from its environment to its exit code: run,   *)
(* connectDB, Migrate, sampleInvariants and the graceful shutdown, with    *)
(* the requests the server has accepted and the connections they hold.     *)
(*                                                                         *)
(* Time is left out: a deadline may pass whenever the code waits with one. *)
(* The database answers when it likes, or never.  Another replica may be   *)
(* migrating the same database.  What a request does to money is           *)
(* WalletApi's subject; here it is a statement or two on a connection, the *)
(* last of which adds to the total that the gauges show.                   *)
(***************************************************************************)
EXTENDS Integers, FiniteSets

CONSTANTS
    Requests,            \* HTTP requests that may arrive
    Sampler,             \* the goroutine of sampleInvariants
    Envs,                \* environments the process may be started in
    Objects,             \* CREATE statements of schema.sql
    MinPings, MaxPings   \* failed pings that fit into the 60 seconds of connectDB

ASSUME LifecycleAssumption ==
    /\ Sampler \notin Requests
    /\ Envs \subseteq [url : BOOLEAN, max : Int, min : Int, migrate : BOOLEAN,
                       sample : BOOLEAN]
    /\ Objects \in Nat \ {0}
    /\ MinPings \in Nat \ {0} /\ MaxPings \in Nat /\ MinPings <= MaxPings

VARIABLES
    env,                    \* the environment, which is the configuration
    phase, code,            \* where run is, and the exit code it is heading for
    signalled,              \* SIGTERM or SIGINT was received: ctx is done
    listening,              \* the listener accepts
    pings,                  \* failed pings
    schema,                 \* committed objects of schema.sql
    mine, creating,         \* Migrate's transaction: objects passed; the next
                            \* one was found missing
    other,                  \* another replica has created all, uncommitted
    at, held,               \* handlers and sampler; those holding a connection
    total, seen, gauge      \* sum of balances; as read; wallet_total_balance_paise

ctl == <<env, phase, code, signalled, listening>>
boot == <<pings, schema, mine, creating, other>>
money == <<total, seen, gauge>>
work == <<at, held, money>>
vars == <<env, phase, code, signalled, listening, pings, schema, mine, creating,
          other, at, held, total, seen, gauge>>

Clients == Requests \cup {Sampler}
Alive == phase \notin {"exited", "crashed"}

\* The memory of a process that has not done anything yet.
Fresh(a, h, s, g) ==
    /\ a = [x \in Clients |-> IF x = Sampler THEN "over" ELSE "new"]
    /\ h = {}
    /\ s = [x \in Clients |-> 0]
    /\ g = 0

\* Nothing has looked at the database yet: an operator may have applied the
\* schema, with or without MIGRATE_ON_START.
Init ==
    /\ env \in Envs
    /\ phase = "load" /\ code = 0
    /\ signalled = FALSE /\ listening = FALSE /\ pings = 0
    /\ schema \in {0, Objects}
    /\ mine = 0 /\ creating = FALSE /\ other = FALSE
    /\ Fresh(at, held, seen, gauge)
    /\ total = 0

\* run returns: its deferred pool.Close refuses new connections and waits for
\* those in use.
Return(c) == phase' = "close" /\ code' = c

-----------------------------------------------------------------------------
(* Starting.                                                               *)

\* config.Load; a pool of no connections is refused by pgxpool.
Loads(e) == e.url /\ e.min <= e.max
PoolOpens(e) == e.max >= 1

Load ==
    /\ phase = "load"
    /\ IF Loads(env) /\ PoolOpens(env)
       THEN phase' = "ping" /\ UNCHANGED code
       ELSE phase' = "exited" /\ code' = 1
    /\ UNCHANGED <<env, signalled, listening, boot, work>>

\* The sampler is started, then the listener.
Serve ==
    /\ phase' = "serve"
    /\ listening' = TRUE
    /\ at' = [at EXCEPT ![Sampler] = IF env.sample THEN "idle" ELSE "over"]
    /\ UNCHANGED code

PingOk ==
    /\ phase = "ping"
    /\ \/ env.migrate /\ phase' = "migrate" /\ UNCHANGED <<code, listening, at>>
       \/ ~env.migrate /\ Serve
    /\ UNCHANGED <<env, signalled, boot, held, money>>

\* Five seconds are over: connectDB gives up if the deadline has passed or the
\* process is to stop; otherwise it tries again, unless it is stopped first.
PingFails ==
    /\ phase = "ping"
    /\ pings' = pings + 1
    /\ \/ (signalled \/ pings + 1 >= MinPings) /\ Return(1)
       \/ ~signalled /\ pings + 1 < MaxPings /\ phase' = "sleep" /\ UNCHANGED code
    /\ UNCHANGED <<env, signalled, listening, schema, mine, creating, other, work>>
Retry ==
    /\ phase = "sleep"
    /\ \/ signalled /\ Return(1)
       \/ phase' = "ping" /\ UNCHANGED code
    /\ UNCHANGED <<env, signalled, listening, boot, work>>

\* Migrate's deferred Rollback; run returns its error.
AbortMigration ==
    /\ mine' = 0 /\ creating' = FALSE
    /\ Return(1)
    /\ UNCHANGED <<env, signalled, listening, pings, schema, other, work>>

\* CREATE ... IF NOT EXISTS looks for the object first.
LookFor ==
    /\ phase = "migrate"
    /\ mine < Objects /\ ~creating
    /\ IF mine < schema
       THEN mine' = mine + 1 /\ UNCHANGED creating
       ELSE creating' = TRUE /\ UNCHANGED mine
    /\ UNCHANGED <<ctl, pings, schema, other, work>>

\* Faulty variant of Persisted: no transaction around the script.
PersistedEach(n) == n

\* What is committed when n objects have been passed: nothing new.
Persisted(n) == schema

\* Then it creates it, after waiting for a transaction that has created it too;
\* if that one committed, the catalog's unique index refuses.
Create ==
    /\ phase = "migrate"
    /\ creating /\ ~other
    /\ \/ mine < schema /\ AbortMigration
       \/ /\ mine >= schema
          /\ creating' = FALSE /\ mine' = mine + 1 /\ schema' = Persisted(mine + 1)
          /\ UNCHANGED <<ctl, pings, other, work>>

\* COMMIT takes effect; whether run hears of it is another matter.
CommitSchema ==
    /\ phase = "migrate"
    /\ mine = Objects
    /\ schema' = Objects /\ mine' = 0
    /\ Serve \/ (Return(1) /\ UNCHANGED <<listening, at>>)
    /\ UNCHANGED <<env, signalled, pings, creating, other, held, money>>

\* Faulty variant of MigrateFails: no deadline.
MigrateUnbounded == phase = "migrate" /\ signalled /\ AbortMigration

\* An error, a signal or 30 seconds.
MigrateFails == phase = "migrate" /\ AbortMigration

\* Another replica runs the same script, and commits it or does not.
OtherMigrates ==
    /\ \/ ~other /\ schema = 0 /\ mine = 0 /\ other' = TRUE /\ UNCHANGED schema
       \/ other /\ other' = FALSE /\ schema' \in {schema, Objects}
    /\ UNCHANGED <<ctl, pings, mine, creating, work>>

-----------------------------------------------------------------------------
(* Serving.                                                                *)

Goto(x, label) == at' = [at EXCEPT ![x] = label]

\* authenticate's statement, the handler's, the ping of /readyz, the audit.
Asks == {"auth", "money", "ping", "audit"}

\* What the handlers begin with: /healthz, /readyz, /invariants, the routes
\* behind authenticate, /admin/mint, whose token is compared in memory, and
\* /logs/stream.
First == {"answer", "ping", "audit", "auth", "money", "stream"}

Accept(r) ==
    /\ listening
    /\ at[r] = "new"
    /\ \E label \in First : Goto(r, label)
    /\ UNCHANGED <<ctl, boot, held, money>>

Tick ==
    /\ Alive /\ at[Sampler] = "idle"
    /\ Goto(Sampler, "audit")
    /\ UNCHANGED <<ctl, boot, held, money>>

\* Faulty variant of ConnFree: MaxConns is not set, and pgxpool opens four.
ConnFreeDefault == Cardinality(held) < 4

\* poolCfg.MaxConns, which Acquire respects.
ConnFree == Cardinality(held) < env.max

Acquire(x) ==
    /\ Alive /\ phase # "close"
    /\ x = Sampler => ~signalled
    /\ at[x] \in Asks /\ x \notin held /\ ConnFree
    /\ held' = held \cup {x}
    /\ UNCHANGED <<ctl, boot, at, money>>

Then(label) == CASE label = "auth"  -> "money"
                 [] label = "audit" -> "set"
                 [] OTHER           -> "answer"

\* The database answers a statement, which but for a ping needs the tables; a
\* money statement has committed.
DbAnswers(x) ==
    /\ Alive /\ x \in held
    /\ at[x] = "ping" \/ schema = Objects
    /\ held' = held \ {x}
    /\ Goto(x, Then(at[x]))
    /\ total' = IF at[x] = "money" THEN total + 1 ELSE total
    /\ seen' = IF at[x] = "audit" THEN [seen EXCEPT ![x] = total] ELSE seen
    /\ UNCHANGED <<ctl, boot, gauge>>

\* Faulty variant of OnError: the sampler returns instead of going on.
OnErrorStop(x) == IF x = Sampler THEN "over" ELSE "answer"

OnError(x) == IF x = Sampler THEN "idle" ELSE "answer"

Abandon(x) ==
    /\ Goto(x, OnError(x))
    /\ held' = held \ {x}
    /\ UNCHANGED <<ctl, boot, money>>

\* A statement fails, or the pool has been closed.
DbError(x) == Alive /\ x \in held /\ Abandon(x)
PoolClosed(x) == phase = "close" /\ at[x] \in Asks /\ x \notin held /\ ConnFree /\ Abandon(x)

\* Faulty variant of Bounded: /readyz pings with the request's own context.
BoundedSampler(x) == x = Sampler

\* Who waits with a deadline: /readyz two seconds, the sampler five.
Bounded(x) == x = Sampler \/ at[x] = "ping"
TimesOut(x) == Alive /\ at[x] \in Asks /\ Bounded(x) /\ Abandon(x)

\* Of the sampler, or of handleInvariants before it answers.
SetGauges(x) ==
    /\ Alive /\ at[x] = "set"
    /\ gauge' = seen[x]
    /\ Goto(x, IF x = Sampler THEN "idle" ELSE "answer")
    /\ UNCHANGED <<ctl, boot, held, total, seen>>

Respond(r) ==
    /\ Alive /\ at[r] = "answer"
    /\ Goto(r, "done")
    /\ UNCHANGED <<ctl, boot, held, money>>

\* The client is gone: the request's context is done, its statement cancelled.
ClientLeaves(r) ==
    /\ Alive /\ at[r] \notin {"new", "done"}
    /\ Goto(r, "done") /\ held' = held \ {r}
    /\ UNCHANGED <<ctl, boot, money>>

\* The sampler's context is the one the signal ends.
SamplerStops ==
    /\ Alive /\ signalled
    /\ at[Sampler] \in {"idle", "audit"}
    /\ Goto(Sampler, "over") /\ held' = held \ {Sampler}
    /\ UNCHANGED <<ctl, boot, money>>

-----------------------------------------------------------------------------
(* Stopping.                                                               *)

Signal ==
    /\ Alive /\ phase # "load"
    /\ ~signalled /\ signalled' = TRUE
    /\ UNCHANGED <<env, phase, code, listening, boot, work>>

\* ListenAndServe fails, and run returns without a shutdown.
ListenFails ==
    /\ phase = "serve"
    /\ phase' = "failed" /\ listening' = FALSE
    /\ UNCHANGED <<env, code, signalled, boot, work>>
ReturnErr ==
    /\ phase = "failed"
    /\ Return(1)
    /\ UNCHANGED <<env, signalled, listening, boot, work>>

\* "shutting down" is logged, then Shutdown closes the listener.  The log line
\* may panic if a viewer is connected (LogRing): the deferred calls run, while
\* the listener still accepts.
BeginShutdown ==
    /\ phase \in {"serve", "failed"}
    /\ signalled
    /\ \/ phase' = "poll" /\ listening' = FALSE /\ UNCHANGED code
       \/ (\E r \in Requests : at[r] = "stream") /\ Return(2) /\ UNCHANGED listening
    /\ UNCHANGED <<env, signalled, boot, work>>

Active == { r \in Requests : at[r] \notin {"new", "done"} }

\* Shutdown looks for active requests at once, and again until there are none.
Poll ==
    /\ phase \in {"poll", "wait"}
    /\ \/ Active = {} /\ Return(0)
       \/ phase = "poll" /\ Active # {} /\ phase' = "wait" /\ UNCHANGED code
    /\ UNCHANGED <<env, signalled, listening, boot, work>>

\* Faulty variant of GraceExpires: Shutdown(context.Background()).
GraceNever == FALSE /\ UNCHANGED vars

\* Faulty variant of GraceExpires: the error of Shutdown is dropped.
GraceIgnored ==
    /\ phase = "wait"
    /\ Return(0)
    /\ UNCHANGED <<env, signalled, listening, boot, work>>

\* SHUTDOWN_GRACE_SECONDS are over, and Shutdown's error is run's.
GraceExpires ==
    /\ phase = "wait"
    /\ Return(1)
    /\ UNCHANGED <<env, signalled, listening, boot, work>>

\* pool.Close comes back when every connection has been returned.
Exit ==
    /\ phase = "close" /\ held = {}
    /\ phase' = "exited" /\ listening' = FALSE
    /\ UNCHANGED <<env, code, signalled, boot, work>>

\* The process is killed and its memory gone; Postgres rolls back what it had
\* open.
Crash ==
    /\ Alive
    /\ phase' = "crashed" /\ code' = 0 /\ listening' = FALSE
    /\ Fresh(at', held', seen', gauge')
    /\ pings' = 0 /\ mine' = 0 /\ creating' = FALSE
    /\ UNCHANGED <<env, signalled, schema, other, total>>

-----------------------------------------------------------------------------

\* The goroutine of run; a request's handler or the sampler.
Main == \/ Load \/ PingOk \/ PingFails \/ Retry \/ LookFor \/ Create \/ CommitSchema \/ MigrateFails
        \/ ReturnErr \/ BeginShutdown \/ Poll \/ GraceExpires \/ Exit
Work(x) == \/ Acquire(x) \/ PoolClosed(x) \/ TimesOut(x) \/ SetGauges(x)
           \/ x # Sampler /\ Respond(x)
           \/ x = Sampler /\ (Tick \/ SamplerStops)
Environment ==
    \/ Signal \/ ListenFails \/ Crash \/ OtherMigrates
    \/ \E r \in Requests : Accept(r) \/ ClientLeaves(r)
    \/ \E x \in Clients : DbAnswers(x) \/ DbError(x)

Ended == ~Alive /\ UNCHANGED vars

Next == Main \/ (\E x \in Clients : Work(x)) \/ Environment \/ Ended

Spec == Init /\ [][Next]_vars

\* The process runs and its timers expire.  Clients, operators and the database
\* owe nothing.
FairSpec == Spec /\ WF_vars(Main) /\ \A x \in Clients : WF_vars(Work(x))

-----------------------------------------------------------------------------
(* Properties.                                                             *)

TypeOK ==
    /\ phase \in {"load", "ping", "sleep", "migrate", "serve", "failed", "poll", "wait",
                  "close", "exited", "crashed"}
    /\ code \in 0..2
    /\ schema \in 0..Objects /\ mine \in 0..Objects
    /\ held \subseteq { x \in Clients : at[x] \in Asks }
    /\ held # {} => Cardinality(held) <= env.max
    /\ gauge \in 0..total

\* "Graceful shutdown: stop accepting, let in-flight money transactions finish":
\* whatever way run comes to an end, no statement is cut off in the middle, and
\* an exit code of 0 says that every request that was accepted is over.
GracefulExit ==
    phase = "exited" => held = {} /\ (code = 0 => \A r \in Requests : at[r] \in {"new", "done"})

\* "a rolling deploy cannot half-apply it": whatever fails in the middle, and
\* whatever another replica does meanwhile, the committed schema is nothing or
\* all of it, and a process that migrates on start has all of it before it
\* accepts a request.  One that does not migrate looks for nothing.
SchemaWhole ==
    /\ schema \in {0, Objects}
    /\ listening /\ env.migrate => schema = Objects

\* A process that starts comes to serve or exits, though the database never
\* answers or another replica keeps its migration open.
StartupEnds == phase \in {"load", "ping", "sleep", "migrate"} ~> listening \/ ~Alive

\* A database that answers what it is asked, if only with an error.
DbResponsive == \A x \in Clients : WF_vars(DbAnswers(x) \/ DbError(x))

\* After SIGTERM the process exits, at whatever point of connecting, migrating or
\* serving it arrives and though no viewer ever closes its log stream, as long as
\* the database answers the statements pool.Close waits for, in whatever way.
Stops == DbResponsive => (signalled ~> ~Alive)

\* /healthz and /readyz are answered though the database never answers and
\* every connection of the pool is taken.
ProbesAnswer ==
    \A r \in Requests : at[r] \in {"answer", "ping"} ~> at[r] = "done" \/ ~Alive

\* The sampler gets its connection and its answer now and then.
SamplerServed == SF_vars(Acquire(Sampler)) /\ SF_vars(DbAnswers(Sampler))

\* The sampler "keeps the conservation gauges fresh": once money has stopped
\* moving the gauges show the total for good, although an audit that was read
\* long ago may still be written over a newer one.
GaugesCatchUp ==
    DbResponsive /\ SamplerServed =>
        (<>[](phase = "serve" /\ ~signalled /\ env.sample) => <>[](gauge = total))

\* "Per-request bounds come from context timeouts in the handlers": every request
\* but a log stream comes to an end by itself.
RequestsBounded ==
    \A r \in Requests : at[r] \notin {"new", "stream"} ~> at[r] = "done" \/ ~Alive
=============================================================================
