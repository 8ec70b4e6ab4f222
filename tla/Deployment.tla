------------------------------ MODULE Deployment ------------------------------
(***************************************************************************)
(* Bringing the platform up: the runners that migrate the schema           *)
(* (services/migrate/migrate.py), and the ANPR workers that start once one *)
(* has succeeded and share the cameras out by shard (claim_shard,          *)
(* fetch_cameras, prewarm_models and the start of main in                  *)
(* services/anpr/worker.py).                                               *)
(*                                                                         *)
(* A migration and its record are one transaction.  A shard and the warm   *)
(* lock are advisory locks: they belong to a database session, and go with *)
(* the process or with its connection.  Workers are restarted; a runner is *)
(* run again by whoever brings the platform up.                            *)
(***************************************************************************)
EXTENDS Integers, FiniteSets

CONSTANTS
    Runners,     \* processes that migrate
    Migrations,  \* versions, in order
    Workers,     \* worker containers
    Shards,      \* ANPR_SHARDS
    Cameras,     \* cameras of the registry
    ShardOf,     \* shard_of
    MaxFaults,   \* bound: crashes, dropped sessions and failed migrations
    None         \* no version, no holder, no shard

ASSUME DeploymentAssumption ==
    /\ IsFiniteSet(Migrations) /\ Migrations \subseteq Nat
    /\ Shards \in Nat \ {0} /\ MaxFaults \in Nat
    /\ ShardOf \in [Cameras -> 0..(Shards - 1)]
    /\ None \notin Nat \cup Workers

VARIABLES
    applied,   \* schema_migrations
    effects,   \* how often each migration's SQL has been committed
    step,      \* each runner: "down", "reading", "pending", "executed",
               \* "recorded" or "done"
    seen,      \* what each runner has read, or done
    holder,    \* the worker whose session holds a shard, or None
    warm,      \* the worker that holds the warm lock, or None
    pc,        \* each worker: "down", "scanning", "claimed", "fetched", "loading"
               \* or "reading"
    shard,     \* the shard each worker tries, then has
    owned,     \* the cameras each worker has read from the registry
    enabled,   \* the registry: the cameras in service
    lapsed,    \* history: workers whose shard's session has dropped
    faults     \* faults so far

schema   == <<applied, effects, step, seen>>
locks    == <<holder, warm>>
fleet    == <<pc, shard, owned>>
vars     == <<schema, locks, fleet, enabled, lapsed, faults>>

AllShards == 0..(Shards - 1)

Init ==
    /\ applied = {} /\ effects = [m \in Migrations |-> 0]
    /\ step = [r \in Runners |-> "down"] /\ seen = [r \in Runners |-> {}]
    /\ holder = [i \in AllShards |-> None] /\ warm = None
    /\ pc = [w \in Workers |-> "down"] /\ shard = [w \in Workers |-> None]
    /\ owned = [w \in Workers |-> {}]
    /\ enabled \in SUBSET Cameras
    /\ lapsed = {} /\ faults = 0

Fault == faults < MaxFaults /\ faults' = faults + 1

-------------------------------------------------------------------------------
(* migrate                                                                  *)

RunnerAt(r, s) == step' = [step EXCEPT ![r] = s]

Pending(r) == Migrations \ seen[r]

\* The version a runner is at.
Version(r) == CHOOSE m \in Pending(r) : \A n \in Pending(r) : m <= n

\* Wait for the database, create the table of migrations if need be.
Bootstrap(r) ==
    /\ step[r] = "down"
    /\ RunnerAt(r, "reading")
    /\ UNCHANGED <<applied, effects, seen, locks, fleet, enabled, lapsed, faults>>

\* _applied, _verify_unchanged and the list of what is pending.
ReadApplied(r) ==
    /\ step[r] = "reading"
    /\ seen' = [seen EXCEPT ![r] = applied]
    /\ RunnerAt(r, IF Migrations \subseteq applied THEN "done" ELSE "pending")
    /\ UNCHANGED <<applied, effects, locks, fleet, enabled, lapsed, faults>>

\* The SQL of the next one, in a transaction, which waits for that of another.
Execute(r) ==
    /\ step[r] = "pending"
    /\ \A q \in Runners : step[q] \in {"executed", "recorded"} => Version(q) # Version(r)
    /\ RunnerAt(r, "executed")
    /\ UNCHANGED <<applied, effects, seen, locks, fleet, enabled, lapsed, faults>>

\* Mutant: a version that is there already is no error.
RecordAnyway(r) ==
    /\ step[r] = "executed"
    /\ RunnerAt(r, "recorded")
    /\ UNCHANGED <<applied, effects, seen, locks, fleet, enabled, lapsed, faults>>

\* Its row, in the same transaction: version is the primary key.
Record(r) ==
    /\ step[r] = "executed"
    /\ RunnerAt(r, IF Version(r) \in applied THEN "down" ELSE "recorded")
    /\ UNCHANGED <<applied, effects, seen, locks, fleet, enabled, lapsed, faults>>

CommitOne(r) ==
    /\ step[r] = "recorded"
    /\ applied' = applied \cup {Version(r)}
    /\ effects' = [effects EXCEPT ![Version(r)] = @ + 1]
    /\ seen' = [seen EXCEPT ![r] = @ \cup {Version(r)}]
    /\ RunnerAt(r, IF Pending(r) = {Version(r)} THEN "done" ELSE "pending")
    /\ UNCHANGED <<locks, fleet, enabled, lapsed, faults>>

\* The SQL fails, or the runner crashes: the transaction is rolled back, and
\* somebody runs it again.
RunnerFails(r) ==
    /\ Fault /\ step[r] \notin {"down", "done"}
    /\ RunnerAt(r, "down")
    /\ UNCHANGED <<applied, effects, seen, locks, fleet, enabled, lapsed>>

-------------------------------------------------------------------------------
(* The workers                                                              *)

At(w, s) == pc' = [pc EXCEPT ![w] = s]

\* service_completed_successfully
Migrated == \E r \in Runners : step[r] = "done"

Boot(w) ==
    /\ pc[w] = "down" /\ Migrated
    /\ At(w, "scanning") /\ shard' = [shard EXCEPT ![w] = 0]
    /\ UNCHANGED <<schema, locks, owned, enabled, lapsed, faults>>

\* The last shard is taken too: the process ends, and is restarted.
Scanned(w) ==
    /\ shard[w] + 1 = Shards
    /\ At(w, "down") /\ shard' = [shard EXCEPT ![w] = None]

\* Mutant: the lock is shared.
TryShared(w) ==
    /\ pc[w] = "scanning"
    /\ holder' = [holder EXCEPT ![shard[w]] = w]
    /\ At(w, "claimed")
    /\ UNCHANGED <<schema, warm, shard, owned, enabled, lapsed, faults>>

\* pg_try_advisory_lock of one shard after the other.
Try(w) ==
    /\ pc[w] = "scanning" /\ holder[shard[w]] = None
    /\ holder' = [holder EXCEPT ![shard[w]] = w]
    /\ At(w, "claimed")
    /\ UNCHANGED <<schema, warm, shard, owned, enabled, lapsed, faults>>

Taken(w) ==
    /\ pc[w] = "scanning" /\ holder[shard[w]] # None
    /\ \/ Scanned(w)
       \/ shard[w] + 1 < Shards /\ shard' = [shard EXCEPT ![w] = @ + 1] /\ UNCHANGED pc
    /\ UNCHANGED <<schema, locks, owned, enabled, lapsed, faults>>

\* fetch_cameras: those in service now whose shard this is.
Fetch(w) ==
    /\ pc[w] = "claimed"
    /\ owned' = [owned EXCEPT ![w] = {c \in enabled : ShardOf[c] = shard[w]}]
    /\ At(w, "fetched")
    /\ UNCHANGED <<schema, locks, shard, enabled, lapsed, faults>>

\* prewarm_models: one replica at a time loads the models ...
Warm(w) ==
    /\ pc[w] = "fetched" /\ warm = None
    /\ warm' = w /\ At(w, "loading")
    /\ UNCHANGED <<schema, holder, shard, owned, enabled, lapsed, faults>>

\* ... and goes on whether or not it could; main starts the camera threads.
Warmed(w) ==
    /\ pc[w] = "loading"
    /\ warm' = None /\ At(w, "reading")
    /\ UNCHANGED <<schema, holder, shard, owned, enabled, lapsed, faults>>

\* The connection or the lock fails: it goes on without.
WarmFails(w) ==
    /\ pc[w] = "fetched" /\ Fault
    /\ At(w, "reading")
    /\ UNCHANGED <<schema, locks, shard, owned, enabled, lapsed>>

\* Mutant: the claim on a shard outlives the session it was made in.
CrashKeepsShard(w) ==
    /\ pc[w] # "down" /\ Fault
    /\ At(w, "down")
    /\ shard' = [shard EXCEPT ![w] = None] /\ owned' = [owned EXCEPT ![w] = {}]
    /\ warm' = IF warm = w THEN None ELSE warm
    /\ lapsed' = lapsed \ {w}
    /\ UNCHANGED <<schema, holder, enabled>>

\* The process ends, and its sessions with it.
Crash(w) ==
    /\ pc[w] # "down" /\ Fault
    /\ At(w, "down")
    /\ shard' = [shard EXCEPT ![w] = None] /\ owned' = [owned EXCEPT ![w] = {}]
    /\ holder' = [i \in AllShards |-> IF holder[i] = w THEN None ELSE holder[i]]
    /\ warm' = IF warm = w THEN None ELSE warm
    /\ lapsed' = lapsed \ {w}
    /\ UNCHANGED <<schema, enabled>>

\* The session that holds the shard drops, and the worker does not notice.
SessionDrops(w) ==
    /\ \E i \in AllShards : holder[i] = w
    /\ Fault
    /\ holder' = [i \in AllShards |-> IF holder[i] = w THEN None ELSE holder[i]]
    /\ lapsed' = lapsed \cup {w}
    /\ UNCHANGED <<schema, warm, fleet, enabled>>

\* Operators bring cameras into service and retire them.
Register ==
    /\ enabled' \in SUBSET Cameras
    /\ UNCHANGED <<schema, locks, fleet, lapsed, faults>>

-------------------------------------------------------------------------------
Migrating(r) == Bootstrap(r) \/ ReadApplied(r) \/ Execute(r) \/ Record(r) \/ CommitOne(r)

Working(w) == Boot(w) \/ Try(w) \/ Taken(w) \/ Fetch(w) \/ Warm(w) \/ Warmed(w)

Next ==
    \/ \E r \in Runners : Migrating(r) \/ RunnerFails(r)
    \/ \E w \in Workers : Working(w) \/ WarmFails(w) \/ Crash(w) \/ SessionDrops(w)
    \/ Register

\* Workers run and are restarted, and the warm lock is given to a waiter.
Fairness == \A w \in Workers : WF_vars(Working(w)) /\ SF_vars(Warm(w))

Spec == Init /\ [][Next]_vars /\ Fairness

-------------------------------------------------------------------------------
(* Properties                                                               *)

\* The values of the schema, the locks and the fleet.
TypeOK ==
    /\ applied \subseteq Migrations /\ effects \in [Migrations -> Nat]
    /\ step \in [Runners -> {"down", "reading", "pending", "executed", "recorded", "done"}]
    /\ seen \in [Runners -> SUBSET Migrations]
    /\ holder \in [AllShards -> Workers \cup {None}] /\ warm \in Workers \cup {None}
    /\ pc \in [Workers -> {"down", "scanning", "claimed", "fetched", "loading", "reading"}]
    /\ shard \in [Workers -> AllShards \cup {None}]
    /\ owned \in [Workers -> SUBSET Cameras] /\ enabled \subseteq Cameras
    /\ lapsed \subseteq Workers /\ faults \in 0..MaxFaults

\* Two runners that have read the same list, in any order and with crashes between
\* any two statements: each migration takes effect once, none before an older one,
\* none without its record, and no worker starts on a schema that lacks one.
SchemaSound ==
    /\ \A m \in Migrations : effects[m] = IF m \in applied THEN 1 ELSE 0
    /\ \A m \in applied, n \in Migrations : n < m => n \in applied
    /\ (\E w \in Workers : pc[w] # "down") => Migrations \subseteq applied

\* "Replicas need distinct shard numbers or they duplicate each other's work":
\* however claims, crashes and replacements race and the registry changes between
\* their reads of it, no camera belongs to two workers, unless the session under
\* one of them has dropped.
ReadByOne ==
    \A v, w \in Workers \ lapsed : v # w => owned[v] \cap owned[w] = {}

Covered == \A i \in AllShards : \E w \in Workers : pc[w] = "reading" /\ shard[w] = i

\* "A worker that crashes gives its shard straight back and the replacement picks it
\* up": with as many workers as shards every shard ends up read once the schema is
\* there, whatever crashed, unless a worker goes on reading with a shard that is no
\* longer its own.
FleetCovers == <>[](Migrated /\ lapsed = {}) => <>[]Covered

\* worker.py:691-697, as it stands: the shard is held "for the life of the process".
\* One whose session drops is claimed again and the claimant's own is left unread.
AllRead == <>Migrated => <>[]Covered
===============================================================================
