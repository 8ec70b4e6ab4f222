--------------------------- MODULE Deployment_proofs ---------------------------
(***************************************************************************)
(* Any number of runners applies each migration once, in order and before  *)
(* a worker starts; no camera belongs to two of any number of workers,     *)
(* unless one of them has lost the session under its claim.  Both follow   *)
(* from one inductive invariant: two runners that are inside a transaction *)
(* are at different versions, and a worker that has claimed a shard is its *)
(* holder until its session drops.                                         *)
(*                                                                         *)
(* Then two processes that are deployed beside the workers, each in an     *)
(* instance of its module: the health prober (ProberInv) and the crop      *)
(* review server (ReviewInv).                                              *)
(***************************************************************************)
EXTENDS Deployment, FiniteSetTheorems, WellFoundedInduction, TLAPS

Within(r) == step[r] \in {"executed", "recorded"}

\* What a runner has read is applied, what it is at is not unless somebody else
\* committed it, and the row it has written is its own.
RunnersRead ==
    \A r \in Runners :
        /\ seen[r] \subseteq applied
        /\ step[r] \in {"pending", "executed", "recorded"} => Pending(r) # {}
        /\ step[r] = "recorded" => Version(r) \notin applied
        /\ step[r] = "done" => Migrations \subseteq applied

\* A transaction waits for another one of the same version.
RunnersApart ==
    \A q, r \in Runners : q # r /\ Within(q) /\ Within(r) => Version(q) # Version(r)

Claimed(w) == pc[w] \in {"claimed", "fetched", "loading", "reading"}

\* A worker has cameras only of a shard that it has claimed, and the lock on the shard
\* as long as its session lives; one without a claim has lost nothing.
ClaimsHeld ==
    \A w \in Workers :
        /\ pc[w] = "scanning" \/ Claimed(w) => shard[w] \in AllShards
        /\ Claimed(w) /\ w \notin lapsed => holder[shard[w]] = w
        /\ ~Claimed(w) => owned[w] = {} /\ w \notin lapsed
        /\ \A c \in owned[w] : ShardOf[c] = shard[w]
        /\ \A i \in AllShards : holder[i] = w => Claimed(w)

IInv ==
    /\ TypeOK
    /\ RunnersRead
    /\ RunnersApart
    /\ SchemaSound
    /\ ClaimsHeld

-------------------------------------------------------------------------------
(* Versions                                                                 *)

\* The version of a runner that has work is the smallest that it has not read.
LEMMA VersionIsNext ==
    ASSUME NEW r \in Runners, Pending(r) # {}
    PROVE  /\ Version(r) \in Pending(r)
           /\ \A n \in Pending(r) : Version(r) <= n
<1>1. Pending(r) \subseteq Nat
  BY DeploymentAssumption DEF Pending
<1>2. PICK m \in Pending(r) : \A n \in Pending(r) : ~(<<n, m>> \in OpToRel(<, Nat))
  BY <1>1, NatLessThanWellFounded, WFMin, Zenon
<1>3. \A n \in Pending(r) : ~(n < m)
  BY <1>1, <1>2 DEF OpToRel
<1>4. \A n \in Pending(r) : m <= n
  BY <1>1, <1>3
<1>5. QED
  BY <1>4 DEF Version

\* It is another one only when the runner has read more.
LEMMA SameVersion ==
    ASSUME NEW r \in Runners, seen'[r] = seen[r]
    PROVE  Pending(r)' = Pending(r) /\ Version(r)' = Version(r)
  BY DEF Pending, Version

-------------------------------------------------------------------------------
LEMMA InitInv == Init => IInv
<1> SUFFICES ASSUME Init PROVE IInv
  OBVIOUS
<1> USE DeploymentAssumption DEF Init
<1>1. TypeOK
  BY DEF TypeOK, AllShards
<1>2. RunnersRead /\ RunnersApart
  BY DEF RunnersRead, RunnersApart, Within
<1>3. SchemaSound
  BY DEF SchemaSound
<1>4. ClaimsHeld
  BY DEF ClaimsHeld, Claimed
<1>5. QED
  BY <1>1, <1>2, <1>3, <1>4 DEF IInv

-------------------------------------------------------------------------------
(* Runners                                                                  *)

\* A runner's step before its commit: what the others are at stays as it is, and so
\* do the schema and the workers.
LEMMA RunnerMoves ==
    ASSUME IInv, NEW r \in Runners, NEW s \in {"down", "reading", "executed", "recorded"},
           step' = [step EXCEPT ![r] = s],
           s = "executed" => /\ step[r] = "pending"
                             /\ \A q \in Runners : Within(q) => Version(q) # Version(r),
           s = "recorded" => step[r] = "executed" /\ Version(r) \notin applied,
           faults' \in 0..MaxFaults,
           UNCHANGED <<applied, effects, seen, locks, fleet, enabled, lapsed>>
    PROVE  IInv'
<1> USE DEF IInv, locks, fleet
<1>1. TypeOK'
  BY DEF TypeOK
<1>2. \A q \in Runners : Pending(q)' = Pending(q) /\ Version(q)' = Version(q)
  BY SameVersion
<1>3. \A q \in Runners : step'[q] = IF q = r THEN s ELSE step[q]
  BY DEF TypeOK
<1>4. RunnersRead'
  BY <1>2, <1>3 DEF RunnersRead
<1>5. RunnersApart'
  BY <1>2, <1>3 DEF RunnersApart, Within
<1>6. SchemaSound' /\ ClaimsHeld'
  BY DEF SchemaSound, ClaimsHeld, Claimed
<1>7. QED
  BY <1>1, <1>4, <1>5, <1>6

LEMMA ReadAppliedInv ==
    ASSUME IInv, NEW r \in Runners, ReadApplied(r)
    PROVE  IInv'
<1> USE DEF IInv, ReadApplied, RunnerAt, locks, fleet
<1>1. TypeOK'
  BY DEF TypeOK
<1>2. \A q \in Runners \ {r} :
          step'[q] = step[q] /\ seen'[q] = seen[q]
  BY DEF TypeOK
<1>3. \A q \in Runners \ {r} : Pending(q)' = Pending(q) /\ Version(q)' = Version(q)
  BY <1>2, SameVersion
<1>4. /\ seen'[r] = applied
      /\ step'[r] = IF Migrations \subseteq applied THEN "done" ELSE "pending"
  BY DEF TypeOK
<1>5. RunnersRead'
  BY <1>2, <1>3, <1>4 DEF RunnersRead, Pending
<1>6. RunnersApart'
  BY <1>2, <1>3, <1>4 DEF RunnersApart, Within
<1>7. SchemaSound' /\ ClaimsHeld'
  BY DEF SchemaSound, ClaimsHeld, Claimed
<1>8. QED
  BY <1>1, <1>5, <1>6, <1>7

\* The version that is committed takes effect for the first time, all before it
\* have been applied, and no other runner has written its row.
LEMMA CommitOneInv ==
    ASSUME IInv, NEW r \in Runners, CommitOne(r)
    PROVE  IInv'
<1> USE DEF IInv, CommitOne, RunnerAt, locks, fleet
<1> DEFINE v == Version(r)
<1>1. v \in Pending(r) /\ \A n \in Pending(r) : v <= n
  BY VersionIsNext DEF RunnersRead
<1>2. v \in Migrations /\ v \in Nat /\ v \notin applied
  BY <1>1, DeploymentAssumption DEF RunnersRead, Pending
<1>3. applied' = applied \cup {v}
  OBVIOUS
<1>4. seen' = [seen EXCEPT ![r] = @ \cup {v}]
  OBVIOUS
<1>5. \A m \in Migrations : effects'[m] = IF m = v THEN effects[m] + 1 ELSE effects[m]
  BY <1>2 DEF TypeOK
<1>6. step' = [step EXCEPT ![r] = IF Pending(r) = {v} THEN "done" ELSE "pending"]
  OBVIOUS
<1>7. TypeOK'
  <2>1. effects' \in [Migrations -> Nat]
    BY <1>2 DEF TypeOK
  <2>2. QED
    BY <1>2, <1>3, <1>4, <1>6, <2>1 DEF TypeOK
<1>8. \A q \in Runners \ {r} : step'[q] = step[q] /\ seen'[q] = seen[q]
  BY <1>4, <1>6 DEF TypeOK
<1>9. \A q \in Runners \ {r} : Pending(q)' = Pending(q) /\ Version(q)' = Version(q)
  BY <1>8, SameVersion
<1>10. /\ seen'[r] = seen[r] \cup {v}
       /\ step'[r] = IF Pending(r) = {v} THEN "done" ELSE "pending"
  BY <1>4, <1>6 DEF TypeOK
<1>11. RunnersRead'
  <2>1. ASSUME NEW q \in Runners \ {r}, step[q] = "recorded"
        PROVE  Version(q) \notin applied'
    BY <1>3, <2>1 DEF RunnersRead, RunnersApart, Within
  <2>2. Pending(r)' = Pending(r) \ {v}
    BY <1>10 DEF Pending
  <2>3. Pending(r) = {v} => Migrations \subseteq applied'
    BY <1>3 DEF RunnersRead, Pending
  <2>4. \A q \in Runners : seen'[q] \subseteq applied'
    BY <1>3, <1>8, <1>10 DEF RunnersRead
  <2>5. QED
    BY <1>1, <1>3, <1>8, <1>9, <1>10, <2>1, <2>2, <2>3, <2>4 DEF RunnersRead
<1>12. RunnersApart'
  BY <1>8, <1>9, <1>10 DEF RunnersApart, Within
<1>13. SchemaSound'
  <2>1. \A m \in Migrations : effects'[m] = IF m \in applied' THEN 1 ELSE 0
    BY <1>2, <1>3, <1>5 DEF SchemaSound
  <2>2. \A n \in Migrations : n < v => n \in applied
    <3>1. ASSUME NEW n \in Migrations, n < v PROVE n \notin Pending(r)
      BY <1>1, <1>2, <3>1, DeploymentAssumption
    <3>2. QED
      BY <3>1 DEF Pending, RunnersRead
  <2>3. \A m \in applied', n \in Migrations : n < m => n \in applied'
    BY <1>3, <2>2 DEF SchemaSound
  <2>4. (\E w \in Workers : pc'[w] # "down") => Migrations \subseteq applied'
    BY <1>3 DEF SchemaSound
  <2>5. QED
    BY <2>1, <2>3, <2>4 DEF SchemaSound
<1>14. ClaimsHeld'
  BY DEF ClaimsHeld, Claimed
<1>15. QED
  BY <1>7, <1>11, <1>12, <1>13, <1>14

LEMMA FaultBound == ASSUME TypeOK, Fault PROVE faults' \in 0..MaxFaults
  BY DeploymentAssumption DEF TypeOK, Fault

LEMMA RunnerInv ==
    ASSUME IInv, NEW r \in Runners, Migrating(r) \/ RunnerFails(r)
    PROVE  IInv'
<1> USE DEF RunnerAt
<1>1. faults \in 0..MaxFaults
  BY DEF IInv, TypeOK
<1>2. CASE Bootstrap(r)
  BY <1>1, <1>2, RunnerMoves DEF Bootstrap
<1>3. CASE ReadApplied(r)
  BY <1>3, ReadAppliedInv
<1>4. CASE Execute(r)
  BY <1>1, <1>4, RunnerMoves DEF Execute, Within
<1>5. CASE Record(r)
  BY <1>1, <1>5, RunnerMoves DEF Record
<1>6. CASE CommitOne(r)
  BY <1>6, CommitOneInv
<1>7. CASE RunnerFails(r)
  BY <1>7, FaultBound, RunnerMoves DEF RunnerFails, IInv
<1>8. QED
  BY <1>2, <1>3, <1>4, <1>5, <1>6, <1>7 DEF Migrating

-------------------------------------------------------------------------------
(* Workers                                                                  *)

\* A step that leaves the schema and its runners alone, and starts a worker only
\* when some runner is done.
LEMMA SchemaStays ==
    ASSUME IInv, UNCHANGED schema,
           (\E w \in Workers : pc'[w] # "down") =>
               Migrated \/ \E w \in Workers : pc[w] # "down"
    PROVE  RunnersRead' /\ RunnersApart' /\ SchemaSound'
<1> USE DEF IInv, schema
<1>1. \A r \in Runners : Pending(r)' = Pending(r) /\ Version(r)' = Version(r)
  BY SameVersion
<1>2. RunnersRead' /\ RunnersApart'
  BY <1>1 DEF RunnersRead, RunnersApart, Within
<1>3. Migrated => Migrations \subseteq applied
  BY DEF RunnersRead, Migrated
<1>4. QED
  BY <1>2, <1>3 DEF SchemaSound

\* The scan goes from a shard to the next one.
LEMMA ScanStep ==
    ASSUME NEW i \in AllShards, i + 1 < Shards
    PROVE  i + 1 \in AllShards
  BY DeploymentAssumption DEF AllShards

LEMMA WorkingInv ==
    ASSUME IInv, NEW w \in Workers, Working(w) \/ WarmFails(w)
    PROVE  IInv'
<1> USE DeploymentAssumption DEF IInv, locks, fleet, At
<1>1. TypeOK'
  <2> USE DEF TypeOK, ClaimsHeld, schema
  <2>1. CASE Boot(w)
    BY <2>1 DEF Boot, AllShards
  <2>2. CASE Try(w)
    BY <2>2 DEF Try
  <2>3. CASE Taken(w)
    BY <2>3, ScanStep DEF Taken, Scanned
  <2>4. CASE Fetch(w)
    BY <2>4 DEF Fetch
  <2>5. CASE Warm(w)
    BY <2>5 DEF Warm
  <2>6. CASE Warmed(w)
    BY <2>6 DEF Warmed
  <2>7. CASE WarmFails(w)
    BY <2>7, FaultBound DEF WarmFails
  <2>8. QED
    BY <2>1, <2>2, <2>3, <2>4, <2>5, <2>6, <2>7 DEF Working
<1>2. RunnersRead' /\ RunnersApart' /\ SchemaSound'
  <2>1. UNCHANGED schema
    BY DEF Working, Boot, Try, Taken, Fetch, Warm, Warmed, WarmFails
  <2>2. pc[w] # "down" \/ Migrated
    BY DEF Working, Boot, Try, Taken, Fetch, Warm, Warmed, WarmFails
  <2>3. QED
    BY <2>1, <2>2, SchemaStays
<1>3. ClaimsHeld'
  <2> USE DEF TypeOK, ClaimsHeld, Claimed
  <2>1. CASE Boot(w)
    BY <2>1 DEF Boot, AllShards
  <2>2. CASE Try(w)
    BY <2>2 DEF Try
  <2>3. CASE Taken(w)
    BY <2>3, ScanStep DEF Taken, Scanned
  <2>4. CASE Fetch(w)
    BY <2>4 DEF Fetch
  <2>5. CASE Warm(w)
    BY <2>5 DEF Warm
  <2>6. CASE Warmed(w)
    BY <2>6 DEF Warmed
  <2>7. CASE WarmFails(w)
    BY <2>7 DEF WarmFails
  <2>8. QED
    BY <2>1, <2>2, <2>3, <2>4, <2>5, <2>6, <2>7 DEF Working
<1>4. QED
  BY <1>1, <1>2, <1>3

LEMMA CrashInv ==
    ASSUME IInv, NEW w \in Workers, Crash(w)
    PROVE  IInv'
<1> USE DeploymentAssumption DEF IInv, Crash, At
<1>1. TypeOK'
  BY FaultBound DEF TypeOK, schema
<1>2. RunnersRead' /\ RunnersApart' /\ SchemaSound'
  BY SchemaStays
<1>3. ClaimsHeld'
  BY DEF TypeOK, ClaimsHeld, Claimed
<1>4. QED
  BY <1>1, <1>2, <1>3

LEMMA SessionDropsInv ==
    ASSUME IInv, NEW w \in Workers, SessionDrops(w)
    PROVE  IInv'
<1> USE DeploymentAssumption DEF IInv, SessionDrops, fleet
<1>1. TypeOK'
  BY FaultBound DEF TypeOK, schema
<1>2. RunnersRead' /\ RunnersApart' /\ SchemaSound'
  BY SchemaStays
<1>3. ClaimsHeld'
  BY DEF TypeOK, ClaimsHeld, Claimed
<1>4. QED
  BY <1>1, <1>2, <1>3

LEMMA OtherwiseInv ==
    ASSUME IInv, Register \/ UNCHANGED vars
    PROVE  IInv'
<1> USE DEF IInv, Register, vars, locks, fleet
<1>1. TypeOK'
  BY DEF TypeOK, schema
<1>2. RunnersRead' /\ RunnersApart' /\ SchemaSound'
  BY SchemaStays
<1>3. ClaimsHeld'
  BY DEF ClaimsHeld, Claimed
<1>4. QED
  BY <1>1, <1>2, <1>3

-------------------------------------------------------------------------------
LEMMA NextInv == IInv /\ [Next]_vars => IInv'
<1> SUFFICES ASSUME IInv, [Next]_vars PROVE IInv'
  OBVIOUS
<1>1. CASE \E r \in Runners : Migrating(r) \/ RunnerFails(r)
  BY <1>1, RunnerInv
<1>2. CASE \E w \in Workers : Working(w) \/ WarmFails(w) \/ Crash(w) \/ SessionDrops(w)
  BY <1>2, WorkingInv, CrashInv, SessionDropsInv
<1>3. CASE Register \/ UNCHANGED vars
  BY <1>3, OtherwiseInv
<1>4. QED
  BY <1>1, <1>2, <1>3 DEF Next

\* The inductive invariant of runners and workers.
THEOREM DeploymentInvariant == Spec => []IInv
<1>1. QED
  BY InitInv, NextInv, PTL DEF Spec

\* The schema, the locks and the fleet keep their types.
THEOREM DeploymentTyped == Spec => []TypeOK
<1>1. IInv => TypeOK
  BY DEF IInv
<1>2. QED
  BY <1>1, DeploymentInvariant, PTL

\* SchemaSound: each migration takes effect once and in order, and no worker runs
\* before the last, for any number of runners that race, fail and are run again.
THEOREM MigratedOnce == Spec => []SchemaSound
<1>1. IInv => SchemaSound
  BY DEF IInv
<1>2. QED
  BY <1>1, DeploymentInvariant, PTL

\* ReadByOne: no camera belongs to two workers whose sessions live, for any fleet,
\* any shards, and any change of the registry.
THEOREM CamerasApart == Spec => []ReadByOne
<1>1. IInv => ReadByOne
  <2> SUFFICES ASSUME IInv, NEW v \in Workers \ lapsed, NEW w \in Workers \ lapsed, v # w,
                      NEW c \in owned[v] \cap owned[w]
               PROVE  FALSE
    BY DEF ReadByOne
  <2>1. shard[v] = shard[w] /\ Claimed(v) /\ Claimed(w)
    BY DEF IInv, ClaimsHeld
  <2>2. holder[shard[v]] = v /\ holder[shard[w]] = w
    BY <2>1 DEF IInv, ClaimsHeld
  <2>3. QED
    BY <2>1, <2>2
<1>2. QED
  BY <1>1, DeploymentInvariant, PTL

-------------------------------------------------------------------------------
(* The health prober, in an instance of its own.                            *)

CONSTANTS Confirmations, Operators, MaxSteps
VARIABLES status, stream, sweeping, row, sample, pending, count, verdict, asked, streak, said,
          returned, steps

Probe == INSTANCE Prober WITH pc <- sweeping

\* The rows of a sweep are the statuses, but for cameras that came into service since.
RowsRead ==
    \A c \in Cameras : row[c] # None /\ Probe!InService(c) => row[c] = status[c] \/ c \in returned

\* What the prober counts in memory, the samples have said.
CountIsStreak ==
    \A c \in Cameras :
        pending[c] # None => said[c] = pending[c] /\ count[c] <= streak[c]

\* A verdict repeats the row, or the samples justify it.
VerdictsJustified ==
    \A c \in Cameras :
        verdict[c] # None => /\ sweeping = "writing" /\ row[c] # None
                             /\ verdict[c] = row[c] \/ Probe!Justified(c, verdict[c])

ProberInv == Probe!TypeOK /\ RowsRead /\ CountIsStreak /\ VerdictsJustified

LEMMA ProberInitInv == Probe!ProberAssumption /\ Probe!Init => ProberInv
  BY DEF Probe!ProberAssumption, Probe!Init, ProberInv, Probe!TypeOK, RowsRead, CountIsStreak,
         VerdictsJustified, Probe!All, Probe!Verdicts, Probe!InService

\* A sweep reads, samples and ends without deciding anything.
LEMMA SweepStepInv ==
    ASSUME Probe!ProberAssumption, ProberInv,
           \/ Probe!Read \/ Probe!SweepFails \/ \E c \in Cameras : Probe!Sample(c)
    PROVE  ProberInv'
<1> USE DEF ProberInv, Probe!ProberAssumption, Probe!Read, Probe!SweepFails, Probe!Sample,
            Probe!SweepOver, Probe!All, Probe!memory, Probe!history, Probe!InService, Probe!Swept
<1>1. Probe!TypeOK'
  BY DEF Probe!TypeOK, Probe!Verdicts
<1>2. RowsRead' /\ CountIsStreak'
  BY DEF RowsRead, CountIsStreak, Probe!TypeOK
<1>3. VerdictsJustified'
  BY DEF VerdictsJustified, Probe!Justified, Probe!TypeOK
<1>4. QED
  BY <1>1, <1>2, <1>3

\* The step that counts: a complete count in memory is a complete run of samples.
LEMMA DebounceInv ==
    ASSUME Probe!ProberAssumption, ProberInv, Probe!Debounce
    PROVE  ProberInv'
<1> USE DEF ProberInv, Probe!ProberAssumption, Probe!Debounce, Probe!Weigh, Probe!Swept
<1>1. ASSUME NEW c \in Cameras, row[c] # None
      PROVE  /\ Probe!Counted(c) \in 0..Confirmations
             /\ Probe!Confirmed(c) \in Probe!Verdicts
             /\ sample[c] \in Probe!Verdicts
             /\ streak'[c] \in 1..Confirmations
  BY <1>1 DEF Probe!TypeOK, Probe!Counted, Probe!Confirmed, Probe!Verdicts
<1>2. Probe!TypeOK'
  BY <1>1 DEF Probe!TypeOK, Probe!Verdicts
<1>3. RowsRead'
  BY DEF RowsRead, Probe!InService
<1>4. ASSUME NEW c \in Cameras, row[c] # None, sample[c] # "online"
      PROVE  Probe!Counted(c) <= streak'[c]
  <2>1. CASE pending[c] = sample[c]
    <3>1. said[c] = sample[c] /\ count[c] <= streak[c]
      BY <1>1, <1>4, <2>1 DEF CountIsStreak, Probe!Verdicts
    <3>2. count[c] \in 0..Confirmations /\ streak[c] \in 0..Confirmations
      BY DEF Probe!TypeOK
    <3>3. QED
      BY <1>4, <2>1, <3>1, <3>2 DEF Probe!Counted
  <2>2. CASE pending[c] # sample[c]
    BY <1>1, <1>4, <2>2 DEF Probe!Counted
  <2>3. QED
    BY <2>1, <2>2
<1>5. CountIsStreak'
  <2> SUFFICES ASSUME NEW c \in Cameras, pending'[c] # None
               PROVE  said'[c] = pending'[c] /\ count'[c] <= streak'[c]
    BY DEF CountIsStreak
  <2>1. CASE row[c] = None
    BY <2>1 DEF CountIsStreak, Probe!TypeOK
  <2>2. CASE row[c] # None
    BY <1>4, <2>2 DEF Probe!TypeOK
  <2>3. QED
    BY <2>1, <2>2
<1>6. VerdictsJustified'
  <2> SUFFICES ASSUME NEW c \in Cameras, verdict'[c] # None
               PROVE  /\ row[c] # None
                      /\ \/ verdict'[c] = row[c]
                         \/ /\ said'[c] = verdict'[c]
                            /\ verdict'[c] = "online" \/ streak'[c] >= Confirmations
    BY DEF VerdictsJustified, Probe!Justified
  <2>1. row[c] # None /\ verdict'[c] = Probe!Confirmed(c) /\ said'[c] = sample[c]
    BY DEF Probe!TypeOK
  <2>2. CASE sample[c] = "online"
    BY <2>1, <2>2 DEF Probe!Confirmed
  <2>3. CASE sample[c] # "online" /\ Probe!Counted(c) >= Confirmations
    <3>1. streak'[c] >= Confirmations
      BY <1>1, <1>4, <2>1, <2>3
    <3>2. QED
      BY <2>1, <2>3, <3>1 DEF Probe!Confirmed
  <2>4. CASE sample[c] # "online" /\ ~(Probe!Counted(c) >= Confirmations)
    BY <2>1, <2>4 DEF Probe!Confirmed
  <2>5. QED
    BY <2>1, <2>2, <2>3, <2>4
<1>7. QED
  BY <1>2, <1>3, <1>5, <1>6

LEMMA ProberWriteInv ==
    ASSUME Probe!ProberAssumption, ProberInv, Probe!Write
    PROVE  ProberInv'
<1> USE DEF ProberInv, Probe!ProberAssumption, Probe!Write, Probe!SweepOver, Probe!All,
            Probe!memory, Probe!history
<1>1. Probe!TypeOK'
  BY DEF Probe!TypeOK, Probe!InService
<1>2. RowsRead' /\ CountIsStreak' /\ VerdictsJustified'
  BY DEF RowsRead, CountIsStreak, VerdictsJustified
<1>3. QED
  BY <1>1, <1>2

\* What the operators do to a status while a sweep has read it is in returned, or
\* takes the camera out of service.
LEMMA OperateInv ==
    ASSUME Probe!ProberAssumption, ProberInv, Probe!Operate
    PROVE  ProberInv'
<1> USE DEF ProberInv, Probe!ProberAssumption, Probe!Operate, Probe!Create, Probe!Decommission,
            Probe!Ask, Probe!Recommission, Probe!StreamChanges, Probe!Step, Probe!sweep,
            Probe!memory, Probe!history
<1>1. Probe!TypeOK'
  BY DEF Probe!TypeOK, Probe!Verdicts
<1>2. RowsRead'
  BY DEF RowsRead, Probe!InService, Probe!TypeOK
<1>3. CountIsStreak' /\ VerdictsJustified'
  BY DEF CountIsStreak, VerdictsJustified, Probe!Justified
<1>4. QED
  BY <1>1, <1>2, <1>3

LEMMA ProberNextInv ==
    ASSUME Probe!ProberAssumption
    PROVE  ProberInv /\ [Probe!Next]_(Probe!vars) => ProberInv'
<1> SUFFICES ASSUME ProberInv, [Probe!Next]_(Probe!vars) PROVE ProberInv'
  OBVIOUS
<1>1. CASE Probe!Next
  BY <1>1, SweepStepInv, DebounceInv, ProberWriteInv, OperateInv DEF Probe!Next, Probe!Sweep
<1>2. CASE UNCHANGED Probe!vars
  BY <1>2 DEF Probe!vars, Probe!sweep, Probe!memory, Probe!history, ProberInv, Probe!TypeOK,
              RowsRead, CountIsStreak, VerdictsJustified, Probe!Justified, Probe!InService
<1>3. QED
  BY <1>1, <1>2

\* A status the prober writes is justified, or was the row's.
LEMMA ProberWrites ==
    ASSUME ProberInv, [Probe!Next]_(Probe!vars), NEW c \in Cameras,
           sweeping = "writing", sweeping' = "idle", status'[c] # status[c]
    PROVE  /\ status[c] # "decommissioned"
           /\ Probe!Justified(c, status'[c]) \/ c \in returned
<1>1. Probe!Write \/ Probe!SweepFails
  BY DEF Probe!Next, Probe!vars, Probe!Sweep, Probe!Read, Probe!Sample, Probe!Debounce,
         Probe!Operate, Probe!Create, Probe!Decommission, Probe!Ask, Probe!Recommission,
         Probe!StreamChanges,
         Probe!sweep
<1>2. verdict[c] # None /\ Probe!InService(c) /\ status'[c] = verdict[c]
  BY <1>1 DEF Probe!Write, Probe!SweepFails, ProberInv, Probe!TypeOK
<1>3. row[c] # None /\ (verdict[c] = row[c] \/ Probe!Justified(c, verdict[c]))
  BY <1>2 DEF ProberInv, VerdictsJustified
<1>4. QED
  BY <1>2, <1>3 DEF ProberInv, RowsRead, Probe!InService

\* The inductive invariant of the prober, for any cameras, operators and number of
\* confirmations.
THEOREM ProberInvariant ==
    ASSUME Probe!ProberAssumption
    PROVE  Probe!Spec => []ProberInv
<1>1. QED
  BY ProberInitInv, ProberNextInv, PTL DEF Probe!Spec

\* ChangesAreSampled: the debounce of the prober never writes a status that the last
\* samples do not justify, whatever operators do and however sweeps fail in between.
THEOREM StatusesFollowSamples ==
    ASSUME Probe!ProberAssumption
    PROVE  Probe!Spec => Probe!ChangesAreSampled
<1>1. ProberInv /\ [Probe!Next]_(Probe!vars) =>
        [\A c \in Cameras : sweeping = "writing" /\ sweeping' = "idle" /\ status'[c] # status[c]
           => /\ status[c] # "decommissioned"
              /\ Probe!Justified(c, status'[c]) \/ c \in returned]_(Probe!vars)
  BY ProberWrites
<1>2. QED
  BY <1>1, ProberInvariant, PTL DEF Probe!Spec, Probe!ChangesAreSampled

-------------------------------------------------------------------------------
(* The crop review server, in an instance of its own.                       *)

CONSTANTS Crops, Withheld, Labellers, Sheets, Answers, Known, RecheckEvery, MaxCrashes, MaxExtra,
          Skip, Disputed
VARIABLES log, torn, manifest, up, events, served, page, crop, given, word, crashes, extra

Review == INSTANCE ReviewQueue WITH pc <- page

\* The operators of the library are the same in the instance.
LEMMA SameSets ==
    ASSUME NEW S
    PROVE  /\ Review!IsFiniteSet(S) <=> IsFiniteSet(S)
           /\ Review!Cardinality(S) = Cardinality(S)
<1>1. Review!IsFiniteSet(S) <=> IsFiniteSet(S)
  BY DEF IsFiniteSet, Review!IsFiniteSet
<1>2. Review!Cardinality(S) = Cardinality(S)
  BY DEF Cardinality, Review!Cardinality
<1>3. QED
  BY <1>1, <1>2

\* A page that shows a crop shows one, and one that has posted has an answer to it.
PagesShow ==
    \A l \in Labellers :
        /\ page[l] # "idle" => crop[l] \in Crops
        /\ page[l] = "posted" => given[l] \in Answers \cup {Skip}

\* Each kill has cost a label, or has left a torn line that the next label will be
\* glued to.
KillsCost ==
    /\ IsFiniteSet(Review!Forgotten)
    /\ Cardinality(Review!Forgotten) + (IF torn THEN 1 ELSE 0) <= crashes

Begun(c) == IF c \in DOMAIN Known THEN Known[c] ELSE None

\* Before the first kill the log is what people have said and what the manifest began
\* with, and the manifest has changed only where somebody has said something.
Unkilled ==
    crashes = 0 =>
        /\ ~torn
        /\ \A l \in Labellers, c \in Crops : log[l][c] = word[l][c]
        /\ \A c \in Crops : log[Sheets][c] \in {None, Begun(c)}
        /\ \A c \in Crops : (\A l \in Labellers : word[l][c] = None) => manifest[c] = Begun(c)
        /\ ~up => \A l \in Labellers, c \in Crops : word[l][c] = None

ReviewInv == Review!TypeOK /\ PagesShow /\ KillsCost /\ Unkilled

LEMMA ReviewInitInv == Review!ReviewAssumption /\ Review!Init => ReviewInv
<1> SUFFICES ASSUME Review!ReviewAssumption, Review!Init PROVE ReviewInv
  OBVIOUS
<1> USE DEF Review!ReviewAssumption, Review!Init, Review!Silence, Review!Everyone
<1>1. Review!TypeOK
  <2>1. manifest \in [Crops -> Answers \cup {Disputed, None}]
    OBVIOUS
  <2>2. 0 \in 0..MaxCrashes /\ 0 \in 0..MaxExtra
    OBVIOUS
  <2>3. Review!Silence \in [Review!Everyone -> [Crops -> Answers \cup {None}]]
    OBVIOUS
  <2>4. word \in [Labellers -> [Crops -> Answers \cup {None}]]
    OBVIOUS
  <2>5. QED
    BY <2>1, <2>2, <2>3, <2>4 DEF Review!TypeOK
<1>2. PagesShow /\ Unkilled
  BY DEF PagesShow, Unkilled, Begun
<1>3. KillsCost
  <2>1. Review!Forgotten = {}
    BY DEF Review!Forgotten
  <2>2. QED
    BY <2>1, FS_EmptySet DEF KillsCost
<1>4. QED
  BY <1>1, <1>2, <1>3 DEF ReviewInv

\* The first of some crops is one of them.
LEMMA FirstCrop ==
    ASSUME Review!ReviewAssumption, NEW S \in SUBSET Crops, S # {}
    PROVE  Review!Min(S) \in S
<1>1. S \subseteq Nat
  BY DEF Review!ReviewAssumption
<1>2. PICK m \in S : \A n \in S : ~(<<n, m>> \in OpToRel(<, Nat))
  BY <1>1, NatLessThanWellFounded, WFMin, Zenon
<1>3. \A n \in S : ~(n < m)
  BY <1>1, <1>2 DEF OpToRel
<1>4. \A n \in S : m <= n
  BY <1>1, <1>3
<1>5. QED
  BY <1>4 DEF Review!Min

\* Labels that are not forgotten stay so where the log and the words stay.
LEMMA SameLabels ==
    ASSUME KillsCost, crashes' = crashes, torn' = torn,
           \A l \in Labellers, c \in Crops : log'[l][c] = log[l][c] /\ word'[l][c] = word[l][c]
    PROVE  KillsCost'
<1>1. Review!Forgotten' = Review!Forgotten
  BY DEF Review!Forgotten
<1>2. QED
  BY <1>1 DEF KillsCost

\* What a page does on its own changes neither the log nor anybody's word.
LEMMA PageInv ==
    ASSUME Review!ReviewAssumption, ReviewInv, NEW l \in Labellers,
           \/ Review!Advance(l) \/ Review!AskAgain(l) \/ Review!Answer(l) \/ Review!SkipCrop(l)
           \/ \E c \in Crops : Review!Open(l, c)
    PROVE  ReviewInv'
<1> USE DEF ReviewInv
<1>1. UNCHANGED <<log, torn, manifest, up, events, word, crashes>>
  BY DEF Review!Advance, Review!AskAgain, Review!Answer, Review!SkipCrop, Review!Open,
         Review!HandOut, Review!Submit, Review!files, Review!server
<1>2. KillsCost'
  BY <1>1, SameLabels
<1>3. Unkilled'
  BY <1>1 DEF Unkilled
<1>4. CASE Review!HandOut(l) /\ extra' \in 0..MaxExtra
  <2>1. Review!Choose(l) \in SUBSET Crops
    BY DEF Review!Choose, Review!Labelled, Review!LabelledBy, Review!ReviewAssumption
  <2>2. Review!Min(Review!Choose(l)) \in Crops
    BY <1>4, <2>1, FirstCrop DEF Review!HandOut
  <2>3. QED
    BY <1>1, <1>2, <1>3, <1>4, <2>2 DEF Review!HandOut, Review!TypeOK, PagesShow
<1>5. CASE \E a \in Answers \cup {Skip} : Review!Submit(l, a) /\ extra' \in 0..MaxExtra
  BY <1>1, <1>2, <1>3, <1>5 DEF Review!Submit, Review!server, Review!TypeOK, PagesShow
<1>6. CASE \E c \in Crops : Review!Open(l, c)
  BY <1>1, <1>2, <1>3, <1>6 DEF Review!Open, Review!server, Review!TypeOK, PagesShow,
     Review!ReviewAssumption
<1>7. QED
  BY <1>4, <1>5, <1>6 DEF Review!Advance, Review!AskAgain, Review!Answer, Review!SkipCrop,
     Review!TypeOK, Review!ReviewAssumption

\* One member more is at most one more to count.
LEMMA OneMore ==
    ASSUME NEW S, NEW T, NEW x, IsFiniteSet(S), T \subseteq S \cup {x}
    PROVE  /\ IsFiniteSet(T) /\ Cardinality(S) \in Nat /\ Cardinality(T) \in Nat
           /\ Cardinality(T) <= Cardinality(S) + 1
           /\ T \subseteq S => Cardinality(T) <= Cardinality(S)
<1>1. IsFiniteSet(S \cup {x}) /\ Cardinality(S) \in Nat
      /\ Cardinality(S \cup {x}) \in Nat /\ Cardinality(S \cup {x}) <= Cardinality(S) + 1
  <2>1. IsFiniteSet(S \cup {x}) /\ Cardinality(S) \in Nat
    BY FS_AddElement, FS_CardinalityType
  <2>2. Cardinality(S \cup {x}) = IF x \in S THEN Cardinality(S) ELSE Cardinality(S) + 1
    BY FS_AddElement
  <2>3. QED
    BY <2>1, <2>2
<1>2. IsFiniteSet(T) /\ Cardinality(T) <= Cardinality(S \cup {x})
  BY <1>1, FS_Subset
<1>3. Cardinality(T) \in Nat
  BY <1>2, FS_CardinalityType
<1>4. T \subseteq S => Cardinality(T) <= Cardinality(S)
  BY FS_Subset
<1>5. QED
  BY <1>1, <1>2, <1>3, <1>4

\* Where one word of one labeller changes, one label may be forgotten.
LEMMA OneWord ==
    ASSUME NEW l, NEW x,
           \A m \in Labellers, c \in Crops :
              m # l \/ c # x => word'[m][c] = word[m][c] /\ log'[m][c] = log[m][c]
    PROVE  /\ Review!Forgotten' \subseteq Review!Forgotten \cup {<<l, x>>}
           /\ \/ word'[l][x] = None \/ log'[l][x] = word'[l][x]
              \/ word'[l][x] = word[l][x] /\ log'[l][x] = log[l][x]
              => Review!Forgotten' \subseteq Review!Forgotten
<1>1. ASSUME NEW label \in Review!Forgotten'
      PROVE  label \in Review!Forgotten
             \/ /\ label = <<l, x>>
                /\ word'[l][x] # None /\ log'[l][x] # word'[l][x]
                /\ ~(word'[l][x] = word[l][x] /\ log'[l][x] = log[l][x])
  <2>1. PICK m \in Labellers, c \in Crops : label = <<m, c>>
    BY DEF Review!Forgotten
  <2>2. word'[m][c] # None /\ log'[m][c] # word'[m][c]
    BY <2>1 DEF Review!Forgotten
  <2>3. word[m][c] # None /\ log[m][c] # word[m][c] => label \in Review!Forgotten
    BY <2>1 DEF Review!Forgotten
  <2>4. QED
    BY <2>1, <2>2, <2>3
<1>2. QED
  BY <1>1

\* A line is readable unless it is glued to a torn one, and a reply acknowledges it.
LEMMA RecordInv ==
    ASSUME Review!ReviewAssumption, ReviewInv, NEW l \in Labellers, Review!Record(l)
    PROVE  ReviewInv'
<1> USE DEF ReviewInv
<1>1. /\ crop[l] \in Crops /\ given[l] \in Answers \cup {Skip} /\ up
      /\ UNCHANGED <<manifest, up, served, crashes, extra>> /\ torn' = FALSE
      /\ l \in Review!Everyone /\ l # Sheets /\ Skip \notin Answers /\ None \notin Answers
  BY DEF Review!Record, Review!Write, PagesShow, Review!Everyone, Review!ReviewAssumption
<1>2. word' = IF given[l] = Skip THEN word ELSE [word EXCEPT ![l][crop[l]] = given[l]]
  BY DEF Review!Record, Review!Reply
<1>3. log' = IF torn \/ given[l] = Skip THEN log ELSE [log EXCEPT ![l][crop[l]] = given[l]]
  BY DEF Review!Record, Review!Write, Review!Said
<1>4. Review!TypeOK'
  <2>1. log' \in [Review!Everyone -> [Crops -> Answers \cup {None}]]
    BY <1>1, <1>3 DEF Review!TypeOK
  <2>2. word' \in [Labellers -> [Crops -> Answers \cup {None}]]
    BY <1>1, <1>2 DEF Review!TypeOK
  <2>3. events' \in [Review!Everyone -> [Crops -> Answers \cup {None}]]
    BY <1>1 DEF Review!Record, Review!Said, Review!TypeOK
  <2>4. QED
    BY <1>1, <2>1, <2>2, <2>3 DEF Review!Record, Review!Reply, Review!TypeOK
<1>5. PagesShow'
  BY DEF Review!Record, Review!Reply, PagesShow, Review!TypeOK
<1>6. \A m \in Labellers, c \in Crops :
          m # l \/ c # crop[l] => word'[m][c] = word[m][c] /\ log'[m][c] = log[m][c]
  BY <1>1, <1>2, <1>3 DEF Review!TypeOK, Review!Everyone
<1>7. ~torn => \/ given[l] # Skip /\ word'[l][crop[l]] = given[l] /\ log'[l][crop[l]] = given[l]
               \/ word' = word /\ log' = log
  BY <1>1, <1>2, <1>3 DEF Review!TypeOK
<1>8. KillsCost'
  <2>1. Review!Forgotten' \subseteq Review!Forgotten \cup {<<l, crop[l]>>}
    BY <1>6, OneWord
  <2>2. ~torn => Review!Forgotten' \subseteq Review!Forgotten
    BY <1>6, <1>7, OneWord
  <2>3. crashes' = crashes /\ crashes \in Nat /\ torn \in BOOLEAN
    BY <1>1 DEF Review!TypeOK
  <2>4. IsFiniteSet(Review!Forgotten)
        /\ Cardinality(Review!Forgotten) + (IF torn THEN 1 ELSE 0) <= crashes
    BY DEF KillsCost
  <2>5. /\ IsFiniteSet(Review!Forgotten')
        /\ Cardinality(Review!Forgotten) \in Nat /\ Cardinality(Review!Forgotten') \in Nat
        /\ Cardinality(Review!Forgotten') <= Cardinality(Review!Forgotten) + 1
        /\ ~torn => Cardinality(Review!Forgotten') <= Cardinality(Review!Forgotten)
    BY <2>1, <2>2, <2>4, OneMore
  <2>6. QED
    BY <1>1, <2>3, <2>4, <2>5 DEF KillsCost
<1>9. Unkilled'
  <2> SUFFICES ASSUME crashes = 0 PROVE Unkilled'
    BY <1>1 DEF Unkilled
  <2>1. \A m \in Labellers, c \in Crops : log'[m][c] = word'[m][c]
    <3> SUFFICES ASSUME NEW m \in Labellers, NEW c \in Crops PROVE log'[m][c] = word'[m][c]
      OBVIOUS
    <3>1. ~torn /\ log[m][c] = word[m][c]
      BY DEF Unkilled
    <3>2. QED
      BY <1>6, <1>7, <3>1
  <2>2. log'[Sheets] = log[Sheets]
    BY <1>1, <1>3 DEF Review!TypeOK
  <2>3. \A m \in Labellers, c \in Crops : word'[m][c] = None => word[m][c] = None
    BY <1>1, <1>2, <1>6 DEF Review!TypeOK
  <2>4. QED
    BY <1>1, <2>1, <2>2, <2>3 DEF Unkilled
<1>10. QED
  BY <1>4, <1>5, <1>8, <1>9

\* Seeding changes what the log says of the sheets alone.
LEMMA SeedingTyped ==
    ASSUME Review!ReviewAssumption, ReviewInv, NEW S \in SUBSET Review!Seeds
    PROVE  /\ Review!Seeded(S) \in [Review!Everyone -> [Crops -> Answers \cup {None}]]
           /\ \A l \in Labellers : Review!Seeded(S)[l] = log[l]
           /\ \A c \in Crops : Review!Seeded(S)[Sheets][c] \in {log[Sheets][c], manifest[c]}
<1>1. \A c \in S : manifest[c] \in Answers
  BY DEF Review!Seeds
<1>2. Sheets \in Review!Everyone /\ Sheets \notin Labellers
  BY DEF Review!Everyone, Review!ReviewAssumption
<1>3. log \in [Review!Everyone -> [Crops -> Answers \cup {None}]]
  BY DEF ReviewInv, Review!TypeOK
<1>4. QED
  BY <1>1, <1>2, <1>3 DEF Review!Seeded, Review!Everyone

LEMMA StartInv ==
    ASSUME Review!ReviewAssumption, ReviewInv, Review!Start
    PROVE  ReviewInv'
<1> USE DEF ReviewInv
<1>1. /\ log' = Review!Seeded(Review!Seeds) /\ torn' = (torn /\ Review!Seeds = {})
      /\ ~up /\ up' = TRUE /\ events' = log'
      /\ UNCHANGED <<manifest, served, page, crop, given, word, crashes, extra>>
  BY DEF Review!Start, Review!page
<1>2. /\ log' \in [Review!Everyone -> [Crops -> Answers \cup {None}]]
      /\ \A l \in Labellers : log'[l] = log[l]
      /\ \A c \in Crops : log'[Sheets][c] \in {log[Sheets][c], manifest[c]}
  BY <1>1, SeedingTyped
<1>3. Review!TypeOK' /\ PagesShow'
  BY <1>1, <1>2 DEF Review!TypeOK, PagesShow
<1>4. KillsCost'
  <2>1. Review!Forgotten' = Review!Forgotten
    BY <1>1, <1>2 DEF Review!Forgotten
  <2>2. Cardinality(Review!Forgotten) \in Nat /\ crashes \in Nat /\ torn \in BOOLEAN
    BY FS_CardinalityType DEF KillsCost, Review!TypeOK
  <2>3. QED
    BY <1>1, <2>1, <2>2 DEF KillsCost
<1>5. Unkilled'
  <2> SUFFICES ASSUME crashes = 0 PROVE Unkilled'
    BY <1>1 DEF Unkilled
  <2>1. \A c \in Crops : manifest[c] = Begun(c) /\ log[Sheets][c] \in {None, Begun(c)}
    BY <1>1 DEF Unkilled
  <2>2. \A c \in Crops : log'[Sheets][c] \in {None, Begun(c)}
    BY <1>2, <2>1
  <2>3. ~torn' /\ up'
    BY <1>1 DEF Unkilled
  <2>4. \A l \in Labellers, c \in Crops : log'[l][c] = word'[l][c]
    BY <1>1, <1>2 DEF Unkilled
  <2>5. \A c \in Crops : manifest'[c] = Begun(c)
    BY <1>1, <2>1
  <2>6. QED
    BY <2>2, <2>3, <2>4, <2>5 DEF Unkilled
<1>6. QED
  BY <1>3, <1>4, <1>5

\* A kill during seeding tears a line of the sheets' alone.
LEMMA SeedKilledInv ==
    ASSUME Review!ReviewAssumption, ReviewInv, Review!SeedKilled
    PROVE  ReviewInv'
<1> USE DEF ReviewInv
<1>1. /\ crashes < MaxCrashes /\ crashes' = crashes + 1
      /\ UNCHANGED <<manifest, up, events, served, page, crop, given, word, extra>>
  BY DEF Review!SeedKilled, Review!Killed, Review!page, Review!server
<1>2. PICK next \in Review!Seeds :
        LET written == {c \in Review!Seeds : c < next}
        IN  log' = Review!Seeded(written) /\ torn' \in {torn /\ written = {}, TRUE}
  BY DEF Review!SeedKilled
<1>3. /\ log' \in [Review!Everyone -> [Crops -> Answers \cup {None}]]
      /\ \A l \in Labellers : log'[l] = log[l]
      /\ torn' \in BOOLEAN
  BY <1>2, SeedingTyped
<1>4. crashes \in Nat /\ crashes' \in 0..MaxCrashes /\ crashes' # 0 /\ MaxCrashes \in Nat
  BY <1>1 DEF Review!TypeOK, Review!ReviewAssumption
<1>5. Review!TypeOK' /\ PagesShow'
  BY <1>1, <1>3, <1>4 DEF Review!TypeOK, PagesShow
<1>6. KillsCost'
  <2>1. Review!Forgotten' = Review!Forgotten
    BY <1>1, <1>3 DEF Review!Forgotten
  <2>2. Cardinality(Review!Forgotten) \in Nat /\ torn \in BOOLEAN
    BY FS_CardinalityType DEF KillsCost, Review!TypeOK
  <2>3. QED
    BY <1>1, <1>3, <1>4, <2>1, <2>2 DEF KillsCost
<1>7. QED
  BY <1>4, <1>5, <1>6 DEF Unkilled

\* A kill loses, tears or writes one line at most.
LEMMA ServerKilledInv ==
    ASSUME Review!ReviewAssumption, ReviewInv, Review!ServerKilled
    PROVE  ReviewInv'
<1> USE DEF ReviewInv
<1>1. /\ crashes < MaxCrashes /\ crashes' = crashes + 1
      /\ UNCHANGED <<manifest, word, extra>>
  BY DEF Review!ServerKilled, Review!Killed
<1>2. crashes \in Nat /\ crashes' \in 0..MaxCrashes /\ crashes' # 0 /\ MaxCrashes \in Nat
      /\ torn \in BOOLEAN
  BY <1>1 DEF Review!TypeOK, Review!ReviewAssumption
<1>3. /\ events' = Review!Silence /\ up' = FALSE
      /\ served' \in [Labellers -> Nat] /\ page' = [l \in Labellers |-> "idle"]
      /\ crop' = [l \in Labellers |-> None] /\ given' = [l \in Labellers |-> None]
  BY DEF Review!ServerKilled
<1>4. Review!Silence \in [Review!Everyone -> [Crops -> Answers \cup {None}]]
  BY DEF Review!Silence
<1>5. /\ log' \in [Review!Everyone -> [Crops -> Answers \cup {None}]] /\ torn' \in BOOLEAN
      /\ KillsCost'
  <2>1. CASE UNCHANGED log
    <3>1. Review!Forgotten' = Review!Forgotten
      BY <1>1, <2>1 DEF Review!Forgotten
    <3>2. Cardinality(Review!Forgotten) \in Nat /\ torn' \in BOOLEAN
      BY <1>2, FS_CardinalityType DEF KillsCost, Review!ServerKilled, Review!Write
    <3>3. QED
      BY <1>1, <1>2, <2>1, <3>1, <3>2 DEF KillsCost, Review!TypeOK
  <2>2. CASE ~UNCHANGED log
    <3>1. PICK l \in Labellers : page[l] = "posted" /\ Review!Write(l)
      BY <2>2 DEF Review!ServerKilled
    <3>2. /\ crop[l] \in Crops /\ given[l] \in Answers /\ ~torn /\ torn' = FALSE
          /\ log' = [log EXCEPT ![l][crop[l]] = given[l]]
      BY <2>2, <3>1 DEF Review!Write, Review!Said, PagesShow
    <3>3. \A m \in Labellers, c \in Crops :
            m # l \/ c # crop[l] => word'[m][c] = word[m][c] /\ log'[m][c] = log[m][c]
      BY <1>1, <3>2 DEF Review!TypeOK, Review!Everyone
    <3>4. Review!Forgotten' \subseteq Review!Forgotten \cup {<<l, crop[l]>>}
      BY <3>3, OneWord, Zenon
    <3>5. KillsCost'
      <4>1. IsFiniteSet(Review!Forgotten) /\ Cardinality(Review!Forgotten) <= crashes
        BY <3>2, FS_CardinalityType DEF KillsCost
      <4>2. /\ IsFiniteSet(Review!Forgotten')
            /\ Cardinality(Review!Forgotten) \in Nat /\ Cardinality(Review!Forgotten') \in Nat
            /\ Cardinality(Review!Forgotten') <= Cardinality(Review!Forgotten) + 1
        BY <3>4, <4>1, OneMore
      <4>3. QED
        BY <1>1, <1>2, <3>2, <4>1, <4>2 DEF KillsCost
    <3>6. QED
      BY <3>2, <3>5 DEF Review!TypeOK, Review!Everyone
  <2>3. QED
    BY <2>1, <2>2
<1>6. Review!TypeOK' /\ PagesShow'
  BY <1>1, <1>2, <1>3, <1>4, <1>5 DEF Review!TypeOK, PagesShow
<1>7. QED
  BY <1>2, <1>5, <1>6 DEF Unkilled

\* What is said of a crop, as a finite set of answers.
LEMMA DecisionsAre ==
    ASSUME Review!ReviewAssumption, ReviewInv, NEW c \in Crops, NEW anchored \in BOOLEAN
    PROVE  /\ Review!Decisions(c, anchored) \subseteq Answers
           /\ IsFiniteSet(Review!Decisions(c, anchored))
<1> DEFINE D == Review!Decisions(c, anchored)
<1>1. D \subseteq Answers
  BY DEF Review!Decisions, ReviewInv, Review!TypeOK, Review!Everyone
<1>2. IsFiniteSet({log[l][c] : l \in Review!Everyone})
  <2>1. IsFiniteSet(Review!Everyone)
    BY SameSets, FS_AddElement DEF Review!Everyone, Review!ReviewAssumption
  <2>2. [l \in Review!Everyone |-> log[l][c]] \in
            Surjection(Review!Everyone, {log[l][c] : l \in Review!Everyone})
    BY DEF Surjection
  <2>3. QED
    BY <2>1, <2>2, FS_Surjection
<1>3. D \subseteq {log[l][c] : l \in Review!Everyone}
  BY DEF Review!Decisions, Review!Everyone
<1>4. QED
  BY <1>1, <1>2, <1>3, FS_Subset

\* apply_labels, with the decisions counted.
LEMMA Applied ==
    ASSUME Review!ReviewAssumption, ReviewInv, NEW c \in Crops, NEW anchored \in BOOLEAN,
           Review!Apply(anchored)
    PROVE  LET D == Review!Decisions(c, anchored)
           IN  \/ D = {} /\ manifest'[c] = manifest[c]
               \/ \E a \in Answers : D = {a} /\ manifest'[c] = a
               \/ Cardinality(D) > 1 /\ manifest'[c] = Disputed
<1> DEFINE D == Review!Decisions(c, anchored)
<1>1. D \subseteq Answers /\ IsFiniteSet(D) /\ Cardinality(D) \in Nat
  BY DecisionsAre, FS_CardinalityType
<1>2. Review!Cardinality(D) = Cardinality(D)
  BY SameSets
<1>3. manifest'[c] = CASE D = {} -> manifest[c]
                       [] Review!Cardinality(D) = 1 -> CHOOSE a \in D : TRUE
                       [] OTHER -> Disputed
  BY DEF Review!Apply
<1>4. Cardinality(D) = 0 <=> D = {}
  BY <1>1, FS_EmptySet
<1>5. Cardinality(D) = 1 => \E a \in Answers : D = {a}
  BY <1>1, FS_Singleton
<1>6. CASE D = {}
  BY <1>2, <1>3, <1>4, <1>6
<1>7. CASE Cardinality(D) = 1
  <2>1. PICK a \in Answers : D = {a}
    BY <1>5, <1>7
  <2>2. manifest'[c] = a
    BY <1>2, <1>3, <1>7, <2>1
  <2>3. QED
    BY <2>1, <2>2
<1>8. CASE D # {} /\ Cardinality(D) # 1
  <2>1. Cardinality(D) > 1
    BY <1>1, <1>4, <1>8
  <2>2. manifest'[c] = Disputed
    BY <1>2, <1>3, <1>8
  <2>3. QED
    BY <2>1, <2>2
<1>9. QED
  BY <1>6, <1>7, <1>8

\* Before the first kill nobody's word but the manifest's own is among the decisions.
LEMMA DecidedByWords ==
    ASSUME Review!ReviewAssumption, ReviewInv, crashes = 0,
           NEW c \in Crops, NEW anchored \in BOOLEAN
    PROVE  LET words == {word[l][c] : l \in Labellers} \ {None}
           IN  /\ words \subseteq Review!Decisions(c, anchored)
               /\ Review!Decisions(c, anchored) \subseteq words \cup
                      (IF Review!Migrated THEN {Known[d] : d \in DOMAIN Known \cap {c}} ELSE {})
<1>1. \A l \in Labellers : log[l][c] = word[l][c]
  BY DEF ReviewInv, Unkilled
<1>2. log[Sheets][c] # None => /\ c \in DOMAIN Known /\ log[Sheets][c] = Known[c]
                               /\ Review!Migrated
  BY DEF ReviewInv, Unkilled, Begun, Review!Migrated, Review!LabelledBy
<1>3. QED
  BY <1>1, <1>2 DEF Review!Decisions, Review!Everyone

\* An apply before the first kill writes nothing where nobody has said anything.
LEMMA ApplyInv ==
    ASSUME Review!ReviewAssumption, ReviewInv, NEW anchored \in BOOLEAN, Review!Apply(anchored)
    PROVE  ReviewInv'
<1> USE DEF ReviewInv
<1>1. UNCHANGED <<log, torn, up, events, served, page, crop, given, word, crashes, extra>>
  BY DEF Review!Apply, Review!server, Review!page
<1>2. manifest' \in [Crops -> Answers \cup {Disputed, None}]
  <2>1. \A c \in Crops : manifest'[c] \in Answers \cup {Disputed, None}
    BY Applied DEF Review!TypeOK
  <2>2. DOMAIN manifest' = Crops /\ manifest' = [c \in Crops |-> manifest'[c]]
    BY DEF Review!Apply
  <2>3. QED
    BY <2>1, <2>2
<1>3. Review!TypeOK' /\ PagesShow'
  BY <1>1, <1>2 DEF Review!TypeOK, PagesShow
<1>4. KillsCost'
  BY <1>1, SameLabels
<1>5. Unkilled'
  <2> SUFFICES ASSUME crashes = 0, NEW c \in Crops, \A l \in Labellers : word[l][c] = None
               PROVE  manifest'[c] = Begun(c)
    BY <1>1 DEF Unkilled
  <2>1. manifest[c] = Begun(c)
    BY DEF Unkilled
  <2>2. Review!Decisions(c, anchored) \subseteq {Known[d] : d \in DOMAIN Known \cap {c}}
    BY DecidedByWords
  <2>3. Review!Decisions(c, anchored) \subseteq {Begun(c)}
    BY <2>2 DEF Begun
  <2>4. ~(Cardinality(Review!Decisions(c, anchored)) > 1)
    <3>1. IsFiniteSet({Begun(c)}) /\ Cardinality({Begun(c)}) = 1
      BY FS_Singleton
    <3>2. /\ Cardinality(Review!Decisions(c, anchored)) \in Nat
          /\ Cardinality(Review!Decisions(c, anchored)) <= Cardinality({Begun(c)})
      BY <2>3, <3>1, FS_Subset, FS_CardinalityType
    <3>3. QED
      BY <3>1, <3>2
  <2>5. QED
    BY <2>1, <2>3, <2>4, Applied
<1>6. QED
  BY <1>3, <1>4, <1>5

LEMMA ReviewNextInv ==
    ASSUME Review!ReviewAssumption
    PROVE  ReviewInv /\ [Review!Next]_(Review!vars) => ReviewInv'
<1> SUFFICES ASSUME ReviewInv, [Review!Next]_(Review!vars) PROVE ReviewInv'
  OBVIOUS
<1>1. CASE Review!Next
  BY <1>1, PageInv, RecordInv, StartInv, SeedKilledInv, ServerKilledInv, ApplyInv DEF Review!Next
<1>2. CASE UNCHANGED Review!vars
  BY <1>2, SameLabels DEF Review!vars, Review!files, Review!server, Review!page, ReviewInv,
     Review!TypeOK, PagesShow, Unkilled
<1>3. QED
  BY <1>1, <1>2

\* A step that changes the manifest is an apply.
LEMMA DisputesStep ==
    ASSUME Review!ReviewAssumption, ReviewInv, [Review!Next]_(Review!vars), NEW c \in Crops,
           manifest'[c] # manifest[c], crashes = 0
    PROVE  LET words == {word[l][c] : l \in Labellers} \ {None}
           IN  IF manifest'[c] = Disputed
               THEN Review!Cardinality(words \cup
                      (IF Review!Migrated THEN {Known[d] : d \in DOMAIN Known \cap {c}} ELSE {})) > 1
               ELSE words = {manifest'[c]}
<1> DEFINE words == {word[l][c] : l \in Labellers} \ {None}
           sheet == IF Review!Migrated THEN {Known[d] : d \in DOMAIN Known \cap {c}} ELSE {}
<1>1. PICK anchored \in BOOLEAN : Review!Apply(anchored)
  BY DEF Review!Next, Review!Advance, Review!AskAgain, Review!Answer, Review!SkipCrop, Review!Open,
         Review!HandOut, Review!Submit, Review!Record, Review!Start, Review!SeedKilled,
         Review!ServerKilled, Review!files, Review!vars
<1> DEFINE D == Review!Decisions(c, anchored)
<1>2. words \subseteq D /\ D \subseteq words \cup sheet
  BY DecidedByWords
<1>3. \/ \E a \in Answers : D = {a} /\ manifest'[c] = a
      \/ Cardinality(D) > 1 /\ manifest'[c] = Disputed
  BY <1>1, Applied
<1>4. CASE \E a \in Answers : D = {a} /\ manifest'[c] = a
  <2>1. PICK a \in Answers : D = {a} /\ manifest'[c] = a
    BY <1>4
  <2>2. a # Disputed
    BY DEF Review!ReviewAssumption
  <2>3. words # {}
    <3> SUFFICES ASSUME words = {} PROVE FALSE
      OBVIOUS
    <3>1. manifest[c] = Begun(c)
      BY DEF ReviewInv, Unkilled
    <3>2. a = Begun(c)
      BY <1>2, <2>1 DEF Begun
    <3>3. QED
      BY <2>1, <3>1, <3>2
  <2>4. QED
    BY <1>2, <2>1, <2>2, <2>3
<1>5. CASE Cardinality(D) > 1 /\ manifest'[c] = Disputed
  <2>1. IsFiniteSet(D) /\ Cardinality(D) \in Nat
    BY DecisionsAre, FS_CardinalityType
  <2>2. IsFiniteSet(words \cup sheet)
    <3>1. IsFiniteSet(words)
      BY <1>2, <2>1, FS_Subset
    <3>2. sheet \subseteq {Known[c]}
      OBVIOUS
    <3>3. IsFiniteSet(sheet)
      BY <3>2, FS_Singleton, FS_Subset
    <3>4. QED
      BY <3>1, <3>3, FS_Union
  <2>3. Cardinality(D) <= Cardinality(words \cup sheet) /\ Cardinality(words \cup sheet) \in Nat
    BY <1>2, <2>2, FS_Subset, FS_CardinalityType
  <2>4. Review!Cardinality(words \cup sheet) > 1
    BY <1>5, <2>1, <2>3, SameSets
  <2>5. QED
    BY <1>5, <2>4
<1>6. QED
  BY <1>3, <1>4, <1>5

\* The inductive invariant of the review, for any crops, labellers, answers and kills.
THEOREM ReviewInvariant ==
    ASSUME Review!ReviewAssumption
    PROVE  Review!Spec => []ReviewInv
<1>1. QED
  BY ReviewInitInv, ReviewNextInv, PTL DEF Review!Spec

\* LabelsKept: however people label while the server is killed and started again, each kill
\* costs one acknowledged label at most, the one glued to the line it has torn.
THEOREM KillsCostOneEach ==
    ASSUME Review!ReviewAssumption
    PROVE  Review!Spec => []Review!LabelsKept
<1>1. ReviewInv => Review!LabelsKept
  <2> SUFFICES ASSUME ReviewInv PROVE Review!LabelsKept
    OBVIOUS
  <2>1. Cardinality(Review!Forgotten) \in Nat /\ crashes \in Nat /\ torn \in BOOLEAN
    BY FS_CardinalityType DEF ReviewInv, KillsCost, Review!TypeOK
  <2>2. QED
    BY <2>1, SameSets DEF ReviewInv, KillsCost, Review!LabelsKept
<1>2. QED
  BY <1>1, ReviewInvariant, PTL

\* DisputesStand: apply_labels writes an answer only where everybody's last word is that
\* answer, and Disputed only where there are two, as long as nothing was killed.
THEOREM DisagreementsStand ==
    ASSUME Review!ReviewAssumption
    PROVE  Review!Spec => Review!DisputesStand
<1>1. ReviewInv /\ [Review!Next]_(Review!vars) =>
        [\A c \in Crops :
          LET words == {word[l][c] : l \in Labellers} \ {None}
          IN  manifest'[c] # manifest[c] /\ crashes = 0 =>
                 IF manifest'[c] = Disputed
                 THEN Review!Cardinality(words \cup
                        (IF Review!Migrated THEN {Known[d] : d \in DOMAIN Known \cap {c}}
                                              ELSE {})) > 1
                 ELSE words = {manifest'[c]}]_(Review!vars)
  BY DisputesStep
<1>2. QED
  BY <1>1, ReviewInvariant, PTL DEF Review!Spec, Review!DisputesStand
===============================================================================
