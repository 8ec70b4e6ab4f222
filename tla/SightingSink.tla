----------------------------- MODULE SightingSink -----------------------------
(***************************************************************************)
(* The batched writer every camera of an ANPR worker shares                *)
(* (services/anpr/sink.py, class SightingSink), with the threads that call *)
(* it: one per camera, and the worker's main loop (services/anpr/worker.py *)
(* run, _persist, _maybe_roll_up and main).                                *)
(*                                                                         *)
(* The sink has no lock.  What keeps it together is CPython's own: a       *)
(* thread is only switched out at a call, at a loop's back edge or while   *)
(* it waits for I/O, so every stretch of code between two such points is   *)
(* one step here, and the points themselves are program counters:          *)
(*   - `flush` takes the buffer in one tuple assignment: one step;         *)
(*   - a write is a database transaction: other threads run meanwhile;     *)
(*   - `due` without an argument calls time.monotonic() between looking at *)
(*     `oldest_at` and using it: two steps (main loop only);               *)
(*   - `_lost` calls dict.get and stores the sum afterwards: two steps.    *)
(***************************************************************************)
EXTENDS Naturals, FiniteSets

CONSTANTS
    Cameras,    \* camera threads of this worker, one per camera
    Main,       \* the worker's main thread
    Reads,      \* finished plate reads, the rows of `sightings` to be
    CameraOf,   \* which camera a read comes from
    BatchSize,  \* BATCH_SIZE
    NoRead      \* no read: a thread that is not counting a lost one

ASSUME SinkAssumption ==
    /\ Main \notin Cameras
    /\ CameraOf \in [Reads -> Cameras]
    /\ BatchSize \in Nat \ {0}
    /\ NoRead \notin Reads

Threads == Cameras \cup {Main}

VARIABLES
    unread,     \* reads the pipelines have not finished yet
    pending,    \* SightingSink.pending
    oldestAt,   \* SightingSink.oldest_at: "none", "fresh", or "aged" once it
                \* lies BATCH_MAX_AGE_S or more in the past
    failedBy,   \* SightingSink.failed_by_camera
    reported,   \* losses that reached the metrics tables, per camera
    unreported, \* losses claimed by a rollup whose own write then failed
    pc,         \* where each thread is
    phase,      \* "running", "closing" (last harvest done), "closed"
    batch,      \* flush's local `batch`, per thread
    counting,   \* the row _lost is at, per thread
    tally,      \* what dict.get returned to _lost, per thread
    stored,     \* rows of `sightings`
    lost,       \* reads _lost has accounted for
    swallowed,  \* reads in a transaction that COMMIT silently rolled back
    doubt,      \* reads committed by a write whose acknowledgement was lost
    stopping,   \* the stop event (SIGINT, SIGTERM)
    abandoned,  \* camera threads that outlived join(timeout=10)
    process     \* "up", "exited", or "crashed" by an exception in main

buffer   == <<unread, pending, oldestAt>>
losses   == <<failedBy, reported, unreported, counting, tally, lost>>
database == <<stored, swallowed, doubt>>
control  == <<stopping, abandoned, process>>
vars     == <<buffer, losses, database, control, pc, phase, batch>>

Goto(t, where) == pc' = [pc EXCEPT ![t] = where]

Idle(t) == pc[t] = "idle"

InFlight == UNION {batch[t] : t \in Threads}

-------------------------------------------------------------------------------
Init ==
    /\ unread = Reads /\ pending = {} /\ oldestAt = "none"
    /\ failedBy   = [c \in Cameras |-> 0]
    /\ reported   = [c \in Cameras |-> 0]
    /\ unreported = [c \in Cameras |-> 0]
    /\ counting   = [t \in Threads |-> NoRead]
    /\ tally      = [t \in Threads |-> 0]
    /\ lost = {} /\ stored = {} /\ swallowed = {} /\ doubt = {}
    /\ pc    = [t \in Threads |-> "idle"]
    /\ phase = [t \in Threads |-> "running"]
    /\ batch = [t \in Threads |-> {}]
    /\ stopping = FALSE /\ abandoned = {} /\ process = "up"

-------------------------------------------------------------------------------
(* add, due and the housekeeping a camera thread does on every frame        *)

\* Mutant: add never starts the clock.
BufferNoClock(c, rows) ==
    /\ unread' = unread \ rows
    /\ pending' = pending \cup rows
    /\ UNCHANGED oldestAt
    /\ Goto(c, IF rows # {} /\ Cardinality(pending \cup rows) >= BatchSize
               THEN "flush" ELSE "idle")

\* SightingSink.add: `pending` grows, the clock starts if it was not running,
\* and a full buffer is flushed by the thread that filled it.
Buffer(c, rows) ==
    /\ unread' = unread \ rows
    /\ pending' = pending \cup rows
    /\ oldestAt' = IF rows # {} /\ oldestAt = "none" THEN "fresh" ELSE oldestAt
    /\ Goto(c, IF rows # {} /\ Cardinality(pending \cup rows) >= BatchSize
               THEN "flush" ELSE "idle")

Finished(c) == {r \in unread : CameraOf[r] = c}

\* CameraWorker._persist on a frame that finished some tracks.
Persist(c) ==
    /\ Idle(c) /\ phase[c] = "running"
    /\ \E rows \in SUBSET Finished(c) \ {{}} : Buffer(c, rows)
    /\ UNCHANGED <<losses, database, control, phase, batch>>

\* CameraWorker._maybe_roll_up: due(now) is given its clock, so nothing comes
\* between its look at the buffer and its answer.
CameraDue(c) ==
    /\ Idle(c) /\ phase[c] = "running"
    /\ pending # {} /\ oldestAt = "aged"
    /\ Goto(c, "flush")
    /\ UNCHANGED <<buffer, losses, database, control, phase, batch>>

\* Mutant: the rollup forgets the count it claimed.
RollUpForgets(c) ==
    /\ Idle(c) /\ phase[c] = "running" /\ failedBy[c] > 0
    /\ failedBy' = [failedBy EXCEPT ![c] = 0]
    /\ UNCHANGED <<reported, unreported, counting, tally, lost, buffer, database,
                   control, pc, phase, batch>>

\* write_metrics claims the camera's losses with dict.pop, then writes them.
RollUp(c) ==
    /\ Idle(c) /\ phase[c] = "running" /\ failedBy[c] > 0
    /\ failedBy' = [failedBy EXCEPT ![c] = 0]
    /\ \/ /\ reported' = [reported EXCEPT ![c] = @ + failedBy[c]]
          /\ UNCHANGED unreported
       \/ /\ unreported' = [unreported EXCEPT ![c] = @ + failedBy[c]]
          /\ UNCHANGED reported
    /\ UNCHANGED <<counting, tally, lost, buffer, database, control, pc, phase, batch>>

\* The `finally` of CameraWorker.run: whatever the pipeline still holds is
\* handed over, then the buffer is flushed whether or not it is full.
LastHarvest(c) ==
    /\ stopping /\ Idle(c) /\ phase[c] = "running"
    /\ phase' = [phase EXCEPT ![c] = "closing"]
    /\ \E rows \in SUBSET Finished(c) : Buffer(c, rows)
    /\ UNCHANGED <<losses, database, control, batch>>

LastFlush(c) ==
    /\ Idle(c) /\ phase[c] = "closing"
    /\ phase' = [phase EXCEPT ![c] = "closed"]
    /\ Goto(c, "flush")
    /\ UNCHANGED <<buffer, losses, database, control, batch>>

\* Mutant: a camera thread counts as joined before its last flush is done.
EndedEarly(c) == phase[c] = "closed"

Ended(c) == Idle(c) /\ phase[c] = "closed"

-------------------------------------------------------------------------------
(* flush, _write and _lost, run by whichever thread called flush            *)

FlushNothing(t) ==
    /\ pc[t] = "flush" /\ pending = {}
    /\ Goto(t, "idle")
    /\ UNCHANGED <<buffer, losses, database, control, phase, batch>>

\* Mutant: the buffer is copied and not emptied.
TakeBatchCopy(t) ==
    /\ pc[t] = "flush" /\ pending # {}
    /\ batch' = [batch EXCEPT ![t] = pending]
    /\ oldestAt' = "none"
    /\ Goto(t, "write")
    /\ UNCHANGED <<pending, unread, losses, database, control, phase>>

\* batch, self.pending, self.oldest_at = self.pending, [], None
TakeBatch(t) ==
    /\ pc[t] = "flush" /\ pending # {}
    /\ batch' = [batch EXCEPT ![t] = pending]
    /\ pending' = {} /\ oldestAt' = "none"
    /\ Goto(t, "write")
    /\ UNCHANGED <<unread, losses, database, control, phase>>

\* An attempt at _write: "write" is the first, "retry" the only other one.
Writing(t) == pc[t] \in {"write", "retry"}

Release(t) == batch' = [batch EXCEPT ![t] = {}] /\ Goto(t, "idle")

\* Mutant: the clock is reset when the write is done, not when the buffer is taken.
CommitResetsClock(t) ==
    /\ Writing(t)
    /\ stored' = stored \cup batch[t]
    /\ oldestAt' = "none"
    /\ Release(t)
    /\ UNCHANGED <<unread, pending, swallowed, doubt, losses, control, phase>>

\* Mutant: a failure after the commit (of linking, of publishing) is taken for
\* a failure of the write.
CommitRetried(t) ==
    /\ Writing(t)
    /\ stored' = stored \cup batch[t]
    /\ \/ Release(t)
       \/ /\ pc[t] = "write" /\ Goto(t, "retry")
          /\ UNCHANGED batch
    /\ UNCHANGED <<swallowed, doubt, buffer, losses, control, phase>>

Commit(t) ==
    /\ Writing(t)
    /\ stored' = stored \cup batch[t]
    /\ Release(t)
    /\ UNCHANGED <<swallowed, doubt, buffer, losses, control, phase>>

\* consider() logged and swallowed a failed alert INSERT; PostgreSQL has
\* aborted the transaction, and answers COMMIT with a silent ROLLBACK.
CommitAborted(t) ==
    /\ Writing(t)
    /\ swallowed' = swallowed \cup batch[t]
    /\ Release(t)
    /\ UNCHANGED <<stored, doubt, buffer, losses, control, phase>>

\* Mutant: a refused batch is dropped and not counted.
RefuseUncounted(t) ==
    /\ Writing(t)
    /\ Release(t)
    /\ UNCHANGED <<buffer, losses, database, control, phase>>

\* An error that is not RETRYABLE: a value or a constraint refused.
Refuse(t) ==
    /\ Writing(t)
    /\ Goto(t, "lost")
    /\ UNCHANGED <<buffer, losses, database, control, phase, batch>>

AfterDrop(t) == IF pc[t] = "write" THEN "retry" ELSE "lost"

\* Mutant: the batch is counted as lost on the first failure, and retried.
DropCounted(t) ==
    /\ Writing(t)
    /\ lost' = lost \cup batch[t]
    /\ Goto(t, AfterDrop(t))
    /\ UNCHANGED <<failedBy, reported, unreported, counting, tally, buffer,
                   database, control, phase, batch>>

\* The connection drops before the commit.
Drop(t) ==
    /\ Writing(t)
    /\ Goto(t, AfterDrop(t))
    /\ UNCHANGED <<buffer, losses, database, control, phase, batch>>

\* The connection drops after the commit and before its acknowledgement: the
\* rows are there, and the client sees the same error as above.
LoseAck(t) ==
    /\ Writing(t)
    /\ stored' = stored \cup batch[t]
    /\ doubt' = doubt \cup batch[t]
    /\ Goto(t, AfterDrop(t))
    /\ UNCHANGED <<swallowed, buffer, losses, control, phase, batch>>

\* Mutant: dict.get without its default.
CountReadNoDefault(t) ==
    /\ pc[t] = "lost"
    /\ \E r \in batch[t] :
          /\ counting' = [counting EXCEPT ![t] = r]
          /\ tally' = [tally EXCEPT ![t] = NoRead]
    /\ Goto(t, "count")
    /\ UNCHANGED <<failedBy, reported, unreported, lost, buffer, database,
                   control, phase, batch>>

\* _lost, one row: dict.get ...
CountRead(t) ==
    /\ pc[t] = "lost"
    /\ \E r \in batch[t] :
          /\ counting' = [counting EXCEPT ![t] = r]
          /\ tally' = [tally EXCEPT ![t] = failedBy[CameraOf[r]]]
    /\ Goto(t, "count")
    /\ UNCHANGED <<failedBy, reported, unreported, lost, buffer, database,
                   control, phase, batch>>

\* ... and the store of what it returned plus one.
CountStore(t) ==
    /\ pc[t] = "count"
    /\ failedBy' = [failedBy EXCEPT ![CameraOf[counting[t]]] = tally[t] + 1]
    /\ lost' = lost \cup {counting[t]}
    /\ batch' = [batch EXCEPT ![t] = @ \ {counting[t]}]
    /\ counting' = [counting EXCEPT ![t] = NoRead]
    /\ tally' = [tally EXCEPT ![t] = 0]
    /\ Goto(t, IF batch[t] = {counting[t]} THEN "idle" ELSE "lost")
    /\ UNCHANGED <<reported, unreported, buffer, database, control, phase>>

-------------------------------------------------------------------------------
(* The main loop of the worker                                              *)

\* main() is over, and the daemon camera threads end with the process.
Gone(how) ==
    /\ process' = how
    /\ pc' = [t \in Threads |-> "gone"]

\* due(): the buffer is looked at, then time.monotonic() is called.
MainLooks ==
    /\ Idle(Main) /\ phase[Main] = "running"
    /\ pending # {} /\ oldestAt # "none"
    /\ Goto(Main, "due")
    /\ UNCHANGED <<buffer, losses, database, control, phase, batch>>

MainDecides ==
    /\ pc[Main] = "due" /\ oldestAt # "none"
    /\ Goto(Main, IF oldestAt = "aged" THEN "flush" ELSE "idle")
    /\ UNCHANGED <<buffer, losses, database, control, phase, batch>>

\* A camera thread flushed in between: `now - None` raises TypeError, which
\* nothing catches.
MainTrips ==
    /\ pc[Main] = "due" /\ oldestAt = "none"
    /\ Gone("crashed")
    /\ UNCHANGED <<stopping, abandoned, buffer, losses, database, phase, batch>>

Stop ==
    /\ process = "up" /\ ~stopping
    /\ stopping' = TRUE
    /\ UNCHANGED <<abandoned, process, buffer, losses, database, pc, phase, batch>>

\* Every camera thread was joined or its ten seconds ran out: the last flush.
MainJoined ==
    /\ stopping /\ Idle(Main) /\ phase[Main] = "running"
    /\ abandoned' = {c \in Cameras : ~Ended(c)}
    /\ phase' = [phase EXCEPT ![Main] = "closed"]
    /\ Goto(Main, "flush")
    /\ UNCHANGED <<stopping, process, buffer, losses, database, batch>>

MainExits ==
    /\ Idle(Main) /\ phase[Main] = "closed"
    /\ Gone("exited")
    /\ UNCHANGED <<stopping, abandoned, buffer, losses, database, phase, batch>>

\* BATCH_MAX_AGE_S passes.
Age ==
    /\ process = "up" /\ oldestAt = "fresh"
    /\ oldestAt' = "aged"
    /\ UNCHANGED <<unread, pending, losses, database, control, pc, phase, batch>>

-------------------------------------------------------------------------------
Attempt(t) ==
    Commit(t) \/ CommitAborted(t) \/ Refuse(t) \/ Drop(t) \/ LoseAck(t)

Flushing(t) ==
    FlushNothing(t) \/ TakeBatch(t) \/ Attempt(t) \/ CountRead(t) \/ CountStore(t)

Camera(c) ==
    Persist(c) \/ CameraDue(c) \/ RollUp(c) \/ LastHarvest(c) \/ LastFlush(c)

MainLoop == MainLooks \/ MainDecides \/ MainTrips \/ MainJoined \/ MainExits

\* The process is gone: nothing of it moves any more.
Over == process # "up" /\ UNCHANGED vars

Next ==
    \/ \E c \in Cameras : Camera(c)
    \/ \E t \in Threads : Flushing(t)
    \/ MainLoop
    \/ Stop
    \/ Age
    \/ Over

Spec == Init /\ [][Next]_vars

(***************************************************************************)
(* The scheduler runs every thread that can run, time passes, and a write  *)
(* ends one way or another (a dead connection is an error, not a wait).    *)
(* Nothing makes a camera produce a read or be on time with its own flush. *)
(***************************************************************************)
Fairness ==
    /\ \A t \in Threads : WF_vars(Flushing(t))
    /\ WF_vars(MainLooks \/ MainDecides \/ MainTrips)
    /\ WF_vars(MainExits)
    /\ WF_vars(Age)

FairSpec == Spec /\ Fairness

-------------------------------------------------------------------------------
(* Properties                                                               *)

\* The values the sink's state ranges over.
TypeOK ==
    /\ unread \subseteq Reads /\ pending \subseteq Reads
    /\ oldestAt \in {"none", "fresh", "aged"}
    /\ failedBy \in [Cameras -> Nat]
    /\ reported \in [Cameras -> Nat]
    /\ unreported \in [Cameras -> Nat]
    /\ pc \in [Threads -> {"idle", "due", "flush", "write", "retry", "lost", "count", "gone"}]
    /\ phase \in [Threads -> {"running", "closing", "closed"}]
    /\ batch \in [Threads -> SUBSET Reads]
    /\ counting \in [Threads -> Reads \cup {NoRead}]
    /\ tally \in [Threads -> Nat]
    /\ lost \subseteq Reads /\ stored \subseteq Reads
    /\ swallowed \subseteq Reads /\ doubt \subseteq Reads
    /\ stopping \in BOOLEAN /\ abandoned \subseteq Cameras
    /\ process \in {"up", "exited", "crashed"}

\* A read is in one place at a time: not finished, in the buffer, or in the
\* hands of one flushing thread.  Two flushes never carry the same read.
HeldOnce ==
    /\ unread \cap pending = {}
    /\ \A t \in Threads : batch[t] \cap (unread \cup pending) = {}
    /\ \A t, u \in Threads : t # u => batch[t] \cap batch[u] = {}

\* No interleaving of adds, flushes, retries and the shutdown makes a read
\* disappear: it is waiting, in a flush, in the table, counted as lost, or
\* went down with a transaction an alert statement had aborted.
NothingForgotten ==
    Reads = unread \cup pending \cup InFlight \cup stored \cup lost \cup swallowed

\* Writing a settled read again needs a commit whose acknowledgement was lost:
\* no schedule of the threads makes a duplicate, or rewrites a loss, on its own.
SecondCopyOnlyInDoubt ==
    LET settled == stored \cup lost \cup swallowed
    IN  /\ settled \cap (unread \cup pending) = {}
        /\ settled \cap InFlight \subseteq doubt

\* A buffer with reads in it has its clock running, so `due` can come true:
\* no interleaving of add and flush leaves reads waiting for the next add.
AgeTracked == pending # {} => oldestAt # "none"

\* A process that stops in time leaves nothing behind: if every camera thread
\* was joined before its timeout, no read is in memory when main returns.
CleanExit ==
    process = "exited" /\ abandoned = {} => pending = {} /\ InFlight = {}

\* However the unlocked counters race, a camera that lost reads shows a loss:
\* in the counter, in the metrics, or in a rollup that itself failed.
LossLeavesTrace ==
    \A c \in Cameras : (\E r \in lost : CameraOf[r] = c)
        => failedBy[c] + reported[c] + unreported[c] > 0

\* Every read handed to the sink is settled, as long as the worker runs: the
\* main loop flushes an aged buffer even if no camera ever delivers a frame.
EveryReadSettles ==
    \A r \in Reads : (r \in pending \cup InFlight)
        ~> (r \in stored \cup lost \cup swallowed \/ process # "up")

\* sink.py:3-4: every plate read goes into `sightings` unconditionally; a read
\* that does not is at least counted (sink.py:513-519).  The code swallows
\* the failed alert statement that aborts the sightings' own transaction.
NoReadVanishes ==
    Reads = unread \cup pending \cup InFlight \cup stored \cup lost

\* sink.py:550-551: a failure is reported exactly once even if the metrics
\* write itself then fails.  The code pops the count first and drops it then.
LossStaysReported ==
    \A c \in Cameras : (\E r \in lost : CameraOf[r] = c)
        => failedBy[c] + reported[c] > 0

-------------------------------------------------------------------------------
(* The sink implements the ledger: the fate of a read, from the sink's state *)

Fate == [r \in Reads |->
    IF r \in stored THEN "stored"
    ELSE IF r \in lost THEN "lost"
    ELSE IF r \in swallowed THEN "swallowed"
    ELSE IF r \in unread THEN "unseen"
    ELSE "held"]

Ledger == INSTANCE ReadLedger WITH fate <- Fate

\* Every step of the sink is a step of the ledger or leaves it alone: a read
\* once settled keeps its fate, and a read is settled only while it is held.
ImplementsLedger == Ledger!Spec
===============================================================================
