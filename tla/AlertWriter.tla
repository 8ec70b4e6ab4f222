----------------------------- MODULE AlertWriter ------------------------------
(***************************************************************************)
(* Matching written sightings against the watchlist, inside the            *)
(* transaction that writes them (services/alerting/writer.py), as the      *)
(* flushing threads of the sink run it (services/anpr/sink.py flush and    *)
(* _write): one AlertWriter for all of them, and no lock.                  *)
(*                                                                         *)
(* A thread can be switched out while a statement is at the database, and  *)
(* at the back edge of the two comprehensions over `_corroborated`.  Those *)
(* are the program counters; the suppression check and the statement that  *)
(* follows it are therefore separate steps, as are the two halves of each  *)
(* comprehension.  CPython raises RuntimeError out of a dict iteration     *)
(* when another thread has inserted a key meanwhile, and does not when     *)
(* only a value changed.                                                   *)
(*                                                                         *)
(* Time is a count of suppression windows.  `_recent` is never pruned      *)
(* here: the code prunes it only beyond 4096 (entry, camera) pairs.        *)
(***************************************************************************)
EXTENDS Integers, FiniteSets

CONSTANTS
    Threads,      \* threads that may be flushing
    Reads,        \* sightings on their way to the table
    Entries,      \* active watchlist entries
    Entry,        \* the entry each read matches, by plate or by appearance
    ByPlate,      \* reads whose plate matched; the others were not readable
    Site,         \* the camera of each read
    PlateWindow,  \* suppression window of a plate match
    LookWindow,   \* suppression window of an appearance match
    Corroborates, \* CORROBORATION_WINDOW_S
    MaxTime,      \* bound on the clock
    MaxFaults,    \* bound on failed statements and dropped connections
    Never,        \* not in the dictionary
    NoRow         \* no row being considered

ASSUME AlertAssumption ==
    /\ Entry \in [Reads -> Entries]
    /\ ByPlate \subseteq Reads
    /\ {PlateWindow, LookWindow, Corroborates, MaxTime, MaxFaults} \subseteq Nat
    /\ Never \notin Int
    /\ NoRow \notin Reads

VARIABLES
    todo,          \* reads no batch has taken yet
    clock,         \* time.monotonic()
    faults,        \* failed statements and dropped connections so far
    pc,            \* where each thread is in flush and consider
    attempt,       \* 1, or 2 for the single retry
    batch,         \* flush's batch
    left,          \* rows consider has not reached
    row,           \* the row it is at
    now,           \* consider's now
    recent,        \* AlertWriter._recent
    corroborated,  \* AlertWriter._corroborated
    snapshot,      \* what a comprehension has read of it
    iterating,     \* threads inside a comprehension over the current dict
    upset,         \* those of them under which a key was inserted
    inserted,      \* alerts of the open transaction
    poisoned,      \* threads whose transaction a failed statement aborted
    stored,        \* committed sightings
    alerts,        \* committed alerts
    raised,        \* alerts the writer believes it has raised
    suppressed,    \* matches it held back
    refused        \* batches lost to an error of the alerting itself

tables == <<stored, alerts, inserted, poisoned>>
memory == <<recent, corroborated, snapshot, iterating, upset, raised, suppressed>>
work   == <<todo, clock, faults, attempt, batch, left, row, now, refused>>
vars   == <<tables, memory, work, pc>>

Goto(t, where) == pc' = [pc EXCEPT ![t] = where]

Key(r) == <<Entry[r], Site[r]>>
Keys   == {Key(r) : r \in Reads}

Nothing == [e \in Entries |-> Never]

Init ==
    /\ todo = Reads /\ clock = 0 /\ faults = 0
    /\ pc = [t \in Threads |-> "idle"]
    /\ attempt = [t \in Threads |-> 1]
    /\ batch = [t \in Threads |-> {}]
    /\ left = [t \in Threads |-> {}]
    /\ row = [t \in Threads |-> NoRow]
    /\ now = [t \in Threads |-> 0]
    /\ recent = [k \in Keys |-> Never]
    /\ corroborated = Nothing
    /\ snapshot = [t \in Threads |-> Nothing]
    /\ iterating = {} /\ upset = {}
    /\ inserted = [t \in Threads |-> {}] /\ poisoned = {}
    /\ stored = {} /\ alerts = {} /\ raised = {} /\ suppressed = {}
    /\ refused = {}

-------------------------------------------------------------------------------
(* A batch, and the rows of it                                              *)

Fault == faults < MaxFaults /\ faults' = faults + 1

Tick == /\ clock < MaxTime
        /\ clock' = clock + 1
        /\ UNCHANGED <<todo, faults, attempt, batch, left, row, now, refused, tables, memory, pc>>

\* flush: the thread that fills the buffer takes it.
TakeBatch(t) ==
    /\ pc[t] = "idle"
    /\ \E rows \in SUBSET todo \ {{}} :
          /\ batch' = [batch EXCEPT ![t] = rows]
          /\ todo' = todo \ rows
    /\ Goto(t, "write")
    /\ UNCHANGED <<clock, faults, attempt, left, row, now, refused, tables, memory>>

\* _write: the sightings are inserted, and consider begins.
Consider(t) ==
    /\ pc[t] = "write"
    /\ left' = [left EXCEPT ![t] = batch[t]]
    /\ now' = [now EXCEPT ![t] = clock]
    /\ Goto(t, "rows")
    /\ UNCHANGED <<todo, clock, faults, attempt, batch, row, refused, tables, memory>>

NextRow(t, r) ==
    /\ pc[t] = "rows" /\ r \in left[t]
    /\ left' = [left EXCEPT ![t] = @ \ {r}]

\* The suppression check of a hit, up to the statement it may lead to.
Window(r) == IF r \in ByPlate THEN PlateWindow ELSE LookWindow

Held(t, r) == recent[Key(r)] # Never /\ now[t] - recent[Key(r)] < Window(r)

Check(t, r) ==
    IF Held(t, r)
    THEN /\ suppressed' = suppressed \cup {[read |-> r, at |-> now[t]]}
         /\ row' = [row EXCEPT ![t] = NoRow]
         /\ Goto(t, "rows")
    ELSE /\ row' = [row EXCEPT ![t] = r]
         /\ Goto(t, "insert")
         /\ UNCHANGED suppressed

PlateRow(t) ==
    /\ \E r \in ByPlate : NextRow(t, r) /\ Check(t, r)
    /\ UNCHANGED <<todo, clock, faults, attempt, batch, now, refused, tables,
                   recent, corroborated, snapshot, iterating, upset, raised>>

\* Starting to iterate over _corroborated; nothing happens between two rows
\* of an empty dictionary.
Scan(t, what) ==
    /\ snapshot' = [snapshot EXCEPT ![t] = corroborated]
    /\ IF corroborated = Nothing
       THEN UNCHANGED iterating
       ELSE iterating' = iterating \cup {t}
    /\ Goto(t, what)

\* _corroborating, for a row without a plate.
LookRow(t) ==
    /\ \E r \in Reads \ ByPlate : NextRow(t, r) /\ row' = [row EXCEPT ![t] = r]
    /\ Scan(t, "looking")
    /\ UNCHANGED <<todo, clock, faults, attempt, batch, now, refused, tables,
                   recent, corroborated, upset, raised, suppressed>>

EndScan(t) ==
    /\ snapshot' = [snapshot EXCEPT ![t] = Nothing]
    /\ iterating' = iterating \ {t} /\ upset' = upset \ {t}

\* The values an iteration has come across: those it began with, or those of
\* the end if the dictionary is still the one it began on.
Seen(t) == IF t \in iterating THEN {snapshot[t], corroborated} ELSE {snapshot[t]}

\* Mutant: a corroboration never expires.
RecentlyOrEver(when, t) == when # Never

Recently(when, t) == when # Never /\ now[t] - when < Corroborates

\* match_attributes, on the entries a plate has corroborated.
Look(t) ==
    /\ pc[t] = "looking" /\ t \notin upset
    /\ \E seen \in Seen(t) : Recently(seen[Entry[row[t]]], t)
    /\ EndScan(t)
    /\ Check(t, row[t])
    /\ UNCHANGED <<todo, clock, faults, attempt, batch, left, now, refused, tables,
                   recent, corroborated, raised>>

\* No corroboration, or the comprehension raised and `match failed` was logged.
LookAway(t) ==
    /\ pc[t] = "looking"
    /\ t \in upset \/ \E seen \in Seen(t) : ~Recently(seen[Entry[row[t]]], t)
    /\ EndScan(t)
    /\ row' = [row EXCEPT ![t] = NoRow]
    /\ Goto(t, "rows")
    /\ UNCHANGED <<todo, clock, faults, attempt, batch, left, now, refused, tables,
                   recent, corroborated, raised, suppressed>>

\* A key inserted into the current dictionary upsets whoever iterates over it.
Corroborate(t, e) ==
    /\ corroborated' = [corroborated EXCEPT ![e] = now[t]]
    /\ upset' = IF corroborated[e] = Never THEN upset \cup iterating ELSE upset

Alert(t) == [read |-> row[t], at |-> now[t]]

\* Mutant: the alert is written in a transaction of its own.
InsertAutocommit(t) ==
    /\ pc[t] = "insert" /\ t \notin poisoned
    /\ alerts' = alerts \cup {Alert(t)}
    /\ raised' = raised \cup {Alert(t)}
    /\ recent' = [recent EXCEPT ![Key(row[t])] = now[t]]
    /\ IF row[t] \in ByPlate THEN Corroborate(t, Entry[row[t]])
                             ELSE UNCHANGED <<corroborated, upset>>
    /\ row' = [row EXCEPT ![t] = NoRow]
    /\ Goto(t, "rows")
    /\ UNCHANGED <<todo, clock, faults, attempt, batch, left, now, refused, stored, inserted,
                   poisoned, snapshot, iterating, suppressed>>

\* The statement succeeded: the alert is in the transaction, and both
\* dictionaries are told at once, before anything is committed.
Insert(t) ==
    /\ pc[t] = "insert" /\ t \notin poisoned
    /\ inserted' = [inserted EXCEPT ![t] = @ \cup {Alert(t)}]
    /\ raised' = raised \cup {Alert(t)}
    /\ recent' = [recent EXCEPT ![Key(row[t])] = now[t]]
    /\ IF row[t] \in ByPlate THEN Corroborate(t, Entry[row[t]])
                             ELSE UNCHANGED <<corroborated, upset>>
    /\ row' = [row EXCEPT ![t] = NoRow]
    /\ Goto(t, "rows")
    /\ UNCHANGED <<todo, clock, faults, attempt, batch, left, now, refused, stored, alerts,
                   poisoned, snapshot, iterating, suppressed>>

\* Mutant: a match is remembered before its statement has succeeded.
InsertFailsMarked(t) ==
    /\ pc[t] = "insert"
    /\ Fault
    /\ poisoned' = poisoned \cup {t}
    /\ recent' = [recent EXCEPT ![Key(row[t])] = now[t]]
    /\ row' = [row EXCEPT ![t] = NoRow]
    /\ Goto(t, "rows")
    /\ UNCHANGED <<todo, clock, attempt, batch, left, now, refused, stored, alerts,
                   inserted, corroborated, snapshot, iterating, upset, raised, suppressed>>

\* Mutant: a failed statement leaves the transaction as it was.
InsertFailsHarmless(t) ==
    /\ pc[t] = "insert"
    /\ Fault
    /\ row' = [row EXCEPT ![t] = NoRow]
    /\ Goto(t, "rows")
    /\ UNCHANGED <<todo, clock, attempt, batch, left, now, refused, tables, memory>>

\* The statement failed, and was swallowed; every later one of this
\* transaction fails as well.
InsertFails(t) ==
    /\ pc[t] = "insert"
    /\ IF t \in poisoned THEN UNCHANGED faults ELSE Fault
    /\ poisoned' = poisoned \cup {t}
    /\ row' = [row EXCEPT ![t] = NoRow]
    /\ Goto(t, "rows")
    /\ UNCHANGED <<todo, clock, attempt, batch, left, now, refused, stored, alerts,
                   inserted, memory>>

-------------------------------------------------------------------------------
(* _forget_stale, and the end of the transaction                            *)

ForgetStale(t) ==
    /\ pc[t] = "rows" /\ left[t] = {}
    /\ Scan(t, "forgetting")
    /\ UNCHANGED <<work, tables, recent, corroborated, upset, raised, suppressed>>

\* Mutant: only the entries kept are left to be looked up.
ForgetDomain(t) ==
    /\ pc[t] = "forgetting" /\ t \notin upset
    /\ \E seen \in Seen(t) :
          corroborated' = [e \in {f \in Entries : Recently(seen[f], t)} |-> seen[e]]
    /\ snapshot' = [snapshot EXCEPT ![t] = Nothing]
    /\ iterating' = {} /\ upset' = upset \ {t}
    /\ Goto(t, "commit")
    /\ UNCHANGED <<work, tables, recent, raised, suppressed>>

\* The dictionary is replaced by what the comprehension read of it and kept;
\* whoever still iterates does so over the old one.
Forget(t) ==
    /\ pc[t] = "forgetting" /\ t \notin upset
    /\ \E seen \in Seen(t) :
          corroborated' = [e \in Entries |->
              IF Recently(seen[e], t) THEN seen[e] ELSE Never]
    /\ snapshot' = [snapshot EXCEPT ![t] = Nothing]
    /\ iterating' = {} /\ upset' = upset \ {t}
    /\ Goto(t, "commit")
    /\ UNCHANGED <<work, tables, recent, raised, suppressed>>

\* This attempt is over: what consider kept in its locals is gone.
Leave(t, where) ==
    /\ Goto(t, where)
    /\ now' = [now EXCEPT ![t] = 0]
    /\ batch' = IF where = "idle" THEN [batch EXCEPT ![t] = {}] ELSE batch
    /\ attempt' = [attempt EXCEPT ![t] = IF where = "idle" THEN 1 ELSE 2]

Rollback(t) ==
    /\ inserted' = [inserted EXCEPT ![t] = {}]
    /\ poisoned' = poisoned \ {t}
    /\ UNCHANGED <<stored, alerts>>

\* Outside consider's try: RuntimeError reaches flush, which does not retry it.
ForgetRaises(t) ==
    /\ pc[t] = "forgetting" /\ t \in upset
    /\ EndScan(t)
    /\ refused' = refused \cup batch[t]
    /\ Rollback(t)
    /\ Leave(t, "idle")
    /\ UNCHANGED <<todo, clock, faults, left, row, recent, corroborated, raised, suppressed>>

\* COMMIT of an aborted transaction rolls it back and reports no error.
Commit(t) ==
    /\ pc[t] = "commit"
    /\ IF t \in poisoned
       THEN Rollback(t)
       ELSE /\ stored' = stored \cup batch[t]
            /\ alerts' = alerts \cup inserted[t]
            /\ inserted' = [inserted EXCEPT ![t] = {}]
            /\ UNCHANGED poisoned
    /\ Leave(t, "idle")
    /\ UNCHANGED <<todo, clock, faults, left, row, refused, memory>>

\* The connection drops before the commit: one retry, then the batch is lost.
Drop(t) ==
    /\ pc[t] \in {"write", "commit"}
    /\ Fault
    /\ Rollback(t)
    /\ Leave(t, IF attempt[t] = 1 THEN "write" ELSE "idle")
    /\ UNCHANGED <<todo, clock, left, row, refused, memory>>

Rows(t) == PlateRow(t) \/ LookRow(t) \/ Look(t) \/ LookAway(t) \/ Insert(t) \/ InsertFails(t)

Ending(t) == ForgetStale(t) \/ Forget(t) \/ ForgetRaises(t) \/ Commit(t) \/ Drop(t)

Next == \/ Tick
        \/ \E t \in Threads : TakeBatch(t) \/ Consider(t) \/ Rows(t) \/ Ending(t)

Spec == Init /\ [][Next]_vars

-------------------------------------------------------------------------------
(* Properties                                                               *)

Alerts == [read : Reads, at : Nat]

\* The values the writer's state ranges over.
TypeOK ==
    /\ todo \subseteq Reads /\ clock \in 0..MaxTime /\ faults \in 0..MaxFaults
    /\ pc \in [Threads -> {"idle", "write", "rows", "looking", "insert", "forgetting", "commit"}]
    /\ attempt \in [Threads -> {1, 2}]
    /\ batch \in [Threads -> SUBSET Reads]
    /\ left \in [Threads -> SUBSET Reads]
    /\ row \in [Threads -> Reads \cup {NoRow}]
    /\ now \in [Threads -> 0..MaxTime]
    /\ recent \in [Keys -> 0..MaxTime \cup {Never}]
    /\ corroborated \in [Entries -> 0..MaxTime \cup {Never}]
    /\ snapshot \in [Threads -> [Entries -> 0..MaxTime \cup {Never}]]
    /\ iterating \subseteq Threads /\ upset \subseteq Threads
    /\ inserted \in [Threads -> SUBSET Alerts]
    /\ poisoned \subseteq Threads
    /\ stored \subseteq Reads /\ refused \subseteq Reads
    /\ alerts \subseteq Alerts /\ raised \subseteq Alerts /\ suppressed \subseteq Alerts

\* "An alert can never point at a sighting that does not exist": the two rows
\* commit together, whatever is retried, swallowed or rolled back.
AlertsPointAtSightings == \A a \in alerts : a.read \in stored

\* No chain of colour alerts: an appearance alert rests on a plate match of the
\* same entry, raised less than a corroboration window before it, however the
\* threads' clocks, scans and replacements of the dictionary interleave.
LooksRestOnPlates ==
    \A a \in raised : a.read \notin ByPlate =>
        \E p \in raised : /\ p.read \in ByPlate
                          /\ Entry[p.read] = Entry[a.read]
                          /\ a.at - p.at < Corroborates

\* An alert that answers for a match: raised for the same entry at the same
\* camera, and not a whole window before it.
Answers(a, m) == Key(a.read) = Key(m.read) /\ m.at - a.at < Window(m.read)

\* A match is held back only because of an alert the writer raised: never
\* because of one that failed, whichever thread looked when.
SuppressedByAnAlert == \A m \in suppressed : \E a \in raised : Answers(a, m)

\* A read whose plate is wanted is either stored with an alert that answers
\* for it, or such an alert was raised and is not committed: no other order of
\* the threads loses one.
WantedReadsAnswered ==
    \A r \in stored \cap ByPlate :
        \E a \in raised : a.read = r \/ \E m \in suppressed : m.read = r /\ Answers(a, m)

\* writer.py:143-144: "losing an alert is far worse than repeating one".  The
\* window is opened before the commit, so the retry of a dropped transaction
\* suppresses the very alert that was rolled back.
NoAlertLost ==
    \A r \in stored \cap ByPlate :
        \E a \in alerts \cup UNION {inserted[t] : t \in Threads} : Key(a.read) = Key(r)

\* writer.py:156: consider "Never raises upward".  The comprehension of
\* _forget_stale is outside its try, and another thread's insert breaks it.
NeverRaisesUpward == refused = {}
===============================================================================
