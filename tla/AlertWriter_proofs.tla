-------------------------- MODULE AlertWriter_proofs --------------------------
(***************************************************************************)
(* The safety properties of the alert writer for any number of flushing    *)
(* threads, reads and watchlist entries, any windows, and any number of    *)
(* faults.  All follow from one inductive invariant, IInv.                 *)
(***************************************************************************)
EXTENDS AlertWriter, TLAPS

\* The row at hand, the rows left and the alerts of the open transaction are
\* all of the batch, and each is there only at its place in consider.
OfBatch ==
    \A t \in Threads :
        /\ left[t] \subseteq batch[t]
        /\ row[t] \in batch[t] \cup {NoRow}
        /\ \A a \in inserted[t] : a.read \in batch[t]
        /\ pc[t] \in {"looking", "insert"} <=> row[t] # NoRow
        /\ pc[t] = "looking" => row[t] \notin ByPlate
        /\ pc[t] \notin {"rows", "looking", "insert"} => left[t] = {}
        /\ pc[t] \in {"idle", "write"} => inserted[t] = {}

Typed == TypeOK /\ OfBatch /\ AlertsPointAtSightings

\* A plate alert of an entry was raised then.
PlateRaised(e, when) ==
    \E p \in raised : p.read \in ByPlate /\ Entry[p.read] = e /\ p.at = when

\* Whatever either dictionary says, or a comprehension has read of one, was put
\* there by an alert that was raised; a look that is about to be one has its
\* plate.
Remembered ==
    /\ \A k \in Keys : recent[k] # Never =>
          \E a \in raised : Key(a.read) = k /\ a.at = recent[k]
    /\ \A e \in Entries : corroborated[e] # Never => PlateRaised(e, corroborated[e])
    /\ \A t \in Threads, e \in Entries :
          snapshot[t][e] # Never => PlateRaised(e, snapshot[t][e])
    /\ \A t \in Threads : pc[t] = "insert" /\ row[t] \notin ByPlate =>
          \E p \in raised : /\ p.read \in ByPlate
                            /\ Entry[p.read] = Entry[row[t]]
                            /\ now[t] - p.at < Corroborates

Justified == Remembered /\ LooksRestOnPlates /\ SuppressedByAnAlert

Answered(r) ==
    \E a \in raised : a.read = r \/ \E m \in suppressed : m.read = r /\ Answers(a, m)

\* In a transaction that can still commit, the plates consider is done with
\* are answered.
BatchAnswered ==
    \A t \in Threads \ poisoned :
        pc[t] \in {"rows", "looking", "insert", "forgetting", "commit"} =>
            \A r \in (batch[t] \cap ByPlate) \ (left[t] \cup {row[t]}) : Answered(r)

Complete == BatchAnswered /\ WantedReadsAnswered

IInv == Typed /\ Justified /\ Complete

-------------------------------------------------------------------------------
LEMMA Constants ==
    /\ PlateWindow \in Nat /\ LookWindow \in Nat /\ Corroborates \in Nat
    /\ MaxTime \in Nat /\ MaxFaults \in Nat
BY AlertAssumption

\* No number is Never, and every read has its entry and its key.
LEMMA Known == /\ \A n \in 0..MaxTime : n # Never
               /\ \A r \in Reads : Entry[r] \in Entries /\ Key(r) \in Keys
BY AlertAssumption, Constants DEF Keys

LEMMA InitInv == Init => IInv
<1> SUFFICES ASSUME Init PROVE IInv
  OBVIOUS
<1> USE AlertAssumption, Constants DEF Init, Nothing
<1>1. Typed
  <2>1. TypeOK
    BY DEF TypeOK
  <2>2. OfBatch /\ AlertsPointAtSightings
    BY DEF OfBatch, AlertsPointAtSightings
  <2>3. QED
    BY <2>1, <2>2 DEF Typed
<1>2. Justified
  BY DEF Justified, Remembered, LooksRestOnPlates, SuppressedByAnAlert
<1>3. Complete
  BY DEF Complete, BatchAnswered, WantedReadsAnswered
<1>4. QED
  BY <1>1, <1>2, <1>3 DEF IInv

-------------------------------------------------------------------------------
(* Rows and alerts belong to batches                                        *)

LEMMA BatchTyped ==
    ASSUME Typed, NEW t \in Threads, TakeBatch(t) \/ Consider(t)
    PROVE  Typed'
<1> USE DEF Typed, Goto, tables, memory
<1>1. CASE TakeBatch(t)
  <2>1. PICK rows \in SUBSET todo : batch' = [batch EXCEPT ![t] = rows] /\ todo' = todo \ rows
    BY <1>1 DEF TakeBatch
  <2>2. inserted[t] = {} /\ left[t] = {} /\ row[t] = NoRow
    BY <1>1 DEF TakeBatch, OfBatch
  <2>3. TypeOK'
    BY <1>1, <2>1 DEF TakeBatch, TypeOK
  <2>4. OfBatch' /\ AlertsPointAtSightings'
    BY <1>1, <2>1, <2>2 DEF TakeBatch, TypeOK, OfBatch, AlertsPointAtSightings
  <2>5. QED
    BY <2>3, <2>4
<1>2. CASE Consider(t)
  BY <1>2 DEF Consider, TypeOK, OfBatch, AlertsPointAtSightings
<1>3. QED
  BY <1>1, <1>2

\* A hit of a row that is in the thread's batch is held back or goes on to its
\* statement.
LEMMA CheckTyped ==
    ASSUME Typed, NEW t \in Threads, NEW r \in Reads, r \in batch[t], Check(t, r),
           left' \in [Threads -> SUBSET Reads], \A u \in Threads : left'[u] \subseteq left[u],
           pc[t] \in {"rows", "looking"},
           snapshot' \in [Threads -> [Entries -> 0..MaxTime \cup {Never}]],
           iterating' \subseteq Threads, upset' \subseteq Threads,
           UNCHANGED <<todo, clock, faults, attempt, batch, now, refused, tables, recent,
                       corroborated, raised>>
    PROVE  Typed'
<1> USE AlertAssumption, Constants DEF Typed, Check, Goto, tables
<1>1. suppressed' \subseteq Alerts
  BY DEF TypeOK, Alerts
<1>2. AlertsPointAtSightings'
  BY DEF AlertsPointAtSightings
<1>3. CASE Held(t, r)
  <2>1. row' = [row EXCEPT ![t] = NoRow] /\ pc' = [pc EXCEPT ![t] = "rows"]
    BY <1>3
  <2>2. TypeOK'
    <3>1. row' \in [Threads -> Reads \cup {NoRow}]
      BY <2>1 DEF TypeOK
    <3>2. pc' \in [Threads -> {"idle", "write", "rows", "looking", "insert", "forgetting", "commit"}]
      BY <2>1 DEF TypeOK
    <3>3. QED
      BY <1>1, <3>1, <3>2 DEF TypeOK
  <2>3. OfBatch'
    BY <2>1 DEF TypeOK, OfBatch
  <2>4. QED
    BY <1>2, <2>2, <2>3
<1>4. CASE ~Held(t, r)
  <2>1. row' = [row EXCEPT ![t] = r] /\ pc' = [pc EXCEPT ![t] = "insert"]
    BY <1>4
  <2>2. TypeOK'
    <3>1. row' \in [Threads -> Reads \cup {NoRow}]
      BY <2>1 DEF TypeOK
    <3>2. pc' \in [Threads -> {"idle", "write", "rows", "looking", "insert", "forgetting", "commit"}]
      BY <2>1 DEF TypeOK
    <3>3. QED
      BY <1>1, <3>1, <3>2 DEF TypeOK
  <2>3. OfBatch'
    BY <2>1 DEF TypeOK, OfBatch
  <2>4. QED
    BY <1>2, <2>2, <2>3
<1>5. QED
  BY <1>3, <1>4

LEMMA ScanTyped ==
    ASSUME Typed, NEW t \in Threads, NEW what, Scan(t, what)
    PROVE  /\ snapshot' \in [Threads -> [Entries -> 0..MaxTime \cup {Never}]]
           /\ iterating' \subseteq Threads
BY DEF Typed, TypeOK, Scan

LEMMA EndScanTyped ==
    ASSUME Typed, NEW t \in Threads, EndScan(t)
    PROVE  /\ snapshot' \in [Threads -> [Entries -> 0..MaxTime \cup {Never}]]
           /\ iterating' \subseteq Threads /\ upset' \subseteq Threads
BY DEF Typed, TypeOK, EndScan, Nothing

LEMMA RowTyped ==
    ASSUME Typed, NEW t \in Threads,
           PlateRow(t) \/ LookRow(t) \/ Look(t) \/ LookAway(t)
    PROVE  Typed'
<1> USE AlertAssumption
<1>1. CASE PlateRow(t)
  <2>1. PICK r \in ByPlate : NextRow(t, r) /\ Check(t, r)
    BY <1>1 DEF PlateRow
  <2>2. r \in Reads /\ r \in batch[t]
    BY <2>1 DEF NextRow, Typed, OfBatch
  <2>3. /\ snapshot' \in [Threads -> [Entries -> 0..MaxTime \cup {Never}]]
        /\ iterating' \subseteq Threads /\ upset' \subseteq Threads
    BY <1>1 DEF PlateRow, Typed, TypeOK
  <2>4. left' \in [Threads -> SUBSET Reads] /\ \A u \in Threads : left'[u] \subseteq left[u]
    BY <2>1 DEF NextRow, Typed, TypeOK
  <2>5. QED
    BY <1>1, <2>1, <2>2, <2>3, <2>4, CheckTyped DEF PlateRow, NextRow
<1>2. CASE LookRow(t)
  <2>1. PICK r \in Reads \ ByPlate : NextRow(t, r) /\ row' = [row EXCEPT ![t] = r]
    BY <1>2 DEF LookRow
  <2>2. /\ snapshot' \in [Threads -> [Entries -> 0..MaxTime \cup {Never}]]
        /\ iterating' \subseteq Threads
        /\ Goto(t, "looking")
    BY <1>2, ScanTyped DEF LookRow, Scan
  <2>3. TypeOK'
    BY <1>2, <2>1, <2>2 DEF LookRow, NextRow, Goto, Typed, TypeOK, tables
  <2>4. OfBatch'
    BY <1>2, <2>1, <2>2 DEF LookRow, NextRow, Goto, Typed, TypeOK, OfBatch, tables
  <2>5. AlertsPointAtSightings'
    BY <1>2 DEF LookRow, Typed, AlertsPointAtSightings, tables
  <2>6. QED
    BY <2>3, <2>4, <2>5 DEF Typed
<1>3. CASE Look(t)
  <2>1. row[t] \in Reads /\ row[t] \in batch[t] /\ Check(t, row[t]) /\ pc[t] = "looking"
    BY <1>3 DEF Look, Typed, TypeOK, OfBatch
  <2>2. left' \in [Threads -> SUBSET Reads] /\ \A u \in Threads : left'[u] \subseteq left[u]
    BY <1>3 DEF Look, Typed, TypeOK
  <2>3. QED
    BY <1>3, <2>1, <2>2, EndScanTyped, CheckTyped DEF Look
<1>4. CASE LookAway(t)
  <2>1. /\ snapshot' \in [Threads -> [Entries -> 0..MaxTime \cup {Never}]]
        /\ iterating' \subseteq Threads /\ upset' \subseteq Threads
    BY <1>4, EndScanTyped DEF LookAway
  <2>2. TypeOK'
    BY <1>4, <2>1 DEF LookAway, Goto, Typed, TypeOK, tables
  <2>3. OfBatch' /\ AlertsPointAtSightings'
    BY <1>4 DEF LookAway, Goto, Typed, TypeOK, OfBatch, AlertsPointAtSightings, tables
  <2>4. QED
    BY <2>2, <2>3 DEF Typed
<1>5. QED
  BY <1>1, <1>2, <1>3, <1>4

LEMMA InsertTyped ==
    ASSUME Typed, NEW t \in Threads, Insert(t) \/ InsertFails(t)
    PROVE  Typed'
<1> USE AlertAssumption, Constants DEF Typed
<1>1. CASE Insert(t)
  <2> USE <1>1 DEF Insert, Goto
  <2>1. row[t] \in Reads /\ row[t] \in batch[t] /\ now[t] \in 0..MaxTime
    BY DEF TypeOK, OfBatch
  <2>2. Alert(t) \in Alerts /\ Alert(t).read \in batch[t]
    BY <2>1 DEF Alert, Alerts
  <2>3. recent' \in [Keys -> 0..MaxTime \cup {Never}]
    BY <2>1, Known DEF TypeOK
  <2>4. /\ corroborated' \in [Entries -> 0..MaxTime \cup {Never}]
        /\ upset' \subseteq Threads
    BY <2>1, Known DEF TypeOK, Corroborate
  <2>5. inserted' \in [Threads -> SUBSET Alerts] /\ raised' \subseteq Alerts
    BY <2>2 DEF TypeOK
  <2>6. TypeOK'
    BY <2>3, <2>4, <2>5 DEF TypeOK
  <2>7. OfBatch' /\ AlertsPointAtSightings'
    BY <2>2 DEF TypeOK, OfBatch, AlertsPointAtSightings
  <2>8. QED
    BY <2>6, <2>7
<1>2. CASE InsertFails(t)
  BY <1>2 DEF InsertFails, Fault, Goto, TypeOK, OfBatch, AlertsPointAtSightings, memory
<1>3. QED
  BY <1>1, <1>2

LEMMA EndingTyped ==
    ASSUME Typed, NEW t \in Threads, Ending(t)
    PROVE  Typed'
<1> USE AlertAssumption, Constants DEF Typed, Goto
<1>1. CASE ForgetStale(t)
  <2>1. /\ snapshot' \in [Threads -> [Entries -> 0..MaxTime \cup {Never}]]
        /\ iterating' \subseteq Threads
        /\ pc' = [pc EXCEPT ![t] = "forgetting"]
    BY <1>1, ScanTyped DEF ForgetStale, Scan
  <2>2. QED
    BY <1>1, <2>1 DEF ForgetStale, work, tables, TypeOK, OfBatch, AlertsPointAtSightings
<1>2. CASE Forget(t)
  <2>1. \A seen \in Seen(t) : seen \in [Entries -> 0..MaxTime \cup {Never}]
    BY DEF Seen, TypeOK
  <2>2. corroborated' \in [Entries -> 0..MaxTime \cup {Never}]
    BY <1>2, <2>1 DEF Forget
  <2>3. snapshot' \in [Threads -> [Entries -> 0..MaxTime \cup {Never}]]
    BY <1>2 DEF Forget, TypeOK, Nothing
  <2>4. QED
    BY <1>2, <2>2, <2>3 DEF Forget, work, tables, TypeOK, OfBatch, AlertsPointAtSightings
<1>3. CASE ForgetRaises(t)
  <2>1. /\ snapshot' \in [Threads -> [Entries -> 0..MaxTime \cup {Never}]]
        /\ iterating' \subseteq Threads /\ upset' \subseteq Threads
    BY <1>3, EndScanTyped DEF ForgetRaises
  <2>4. refused' \subseteq Reads /\ poisoned' \subseteq Threads
    BY <1>3 DEF ForgetRaises, Rollback, TypeOK
  <2>5. /\ now' \in [Threads -> 0..MaxTime] /\ attempt' \in [Threads -> {1, 2}]
        /\ batch' \in [Threads -> SUBSET Reads]
        /\ inserted' \in [Threads -> SUBSET Alerts]
    BY <1>3 DEF ForgetRaises, Rollback, Leave, TypeOK
  <2>2. TypeOK'
    BY <1>3, <2>1, <2>4, <2>5 DEF ForgetRaises, Rollback, Leave, TypeOK
  <2>3. OfBatch' /\ AlertsPointAtSightings'
    BY <1>3 DEF ForgetRaises, Rollback, Leave, TypeOK, OfBatch, AlertsPointAtSightings
  <2>6. QED
    BY <2>2, <2>3
<1>4. CASE Commit(t)
  <2> USE <1>4 DEF Commit, Rollback, Leave, memory
  <2>1. TypeOK'
    BY DEF TypeOK
  <2>2. OfBatch' /\ AlertsPointAtSightings'
    BY DEF TypeOK, OfBatch, AlertsPointAtSightings
  <2>3. QED
    BY <2>1, <2>2
<1>5. CASE Drop(t)
  <2> USE <1>5 DEF Drop, Fault, Rollback, Leave, memory
  <2>1. TypeOK'
    BY DEF TypeOK
  <2>2. OfBatch' /\ AlertsPointAtSightings'
    BY DEF TypeOK, OfBatch, AlertsPointAtSightings
  <2>3. QED
    BY <2>1, <2>2
<1>6. QED
  BY <1>1, <1>2, <1>3, <1>4, <1>5 DEF Ending

LEMMA StepTyped == Typed /\ [Next]_vars => Typed'
<1> SUFFICES ASSUME Typed, [Next]_vars PROVE Typed'
  OBVIOUS
<1>1. CASE Tick
  BY <1>1, Constants DEF Tick, Typed, tables, memory, TypeOK, OfBatch, AlertsPointAtSightings
<1>2. ASSUME NEW t \in Threads, TakeBatch(t) \/ Consider(t) \/ Rows(t) \/ Ending(t)
      PROVE  Typed'
  BY <1>2, BatchTyped, RowTyped, InsertTyped, EndingTyped DEF Rows
<1>3. CASE UNCHANGED vars
  BY <1>3 DEF vars, Typed, tables, memory, work, TypeOK, OfBatch, AlertsPointAtSightings
<1>4. QED
  BY <1>1, <1>2, <1>3 DEF Next

-------------------------------------------------------------------------------
(* What the dictionaries say was raised                                     *)

\* Steps that raise and suppress nothing, and add nothing to a dictionary.
LEMMA QuietJustified ==
    ASSUME Typed, Justified, UNCHANGED <<recent, raised, suppressed>>,
           \A e \in Entries : corroborated'[e] # Never => PlateRaised(e, corroborated'[e]),
           \A t \in Threads, e \in Entries :
              snapshot'[t][e] # Never => PlateRaised(e, snapshot'[t][e]),
           \A t \in Threads : pc'[t] = "insert" =>
              pc[t] = "insert" /\ row'[t] = row[t] /\ now'[t] = now[t]
    PROVE  Justified'
<1> USE DEF Justified
<1>1. Remembered'
  BY DEF Remembered, PlateRaised
<1>2. LooksRestOnPlates' /\ SuppressedByAnAlert'
  BY DEF LooksRestOnPlates, SuppressedByAnAlert
<1>3. QED
  BY <1>1, <1>2

\* A hit is held back by an alert, or its statement has its plate.
LEMMA CheckJustified ==
    ASSUME Typed, Justified, NEW t \in Threads, NEW r \in Reads, Check(t, r),
           r \notin ByPlate => \E p \in raised : /\ p.read \in ByPlate
                                                 /\ Entry[p.read] = Entry[r]
                                                 /\ now[t] - p.at < Corroborates,
           \A u \in Threads, e \in Entries :
              snapshot'[u][e] # Never => PlateRaised(e, snapshot'[u][e]),
           UNCHANGED <<recent, corroborated, raised, now>>
    PROVE  Justified'
<1> USE AlertAssumption DEF Justified, Check, Goto
<1>1. Remembered'
  <2>1. \A u \in Threads : pc'[u] = "insert" /\ row'[u] \notin ByPlate =>
          \E p \in raised : /\ p.read \in ByPlate
                            /\ Entry[p.read] = Entry[row'[u]]
                            /\ now[u] - p.at < Corroborates
    <3>1. \A u \in Threads : pc'[u] = "insert" =>
             \/ pc[u] = "insert" /\ row'[u] = row[u]
             \/ u = t /\ row'[u] = r
      BY DEF Typed, TypeOK
    <3>2. QED
      BY <3>1 DEF Remembered
  <2>2. QED
    BY <2>1 DEF Remembered, PlateRaised
<1>2. LooksRestOnPlates'
  BY DEF LooksRestOnPlates
<1>3. SuppressedByAnAlert'
  <2>1. CASE Held(t, r)
    <3>1. PICK a \in raised : Key(a.read) = Key(r) /\ a.at = recent[Key(r)]
      BY <2>1, Known DEF Held, Remembered
    <3>2. Answers(a, [read |-> r, at |-> now[t]])
      BY <2>1, <3>1 DEF Held, Answers
    <3>3. QED
      BY <2>1, <3>2 DEF SuppressedByAnAlert
  <2>2. CASE ~Held(t, r)
    BY <2>2 DEF SuppressedByAnAlert
  <2>3. QED
    BY <2>1, <2>2
<1>4. QED
  BY <1>1, <1>2, <1>3

\* A scan reads what the dictionary says.
LEMMA ScanRemembers ==
    ASSUME Typed, Justified, NEW t \in Threads, NEW what, Scan(t, what) \/ EndScan(t)
    PROVE  \A u \in Threads, e \in Entries :
              snapshot'[u][e] # Never => PlateRaised(e, snapshot'[u][e])
<1>1. \A u \in Threads : snapshot'[u] \in {snapshot[u], corroborated, Nothing}
  BY DEF Scan, EndScan, Typed, TypeOK
<1>2. QED
  BY <1>1 DEF Nothing, Justified, Remembered

LEMMA SeenRemembers ==
    ASSUME Typed, Justified, NEW t \in Threads, NEW seen \in Seen(t)
    PROVE  \A e \in Entries : seen[e] # Never => PlateRaised(e, seen[e])
BY DEF Seen, Typed, TypeOK, Justified, Remembered

LEMMA RowJustified ==
    ASSUME Typed, Justified, NEW t \in Threads,
           PlateRow(t) \/ LookRow(t) \/ Look(t) \/ LookAway(t)
    PROVE  Justified'
<1> USE AlertAssumption
<1>1. CASE PlateRow(t)
  <2>1. PICK r \in ByPlate : NextRow(t, r) /\ Check(t, r)
    BY <1>1 DEF PlateRow
  <2>2. \A u \in Threads, e \in Entries :
           snapshot'[u][e] # Never => PlateRaised(e, snapshot'[u][e])
    BY <1>1 DEF PlateRow, Justified, Remembered
  <2>3. QED
    BY <1>1, <2>1, <2>2, CheckJustified DEF PlateRow
<1>2. CASE LookRow(t)
  <2>1. pc' = [pc EXCEPT ![t] = "looking"] /\ \A u \in Threads \ {t} : row'[u] = row[u]
    BY <1>2 DEF LookRow, Scan, Goto, Typed, TypeOK
  <2>2. \A u \in Threads : pc'[u] = "insert" => pc[u] = "insert" /\ row'[u] = row[u]
    BY <2>1 DEF Typed, TypeOK
  <2>3. \A e \in Entries : corroborated'[e] # Never => PlateRaised(e, corroborated'[e])
    BY <1>2 DEF LookRow, Justified, Remembered
  <2>4. QED
    BY <1>2, <2>2, <2>3, ScanRemembers, QuietJustified DEF LookRow
<1>3. CASE Look(t)
  <2>1. row[t] \in Reads /\ Entry[row[t]] \in Entries
    BY <1>3, Known DEF Look, Typed, TypeOK, OfBatch
  <2>2. PICK seen \in Seen(t) : Recently(seen[Entry[row[t]]], t)
    BY <1>3 DEF Look
  <2>3. PICK p \in raised : /\ p.read \in ByPlate
                            /\ Entry[p.read] = Entry[row[t]]
                            /\ p.at = seen[Entry[row[t]]]
    BY <2>1, <2>2, SeenRemembers DEF Recently, PlateRaised
  <2>4. now[t] - p.at < Corroborates
    BY <2>2, <2>3 DEF Recently
  <2>5. QED
    BY <1>3, <2>1, <2>3, <2>4, ScanRemembers, CheckJustified DEF Look
<1>4. CASE LookAway(t)
  <2>1. \A u \in Threads : pc'[u] = "insert" => pc[u] = "insert" /\ row'[u] = row[u]
    BY <1>4 DEF LookAway, Goto, Typed, TypeOK
  <2>2. \A e \in Entries : corroborated'[e] # Never => PlateRaised(e, corroborated'[e])
    BY <1>4 DEF LookAway, Justified, Remembered
  <2>3. QED
    BY <1>4, <2>1, <2>2, ScanRemembers, QuietJustified DEF LookAway
<1>5. QED
  BY <1>1, <1>2, <1>3, <1>4

LEMMA InsertJustified ==
    ASSUME Typed, Justified, NEW t \in Threads, Insert(t)
    PROVE  Justified'
<1> USE AlertAssumption DEF Justified, Insert, Goto
<1>1. row[t] \in Reads /\ Entry[row[t]] \in Entries /\ Key(row[t]) \in Keys
  BY Known DEF Typed, TypeOK, OfBatch
<1>2. Alert(t) \in raised' /\ Alert(t).read = row[t] /\ Alert(t).at = now[t]
  BY DEF Alert
<1>3. raised \subseteq raised'
  OBVIOUS
<1>4. \A k \in Keys : recent'[k] # Never =>
         \E a \in raised' : Key(a.read) = k /\ a.at = recent'[k]
  <2> SUFFICES ASSUME NEW k \in Keys, recent'[k] # Never
               PROVE  \E a \in raised' : Key(a.read) = k /\ a.at = recent'[k]
    OBVIOUS
  <2>1. CASE k = Key(row[t])
    BY <2>1, <1>2 DEF Typed, TypeOK
  <2>2. CASE k # Key(row[t])
    BY <2>2, <1>3 DEF Typed, TypeOK, Remembered
  <2>3. QED
    BY <2>1, <2>2
<1>5. \A e \in Entries : (corroborated[e] # Never => PlateRaised(e, corroborated[e]))'
  <2> SUFFICES ASSUME NEW e \in Entries, corroborated'[e] # Never
               PROVE  PlateRaised(e, corroborated[e])'
    OBVIOUS
  <2>1. CASE row[t] \in ByPlate /\ e = Entry[row[t]]
    <3>1. corroborated'[e] = now[t]
      BY <2>1 DEF Corroborate, Typed, TypeOK
    <3>2. QED
      BY <2>1, <3>1, <1>2 DEF PlateRaised
  <2>2. CASE ~(row[t] \in ByPlate /\ e = Entry[row[t]])
    <3>1. corroborated'[e] = corroborated[e]
      BY <2>2 DEF Corroborate, Typed, TypeOK
    <3>2. QED
      BY <3>1, <1>3 DEF Remembered, PlateRaised
  <2>3. QED
    BY <2>1, <2>2
<1>6. \A u \in Threads, e \in Entries :
         (snapshot[u][e] # Never => PlateRaised(e, snapshot[u][e]))'
  BY <1>3 DEF Remembered, PlateRaised
<1>7. \A u \in Threads : pc'[u] = "insert" /\ row'[u] \notin ByPlate =>
         \E p \in raised' : /\ p.read \in ByPlate
                            /\ Entry[p.read] = Entry[row'[u]]
                            /\ now'[u] - p.at < Corroborates
  BY <1>3 DEF Remembered, Typed, TypeOK
<1>8. Remembered'
  BY <1>4, <1>5, <1>6, <1>7 DEF Remembered
<1>9. LooksRestOnPlates'
  <2> SUFFICES ASSUME NEW a \in raised', a.read \notin ByPlate
               PROVE  \E p \in raised' : /\ p.read \in ByPlate
                                         /\ Entry[p.read] = Entry[a.read]
                                         /\ a.at - p.at < Corroborates
    BY DEF LooksRestOnPlates
  <2>1. CASE a \in raised
    BY <2>1, <1>3 DEF LooksRestOnPlates
  <2>2. CASE a = Alert(t)
    BY <2>2, <1>2, <1>3 DEF Remembered
  <2>3. QED
    BY <2>1, <2>2
<1>10. SuppressedByAnAlert'
  BY <1>3 DEF SuppressedByAnAlert
<1>11. QED
  BY <1>8, <1>9, <1>10

LEMMA EndingJustified ==
    ASSUME Typed, Justified, NEW t \in Threads, Ending(t) \/ InsertFails(t)
    PROVE  Justified'
<1> USE DEF Goto, memory
<1>1. CASE ForgetStale(t)
  <2>1. \A u \in Threads : pc'[u] = "insert" => pc[u] = "insert"
    BY <1>1 DEF ForgetStale, Scan, Typed, TypeOK
  <2>2. \A e \in Entries : corroborated'[e] # Never => PlateRaised(e, corroborated'[e])
    BY <1>1 DEF ForgetStale, Justified, Remembered
  <2>3. QED
    BY <1>1, <2>1, <2>2, ScanRemembers, QuietJustified DEF ForgetStale, work
<1>2. CASE Forget(t)
  <2>1. \A e \in Entries : corroborated'[e] # Never => PlateRaised(e, corroborated'[e])
    BY <1>2, SeenRemembers DEF Forget
  <2>2. \A u \in Threads, e \in Entries :
           snapshot'[u][e] # Never => PlateRaised(e, snapshot'[u][e])
    BY <1>2 DEF Forget, Nothing, Typed, TypeOK, Justified, Remembered
  <2>3. \A u \in Threads : pc'[u] = "insert" => pc[u] = "insert"
    BY <1>2 DEF Forget, Typed, TypeOK
  <2>4. QED
    BY <1>2, <2>1, <2>2, <2>3, QuietJustified DEF Forget, work
<1>3. CASE ForgetRaises(t)
  <2>1. \A u \in Threads : pc'[u] = "insert" =>
           pc[u] = "insert" /\ row'[u] = row[u] /\ now'[u] = now[u]
    BY <1>3 DEF ForgetRaises, Leave, Typed, TypeOK
  <2>2. \A e \in Entries : corroborated'[e] # Never => PlateRaised(e, corroborated'[e])
    BY <1>3 DEF ForgetRaises, Justified, Remembered
  <2>3. QED
    BY <1>3, <2>1, <2>2, ScanRemembers, QuietJustified DEF ForgetRaises
<1>4. CASE Commit(t) \/ Drop(t) \/ InsertFails(t)
  <2>1. \A u \in Threads : pc'[u] = "insert" =>
           pc[u] = "insert" /\ row'[u] = row[u] /\ now'[u] = now[u]
    BY <1>4 DEF Commit, Drop, InsertFails, Leave, Typed, TypeOK
  <2>2. UNCHANGED memory
    BY <1>4 DEF Commit, Drop, InsertFails
  <2>3. QED
    BY <2>1, <2>2, QuietJustified DEF Justified, Remembered
<1>5. QED
  BY <1>1, <1>2, <1>3, <1>4 DEF Ending

LEMMA StepJustified == Typed /\ Justified /\ [Next]_vars => Justified'
<1> SUFFICES ASSUME Typed, Justified, [Next]_vars PROVE Justified'
  OBVIOUS
<1>1. CASE Tick \/ UNCHANGED vars
  BY <1>1, QuietJustified DEF Tick, vars, work, memory, Justified, Remembered
<1>2. ASSUME NEW t \in Threads, TakeBatch(t) \/ Consider(t) PROVE Justified'
  <2>1. \A u \in Threads : pc'[u] = "insert" =>
           pc[u] = "insert" /\ row'[u] = row[u] /\ now'[u] = now[u]
    BY <1>2 DEF TakeBatch, Consider, Goto, Typed, TypeOK
  <2>2. UNCHANGED memory
    BY <1>2 DEF TakeBatch, Consider
  <2>3. QED
    BY <2>1, <2>2, QuietJustified DEF memory, Justified, Remembered
<1>3. ASSUME NEW t \in Threads, Rows(t) \/ Ending(t) PROVE Justified'
  BY <1>3, RowJustified, InsertJustified, EndingJustified DEF Rows
<1>4. QED
  BY <1>1, <1>2, <1>3 DEF Next

-------------------------------------------------------------------------------
(* Wanted plates are answered                                               *)

\* An answer is not taken back.
LEMMA AnsweredGrows ==
    ASSUME raised \subseteq raised', suppressed \subseteq suppressed'
    PROVE  \A r : Answered(r) => Answered(r)'
BY DEF Answered

LEMMA HistoryGrows ==
    ASSUME [Next]_vars PROVE raised \subseteq raised' /\ suppressed \subseteq suppressed'
<1>1. CASE Tick \/ UNCHANGED vars
  BY <1>1 DEF Tick, vars, memory
<1>2. ASSUME NEW t \in Threads, TakeBatch(t) \/ Consider(t)
      PROVE  UNCHANGED <<raised, suppressed>>
  BY <1>2 DEF TakeBatch, Consider, memory
<1>3. ASSUME NEW t \in Threads, Rows(t)
      PROVE  raised \subseteq raised' /\ suppressed \subseteq suppressed'
  BY <1>3 DEF Rows, PlateRow, LookRow, Look, LookAway, Insert, InsertFails, Check, memory
<1>4. ASSUME NEW t \in Threads, Ending(t) PROVE UNCHANGED <<raised, suppressed>>
  BY <1>4 DEF Ending, ForgetStale, Forget, ForgetRaises, Commit, Drop, memory
<1>5. QED
  BY <1>1, <1>2, <1>3, <1>4 DEF Next

InConsider == {"rows", "looking", "insert", "forgetting", "commit"}

Done(t) == (batch[t] \cap ByPlate) \ (left[t] \cup {row[t]})

\* Only this thread's row moves, and if it is done with it, it is answered.
LEMMA DoneAnswered ==
    ASSUME Complete, [Next]_vars, NEW t \in Threads, UNCHANGED stored,
           \A u \in Threads \ {t} : u \notin poisoned' =>
              u \notin poisoned /\ pc'[u] = pc[u] /\ Done(u)' = Done(u),
           t \notin poisoned' /\ pc'[t] \in InConsider =>
              \A r \in Done(t)' :
                 Answered(r)' \/ (t \notin poisoned /\ pc[t] \in InConsider /\ r \in Done(t))
    PROVE  Complete'
<1>1. \A r : Answered(r) => Answered(r)'
  BY AnsweredGrows, HistoryGrows
<1>2. BatchAnswered'
  <2> SUFFICES ASSUME NEW u \in Threads, u \notin poisoned', pc'[u] \in InConsider,
                      NEW r \in Done(u)'
               PROVE  Answered(r)'
    BY DEF BatchAnswered, InConsider, Done
  <2>1. CASE u = t
    BY <2>1, <1>1 DEF Complete, BatchAnswered, InConsider, Done
  <2>2. CASE u # t
    BY <2>2, <1>1 DEF Complete, BatchAnswered, InConsider, Done
  <2>3. QED
    BY <2>1, <2>2
<1>3. WantedReadsAnswered'
  BY <1>1 DEF Complete, WantedReadsAnswered, Answered
<1>4. QED
  BY <1>2, <1>3 DEF Complete

LEMMA BatchComplete ==
    ASSUME Typed, Complete, [Next]_vars, NEW t \in Threads, TakeBatch(t) \/ Consider(t)
    PROVE  Complete'
<1> USE DEF Typed, TypeOK, InConsider, Done, Goto, tables
<1>1. CASE TakeBatch(t)
  <2>1. pc' = [pc EXCEPT ![t] = "write"] /\ UNCHANGED <<stored, poisoned, left, row>>
    BY <1>1 DEF TakeBatch
  <2>2. \A u \in Threads \ {t} : batch'[u] = batch[u]
    BY <1>1 DEF TakeBatch
  <2>3. QED
    BY <2>1, <2>2, DoneAnswered
<1>2. CASE Consider(t)
  <2>1. pc' = [pc EXCEPT ![t] = "rows"] /\ UNCHANGED <<stored, poisoned, batch, row>>
    BY <1>2 DEF Consider
  <2>2. left' = [left EXCEPT ![t] = batch[t]]
    BY <1>2 DEF Consider
  <2>3. Done(t)' = {}
    BY <2>1, <2>2
  <2>4. QED
    BY <2>1, <2>2, <2>3, DoneAnswered
<1>3. QED
  BY <1>1, <1>2

LEMMA CheckComplete ==
    ASSUME Typed, Justified, Complete, [Next]_vars, NEW t \in Threads, NEW r \in Reads,
           Check(t, r), pc[t] \in {"rows", "looking"}, row[t] \in {NoRow, r}, r \in batch[t],
           left' = [left EXCEPT ![t] = @ \ {r}],
           UNCHANGED <<batch, poisoned, stored, raised, recent, now>>
    PROVE  Complete'
<1>1. \A u \in Threads \ {t} : pc'[u] = pc[u] /\ Done(u)' = Done(u)
  BY DEF Check, Goto, Done, Typed, TypeOK
<1>2. \A q \in Done(t)' : q \in Done(t) \/ q = r
  BY AlertAssumption DEF Done, Typed, TypeOK
<1>3. r \in Done(t)' => Answered(r)'
  <2>1. CASE Held(t, r)
    <3>1. PICK a \in raised : Key(a.read) = Key(r) /\ a.at = recent[Key(r)]
      BY <2>1, Known DEF Held, Justified, Remembered
    <3>2. [read |-> r, at |-> now[t]] \in suppressed'
      BY <2>1 DEF Check
    <3>3. Answers(a, [read |-> r, at |-> now[t]])
      BY <2>1, <3>1 DEF Held, Answers
    <3>4. QED
      BY <3>2, <3>3 DEF Answered
  <2>2. CASE ~Held(t, r)
    BY <2>2 DEF Check, Done, Typed, TypeOK
  <2>3. QED
    BY <2>1, <2>2
<1>4. QED
  BY <1>1, <1>2, <1>3, DoneAnswered DEF InConsider

LEMMA RowComplete ==
    ASSUME Typed, Justified, Complete, [Next]_vars, NEW t \in Threads, Rows(t)
    PROVE  Complete'
<1> USE AlertAssumption
<1>1. CASE PlateRow(t)
  <2>1. PICK r \in ByPlate : NextRow(t, r) /\ Check(t, r)
    BY <1>1 DEF PlateRow
  <2>2. r \in Reads /\ pc[t] = "rows" /\ row[t] = NoRow /\ r \in batch[t]
    BY <2>1 DEF NextRow, Typed, OfBatch
  <2>3. QED
    BY <1>1, <2>1, <2>2, CheckComplete DEF PlateRow, NextRow, tables
<1>2. CASE LookRow(t)
  <2>1. PICK r \in Reads \ ByPlate : NextRow(t, r) /\ row' = [row EXCEPT ![t] = r]
    BY <1>2 DEF LookRow
  <2>2. /\ pc' = [pc EXCEPT ![t] = "looking"] /\ pc[t] = "rows"
        /\ left' = [left EXCEPT ![t] = @ \ {r}]
        /\ row[t] = NoRow /\ UNCHANGED <<stored, poisoned, batch>>
    BY <1>2, <2>1 DEF LookRow, NextRow, Scan, Goto, tables, Typed, OfBatch
  <2>3. Done(t)' \subseteq Done(t) /\ \A u \in Threads \ {t} : Done(u)' = Done(u)
    BY <2>1, <2>2 DEF Done, Typed, TypeOK
  <2>4. QED
    BY <2>2, <2>3, DoneAnswered DEF InConsider, Typed, TypeOK
<1>3. CASE Look(t) \/ LookAway(t)
  <2>1. /\ row[t] \notin ByPlate /\ pc[t] = "looking" /\ UNCHANGED <<stored, poisoned, batch, left>>
        /\ \A u \in Threads \ {t} : row'[u] = row[u] /\ pc'[u] = pc[u]
    BY <1>3 DEF Look, LookAway, Check, Goto, tables, Typed, TypeOK, OfBatch
  <2>2. Done(t)' \subseteq Done(t) /\ \A u \in Threads \ {t} : Done(u)' = Done(u)
    BY <2>1 DEF Done
  <2>3. QED
    BY <2>1, <2>2, DoneAnswered DEF InConsider
<1>4. CASE Insert(t)
  <2>1. /\ pc[t] = "insert" /\ UNCHANGED <<stored, poisoned, batch, left>>
        /\ \A u \in Threads \ {t} : row'[u] = row[u] /\ pc'[u] = pc[u]
    BY <1>4 DEF Insert, Goto, Typed, TypeOK
  <2>2. Alert(t) \in raised' /\ Alert(t).read = row[t]
    BY <1>4 DEF Insert, Alert
  <2>3. \A r : r = row[t] => Answered(r)'
    BY <2>2 DEF Answered
  <2>4. Done(t)' \subseteq Done(t) \cup {row[t]} /\ \A u \in Threads \ {t} : Done(u)' = Done(u)
    BY <2>1 DEF Done
  <2>5. QED
    BY <2>1, <2>3, <2>4, DoneAnswered DEF InConsider
<1>5. CASE InsertFails(t)
  <2>1. /\ poisoned' = poisoned \cup {t} /\ UNCHANGED <<stored, batch, left>>
        /\ \A u \in Threads \ {t} : row'[u] = row[u] /\ pc'[u] = pc[u]
    BY <1>5 DEF InsertFails, Goto, Typed, TypeOK
  <2>2. \A u \in Threads \ {t} : Done(u)' = Done(u)
    BY <2>1 DEF Done
  <2>3. QED
    BY <2>1, <2>2, DoneAnswered
<1>6. QED
  BY <1>1, <1>2, <1>3, <1>4, <1>5 DEF Rows

LEMMA EndingComplete ==
    ASSUME Typed, Complete, [Next]_vars, NEW t \in Threads, Ending(t)
    PROVE  Complete'
<1> USE AlertAssumption DEF Typed, TypeOK, Goto, InConsider
<1>1. CASE ForgetStale(t) \/ Forget(t)
  <2>1. /\ pc[t] \in {"rows", "forgetting"} /\ UNCHANGED <<stored, poisoned, batch, left, row>>
        /\ \A u \in Threads \ {t} : pc'[u] = pc[u]
    BY <1>1 DEF ForgetStale, Forget, Scan, work, tables
  <2>2. \A u \in Threads : Done(u)' = Done(u)
    BY <2>1 DEF Done
  <2>3. QED
    BY <2>1, <2>2, DoneAnswered
<1>2. CASE ForgetRaises(t) \/ Drop(t) \/ (Commit(t) /\ t \in poisoned)
  <2>1. /\ pc'[t] \in {"idle", "write"} /\ UNCHANGED <<stored, left, row>>
        /\ poisoned' = poisoned \ {t}
        /\ \A u \in Threads \ {t} : pc'[u] = pc[u] /\ batch'[u] = batch[u]
    BY <1>2 DEF ForgetRaises, Drop, Commit, Rollback, Leave
  <2>2. \A u \in Threads \ {t} : Done(u)' = Done(u)
    BY <2>1 DEF Done
  <2>3. QED
    BY <2>1, <2>2, DoneAnswered
<1>3. CASE Commit(t) /\ t \notin poisoned
  <2>1. /\ pc[t] = "commit" /\ stored' = stored \cup batch[t]
        /\ UNCHANGED <<poisoned, left, row, raised, suppressed>>
        /\ pc'[t] = "idle"
        /\ \A u \in Threads \ {t} : pc'[u] = pc[u] /\ batch'[u] = batch[u]
    BY <1>3 DEF Commit, Leave, memory
  <2>2. left[t] = {} /\ row[t] = NoRow
    BY <2>1 DEF OfBatch
  <2>3. \A r \in batch[t] \cap ByPlate : Answered(r)
    BY <1>3, <2>1, <2>2 DEF Complete, BatchAnswered
  <2>4. WantedReadsAnswered'
    BY <2>1, <2>3 DEF Complete, WantedReadsAnswered, Answered
  <2>5. BatchAnswered'
    BY <2>1 DEF Complete, BatchAnswered, Answered
  <2>6. QED
    BY <2>4, <2>5 DEF Complete
<1>4. QED
  BY <1>1, <1>2, <1>3 DEF Ending

LEMMA StepComplete == Typed /\ Justified /\ Complete /\ [Next]_vars => Complete'
<1> SUFFICES ASSUME Typed, Justified, Complete, [Next]_vars PROVE Complete'
  OBVIOUS
<1>1. CASE Tick \/ UNCHANGED vars
  <2>1. UNCHANGED <<pc, batch, left, row, poisoned, stored, raised, suppressed>>
    BY <1>1 DEF Tick, vars, work, tables, memory
  <2>2. QED
    BY <2>1 DEF Complete, BatchAnswered, WantedReadsAnswered, Answered
<1>2. ASSUME NEW t \in Threads, TakeBatch(t) \/ Consider(t) \/ Rows(t) \/ Ending(t)
      PROVE  Complete'
  BY <1>2, BatchComplete, RowComplete, EndingComplete
<1>3. QED
  BY <1>1, <1>2 DEF Next

-------------------------------------------------------------------------------
(* The theorems                                                             *)

\* The invariant everything below follows from.
THEOREM AlertInvariant == Spec => []IInv
<1>1. IInv /\ [Next]_vars => IInv'
  BY StepTyped, StepJustified, StepComplete DEF IInv
<1>2. QED
  BY <1>1, InitInv, PTL DEF Spec

\* The writer's state keeps its types (writer.py, AlertWriter; sink.py, flush).
THEOREM AlertsTyped == Spec => []TypeOK
<1>1. IInv => TypeOK
  BY DEF IInv, Typed
<1>2. QED
  BY <1>1, AlertInvariant, PTL

\* An alert never points at a sighting that is not there (sink.py, _write).
THEOREM NoDanglingAlert == Spec => []AlertsPointAtSightings
<1>1. IInv => AlertsPointAtSightings
  BY DEF IInv, Typed
<1>2. QED
  BY <1>1, AlertInvariant, PTL

\* An alert on a vehicle's looks rests on a recent alert on its plate, never on
\* another alert on looks (writer.py, _corroborating).
THEOREM NoChainOfLooks == Spec => []LooksRestOnPlates
<1>1. IInv => LooksRestOnPlates
  BY DEF IInv, Justified
<1>2. QED
  BY <1>1, AlertInvariant, PTL

\* Only an alert that was raised holds another back (writer.py, consider).
THEOREM SuppressionJustified == Spec => []SuppressedByAnAlert
<1>1. IInv => SuppressedByAnAlert
  BY DEF IInv, Justified
<1>2. QED
  BY <1>1, AlertInvariant, PTL

\* A stored read whose plate is wanted was answered by an alert (writer.py,
\* consider; sink.py, flush).
THEOREM WantedAnswered == Spec => []WantedReadsAnswered
<1>1. IInv => WantedReadsAnswered
  BY DEF IInv, Complete
<1>2. QED
  BY <1>1, AlertInvariant, PTL
===============================================================================
