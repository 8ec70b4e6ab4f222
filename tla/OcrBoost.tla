------------------------------- MODULE OcrBoost -------------------------------
(***************************************************************************)
(* An operator's OCR boost from the request to the reader: the requests    *)
(* that start and clear boosts (services/api/routers/ocr_boost.py), the    *)
(* table camera_ocr_boosts, the copy of it a worker keeps (BoostCache),    *)
(* the heavy reader its cameras share (SharedReaders), and the camera      *)
(* threads that swap readers and report (services/anpr/ocr_boost.py,       *)
(* worker.py _apply_boost).  Escalation models what else happens to a      *)
(* camera's reader; here it is the default one or the boosted one.         *)
(*                                                                         *)
(* A start is three steps under one advisory lock: the lock, the count,    *)
(* and the rows.  Time shows only in what it ends: an expiry, the age of   *)
(* the worker's copy, the pause after a reader that did not load.          *)
(***************************************************************************)
EXTENDS Integers, FiniteSets, FiniteSetsExt

CONSTANTS
    Cameras,     \* cameras of this worker
    Requests,    \* requests that start boosts
    Boosts,      \* ids of the rows, taken in order
    MaxCameras,  \* MAX_CAMERAS
    None         \* no boost, no row

ASSUME BoostAssumption ==
    /\ IsFiniteSet(Cameras) /\ MaxCameras \in Nat
    /\ Boosts \subseteq Nat /\ None \notin Nat

VARIABLES
    boosts,    \* camera_ocr_boosts: the rows inserted so far
    asked,     \* the cameras each request is for, once it has read them
    stage,     \* each request: "new", "waiting", "locked", "counted" or "done"
    copy,      \* BoostCache._boosts: the open boost of a camera, or None
    fresh,     \* the copy is younger than REFRESH_S
    loaded,    \* SharedReaders: the heavy reader is loaded
    barred,    \* SharedReaders: it did not load less than retry_s ago
    following, \* CameraWorker.boost_id
    boosted,   \* cameras that have a boost_reader
    earlier    \* history: rows whose outcome an earlier process has written

operator == <<asked, stage>>
cache    == <<copy, fresh>>
readers  == <<loaded, barred>>
threads  == <<following, boosted>>
table    == <<boosts, earlier>>
vars     == <<table, operator, cache, readers, threads>>

Rows     == DOMAIN boosts
Open(b)  == boosts[b].end = "open"
Live     == {b \in Rows : Open(b)}
Cap(cs)  == Cardinality({boosts[b].camera : b \in Live} \ cs) + Cardinality(cs) <= MaxCameras

Init ==
    /\ boosts = [b \in {} |-> None]
    /\ asked = [r \in Requests |-> {}] /\ stage = [r \in Requests |-> "new"]
    /\ copy = [c \in Cameras |-> None] /\ fresh = FALSE
    /\ loaded = FALSE /\ barred = FALSE
    /\ following = [c \in Cameras |-> None] /\ boosted = {}
    /\ earlier = {}

-------------------------------------------------------------------------------
(* The API                                                                  *)

Goto(r, s) == stage' = [stage EXCEPT ![r] = s]

\* start_boost reads the cameras, by id or around a point ...
Choose(r) ==
    /\ stage[r] = "new"
    /\ \E cs \in SUBSET Cameras \ {{}} : asked' = [asked EXCEPT ![r] = cs]
    /\ Goto(r, "waiting")
    /\ UNCHANGED <<table, cache, readers, threads>>

\* Mutant: the starts are not serialised.
LockNothing(r) ==
    /\ stage[r] = "waiting"
    /\ Goto(r, "locked")
    /\ UNCHANGED <<table, asked, cache, readers, threads>>

\* ... takes the advisory lock of its transaction ...
Lock(r) ==
    /\ stage[r] = "waiting"
    /\ \A q \in Requests : stage[q] \notin {"locked", "counted"}
    /\ Goto(r, "locked")
    /\ UNCHANGED <<table, asked, cache, readers, threads>>

\* ... counts the cameras boosted now besides its own, and answers 409 or goes on ...
Count(r) ==
    /\ stage[r] = "locked"
    /\ Goto(r, IF Cap(asked[r]) THEN "counted" ELSE "done")
    /\ UNCHANGED <<table, asked, cache, readers, threads>>

\* The ids the next rows get, one for each camera.
NextIds(cs) == LET used == Cardinality(Rows)
               IN  {b \in Boosts : b > used /\ b <= used + Cardinality(cs)}

Replaced(row, cs) ==
    IF row.camera \in cs /\ row.end # "cleared" THEN [row EXCEPT !.end = "cleared"] ELSE row

\* Mutant: the boosts the new ones replace are not cleared.
InsertBeside(r) ==
    /\ stage[r] = "counted" /\ Cardinality(NextIds(asked[r])) = Cardinality(asked[r])
    /\ \E of \in Bijection(NextIds(asked[r]), asked[r]) :
          boosts' = [b \in Rows \cup DOMAIN of |->
              IF b \in Rows THEN boosts[b]
              ELSE [camera |-> of[b], end |-> "open", outcome |-> "pending"]]
    /\ Goto(r, "done")
    /\ UNCHANGED <<asked, cache, readers, threads, earlier>>

\* ... clears what its boosts replace, inserts them and commits.
Insert(r) ==
    /\ stage[r] = "counted" /\ Cardinality(NextIds(asked[r])) = Cardinality(asked[r])
    /\ \E of \in Bijection(NextIds(asked[r]), asked[r]) :
          boosts' = [b \in Rows \cup DOMAIN of |->
              IF b \in Rows THEN Replaced(boosts[b], asked[r])
              ELSE [camera |-> of[b], end |-> "open", outcome |-> "pending"]]
    /\ Goto(r, "done")
    /\ UNCHANGED <<asked, cache, readers, threads, earlier>>

\* clear_boost, in a transaction that takes no lock.
Clear(c) ==
    /\ \E b \in Live : boosts[b].camera = c
    /\ boosts' = [b \in Rows |->
          IF boosts[b].camera = c /\ Open(b) THEN [boosts[b] EXCEPT !.end = "cleared"]
          ELSE boosts[b]]
    /\ UNCHANGED <<operator, cache, readers, threads, earlier>>

\* expires_at passes.
Expire(b) ==
    /\ b \in Live
    /\ boosts' = [boosts EXCEPT ![b].end = "expired"]
    /\ UNCHANGED <<operator, cache, readers, threads, earlier>>

-------------------------------------------------------------------------------
(* The worker                                                               *)

\* load_boosts: the open boost of a camera, the last requested if there are more.
Wanted(c) == LET mine == {b \in Live : boosts[b].camera = c}
             IN  IF mine = {} THEN None ELSE Max(mine)

\* REFRESH_S passes.
Age ==
    /\ fresh /\ fresh' = FALSE
    /\ UNCHANGED <<table, operator, copy, readers, threads>>

\* wanted, by whichever thread finds the copy old: under the cache's lock.
Refresh ==
    /\ ~fresh /\ fresh' = TRUE
    /\ copy' = [c \in Cameras |-> Wanted(c)]
    /\ UNCHANGED <<table, operator, readers, threads>>

\* The query fails: the last copy is kept, as if it were new.
RefreshFails ==
    /\ ~fresh /\ fresh' = TRUE
    /\ UNCHANGED <<table, operator, copy, readers, threads>>

\* report: the outcome of b, if the statement succeeds.
Report(b, outcome) ==
    boosts' = [boosts EXCEPT ![b].outcome = outcome] /\ earlier' = earlier \ {b}

\* A frame of c whose copy is fresh finds another boost than the last one, or
\* none: the old one is undone.
Swaps(c) == fresh /\ copy[c] # following[c] /\ following' = [following EXCEPT ![c] = copy[c]]

\* Mutant: only the first boost of a camera is ever undone.
BoostEndsLate(c) ==
    /\ Swaps(c) /\ copy[c] = None
    /\ UNCHANGED <<table, operator, cache, readers, boosted>>

BoostEnds(c) ==
    /\ Swaps(c) /\ copy[c] = None
    /\ boosted' = boosted \ {c}
    /\ UNCHANGED <<table, operator, cache, readers>>

\* Mutant: the outcome is written before the reader is there.
BoostBeginsReported(c) ==
    /\ Swaps(c) /\ copy[c] # None
    /\ boosted' = boosted \ {c}
    /\ Report(copy[c], "running")
    /\ UNCHANGED <<operator, cache, readers>>

\* The reader is there or loads, and the camera is read with it.
BoostBegins(c) ==
    /\ Swaps(c) /\ copy[c] # None
    /\ loaded \/ ~barred
    /\ loaded' = TRUE /\ boosted' = boosted \cup {c}
    /\ Report(copy[c], "running") \/ UNCHANGED table
    /\ UNCHANGED <<operator, cache, barred>>

\* The reader does not load, or did not a short while ago.
BoostFails(c) ==
    /\ Swaps(c) /\ copy[c] # None
    /\ ~loaded
    /\ barred' = TRUE /\ boosted' = boosted \ {c}
    /\ Report(copy[c], "failed") \/ UNCHANGED table
    /\ UNCHANGED <<operator, cache, loaded>>

\* retry_s passes.
RetryAllowed ==
    /\ barred /\ barred' = FALSE
    /\ UNCHANGED <<table, operator, cache, loaded, threads>>

\* The worker's process ends and another takes its place.
Restart ==
    /\ copy' = [c \in Cameras |-> None] /\ fresh' = FALSE
    /\ loaded' = FALSE /\ barred' = FALSE
    /\ following' = [c \in Cameras |-> None] /\ boosted' = {}
    /\ earlier' = {b \in Rows : boosts[b].outcome # "pending"}
    /\ UNCHANGED <<boosts, operator>>

-------------------------------------------------------------------------------
Starting(r) == Choose(r) \/ Lock(r) \/ Count(r) \/ Insert(r)

Applying(c) == BoostEnds(c) \/ BoostBegins(c) \/ BoostFails(c)

Next ==
    \/ \E r \in Requests : Starting(r)
    \/ \E c \in Cameras : Clear(c) \/ Applying(c)
    \/ \E b \in Boosts : Expire(b)
    \/ Age \/ Refresh \/ RefreshFails \/ RetryAllowed \/ Restart

\* The worker's copy ages, some refresh after it succeeds, and frames keep
\* coming on every camera.
Fairness ==
    /\ WF_vars(Age) /\ SF_vars(Refresh)
    /\ \A c \in Cameras : SF_vars(Applying(c))

Spec == Init /\ [][Next]_vars /\ Fairness

-------------------------------------------------------------------------------
(* Properties                                                               *)

Row == [camera : Cameras, end : {"open", "cleared", "expired"},
        outcome : {"pending", "running", "failed"}]

\* The values of the table, the requests and the worker.
TypeOK ==
    /\ Rows \subseteq Boosts /\ \A b \in Rows : boosts[b] \in Row
    /\ asked \in [Requests -> SUBSET Cameras]
    /\ stage \in [Requests -> {"new", "waiting", "locked", "counted", "done"}]
    /\ copy \in [Cameras -> Boosts \cup {None}]
    /\ following \in [Cameras -> Boosts \cup {None}]
    /\ {fresh, loaded, barred} \subseteq BOOLEAN /\ boosted \subseteq Cameras
    /\ earlier \subseteq Rows

\* "Serialise boost starts, so two operators cannot each pass the cap check":
\* whoever starts, clears and expires when, no more than MAX_CAMERAS cameras are
\* boosted at once, and a camera never has two boosts that are not cleared.
CapKept ==
    /\ Cardinality({boosts[b].camera : b \in Live}) <= MaxCameras
    /\ \A b, d \in Rows : b # d /\ boosts[b].camera = boosts[d].camera
                              => "cleared" \in {boosts[b].end, boosts[d].end}

\* What an operator is told is so: an open boost that is shown running is being
\* read with, and one shown failed is not, however stale the worker's copy is,
\* unless the answer is that of a process that has ended.
OutcomeIsTrue ==
    \A b \in Live \ earlier :
        LET c == boosts[b].camera
        IN  boosts[b].outcome # "pending"
                => following[c] = b /\ (boosts[b].outcome = "running" <=> c \in boosted)

\* A boost that is over ends on the camera too: a camera for which no boost is
\* ever open again returns to its own reader, although refreshes may fail.
ReaderReturns ==
    \A c \in Cameras :
        <>[](\A b \in Live : boosts[b].camera # c) => <>[](c \notin boosted)

\* worker.py:494-495: "The outcome is written back to the boost row either way".
\* A report that fails is not repeated.
OutcomeIsReported ==
    \A c \in Cameras : \A b \in Live :
        following[c] = b => boosts[b].outcome # "pending"
===============================================================================
