----------------------------- MODULE VehicleLinks -----------------------------
(***************************************************************************)
(* Vehicle ids: the rules that give a sighting the id of a vehicle seen    *)
(* before or one of its own (services/anpr/linking.py), the transactions   *)
(* in which the workers apply them to the batches they have written        *)
(* (SightingSink._link), and the tool that clears a window and redoes it   *)
(* (relink).                                                               *)
(*                                                                         *)
(* A transaction sees what is committed and what it wrote itself; each     *)
(* sighting is one query and one update.  Sighting n happened at time n.   *)
(* Which pairs are of different kinds, or too far apart to be driven, is   *)
(* one relation; a plate is readable (identifying) or absent.  relink is   *)
(* for rows no worker is still linking.                                    *)
(***************************************************************************)
EXTENDS Integers, FiniteSets

CONSTANTS
    Sightings,  \* sighting ids, in order of time
    Plates,     \* readable plates
    Looks,      \* appearance vectors, on a line
    Scenes,     \* what may happen: the sightings seen, and [plate, look, apart] of each
    MaxDistance,\* MAX_DISTANCE
    Margin,     \* MARGIN
    Window,     \* WINDOW_MIN
    Fetch,      \* LIMIT of _CANDIDATES
    Linkers,    \* processes that link: workers and runs of relink
    Kept,       \* not written
    None        \* no plate, no vector, no id

Pairs == {{s, t} : s, t \in Sightings}

ASSUME LinkAssumption ==
    /\ Sightings \subseteq Nat /\ IsFiniteSet(Sightings) /\ Looks \subseteq Nat
    /\ {MaxDistance, Margin, Window} \subseteq Nat /\ Fetch \in Nat \ {0}
    /\ {None, Kept} \cap (Nat \cup Plates) = {} /\ None # Kept
    /\ Scenes \subseteq [seen : SUBSET Sightings, plate : [Sightings -> Plates \cup {None}],
                         look : [Sightings -> Looks \cup {None}], apart : SUBSET Pairs]

VARIABLES
    scene,     \* what the columns of the sightings say, and where they were
    stored,    \* the sightings that are committed
    uid,       \* sightings.vehicle_uid, as committed
    todo,      \* the sightings each open transaction has still to link
    wrote,     \* what each open transaction has written: an id, None or Kept
    orderly,   \* history: every link was made alone and in order of time
    crowded,   \* history: some link was made in a crowd
    redone     \* history: relink has been used

history == <<orderly, crowded, redone>>
vars    == <<scene, stored, uid, todo, wrote, history>>

plate == scene.plate   \* plate_normalised where identifying, or None
look  == scene.look    \* appearance, or None

Unwritten == [s \in Sightings |-> Kept]

Init ==
    /\ scene \in Scenes
    /\ stored = {} /\ uid = [s \in Sightings |-> None]
    /\ todo = [w \in Linkers |-> {}] /\ wrote = [w \in Linkers |-> Unwritten]
    /\ orderly = TRUE /\ crowded = FALSE /\ redone = FALSE

-------------------------------------------------------------------------------
(* choose                                                                   *)

Gap(m, n) == IF m < n THEN n - m ELSE m - n

\* s.appearance <=> n.appearance, where both have one.
Compared(n, s) == look[n] # None /\ look[s] # None

Distance(n, s) == Gap(look[n], look[s])

SamePlate(n, s) == plate[n] # None /\ plate[n] = plate[s]

\* What the transaction of w sees.
View(w, s) == IF wrote[w][s] = Kept THEN uid[s] ELSE wrote[w][s]

\* WHERE of _CANDIDATES, for sighting n.
Matching(w, n) ==
    {s \in stored \ {n} :
        /\ View(w, s) # None /\ Gap(n, s) <= Window
        /\ SamePlate(n, s) \/ (Compared(n, s) /\ Distance(n, s) <= MaxDistance + Margin)}

\* ORDER BY distance NULLS FIRST: s may come before t.
Before(n, s, t) ==
    Compared(n, s) => Compared(n, t) /\ Distance(n, s) <= Distance(n, t)

\* Mutant: the query has a limit and no order.
CandidatesUnordered(w, n, rows) ==
    /\ rows \subseteq Matching(w, n) /\ Cardinality(rows) <= Fetch
    /\ rows # Matching(w, n) => Cardinality(rows) = Fetch

\* The rows _CANDIDATES returns.
Candidates(w, n, rows) ==
    /\ rows \subseteq Matching(w, n) /\ Cardinality(rows) <= Fetch
    /\ rows # Matching(w, n) => Cardinality(rows) = Fetch
    /\ \A s \in rows, t \in Matching(w, n) \ rows : Before(n, s, t)

\* Mutant: plates are not looked at.
PlausibleUnread(n, s) == {n, s} \notin scene.apart

\* _plausible
Plausible(n, s) ==
    /\ ~(plate[n] # None /\ plate[s] # None /\ plate[n] # plate[s])
    /\ {n, s} \notin scene.apart

Resembling(n, rows) == {s \in rows : Compared(n, s) /\ Plausible(n, s)}

\* s is the nearest, and no other vehicle comes within the margin of it.
Clear(w, n, s, rows) ==
    /\ Distance(n, s) <= MaxDistance
    /\ \A t \in Resembling(n, rows) :
          /\ Distance(n, s) <= Distance(n, t)
          /\ View(w, t) # View(w, s) => Distance(n, t) - Distance(n, s) >= Margin

\* Rule 1: the sightings nearest in time that carry the plate of n.
ByPlate(n, rows) ==
    {s \in rows : SamePlate(n, s) /\ \A t \in rows : SamePlate(n, t) => Gap(n, s) <= Gap(n, t)}

\* Rule 2: those it resembles.
ByLook(w, n, rows) == {s \in Resembling(n, rows) : Clear(w, n, s, rows)}

\* The ids n may be given; rule 3 is an id of its own.
Chosen(w, n, rows) ==
    IF ByPlate(n, rows) # {} THEN {View(w, s) : s \in ByPlate(n, rows)}
    ELSE IF ByLook(w, n, rows) # {} THEN {View(w, s) : s \in ByLook(w, n, rows)}
    ELSE {n}

-------------------------------------------------------------------------------
(* The transactions                                                         *)

Idle(w) == todo[w] = {} /\ wrote[w] = Unwritten

\* _write commits a batch, and _link opens a transaction for it.
Write(w) ==
    /\ Idle(w)
    /\ \E batch \in SUBSET (scene.seen \ stored) \ {{}} :
          stored' = stored \cup batch /\ todo' = [todo EXCEPT ![w] = batch]
    /\ UNCHANGED <<scene, uid, wrote, history>>

\* relink clears the ids of a window of cameras and times.
Relink(w) ==
    /\ Idle(w)
    /\ \E scope \in SUBSET stored \ {{}} :
          /\ \A v \in Linkers : scope \cap todo[v] = {}
                                /\ \A s \in scope : wrote[v][s] = Kept
          /\ todo' = [todo EXCEPT ![w] = scope]
          /\ wrote' = [wrote EXCEPT ![w] =
                [s \in Sightings |-> IF s \in scope THEN None ELSE Kept]]
    /\ redone' = TRUE
    /\ UNCHANGED <<scene, stored, uid, orderly, crowded>>

\* relink goes through its window oldest first, a batch has no order.
Turn(w, n) == n \in todo[w] /\ (wrote[w][n] = None => \A m \in todo[w] : n <= m)

\* History: n is linked by the only transaction, and no later sighting has an id.
InOrder(w, n) ==
    /\ \A v \in Linkers \ {w} : Idle(v)
    /\ \A s \in Sightings : s > n => View(w, s) = None

\* History: of the sightings with the plate of n none need be fetched, as Fetch
\* others look at least as much like it as each of them.
Crowd(w, n) ==
    {s \in Matching(w, n) : /\ ~SamePlate(n, s)
                            /\ \A t \in Matching(w, n) : SamePlate(n, t) => Before(n, s, t)}
InCrowd(w, n) ==
    (\E t \in Matching(w, n) : SamePlate(n, t)) /\ Cardinality(Crowd(w, n)) >= Fetch

\* One turn of link_batch.
LinkOne(w, n) ==
    /\ Turn(w, n)
    /\ \E rows \in SUBSET Matching(w, n) :
          /\ Candidates(w, n, rows)
          /\ \E id \in Chosen(w, n, rows) : wrote' = [wrote EXCEPT ![w][n] = id]
    /\ todo' = [todo EXCEPT ![w] = @ \ {n}]
    /\ orderly' = (orderly /\ InOrder(w, n))
    /\ crowded' = (crowded \/ InCrowd(w, n))
    /\ UNCHANGED <<scene, stored, uid, redone>>

Over(w) == todo' = [todo EXCEPT ![w] = {}] /\ wrote' = [wrote EXCEPT ![w] = Unwritten]

Commit(w) ==
    /\ ~Idle(w) /\ todo[w] = {}
    /\ uid' = [s \in Sightings |-> View(w, s)]
    /\ Over(w)
    /\ UNCHANGED <<scene, stored, history>>

\* "A failure here loses ids, never reads", and is not tried again.
Fail(w) ==
    /\ ~Idle(w)
    /\ Over(w)
    /\ UNCHANGED <<scene, stored, uid, history>>

Next ==
    \E w \in Linkers :
        \/ Write(w) \/ Relink(w) \/ Commit(w) \/ Fail(w)
        \/ \E n \in Sightings : LinkOne(w, n)

Spec == Init /\ [][Next]_vars

-------------------------------------------------------------------------------
(* Properties                                                               *)

\* The values of the ids and the transactions.
TypeOK ==
    /\ scene \in Scenes /\ stored \subseteq Sightings
    /\ uid \in [Sightings -> Sightings \cup {None}]
    /\ todo \in [Linkers -> SUBSET stored]
    /\ wrote \in [Linkers -> [Sightings -> Sightings \cup {None, Kept}]]
    /\ {orderly, crowded, redone} \subseteq BOOLEAN

\* Rule 1 carried through any number of links: sightings with one readable plate
\* within the window have one id, however appearance links and failed batches come
\* between, and whatever the query's limit cuts off, as long as no link is made in a
\* crowd that hides the plate.  Two transactions at once, or an older sighting linked
\* later, may each start an id of their own.
SamePlateOneVehicle ==
    orderly /\ ~crowded => \A s, t \in Sightings :
        SamePlate(s, t) /\ Gap(s, t) <= Window /\ None \notin {uid[s], uid[t]}
            => uid[s] = uid[t]

\* Sightings with different plates are never one vehicle by the rules alone, in
\* whatever order and by however many processes they are linked: where two plates
\* have one id, an unread sighting of that id came between.
FusedByUnread ==
    ~redone => \A s, t \in Sightings :
        uid[s] = uid[t] /\ None \notin {uid[s], plate[s], plate[t]} /\ plate[s] # plate[t]
            => \E u \in Sightings : uid[u] = uid[s] /\ plate[u] = None

\* linking.py:8-12: a vehicle is a candidate if it "does not carry a different
\* readable plate".  The rule looks at one sighting of the vehicle at a time.
OnePlatePerVehicle ==
    \A s, t \in Sightings :
        uid[s] = uid[t] /\ None \notin {uid[s], plate[s], plate[t]} => plate[s] = plate[t]

\* linking.py:8: "a readable plate seen in the window -> that sighting's id", which
\* needs its row to be among the first Fetch by distance.
PlateDecides ==
    orderly => \A s, t \in Sightings :
        SamePlate(s, t) /\ Gap(s, t) <= Window /\ None \notin {uid[s], uid[t]}
            => uid[s] = uid[t]
===============================================================================
