-------------------------- MODULE VehicleLinks_proofs --------------------------
(***************************************************************************)
(* Links made one after the other in order of time give one plate one id   *)
(* within the window, as long as no crowd of look-alikes fills the query,  *)
(* and links made in any order by any number of processes join two plates  *)
(* only through an unread sighting.  Both follow from one inductive        *)
(* invariant, which says of every open transaction's view what the         *)
(* properties say of the committed ids, and how the views differ from each *)
(* other.                                                                  *)
(*                                                                         *)
(* Of Journeys, whose functions are given by recursion on their input:     *)
(* every trail keeps its sightings, and is split exactly by its clones.    *)
(* The provers have no induction, so it is derived here for sets of        *)
(* numbers from the well-foundedness of <, with what follows from it: that *)
(* recursion defines a function, and what one step more adds to it.        *)
(***************************************************************************)
EXTENDS VehicleLinks, Journeys, FiniteSetTheorems, SequenceTheorems, WellFoundedInduction, TLAPS

\* The ids as the transaction of w sees them.
Ids(w) == [s \in Sightings |-> View(w, s)]

\* Sightings with one plate within the window have one id.
OneEach(ids) ==
    \A s, t \in Sightings :
        SamePlate(s, t) /\ Gap(s, t) <= Window /\ None \notin {ids[s], ids[t]} => ids[s] = ids[t]

\* Two plates have one id only where an unread sighting has it too.
Mixed(ids) ==
    \A s, t \in Sightings :
        ids[s] = ids[t] /\ None \notin {ids[s], plate[s], plate[t]} /\ plate[s] # plate[t]
            => \E u \in Sightings : ids[u] = ids[s] /\ plate[u] = None

\* An id is that of the sighting it was made for.
Rooted(ids) == \A s \in Sightings : ids[s] # None => ids[ids[s]] = ids[s]

\* Only stored sightings have ids.
IdsStored ==
    \A s \in Sightings \ stored : uid[s] = None /\ \A w \in Linkers : wrote[w][s] = Kept

\* Without relink a sighting is linked once: what a transaction has written or has
\* still to link has no id yet, and nobody else links it.
LinkedOnce ==
    \A w \in Linkers, s \in Sightings :
        /\ wrote[w][s] # Kept =>
              /\ wrote[w][s] # None /\ uid[s] = None
              /\ \A v \in Linkers \ {w} : wrote[v][s] = Kept
        /\ s \in todo[w] =>
              /\ uid[s] = None
              /\ \A v \in Linkers : wrote[v][s] = Kept
              /\ \A v \in Linkers \ {w} : s \notin todo[v]

HasLinked(w) == \E s \in Sightings : wrote[w][s] \notin {None, Kept}

\* In order, one open transaction has made links.
LinkedAlone == \A v, w \in Linkers : HasLinked(v) /\ HasLinked(w) => v = w

Ordered ==
    orderly => /\ LinkedAlone
               /\ ~crowded => /\ OneEach(uid)
                              /\ \A w \in Linkers : OneEach(Ids(w))

Unredone ==
    ~redone => /\ LinkedOnce
               /\ Rooted(uid) /\ Mixed(uid)
               /\ \A w \in Linkers : Rooted(Ids(w)) /\ Mixed(Ids(w))

IInv == TypeOK /\ IdsStored /\ Ordered /\ Unredone

-------------------------------------------------------------------------------
(* Views                                                                    *)

LEMMA IdsTyped ==
    ASSUME TypeOK, NEW w \in Linkers
    PROVE  /\ Ids(w) \in [Sightings -> Sightings \cup {None}]
           /\ \A s \in Sightings : Ids(w)[s] = View(w, s)
  BY LinkAssumption DEF TypeOK, Ids, View

\* A transaction that has written nothing sees what is committed.
LEMMA IdleView ==
    ASSUME TypeOK, NEW w \in Linkers, wrote[w] = Unwritten
    PROVE  Ids(w) = uid
  BY DEF TypeOK, Ids, View, Unwritten

\* The same of the state after a step that ends the transaction.
LEMMA OverView ==
    ASSUME TypeOK, NEW w \in Linkers, Over(w), uid' \in [Sightings -> Sightings \cup {None}]
    PROVE  Ids(w)' = uid'
<1>1. \A s \in Sightings : wrote'[w][s] = Kept
  BY DEF TypeOK, Over, Unwritten
<1>2. QED
  BY <1>1 DEF Ids, View

\* What the columns say does not change, so what is said of ids that stay the same
\* stays true.
LEMMA SameColumns ==
    ASSUME scene' = scene, NEW s, NEW t
    PROVE  /\ plate' = plate
           /\ SamePlate(s, t)' = SamePlate(s, t)
  BY DEF plate, SamePlate

LEMMA SameIds ==
    ASSUME scene' = scene, uid' = uid, NEW w \in Linkers, wrote'[w] = wrote[w]
    PROVE  Ids(w)' = Ids(w)
  BY DEF Ids, View

LEMMA InitInv == Init => IInv
<1> SUFFICES ASSUME Init PROVE IInv
  OBVIOUS
<1> USE LinkAssumption DEF Init
<1>1. TypeOK
  BY DEF TypeOK, Unwritten
<1>2. IdsStored
  BY DEF IdsStored, Unwritten
<1>3. \A w \in Linkers : Ids(w) = uid
  BY <1>1, IdleView
<1>4. OneEach(uid) /\ Mixed(uid) /\ Rooted(uid)
  BY DEF OneEach, Mixed, Rooted
<1>5. LinkedAlone /\ LinkedOnce
  BY DEF LinkedAlone, HasLinked, LinkedOnce, Unwritten
<1>6. Ordered /\ Unredone
  BY <1>3, <1>4, <1>5 DEF Ordered, Unredone
<1>7. QED
  BY <1>1, <1>2, <1>6 DEF IInv

-------------------------------------------------------------------------------
(* Batches and windows                                                      *)

LEMMA WriteInv ==
    ASSUME IInv, NEW w \in Linkers, Write(w)
    PROVE  IInv'
<1> USE DEF IInv, Write, history
<1>1. PICK batch \in SUBSET (Sightings \ stored) \ {{}} :
          stored' = stored \cup batch /\ todo' = [todo EXCEPT ![w] = batch]
  <2>1. scene.seen \subseteq Sightings
    BY LinkAssumption DEF TypeOK
  <2>2. QED
    BY <2>1
<1>2. TypeOK'
  BY <1>1 DEF TypeOK
<1>3. IdsStored'
  BY <1>1 DEF IdsStored
<1>4. \A v \in Linkers : Ids(v)' = Ids(v)
  BY SameIds
<1>5. plate' = plate /\ \A s, t : SamePlate(s, t)' = SamePlate(s, t)
  BY SameColumns
<1>6. OneEach(uid)' = OneEach(uid) /\ Mixed(uid)' = Mixed(uid) /\ Rooted(uid)' = Rooted(uid)
  BY <1>5 DEF OneEach, Mixed, Rooted
<1>7. \A v \in Linkers : /\ OneEach(Ids(v))' = OneEach(Ids(v))
                         /\ Mixed(Ids(v))' = Mixed(Ids(v))
                         /\ Rooted(Ids(v))' = Rooted(Ids(v))
  BY <1>4, <1>5 DEF OneEach, Mixed, Rooted
<1>8. Ordered'
  BY <1>6, <1>7 DEF Ordered, LinkedAlone, HasLinked
<1>9. LinkedOnce => LinkedOnce'
  <2> SUFFICES ASSUME LinkedOnce, NEW v \in Linkers, NEW s \in todo'[v]
               PROVE  /\ uid[s] = None
                      /\ \A x \in Linkers : wrote[x][s] = Kept
                      /\ \A x \in Linkers \ {v} : s \notin todo'[x]
    BY <1>2 DEF LinkedOnce, TypeOK
  <2>1. \A x \in Linkers : todo'[x] = IF x = w THEN batch ELSE todo[x]
    BY <1>1 DEF TypeOK
  <2>2. \A x \in Linkers : todo[x] \subseteq stored
    BY DEF TypeOK
  <2>3. CASE v = w
    BY <1>1, <2>1, <2>2, <2>3 DEF IdsStored
  <2>4. CASE v # w
    BY <1>1, <2>1, <2>2, <2>4 DEF LinkedOnce, TypeOK
  <2>5. QED
    BY <2>3, <2>4
<1>10. Unredone'
  BY <1>6, <1>7, <1>9 DEF Unredone
<1>11. QED
  BY <1>2, <1>3, <1>8, <1>10

\* relink takes ids out of its own view and puts none in.
LEMMA RelinkInv ==
    ASSUME IInv, NEW w \in Linkers, Relink(w)
    PROVE  IInv'
<1> USE DEF IInv, Relink
<1>1. PICK scope \in SUBSET stored \ {{}} :
          /\ todo' = [todo EXCEPT ![w] = scope]
          /\ wrote' = [wrote EXCEPT ![w] =
                [s \in Sightings |-> IF s \in scope THEN None ELSE Kept]]
  OBVIOUS
<1>2. TypeOK'
  BY <1>1, LinkAssumption DEF TypeOK
<1>3. IdsStored'
  BY <1>1 DEF IdsStored, TypeOK
<1>4. plate' = plate /\ \A s, t : SamePlate(s, t)' = SamePlate(s, t)
  BY SameColumns
<1>5. \A v \in Linkers \ {w} : wrote'[v] = wrote[v] /\ Ids(v)' = Ids(v)
  BY <1>1, SameIds DEF TypeOK
<1>6. \A s \in Sightings : wrote'[w][s] \in {None, Kept}
  BY <1>1 DEF TypeOK
<1>7. \A s \in Sightings : Ids(w)'[s] \in {None, uid[s]}
  BY <1>6 DEF Ids, View
<1>8. LinkedAlone => LinkedAlone'
  BY <1>5, <1>6 DEF LinkedAlone, HasLinked
<1>9. OneEach(uid) => OneEach(uid)' /\ OneEach(Ids(w))'
  BY <1>4, <1>7 DEF OneEach
<1>10. \A v \in Linkers \ {w} : OneEach(Ids(v)) => OneEach(Ids(v))'
  BY <1>4, <1>5 DEF OneEach
<1>11. Ordered'
  BY <1>8, <1>9, <1>10 DEF Ordered
<1>12. Unredone'
  BY DEF Unredone
<1>13. QED
  BY <1>2, <1>3, <1>11, <1>12

-------------------------------------------------------------------------------
(* One link                                                                 *)

\* Where there is a candidate with its plate, a sighting gets the id of one that is
\* nearest in time.
LEMMA NearestPlate ==
    ASSUME TypeOK, NEW w \in Linkers, NEW n \in Sightings, NEW rows \in SUBSET Matching(w, n),
           NEW t \in rows, SamePlate(n, t)
    PROVE  ByPlate(n, rows) # {}
<1> DEFINE Gaps == {Gap(n, s) : s \in {x \in rows : SamePlate(n, x)}}
<1>1. rows \subseteq Sightings
  BY DEF Matching, TypeOK
<1>2. \A s \in Sightings : Gap(n, s) \in Nat
  BY LinkAssumption DEF Gap
<1>3. Gaps \subseteq Nat /\ Gaps # {}
  BY <1>1, <1>2
<1>4. PICK g \in Gaps : \A h \in Gaps : ~(<<h, g>> \in OpToRel(<, Nat))
  <2> HIDE DEF Gaps
  <2> QED
    BY <1>3, NatLessThanWellFounded, WFMin, Zenon
<1>5. \A h \in Gaps : ~(h < g)
  BY <1>3, <1>4 DEF OpToRel
<1>6. \A h \in Gaps : g <= h
  BY <1>3, <1>5
<1>7. PICK s \in rows : SamePlate(n, s) /\ Gap(n, s) = g
  OBVIOUS
<1>8. s \in ByPlate(n, rows)
  BY <1>6, <1>7 DEF ByPlate
<1>9. QED
  BY <1>8

\* The limit of the query cuts off every sighting with the plate only in a crowd: the
\* rows fetched instead of them are one.
LEMMA PlateFetched ==
    ASSUME TypeOK, NEW w \in Linkers, NEW n \in Sightings, ~InCrowd(w, n),
           NEW rows, Candidates(w, n, rows), NEW t \in Matching(w, n), SamePlate(n, t)
    PROVE  \E s \in rows : SamePlate(n, s)
<1> SUFFICES ASSUME \A s \in rows : ~SamePlate(n, s) PROVE FALSE
  OBVIOUS
<1>1. rows \subseteq Matching(w, n) /\ t \notin rows
  BY DEF Candidates
<1>2. Cardinality(rows) = Fetch
  BY <1>1 DEF Candidates
<1>3. rows \subseteq Crowd(w, n)
  BY <1>1 DEF Candidates, Crowd
<1>4. Crowd(w, n) \subseteq Sightings
  BY DEF Crowd, Matching, TypeOK
<1>5. IsFiniteSet(Crowd(w, n))
  BY <1>4, FS_Subset, LinkAssumption
<1>6. Cardinality(rows) <= Cardinality(Crowd(w, n))
  BY <1>3, <1>5, FS_Subset
<1>7. Cardinality(Crowd(w, n)) >= Fetch
  BY <1>2, <1>5, <1>6, FS_CardinalityType, LinkAssumption
<1>8. QED
  BY <1>7 DEF InCrowd

\* The id that n is given: its own, or that of a candidate with its plate or without
\* another one.
LEMMA ChosenId ==
    ASSUME TypeOK, NEW w \in Linkers, NEW n \in Sightings, NEW rows \in SUBSET Matching(w, n),
           NEW id \in Chosen(w, n, rows)
    PROVE  /\ id \in Sightings
           /\ \/ id = n /\ ByPlate(n, rows) = {}
              \/ \E s \in rows :
                    /\ id = View(w, s)
                    /\ None \in {plate[n], plate[s]} \/ plate[n] = plate[s]
                    /\ ByPlate(n, rows) # {} => s \in ByPlate(n, rows)
<1>1. \A s \in rows : View(w, s) \in Sightings
  BY IdsTyped DEF Matching, TypeOK
<1>2. CASE ByPlate(n, rows) # {}
  BY <1>1, <1>2 DEF Chosen, ByPlate, SamePlate
<1>3. CASE ByPlate(n, rows) = {} /\ ByLook(w, n, rows) # {}
  BY <1>1, <1>3 DEF Chosen, ByLook, Resembling, Plausible
<1>4. CASE ByPlate(n, rows) = {} /\ ByLook(w, n, rows) = {}
  BY <1>4 DEF Chosen
<1>5. QED
  BY <1>2, <1>3, <1>4

\* In order and in no crowd: n joins the id that all sightings with its plate within
\* the window have.  They are all earlier than n, so any of them that is fetched will do.
LEMMA LinkKeepsOneEach ==
    ASSUME TypeOK, IdsStored, NEW w \in Linkers, NEW n \in Sightings, InOrder(w, n),
           ~InCrowd(w, n), NEW rows, Candidates(w, n, rows),
           NEW id \in Chosen(w, n, rows), OneEach(Ids(w)),
           NEW t \in Sightings \ {n}, SamePlate(n, t), Gap(n, t) <= Window, View(w, t) # None
    PROVE  id = View(w, t)
<1>1. t \in Matching(w, n)
  BY DEF Matching, IdsStored, View
<1>2. rows \in SUBSET Matching(w, n)
  BY DEF Candidates
<1>3. PICK s \in ByPlate(n, rows) : id = View(w, s)
  BY <1>1, <1>2, PlateFetched, NearestPlate DEF Chosen
<1>4. /\ s \in Sightings \ {n} /\ SamePlate(n, s) /\ View(w, s) # None
      /\ Gap(n, s) <= Window
  BY <1>2, <1>3 DEF ByPlate, Matching, TypeOK
<1>5. /\ n \in Nat /\ s \in Nat /\ t \in Nat /\ Window \in Nat
      /\ s < n /\ t < n
  BY <1>4, LinkAssumption DEF InOrder
<1>6. Gap(s, t) <= Window
  BY <1>4, <1>5 DEF Gap
<1>7. SamePlate(s, t)
  BY <1>4 DEF SamePlate
<1>8. QED
  BY <1>3, <1>4, <1>6, <1>7, IdsTyped DEF OneEach

LEMMA LinkOneInv ==
    ASSUME IInv, NEW w \in Linkers, NEW n \in Sightings, LinkOne(w, n)
    PROVE  IInv'
<1> USE DEF IInv, LinkOne, Turn
<1>0. PICK rows \in SUBSET Matching(w, n) :
          /\ Candidates(w, n, rows)
          /\ \E id \in Chosen(w, n, rows) : wrote' = [wrote EXCEPT ![w][n] = id]
  OBVIOUS
<1>1. PICK id \in Chosen(w, n, rows) : wrote' = [wrote EXCEPT ![w][n] = id]
  BY <1>0
<1>2. id \in Sightings /\ id # None /\ id # Kept
  BY ChosenId, LinkAssumption
<1>3. TypeOK'
  BY <1>1, <1>2 DEF TypeOK
<1>4. n \in stored
  BY DEF TypeOK
<1>5. \A v \in Linkers, s \in Sightings :
          wrote'[v][s] = IF v = w /\ s = n THEN id ELSE wrote[v][s]
  BY <1>1 DEF TypeOK
<1>6. IdsStored'
  BY <1>4, <1>5 DEF IdsStored
<1>7. plate' = plate /\ \A s, t : SamePlate(s, t)' = SamePlate(s, t)
  BY SameColumns
<1>8. \A v \in Linkers \ {w} : Ids(v)' = Ids(v)
  BY <1>1, SameIds DEF TypeOK
<1>9. \A s \in Sightings : Ids(w)'[s] = IF s = n THEN id ELSE View(w, s)
  BY <1>2, <1>5 DEF Ids, View
<1>10. /\ OneEach(uid)' = OneEach(uid) /\ Mixed(uid)' = Mixed(uid) /\ Rooted(uid)' = Rooted(uid)
       /\ \A v \in Linkers \ {w} : /\ OneEach(Ids(v))' = OneEach(Ids(v))
                                   /\ Mixed(Ids(v))' = Mixed(Ids(v))
                                   /\ Rooted(Ids(v))' = Rooted(Ids(v))
  BY <1>7, <1>8 DEF OneEach, Mixed, Rooted
<1>11. Ordered'
  <2>1. ASSUME orderly, InOrder(w, n) PROVE LinkedAlone'
    BY <1>5, <2>1 DEF LinkedAlone, HasLinked, InOrder, Idle, Unwritten
  <2> SUFFICES ASSUME orderly, InOrder(w, n), ~crowded, ~InCrowd(w, n)
               PROVE  OneEach(uid)' /\ \A v \in Linkers : OneEach(Ids(v))'
    BY <2>1 DEF Ordered
  <2>2. \A t \in Sightings \ {n} :
            SamePlate(n, t) /\ Gap(n, t) <= Window /\ View(w, t) # None => id = View(w, t)
    BY <1>0, LinkKeepsOneEach DEF Ordered
  <2>3. \A s, t \in Sightings : SamePlate(s, t) = SamePlate(t, s) /\ Gap(s, t) = Gap(t, s)
    BY LinkAssumption DEF SamePlate, Gap
  <2>4. \A s, t \in Sightings \ {n} :
            SamePlate(s, t) /\ Gap(s, t) <= Window /\ None \notin {View(w, s), View(w, t)}
                => View(w, s) = View(w, t)
    BY IdsTyped DEF Ordered, OneEach
  <2>5. OneEach(Ids(w))'
    BY <1>7, <1>9, <2>2, <2>3, <2>4 DEF OneEach
  <2>6. QED
    BY <1>10, <2>5 DEF Ordered
<1>12. Unredone'
  <2> SUFFICES ASSUME ~redone
               PROVE  /\ LinkedOnce' /\ Rooted(uid)' /\ Mixed(uid)'
                      /\ \A v \in Linkers : Rooted(Ids(v))' /\ Mixed(Ids(v))'
    BY DEF Unredone
  <2> USE DEF Unredone
  <2>1. View(w, n) = None
    BY DEF LinkedOnce, View
  <2>2. LinkedOnce'
    <3>1. \A v \in Linkers : todo'[v] = IF v = w THEN todo[w] \ {n} ELSE todo[v]
      BY DEF TypeOK
    <3>2. QED
      BY <1>2, <1>5, <3>1 DEF LinkedOnce
  <2>3. \A s \in Sightings : View(w, s) # None => View(w, s) # n /\ View(w, View(w, s)) = View(w, s)
    BY <2>1, IdsTyped DEF Rooted
  <2>4. Rooted(Ids(w))'
    <3>1. CASE id = n
      BY <1>9, <2>3, <3>1, IdsTyped DEF Rooted
    <3>2. CASE id # n
      <4>1. PICK s \in rows : id = View(w, s)
        BY <3>2, ChosenId
      <4>2. View(w, id) = id
        BY <1>2, <2>3, <4>1 DEF Matching, TypeOK
      <4>3. QED
        BY <1>2, <1>9, <2>3, <3>2, <4>2, IdsTyped DEF Rooted
    <3>3. QED
      BY <3>1, <3>2
  <2>5. ASSUME NEW t \in Sightings \ {n}, View(w, t) = id,
               None \notin {plate[n], plate[t]}, plate[n] # plate[t]
        PROVE  \E u \in Sightings \ {n} : View(w, u) = id /\ plate[u] = None
    <3>1. id # n
      BY <1>2, <2>3, <2>5
    <3>2. PICK s \in rows :
              id = View(w, s) /\ (None \in {plate[n], plate[s]} \/ plate[n] = plate[s])
      BY <3>1, ChosenId
    <3>3. s \in Sightings \ {n}
      BY <3>2 DEF Matching, TypeOK
    <3>4. CASE plate[s] = None
      BY <3>2, <3>3, <3>4
    <3>5. CASE plate[s] = plate[n]
      <4>1. PICK u \in Sightings : View(w, u) = id /\ plate[u] = None
        BY <1>2, <2>5, <3>2, <3>3, <3>5, IdsTyped DEF Mixed
      <4>2. u # n
        BY <1>2, <2>1, <4>1
      <4>3. QED
        BY <4>1, <4>2
    <3>6. QED
      BY <2>5, <3>2, <3>4, <3>5
  <2>6. ASSUME NEW s \in Sightings \ {n}, NEW t \in Sightings \ {n},
               View(w, s) = View(w, t), None \notin {View(w, s), plate[s], plate[t]},
               plate[s] # plate[t]
        PROVE  \E u \in Sightings \ {n} : View(w, u) = View(w, s) /\ plate[u] = None
    <3>1. PICK u \in Sightings : View(w, u) = View(w, s) /\ plate[u] = None
      BY <2>6, IdsTyped DEF Mixed
    <3>2. QED
      BY <2>1, <2>6, <3>1
  <2>7. Mixed(Ids(w))'
    <3> SUFFICES ASSUME NEW s \in Sightings, NEW t \in Sightings,
                        Ids(w)'[s] = Ids(w)'[t],
                        None \notin {Ids(w)'[s], plate[s], plate[t]}, plate[s] # plate[t]
                 PROVE  \E u \in Sightings : Ids(w)'[u] = Ids(w)'[s] /\ plate[u] = None
      BY <1>7 DEF Mixed
    <3>1. CASE s # n /\ t # n
      BY <1>9, <2>6, <3>1
    <3>2. CASE s = n /\ t # n
      BY <1>9, <2>5, <3>2
    <3>3. CASE s # n /\ t = n
      BY <1>9, <2>5, <3>3
    <3>4. QED
      BY <3>1, <3>2, <3>3
  <2>8. QED
    BY <1>10, <2>2, <2>4, <2>7
<1>13. QED
  BY <1>3, <1>6, <1>11, <1>12

-------------------------------------------------------------------------------
(* The end of a transaction                                                 *)

\* What a transaction sees once another has committed.
LEMMA ViewAfter ==
    ASSUME TypeOK, NEW w \in Linkers, Commit(w), NEW v \in Linkers
    PROVE  \A s \in Sightings :
              Ids(v)'[s] = IF v # w /\ wrote[v][s] # Kept THEN wrote[v][s] ELSE View(w, s)
  BY DEF TypeOK, Commit, Over, Ids, View, Unwritten

LEMMA CommitInv ==
    ASSUME IInv, NEW w \in Linkers, Commit(w)
    PROVE  IInv'
<1> USE DEF IInv, Commit, Over, history
<1>1. uid' = Ids(w)
  BY DEF Ids
<1>2. TypeOK'
  BY <1>1, IdsTyped, LinkAssumption DEF TypeOK, Unwritten
<1>3. \A v \in Linkers, s \in Sightings :
          /\ wrote'[v][s] = IF v = w THEN Kept ELSE wrote[v][s]
          /\ todo'[v] = IF v = w THEN {} ELSE todo[v]
  BY DEF TypeOK, Unwritten
<1>4. IdsStored'
  BY <1>1, <1>3, IdsTyped DEF IdsStored, View
<1>5. plate' = plate /\ \A s, t : SamePlate(s, t)' = SamePlate(s, t)
  BY SameColumns
<1>6. Ids(w)' = uid'
  BY <1>2, OverView DEF TypeOK
<1>7. Ordered'
  <2>1. orderly => LinkedAlone'
    BY <1>3 DEF Ordered, LinkedAlone, HasLinked
  <2> SUFFICES ASSUME orderly, ~crowded
               PROVE  OneEach(uid)' /\ \A v \in Linkers : OneEach(Ids(v))'
    BY <2>1 DEF Ordered
  <2>2. OneEach(uid)'
    BY <1>1, <1>5 DEF Ordered, OneEach
  <2>3. ASSUME NEW v \in Linkers \ {w} PROVE OneEach(Ids(v))'
    <3>1. CASE ~HasLinked(v)
      <4>1. \A s \in Sightings : Ids(v)'[s] \in {None, Ids(w)[s]}
        BY <3>1, ViewAfter, IdsTyped DEF HasLinked
      <4>2. QED
        BY <1>5, <4>1 DEF Ordered, OneEach
    <3>2. CASE HasLinked(v)
      <4>1. ~HasLinked(w)
        BY <2>3, <3>2 DEF Ordered, LinkedAlone
      <4>2. \A s \in Sightings : Ids(v)'[s] \in {None, Ids(v)[s]}
        <5>1. \A s \in Sightings : wrote[w][s] \in {None, Kept}
          BY <4>1 DEF HasLinked, TypeOK
        <5>2. \A s \in Sightings : View(w, s) \in {None, uid[s]}
          BY <5>1 DEF View
        <5>3. \A s \in Sightings : wrote[v][s] # Kept => Ids(v)'[s] = Ids(v)[s]
          <6>1. \A s \in Sightings : wrote[v][s] # Kept => Ids(v)'[s] = wrote[v][s]
            BY <2>3, ViewAfter
          <6>2. \A s \in Sightings : wrote[v][s] # Kept => Ids(v)[s] = wrote[v][s]
            BY IdsTyped DEF View
          <6>3. QED
            BY <6>1, <6>2
        <5>4. \A s \in Sightings : wrote[v][s] = Kept => Ids(v)[s] = uid[s] /\ Ids(v)'[s] = View(w, s)
          BY ViewAfter, IdsTyped DEF View
        <5>5. QED
          BY <5>2, <5>3, <5>4
      <4>3. QED
        BY <1>5, <4>2 DEF Ordered, OneEach
    <3>3. QED
      BY <3>1, <3>2
  <2>4. QED
    BY <1>6, <2>1, <2>2, <2>3 DEF OneEach
<1>8. Unredone'
  <2> SUFFICES ASSUME ~redone
               PROVE  /\ LinkedOnce' /\ Rooted(uid)' /\ Mixed(uid)'
                      /\ \A v \in Linkers : Rooted(Ids(v))' /\ Mixed(Ids(v))'
    BY DEF Unredone
  <2> USE DEF Unredone
  <2>1. LinkedOnce'
    BY <1>1, <1>3, IdsTyped DEF LinkedOnce, View
  <2>2. Rooted(uid)' /\ Mixed(uid)'
    BY <1>1, <1>5 DEF Rooted, Mixed
  <2>3. ASSUME NEW v \in Linkers \ {w} PROVE Rooted(Ids(v))' /\ Mixed(Ids(v))'
    <3>1. \A s \in Sightings : Ids(v)'[s] = IF wrote[v][s] # Kept THEN wrote[v][s] ELSE View(w, s)
      BY <2>3, ViewAfter
    <3>2. \A s \in Sightings : wrote[v][s] # Kept =>
              wrote[v][s] = View(v, s) /\ wrote[w][s] = Kept /\ uid[s] = None /\ View(w, s) = None
      BY <2>3 DEF LinkedOnce, View
    <3>3. \A s \in Sightings : wrote[w][s] # Kept => View(v, s) = None
      BY <2>3 DEF LinkedOnce, View
    <3>4. \A s \in Sightings : View(v, s) # None => Ids(v)'[s] = View(v, s)
      BY <3>1, <3>2, <3>3 DEF View
    <3>5. \A s \in Sightings : View(w, s) # None => Ids(v)'[s] = View(w, s)
      BY <3>1, <3>2
    <3>6. \A s \in Sightings : Ids(v)'[s] \in {View(v, s), View(w, s)}
      BY <3>1, <3>2
    <3>7. \A s \in Sightings :
              /\ View(v, s) # None => View(v, s) \in Sightings /\ View(v, View(v, s)) = View(v, s)
              /\ View(w, s) # None => View(w, s) \in Sightings /\ View(w, View(w, s)) = View(w, s)
      BY IdsTyped DEF Rooted
    <3>8. Rooted(Ids(v))'
      <4> SUFFICES ASSUME NEW s \in Sightings, Ids(v)'[s] # None
                   PROVE  Ids(v)'[Ids(v)'[s]] = Ids(v)'[s]
        BY DEF Rooted
      <4>1. CASE Ids(v)'[s] = View(v, s)
        BY <3>4, <3>7, <4>1, LinkAssumption
      <4>2. CASE Ids(v)'[s] = View(w, s)
        BY <3>5, <3>7, <4>2, LinkAssumption
      <4>3. QED
        BY <3>6, <4>1, <4>2
    <3>9. \A s, t \in Sightings :
              View(v, s) = View(v, t) /\ None \notin {View(v, s), plate[s], plate[t]} /\ plate[s] # plate[t]
                  => \E u \in Sightings : Ids(v)'[u] = View(v, s) /\ plate[u] = None
      BY <2>3, <3>4, IdsTyped DEF Mixed
    <3>10. \A s, t \in Sightings :
              View(w, s) = View(w, t) /\ None \notin {View(w, s), plate[s], plate[t]} /\ plate[s] # plate[t]
                  => \E u \in Sightings : Ids(v)'[u] = View(w, s) /\ plate[u] = None
      BY <3>5, IdsTyped DEF Mixed
    <3>11. ASSUME NEW s \in Sightings, NEW t \in Sightings, View(v, s) = View(w, t),
                  None \notin {View(v, s), plate[s], plate[t]}, plate[s] # plate[t]
           PROVE  \E u \in Sightings : Ids(v)'[u] = View(v, s) /\ plate[u] = None
      <4> DEFINE i == View(v, s)
      <4>1. i \in Sightings /\ i # None /\ View(v, i) = i /\ View(w, i) = i
        BY <3>7, <3>11
      <4>2. Ids(v)'[i] = i
        BY <3>4, <4>1
      <4>3. CASE plate[i] = None
        BY <4>1, <4>2, <4>3
      <4>4. CASE plate[i] # None /\ plate[i] # plate[s]
        BY <3>9, <3>11, <4>1, <4>4
      <4>5. CASE plate[i] # None /\ plate[i] # plate[t]
        BY <3>10, <3>11, <4>1, <4>5
      <4>6. QED
        BY <3>11, <4>3, <4>4, <4>5
    <3>12. Mixed(Ids(v))'
      <4> SUFFICES ASSUME NEW s \in Sightings, NEW t \in Sightings,
                          Ids(v)'[s] = Ids(v)'[t],
                          None \notin {Ids(v)'[s], plate[s], plate[t]}, plate[s] # plate[t]
                   PROVE  \E u \in Sightings : Ids(v)'[u] = Ids(v)'[s] /\ plate[u] = None
        BY <1>5 DEF Mixed
      <4>1. CASE Ids(v)'[s] = View(v, s) /\ Ids(v)'[t] = View(v, t)
        BY <3>9, <4>1
      <4>2. CASE Ids(v)'[s] = View(w, s) /\ Ids(v)'[t] = View(w, t)
        BY <3>10, <4>2
      <4>3. CASE Ids(v)'[s] = View(v, s) /\ Ids(v)'[t] = View(w, t)
        BY <3>11, <4>3
      <4>4. CASE Ids(v)'[s] = View(w, s) /\ Ids(v)'[t] = View(v, t)
        BY <3>11, <4>4
      <4>5. QED
        BY <3>6, <4>1, <4>2, <4>3, <4>4
    <3>13. QED
      BY <3>8, <3>12
  <2>4. Rooted(Ids(w))' = Rooted(uid)' /\ Mixed(Ids(w))' = Mixed(uid)'
    <3> HIDE DEF IInv, Commit, Over, Unredone
    <3>1. QED
      BY <1>6 DEF Rooted, Mixed
  <2>5. QED
    BY <2>1, <2>2, <2>3, <2>4
<1>9. QED
  BY <1>2, <1>4, <1>7, <1>8

LEMMA FailInv ==
    ASSUME IInv, NEW w \in Linkers, Fail(w)
    PROVE  IInv'
<1> USE DEF IInv, Fail, Over, history
<1>1. TypeOK'
  BY LinkAssumption DEF TypeOK, Unwritten
<1>2. \A v \in Linkers, s \in Sightings :
          /\ wrote'[v][s] = IF v = w THEN Kept ELSE wrote[v][s]
          /\ todo'[v] = IF v = w THEN {} ELSE todo[v]
  BY DEF TypeOK, Unwritten
<1>3. IdsStored'
  BY <1>2 DEF IdsStored
<1>4. plate' = plate /\ \A s, t : SamePlate(s, t)' = SamePlate(s, t)
  BY SameColumns
<1>5. /\ OneEach(uid)' = OneEach(uid) /\ Mixed(uid)' = Mixed(uid) /\ Rooted(uid)' = Rooted(uid)
  BY <1>4 DEF OneEach, Mixed, Rooted
<1>6. Ids(w)' = uid'
  BY <1>1, OverView DEF TypeOK
<1>8. \A v \in Linkers \ {w} : Ids(v)' = Ids(v)
  BY SameIds DEF TypeOK
<1>9. \A v \in Linkers \ {w} : /\ OneEach(Ids(v))' = OneEach(Ids(v))
                               /\ Mixed(Ids(v))' = Mixed(Ids(v))
                               /\ Rooted(Ids(v))' = Rooted(Ids(v))
  BY <1>4, <1>8 DEF OneEach, Mixed, Rooted
<1>10. /\ OneEach(Ids(w))' = OneEach(uid)' /\ Mixed(Ids(w))' = Mixed(uid)'
       /\ Rooted(Ids(w))' = Rooted(uid)'
  BY <1>6 DEF OneEach, Mixed, Rooted
<1>11. Ordered'
  <2>1. LinkedAlone => LinkedAlone'
    BY <1>2 DEF LinkedAlone, HasLinked
  <2>2. QED
    BY <1>5, <1>9, <1>10, <2>1 DEF Ordered
<1>12. Unredone'
  <2>1. LinkedOnce => LinkedOnce'
    BY <1>2 DEF LinkedOnce
  <2>2. QED
    BY <1>5, <1>9, <1>10, <2>1 DEF Unredone
<1>13. QED
  BY <1>1, <1>3, <1>11, <1>12

LEMMA StutterInv ==
    ASSUME IInv, UNCHANGED vars
    PROVE  IInv'
<1> USE DEF IInv, vars, history
<1>1. TypeOK' /\ IdsStored'
  BY DEF TypeOK, IdsStored
<1>2. plate' = plate /\ \A s, t : SamePlate(s, t)' = SamePlate(s, t)
  BY SameColumns
<1>3. \A w \in Linkers : Ids(w)' = Ids(w)
  BY SameIds
<1>4. Ordered' /\ Unredone'
  BY <1>2, <1>3 DEF Ordered, LinkedAlone, HasLinked, Unredone, LinkedOnce, OneEach, Mixed, Rooted
<1>5. QED
  BY <1>1, <1>4

-------------------------------------------------------------------------------
LEMMA NextInv == IInv /\ [Next]_vars => IInv'
<1> SUFFICES ASSUME IInv, [Next]_vars PROVE IInv'
  OBVIOUS
<1>1. CASE UNCHANGED vars
  BY <1>1, StutterInv
<1>2. ASSUME NEW w \in Linkers,
             \/ Write(w) \/ Relink(w) \/ Commit(w) \/ Fail(w)
             \/ \E n \in Sightings : LinkOne(w, n)
      PROVE  IInv'
  BY <1>2, WriteInv, RelinkInv, LinkOneInv, CommitInv, FailInv
<1>3. QED
  BY <1>1, <1>2 DEF Next

\* The inductive invariant of the ids and the open transactions.
THEOREM LinksInvariant == Spec => []IInv
<1>1. QED
  BY InitInv, NextInv, PTL DEF Spec

\* The ids and the transactions keep their types.
THEOREM LinksTyped == Spec => []TypeOK
<1>1. IInv => TypeOK
  BY DEF IInv
<1>2. QED
  BY <1>1, LinksInvariant, PTL

\* SamePlateOneVehicle: links made alone, in order of time and in no crowd give one
\* plate one id within the window, with failed batches, looks alike and relinked
\* windows between, and whichever rows the query's limit leaves.
THEOREM PlateKeepsId == Spec => []SamePlateOneVehicle
<1>1. IInv => SamePlateOneVehicle
  BY DEF IInv, Ordered, OneEach, SamePlateOneVehicle
<1>2. QED
  BY <1>1, LinksInvariant, PTL

\* FusedByUnread: without relink, two plates have one id only through an unread
\* sighting, however many transactions link at once and whichever fail.
THEOREM PlatesFusedByUnread == Spec => []FusedByUnread
<1>1. IInv => FusedByUnread
  BY DEF IInv, Unredone, Mixed, FusedByUnread
<1>2. QED
  BY <1>1, LinksInvariant, PTL

-------------------------------------------------------------------------------
(* Induction, recursion and sequences                                       *)

\* Induction on the naturals, for a set.
LEMMA Induction ==
    ASSUME NEW S, 0 \in S, \A n \in Nat : n \in S => n + 1 \in S
    PROVE  Nat \subseteq S
<1> SUFFICES ASSUME Nat \ S # {} PROVE FALSE
  OBVIOUS
<1>1. PICK m \in Nat \ S : \A n \in Nat \ S : ~(<<n, m>> \in OpToRel(<, Nat))
  BY NatLessThanWellFounded, WFMin, Zenon
<1>2. \A n \in Nat \ S : ~(n < m)
  BY <1>1 DEF OpToRel
<1>3. m # 0 /\ m - 1 \in Nat /\ m = (m - 1) + 1
  OBVIOUS
<1>4. m - 1 \in S
  BY <1>2, <1>3
<1>5. (m - 1) + 1 \in S
  BY <1>3, <1>4
<1> QED
  BY <1>3, <1>5


\* f is given by recursion: its value at n is the step at n from its value at n - 1.
Recurs(f, N, V, base, step) ==
    /\ f \in [0..N -> V]
    /\ f[0] = base
    /\ \A n \in 1..N : f[n - 1] \in V /\ f[n] = step[n][f[n - 1]]

\* Recursion on 0..N gives a function.
LEMMA Recursion ==
    ASSUME NEW N \in Nat, NEW V, NEW base \in V, NEW step \in [1..N -> [V -> V]]
    PROVE  \E f : Recurs(f, N, V, base, step)
<1> DEFINE S == {m \in Nat : m <= N => \E f : Recurs(f, m, V, base, step)}
<1>1. 0 \in S
  <2>1. Recurs([n \in 0..0 |-> base], 0, V, base, step)
    BY DEF Recurs
  <2> QED
    BY <2>1
<1>2. ASSUME NEW m \in Nat, m \in S PROVE m + 1 \in S
  <2> SUFFICES ASSUME m + 1 <= N PROVE \E f : Recurs(f, m + 1, V, base, step)
    OBVIOUS
  <2>1. PICK f : Recurs(f, m, V, base, step)
    BY <1>2
  <2>2. f \in [0..m -> V] /\ f[0] = base
    BY <2>1 DEF Recurs
  <2> DEFINE g == [n \in 0..(m + 1) |-> IF n <= m THEN f[n] ELSE step[m + 1][f[m]]]
  <2>3. g \in [0..(m + 1) -> V]
    BY <2>2
  <2>4. ASSUME NEW n \in 1..(m + 1) PROVE g[n - 1] \in V /\ g[n] = step[n][g[n - 1]]
    <3>1. g[n - 1] = f[n - 1] /\ f[n - 1] \in V
      BY <2>2
    <3>2. g[n] = IF n <= m THEN f[n] ELSE step[m + 1][f[m]]
      OBVIOUS
    <3>3. n <= m => f[n] = step[n][f[n - 1]]
      BY <2>1 DEF Recurs
    <3>4. ~(n <= m) => n = m + 1 /\ n - 1 = m
      OBVIOUS
    <3> QED
      BY <3>1, <3>2, <3>3, <3>4
  <2>5. 0 \in 0..(m + 1) /\ 0 <= m /\ g[0] = base
    BY <2>2
  <2> HIDE DEF g
  <2>6. Recurs(g, m + 1, V, base, step)
    BY <2>3, <2>4, <2>5, Zenon DEF Recurs
  <2> QED
    BY <2>6
<1> HIDE DEF S
<1>3. N \in S
  BY <1>1, <1>2, Induction
<1> QED
  BY <1>3 DEF S

\* Induction up to N.
LEMMA Counting ==
    ASSUME NEW N \in Nat, NEW S, 0 \in S, \A n \in 1..N : n - 1 \in S => n \in S
    PROVE  0..N \subseteq S
<1> DEFINE T == {n \in Nat : n <= N => n \in S}
<1>1. 0 \in T
  OBVIOUS
<1>2. ASSUME NEW n \in Nat, n \in T PROVE n + 1 \in T
  <2> SUFFICES ASSUME n + 1 <= N PROVE n + 1 \in S
    OBVIOUS
  <2>1. n + 1 \in 1..N /\ (n + 1) - 1 \in S
    BY <1>2
  <2> QED
    BY <2>1
<1> HIDE DEF T
<1>3. Nat \subseteq T
  BY <1>1, <1>2, Induction
<1> QED
  BY <1>3 DEF T


\* f flattens the sequences of s one after the other.
Flattens(f, s, R) ==
    /\ f[0] = <<>>
    /\ \A n \in 0..Len(s) : f[n] \in Seq(R)
    /\ \A n \in 1..Len(s) : f[n - 1] \in Seq(R) /\ f[n] = f[n - 1] \o s[n]

LEMMA FlattenSum ==
    ASSUME NEW R, NEW s \in Seq(Seq(R))
    PROVE  \E f : Flattens(f, s, R) /\ FlattenSeq(s) = f[Len(s)]
<1> DEFINE V == Seq(R)
           N == Len(s)
           step == [n \in 1..N |-> [v \in V |-> v \o s[n]]]
           Is(f) == f = [i \in 1..N |-> IF i = 1 THEN s[i] ELSE f[i - 1] \o s[i]]
           c == CHOOSE f : Is(f)
<1>0. /\ N \in Nat /\ <<>> \in V
      /\ \A n \in 1..N : s[n] \in V /\ {n, n - 1} \subseteq 0..N /\ (n = 1 => n - 1 = 0) /\ (n # 1 => n - 1 \in 1..N)
  BY EmptySeq, ElementOfSeq
<1>1. step \in [1..N -> [V -> V]]
  BY <1>0, ConcatProperties
<1>2. \E f : Recurs(f, N, V, <<>>, step)
  <2>1. N \in Nat /\ <<>> \in V
    BY <1>0
  <2> HIDE DEF step, V, N
  <2> QED
    BY <1>1, <2>1, Recursion
<1>3. PICK f : Recurs(f, N, V, <<>>, step)
  BY <1>2
<1>4. Flattens(f, s, R)
  <2>1. \A n \in 1..N : f[n - 1] \in V /\ f[n] = step[n][f[n - 1]]
    BY <1>3 DEF Recurs
  <2>2. \A n \in 1..N : f[n - 1] \in V /\ f[n] = f[n - 1] \o s[n]
    BY <2>1, Zenon
  <2>3. f[0] = <<>> /\ \A n \in 0..N : f[n] \in V
    BY <1>3 DEF Recurs
  <2> QED
    BY <2>2, <2>3, Zenon DEF Flattens
<1>5. f[0] = <<>> /\ \A n \in 1..N : f[n] \in V /\ f[n] = f[n - 1] \o s[n]
  <2>1. \A n \in 1..N : n \in 0..N
    BY <1>0
  <2> QED
    BY <1>4, <2>1, Zenon DEF Flattens
<1>6. \A n \in 1..N : n = 1 => f[n] = s[n]
  <2> SUFFICES ASSUME NEW n \in 1..N, n = 1 PROVE f[n] = s[n]
    OBVIOUS
  <2>1. n - 1 = 0 /\ s[n] \in Seq(R)
    BY <1>0
  <2>2. f[n] = <<>> \o s[n]
    BY <1>5, <2>1, Zenon
  <2> QED
    BY <2>1, <2>2, ConcatEmptySeq, Zenon
<1>7. Is([i \in 1..N |-> f[i]])
  <2> DEFINE h == [i \in 1..N |-> f[i]]
  <2>1. ASSUME NEW i \in 1..N PROVE h[i] = IF i = 1 THEN s[i] ELSE h[i - 1] \o s[i]
    <3>1. h[i] = f[i] /\ (i # 1 => h[i - 1] = f[i - 1])
      BY <1>0, Zenon
    <3> QED
      BY <1>5, <1>6, <3>1, Zenon
  <2> HIDE DEF h
  <2>2. h = [i \in 1..N |-> h[i]]
    BY DEF h
  <2>3. Is(h)
    BY <2>1, <2>2, Zenon
  <2> QED
    BY <2>3 DEF h
<1>8. Is(c)
  <2> HIDE DEF Is
  <2> QED
    BY <1>7
<1>9. FlattenSeq(s) = IF Len(s) = 0 THEN s ELSE c[Len(s)]
  BY DEF FlattenSeq
<1> HIDE DEF c
<1>10. ASSUME NEW i \in 1..N PROVE c[i] = IF i = 1 THEN s[i] ELSE c[i - 1] \o s[i]
  BY <1>8, Zenon
<1> DEFINE S == {n \in 0..N : n # 0 => c[n] = f[n]}
<1>11. 0..N \subseteq S
  <2>1. ASSUME NEW n \in 1..N, n - 1 \in S PROVE n \in S
    <3>1. n \in 0..N
      OBVIOUS
    <3>2. n = 1 => c[n] = f[n]
      BY <1>6, <1>10, Zenon
    <3>3. n # 1 => n - 1 # 0
      OBVIOUS
    <3>4. n # 1 => c[n] = f[n]
      BY <1>5, <1>10, <2>1, <3>3, Zenon
    <3> QED
      BY <3>1, <3>2, <3>4, Zenon
  <2>2. 0 \in S
    BY <1>0
  <2>3. N \in Nat
    BY <1>0
  <2> HIDE DEF S, N
  <2> QED
    BY <2>1, <2>2, <2>3, Counting
<1>12. FlattenSeq(s) = f[Len(s)]
  <2>1. CASE N = 0
    <3>1. s = <<>>
      BY <2>1, EmptySeq
    <3> QED
      BY <1>5, <1>9, <2>1, <3>1
  <2>2. CASE N # 0
    <3>1. N \in 0..N
      BY <1>0
    <3> QED
      BY <1>9, <1>11, <2>2, <3>1, Zenon
  <2> QED
    BY <2>1, <2>2
<1> QED
  BY <1>4, <1>12

\* One sequence more at the end is one more to go through.
LEMMA FlattenAppend ==
    ASSUME NEW R, NEW s \in Seq(Seq(R)), NEW x \in Seq(R)
    PROVE  /\ FlattenSeq(s) \in Seq(R)
           /\ FlattenSeq(Append(s, x)) = FlattenSeq(s) \o x
<1> DEFINE t == Append(s, x)
           N == Len(s)
<1>0. N \in Nat /\ t \in Seq(Seq(R)) /\ Len(t) = N + 1 /\ t[N + 1] = x
         /\ \A i \in 1..N : t[i] = s[i]
  BY AppendProperties
<1>1. PICK f : Flattens(f, s, R) /\ FlattenSeq(s) = f[N]
  BY FlattenSum
<1>2. t \in Seq(Seq(R))
  BY <1>0
<1> HIDE DEF t
<1>3. PICK g : Flattens(g, t, R) /\ FlattenSeq(t) = g[Len(t)]
  BY <1>2, FlattenSum
<1> DEFINE S == {n \in 0..N : g[n] = f[n]}
<1>4. 0..N \subseteq S
  <2>1. ASSUME NEW n \in 1..N, n - 1 \in S PROVE n \in S
    <3>1. n \in 1..Len(t) /\ n \in 0..N /\ t[n] = s[n]
      BY <1>0
    <3>2. f[n] = f[n - 1] \o s[n] /\ g[n] = g[n - 1] \o t[n]
      BY <1>1, <1>3, <3>1, Zenon DEF Flattens
    <3> QED
      BY <2>1, <3>1, <3>2, Zenon
  <2>2. 0 \in S
    <3>1. f[0] = <<>> /\ g[0] = <<>>
      BY <1>1, <1>3, Zenon DEF Flattens
    <3> QED
      BY <1>0, <3>1
  <2>3. N \in Nat
    BY <1>0
  <2> HIDE DEF S, N
  <2> QED
    BY <2>1, <2>2, <2>3, Counting
<1>5. N \in 0..N /\ (N + 1) - 1 = N /\ N + 1 \in 1..Len(t) /\ Len(t) = N + 1
  BY <1>0
<1>6. g[N] = f[N]
  BY <1>4, <1>5, Zenon
<1>7. g[N + 1] = g[(N + 1) - 1] \o t[N + 1]
  BY <1>3, <1>5, Zenon DEF Flattens
<1>8. FlattenSeq(t) = FlattenSeq(s) \o x
  BY <1>0, <1>1, <1>3, <1>5, <1>6, <1>7, Zenon
<1>9. FlattenSeq(s) \in Seq(R)
  BY <1>1, <1>5, Zenon DEF Flattens
<1> QED
  BY <1>8, <1>9 DEF t

LEMMA FlattenEmpty == FlattenSeq(<<>>) = <<>>
  BY DEF FlattenSeq

\* A sequence is its front and its last element.
LEMMA FrontLast ==
    ASSUME NEW S, NEW s \in Seq(S), s # <<>>
    PROVE  /\ Front(s) \in Seq(S) /\ Last(s) \in S
           /\ Len(s) \in Nat \ {0} /\ Len(Front(s)) = Len(s) - 1
           /\ \A i \in 1..(Len(s) - 1) : Front(s)[i] = s[i]
           /\ s = Append(Front(s), Last(s))
<1>1. Len(s) \in Nat \ {0} /\ \A i \in 1..Len(s) : s[i] \in S
  BY EmptySeq, ElementOfSeq
<1>2. /\ Front(s) \in Seq(S) /\ Len(Front(s)) = Len(s) - 1
      /\ \A i \in 1..(Len(s) - 1) : Front(s)[i] = s[i]
  <2>1. \A i \in 1..(Len(s) - 1) : s[i] \in S
    BY <1>1
  <2>2. 1 \in Int /\ Len(s) - 1 \in Int
    BY <1>1
  <2>3. /\ SubSeq(s, 1, Len(s) - 1) \in Seq(S)
        /\ Len(SubSeq(s, 1, Len(s) - 1)) = IF 1 <= Len(s) - 1 THEN (Len(s) - 1) - 1 + 1 ELSE 0
        /\ \A i \in 1..((Len(s) - 1) - 1 + 1) : SubSeq(s, 1, Len(s) - 1)[i] = s[1 + i - 1]
    BY <2>1, <2>2, SubSeqProperties
  <2>4. (Len(s) - 1) - 1 + 1 = Len(s) - 1 /\ \A i \in 1..(Len(s) - 1) : 1 + i - 1 = i
    BY <1>1
  <2>5. ~(1 <= Len(s) - 1) => Len(s) - 1 = 0
    BY <1>1
  <2> QED
    BY <2>3, <2>4, <2>5, Zenon DEF Front
<1>3. Last(s) \in S
  BY <1>1 DEF Last
<1>4. s = Append(Front(s), Last(s))
  <2>1. Append(Front(s), Last(s)) \in Seq(S) /\ Len(Append(Front(s), Last(s))) = Len(s)
    BY <1>1, <1>2, <1>3, AppendProperties
  <2>2. ASSUME NEW i \in 1..Len(s) PROVE s[i] = Append(Front(s), Last(s))[i]
    BY <1>1, <1>2, <1>3 DEF Last
  <2> QED
    BY <2>1, <2>2, SeqEqual
<1> QED
  BY <1>1, <1>2, <1>3, <1>4

-------------------------------------------------------------------------------
(* The loops over the rows and the visits                                   *)

Stations == {c \in DOMAIN Place : Place[c] # Unplaced}

VisitRecord == [camera : Stations, first : Int, last : Int, rows : Seq(Row)]

\* What Merged does to visits is a visit more, or one row more in the last visit.
LEMMA MergedTyped ==
    ASSUME NEW visits \in Seq(VisitRecord), NEW r \in Row
    PROVE  Merged(visits, r) \in Seq(VisitRecord)
<1>1. CASE ~HasPlace(r)
  BY <1>1 DEF Merged
<1>2. CASE HasPlace(r) /\ Revisits(visits, r)
  <2>1. Front(visits) \in Seq(VisitRecord) /\ Last(visits) \in VisitRecord
    BY <1>2, FrontLast DEF Revisits
  <2>2. Append(Last(visits).rows, r) \in Seq(Row)
    BY <2>1, AppendProperties DEF VisitRecord
  <2>3. Extended(Last(visits), r) \in VisitRecord
    BY <2>1, <2>2 DEF VisitRecord, Extended, Row
  <2> QED
    BY <1>2, <2>1, <2>3, AppendProperties DEF Merged
<1>3. CASE HasPlace(r) /\ ~Revisits(visits, r)
  <2>1. <<r>> \in Seq(Row)
    OBVIOUS
  <2>2. VisitOf(r) \in VisitRecord
    BY <1>3, <2>1 DEF VisitRecord, VisitOf, Row, Stations, HasPlace
  <2> QED
    BY <1>3, <2>2, AppendProperties DEF Merged
<1> QED
  BY <1>1, <1>2, <1>3

\* f collects the visits of the rows, one row after the other.
Collapses(f, rows) ==
    /\ f[0] = <<>>
    /\ \A n \in 0..Len(rows) : f[n] \in Seq(VisitRecord)
    /\ \A n \in 1..Len(rows) : f[n] = Merged(f[n - 1], rows[n])

LEMMA VisitsCollapse ==
    ASSUME NEW rows \in Seq(Row)
    PROVE  \E f : Collapses(f, rows) /\ Visits(rows) = f[Len(rows)]
<1> DEFINE V == Seq(VisitRecord)
           N == Len(rows)
           step == [n \in 1..N |-> [v \in V |-> Merged(v, rows[n])]]
           Is(f) == f = [n \in 0..N |-> IF n = 0 THEN <<>> ELSE Merged(f[n - 1], rows[n])]
           c == CHOOSE f : Is(f)
<1>0. /\ N \in Nat /\ <<>> \in V
      /\ \A n \in 1..N : rows[n] \in Row /\ n \in 0..N
      /\ \A n \in 0..N : n # 0 => n \in 1..N
  BY EmptySeq, ElementOfSeq
<1>1. step \in [1..N -> [V -> V]]
  BY <1>0, MergedTyped
<1>2. \E f : Recurs(f, N, V, <<>>, step)
  <2>1. N \in Nat /\ <<>> \in V
    BY <1>0
  <2> HIDE DEF step, V, N
  <2> QED
    BY <1>1, <2>1, Recursion
<1>3. PICK f : Recurs(f, N, V, <<>>, step)
  BY <1>2
<1>4. f[0] = <<>> /\ \A n \in 1..N : f[n - 1] \in V /\ f[n] = Merged(f[n - 1], rows[n])
  <2>1. f[0] = <<>> /\ \A n \in 1..N : f[n - 1] \in V /\ f[n] = step[n][f[n - 1]]
    BY <1>3 DEF Recurs
  <2> QED
    BY <2>1, Zenon
<1>5. Is(f)
  <2>1. f = [n \in 0..N |-> f[n]]
    BY <1>3 DEF Recurs
  <2>2. \A n \in 0..N : f[n] = IF n = 0 THEN <<>> ELSE Merged(f[n - 1], rows[n])
    BY <1>0, <1>4, Zenon
  <2> QED
    BY <2>1, <2>2, Zenon
<1>6. Is(c)
  <2> HIDE DEF Is
  <2> QED
    BY <1>5
<1>7. Visits(rows) = c[N]
  BY DEF Visits, Collected
<1> HIDE DEF c
<1>8. c[0] = <<>> /\ \A n \in 1..N : c[n] = Merged(c[n - 1], rows[n])
  <2>1. 0 \in 0..N /\ \A n \in 1..N : n \in 0..N /\ n # 0
    BY <1>0
  <2> QED
    BY <1>6, <2>1, Zenon
<1> DEFINE S == {n \in 0..N : c[n] \in V}
<1>9. 0..N \subseteq S
  <2>1. ASSUME NEW n \in 1..N, n - 1 \in S PROVE n \in S
    BY <1>0, <1>8, <2>1, MergedTyped, Zenon
  <2>2. 0 \in S
    <3>1. 0 \in 0..N
      BY <1>0
    <3> QED
      BY <1>0, <1>8, <3>1, Zenon
  <2>3. N \in Nat
    BY <1>0
  <2> HIDE DEF S, N
  <2> QED
    BY <2>1, <2>2, <2>3, Counting
<1>10. Collapses(c, rows)
  BY <1>8, <1>9, Zenon DEF Collapses
<1> QED
  BY <1>7, <1>10

\* f keeps the rows that have a place, one row after the other.
Keeps(f, rows) ==
    /\ f[0] = <<>>
    /\ \A n \in 0..Len(rows) : f[n] \in Seq(Row)
    /\ \A n \in 1..Len(rows) :
          f[n] = IF HasPlace(rows[n]) THEN Append(f[n - 1], rows[n]) ELSE f[n - 1]

LEMMA PlacedKeeps ==
    ASSUME NEW rows \in Seq(Row)
    PROVE  \E f : Keeps(f, rows) /\ Placed(rows) = f[Len(rows)]
<1> DEFINE V == Seq(Row)
           N == Len(rows)
           KeptWith(v, n) == IF HasPlace(rows[n]) THEN Append(v, rows[n]) ELSE v
           step == [n \in 1..N |-> [v \in V |-> KeptWith(v, n)]]
           Is(f) == f = [n \in 0..N |-> IF n = 0 THEN <<>> ELSE KeptWith(f[n - 1], n)]
           c == CHOOSE f : Is(f)
<1>0. /\ N \in Nat /\ <<>> \in V /\ 0 \in 0..N
      /\ \A n \in 1..N : rows[n] \in Row /\ n \in 0..N /\ n # 0
      /\ \A n \in 0..N : n # 0 => n \in 1..N
  BY EmptySeq, ElementOfSeq
<1>1. \A v \in V, n \in 1..N : KeptWith(v, n) \in V
  BY <1>0, AppendProperties
<1>2. step \in [1..N -> [V -> V]]
  BY <1>1
<1>3. \E f : Recurs(f, N, V, <<>>, step)
  <2>1. N \in Nat /\ <<>> \in V
    BY <1>0
  <2> HIDE DEF step, V, N
  <2> QED
    BY <1>2, <2>1, Recursion
<1>4. PICK f : Recurs(f, N, V, <<>>, step)
  BY <1>3
<1>5. Placed(rows) = c[N]
  BY DEF Placed, Collected
<1> HIDE DEF KeptWith
<1>6. f[0] = <<>> /\ \A n \in 1..N : f[n - 1] \in V /\ f[n] = KeptWith(f[n - 1], n)
  <2>1. f[0] = <<>> /\ \A n \in 1..N : f[n - 1] \in V /\ f[n] = step[n][f[n - 1]]
    BY <1>4 DEF Recurs
  <2> QED
    BY <2>1, Zenon
<1>7. Is(f)
  <2>1. f = [n \in 0..N |-> f[n]]
    BY <1>4 DEF Recurs
  <2>2. \A n \in 0..N : f[n] = IF n = 0 THEN <<>> ELSE KeptWith(f[n - 1], n)
    BY <1>0, <1>6, Zenon
  <2> QED
    BY <2>1, <2>2, Zenon
<1>8. Is(c)
  <2> HIDE DEF Is
  <2> QED
    BY <1>7
<1> HIDE DEF c
<1>9. c[0] = <<>> /\ \A n \in 1..N : c[n] = KeptWith(c[n - 1], n)
  BY <1>0, <1>8, Zenon
<1> DEFINE S == {n \in 0..N : c[n] \in V}
<1>10. 0..N \subseteq S
  <2>1. ASSUME NEW n \in 1..N, n - 1 \in S PROVE n \in S
    BY <1>0, <1>9, <1>1, <2>1, Zenon
  <2>2. 0 \in S
    BY <1>0, <1>9, Zenon
  <2>3. N \in Nat
    BY <1>0
  <2> HIDE DEF S, N
  <2> QED
    BY <2>1, <2>2, <2>3, Counting
<1>11. Keeps(c, rows)
  BY <1>9, <1>10, Zenon DEF Keeps, KeptWith
<1> QED
  BY <1>5, <1>11

\* f splits the visits into legs, one visit after the other.
Splits(f, visits, hops) ==
    /\ f[0] = <<>>
    /\ \A n \in 0..Len(visits) : f[n] \in Seq(Seq(VisitRecord))
    /\ \A n \in 1..Len(visits) :
          f[n] = IF f[n - 1] # <<>> /\ hops[n - 1].plausible
                 THEN Append(Front(f[n - 1]), Append(Last(f[n - 1]), visits[n]))
                 ELSE Append(f[n - 1], <<visits[n]>>)

LEMMA LegsSplit ==
    ASSUME NEW visits \in Seq(VisitRecord), NEW hops
    PROVE  \E f : Splits(f, visits, hops) /\ Legs(visits, hops) = f[Len(visits)]
<1> DEFINE V == Seq(Seq(VisitRecord))
           N == Len(visits)
           LegsWith(v, n) == IF v # <<>> /\ hops[n - 1].plausible
                             THEN Append(Front(v), Append(Last(v), visits[n]))
                             ELSE Append(v, <<visits[n]>>)
           step == [n \in 1..N |-> [v \in V |-> LegsWith(v, n)]]
           Is(f) == f = [n \in 0..N |-> IF n = 0 THEN <<>> ELSE LegsWith(f[n - 1], n)]
           c == CHOOSE f : Is(f)
<1>0. /\ N \in Nat /\ <<>> \in V /\ 0 \in 0..N
      /\ \A n \in 1..N : visits[n] \in VisitRecord /\ n \in 0..N /\ n # 0
      /\ \A n \in 0..N : n # 0 => n \in 1..N
  BY EmptySeq, ElementOfSeq
<1>1. ASSUME NEW v \in V, NEW n \in 1..N PROVE LegsWith(v, n) \in V
  <2>1. <<visits[n]>> \in Seq(VisitRecord)
    BY <1>0
  <2>2. Append(v, <<visits[n]>>) \in V
    BY <2>1, AppendProperties
  <2>3. ASSUME v # <<>> PROVE Append(Front(v), Append(Last(v), visits[n])) \in V
    <3>1. Front(v) \in V /\ Last(v) \in Seq(VisitRecord)
      BY <2>3, FrontLast
    <3>2. Append(Last(v), visits[n]) \in Seq(VisitRecord)
      BY <1>0, <3>1, AppendProperties
    <3> QED
      BY <3>1, <3>2, AppendProperties
  <2> QED
    BY <2>2, <2>3
<1>2. Legs(visits, hops) = c[N]
  BY DEF Legs, Collected
<1> HIDE DEF LegsWith
<1>3. step \in [1..N -> [V -> V]]
  BY <1>1
<1>4. \E f : Recurs(f, N, V, <<>>, step)
  <2>1. N \in Nat /\ <<>> \in V
    BY <1>0
  <2> HIDE DEF step, V, N
  <2> QED
    BY <1>3, <2>1, Recursion
<1>5. PICK f : Recurs(f, N, V, <<>>, step)
  BY <1>4
<1>6. f[0] = <<>> /\ \A n \in 1..N : f[n - 1] \in V /\ f[n] = LegsWith(f[n - 1], n)
  <2>1. f[0] = <<>> /\ \A n \in 1..N : f[n - 1] \in V /\ f[n] = step[n][f[n - 1]]
    BY <1>5 DEF Recurs
  <2> QED
    BY <2>1, Zenon
<1>7. Is(f)
  <2>1. f = [n \in 0..N |-> f[n]]
    BY <1>5 DEF Recurs
  <2>2. \A n \in 0..N : f[n] = IF n = 0 THEN <<>> ELSE LegsWith(f[n - 1], n)
    BY <1>0, <1>6, Zenon
  <2> QED
    BY <2>1, <2>2, Zenon
<1>8. Is(c)
  <2> HIDE DEF Is
  <2> QED
    BY <1>7
<1> HIDE DEF c
<1>9. c[0] = <<>> /\ \A n \in 1..N : c[n] = LegsWith(c[n - 1], n)
  BY <1>0, <1>8, Zenon
<1> DEFINE S == {n \in 0..N : c[n] \in V}
<1>10. 0..N \subseteq S
  <2>1. ASSUME NEW n \in 1..N, n - 1 \in S PROVE n \in S
    BY <1>0, <1>9, <1>1, <2>1, Zenon
  <2>2. 0 \in S
    BY <1>0, <1>9, Zenon
  <2>3. N \in Nat
    BY <1>0
  <2> HIDE DEF S, N
  <2> QED
    BY <2>1, <2>2, <2>3, Counting
<1>11. Splits(c, visits, hops)
  BY <1>9, <1>10, Zenon DEF Splits, LegsWith
<1> QED
  BY <1>2, <1>11

-------------------------------------------------------------------------------
(* No row is dropped                                                        *)

AllRows(legs) == FlattenSeq([i \in DOMAIN legs |-> RowsOf(legs[i])])

\* To map a sequence is to map its elements.
Mapped(g, s) == [i \in DOMAIN s |-> g[s[i]]]

Maps(g, S, R) == g \in [S -> R]

LEMMA MapTyped ==
    ASSUME NEW S, NEW R, NEW g, Maps(g, S, R), NEW s \in Seq(S)
    PROVE  Mapped(g, s) \in Seq(R) /\ Len(Mapped(g, s)) = Len(s)
<1>1. Len(s) \in Nat /\ DOMAIN s = 1..Len(s) /\ \A i \in 1..Len(s) : s[i] \in S
  BY LenProperties, ElementOfSeq
<1> DEFINE m == [i \in 1..Len(s) |-> g[s[i]]]
<1>2. m \in [1..Len(s) -> R]
  BY <1>1 DEF Maps
<1>3. m \in Seq(R) /\ Len(m) = Len(s)
  <2> HIDE DEF m
  <2> QED
    BY <1>1, <1>2
<1> QED
  BY <1>1, <1>3, Zenon DEF Mapped

LEMMA MapAppend ==
    ASSUME NEW S, NEW R, NEW g, Maps(g, S, R), NEW s \in Seq(S), NEW x \in S
    PROVE  Mapped(g, Append(s, x)) = Append(Mapped(g, s), g[x])
<1> DEFINE q == Append(s, x)
           u == Mapped(g, q)
           m == Mapped(g, s)
           w == Append(m, g[x])
<1>1. q \in Seq(S) /\ Len(q) = Len(s) + 1 /\ Len(s) \in Nat /\ q[Len(s) + 1] = x
         /\ \A i \in 1..Len(s) : q[i] = s[i]
  BY AppendProperties
<1>2. m \in Seq(R) /\ Len(m) = Len(s) /\ g[x] \in R
  <2>1. Mapped(g, s) \in Seq(R) /\ Len(Mapped(g, s)) = Len(s)
    BY MapTyped
  <2>2. g[x] \in R
    BY DEF Maps
  <2> QED
    BY <2>1, <2>2
<1>3. w \in Seq(R) /\ Len(w) = Len(s) + 1 /\ w[Len(s) + 1] = g[x]
         /\ \A i \in 1..Len(s) : w[i] = m[i]
  <2> HIDE DEF m
  <2> QED
    BY <1>2, AppendProperties
<1>4. u \in Seq(R) /\ Len(u) = Len(s) + 1
  <2>1. q \in Seq(S)
    BY <1>1
  <2> HIDE DEF q
  <2>2. Mapped(g, q) \in Seq(R) /\ Len(Mapped(g, q)) = Len(q)
    BY <2>1, MapTyped
  <2> QED
    BY <1>1, <2>2
<1>5. DOMAIN q = 1..(Len(s) + 1) /\ DOMAIN s = 1..Len(s)
  BY <1>1, LenProperties
<1>6. ASSUME NEW i \in 1..(Len(s) + 1) PROVE u[i] = w[i]
  <2>1. u[i] = g[q[i]]
    BY <1>5, Zenon DEF Mapped
  <2>2. CASE i = Len(s) + 1
    BY <1>1, <1>3, <2>1, <2>2, Zenon
  <2>3. CASE i # Len(s) + 1
    <3>1. i \in 1..Len(s)
      BY <1>1, <2>3
    <3>2. w[i] = m[i] /\ m[i] = g[s[i]] /\ q[i] = s[i]
      BY <1>1, <1>3, <1>5, <3>1, Zenon DEF Mapped
    <3> QED
      BY <2>1, <3>2, Zenon
  <2> QED
    BY <2>2, <2>3
<1> HIDE DEF u, w
<1>7. u = w
  BY <1>3, <1>4, <1>6, SeqEqual
<1> QED
  BY <1>7 DEF u, w

LEMMA FlattenMap ==
    ASSUME NEW S, NEW R, NEW g \in [S -> Seq(R)], NEW s \in Seq(S)
    PROVE  /\ FlattenSeq(Mapped(g, s)) \in Seq(R)
           /\ \A x \in S : FlattenSeq(Mapped(g, Append(s, x))) = FlattenSeq(Mapped(g, s)) \o g[x]
<1>0. Maps(g, S, Seq(R))
  BY DEF Maps
<1>1. Mapped(g, s) \in Seq(Seq(R)) /\ \A x \in S : g[x] \in Seq(R)
  BY <1>0, MapTyped
<1>2. \A x \in S : Mapped(g, Append(s, x)) = Append(Mapped(g, s), g[x])
  BY <1>0, MapAppend
<1>3. FlattenSeq(Mapped(g, s)) \in Seq(R)
  <2>1. <<>> \in Seq(R)
    BY EmptySeq
  <2> QED
    BY <1>1, <2>1, FlattenAppend
<1>4. \A x \in S : FlattenSeq(Append(Mapped(g, s), g[x])) = FlattenSeq(Mapped(g, s)) \o g[x]
  BY <1>1, FlattenAppend
<1> QED
  BY <1>2, <1>3, <1>4, Zenon

\* The rows of one visit more.
LEMMA RowsOfAppend ==
    ASSUME NEW visits \in Seq(VisitRecord)
    PROVE  /\ RowsOf(visits) \in Seq(Row)
           /\ \A v \in VisitRecord : RowsOf(Append(visits, v)) = RowsOf(visits) \o v.rows
<1> DEFINE g == [v \in VisitRecord |-> v.rows]
<1>1. g \in [VisitRecord -> Seq(Row)]
  BY DEF VisitRecord
<1>2. ASSUME NEW q \in Seq(VisitRecord)
      PROVE  RowsOf(q) = FlattenSeq(Mapped(g, q))
  <2>1. \A i \in DOMAIN q : q[i] \in VisitRecord
    BY LenProperties, ElementOfSeq
  <2>2. [i \in DOMAIN q |-> q[i].rows] = [i \in DOMAIN q |-> g[q[i]]]
    BY <2>1
  <2> QED
    BY <2>2, Zenon DEF RowsOf, Mapped
<1> HIDE DEF g
<1>3. /\ FlattenSeq(Mapped(g, visits)) \in Seq(Row)
      /\ \A v \in VisitRecord :
            FlattenSeq(Mapped(g, Append(visits, v)))
               = FlattenSeq(Mapped(g, visits)) \o g[v]
  BY <1>1, FlattenMap
<1>4. \A v \in VisitRecord : Append(visits, v) \in Seq(VisitRecord)
  BY AppendProperties
<1>5. \A v \in VisitRecord : g[v] = v.rows
  BY DEF g
<1> QED
  BY <1>2, <1>3, <1>4, <1>5, Zenon

\* The rows of one leg more.
LEMMA AllRowsAppend ==
    ASSUME NEW legs \in Seq(Seq(VisitRecord))
    PROVE  /\ AllRows(legs) \in Seq(Row)
           /\ \A leg \in Seq(VisitRecord) :
                 AllRows(Append(legs, leg)) = AllRows(legs) \o RowsOf(leg)
<1> DEFINE g == [leg \in Seq(VisitRecord) |-> RowsOf(leg)]
<1>1. g \in [Seq(VisitRecord) -> Seq(Row)]
  BY RowsOfAppend
<1>2. ASSUME NEW q \in Seq(Seq(VisitRecord))
      PROVE  AllRows(q) = FlattenSeq(Mapped(g, q))
  <2>1. \A i \in DOMAIN q : q[i] \in Seq(VisitRecord)
    BY LenProperties, ElementOfSeq
  <2>2. [i \in DOMAIN q |-> RowsOf(q[i])] = [i \in DOMAIN q |-> g[q[i]]]
    BY <2>1
  <2> QED
    BY <2>2, Zenon DEF AllRows, Mapped
<1> HIDE DEF g
<1>3. /\ FlattenSeq(Mapped(g, legs)) \in Seq(Row)
      /\ \A leg \in Seq(VisitRecord) :
            FlattenSeq(Mapped(g, Append(legs, leg)))
               = FlattenSeq(Mapped(g, legs)) \o g[leg]
  BY <1>1, FlattenMap
<1>4. \A leg \in Seq(VisitRecord) : Append(legs, leg) \in Seq(Seq(VisitRecord))
  BY AppendProperties
<1>5. \A leg \in Seq(VisitRecord) : g[leg] = RowsOf(leg)
  BY DEF g
<1> QED
  BY <1>2, <1>3, <1>4, <1>5, Zenon

LEMMA NoRows == RowsOf(<<>>) = <<>> /\ AllRows(<<>>) = <<>>
<1>2. [i \in DOMAIN <<>> |-> <<>>[i].rows] = <<>> /\ [i \in DOMAIN <<>> |-> RowsOf(<<>>[i])] = <<>>
  OBVIOUS
<1> QED
  BY <1>2, FlattenEmpty, Zenon DEF RowsOf, AllRows

\* Row sequences end to end.
LEMMA Associative == \A a, b, c \in Seq(Row) : a \o (b \o c) = (a \o b) \o c
<1> SUFFICES ASSUME NEW a \in Seq(Row), NEW b \in Seq(Row), NEW c \in Seq(Row)
             PROVE  a \o (b \o c) = (a \o b) \o c
  OBVIOUS
<1> QED
  BY ConcatAssociative

\* A row that has a place is the last row of the visits it is merged into.
LEMMA MergedRows ==
    ASSUME NEW visits \in Seq(VisitRecord), NEW r \in Row
    PROVE  RowsOf(Merged(visits, r)) = IF HasPlace(r) THEN Append(RowsOf(visits), r)
                                       ELSE RowsOf(visits)
<1>1. CASE ~HasPlace(r)
  BY <1>1 DEF Merged
<1>2. CASE HasPlace(r) /\ Revisits(visits, r)
  <2> DEFINE front == Front(visits)
             last  == Last(visits)
             longer == Extended(last, r)
  <2>1. front \in Seq(VisitRecord) /\ last \in VisitRecord /\ visits = Append(front, last)
    BY <1>2, FrontLast DEF Revisits
  <2>2. last.rows \in Seq(Row) /\ <<r>> \in Seq(Row) /\ RowsOf(front) \in Seq(Row)
    <3>1. last.rows \in Seq(Row)
      BY <2>1 DEF VisitRecord
    <3> QED
      BY <2>1, <3>1, RowsOfAppend
  <2>3. Append(last.rows, r) \in Seq(Row) /\ Append(last.rows, r) = last.rows \o <<r>>
    BY <2>2, AppendProperties, AppendIsConcat
  <2>4. longer \in VisitRecord /\ longer.rows = Append(last.rows, r)
    BY <2>1, <2>3 DEF VisitRecord, Extended, Row
  <2>5. RowsOf(Merged(visits, r)) = RowsOf(front) \o (last.rows \o <<r>>)
    <3>1. Merged(visits, r) = Append(front, longer)
      BY <1>2 DEF Merged
    <3>2. RowsOf(Append(front, longer)) = RowsOf(front) \o longer.rows
      BY <2>1, <2>4, RowsOfAppend
    <3> QED
      BY <2>3, <2>4, <3>1, <3>2, Zenon
  <2>6. RowsOf(visits) = RowsOf(front) \o last.rows /\ RowsOf(visits) \in Seq(Row)
    BY <2>1, RowsOfAppend
  <2>7. RowsOf(front) \o (last.rows \o <<r>>) = (RowsOf(front) \o last.rows) \o <<r>>
    BY <2>2, Associative, Zenon
  <2>8. Append(RowsOf(visits), r) = RowsOf(visits) \o <<r>>
    BY <2>6, AppendIsConcat
  <2> QED
    BY <1>2, <2>5, <2>6, <2>7, <2>8, Zenon
<1>3. CASE HasPlace(r) /\ ~Revisits(visits, r)
  <2>1. <<r>> \in Seq(Row)
    OBVIOUS
  <2>2. VisitOf(r) \in VisitRecord /\ VisitOf(r).rows = <<r>>
    BY <1>3, <2>1 DEF VisitRecord, VisitOf, Row, Stations, HasPlace
  <2>3. RowsOf(visits) \in Seq(Row) /\ RowsOf(Append(visits, VisitOf(r))) = RowsOf(visits) \o <<r>>
    BY <2>2, RowsOfAppend, Zenon
  <2>4. Append(RowsOf(visits), r) = RowsOf(visits) \o <<r>>
    BY <2>3, AppendIsConcat
  <2> QED
    BY <1>3, <2>3, <2>4, Zenon DEF Merged
<1> QED
  BY <1>1, <1>2, <1>3

\* The visits hold the rows that have a place.
LEMMA VisitsHold ==
    ASSUME NEW rows \in Seq(Row)
    PROVE  Visits(rows) \in Seq(VisitRecord) /\ RowsOf(Visits(rows)) = Placed(rows)
<1> DEFINE N == Len(rows)
<1>1. PICK f : Collapses(f, rows) /\ Visits(rows) = f[N]
  BY VisitsCollapse
<1>2. PICK g : Keeps(g, rows) /\ Placed(rows) = g[N]
  BY PlacedKeeps
<1>3. N \in Nat /\ N \in 0..N /\ 0 \in 0..N /\ \A n \in 1..N : {n, n - 1} \subseteq 0..N /\ rows[n] \in Row
  BY LenProperties, ElementOfSeq
<1> DEFINE S == {n \in 0..N : RowsOf(f[n]) = g[n]}
<1>4. 0..N \subseteq S
  <2>1. ASSUME NEW n \in 1..N, n - 1 \in S PROVE n \in S
    <3>1. f[n - 1] \in Seq(VisitRecord) /\ f[n] = Merged(f[n - 1], rows[n])
      BY <1>1, <1>3, Zenon DEF Collapses
    <3>2. RowsOf(f[n]) = IF HasPlace(rows[n]) THEN Append(g[n - 1], rows[n]) ELSE g[n - 1]
      BY <1>3, <2>1, <3>1, MergedRows, Zenon
    <3> QED
      BY <1>2, <1>3, <3>2, Zenon DEF Keeps
  <2>2. 0 \in S
    BY <1>1, <1>2, <1>3, NoRows, Zenon DEF Collapses, Keeps
  <2>3. N \in Nat
    BY <1>3
  <2> HIDE DEF S, N
  <2> QED
    BY <2>1, <2>2, <2>3, Counting
<1>5. f[N] \in Seq(VisitRecord)
  BY <1>1, <1>3, Zenon DEF Collapses
<1> QED
  BY <1>1, <1>2, <1>3, <1>4, <1>5, Zenon

\* A visit goes to the last leg or to a leg of its own.
LEMMA LegsHold ==
    ASSUME NEW visits \in Seq(VisitRecord), NEW hops
    PROVE  AllRows(Legs(visits, hops)) = RowsOf(visits)
<1> DEFINE N == Len(visits)
           Upto(n) == SubSeq(visits, 1, n)
<1>1. PICK f : Splits(f, visits, hops) /\ Legs(visits, hops) = f[N]
  BY LegsSplit
<1>2. /\ N \in Nat /\ N \in 0..N /\ 0 \in 0..N
      /\ \A n \in 1..N : {n, n - 1} \subseteq 0..N /\ visits[n] \in VisitRecord
  BY LenProperties, ElementOfSeq
<1>3. Upto(0) = <<>> /\ Upto(N) = visits
  BY SubSeqEmpty, SubSeqFull
<1>4. ASSUME NEW n \in 1..N
      PROVE  Upto(n - 1) \in Seq(VisitRecord) /\ Upto(n) = Append(Upto(n - 1), visits[n])
  <2>1. \A i \in 1..(n - 1) : visits[i] \in VisitRecord
    BY <1>2
  <2>2. Upto(n - 1) \in Seq(VisitRecord)
    BY <2>1, SubSeqProperties
  <2>3. Upto(n) = Upto(n - 1) \o <<visits[n]>>
    BY <1>2, SubSeqRecursiveSecond
  <2>4. Append(Upto(n - 1), visits[n]) = Upto(n - 1) \o <<visits[n]>>
    BY <1>2, <2>2, AppendIsConcat
  <2> QED
    BY <2>2, <2>3, <2>4
<1> HIDE DEF Upto
<1> DEFINE S == {n \in 0..N : AllRows(f[n]) = RowsOf(Upto(n))}
<1>5. 0..N \subseteq S
  <2>1. ASSUME NEW n \in 1..N, n - 1 \in S PROVE n \in S
    <3> DEFINE legs == f[n - 1]
               v == visits[n]
               before == RowsOf(Upto(n - 1))
    <3>1. v \in VisitRecord /\ n \in 0..N /\ AllRows(legs) = before
      BY <1>2, <2>1
    <3>2. legs \in Seq(Seq(VisitRecord))
      BY <1>1, <1>2 DEF Splits
    <3>3. RowsOf(Upto(n)) = before \o v.rows /\ before \in Seq(Row) /\ v.rows \in Seq(Row)
      <4>1. v.rows \in Seq(Row)
        BY <3>1 DEF VisitRecord
      <4> QED
        BY <1>4, <3>1, <4>1, RowsOfAppend, Zenon
    <3>4. CASE legs # <<>> /\ hops[n - 1].plausible
      <4> DEFINE leg == Last(legs)
      <4>1. Front(legs) \in Seq(Seq(VisitRecord)) /\ leg \in Seq(VisitRecord)
               /\ legs = Append(Front(legs), leg)
        BY <3>2, <3>4, FrontLast
      <4>2. f[n] = Append(Front(legs), Append(leg, v))
        BY <1>1, <3>4, Zenon DEF Splits
      <4>3. Append(leg, v) \in Seq(VisitRecord)
        BY <3>1, <4>1, AppendProperties
      <4> HIDE DEF leg
      <4>4. AllRows(f[n]) = AllRows(Front(legs)) \o RowsOf(Append(leg, v))
        BY <4>1, <4>2, <4>3, AllRowsAppend, Zenon
      <4>5. RowsOf(Append(leg, v)) = RowsOf(leg) \o v.rows /\ RowsOf(leg) \in Seq(Row)
        BY <3>1, <4>1, RowsOfAppend, Zenon
      <4>6. before = AllRows(Front(legs)) \o RowsOf(leg) /\ AllRows(Front(legs)) \in Seq(Row)
        BY <3>1, <4>1, AllRowsAppend, Zenon
      <4>7. AllRows(Front(legs)) \o (RowsOf(leg) \o v.rows)
               = (AllRows(Front(legs)) \o RowsOf(leg)) \o v.rows
        <5> HIDE DEF v, legs
        <5> QED
          BY <3>3, <4>5, <4>6, Associative, Zenon
      <4> QED
        BY <3>1, <3>3, <4>4, <4>5, <4>6, <4>7, Zenon
    <3>5. CASE ~(legs # <<>> /\ hops[n - 1].plausible)
      <4>1. f[n] = Append(legs, <<v>>)
        BY <1>1, <3>5, Zenon DEF Splits
      <4>2. <<v>> \in Seq(VisitRecord) /\ <<>> \in Seq(VisitRecord)
               /\ <<v>> = Append(<<>>, v)
        BY <3>1
      <4>3. RowsOf(<<v>>) = <<>> \o v.rows
        BY <3>1, <4>2, RowsOfAppend, NoRows, Zenon
      <4>4. RowsOf(<<v>>) = v.rows
        BY <3>3, <4>3, ConcatEmptySeq, Zenon
      <4>5. AllRows(f[n]) = before \o v.rows
        BY <3>1, <3>2, <4>1, <4>2, <4>4, AllRowsAppend, Zenon
      <4> QED
        BY <3>1, <3>3, <4>5, Zenon
    <3> QED
      BY <3>4, <3>5
  <2>2. 0 \in S
    BY <1>1, <1>2, <1>3, NoRows, Zenon DEF Splits
  <2>3. N \in Nat
    BY <1>2
  <2> HIDE DEF S, N
  <2> QED
    BY <2>1, <2>2, <2>3, Counting
<1> QED
  BY <1>1, <1>2, <1>3, <1>5, Zenon

\* The legs of a journey hold every sighting with a place, once and in order:
\* collapse_revisits and _split_into_legs lose and repeat nothing, for every trail,
\* every camera and whatever the routing engine says.
THEOREM SightingsKept == NothingDropped
<1> SUFFICES ASSUME NEW trail \in Trails, NEW road \in Roads
             PROVE  AllRows(Journey(trail, road).legs) = Placed(trail)
  BY Zenon DEF NothingDropped, AllRows
<1>1. trail \in Seq(Row)
  BY JourneyAssumption
<1>2. Journey(trail, road).legs = Legs(Visits(trail), Hops(Visits(trail), road))
  BY DEF Journey
<1>3. Visits(trail) \in Seq(VisitRecord) /\ RowsOf(Visits(trail)) = Placed(trail)
  BY <1>1, VisitsHold
<1>4. AllRows(Legs(Visits(trail), Hops(Visits(trail), road))) = RowsOf(Visits(trail))
  BY <1>3, LegsHold
<1> QED
  BY <1>2, <1>3, <1>4

-------------------------------------------------------------------------------
(* Distances, and hops one after the other                                  *)

\* Distances on the line.
LEMMA Line ==
    /\ \A a, b \in Stations : Straight(a, b) \in Nat
    /\ \A a \in Stations : Straight(a, a) = 0
    /\ \A a, b, c \in Stations : Straight(a, c) <= Straight(a, b) + Straight(b, c)
<1>1. \A a \in Stations : Place[a] \in Int
  BY JourneyAssumption DEF Stations
<1> QED
  BY <1>1 DEF Straight

\* With more time, no less can be driven.
LEMMA DrivableLonger ==
    ASSUME NEW d \in Nat, NEW e \in Int, NEW f \in Int, Drivable(d, e), e <= f
    PROVE  Drivable(d, f)
<1>1. Limit \in Nat
  BY JourneyAssumption
<1>2. Limit * e <= Limit * f
  BY <1>1
<1>3. Limit * e \in Int /\ Limit * f \in Int
  BY <1>1
<1> QED
  BY <1>2, <1>3 DEF Drivable

\* Two drives make one.
LEMMA DrivableBoth ==
    ASSUME NEW d1 \in Nat, NEW e1 \in Nat, Drivable(d1, e1),
           NEW d2 \in Nat, NEW e2 \in Nat, Drivable(d2, e2),
           NEW d \in Nat, d <= d1 + d2
    PROVE  Drivable(d, e1 + e2)
<1>1. Limit \in Nat
  BY JourneyAssumption
<1>2. Limit * e1 \in Nat /\ Limit * e2 \in Nat /\ Limit * (e1 + e2) = Limit * e1 + Limit * e2
  BY <1>1
<1>3. d1 <= Limit * e1 /\ d2 <= Limit * e2
  BY <1>2 DEF Drivable
<1>4. d <= Limit * (e1 + e2)
  BY <1>2, <1>3
<1>5. e1 + e2 > 0 \/ (d1 = 0 /\ d2 = 0)
  BY DEF Drivable
<1> QED
  BY <1>4, <1>5 DEF Drivable

\* Between two neighbouring visits: the time on the road is enough.
Driven(v, w) == Drivable(Straight(v.camera, w.camera), w.first - v.last)

\* Visits one after the other.
Successive(visits) ==
    /\ visits \in Seq(VisitRecord)
    /\ \A a \in 1..Len(visits) : visits[a].first <= visits[a].last
    /\ \A a \in 1..(Len(visits) - 1) : visits[a].last <= visits[a + 1].first

\* Hops that could be driven one by one can be driven one after the other.
LEMMA Chain ==
    ASSUME NEW visits, Successive(visits),
           \A k \in 1..(Len(visits) - 1) : Driven(visits[k], visits[k + 1])
    PROVE  \A a, b \in 1..Len(visits) : a < b =>
              Driven(visits[a], visits[b]) /\ visits[a].last <= visits[b].first
<1> DEFINE N == Len(visits)
<1>0. N \in Nat /\ \A n \in 1..N : visits[n] \in VisitRecord
  BY LenProperties, ElementOfSeq DEF Successive
<1> SUFFICES ASSUME NEW a \in 1..N
             PROVE  \A b \in 1..N : a < b =>
                       Driven(visits[a], visits[b]) /\ visits[a].last <= visits[b].first
  OBVIOUS
<1> DEFINE Reached(b) == Driven(visits[a], visits[b]) /\ visits[a].last <= visits[b].first
           S == {n \in 0..N : a < n => Reached(n)}
<1>1. ASSUME NEW n \in 1..N, n - 1 \in S PROVE n \in S
  <2> SUFFICES ASSUME a < n PROVE Reached(n)
    BY <1>0
  <2>1. n - 1 \in 1..(N - 1) /\ (n - 1) + 1 = n /\ n - 1 \in 1..N
    BY <1>0
  <2>2. Driven(visits[n - 1], visits[n]) /\ visits[n - 1].last <= visits[n].first
    BY <2>1 DEF Successive
  <2>3. CASE a = n - 1
    BY <2>2, <2>3
  <2>4. CASE a # n - 1
    <3> DEFINE u == visits[a]
               v == visits[n - 1]
               w == visits[n]
    <3>1. Reached(n - 1)
      BY <1>0, <1>1, <2>4
    <3>2. u \in VisitRecord /\ v \in VisitRecord /\ w \in VisitRecord
      BY <1>0, <2>1
    <3>3. v.first <= v.last /\ v.last <= w.first /\ u.last <= v.first
      BY <2>1, <2>2, <3>1 DEF Successive
    <3>4. Driven(u, v) /\ Driven(v, w)
      BY <2>2, <3>1
    <3> HIDE DEF u, v, w
    <3> DEFINE e1 == v.first - u.last
               e2 == w.first - v.last
               e  == w.first - u.last
               d1 == Straight(u.camera, v.camera)
               d2 == Straight(v.camera, w.camera)
               d  == Straight(u.camera, w.camera)
    <3>5. e1 \in Nat /\ e2 \in Nat /\ e \in Int /\ e1 + e2 <= e /\ e1 + e2 \in Int
      <4>1. /\ u.first \in Int /\ u.last \in Int /\ v.first \in Int /\ v.last \in Int
            /\ w.first \in Int /\ w.last \in Int
        BY <3>2 DEF VisitRecord
      <4> QED
        BY <3>3, <4>1
    <3>6. d1 \in Nat /\ d2 \in Nat /\ d \in Nat /\ d <= d1 + d2
      BY <3>2, Line DEF VisitRecord
    <3>7. Drivable(d1, e1) /\ Drivable(d2, e2)
      BY <3>4 DEF Driven
    <3>8. Drivable(d, e)
      <4> HIDE DEF e1, e2, e, d1, d2, d
      <4> QED
        BY <3>5, <3>6, <3>7, DrivableBoth, DrivableLonger
    <3>9. u.last <= w.first
      BY <3>2, <3>3 DEF VisitRecord
    <3> QED
      BY <3>8, <3>9 DEF Driven, u, w
  <2> QED
    BY <2>3, <2>4
<1>2. 0 \in S
  BY <1>0
<1>3. 0..N \subseteq S
  <2>1. N \in Nat
    BY <1>0
  <2> HIDE DEF S, N
  <2> QED
    BY <1>1, <1>2, <2>1, Counting
<1>4. \A b \in 1..N : b \in 0..N
  BY <1>0
<1> QED
  BY <1>3, <1>4, Zenon

\* One leg is no impossible hop.
LEMMA OneLeg ==
    ASSUME NEW visits \in Seq(VisitRecord), NEW hops,
           \A k \in 1..(Len(visits) - 1) : hops[k].plausible \in BOOLEAN
    PROVE  Len(Legs(visits, hops)) <= 1
              <=> \A k \in 1..(Len(visits) - 1) : hops[k].plausible
<1> DEFINE N == Len(visits)
<1>1. PICK f : Splits(f, visits, hops) /\ Legs(visits, hops) = f[N]
  BY LegsSplit
<1>2. N \in Nat /\ \A n \in 1..N : visits[n] \in VisitRecord
  BY LenProperties, ElementOfSeq
<1> DEFINE S == {n \in 0..N : n # 0 => /\ Len(f[n]) \in Nat \ {0}
                                       /\ Len(f[n]) = 1 <=> \A k \in 1..(n - 1) : hops[k].plausible}
<1>3. ASSUME NEW n \in 1..N, n - 1 \in S PROVE n \in S
  <2> DEFINE legs == f[n - 1]
  <2>1. legs \in Seq(Seq(VisitRecord)) /\ n \in 0..N /\ n - 1 \in 0..N
    BY <1>1, <1>2 DEF Splits
  <2>2. Len(legs) \in Nat /\ (legs = <<>> <=> Len(legs) = 0)
    BY <2>1, EmptySeq
  <2>3. CASE legs # <<>> /\ hops[n - 1].plausible
    <3>1. f[n] = Append(Front(legs), Append(Last(legs), visits[n]))
      BY <1>1, <2>3, Zenon DEF Splits
    <3>2. Front(legs) \in Seq(Seq(VisitRecord)) /\ Last(legs) \in Seq(VisitRecord)
             /\ Len(Front(legs)) = Len(legs) - 1
      BY <2>1, <2>3, FrontLast
    <3>3. Append(Last(legs), visits[n]) \in Seq(VisitRecord)
      BY <1>2, <3>2, AppendProperties
    <3>4. Len(f[n]) = Len(legs)
      BY <2>2, <3>1, <3>2, <3>3, AppendProperties
    <3>5. n - 1 # 0
      BY <1>1, <2>3 DEF Splits
    <3>6. (\A k \in 1..(n - 1) : hops[k].plausible)
             <=> \A k \in 1..((n - 1) - 1) : hops[k].plausible
      BY <2>3, <3>5
    <3> QED
      BY <1>3, <2>1, <3>4, <3>5, <3>6
  <2>4. CASE ~(legs # <<>> /\ hops[n - 1].plausible)
    <3>1. f[n] = Append(legs, <<visits[n]>>)
      BY <1>1, <2>4, Zenon DEF Splits
    <3>2. <<visits[n]>> \in Seq(VisitRecord)
      BY <1>2
    <3>3. Len(f[n]) = Len(legs) + 1
      BY <2>1, <3>1, <3>2, AppendProperties
    <3>4. CASE n = 1
      <4>1. Len(legs) = 0
        BY <1>1, <2>2, <3>4 DEF Splits
      <4>2. Len(f[n]) = 1
        BY <3>3, <4>1
      <4>3. \A k \in 1..(n - 1) : hops[k].plausible
        BY <3>4
      <4>4. 1 \in Nat \ {0}
        OBVIOUS
      <4> QED
        BY <2>1, <4>2, <4>3, <4>4, Zenon
    <3>5. CASE n # 1
      <4>1. Len(legs) \in Nat \ {0}
        BY <1>3, <3>5
      <4>2. ~hops[n - 1].plausible /\ n - 1 \in 1..(n - 1)
        BY <2>2, <2>4, <3>5, <4>1
      <4>3. Len(f[n]) \in Nat \ {0} /\ Len(f[n]) # 1
        BY <3>3, <4>1
      <4> QED
        BY <2>1, <4>2, <4>3, Zenon
    <3> QED
      BY <3>4, <3>5
  <2> QED
    BY <2>3, <2>4
<1>4. 0 \in S
  BY <1>2
<1>5. 0..N \subseteq S
  <2>1. N \in Nat
    BY <1>2
  <2> HIDE DEF S, N
  <2> QED
    BY <1>3, <1>4, <2>1, Counting
<1>6. N \in 0..N
  BY <1>2
<1>7. CASE N = 0
  <2>1. f[N] = <<>>
    BY <1>1, <1>7 DEF Splits
  <2> QED
    BY <1>1, <1>7, <2>1, EmptySeq
<1>8. CASE N # 0
  <2>1. Len(f[N]) \in Nat \ {0} /\ (Len(f[N]) = 1 <=> \A k \in 1..(N - 1) : hops[k].plausible)
    BY <1>5, <1>6, <1>8, Zenon
  <2>2. Len(f[N]) <= 1 <=> Len(f[N]) = 1
    <3>1. \A x \in Nat \ {0} : x <= 1 <=> x = 1
      OBVIOUS
    <3> QED
      BY <2>1, <3>1, Zenon
  <2> QED
    BY <1>1, <2>1, <2>2, Zenon
<1> QED
  BY <1>7, <1>8

-------------------------------------------------------------------------------
(* The rows in the visits                                                   *)

\* Each kept row lies in the visit that at names, in order, and each visit begins
\* and ends with one of its rows.
Fits(visits, kept, at) ==
    /\ \A i \in 1..Len(kept) :
          /\ at[i] \in 1..Len(visits)
          /\ visits[at[i]].camera = kept[i].camera
          /\ visits[at[i]].first <= kept[i].ts /\ kept[i].ts <= visits[at[i]].last
    /\ \A i, j \in 1..Len(kept) : i <= j => at[i] <= at[j]
    /\ \A a \in 1..Len(visits) :
          /\ \E i \in 1..Len(kept) : at[i] = a /\ kept[i].ts = visits[a].first
          /\ \E i \in 1..Len(kept) : at[i] = a /\ kept[i].ts = visits[a].last

\* What merging a row leaves of the visits, and where the row goes.
LEMMA MergedShape ==
    ASSUME NEW visits \in Seq(VisitRecord), NEW r \in Row, HasPlace(r),
           visits # <<>> => Last(visits).last <= r.ts
    PROVE  LET more == Merged(visits, r)
               n == Len(visits)
               m == Len(more)
           IN  /\ m \in Nat \ {0} /\ n \in Nat /\ m \in {n, n + 1}
               /\ \A a \in 1..n : a # m => more[a] = visits[a]
               /\ m = n => /\ more[m].camera = visits[m].camera
                           /\ more[m].first = visits[m].first
                           /\ visits[m].last <= more[m].last
               /\ m = n + 1 => more[m].first = r.ts
               /\ more[m].camera = r.camera
               /\ more[m].last = r.ts
<1>0. Len(visits) \in Nat /\ r.ts \in Int
  BY LenProperties DEF Row
<1>1. CASE Revisits(visits, r)
  <2> DEFINE front == Front(visits)
             last  == Last(visits)
             longer == Extended(last, r)
             n == Len(visits)
  <2>1. visits # <<>> /\ last.camera = r.camera
    BY <1>1 DEF Revisits
  <2>2. /\ front \in Seq(VisitRecord) /\ last \in VisitRecord
        /\ n \in Nat \ {0} /\ Len(front) = n - 1
        /\ \A a \in 1..(n - 1) : front[a] = visits[a]
    BY <2>1, FrontLast
  <2>3. last.rows \in Seq(Row) /\ last.first \in Int /\ last.last \in Int /\ last.last <= r.ts
    BY <2>1, <2>2 DEF VisitRecord
  <2>4. /\ longer.camera = last.camera /\ longer.first = last.first /\ longer.last = r.ts
        /\ longer \in VisitRecord
    <3>1. Append(last.rows, r) \in Seq(Row)
      BY <2>3, AppendProperties
    <3>2. longer \in VisitRecord
      BY <1>0, <2>2, <2>3, <3>1 DEF VisitRecord, Extended
    <3>3. longer.camera = last.camera /\ longer.first = last.first
      BY <2>2 DEF VisitRecord, Extended
    <3>4. longer.last = IF r.ts > last.last THEN r.ts ELSE last.last
      BY <2>2 DEF VisitRecord, Extended
    <3>5. longer.last = r.ts
      BY <1>0, <2>3, <3>4
    <3> QED
      BY <3>2, <3>3, <3>5
  <2>5. Merged(visits, r) = Append(front, longer)
    BY <1>1 DEF Merged
  <2> HIDE DEF front, longer
  <2>6. /\ Len(Append(front, longer)) = n
        /\ Append(front, longer)[n] = longer
        /\ \A a \in 1..(n - 1) : Append(front, longer)[a] = visits[a]
    BY <2>2, <2>4, AppendProperties
  <2>7. last = visits[n]
    BY DEF Last
  <2> QED
    BY <1>0, <2>1, <2>2, <2>3, <2>4, <2>5, <2>6, <2>7
<1>2. CASE ~Revisits(visits, r)
  <2> DEFINE v == VisitOf(r)
             n == Len(visits)
  <2>1. <<r>> \in Seq(Row)
    OBVIOUS
  <2>2. v \in VisitRecord /\ v.camera = r.camera /\ v.first = r.ts /\ v.last = r.ts
    BY <2>1 DEF VisitRecord, VisitOf, Row, Stations, HasPlace
  <2>3. Merged(visits, r) = Append(visits, v)
    BY <1>2 DEF Merged
  <2> HIDE DEF v
  <2>4. /\ Len(Append(visits, v)) = n + 1
        /\ Append(visits, v)[n + 1] = v
        /\ \A a \in 1..n : Append(visits, v)[a] = visits[a]
    BY <1>0, <2>2, AppendProperties
  <2> QED
    BY <1>0, <2>2, <2>3, <2>4
<1> QED
  BY <1>1, <1>2

\* A row merged into the visits lies in the last of them.
LEMMA MergedFits ==
    ASSUME NEW visits \in Seq(VisitRecord), NEW kept \in Seq(Row), NEW at,
           Fits(visits, kept, at), NEW r \in Row, HasPlace(r),
           \A i \in 1..Len(kept) : kept[i].ts <= r.ts
    PROVE  \E to : Fits(Merged(visits, r), Append(kept, r), to)
<1> DEFINE more == Merged(visits, r)
           rows == Append(kept, r)
           n == Len(visits)
           m == Len(more)
           k == Len(kept)
           to == [i \in 1..(k + 1) |-> IF i <= k THEN at[i] ELSE m]
<1>0. /\ k \in Nat /\ Len(rows) = k + 1 /\ rows[k + 1] = r
      /\ \A i \in 1..k : rows[i] = kept[i] /\ kept[i] \in Row
  BY AppendProperties, ElementOfSeq
<1>1. \A a \in 1..n : visits[a] \in VisitRecord
  BY ElementOfSeq
<1>2. visits # <<>> => Last(visits).last <= r.ts
  <2> SUFFICES ASSUME visits # <<>> PROVE Last(visits).last <= r.ts
    OBVIOUS
  <2>1. n \in 1..n /\ Last(visits) = visits[n]
    BY EmptySeq DEF Last
  <2>2. PICK i \in 1..k : kept[i].ts = visits[n].last
    BY <2>1 DEF Fits
  <2> QED
    BY <2>1, <2>2
<1>3. /\ m \in Nat \ {0} /\ n \in Nat /\ m \in {n, n + 1}
      /\ \A a \in 1..n : a # m => more[a] = visits[a]
      /\ m = n => /\ more[m].camera = visits[m].camera
                  /\ more[m].first = visits[m].first
                  /\ visits[m].last <= more[m].last
      /\ m = n + 1 => more[m].first = r.ts
      /\ more[m].camera = r.camera
      /\ more[m].last = r.ts
  BY <1>2, MergedShape
<1>4. \A i \in 1..k : at[i] \in 1..n /\ to[i] = at[i] /\ i \in 1..(k + 1)
  BY <1>0 DEF Fits
<1>5. to[k + 1] = m /\ k + 1 \in 1..(k + 1) /\ \A i \in 1..(k + 1) : i = k + 1 \/ i \in 1..k
  BY <1>0
<1>6. \A a \in 1..m : a = m \/ (a \in 1..n /\ more[a] = visits[a])
  BY <1>3
<1>7. 1..n \subseteq 1..m
  BY <1>3
<1> HIDE DEF more, rows, to, m, k, n
<1>8. ASSUME NEW i \in 1..(k + 1)
      PROVE  /\ to[i] \in 1..m
             /\ more[to[i]].camera = rows[i].camera
             /\ more[to[i]].first <= rows[i].ts /\ rows[i].ts <= more[to[i]].last
  <2>1. CASE i = k + 1
    <3>1. more[m].first <= r.ts
      <4>1. CASE m = n
        <5>1. m \in 1..n
          BY <1>3, <4>1
        <5>2. PICK j \in 1..k : kept[j].ts = visits[m].first
          BY <5>1 DEF Fits, n, k
        <5> QED
          BY <1>3, <4>1, <5>2 DEF k
      <4>2. CASE m = n + 1
        BY <1>3, <4>2 DEF Row
      <4> QED
        BY <1>3, <4>1, <4>2
    <3>2. r.ts <= more[m].last /\ m \in 1..m
      BY <1>3 DEF Row
    <3> QED
      BY <1>0, <1>3, <1>5, <2>1, <3>1, <3>2
  <2>2. CASE i \in 1..k
    <3> DEFINE a == at[i]
    <3>1. /\ a \in 1..n /\ to[i] = a /\ a \in 1..m
      BY <1>4, <1>7, <2>2
    <3>2. /\ visits[a].camera = kept[i].camera
          /\ visits[a].first <= kept[i].ts /\ kept[i].ts <= visits[a].last
      BY <2>2 DEF Fits, k, n
    <3>3. /\ visits[a].first \in Int /\ visits[a].last \in Int /\ kept[i].ts \in Int
          /\ rows[i] = kept[i]
      BY <1>0, <1>1, <2>2, <3>1 DEF VisitRecord, Row
    <3>4. CASE a = m
      <4>1. m = n /\ more[m].last \in Int
        BY <1>3, <3>1, <3>4 DEF Row
      <4>2. visits[m].last <= more[m].last /\ more[m].first = visits[m].first
               /\ more[m].camera = visits[m].camera
        BY <1>3, <4>1
      <4> HIDE DEF a
      <4> QED
        BY <3>1, <3>2, <3>3, <3>4, <4>1, <4>2
    <3>5. CASE a # m
      <4>1. more[a] = visits[a]
        BY <1>3, <3>1, <3>5
      <4> QED
        BY <3>1, <3>2, <3>3, <4>1
    <3> QED
      BY <3>4, <3>5
  <2> QED
    BY <1>5, <2>1, <2>2
<1>9. ASSUME NEW i \in 1..(k + 1), NEW j \in 1..(k + 1), i <= j PROVE to[i] <= to[j]
  <2>1. CASE j = k + 1
    BY <1>3, <1>5, <1>8, <2>1
  <2>2. CASE j # k + 1
    <3>1. i \in 1..k /\ j \in 1..k
      BY <1>0, <1>9, <2>2
    <3>2. at[i] <= at[j]
      BY <1>9, <3>1 DEF Fits, k
    <3> QED
      BY <1>4, <3>1, <3>2
  <2> QED
    BY <2>1, <2>2
<1>10. ASSUME NEW a \in 1..m
       PROVE  /\ \E i \in 1..(k + 1) : to[i] = a /\ rows[i].ts = more[a].first
              /\ \E i \in 1..(k + 1) : to[i] = a /\ rows[i].ts = more[a].last
  <2>1. CASE a = m /\ m = n + 1
    BY <1>0, <1>3, <1>5, <2>1
  <2>2. CASE a \in 1..n
    <3>1. PICK i \in 1..k : at[i] = a /\ kept[i].ts = visits[a].first
      BY <2>2 DEF Fits, k, n
    <3>2. PICK j \in 1..k : at[j] = a /\ kept[j].ts = visits[a].last
      BY <2>2 DEF Fits, k, n
    <3>3. i \in 1..(k + 1) /\ to[i] = a /\ rows[i] = kept[i]
             /\ j \in 1..(k + 1) /\ to[j] = a /\ rows[j] = kept[j]
      BY <1>0, <1>4, <3>1, <3>2
    <3>4. CASE a # m
      BY <1>3, <2>2, <3>1, <3>2, <3>3, <3>4
    <3>5. CASE a = m
      <4>1. m = n
        BY <1>3, <2>2, <3>5
      <4>2. more[a].first = visits[a].first /\ more[a].last = r.ts
        BY <1>3, <3>5, <4>1
      <4> QED
        BY <1>0, <1>5, <3>1, <3>3, <3>5, <4>2
    <3> QED
      BY <3>4, <3>5
  <2> QED
    BY <1>3, <1>6, <2>1, <2>2
<1>11. Fits(more, rows, to)
  <2>1. Len(more) = m /\ Len(rows) = k + 1
    BY <1>0 DEF m
  <2> QED
    BY <1>8, <1>9, <1>10, <2>1, Zenon DEF Fits
<1> QED
  BY <1>11 DEF more, rows

Sorted(rows) == \A i, j \in 1..Len(rows) : i <= j => rows[i].ts <= rows[j].ts

\* The rows kept so far are no later than those to come.
LEMMA KeptInOrder ==
    ASSUME NEW kept \in Seq(Row), Sorted(kept), NEW r \in Row,
           \A i \in 1..Len(kept) : kept[i].ts <= r.ts
    PROVE  /\ Sorted(Append(kept, r))
           /\ \A t \in Int : r.ts <= t =>
                 \A i \in 1..(Len(kept) + 1) : Append(kept, r)[i].ts <= t
<1> DEFINE k == Len(kept)
           rows == Append(kept, r)
<1>0. /\ k \in Nat /\ Len(rows) = k + 1 /\ rows[k + 1] = r /\ r.ts \in Int
      /\ \A i \in 1..k : rows[i] = kept[i] /\ kept[i].ts \in Int
  <2>1. k \in Nat /\ Len(rows) = k + 1 /\ rows[k + 1] = r /\ \A i \in 1..k : rows[i] = kept[i]
    BY AppendProperties
  <2>2. r.ts \in Int /\ \A i \in 1..k : kept[i] \in Row
    BY ElementOfSeq DEF Row
  <2> QED
    BY <2>1, <2>2 DEF Row
<1> HIDE DEF rows
<1>1. \A i \in 1..(k + 1) : rows[i].ts <= r.ts /\ rows[i].ts \in Int
  BY <1>0
<1>2. ASSUME NEW i \in 1..(k + 1), NEW j \in 1..(k + 1), i <= j PROVE rows[i].ts <= rows[j].ts
  <2>1. CASE j = k + 1
    BY <1>0, <1>1, <2>1
  <2>2. CASE j # k + 1
    <3>1. i \in 1..k /\ j \in 1..k
      BY <1>0, <1>2, <2>2
    <3>2. kept[i].ts <= kept[j].ts
      BY <1>2, <3>1 DEF Sorted
    <3> QED
      BY <1>0, <3>1, <3>2
  <2> QED
    BY <2>1, <2>2
<1>3. Sorted(rows)
  BY <1>0, <1>2, Zenon DEF Sorted
<1>4. ASSUME NEW t \in Int, r.ts <= t, NEW i \in 1..(k + 1) PROVE rows[i].ts <= t
  BY <1>0, <1>1, <1>4
<1> QED
  BY <1>3, <1>4 DEF rows

\* The rows kept lie in the visits, by induction on the rows read.
LEMMA VisitsFit ==
    ASSUME NEW rows \in Seq(Row), Sorted(rows)
    PROVE  Sorted(Placed(rows)) /\ \E at : Fits(Visits(rows), Placed(rows), at)
<1> DEFINE N == Len(rows)
<1>1. PICK f : Collapses(f, rows) /\ Visits(rows) = f[N]
  BY VisitsCollapse
<1>2. PICK g : Keeps(g, rows) /\ Placed(rows) = g[N]
  BY PlacedKeeps
<1>3. /\ N \in Nat /\ N \in 0..N /\ 0 \in 0..N
      /\ \A n \in 1..N : n \in 0..N /\ n - 1 \in 0..N /\ rows[n] \in Row
  BY LenProperties, ElementOfSeq
<1> DEFINE Ahead(n) == \A i \in 1..Len(g[n]), m \in (n + 1)..N : g[n][i].ts <= rows[m].ts
           S == {n \in 0..N : /\ \E at : Fits(f[n], g[n], at)
                              /\ Sorted(g[n])
                              /\ Ahead(n)}
<1>4. ASSUME NEW n \in 1..N, n - 1 \in S PROVE n \in S
  <2> DEFINE r == rows[n]
             kept == g[n - 1]
  <2>1. /\ f[n - 1] \in Seq(VisitRecord) /\ kept \in Seq(Row) /\ r \in Row
        /\ f[n] = Merged(f[n - 1], r)
    BY <1>1, <1>2, <1>3, Zenon DEF Collapses, Keeps
  <2>2. PICK at : Fits(f[n - 1], kept, at)
    BY <1>4
  <2>3. Sorted(kept) /\ \A i \in 1..Len(kept) : kept[i].ts <= r.ts
    <3>1. n \in ((n - 1) + 1)..N
      BY <1>3
    <3> QED
      BY <1>4, <3>1
  <2>4. CASE HasPlace(r)
    <3>1. g[n] = Append(kept, r)
      BY <1>2, <2>4, Zenon DEF Keeps
    <3>2. \E to : Fits(f[n], g[n], to)
      <4> HIDE DEF r, kept
      <4> QED
        BY <2>1, <2>2, <2>3, <2>4, <3>1, MergedFits
    <3>3. Sorted(g[n])
      <4> HIDE DEF r, kept
      <4> QED
        BY <2>1, <2>3, <3>1, KeptInOrder
    <3>4. Ahead(n)
      <4> SUFFICES ASSUME NEW m \in (n + 1)..N
                   PROVE  \A i \in 1..Len(g[n]) : g[n][i].ts <= rows[m].ts
        BY Zenon
      <4>1. n \in 1..N /\ m \in 1..N /\ n <= m
        BY <1>3
      <4>2. r.ts <= rows[m].ts /\ rows[m].ts \in Int
        BY <1>3, <4>1 DEF Sorted, Row
      <4>3. Len(g[n]) = Len(kept) + 1
        BY <2>1, <3>1, AppendProperties
      <4>4. \A t \in Int : r.ts <= t => \A i \in 1..(Len(kept) + 1) : Append(kept, r)[i].ts <= t
        <5> HIDE DEF r, kept
        <5> QED
          BY <2>1, <2>3, KeptInOrder
      <4> QED
        BY <3>1, <4>2, <4>3, <4>4, Zenon
    <3> QED
      BY <1>3, <3>2, <3>3, <3>4, Zenon
  <2>5. CASE ~HasPlace(r)
    <3>1. g[n] = kept /\ f[n] = f[n - 1]
      BY <1>2, <2>1, <2>5, Zenon DEF Keeps, Merged
    <3>2. Ahead(n)
      <4>1. \A m \in (n + 1)..N : m \in ((n - 1) + 1)..N
        OBVIOUS
      <4> QED
        BY <1>4, <3>1, <4>1, Zenon
    <3> QED
      BY <1>3, <2>2, <2>3, <3>1, <3>2, Zenon
  <2> QED
    BY <2>4, <2>5
<1>5. 0 \in S
  <2>1. f[0] = <<>> /\ g[0] = <<>> /\ 1..Len(<<>>) = {}
    BY <1>1, <1>2, EmptySeq DEF Collapses, Keeps
  <2>2. Fits(<<>>, <<>>, <<>>) /\ Sorted(<<>>)
    BY <2>1 DEF Fits, Sorted
  <2>3. Ahead(0)
    BY <2>1
  <2> QED
    BY <1>3, <2>1, <2>2, <2>3, Zenon
<1>6. 0..N \subseteq S
  <2>1. N \in Nat
    BY <1>3
  <2> HIDE DEF S, N
  <2> QED
    BY <1>4, <1>5, <2>1, Counting
<1> QED
  BY <1>1, <1>2, <1>3, <1>6, Zenon

\* Visits of rows in order are one after the other.
LEMMA FitsSuccessive ==
    ASSUME NEW visits \in Seq(VisitRecord), NEW kept \in Seq(Row), NEW at,
           Fits(visits, kept, at), Sorted(kept)
    PROVE  Successive(visits)
<1> DEFINE n == Len(visits)
           k == Len(kept)
<1>0. /\ n \in Nat /\ \A a \in 1..n : visits[a].first \in Int /\ visits[a].last \in Int
      /\ \A i \in 1..k : kept[i].ts \in Int
      /\ k \in Nat
  <2>1. n \in Nat /\ k \in Nat
    BY LenProperties
  <2>2. \A a \in 1..n : visits[a] \in VisitRecord
    BY ElementOfSeq
  <2>3. \A i \in 1..k : kept[i] \in Row
    BY ElementOfSeq
  <2> QED
    BY <2>1, <2>2, <2>3 DEF VisitRecord, Row
<1>1. ASSUME NEW a \in 1..n PROVE visits[a].first <= visits[a].last
  <2>1. PICK i \in 1..k : at[i] = a
    BY DEF Fits
  <2>2. visits[a].first <= kept[i].ts /\ kept[i].ts <= visits[a].last
    BY <2>1 DEF Fits
  <2> QED
    BY <1>0, <2>2
<1>2. ASSUME NEW a \in 1..(n - 1) PROVE visits[a].last <= visits[a + 1].first
  <2>1. a \in 1..n /\ a + 1 \in 1..n
    BY <1>0
  <2>2. PICK i \in 1..k : at[i] = a /\ kept[i].ts = visits[a].last
    BY <2>1 DEF Fits
  <2>3. PICK j \in 1..k : at[j] = a + 1 /\ kept[j].ts = visits[a + 1].first
    BY <2>1 DEF Fits
  <2>4. ~(j <= i)
    <3>1. j <= i => at[j] <= at[i]
      BY DEF Fits
    <3> QED
      BY <2>2, <2>3, <3>1
  <2>5. i <= j
    BY <1>0, <2>4
  <2> QED
    BY <2>2, <2>3, <2>5 DEF Sorted
<1> QED
  BY <1>1, <1>2, Zenon DEF Successive

\* All rows could be of one vehicle exactly if the hops could be driven.
LEMMA RowsAsHops ==
    ASSUME NEW visits \in Seq(VisitRecord), NEW kept \in Seq(Row), NEW at,
           Fits(visits, kept, at), Sorted(kept)
    PROVE  (\A k \in 1..(Len(visits) - 1) : Driven(visits[k], visits[k + 1]))
              <=> \A i, j \in 1..Len(kept) : i < j => OneVehicle(kept[i], kept[j])
<1> DEFINE n == Len(visits)
           k == Len(kept)
<1>0. /\ n \in Nat /\ \A a \in 1..n : visits[a] \in VisitRecord
      /\ k \in Nat /\ \A i \in 1..k : kept[i] \in Row
  BY LenProperties, ElementOfSeq
<1>1. Successive(visits)
  BY FitsSuccessive
<1>2. ASSUME \A a \in 1..(n - 1) : Driven(visits[a], visits[a + 1]),
             NEW i \in 1..k, NEW j \in 1..k, i < j
      PROVE  OneVehicle(kept[i], kept[j])
  <2> DEFINE a == at[i]
             b == at[j]
             v == visits[a]
             w == visits[b]
  <2>1. /\ a \in 1..n /\ b \in 1..n
        /\ v.camera = kept[i].camera /\ kept[i].ts <= v.last
        /\ w.camera = kept[j].camera /\ w.first <= kept[j].ts
    BY DEF Fits
  <2>2. a <= b
    <3>1. i <= j
      BY <1>0, <1>2
    <3> QED
      BY <3>1 DEF Fits
  <2>3. v \in VisitRecord /\ w \in VisitRecord /\ kept[i] \in Row /\ kept[j] \in Row
    BY <1>0, <2>1
  <2>4. CASE a = b
    <3>1. Straight(kept[i].camera, kept[j].camera) = 0
      BY <2>1, <2>3, <2>4, Line DEF VisitRecord
    <3> QED
      BY <3>1 DEF OneVehicle, Drivable
  <2>5. CASE a # b
    <3>1. a < b
      BY <2>1, <2>2, <2>5
    <3>2. Driven(v, w)
      BY <1>1, <1>2, <2>1, <3>1, Chain
    <3> HIDE DEF a, b, v, w
    <3> DEFINE d == Straight(v.camera, w.camera)
               e == w.first - v.last
               t == kept[j].ts - kept[i].ts
    <3>3. d \in Nat
      BY <2>3, Line DEF VisitRecord
    <3>4. e \in Int /\ t \in Int /\ e <= t
      <4>1. w.first \in Int /\ v.last \in Int /\ kept[j].ts \in Int /\ kept[i].ts \in Int
        BY <2>3 DEF VisitRecord, Row
      <4> QED
        BY <2>1, <4>1
    <3>5. Drivable(d, t)
      <4>1. Drivable(d, e)
        BY <3>2 DEF Driven
      <4> HIDE DEF d, e, t
      <4> QED
        BY <3>3, <3>4, <4>1, DrivableLonger
    <3> QED
      BY <2>1, <3>5 DEF OneVehicle
  <2> QED
    BY <2>4, <2>5
<1>3. ASSUME \A i, j \in 1..k : i < j => OneVehicle(kept[i], kept[j]), NEW a \in 1..(n - 1)
      PROVE  Driven(visits[a], visits[a + 1])
  <2>1. a \in 1..n /\ a + 1 \in 1..n
    BY <1>0
  <2>2. PICK i \in 1..k : at[i] = a /\ kept[i].ts = visits[a].last
    BY <2>1 DEF Fits
  <2>3. PICK j \in 1..k : at[j] = a + 1 /\ kept[j].ts = visits[a + 1].first
    BY <2>1 DEF Fits
  <2>4. j <= i => at[j] <= at[i]
    BY DEF Fits
  <2>5. i < j
    BY <1>0, <2>2, <2>3, <2>4
  <2>6. kept[i].camera = visits[a].camera /\ kept[j].camera = visits[a + 1].camera
    BY <2>2, <2>3 DEF Fits
  <2> QED
    BY <1>3, <2>2, <2>3, <2>5, <2>6 DEF OneVehicle, Driven
<1> QED
  BY <1>2, <1>3

\* A journey stays in one leg exactly if every two of its sightings could be of one
\* vehicle: comparing neighbouring visits in reconstruct finds every clone and
\* accuses no vehicle, for every trail of any length.
THEOREM ClonesFound == SplitByClones
<1> SUFFICES ASSUME NEW trail \in Trails, NEW road \in Roads
             PROVE  Len(Journey(trail, road).legs) <= 1
                       <=> \A i, j \in DOMAIN Placed(trail) :
                              i < j => OneVehicle(Placed(trail)[i], Placed(trail)[j])
  BY Zenon DEF SplitByClones
<1> DEFINE visits == Visits(trail)
           hops == Hops(visits, road)
           kept == Placed(trail)
<1>1. trail \in Seq(Row) /\ Sorted(trail)
  <2>1. trail \in Seq(Row) /\ \A i, j \in DOMAIN trail : i <= j => trail[i].ts <= trail[j].ts
    BY JourneyAssumption
  <2>2. DOMAIN trail = 1..Len(trail)
    BY <2>1, LenProperties
  <2> QED
    BY <2>1, <2>2, Zenon DEF Sorted
<1>2. Journey(trail, road).legs = Legs(visits, hops)
  BY DEF Journey
<1>3. visits \in Seq(VisitRecord) /\ RowsOf(visits) = kept
  BY <1>1, VisitsHold
<1>4. kept \in Seq(Row)
  BY <1>3, RowsOfAppend
<1>5. Sorted(kept) /\ \E at : Fits(visits, kept, at)
  BY <1>1, VisitsFit
<1>6. PICK at : Fits(visits, kept, at)
  BY <1>5
<1>7. \A k \in 1..(Len(visits) - 1) :
         hops[k].plausible = Driven(visits[k], visits[k + 1])
  <2> HIDE DEF visits
  <2> QED
    BY DEF Hops, Hop, Driven
<1>8. \A k \in 1..(Len(visits) - 1) : hops[k].plausible \in BOOLEAN
  BY <1>7, Zenon DEF Driven, Drivable
<1> HIDE DEF visits, hops, kept
<1>9. Len(Legs(visits, hops)) <= 1
         <=> \A k \in 1..(Len(visits) - 1) : hops[k].plausible
  BY <1>3, <1>8, OneLeg
<1>10. (\A k \in 1..(Len(visits) - 1) : Driven(visits[k], visits[k + 1]))
          <=> \A i, j \in 1..Len(kept) : i < j => OneVehicle(kept[i], kept[j])
  BY <1>3, <1>4, <1>5, <1>6, RowsAsHops
<1>11. DOMAIN kept = 1..Len(kept)
  BY <1>4, LenProperties
<1> QED
  BY <1>2, <1>7, <1>9, <1>10, <1>11, Zenon DEF kept
===============================================================================
