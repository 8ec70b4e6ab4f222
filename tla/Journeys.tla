-------------------------------- MODULE Journeys --------------------------------
(***************************************************************************)
(* From the sightings of a plate, or of a vehicle id, to the journey an    *)
(* investigator is shown: visits, the hops between them and the legs an    *)
(* impossible hop splits them into (services/journey/reconstruct.py, with  *)
(* the rule of services/common/geo.py).                                    *)
(*                                                                         *)
(* Cameras are on a line, in units of a metre or more: no distance is the  *)
(* code's "less than a metre".  A speed is units per tick.  What a journey *)
(* only carries along (names, confidences, thumbnails) is left out.        *)
(***************************************************************************)
EXTENDS Integers, SequencesExt

CONSTANTS
    Place,          \* where each camera is, or Unplaced
    Unplaced,       \* a camera without coordinates
    RevisitWindow,  \* REVISIT_WINDOW_S
    Limit,          \* IMPLAUSIBLE_SPEED_KMH
    Roads,          \* what a routing engine may say of each pair of cameras
    Trails          \* rows of one plate, oldest first: [camera, ts]

Row == [camera : DOMAIN Place, ts : Int]

ASSUME JourneyAssumption ==
    /\ \A c \in DOMAIN Place : Place[c] \in Int \cup {Unplaced}
    /\ Unplaced \notin Int /\ RevisitWindow \in Nat /\ Limit \in Nat \ {0}
    /\ \A road \in Roads : \A pair \in DOMAIN road : road[pair] \in Nat
    /\ \A trail \in Trails :
          /\ trail \in Seq(Row)
          /\ \A i, j \in DOMAIN trail : i <= j => trail[i].ts <= trail[j].ts

\* What a loop over 1..n has collected at its end.
Collected(Step(_, _), n) ==
    LET upTo[k \in 0..n] == IF k = 0 THEN <<>> ELSE Step(upTo[k - 1], k)
    IN  upTo[n]

Straight(a, b) ==
    IF Place[a] < Place[b] THEN Place[b] - Place[a] ELSE Place[a] - Place[b]

HasPlace(r) == Place[r.camera] # Unplaced

Placed(rows) ==
    Collected(LAMBDA kept, i : IF HasPlace(rows[i]) THEN Append(kept, rows[i]) ELSE kept,
              Len(rows))

-------------------------------------------------------------------------------
(* Visits                                                                   *)

VisitOf(r) == [camera |-> r.camera, first |-> r.ts, last |-> r.ts, rows |-> <<r>>]

Revisits(visits, r) ==
    /\ visits # <<>>
    /\ Last(visits).camera = r.camera /\ r.ts - Last(visits).last <= RevisitWindow

Extended(visit, r) ==
    [visit EXCEPT !.last = IF r.ts > @ THEN r.ts ELSE @, !.rows = Append(@, r)]

Merged(visits, r) ==
    IF ~HasPlace(r) THEN visits
    ELSE IF Revisits(visits, r) THEN Append(Front(visits), Extended(Last(visits), r))
    ELSE Append(visits, VisitOf(r))

\* collapse_revisits
Visits(rows) == Collected(LAMBDA visits, i : Merged(visits, rows[i]), Len(rows))

-------------------------------------------------------------------------------
(* Hops and legs                                                            *)

\* _plausible, with is_plausible_transition: no time is an infinite speed.
Drivable(distance, elapsed) == distance = 0 \/ (elapsed > 0 /\ distance <= Limit * elapsed)

\* The move from the first of two visits to the second.
Hop(v, w, road) ==
    LET elapsed == w.first - v.last
    IN  [from      |-> v.camera, to |-> w.camera,
         direct    |-> Straight(v.camera, w.camera),
         distance  |-> IF <<v.camera, w.camera>> \in DOMAIN road
                       THEN road[<<v.camera, w.camera>>] ELSE Straight(v.camera, w.camera),
         elapsed   |-> elapsed,
         plausible |-> Drivable(Straight(v.camera, w.camera), elapsed)]

Hops(visits, road) ==
    [i \in 1..Len(visits) - 1 |-> Hop(visits[i], visits[i + 1], road)]

\* _split_into_legs
Legs(visits, hops) ==
    Collected(LAMBDA legs, i :
                 IF legs # <<>> /\ hops[i - 1].plausible
                 THEN Append(Front(legs), Append(Last(legs), visits[i]))
                 ELSE Append(legs, <<visits[i]>>),
              Len(visits))

\* reconstruct
Journey(rows, road) ==
    LET visits == Visits(rows)
        hops   == Hops(visits, road)
    IN  [visits |-> visits, hops |-> hops, legs |-> Legs(visits, hops)]

-------------------------------------------------------------------------------
(* Properties                                                               *)

RowsOf(leg) == FlattenSeq([i \in DOMAIN leg |-> leg[i].rows])

\* "No sighting is ever dropped": the legs hold every sighting that has a place,
\* once and in order, however visits are merged and journeys are split.
NothingDropped ==
    \A trail \in Trails, road \in Roads :
        LET legs == Journey(trail, road).legs
        IN  FlattenSeq([i \in DOMAIN legs |-> RowsOf(legs[i])]) = Placed(trail)

\* One vehicle may have made both sightings.
OneVehicle(r, s) == Drivable(Straight(r.camera, s.camera), s.ts - r.ts)

\* The clone detector misses nothing and accuses nobody: a journey has one leg
\* exactly if every two of its sightings could be of one vehicle, although only
\* neighbouring visits are compared, the time in view is not counted as driving,
\* and a routing engine may have said anything.
SplitByClones ==
    \A trail \in Trails, road \in Roads :
        LET rows == Placed(trail)
        IN  Len(Journey(trail, road).legs) <= 1
                <=> \A i, j \in DOMAIN rows : i < j => OneVehicle(rows[i], rows[j])
===============================================================================
