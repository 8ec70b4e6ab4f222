-------------------------------- MODULE MCLinks --------------------------------
\* Up to three sightings with up to two plates and looks that are the same, alike or
\* absent, the first two too far apart; and four, of which the query for the last
\* returns two: it looks most like two without its plate, or like the one with it.
\* All within one window; two processes.
EXTENDS VehicleLinks, Journeys, TLC

CONSTANTS p, q, w1, w2

MCSightings == 1..4
MCPlates    == {p, q}
MCLooks     == 0..1
MCLinkers   == {w1, w2}
Linkable    == Permutations(MCLinkers)

Scene(plates, looks) ==
    [seen |-> DOMAIN plates,
     plate |-> [n \in MCSightings |-> IF n \in DOMAIN plates THEN plates[n] ELSE None],
     look |-> [n \in MCSightings |-> IF n \in DOMAIN looks THEN looks[n] ELSE None],
     apart |-> {{1, 2}}]

\* Up to the names of the plates and the origin of the line.
MCScenes ==
    {Scene(ps, ls) :
        ps \in {f \in [1..3 -> {p, q, None}] : \A n \in 1..3 :
                  f[n] = q => \E m \in 1..(n - 1) : f[m] = p},
        ls \in {f \in [1..3 -> MCLooks \cup {None}] : f[1] = 0}}
    \cup {Scene(<<p, q, None, p>>, <<1, 0, 0, 0>>), Scene(<<p, p, q, q>>, <<1, 1, 0, 0>>)}

-------------------------------------------------------------------------------
\* Cameras on a road, two of them at one junction and one without coordinates; up to
\* four sightings, of what may be one vehicle or several, and a routing engine that
\* finds one of the roads longer than the line.
MCPlace == "toll" :> 0 @@ "north" :> 1 @@ "south" :> 1 @@ "city" :> 3 @@ "lost" :> Unplaced
MCRoads == {<<"toll", "north">> :> 9}

Clocks(n) == {ts \in [1..n -> 0..3] : \A i, j \in 1..n : i <= j => ts[i] <= ts[j]}
Drives(n, cameras) ==
    {[i \in 1..n |-> [camera |-> cs[i], ts |-> ts[i]]] : cs \in [1..n -> cameras], ts \in Clocks(n)}
MCTrails == UNION {Drives(n, DOMAIN MCPlace) : n \in 0..3} \cup Drives(4, {"toll", "north", "city"})

ASSUME NoneDropped == NothingDropped
ASSUME ClonesSplit == SplitByClones
===============================================================================
