-------------------------- MODULE CameraThread_proofs --------------------------
(***************************************************************************)
(* The thread of one camera keeps scenes apart, stamps nobody later than   *)
(* he was there, and looks often enough, for any timestamps, thresholds    *)
(* and number of tracks.  The three are one invariant because they share   *)
(* a frame; each has a layer of its own: what the clock of a session knows *)
(* (Settled), which scene the open tracks are of (SceneOK), how they would *)
(* be stamped (StampOK), and what the sampler's last look has to do with   *)
(* the media time that went by since (LookOK).                             *)
(***************************************************************************)
EXTENDS CameraThread, TLAPS

Clock == [elapsed : Int, last : Nat \cup {None}, usable : {"undecided", "yes", "no"},
          firstMono : Nat \cup {None}, anchor : Int \cup {None}, frames : Nat]

Registry == [Vehicles -> Track \cup {NoTrack}]

\* A stream has timestamps exactly if one has been kept.
Settled(c) == (c.usable = "yes" <=> c.last # None) /\ (c.usable = "yes" => c.anchor # None)

\* A session's first frame meets open tracks only with a cut.
SceneOK ==
    /\ first /\ pc \in {"connect", "waiting"} => tracks = NoTracks
    /\ pc = "reading" /\ clock.firstMono = None /\ ~cut => tracks = NoTracks
    /\ ScenesApart

OfTimeline(k) == k # NoTrack /\ k.timeline = "this"

\* The offset of the timeline the clock is on.
OffsetOf(c, off) == IF c.usable = "yes" THEN c.anchor = off ELSE c.firstMono = off

\* Nobody would be stamped later than he was there.
InTime(ts, off) == \A v \in Vehicles : OfTimeline(ts[v]) => off + ts[v].last <= ts[v].sawAt

Placed(ts, c, off) == \A v \in Vehicles : OfTimeline(ts[v]) => OffsetOf(c, off)

StampOK ==
    /\ InTime(tracks, offset)
    /\ pc = "reading" => Placed(tracks, clock, offset)
    /\ StampedWhenSeen

\* Since the last look the media time has gone straight on.
LookOK ==
    /\ LooksOften
    /\ ~excused /\ pc = "reading" =>
          sampler.last # None /\ unseen = clock.elapsed - sampler.last

IInv == TypeOK /\ Settled(clock) /\ SceneOK /\ StampOK /\ LookOK

-------------------------------------------------------------------------------
(* The clock                                                                *)

LEMMA ElapsedTyped ==
    ASSUME TypeOK, NEW r \in Readings
    PROVE  Elapsed(clock, r) \in Int /\ (~Untimed(clock, r) => r \in Nat)
<1> USE CameraAssumption DEF TypeOK
<1>1. r \in Nat /\ clock.elapsed \in Int /\ clock.last \in Nat \cup {None}
      /\ clock.firstMono \in Nat \cup {None} /\ now \in Nat
  OBVIOUS
<1>2. Larger(0, r - clock.last) \in Int \/ clock.last = None
  BY <1>1 DEF Larger
<1>3. QED
  BY <1>1, <1>2 DEF Elapsed

LEMMA AnchorTyped ==
    ASSUME TypeOK, NEW r \in Readings
    PROVE  /\ Anchor(clock, r) \in Int \cup {None}
           /\ ~Untimed(clock, r) => /\ Anchor(clock, r) \in Int
                                    /\ Anchor(clock, r) <= now - Elapsed(clock, r)
<1>1. clock.anchor \in Int \cup {None} /\ now \in Int
  BY DEF TypeOK
<1>2. QED
  BY <1>1, ElapsedTyped, CameraAssumption DEF Anchor

LEMMA OffsetTyped ==
    ASSUME TypeOK, NEW r \in Readings
    PROVE  Offset(clock, r) \in Int
  BY ElapsedTyped, AnchorTyped DEF Offset, TypeOK

LEMMA ObserveTyped ==
    ASSUME TypeOK, NEW r \in Readings
    PROVE  Observe(clock, r) \in Clock
<1>1. Usable(clock, r) \in {"undecided", "yes", "no"}
  BY DEF Usable, TypeOK
<1>2. r \in Nat /\ now \in Nat /\ clock \in Clock
  BY CameraAssumption DEF TypeOK, Clock
<1>3. QED
  BY <1>1, <1>2, ElapsedTyped, AnchorTyped DEF Observe, Clock

\* What a frame does to the clock and the offset.
LEMMA Decoded ==
    ASSUME IInv, NEW r \in Readings, Decode(r)
    PROVE  /\ pc = "reading" /\ pc' = "reading" /\ now' = now /\ cut' = FALSE /\ first' = first
           /\ clock' \in Clock /\ offset' \in Int
           /\ clock'.firstMono # None /\ clock'.elapsed = Elapsed(clock, r)
           /\ Settled(clock')
           /\ Timeline(r) = "this" =>
                  OffsetOf(clock', offset') /\ offset' + Elapsed(clock, r) <= now
           /\ ~NewTimeline(r) /\ OffsetOf(clock, offset) =>
                  OffsetOf(clock', offset') /\ offset' <= offset
<1> USE CameraAssumption DEF IInv
<1>1. clock' = Observe(clock, r) /\ offset' = Offset(clock, r)
  BY DEF Decode
<1>2. /\ clock'.elapsed = Elapsed(clock, r) /\ clock'.usable = Usable(clock, r)
      /\ clock'.last = (IF Untimed(clock, r) THEN clock.last ELSE r)
      /\ clock'.firstMono = (IF clock.firstMono = None THEN now ELSE clock.firstMono)
      /\ clock'.anchor = Anchor(clock, r)
  BY <1>1 DEF Observe
<1>3. /\ r \in Nat /\ now \in Nat /\ clock.last \in Nat \cup {None} /\ offset \in Int
      /\ clock.firstMono \in Nat \cup {None} /\ clock.anchor \in Int \cup {None}
      /\ clock.usable \in {"undecided", "yes", "no"}
  BY DEF TypeOK
<1>4. ~Untimed(clock, r) => Usable(clock, r) = "yes" /\ r # None
  BY <1>3 DEF Untimed, Usable
<1>5. Untimed(clock, r) => (Usable(clock, r) = "yes" <=> clock.usable = "yes")
  BY <1>3 DEF Untimed, Usable
<1>6. clock.usable = "yes" => Usable(clock, r) = "yes"
  BY DEF Usable
<1>7. Settled(clock')
  <2>1. CASE Untimed(clock, r)
    BY <1>2, <1>5, <2>1 DEF Settled, Anchor
  <2>2. CASE ~Untimed(clock, r)
    BY <1>2, <1>4, <2>2, AnchorTyped DEF Settled
  <2>3. QED
    BY <2>1, <2>2
<1>8. Untimed(clock, r) => /\ offset' = clock'.firstMono
                           /\ offset' + Elapsed(clock, r) = now
  BY <1>1, <1>2, <1>3, ElapsedTyped DEF Offset, Elapsed
<1>9. ~Untimed(clock, r) => /\ offset' = clock'.anchor
                            /\ offset' + Elapsed(clock, r) <= now
  BY <1>1, <1>2, <1>3, ElapsedTyped, AnchorTyped DEF Offset
<1>10. Timeline(r) = "this" => OffsetOf(clock', offset') /\ offset' + Elapsed(clock, r) <= now
  <2>1. CASE Untimed(clock, r)
    <3> SUFFICES ASSUME Timeline(r) = "this" PROVE OffsetOf(clock', offset')
      BY <1>3, <1>8, <2>1, ElapsedTyped
    <3>1. clock'.usable # "yes"
      BY <1>2, <1>5, <2>1 DEF Timeline, Strays
    <3>2. QED
      BY <1>8, <2>1, <3>1 DEF OffsetOf
  <2>2. CASE ~Untimed(clock, r)
    BY <1>2, <1>4, <1>9, <2>2 DEF OffsetOf
  <2>3. QED
    BY <2>1, <2>2
<1>11. ASSUME ~NewTimeline(r), OffsetOf(clock, offset)
       PROVE  OffsetOf(clock', offset') /\ offset' <= offset
  <2>1. CASE Untimed(clock, r)
    <3>1. clock.usable # "yes" /\ clock'.usable # "yes"
      BY <1>2, <1>5, <1>11, <2>1 DEF NewTimeline, Strays
    <3>2. clock.firstMono = offset /\ clock.firstMono # None
      BY <1>3, <1>11, <3>1 DEF OffsetOf
    <3>3. QED
      BY <1>2, <1>3, <1>8, <2>1, <3>1, <3>2 DEF OffsetOf
  <2>2. CASE ~Untimed(clock, r)
    <3>1. clock.last # None /\ ~Leap(clock, r)
      BY <1>11, <2>2 DEF NewTimeline
    <3>2. clock.anchor = offset
      BY <1>11, <3>1 DEF Settled, OffsetOf
    <3>3. Anchor(clock, r) <= offset
      BY <1>3, <2>2, <3>1, <3>2, ElapsedTyped DEF Anchor
    <3>4. QED
      BY <1>2, <1>4, <1>9, <2>2, <3>3 DEF OffsetOf
  <2>3. QED
    BY <2>1, <2>2
<1>12. QED
  BY <1>1, <1>2, <1>3, <1>7, <1>10, <1>11, ObserveTyped, OffsetTyped DEF Decode

-------------------------------------------------------------------------------
(* The tracks                                                               *)

LEMMA NoTracksTyped == NoTracks \in Registry /\ \A v \in Vehicles : NoTracks[v] = NoTrack
  BY DEF NoTracks, Registry

LEMMA AgedTracks ==
    ASSUME NEW ts \in Registry, NEW s \in BOOLEAN, NEW t \in BOOLEAN
    PROVE  /\ Aged(ts, s, t) \in Registry
           /\ \A v \in Vehicles :
                 /\ Aged(ts, s, t)[v] = NoTrack <=> ts[v] = NoTrack
                 /\ ts[v] # NoTrack =>
                       /\ Aged(ts, s, t)[v].last = ts[v].last
                       /\ Aged(ts, s, t)[v].sawAt = ts[v].sawAt
                       /\ Aged(ts, s, t)[v].scene = IF s THEN "past" ELSE ts[v].scene
                       /\ Aged(ts, s, t)[v].timeline = IF t THEN "past" ELSE ts[v].timeline
<1> DEFINE aged(v) == [ts[v] EXCEPT !.scene = IF s THEN "past" ELSE @,
                                    !.timeline = IF t THEN "past" ELSE @]
<1>1. \A v \in Vehicles : ts[v] # NoTrack => ts[v] \in Track
  BY DEF Registry
<1>2. ASSUME NEW v \in Vehicles, ts[v] # NoTrack
      PROVE  /\ aged(v) \in Track
             /\ aged(v).last = ts[v].last /\ aged(v).sawAt = ts[v].sawAt
             /\ aged(v).scene = IF s THEN "past" ELSE ts[v].scene
             /\ aged(v).timeline = IF t THEN "past" ELSE ts[v].timeline
  BY <1>1, <1>2 DEF Track
<1>3. \A v \in Vehicles : Aged(ts, s, t)[v] = IF ts[v] = NoTrack THEN NoTrack ELSE aged(v)
  BY DEF Aged
<1>4. Aged(ts, s, t) = [v \in Vehicles |-> IF ts[v] = NoTrack THEN NoTrack ELSE aged(v)]
  BY DEF Aged
<1> HIDE DEF aged
<1>5. Aged(ts, s, t) \in Registry
  BY <1>2, <1>4 DEF Registry
<1>6. QED
  BY <1>2, <1>3, <1>5, CameraAssumption

LEMMA MissedTracks ==
    ASSUME NEW ts \in Registry
    PROVE  /\ Missed(ts) \in Registry
           /\ \A v \in Vehicles :
                 /\ Missed(ts)[v] = NoTrack <=> ts[v] = NoTrack
                 /\ ts[v] # NoTrack =>
                       /\ Missed(ts)[v].last = ts[v].last
                       /\ Missed(ts)[v].sawAt = ts[v].sawAt
                       /\ Missed(ts)[v].scene # "past"
                       /\ Missed(ts)[v].timeline = ts[v].timeline
<1> DEFINE missed(v) == [ts[v] EXCEPT !.scene = "missed"]
<1>1. \A v \in Vehicles : ts[v] # NoTrack => ts[v] \in Track
  BY DEF Registry
<1>2. ASSUME NEW v \in Vehicles, ts[v] # NoTrack
      PROVE  /\ missed(v) \in Track /\ missed(v).scene = "missed"
             /\ missed(v).last = ts[v].last /\ missed(v).sawAt = ts[v].sawAt
             /\ missed(v).timeline = ts[v].timeline
  BY <1>1, <1>2 DEF Track
<1>3. Missed(ts) = [v \in Vehicles |->
          IF ts[v] # NoTrack /\ ts[v].scene = "past" THEN missed(v) ELSE ts[v]]
  BY DEF Missed
<1> HIDE DEF missed
<1>4. Missed(ts) \in Registry
  BY <1>2, <1>3 DEF Registry
<1>5. QED
  BY <1>2, <1>3, <1>4, CameraAssumption

LEMMA HarvestedTracks ==
    ASSUME NEW ts \in Registry, NEW t \in Int
    PROVE  /\ Harvested(ts, t) \in Registry
           /\ \A v \in Vehicles : Harvested(ts, t)[v] # NoTrack =>
                 /\ ts[v] # NoTrack
                 /\ Harvested(ts, t)[v].last = ts[v].last
                 /\ Harvested(ts, t)[v].sawAt = ts[v].sawAt
                 /\ Harvested(ts, t)[v].scene = ts[v].scene
                 /\ Harvested(ts, t)[v].timeline = ts[v].timeline
<1> DEFINE shortened(v) == [ts[v] EXCEPT !.first = t]
<1>1. \A v \in Vehicles : ts[v] # NoTrack => ts[v] \in Track
  BY DEF Registry
<1>2. ASSUME NEW v \in Vehicles, ts[v] # NoTrack
      PROVE  /\ shortened(v) \in Track /\ shortened(v).last = ts[v].last /\ shortened(v).sawAt = ts[v].sawAt
             /\ shortened(v).scene = ts[v].scene /\ shortened(v).timeline = ts[v].timeline
  BY <1>1, <1>2 DEF Track
<1>3. \A v \in Finished(ts, t) : v \in Vehicles /\ ts[v] # NoTrack
  BY DEF Finished, Open
<1>4. Harvested(ts, t) = [v \in Vehicles |->
          IF v \notin Finished(ts, t) THEN ts[v]
          ELSE IF TooLong(ts[v], t) THEN shortened(v) ELSE NoTrack]
  BY DEF Harvested
<1> HIDE DEF shortened
<1>5. Harvested(ts, t) \in Registry
  BY <1>2, <1>3, <1>4 DEF Registry
<1>6. QED
  BY <1>2, <1>3, <1>4, <1>5, CameraAssumption

Handed == [timeline : {"this", "past"}, late : BOOLEAN, ahead : BOOLEAN]

\* Tracks that would be stamped in time are.
LEMMA SightingsInTime ==
    ASSUME now \in Int, NEW ts \in Registry, NEW off \in Int, InTime(ts, off),
           NEW vs \in SUBSET Open(ts)
    PROVE  /\ Sightings(ts, vs, off) \subseteq Handed
           /\ \A s \in Sightings(ts, vs, off) : s.timeline = "this" => ~s.late
<1> SUFFICES ASSUME NEW v \in vs
             PROVE  /\ Sighting(ts[v], off) \in Handed
                    /\ Sighting(ts[v], off).timeline = "this" => ~Sighting(ts[v], off).late
  BY DEF Sightings
<1>1. v \in Vehicles /\ ts[v] # NoTrack /\ ts[v] \in Track
  BY DEF Open, Registry
<1>2. ts[v].last \in Int /\ ts[v].sawAt \in Int /\ ts[v].timeline \in {"this", "past"}
  BY <1>1 DEF Track
<1>3. ts[v].timeline = "this" => off + ts[v].last <= ts[v].sawAt
  BY <1>1 DEF InTime, OfTimeline
<1>4. ts[v].timeline = "this" => ~(SeenAt(ts[v], off) > ts[v].sawAt)
  BY <1>2, <1>3 DEF SeenAt
<1>5. /\ (SeenAt(ts[v], off) > ts[v].sawAt) \in BOOLEAN
      /\ (SeenAt(ts[v], off) > now) \in BOOLEAN
  OBVIOUS
<1>6. QED
  BY <1>2, <1>4, <1>5, Zenon DEF Sighting, Handed

-------------------------------------------------------------------------------
(* One frame                                                                *)

LEMMA AgedInTime ==
    ASSUME IInv, NEW r \in Readings, Decode(r), NEW s \in BOOLEAN
    PROVE  LET ts == Aged(tracks, s, NewTimeline(r))
           IN  /\ ts \in Registry /\ InTime(ts, offset') /\ Placed(ts, clock', offset')
               /\ Open(ts) = Open(tracks)
               /\ ~s => \A v \in Open(ts) : ts[v].scene = tracks[v].scene
<1> DEFINE ts == Aged(tracks, s, NewTimeline(r))
<1>1. tracks \in Registry /\ offset \in Int /\ NewTimeline(r) \in BOOLEAN
  BY DEF IInv, TypeOK, Registry, NewTimeline
<1>2. ts \in Registry
  BY <1>1, AgedTracks
<1>3. ASSUME NEW v \in Vehicles, OfTimeline(ts[v])
      PROVE  OffsetOf(clock', offset') /\ offset' + ts[v].last <= ts[v].sawAt
  <2>1. tracks[v] # NoTrack /\ ts[v].last = tracks[v].last /\ ts[v].sawAt = tracks[v].sawAt
        /\ ~NewTimeline(r) /\ tracks[v].timeline = "this"
    BY <1>1, <1>3, AgedTracks DEF OfTimeline
  <2>2. tracks[v].last \in Int /\ tracks[v].sawAt \in Int
    BY <1>1, <2>1 DEF Registry, Track
  <2>3. OffsetOf(clock, offset) /\ offset + tracks[v].last <= tracks[v].sawAt
    BY <2>1, Decoded DEF IInv, StampOK, InTime, Placed, OfTimeline
  <2>4. OffsetOf(clock', offset') /\ offset' <= offset /\ offset' \in Int
    BY <2>1, <2>3, Decoded
  <2>5. QED
    BY <1>1, <2>1, <2>2, <2>3, <2>4
<1>4. /\ Open(ts) = Open(tracks)
      /\ ~s => \A v \in Open(ts) : ts[v].scene = tracks[v].scene
  BY <1>1, AgedTracks DEF Open
<1>5. QED
  BY <1>2, <1>3, <1>4 DEF InTime, Placed

\* What is left after a cut is of this scene and would be stamped in time, and what the
\* cut wrote was.
LEMMA CutFacts ==
    ASSUME IInv, NEW r \in Readings, Decode(r), NEW sceneCut \in BOOLEAN
    PROVE  LET ts == CutTracks(r, sceneCut)
           IN  /\ ts \in Registry /\ InTime(ts, offset') /\ Placed(ts, clock', offset')
               /\ \A v \in Open(ts) : ts[v].scene # "past"
               /\ CutSightings(r, sceneCut) \subseteq Handed
               /\ \A s \in CutSightings(r, sceneCut) : s.timeline = "this" => ~s.late
<1> DEFINE ts == CutTracks(r, sceneCut)
           told == Aged(tracks, FALSE, NewTimeline(r))
<1>1. now \in Int /\ offset' \in Int
  <2>1. now \in Int
    BY DEF IInv, TypeOK
  <2>2. QED
    BY <2>1, Decoded
<1>2. told \in Registry /\ InTime(told, offset') /\ Open(told) = Open(tracks)
  BY AgedInTime
<1>4. /\ Sightings(told, Open(tracks), offset') \subseteq Handed
      /\ \A s \in Sightings(told, Open(tracks), offset') : s.timeline = "this" => ~s.late
  <2> HIDE DEF told
  <2> QED
    BY <1>1, <1>2, SightingsInTime
<1>5. /\ CutSightings(r, sceneCut) \subseteq Handed
      /\ \A s \in CutSightings(r, sceneCut) : s.timeline = "this" => ~s.late
  BY <1>4 DEF CutSightings
<1>6. CASE Flagged(r) \/ sceneCut
  <2>1. ts = NoTracks
    BY <1>6 DEF CutTracks
  <2>2. \A v \in Vehicles : ts[v] = NoTrack
    BY <2>1, NoTracksTyped
  <2>3. QED
    BY <1>5, <2>1, <2>2, NoTracksTyped DEF InTime, Placed, OfTimeline, Open
<1>7. CASE ~Flagged(r) /\ ~sceneCut
  <2>1. ~cut /\ ~SceneOver(r, sceneCut)
    BY <1>7 DEF Flagged, SceneOver
  <2>2. ts = Aged(tracks, FALSE, NewTimeline(r))
    BY <1>7, <2>1 DEF CutTracks, SceneOver
  <2>3. \A v \in Open(tracks) : tracks[v].scene # "past"
    BY <2>1, Decoded, NoTracksTyped DEF IInv, SceneOK, ScenesApart, Open
  <2>4. \A v \in Open(ts) : ts[v].scene # "past"
    BY <2>2, <2>3, AgedInTime
  <2>5. QED
    BY <1>5, <2>2, <2>4, AgedInTime
<1>8. QED
  BY <1>6, <1>7

\* Neither does seeing vehicles on this frame bring a track into another scene or time.
LEMMA SeenFacts ==
    ASSUME IInv, NEW r \in Readings, Decode(r), NEW vs \in SUBSET Vehicles, NEW ts \in Registry,
           InTime(ts, offset'), Placed(ts, clock', offset'),
           \A v \in Open(ts) : ts[v].scene # "past"
    PROVE  LET after == Seen(ts, vs, Elapsed(clock, r), Timeline(r))
           IN  /\ after \in Registry /\ InTime(after, offset') /\ Placed(after, clock', offset')
               /\ \A v \in Open(after) : after[v].scene # "past"
<1>1. now \in Int /\ Elapsed(clock, r) \in Int /\ Timeline(r) \in {"this", "past"}
  BY ElapsedTyped DEF IInv, TypeOK, Timeline
<1>2. PICK t \in Int, tl \in {"this", "past"} : t = Elapsed(clock, r) /\ tl = Timeline(r)
  BY <1>1
<1> DEFINE seen(v) == [first |-> IF ts[v] = NoTrack THEN t ELSE ts[v].first,
                       last |-> t, sawAt |-> now, scene |-> "this", timeline |-> tl]
           after == [v \in Vehicles |-> IF v \notin vs THEN ts[v] ELSE seen(v)]
<1>3. after = Seen(ts, vs, t, tl)
  BY DEF Seen
<1>4. \A v \in Vehicles : /\ seen(v) \in Track /\ seen(v).last = t /\ seen(v).sawAt = now
                          /\ seen(v).scene = "this" /\ seen(v).timeline = tl
  BY <1>1 DEF Registry, Track
<1> HIDE DEF seen
<1>5. after \in Registry /\ \A v \in Vehicles : after[v] = IF v \notin vs THEN ts[v] ELSE seen(v)
  BY <1>4 DEF Registry
<1>6. tl = "this" => OffsetOf(clock', offset') /\ offset' + t <= now
  BY <1>2, Decoded
<1> HIDE DEF after
<1>7. InTime(after, offset') /\ Placed(after, clock', offset')
  BY <1>4, <1>5, <1>6 DEF InTime, Placed, OfTimeline
<1>8. \A v \in Open(after) : after[v].scene # "past"
  BY <1>4, <1>5 DEF Open
<1>9. QED
  BY <1>2, <1>3, <1>5, <1>7, <1>8

\* What a harvest leaves, and what it writes.
LEMMA HarvestFacts ==
    ASSUME now \in Int, NEW off \in Int, NEW c, NEW ts \in Registry, NEW t \in Int,
           InTime(ts, off), Placed(ts, c, off), \A v \in Open(ts) : ts[v].scene # "past"
    PROVE  /\ Harvested(ts, t) \in Registry
           /\ InTime(Harvested(ts, t), off) /\ Placed(Harvested(ts, t), c, off)
           /\ \A v \in Open(Harvested(ts, t)) : Harvested(ts, t)[v].scene # "past"
           /\ Sightings(ts, Finished(ts, t), off) \subseteq Handed
           /\ \A s \in Sightings(ts, Finished(ts, t), off) : s.timeline = "this" => ~s.late
<1>1. Finished(ts, t) \subseteq Open(ts)
  BY DEF Finished
<1>2. InTime(Harvested(ts, t), off) /\ Placed(Harvested(ts, t), c, off)
  BY HarvestedTracks DEF InTime, Placed, OfTimeline
<1>3. \A v \in Open(Harvested(ts, t)) : Harvested(ts, t)[v].scene # "past"
  BY HarvestedTracks DEF Open
<1>4. QED
  BY <1>1, <1>2, <1>3, HarvestedTracks, SightingsInTime

\* As long as the sampler does not look, the time since it did is what its next decision
\* is about.
LEMMA LookFacts ==
    ASSUME IInv, NEW r \in Readings, Decode(r), NEW busy \in BOOLEAN,
           sampler' = Sampled(Elapsed(clock, r), busy),
           Looked(r, Takes(Elapsed(clock, r), busy))
    PROVE  /\ sampler' \in [last : Int \cup {None}, busyUntil : Int]
           /\ unseen' \in Nat /\ excused' \in BOOLEAN
           /\ LookOK'
<1> DEFINE t == Elapsed(clock, r)
           looks == Takes(t, busy)
<1> USE CameraAssumption
<1>1. /\ t \in Int /\ clock.elapsed \in Int /\ unseen \in Nat /\ excused \in BOOLEAN
      /\ sampler.last \in Int \cup {None} /\ sampler.busyUntil \in Int /\ pc = "reading"
      /\ {IdleGap, BusyGap, MaxGap} \subseteq Nat \ {0} /\ Hold \in Nat
  BY ElapsedTyped, Decoded DEF IInv, TypeOK
<1>2. clock'.elapsed = t /\ pc' = "reading"
  BY Decoded
<1>3. /\ sampler'.last = (IF looks THEN t ELSE sampler.last)
      /\ sampler' \in [last : Int \cup {None}, busyUntil : Int]
  <2>1. BusyUntil(t, busy) \in Int
    BY <1>1 DEF BusyUntil
  <2>2. QED
    BY <1>1, <2>1 DEF Sampled
<1>4. /\ looks => unseen' = 0
      /\ ~looks => unseen' = Smaller(MaxGap + 1, unseen + Larger(0, t - clock.elapsed))
      /\ excused' = (~looks /\ (excused \/ StepsBack(r)))
  BY DEF Looked
<1> HIDE DEF t, looks
<1>5. unseen' \in Nat /\ excused' \in BOOLEAN
  BY <1>1, <1>4 DEF Smaller, Larger
<1>6. CASE looks
  BY <1>1, <1>2, <1>3, <1>4, <1>5, <1>6 DEF LookOK, LooksOften
<1>7. CASE ~looks
  <2> SUFFICES ASSUME ~excused'
               PROVE  /\ unseen' < IdleGap /\ unseen' < MaxGap
                      /\ sampler'.last # None /\ unseen' = clock'.elapsed - sampler'.last
    BY <1>3, <1>5 DEF LookOK, LooksOften
  <2>1. ~excused /\ t >= clock.elapsed
    <3>1. ~excused /\ ~StepsBack(r)
      BY <1>1, <1>4, <1>7, Zenon
    <3>2. QED
      BY <1>1, <3>1 DEF StepsBack, t
  <2>2. sampler.last # None /\ unseen = clock.elapsed - sampler.last
    BY <1>1, <2>1 DEF IInv, LookOK
  <2>3. t - sampler.last < IdleGap /\ t - sampler.last < MaxGap
    BY <1>1, <1>7, <2>2 DEF looks, Takes
  <2>4. unseen' = t - sampler.last
    BY <1>1, <1>4, <1>7, <2>1, <2>2, <2>3 DEF Smaller, Larger
  <2>5. QED
    BY <1>1, <1>2, <1>3, <1>7, <2>2, <2>3, <2>4
<1>8. QED
  BY <1>3, <1>5, <1>6, <1>7

-------------------------------------------------------------------------------
(* The steps                                                                *)

LEMMA InitInv == Init => IInv
<1> SUFFICES ASSUME Init PROVE IInv
  OBVIOUS
<1> USE CameraAssumption DEF Init
<1>1. tracks \in Registry /\ \A v \in Vehicles : tracks[v] = NoTrack
  BY NoTracksTyped
<1>2. clock \in Clock /\ clock.usable = "undecided" /\ clock.last = None
  BY DEF FreshClock, Clock
<1>3. TypeOK
  <2>1. {stop, first, cut, excused} \subseteq BOOLEAN
    BY Zenon
  <2>2. attempt \in 0..(LastExponent + 1)
    OBVIOUS
  <2>3. QED
    BY <1>1, <1>2, <2>1, <2>2 DEF TypeOK, Registry, Clock
<1>4. SceneOK
  BY <1>1 DEF SceneOK, ScenesApart, Open
<1>5. StampOK
  BY <1>1 DEF StampOK, InTime, OfTimeline, StampedWhenSeen
<1>6. LookOK
  BY DEF LookOK, LooksOften
<1>7. QED
  BY <1>2, <1>3, <1>4, <1>5, <1>6 DEF IInv, Settled

\* What every frame leaves of the thread's other state.
LEMMA DecodeTyped ==
    ASSUME IInv, NEW r \in Readings, Decode(r)
    PROVE  /\ now' \in Nat /\ started' \in Nat /\ attempt' \in 0..(LastExponent + 1)
           /\ {stop', first', cut'} \subseteq BOOLEAN
           /\ pc' \in {"connect", "waiting", "reading", "ended"}
<1>1. UNCHANGED <<now, stop, pc, first, started>> /\ cut' = FALSE
      /\ attempt' \in {0, attempt}
  BY DEF Decode
<1>2. {stop', first', cut'} \subseteq BOOLEAN
  <2>1. stop \in BOOLEAN /\ first \in BOOLEAN
    BY Zenon DEF IInv, TypeOK
  <2>2. QED
    BY <1>1, <2>1, Zenon
<1>3. attempt' \in 0..(LastExponent + 1)
  BY <1>1, CameraAssumption DEF IInv, TypeOK
<1>4. QED
  BY <1>1, <1>2, <1>3 DEF IInv, TypeOK

LEMMA FrameInv ==
    ASSUME IInv, NEW r \in Readings, NEW sceneCut \in BOOLEAN, NEW motion \in BOOLEAN,
           NEW vs \in SUBSET Vehicles,
           Frame(r, sceneCut, motion, vs) \/ AnalysisFails(r, sceneCut, motion, vs)
    PROVE  IInv'
<1> DEFINE t     == Elapsed(clock, r)
           ts    == CutTracks(r, sceneCut)
           busy  == motion \/ Open(ts) # {}
           after == Seen(ts, vs, t, Timeline(r))
           late(handed) == \E s \in handed : s.timeline = "this" /\ s.late
<1>1. /\ Decode(r)
      /\ sampler' = Sampled(t, busy) /\ Looked(r, Takes(t, busy))
      /\ \/ /\ tracks' = Harvested(after, t)
            /\ written' = CutSightings(r, sceneCut) \cup Sightings(after, Finished(after, t), offset')
         \/ tracks' = after /\ written' = CutSightings(r, sceneCut)
  BY DEF Frame, AnalysisFails, Looked
<1>2. /\ t \in Int /\ offset' \in Int /\ now \in Int /\ now' = now /\ busy \in BOOLEAN
      /\ pc' = "reading" /\ first' = first /\ clock' \in Clock /\ Settled(clock')
      /\ clock'.firstMono # None
  <2>1. TypeOK /\ now \in Int
    BY DEF IInv, TypeOK
  <2>2. t \in Int
    BY <2>1, ElapsedTyped
  <2>3. busy \in BOOLEAN
    OBVIOUS
  <2>4. QED
    BY <1>1, <2>1, <2>2, <2>3, Decoded
<1> HIDE DEF t, busy
<1>3. /\ ts \in Registry /\ InTime(ts, offset') /\ Placed(ts, clock', offset')
      /\ \A v \in Open(ts) : ts[v].scene # "past"
      /\ CutSightings(r, sceneCut) \subseteq Handed
      /\ ~late(CutSightings(r, sceneCut))
  BY <1>1, CutFacts
<1>4. /\ after \in Registry /\ InTime(after, offset') /\ Placed(after, clock', offset')
      /\ \A v \in Open(after) : after[v].scene # "past"
  BY <1>1, <1>3, SeenFacts DEF t
<1> HIDE DEF ts, after
<1>5. /\ tracks' \in Registry /\ InTime(tracks', offset') /\ Placed(tracks', clock', offset')
      /\ \A v \in Open(tracks') : tracks'[v].scene # "past"
      /\ written' \subseteq Handed /\ ~late(written')
  <2>1. CASE tracks' = after /\ written' = CutSightings(r, sceneCut)
    BY <1>3, <1>4, <2>1
  <2>2. CASE /\ tracks' = Harvested(after, t)
             /\ written' = CutSightings(r, sceneCut) \cup Sightings(after, Finished(after, t), offset')
    BY <1>2, <1>3, <1>4, <2>2, HarvestFacts
  <2>3. QED
    BY <1>1, <2>1, <2>2
<1>6. /\ sampler' \in [last : Int \cup {None}, busyUntil : Int]
      /\ unseen' \in Nat /\ excused' \in BOOLEAN /\ LookOK'
  BY <1>1, <1>2, LookFacts DEF t
<1>7. TypeOK'
  BY <1>1, <1>2, <1>5, <1>6, DecodeTyped DEF TypeOK, Registry, Clock, Handed
<1>8. SceneOK'
  BY <1>2, <1>5 DEF SceneOK, ScenesApart, Open
<1>9. StampOK'
  BY <1>5 DEF StampOK, InTime, Placed, StampedWhenSeen
<1>10. QED
  BY <1>2, <1>6, <1>7, <1>8, <1>9 DEF IInv, Settled

LEMMA FrameFailsInv ==
    ASSUME IInv, NEW r \in Readings, FrameFails(r)
    PROVE  IInv'
<1> DEFINE aged == Aged(tracks, SceneOver(r, FALSE), NewTimeline(r))
<1>1. /\ Decode(r) /\ tracks' = Missed(aged) /\ written' = {} /\ excused' = TRUE
      /\ sampler' = sampler /\ unseen' = unseen
  BY DEF FrameFails
<1>2. /\ offset' \in Int /\ pc' = "reading" /\ first' = first
      /\ clock' \in Clock /\ Settled(clock') /\ clock'.firstMono # None
  BY <1>1, Decoded
<1>3. SceneOver(r, FALSE) \in BOOLEAN
  BY DEF SceneOver, Leap
<1>4. aged \in Registry /\ InTime(aged, offset') /\ Placed(aged, clock', offset')
  BY <1>1, <1>3, AgedInTime
<1> HIDE DEF aged
<1>5. tracks' \in Registry /\ \A v \in Open(tracks') : tracks'[v].scene # "past"
  BY <1>1, <1>4, MissedTracks DEF Open
<1>6. InTime(tracks', offset') /\ Placed(tracks', clock', offset')
  BY <1>1, <1>4, MissedTracks DEF InTime, Placed, OfTimeline
<1>7. TypeOK'
  BY <1>1, <1>2, <1>5, DecodeTyped DEF IInv, TypeOK, Registry, Clock
<1>8. SceneOK'
  BY <1>2, <1>5 DEF SceneOK, ScenesApart, Open
<1>9. StampOK'
  BY <1>1, <1>6 DEF StampOK, InTime, Placed, StampedWhenSeen
<1>10. LookOK'
  BY <1>1 DEF LookOK, LooksOften
<1>11. QED
  BY <1>2, <1>7, <1>8, <1>9, <1>10 DEF IInv, Settled

LEMMA ConnectInv ==
    ASSUME IInv, Connect
    PROVE  IInv'
<1> USE CameraAssumption DEF IInv, Connect, reconnect
<1>1. tracks \in Registry
  BY DEF TypeOK, Registry
<1>2. tracks' \in Registry /\ \A v \in Vehicles : ~OfTimeline(tracks'[v])
  BY <1>1, AgedTracks DEF OfTimeline
<1>3. tracks = NoTracks => tracks' = NoTracks
  BY DEF Aged, NoTracks
<1>4. clock' \in Clock /\ clock'.usable = "undecided" /\ clock'.last = None
      /\ clock'.firstMono = None
  BY DEF FreshClock, Clock
<1>5. TypeOK'
  BY <1>2, <1>4 DEF TypeOK, Registry, Clock
<1>6. SceneOK'
  BY <1>3, <1>4 DEF SceneOK, ScenesApart
<1>7. StampOK'
  BY <1>2 DEF StampOK, InTime, Placed, StampedWhenSeen
<1>8. LookOK'
  BY DEF LookOK, LooksOften
<1>9. QED
  BY <1>4, <1>5, <1>6, <1>7, <1>8 DEF Settled

LEMMA FreshTyped ==
    ASSUME NoSession
    PROVE  /\ clock' \in Clock /\ Settled(clock') /\ clock'.firstMono = None
           /\ started' \in Nat /\ cut' = FALSE
  BY CameraAssumption DEF NoSession, FreshClock, Clock, Settled

LEMMA FinishInv ==
    ASSUME IInv, Finish, UNCHANGED reconnect
    PROVE  IInv'
<1> USE DEF IInv, Finish, reconnect, history
<1>1. tracks \in Registry /\ now \in Int /\ offset \in Int /\ InTime(tracks, offset)
  BY DEF TypeOK, Registry, StampOK
<1>2. written' \subseteq Handed /\ \A s \in written' : s.timeline = "this" => ~s.late
  BY <1>1, SightingsInTime
<1>3. tracks' \in Registry /\ \A v \in Vehicles : tracks'[v] = NoTrack
  BY NoTracksTyped
<1>4. TypeOK'
  BY <1>2, <1>3, FreshTyped DEF TypeOK, Registry, Clock, Handed
<1>5. SceneOK'
  BY FreshTyped DEF SceneOK, ScenesApart
<1>6. StampOK'
  BY <1>2, <1>3 DEF StampOK, InTime, OfTimeline, StampedWhenSeen
<1>7. LookOK'
  BY DEF LookOK, LooksOften
<1>8. QED
  BY <1>4, <1>5, <1>6, <1>7, FreshTyped

LEMMA BackoffInv ==
    ASSUME IInv, NoEndpoint \/ SessionEnds
    PROVE  IInv'
<1> USE CameraAssumption DEF IInv, NoEndpoint, SessionEnds, Backoff, history
<1>1. NoSession
  OBVIOUS
<1>2. attempt' \in 0..(LastExponent + 1)
  BY DEF TypeOK
<1>3. {stop', first', cut', excused'} \subseteq BOOLEAN
  <2>1. {stop, first, excused} \subseteq BOOLEAN
    BY Zenon DEF TypeOK
  <2>2. UNCHANGED <<stop, excused>> /\ first' \in {first, FALSE} /\ cut' = FALSE
    BY FreshTyped
  <2>3. QED
    BY <2>1, <2>2, Zenon
<1>4. TypeOK'
  BY <1>1, <1>2, <1>3, FreshTyped DEF TypeOK, Clock
<1>5. SceneOK'
  BY <1>1, FreshTyped DEF SceneOK, ScenesApart
<1>6. StampOK'
  BY DEF StampOK, InTime, StampedWhenSeen
<1>7. LookOK'
  BY DEF LookOK, LooksOften
<1>8. QED
  BY <1>1, <1>4, <1>5, <1>6, <1>7, FreshTyped

\* The steps that touch neither the clock nor the tracks.
LEMMA AsideInv ==
    ASSUME IInv, Wake \/ Stop \/ Tick \/ UNCHANGED vars
    PROVE  IInv'
<1> USE DEF IInv, Wake, Stop, Tick, vars, reconnect, session, history
<1>1. /\ UNCHANGED <<first, started, cut, clock, sampler, offset, tracks, unseen, excused, attempt>>
      /\ written' = {} \/ written' = written
      /\ now' = now \/ now' = now + 1
      /\ stop' \in {stop, TRUE}
      /\ pc' = pc \/ (pc = "waiting" /\ pc' = "connect")
  OBVIOUS
<1>2. TypeOK'
  <2>1. {stop, first, cut, excused} \subseteq BOOLEAN
    BY Zenon DEF TypeOK
  <2>2. {stop', first', cut', excused'} \subseteq BOOLEAN
    BY <1>1, <2>1, Zenon
  <2>3. QED
    BY <1>1, <2>2 DEF TypeOK
<1>3. SceneOK'
  BY <1>1 DEF SceneOK, ScenesApart, Open
<1>4. StampOK'
  BY <1>1 DEF StampOK, InTime, Placed, StampedWhenSeen
<1>5. LookOK'
  BY <1>1 DEF LookOK, LooksOften
<1>6. QED
  BY <1>1, <1>2, <1>3, <1>4, <1>5

LEMMA NextInv == IInv /\ [Next]_vars => IInv'
<1> SUFFICES ASSUME IInv, [Next]_vars PROVE IInv'
  OBVIOUS
<1>1. CASE Sessions
  <2>1. CASE Connect
    BY <2>1, ConnectInv
  <2>2. CASE NoEndpoint \/ SessionEnds
    BY <2>2, BackoffInv
  <2>3. CASE BackoffOverflows \/ Stopping
    BY <2>3, FinishInv DEF BackoffOverflows, Stopping
  <2>4. CASE Wake
    BY <2>4, AsideInv
  <2>5. QED
    BY <1>1, <2>1, <2>2, <2>3, <2>4 DEF Sessions
<1>2. CASE Frames
  BY <1>2, FrameInv, FrameFailsInv DEF Frames
<1>3. CASE Stop \/ Tick \/ Ended \/ UNCHANGED vars
  BY <1>3, AsideInv DEF Ended
<1>4. QED
  BY <1>1, <1>2, <1>3 DEF Next

-------------------------------------------------------------------------------
\* The inductive invariant of the camera's thread.
THEOREM CameraInvariant == Spec => []IInv
<1>1. QED
  BY InitInv, NextInv, PTL DEF Spec

\* The clock, the sampler and the tracks keep their types.
THEOREM CameraTyped == Spec => []TypeOK
<1>1. IInv => TypeOK
  BY DEF IInv
<1>2. QED
  BY <1>1, CameraInvariant, PTL

\* ScenesApart: whatever the order of reconnects, loop points, content cuts, length
\* cuts and failing frames, no track joins two scenes unless its cut was dropped with
\* a frame.
THEOREM NoTrackJoinsScenes == Spec => []ScenesApart
<1>1. IInv => ScenesApart
  BY DEF IInv, SceneOK
<1>2. QED
  BY <1>1, CameraInvariant, PTL

\* StampedWhenSeen: the least delayed mapping only moves back, so on one timeline
\* nobody is stamped later than he was there, whatever timestamps come.
THEOREM NobodyStampedLate == Spec => []StampedWhenSeen
<1>1. IInv => StampedWhenSeen
  BY DEF IInv, StampOK
<1>2. QED
  BY <1>1, CameraInvariant, PTL

\* LooksOften: on a timeline that goes on, no frame an idle interval or the longest gap
\* after the last look is left out.
THEOREM LooksInTime == Spec => []LooksOften
<1>1. IInv => LooksOften
  BY DEF IInv, LookOK
<1>2. QED
  BY <1>1, CameraInvariant, PTL
===============================================================================
