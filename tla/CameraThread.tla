----------------------------- MODULE CameraThread -----------------------------
(***************************************************************************)
(* The thread of one camera: the sessions LiveCapture opens and reopens    *)
(* (services/anpr/capture.py), the timeline PtsClock gives their frames,   *)
(* the sampler that decides which frames are analysed (sampling.py), the   *)
(* tracks open on the scene (tracks.py, pipeline.py) and what the worker   *)
(* does with them at a cut (worker.py _on_frame, _on_discontinuity,        *)
(* _seen_at).                                                              *)
(*                                                                         *)
(* Everything but `stop` and the clock belongs to this thread, so a frame  *)
(* is one step.  What the stream delivers is free: any timestamp of        *)
(* Readings, a cut, motion, vehicles, a frame that makes the analysis      *)
(* raise, or the end of the session (failed reads and stalls are           *)
(* abstracted to that verdict).  Wall and monotonic time are one clock,    *)
(* `now`, in ticks of the busy analysis interval.                          *)
(***************************************************************************)
EXTENDS Integers, FiniteSets

CONSTANTS
    Vehicles,     \* track ids the tracker hands out, reused after a reset
    NoTrack,      \* no entry of TrackRegistry.tracks
    None,         \* None
    Readings,     \* CAP_PROP_POS_MSEC, with 0 for "nothing to say"
    Regression,   \* PTS_REGRESSION_S
    Jump,         \* PTS_JUMP_S
    ProbeFrames,  \* PtsClock.probe_frames
    Healthy,      \* SESSION_HEALTHY_S
    LastExponent, \* largest attempt base_s * 2**attempt can still represent
    BusyGap,      \* 1 / SamplerConfig.max_hz
    IdleGap,      \* 1 / SamplerConfig.min_hz
    Hold,         \* SamplerConfig.hold_s
    MaxGap,       \* SamplerConfig.max_gap_s
    IdleTimeout,  \* IDLE_TIMEOUT_S
    MaxDuration,  \* MAX_TRACK_DURATION_S
    MaxNow,       \* bound: the ticks a behaviour lasts
    MaxMedia      \* bound: the media time of a session

\* An entry of TrackRegistry.tracks.  `sawAt`, `scene` and `timeline` are history: when
\* the vehicle was really seen, and whether that was in this scene and on this timeline.
Track == [first : Int, last : Int, sawAt : Int,
          scene : {"this", "past", "missed"}, timeline : {"this", "past"}]

ASSUME CameraAssumption ==
    /\ Readings \subseteq Nat
    /\ {Regression, Jump, ProbeFrames, Healthy, LastExponent, MaxNow, MaxMedia} \subseteq Nat
    /\ {BusyGap, IdleGap, Hold, MaxGap, IdleTimeout, MaxDuration} \subseteq Nat \ {0}
    /\ BusyGap <= IdleGap
    /\ None \notin Int /\ NoTrack \notin Track

VARIABLES
    now,       \* time.monotonic() and time.time()
    stop,      \* the stop event
    pc,        \* "connect", "waiting", "reading" or "ended"
    attempt,   \* Backoff.attempt
    first,     \* no session has been finished yet (first_session)
    started,   \* when this session was opened
    cut,       \* pending_cut
    clock,     \* this session's PtsClock
    sampler,   \* AdaptiveSampler: last_analysed_at and busy_until
    offset,    \* CameraWorker.wall_offset
    tracks,    \* TrackRegistry.tracks
    written,   \* what the last step handed to _persist
    unseen,    \* history: media time that has passed since the last look
    excused    \* history: since then the timeline went back or a frame failed

reconnect == <<attempt, first>>
session   == <<started, cut, clock>>
history   == <<unseen, excused>>
vars      == <<now, stop, pc, reconnect, session, sampler, offset, tracks, written, history>>

-------------------------------------------------------------------------------
(* PtsClock                                                                 *)

FreshClock == [elapsed |-> 0, last |-> None, usable |-> "undecided",
               firstMono |-> None, anchor |-> None, frames |-> 0]

\* _decide_usability: settled by the first timestamp, or by enough frames
\* without one.
Usable(c, r) ==
    IF c.usable # "undecided" THEN c.usable
    ELSE IF r > 0 THEN "yes"
    ELSE IF c.frames + 1 >= ProbeFrames THEN "no"
    ELSE "undecided"

\* No timestamp on this frame, or none worth anything on this stream.
Untimed(c, r) == Usable(c, r) = "no" \/ r = 0

\* The loop point, or a restart.
Leap(c, r) ==
    /\ ~Untimed(c, r) /\ c.last # None
    /\ r - c.last < -Regression \/ r - c.last > Jump

Larger(a, b) == IF a > b THEN a ELSE b

Smaller(a, b) == IF a < b THEN a ELSE b

Elapsed(c, r) ==
    IF Untimed(c, r) THEN IF c.firstMono = None THEN 0 ELSE now - c.firstMono
    ELSE IF c.last = None \/ Leap(c, r) THEN c.elapsed
    ELSE c.elapsed + Larger(0, r - c.last)

\* Mutant: the latest mapping of media time instead of the least delayed one.
LatestAnchor(c, r) ==
    IF Untimed(c, r) THEN c.anchor ELSE now - Elapsed(c, r)

\* The least delayed mapping of media time to the wall clock of this segment.
Anchor(c, r) ==
    LET observed == now - Elapsed(c, r)
    IN  IF Untimed(c, r) THEN c.anchor
        ELSE IF c.anchor = None \/ Leap(c, r) \/ observed < c.anchor THEN observed
        ELSE c.anchor

\* observe: the clock after a frame whose timestamp reads r.
Observe(c, r) ==
    [elapsed   |-> Elapsed(c, r),
     last      |-> IF Untimed(c, r) THEN c.last ELSE r,
     usable    |-> Usable(c, r),
     firstMono |-> IF c.firstMono = None THEN now ELSE c.firstMono,
     anchor    |-> Anchor(c, r),
     frames    |-> IF Usable(c, r) = "undecided" THEN c.frames + 1 ELSE 0]

\* The frame's wall_ts - monotonic_s.
Offset(c, r) ==
    IF Untimed(c, r) THEN now - Elapsed(c, r) ELSE Anchor(c, r)

-------------------------------------------------------------------------------
(* AdaptiveSampler.should_analyse at media time t                           *)

BusyUntil(t, busy) == IF busy THEN t + Hold ELSE sampler.busyUntil

Takes(t, busy) ==
    sampler.last # None =>
        \/ t - sampler.last >= IF t < BusyUntil(t, busy) THEN BusyGap ELSE IdleGap
        \/ t - sampler.last >= MaxGap

\* Mutant: the time is taken whether or not the frame is.
SampledAlways(t, busy) == [last |-> t, busyUntil |-> BusyUntil(t, busy)]

Sampled(t, busy) ==
    [last |-> IF Takes(t, busy) THEN t ELSE sampler.last,
     busyUntil |-> BusyUntil(t, busy)]

-------------------------------------------------------------------------------
(* TrackRegistry                                                            *)

NoTracks == [v \in Vehicles |-> NoTrack]

Open(ts) == {v \in Vehicles : ts[v] # NoTrack}

\* observe.
Seen(ts, vs, t, timeline) ==
    [v \in Vehicles |->
        IF v \notin vs THEN ts[v]
        ELSE [first |-> IF ts[v] = NoTrack THEN t ELSE ts[v].first,
              last |-> t, sawAt |-> now, scene |-> "this", timeline |-> timeline]]

LeftFrame(k, t) == t - k.last >= IdleTimeout

TooLong(k, t) == ~LeftFrame(k, t) /\ k.last - k.first >= MaxDuration

Finished(ts, t) == {v \in Open(ts) : LeftFrame(ts[v], t) \/ TooLong(ts[v], t)}

\* harvest: a track cut for length starts again at t, still last seen when it
\* was.
Harvested(ts, t) ==
    [v \in Vehicles |->
        IF v \notin Finished(ts, t) THEN ts[v]
        ELSE IF TooLong(ts[v], t) THEN [ts[v] EXCEPT !.first = t]
        ELSE NoTrack]

\* _seen_at: what a track is stamped with.
SeenAt(k, off) == off + k.last

\* A sighting as the properties look at it: was it stamped later than its
\* vehicle was there, or later than the present?
Sighting(k, off) ==
    [timeline |-> k.timeline, late |-> SeenAt(k, off) > k.sawAt, ahead |-> SeenAt(k, off) > now]

Sightings(ts, vs, off) == {Sighting(ts[v], off) : v \in vs}

-------------------------------------------------------------------------------
Init ==
    /\ now = 1 /\ stop = FALSE /\ pc = "connect"
    /\ attempt = 0 /\ first = TRUE
    /\ started = 0 /\ cut = FALSE /\ clock = FreshClock
    /\ sampler = [last |-> None, busyUntil |-> 0]
    /\ offset = 0 /\ tracks = NoTracks /\ written = {}
    /\ unseen = 0 /\ excused = FALSE

\* History: tracks whose scene, or whose timeline, is over.
Aged(ts, sceneOver, timelineOver) ==
    [v \in Vehicles |->
        IF ts[v] = NoTrack THEN NoTrack
        ELSE [ts[v] EXCEPT !.scene = IF sceneOver THEN "past" ELSE @,
                           !.timeline = IF timelineOver THEN "past" ELSE @]]

\* frames: _connect (and _extend) opened an endpoint.
Connect ==
    /\ pc = "connect" /\ ~stop
    /\ pc' = "reading" /\ started' = now /\ cut' = ~first /\ clock' = FreshClock
    /\ tracks' = Aged(tracks, TRUE, TRUE)
    /\ written' = {} /\ excused' = TRUE
    /\ UNCHANGED <<now, stop, reconnect, sampler, offset, unseen>>

\* What a session keeps goes with it.
NoSession == started' = 0 /\ cut' = FALSE /\ clock' = FreshClock

\* Mutant: the thread ends without its finally.
FinishUnflushed ==
    /\ pc' = "ended" /\ written' = {}
    /\ NoSession
    /\ UNCHANGED <<now, stop, sampler, offset, tracks, history>>

\* run's finally: every open track is written with the offset there is.
Finish ==
    /\ pc' = "ended" /\ tracks' = NoTracks
    /\ written' = Sightings(tracks, Open(tracks), offset)
    /\ NoSession
    /\ UNCHANGED <<now, stop, sampler, offset, history>>

\* Backoff.next_delay, before a wait for the next attempt.
Backoff ==
    /\ attempt <= LastExponent
    /\ attempt' = attempt + 1 /\ pc' = "waiting"
    /\ NoSession
    /\ written' = {}
    /\ UNCHANGED <<now, stop, sampler, offset, tracks, history>>

\* Nothing on the ladder opened.
NoEndpoint == pc = "connect" /\ ~stop /\ Backoff /\ UNCHANGED first

\* Too many failed reads, or none for too long.
SessionEnds == pc = "reading" /\ ~stop /\ Backoff /\ first' = FALSE

\* 2**attempt is too large for a float: OverflowError out of the generator.
BackoffOverflows ==
    /\ pc \in {"connect", "reading"} /\ ~stop /\ attempt > LastExponent
    /\ Finish
    /\ UNCHANGED reconnect

Wake ==
    /\ pc = "waiting"
    /\ pc' = "connect"
    /\ written' = {}
    /\ UNCHANGED <<now, stop, reconnect, session, sampler, offset, tracks, history>>

\* The stop event, looked at between frames and before every connection.
Stopping ==
    /\ pc \in {"connect", "reading"} /\ stop
    /\ Finish
    /\ UNCHANGED reconnect

-------------------------------------------------------------------------------
(* One frame                                                                *)

\* Mutant: a healthy session takes one attempt back, even when there is none.
DecodeForgivesOne(r) ==
    /\ pc = "reading" /\ ~stop
    /\ Elapsed(clock, r) <= MaxMedia
    /\ clock' = Observe(clock, r)
    /\ attempt' = IF now - started >= Healthy THEN attempt - 1 ELSE attempt
    /\ cut' = FALSE
    /\ offset' = Offset(clock, r)
    /\ UNCHANGED <<now, stop, pc, first, started>>

\* The timestamp is folded into the clock, a healthy session forgives the
\* attempts it took, and the frame carries the cut that was pending.
Decode(r) ==
    /\ pc = "reading" /\ ~stop
    /\ Elapsed(clock, r) <= MaxMedia
    /\ clock' = Observe(clock, r)
    /\ attempt' = IF now - started >= Healthy THEN 0 ELSE attempt
    /\ cut' = FALSE
    /\ offset' = Offset(clock, r)
    /\ UNCHANGED <<now, stop, pc, first, started>>

Flagged(r) == cut \/ Leap(clock, r)

\* A frame without a timestamp on a stream that has them is placed by arrival.
Strays(r) == Untimed(clock, r) /\ clock.usable = "yes"

\* The timeline the open tracks were seen on has been left.
NewTimeline(r) == Leap(clock, r) \/ Strays(r) \/ (~Untimed(clock, r) /\ clock.last = None)

Timeline(r) == IF Strays(r) THEN "past" ELSE "this"

StepsBack(r) == Elapsed(clock, r) < clock.elapsed

\* History: the sampler was asked at media time t.
Looked(r, looks) ==
    /\ unseen' = IF looks THEN 0
                 ELSE Smaller(MaxGap + 1, unseen + Larger(0, Elapsed(clock, r) - clock.elapsed))
    /\ excused' = (~looks /\ (excused \/ StepsBack(r)))

\* The scene the open tracks were seen in is over.
SceneOver(r, sceneCut) == Leap(clock, r) \/ sceneCut

\* Mutant: the tracker's ids are reset at a cut, the tracks are not.
KeptTracks(r, sceneCut) == Aged(tracks, SceneOver(r, sceneCut), NewTimeline(r))

\* _on_discontinuity flushes the tracks of the scene that ended.
CutTracks(r, sceneCut) ==
    IF Flagged(r) \/ sceneCut THEN NoTracks
    ELSE Aged(tracks, SceneOver(r, sceneCut), NewTimeline(r))

CutSightings(r, sceneCut) ==
    IF Flagged(r) \/ sceneCut
    THEN Sightings(Aged(tracks, FALSE, NewTimeline(r)), Open(tracks), offset') ELSE {}

\* _on_frame to its end: process analyses the frame or only harvests.
Frame(r, sceneCut, motion, vs) ==
    LET t     == Elapsed(clock, r)
        ts    == CutTracks(r, sceneCut)
        busy  == motion \/ Open(ts) # {}
        looks == Takes(t, busy)
        after == Seen(ts, vs, t, Timeline(r))
    IN  /\ Decode(r)
        /\ vs # {} => looks
        /\ sampler' = Sampled(t, busy)
        /\ tracks' = Harvested(after, t)
        /\ written' = CutSightings(r, sceneCut)
                      \cup Sightings(after, Finished(after, t), offset')
        /\ Looked(r, looks)

\* History: tracks that outlive their scene because its cut was dropped.
Missed(ts) == [v \in Vehicles |->
    IF ts[v] # NoTrack /\ ts[v].scene = "past" THEN [ts[v] EXCEPT !.scene = "missed"] ELSE ts[v]]

\* The frame's statistics raise: it is dropped, with the cut it may carry.
FrameFails(r) ==
    /\ Decode(r)
    /\ tracks' = Missed(Aged(tracks, SceneOver(r, FALSE), NewTimeline(r)))
    /\ written' = {} /\ excused' = TRUE
    /\ UNCHANGED <<sampler, unseen>>

\* The analysis raises after it has observed some of the vehicles: nothing is
\* harvested on this frame.
AnalysisFails(r, sceneCut, motion, vs) ==
    LET t    == Elapsed(clock, r)
        ts   == CutTracks(r, sceneCut)
        busy == motion \/ Open(ts) # {}
    IN  /\ Decode(r)
        /\ Takes(t, busy)
        /\ sampler' = Sampled(t, busy)
        /\ tracks' = Seen(ts, vs, t, Timeline(r))
        /\ written' = CutSightings(r, sceneCut)
        /\ Looked(r, TRUE)

-------------------------------------------------------------------------------
\* The main loop sets the stop event.
Stop ==
    /\ ~stop /\ stop' = TRUE
    /\ UNCHANGED <<now, pc, reconnect, session, sampler, offset, tracks, written, history>>

Tick ==
    /\ now < MaxNow /\ pc # "ended"
    /\ now' = now + 1
    /\ UNCHANGED <<stop, pc, reconnect, session, sampler, offset, tracks, written, history>>

Sessions == Connect \/ NoEndpoint \/ SessionEnds \/ BackoffOverflows \/ Wake \/ Stopping

Frames ==
    \E r \in Readings :
        \/ FrameFails(r)
        \/ \E sceneCut, motion \in BOOLEAN, vs \in SUBSET Vehicles :
              Frame(r, sceneCut, motion, vs) \/ AnalysisFails(r, sceneCut, motion, vs)

Ended == pc = "ended" /\ UNCHANGED vars

Next == Sessions \/ Frames \/ Stop \/ Tick \/ Ended

\* The thread goes on as long as it lives: no read blocks longer than the socket
\* timeout, and every wait is on the stop event.
Spec == Init /\ [][Next]_vars /\ WF_vars(Sessions)

-------------------------------------------------------------------------------
(* Properties                                                               *)

\* The values of the capture, the sampler and the tracks.
TypeOK ==
    /\ now \in Nat /\ started \in Nat /\ attempt \in 0..(LastExponent + 1)
    /\ {stop, first, cut, excused} \subseteq BOOLEAN
    /\ pc \in {"connect", "waiting", "reading", "ended"}
    /\ clock \in [elapsed : Int, last : Nat \cup {None}, usable : {"undecided", "yes", "no"},
                  firstMono : Nat \cup {None}, anchor : Int \cup {None}, frames : Nat]
    /\ sampler \in [last : Int \cup {None}, busyUntil : Int]
    /\ offset \in Int /\ unseen \in Nat
    /\ tracks \in [Vehicles -> Track \cup {NoTrack}]
    /\ written \subseteq [timeline : {"this", "past"}, late : BOOLEAN, ahead : BOOLEAN]

\* No track outlives its scene, so none joins vehicles of two, although the
\* tracker reuses its ids and reconnects, loop points, content cuts and length
\* cuts come in any order: once a session has delivered a frame, only tracks
\* whose cut was on a frame that failed are older than the scene.
ScenesApart ==
    clock.firstMono # None => \A v \in Open(tracks) : tracks[v].scene # "past"

\* A sighting whose vehicle was seen on the timeline the camera is still on is
\* never stamped later than the vehicle was really there: not by a buffered
\* replay at join, a length cut, or a late harvest.
StampedWhenSeen ==
    \A s \in written : s.timeline = "this" => ~s.late

\* "Never go longer than this without looking, whatever the scene says": as long
\* as the timeline has not gone back since the last look, no frame that arrives
\* a full idle interval of media time after it goes unanalysed.
LooksOften == ~excused => unseen < IdleGap /\ unseen < MaxGap

\* A camera told to stop stops, wherever it is between sessions, and leaves no
\* open track behind.
StopEnds == stop ~> (pc = "ended" /\ tracks = NoTracks)

\* sampling.py:42-43, as it stands.  A reconnect restarts media time at zero and
\* leaves last_analysed_at where it was.
NeverBlind == unseen <= MaxGap

\* worker.py:626-628: a vehicle is stamped with its own last-seen instant.
\* Tracks left open by a session that ended are stamped with the next one's
\* offset.
SeenInThePast == \A s \in written : ~s.ahead

\* capture.py:430: a camera is read "across reconnects, forever", until stopped.
ReadsForever == pc = "ended" => stop
===============================================================================
