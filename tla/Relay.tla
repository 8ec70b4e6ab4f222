-------------------------------- MODULE Relay ---------------------------------
(***************************************************************************)
(* The relay supervisor (services/relay/relay.py, class Supervisor): video *)
(* is pulled by one ffmpeg process per camera while somebody watches it.   *)
(* Requests of the API run in threads of their own, a daemon thread reaps  *)
(* idle and dead relays, and the service's lifespan stops them all.        *)
(*                                                                         *)
(* The lock covers _start, _touch and the two pops, so each is one step.   *)
(* What happens outside it is not atomic with them: a request asks the     *)
(* media server before it takes the lock; the reaper lists the relays,     *)
(* looks at each of them, and acts on what it saw in a step of its own;    *)
(* stop takes a relay out of the table before it terminates the process.   *)
(*                                                                         *)
(* Time is kept as ages that saturate: how long a relay has been `idle`,   *)
(* and how long ago the reaper's pass read its clock (`elapsed`).          *)
(* Relay.started_at and readers_seen are left out: last_reader_at is never *)
(* before started_at, so the reaper's grace for relays nobody has watched  *)
(* yet spares none that its idle test would not spare.                     *)
(***************************************************************************)
EXTENDS Integers, FiniteSets

CONSTANTS
    Cameras,     \* cameras that need a relay
    Playable,    \* those whose codec a browser can play as it stands
    Procs,       \* ffmpeg processes there may ever be, in the order they start
    Requests,    \* threads of the request pool
    Reaper,      \* the reaper's daemon thread
    Main,        \* the service's lifespan
    IdleTimeout, \* IDLE_TIMEOUT_S
    MaxPass,     \* bound on how long one pass of the reaper takes
    NoProc,      \* no process
    NoPath       \* no path

ASSUME RelayAssumption ==
    /\ Playable \subseteq Cameras
    /\ IdleTimeout \in Nat /\ MaxPass \in Nat
    /\ Procs \subseteq Nat /\ IsFiniteSet(Procs) /\ NoProc \notin Procs
    /\ Reaper \notin Requests /\ Main \notin Requests /\ Reaper # Main

Threads == Requests \cup {Reaper, Main}

\* A camera's own path on the media server, and its "-web" copy.
Paths == Cameras \X {"own", "web"}

\* The camera of a path.
Of(path) == path[1]

Limit == IdleTimeout + MaxPass + 1

VARIABLES
    relays,    \* Supervisor.relays
    exits,     \* Supervisor.exits, within its window
    stopping,  \* Supervisor._stop
    state,     \* what each process is doing
    serves,    \* Relay.camera_id and Relay.path
    idle,      \* time since Relay.last_reader_at
    feeds,     \* cameras somebody else publishes: the simulator, an encoder
    watched,   \* paths that have readers on the media server
    pc,        \* where each thread is
    hand,      \* the relay a thread in stop has taken out of the table
    goal,      \* the path a request wants to be ready
    todo,      \* relays the reaper's pass has not come to
    cur,       \* the relay it is at
    readers,   \* paths that had readers when the pass asked
    elapsed,   \* time since the pass read its clock
    ending,    \* cameras shutdown has not come to
    astray,    \* live processes the reaper threw out of the table
    process    \* "up" or "exited"

table    == <<relays, exits>>
relay    == <<serves, idle>>
outside  == <<feeds, watched>>
reaping  == <<todo, cur, readers, elapsed>>
shutting == <<stopping, ending, process>>
vars     == <<table, relay, outside, goal, reaping, shutting, state, pc, hand, astray>>

Goto(t, where) == pc' = [pc EXCEPT ![t] = where]

Camera(p) == Of(serves[p])

\* proc.poll() is None
Alive(p) == state[p] \in {"warming", "publishing", "terminated"}

Live == {p \in Procs : Alive(p)}

\* Paths the media server calls ready, given what runs and who else publishes.
Ready(st, others) ==
    {x \in Paths : \/ x[2] = "own" /\ x[1] \in others
                   \/ \E p \in Procs : st[p] = "publishing" /\ serves[p] = x}

\* A process changes state; readers of a path that is gone are disconnected.
Become(p, what) ==
    /\ state' = [state EXCEPT ![p] = what]
    /\ watched' = watched \cap Ready(state', feeds)

Init ==
    /\ relays = [c \in Cameras |-> NoProc]
    /\ exits = [c \in Cameras |-> 0]
    /\ stopping = FALSE /\ ending = {} /\ process = "up"
    /\ state = [p \in Procs |-> "unborn"]
    /\ serves = [p \in Procs |-> NoPath]
    /\ idle = [p \in Procs |-> 0]
    /\ feeds \in SUBSET Cameras /\ watched = {}
    /\ pc = [t \in Threads |-> IF t \in Requests THEN "free"
                               ELSE IF t = Reaper THEN "asleep" ELSE "serving"]
    /\ hand = [t \in Threads |-> NoProc]
    /\ goal = [r \in Requests |-> NoPath]
    /\ todo = {} /\ cur = NoProc /\ readers = {} /\ elapsed = 0
    /\ astray = {}

-------------------------------------------------------------------------------
(* ensure                                                                   *)

\* What GET /v3/paths/list answers; nothing, if the server is unreachable.
Answers(truth) == {truth, {}}

\* Where the browser will be told to play: the camera's own path, or a copy of
\* it if that path is there and the browser cannot decode it.
PlayPath(c, ready) ==
    <<c, IF <<c, "own">> \in ready /\ c \notin Playable THEN "web" ELSE "own">>

\* A request comes in and asks the media server: the path is ready, or it has
\* to be started.
Ask(r) ==
    /\ pc[r] = "free" /\ process = "up" /\ ~stopping
    /\ \E c \in Cameras, ready \in Answers(Ready(state, feeds)) :
          LET path == PlayPath(c, ready)
          IN  /\ goal' = [goal EXCEPT ![r] = path]
              /\ Goto(r, IF path \in ready THEN "touch" ELSE "start")
    /\ UNCHANGED <<table, relay, outside, reaping, shutting, state, hand, astray>>

\* The relay the table has for the camera of a request.
Existing(r) == relays[Of(goal[r])]

Done(r) == goal' = [goal EXCEPT ![r] = NoPath] /\ Goto(r, "free")

StillWanted(p) == idle' = [idle EXCEPT ![p] = 0]

\* "already publishing": _touch, under the lock.
Touch(r) ==
    /\ pc[r] = "touch"
    /\ IF Existing(r) # NoProc THEN StillWanted(Existing(r)) ELSE UNCHANGED idle
    /\ Done(r)
    /\ UNCHANGED <<table, serves, outside, reaping, shutting, state, hand, astray>>

\* _start found a live relay of this camera, whatever path it publishes.
StartFindsOne(r) ==
    /\ pc[r] = "start" /\ Existing(r) \in Live
    /\ StillWanted(Existing(r))
    /\ Done(r)
    /\ UNCHANGED <<table, serves, outside, reaping, shutting, state, hand, astray>>

Unborn == {p \in Procs : state[p] = "unborn"}

Launch(r) ==
    /\ \E p \in Unborn :
          /\ \A q \in Unborn : p <= q
          /\ state' = [state EXCEPT ![p] = "warming"]
          /\ serves' = [serves EXCEPT ![p] = goal[r]]
          /\ relays' = [relays EXCEPT ![Of(goal[r])] = p]
    /\ Done(r)
    /\ UNCHANGED <<exits, idle, outside, reaping, shutting, hand, astray>>

\* Mutant: _start does not look for an existing relay.
StartAlways(r) == pc[r] = "start" /\ Launch(r)

\* _start: no relay, or a dead one. The wait for the path to become ready that
\* follows only polls.
Start(r) ==
    /\ pc[r] = "start" /\ Existing(r) \notin Live
    /\ Launch(r)

\* Popen failed; the request is answered with an error.
StartFails(r) ==
    /\ pc[r] = "start" /\ Existing(r) \notin Live
    /\ Done(r)
    /\ UNCHANGED <<table, relay, outside, reaping, shutting, state, hand, astray>>

-------------------------------------------------------------------------------
(* stop, by a goal, the reaper or shutdown                               *)

\* Mutant: the relay stays in the table until its process is gone.
PopLater(t, c, done) ==
    /\ hand' = [hand EXCEPT ![t] = relays[c]]
    /\ UNCHANGED relays
    /\ Goto(t, IF relays[c] = NoProc THEN done ELSE "terminate")

\* The relay is taken out of the table, under the lock.
Pop(t, c, done) ==
    /\ hand' = [hand EXCEPT ![t] = relays[c]]
    /\ relays' = [relays EXCEPT ![c] = NoProc]
    /\ Goto(t, IF relays[c] = NoProc THEN done ELSE "terminate")

StopRequest(r) ==
    /\ pc[r] = "free" /\ process = "up" /\ ~stopping
    /\ \E c \in Cameras : Pop(r, c, "free")
    /\ UNCHANGED <<exits, relay, outside, goal, reaping, shutting, state, astray>>

Terminate(t) ==
    /\ pc[t] = "terminate"
    /\ IF Alive(hand[t]) THEN Become(hand[t], "terminated") ELSE UNCHANGED <<state, watched>>
    /\ Goto(t, "wait")
    /\ UNCHANGED <<table, relay, feeds, goal, reaping, shutting, hand, astray>>

AfterStop(t) == IF t = Reaper THEN "pass" ELSE IF t = Main THEN "ending" ELSE "free"

\* Mutant: a process that outlives the five seconds is not killed.
WaitedNoKill(t) ==
    /\ pc[t] = "wait"
    /\ Become(hand[t], "dead") \/ UNCHANGED <<state, watched>>
    /\ hand' = [hand EXCEPT ![t] = NoProc]
    /\ Goto(t, AfterStop(t))
    /\ UNCHANGED <<table, relay, feeds, goal, reaping, shutting, astray>>

\* The process ends within the five seconds of wait, or is killed.
Waited(t) ==
    /\ pc[t] = "wait"
    /\ Become(hand[t], "dead")
    /\ hand' = [hand EXCEPT ![t] = NoProc]
    /\ Goto(t, AfterStop(t))
    /\ UNCHANGED <<table, relay, feeds, goal, reaping, shutting, astray>>

Stopping(t) == Terminate(t) \/ Waited(t)
-------------------------------------------------------------------------------
(* reap                                                                     *)

\* Who has readers is asked, the clock is read, the table listed without the
\* lock.
ReapList ==
    /\ pc[Reaper] = "asleep" /\ ~stopping
    /\ todo' = {relays[c] : c \in Cameras} \ {NoProc}
    /\ readers' \in Answers(watched \cap {serves[p] : p \in todo'})
    /\ elapsed' = 0
    /\ Goto(Reaper, "pass")
    /\ UNCHANGED <<cur, table, relay, outside, goal, shutting, state, hand, astray>>

Look(p) == pc[Reaper] = "pass" /\ p \in todo /\ todo' = todo \ {p}

\* Mutant: a dead relay is looked at again in the same pass.
ReapDeadAgain(p) ==
    /\ pc[Reaper] = "pass" /\ p \in todo /\ ~Alive(p)
    /\ cur' = p
    /\ Goto(Reaper, "bury")
    /\ UNCHANGED <<todo, readers, elapsed, table, relay, outside, goal, shutting, state, hand,
                   astray>>

\* A dead relay: its last words are read and logged before the lock is taken.
ReapDead(p) ==
    /\ Look(p) /\ ~Alive(p)
    /\ cur' = p
    /\ Goto(Reaper, "bury")
    /\ UNCHANGED <<readers, elapsed, table, relay, outside, goal, shutting, state, hand,
                   astray>>

\* Mutant: the table is cleared of the camera and its exit is taken back.
BuryForgiven ==
    /\ pc[Reaper] = "bury"
    /\ relays' = [relays EXCEPT ![Camera(cur)] = NoProc]
    /\ exits' = [exits EXCEPT ![Camera(cur)] = @ - 1]
    /\ cur' = NoProc
    /\ Goto(Reaper, "pass")
    /\ UNCHANGED <<todo, readers, elapsed, relay, outside, goal, shutting, state, hand, astray>>

\* The camera is popped: whatever relay it has by now.
Bury ==
    /\ pc[Reaper] = "bury"
    /\ relays' = [relays EXCEPT ![Camera(cur)] = NoProc]
    /\ exits' = [exits EXCEPT ![Camera(cur)] = @ + 1]
    /\ astray' = astray \cup {p \in Procs : relays[Camera(cur)] = p /\ Alive(p)}
    /\ cur' = NoProc
    /\ Goto(Reaper, "pass")
    /\ UNCHANGED <<todo, readers, elapsed, relay, outside, goal, shutting, state, hand>>

\* last_reader_at = now, and the pass's clock may be behind a newer touch.
ReapWatched(p) ==
    /\ Look(p) /\ Alive(p) /\ serves[p] \in readers
    /\ idle' = [idle EXCEPT ![p] = elapsed]
    /\ UNCHANGED <<cur, readers, elapsed, table, serves, outside, goal, shutting, state, pc,
                   hand, astray>>

Spared(p) == idle[p] - elapsed <= IdleTimeout

ReapSpares(p) ==
    /\ Look(p) /\ Alive(p) /\ serves[p] \notin readers /\ Spared(p)
    /\ UNCHANGED <<cur, readers, elapsed, table, relay, outside, goal, shutting, state, pc,
                   hand, astray>>

\* "relay idle, stopping" is logged; the stop is a later step.
ReapIdle(p) ==
    /\ Look(p) /\ Alive(p) /\ serves[p] \notin readers /\ ~Spared(p)
    /\ cur' = p
    /\ Goto(Reaper, "drop")
    /\ UNCHANGED <<readers, elapsed, table, relay, outside, goal, shutting, state, hand,
                   astray>>

\* self.stop(camera_id): again by camera, not by relay.
ReapStop ==
    /\ pc[Reaper] = "drop"
    /\ Pop(Reaper, Camera(cur), "pass")
    /\ cur' = NoProc
    /\ UNCHANGED <<exits, todo, readers, elapsed, relay, outside, goal, shutting, state,
                   astray>>

ReapEnds ==
    /\ pc[Reaper] = "pass" /\ todo = {}
    /\ elapsed' = 0 /\ readers' = {}
    /\ Goto(Reaper, "asleep")
    /\ UNCHANGED <<todo, cur, table, relay, outside, goal, shutting, state, hand, astray>>

Reap == \/ ReapList \/ Bury \/ ReapStop \/ ReapEnds
        \/ \E p \in Procs : ReapDead(p) \/ ReapWatched(p) \/ ReapSpares(p) \/ ReapIdle(p)

-------------------------------------------------------------------------------
(* shutdown                                                                 *)

\* The server has answered its last request; _stop is set and the table listed.
Shutdown ==
    /\ pc[Main] = "serving" /\ \A r \in Requests : pc[r] = "free"
    /\ stopping' = TRUE
    /\ ending' = {c \in Cameras : relays[c] # NoProc}
    /\ Goto(Main, "ending")
    /\ UNCHANGED <<process, table, relay, outside, goal, reaping, state, hand, astray>>

ShutdownStops(c) ==
    /\ pc[Main] = "ending" /\ c \in ending
    /\ ending' = ending \ {c}
    /\ Pop(Main, c, "ending")
    /\ UNCHANGED <<stopping, process, exits, relay, outside, goal, reaping, state, astray>>

\* Mutant: the process does not wait for its relays to be stopped.
ExitsAtOnce ==
    /\ pc[Main] = "ending"
    /\ process' = "exited"
    /\ pc' = [t \in Threads |-> "gone"]
    /\ UNCHANGED <<stopping, ending, table, relay, outside, goal, reaping, state, hand, astray>>

\* The daemon thread ends with the process, wherever it is.
Exits ==
    /\ pc[Main] = "ending" /\ ending = {}
    /\ process' = "exited"
    /\ pc' = [t \in Threads |-> "gone"]
    /\ UNCHANGED <<stopping, ending, table, relay, outside, goal, reaping, state, hand, astray>>

-------------------------------------------------------------------------------
(* ffmpeg, the media server, its readers, and time                          *)

Publish(p) ==
    /\ state[p] = "warming"
    /\ Become(p, "publishing")
    /\ UNCHANGED <<table, relay, feeds, goal, reaping, shutting, pc, hand, astray>>

Die(p) ==
    /\ Alive(p)
    /\ Become(p, "dead")
    /\ UNCHANGED <<table, relay, feeds, goal, reaping, shutting, pc, hand, astray>>

FeedChanges(c) ==
    /\ process = "up"
    /\ feeds' = IF c \in feeds THEN feeds \ {c} ELSE feeds \cup {c}
    /\ watched' = watched \cap Ready(state, feeds')
    /\ UNCHANGED <<table, relay, goal, reaping, shutting, state, pc, hand, astray>>

\* A reader comes to a relayed path, or leaves it.
Watch(x) ==
    /\ process = "up" /\ x \in {serves[p] : p \in {q \in Procs : state[q] = "publishing"}}
    /\ watched' = IF x \in watched THEN watched \ {x} ELSE watched \cup {x}
    /\ UNCHANGED <<feeds, table, relay, goal, reaping, shutting, state, pc, hand, astray>>

InPass == pc[Reaper] \in {"pass", "bury", "drop", "terminate", "wait"}

Older(n) == IF n < Limit THEN n + 1 ELSE n

Tick ==
    /\ process = "up"
    /\ InPass => elapsed < MaxPass
    /\ elapsed' = IF InPass THEN elapsed + 1 ELSE elapsed
    /\ idle' = [p \in Procs |-> IF Alive(p) THEN Older(idle[p]) ELSE 0]
    /\ UNCHANGED <<serves, todo, cur, readers, table, outside, goal, shutting, state,
                   pc, hand, astray>>

-------------------------------------------------------------------------------
Ensure(r) == Touch(r) \/ StartFindsOne(r) \/ Start(r) \/ StartFails(r)

Request(r) == Ask(r) \/ Ensure(r) \/ StopRequest(r)

Ending == Shutdown \/ Exits \/ \E c \in Cameras : ShutdownStops(c)

Outside == \/ \E p \in Procs : Publish(p) \/ Die(p)
           \/ \E c \in Cameras : FeedChanges(c)
           \/ \E x \in Paths : Watch(x)
           \/ Tick

\* The service is gone; what it left running may still end.
Over == process = "exited" /\ UNCHANGED vars

Next == \/ \E r \in Requests : Request(r)
        \/ \E t \in Threads : Stopping(t)
        \/ Reap
        \/ Ending
        \/ Outside
        \/ Over

Spec == Init /\ [][Next]_vars

(***************************************************************************)
(* The reaper, shutdown once it has begun, and a thread inside stop run    *)
(* when they can, and time passes whatever they do. Nobody has to ask,     *)
(* watch, publish or die, and the media server need not be reachable.      *)
(***************************************************************************)
Fairness ==
    /\ SF_vars(Tick)
    /\ WF_vars(Reap \/ Stopping(Reaper))
    /\ WF_vars(Exits \/ Stopping(Main) \/ \E c \in Cameras : ShutdownStops(c))
    /\ \A r \in Requests : WF_vars(Stopping(r))

FairSpec == Spec /\ Fairness

-------------------------------------------------------------------------------
(* Properties                                                               *)

\* The values the supervisor's state ranges over.
TypeOK ==
    /\ relays \in [Cameras -> Procs \cup {NoProc}]
    /\ exits \in [Cameras -> Nat]
    /\ stopping \in BOOLEAN /\ ending \subseteq Cameras /\ process \in {"up", "exited"}
    /\ state \in [Procs -> {"unborn", "warming", "publishing", "terminated", "dead"}]
    /\ serves \in [Procs -> Paths \cup {NoPath}]
    /\ idle \in [Procs -> 0..Limit]
    /\ feeds \subseteq Cameras /\ watched \subseteq Paths
    /\ pc \in [Threads -> {"free", "touch", "start", "terminate", "wait", "asleep", "pass",
                           "bury", "drop", "serving", "ending", "gone"}]
    /\ hand \in [Threads -> Procs \cup {NoProc}]
    /\ goal \in [Requests -> Paths \cup {NoPath}]
    /\ todo \subseteq Procs /\ cur \in Procs \cup {NoProc}
    /\ readers \subseteq Paths /\ elapsed \in 0..MaxPass
    /\ astray \subseteq Procs

Registered(p) == \E c \in Cameras : relays[c] = p
InHand(p)     == \E t \in Threads : hand[t] = p

\* Every process that pulls video can be found again: it is in the table, or
\* with a thread that is stopping it; the one way out is a reaper that buries a
\* dead relay after a request has replaced it.
PullsAccounted ==
    \A p \in Procs : Alive(p) => Registered(p) \/ InHand(p) \/ p \in astray

\* A relay is stopped once: no two threads hold the same one, and the table
\* does not hand out one that is being stopped.
StoppedByOne ==
    \A t \in Threads : hand[t] # NoProc =>
        /\ ~Registered(hand[t])
        /\ \A u \in Threads \ {t} : hand[u] # hand[t]

\* After shutdown the table is empty and no process runs that shutdown itself
\* could have stopped: only the reaper's, if it was in the middle of a stop.
NothingServedAfterExit ==
    process = "exited" =>
        /\ \A p \in Procs : ~Registered(p)
        /\ \A p \in Procs : Alive(p) => p \in astray \/ hand[Reaper] = p

\* A death is counted towards "unstable" at most once, whoever replaces or
\* stops the relay while the reaper is at it.
DeathsCountedOnce ==
    \A c \in Cameras :
        exits[c] <= Cardinality({p \in Procs : state[p] = "dead" /\ Camera(p) = c})

Wanted(p) ==
    \/ serves[p] \in watched
    \/ \E r \in Requests : pc[r] \in {"touch", "start"} /\ Of(goal[r]) = Camera(p)

\* Video is pulled only while somebody watches or asks for it: every process
\* nobody wants any more ends, unless the reaper lost it.
PullsEnd ==
    \A p \in Procs : []<>(~Alive(p) \/ Wanted(p) \/ p \in astray \/ process = "exited")

\* relay.py:458-460: "Every relay is a live ffmpeg holding an upstream
\* connection open.  Leaving them behind on shutdown would keep pulling video
\* for a service that no longer exists."  The reaper buries by camera, and
\* throws a relay started meanwhile out of the table, alive.
NoneLeftBehind ==
    process = "exited" => \A p \in Procs : Alive(p) => hand[Reaper] = p
===============================================================================
