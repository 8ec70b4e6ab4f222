----------------------------- MODULE Relay_proofs -----------------------------
(***************************************************************************)
(* The safety properties of the relay supervisor for any number of         *)
(* cameras, requests and processes, and any timeouts.  All follow from one *)
(* inductive invariant, IInv.                                              *)
(***************************************************************************)
EXTENDS Relay, FiniteSetTheorems, TLAPS

\* Where each kind of thread can be, and what it has with it there.
Places ==
    /\ \A r \in Requests : pc[r] \in {"free", "touch", "start", "terminate", "wait", "gone"}
    /\ pc[Reaper] \in {"asleep", "pass", "bury", "drop", "terminate", "wait", "gone"}
    /\ pc[Main] \in {"serving", "ending", "terminate", "wait", "gone"}
    /\ \A r \in Requests : pc[r] \in {"touch", "start"} => goal[r] \in Paths
    /\ pc[Reaper] \in {"bury", "drop"} => cur \in Procs
    /\ pc[Reaper] = "bury" => state[cur] = "dead" /\ cur \notin todo

\* Whatever is in the table, in a hand or in the reaper's pass has been started,
\* and the table has it under its own camera.
Born ==
    /\ \A p \in Procs : state[p] # "unborn" => serves[p] \in Paths
    /\ \A c \in Cameras : relays[c] \in Procs =>
          state[relays[c]] # "unborn" /\ Camera(relays[c]) = c
    /\ \A t \in Threads : hand[t] \in Procs => state[hand[t]] # "unborn"
    /\ \A p \in Procs : p \in todo \/ p = cur => state[p] # "unborn"

\* A thread has a relay in hand exactly while it is in stop; only the reaper
\* can be cut off there by the end of the process.
Hands ==
    /\ \A t \in Threads : pc[t] \in {"terminate", "wait"} => hand[t] \in Procs
    /\ \A t \in Threads : pc[t] \notin {"terminate", "wait", "gone"} => hand[t] = NoProc
    /\ process = "up" => \A t \in Threads : pc[t] # "gone"
    /\ process = "exited" => \A t \in Threads :
          pc[t] = "gone" /\ (t # Reaper => hand[t] = NoProc)

\* Once shutdown has begun no request runs, and the table only shrinks.
Draining ==
    /\ stopping <=> pc[Main] # "serving"
    /\ stopping => \A r \in Requests : pc[r] \in {"free", "gone"}
    /\ stopping => \A c \in Cameras \ ending : relays[c] = NoProc
    /\ process = "exited" => ending = {}

\* Dead processes the reaper will not come across again.
Spent(c) == {p \in Procs : /\ state[p] = "dead" /\ Camera(p) = c
                           /\ ~Registered(p) /\ p \notin todo /\ p # cur}

ExitsSpent == \A c \in Cameras : exits[c] <= Cardinality(Spent(c))

Safe == TypeOK /\ Places /\ Born /\ Hands /\ Draining /\ PullsAccounted /\ StoppedByOne

IInv == Safe /\ ExitsSpent

-------------------------------------------------------------------------------
LEMMA InitSafe == Init => Safe
<1> SUFFICES ASSUME Init PROVE Safe
  OBVIOUS
<1> USE RelayAssumption DEF Init, Threads
<1>1. TypeOK
  <2>1. idle \in [Procs -> 0..Limit] /\ elapsed \in 0..MaxPass
    BY DEF Limit
  <2>2. /\ relays \in [Cameras -> Procs \cup {NoProc}]
        /\ exits \in [Cameras -> Nat]
        /\ feeds \subseteq Cameras /\ watched \subseteq Paths
    OBVIOUS
  <2>3. QED
    BY <2>1, <2>2 DEF TypeOK
<1>2. Places /\ Born /\ Hands /\ Draining
  BY DEF Places, Born, Hands, Draining
<1>3. PullsAccounted /\ StoppedByOne
  BY DEF PullsAccounted, StoppedByOne, Alive
<1>4. QED
  BY <1>1, <1>2, <1>3 DEF Safe

-------------------------------------------------------------------------------
(* Requests                                                                 *)

LEMMA AskSafe == ASSUME NEW r \in Requests, Safe, Ask(r) PROVE Safe'
<1> USE RelayAssumption DEF Safe, Ask, Threads, table, relay, outside, reaping, shutting
<1>1. PICK path \in Paths, where \in {"touch", "start"} :
         goal' = [goal EXCEPT ![r] = path] /\ pc' = [pc EXCEPT ![r] = where]
  BY DEF PlayPath, Paths, Goto
<1>2. TypeOK'
  BY <1>1 DEF TypeOK
<1>3. Places' /\ Born' /\ Hands' /\ Draining'
  BY <1>1 DEF TypeOK, Places, Born, Hands, Draining, Camera
<1>4. PullsAccounted' /\ StoppedByOne'
  BY DEF PullsAccounted, StoppedByOne, Alive, Registered, InHand
<1>5. QED
  BY <1>2, <1>3, <1>4

\* A request that is done with a relay of its camera, or without one.
LEMMA DoneSafe ==
    ASSUME NEW r \in Requests, Safe, pc[r] \in {"touch", "start"}, Done(r),
           idle' \in [Procs -> 0..Limit],
           UNCHANGED <<table, serves, outside, reaping, shutting, state, hand, astray>>
    PROVE  Safe'
<1> USE RelayAssumption DEF Safe, Done, Goto, Threads, table, outside, reaping, shutting
<1>1. TypeOK'
  BY DEF TypeOK
<1>2. Places' /\ Born' /\ Hands' /\ Draining'
  BY DEF TypeOK, Places, Born, Hands, Draining, Camera
<1>3. PullsAccounted' /\ StoppedByOne'
  BY DEF PullsAccounted, StoppedByOne, Alive, Registered, InHand
<1>4. QED
  BY <1>1, <1>2, <1>3

LEMMA TouchSafe ==
    ASSUME NEW r \in Requests, Safe, Touch(r) \/ StartFindsOne(r) \/ StartFails(r)
    PROVE  Safe'
<1>1. idle' \in [Procs -> 0..Limit]
  BY RelayAssumption DEF Touch, StartFindsOne, StartFails, StillWanted, Existing, Safe, TypeOK, Limit,
     relay
<1>2. QED
  BY <1>1, DoneSafe DEF Touch, StartFindsOne, StartFails, relay

LEMMA StartSafe == ASSUME NEW r \in Requests, Safe, Start(r) PROVE Safe'
<1> USE RelayAssumption DEF Safe, Start, Launch, Done, Goto, Threads, outside, reaping, shutting
<1>1. PICK p \in Unborn :
         /\ state' = [state EXCEPT ![p] = "warming"]
         /\ serves' = [serves EXCEPT ![p] = goal[r]]
         /\ relays' = [relays EXCEPT ![Of(goal[r])] = p]
  OBVIOUS
<1>2. p \in Procs /\ state[p] = "unborn" /\ goal[r] \in Paths /\ Of(goal[r]) \in Cameras
  BY DEF Unborn, Places, Paths, Of
<1>3. /\ ~Registered(p) /\ ~InHand(p)
      /\ \A q \in Procs : relays[Of(goal[r])] = q => ~Alive(q)
  BY <1>2 DEF Born, Registered, InHand, Existing, Live, TypeOK
<1>4. TypeOK'
  BY <1>1, <1>2 DEF TypeOK
<1>5. Places' /\ Born' /\ Hands'
  BY <1>1, <1>2 DEF TypeOK, Places, Born, Hands, Camera
<1>6. Draining'
  BY DEF TypeOK, Places, Draining
<1>7. PullsAccounted'
  BY <1>1, <1>2, <1>3 DEF TypeOK, PullsAccounted, Alive, Registered, InHand
<1>8. StoppedByOne'
  BY <1>1, <1>2, <1>3 DEF TypeOK, StoppedByOne, Registered, InHand
<1>9. QED
  BY <1>4, <1>5, <1>6, <1>7, <1>8

-------------------------------------------------------------------------------
(* stop                                                                     *)

\* A thread that may stop a relay, and where it goes if there is none.
Stopper(t, done) ==
    \/ t \in Requests /\ pc[t] = "free" /\ done = "free" /\ ~stopping
    \/ t = Reaper /\ pc[t] = "drop" /\ done = "pass"
    \/ t = Main /\ pc[t] = "ending" /\ done = "ending"

LEMMA PopSafe ==
    ASSUME Safe, NEW t \in Threads, NEW c \in Cameras, NEW done, Stopper(t, done),
           process = "up", Pop(t, c, done),
           cur' \in {cur, NoProc}, t # Reaper => cur' = cur,
           ending' \in {ending, ending \ {c}},
           UNCHANGED <<exits, relay, outside, goal, todo, readers, elapsed, stopping, process,
                       state, astray>>
    PROVE  Safe'
<1> USE RelayAssumption DEF Safe, Pop, Goto, Stopper, Threads, relay, outside
<1>1. TypeOK'
  BY DEF TypeOK
<1>2. Places' /\ Born'
  BY DEF TypeOK, Places, Born, Camera
<1>3. Hands'
  BY DEF TypeOK, Hands
<1>4. Draining'
  BY DEF TypeOK, Draining
<1>5. relays[c] \in Procs => \A u \in Threads : hand[u] # relays[c]
  BY DEF StoppedByOne, Registered
<1>6. PullsAccounted'
  BY DEF TypeOK, Hands, PullsAccounted, Alive, Registered, InHand
<1>7. \A d \in Cameras : d # c /\ relays[d] \in Procs => relays[d] # relays[c]
  BY DEF Born
<1>8. StoppedByOne'
  BY <1>5, <1>7 DEF TypeOK, StoppedByOne, Registered
<1>9. QED
  BY <1>1, <1>2, <1>3, <1>4, <1>6, <1>8

LEMMA StoppingSafe == ASSUME NEW t \in Threads, Safe, Stopping(t) PROVE Safe'
<1> USE RelayAssumption DEF Safe, Goto, Become, Threads, table, relay, reaping, shutting
<1>1. CASE Terminate(t)
  <2> USE <1>1 DEF Terminate
  <2>1. TypeOK'
    BY DEF TypeOK, Hands
  <2>2. /\ \A p \in Procs : state[p] = "dead" <=> state'[p] = "dead"
        /\ \A p \in Procs : state[p] = "unborn" <=> state'[p] = "unborn"
    BY DEF TypeOK, Hands, Alive
  <2>5. Places' /\ Born'
    BY <2>2 DEF TypeOK, Places, Born, Camera
  <2>6. Hands' /\ Draining'
    BY DEF TypeOK, Hands, Draining
  <2>3. PullsAccounted' /\ StoppedByOne'
    BY DEF TypeOK, Hands, PullsAccounted, StoppedByOne, Alive, Registered, InHand
  <2>4. QED
    BY <2>1, <2>3, <2>5, <2>6
<1>2. CASE Waited(t)
  <2> USE <1>2 DEF Waited, AfterStop
  <2>1. TypeOK'
    BY DEF TypeOK, Hands
  <2>2. Places' /\ Born' /\ Hands' /\ Draining'
    BY DEF TypeOK, Places, Born, Hands, Draining, Camera
  <2>3. PullsAccounted' /\ StoppedByOne'
    BY DEF TypeOK, Hands, PullsAccounted, StoppedByOne, Alive, Registered, InHand
  <2>4. QED
    BY <2>1, <2>2, <2>3
<1>3. QED
  BY <1>1, <1>2 DEF Stopping

LEMMA StopRequestSafe == ASSUME NEW r \in Requests, Safe, StopRequest(r) PROVE Safe'
<1>1. PICK c \in Cameras : Pop(r, c, "free")
  BY DEF StopRequest
<1>2. r # Reaper /\ r \in Threads
  BY RelayAssumption DEF Threads
<1>3. QED
  BY <1>1, <1>2, PopSafe DEF StopRequest, Stopper, reaping, shutting

LEMMA ReapStopSafe == ASSUME Safe, ReapStop PROVE Safe'
<1>1. Camera(cur) \in Cameras /\ process = "up"
  BY DEF Safe, ReapStop, Places, Born, Camera, Of, Paths, Hands, TypeOK, Threads
<1>2. QED
  BY <1>1, PopSafe DEF ReapStop, Stopper, Threads, shutting

LEMMA ShutdownStopsSafe == ASSUME NEW c \in Cameras, Safe, ShutdownStops(c) PROVE Safe'
<1>1. process = "up" /\ Main \in Threads /\ Main # Reaper
  BY RelayAssumption DEF Safe, ShutdownStops, Hands, TypeOK, Threads
<1>2. QED
  BY <1>1, PopSafe DEF ShutdownStops, Stopper, reaping

-------------------------------------------------------------------------------
(* The reaper                                                               *)

LEMMA ReapListSafe == ASSUME Safe, ReapList PROVE Safe'
<1> USE RelayAssumption DEF Safe, ReapList, Goto, Threads, table, relay, outside, shutting
<1>1. todo' \subseteq Procs /\ \A p \in todo' : state[p] # "unborn"
  BY DEF TypeOK, Born
<1>2. readers' \subseteq Paths
  BY DEF TypeOK, Answers
<1>3. TypeOK'
  BY <1>1, <1>2 DEF TypeOK
<1>4. Places' /\ Born' /\ Hands' /\ Draining'
  BY <1>1 DEF TypeOK, Places, Born, Hands, Draining, Camera
<1>5. PullsAccounted' /\ StoppedByOne'
  BY DEF PullsAccounted, StoppedByOne, Alive, Registered, InHand
<1>6. QED
  BY <1>3, <1>4, <1>5

\* A relay is looked at and left alone, or taken note of.
LEMMA LookSafe ==
    ASSUME NEW p \in Procs, Safe,
           ReapDead(p) \/ ReapWatched(p) \/ ReapSpares(p) \/ ReapIdle(p)
    PROVE  Safe'
<1> USE RelayAssumption DEF Safe, Threads, table, relay, outside, shutting
<1>1. CASE ReapDead(p) \/ ReapIdle(p)
  <2> USE <1>1 DEF ReapDead, ReapIdle, Look, Goto
  <2>1. state[p] # "unborn" /\ (~Alive(p) => state[p] = "dead")
    BY DEF TypeOK, Born, Alive
  <2>2. TypeOK'
    BY DEF TypeOK
  <2>3. Places' /\ Born' /\ Hands' /\ Draining'
    BY <2>1 DEF TypeOK, Places, Born, Hands, Draining, Camera
  <2>4. PullsAccounted' /\ StoppedByOne'
    BY DEF PullsAccounted, StoppedByOne, Alive, Registered, InHand
  <2>5. QED
    BY <2>2, <2>3, <2>4
<1>2. CASE ReapWatched(p) \/ ReapSpares(p)
  <2> USE <1>2 DEF ReapWatched, ReapSpares, Look
  <2>1. idle' \in [Procs -> 0..Limit]
    BY DEF TypeOK, Limit
  <2>2. TypeOK'
    BY <2>1 DEF TypeOK
  <2>3. Places' /\ Born' /\ Hands' /\ Draining'
    BY DEF TypeOK, Places, Born, Hands, Draining, Camera
  <2>4. PullsAccounted' /\ StoppedByOne'
    BY DEF PullsAccounted, StoppedByOne, Alive, Registered, InHand
  <2>5. QED
    BY <2>2, <2>3, <2>4
<1>3. QED
  BY <1>1, <1>2

LEMMA BurySafe == ASSUME Safe, Bury PROVE Safe'
<1> USE RelayAssumption DEF Safe, Bury, Goto, Threads, relay, outside, shutting
<1>1. Camera(cur) \in Cameras
  BY DEF Places, Born, Camera, Of, Paths
<1>2. TypeOK'
  <2>1. relays' \in [Cameras -> Procs \cup {NoProc}] /\ exits' \in [Cameras -> Nat]
    BY <1>1 DEF TypeOK
  <2>2. astray' \subseteq Procs
    BY DEF TypeOK
  <2>3. QED
    BY <2>1, <2>2 DEF TypeOK
<1>3. Places' /\ Born' /\ Hands' /\ Draining'
  BY <1>1 DEF TypeOK, Places, Born, Hands, Draining, Camera
<1>4. PullsAccounted'
  BY <1>1 DEF TypeOK, PullsAccounted, Alive, Registered, InHand
<1>5. StoppedByOne'
  BY <1>1 DEF TypeOK, StoppedByOne, Registered
<1>6. QED
  BY <1>2, <1>3, <1>4, <1>5

LEMMA ReapEndsSafe == ASSUME Safe, ReapEnds PROVE Safe'
<1> USE RelayAssumption DEF Safe, ReapEnds, Goto, Threads, table, relay, outside, shutting
<1>1. TypeOK'
  BY DEF TypeOK
<1>2. Places' /\ Born' /\ Hands' /\ Draining'
  BY DEF TypeOK, Places, Born, Hands, Draining, Camera
<1>3. PullsAccounted' /\ StoppedByOne'
  BY DEF PullsAccounted, StoppedByOne, Alive, Registered, InHand
<1>4. QED
  BY <1>1, <1>2, <1>3

-------------------------------------------------------------------------------
(* Shutdown                                                                 *)

LEMMA ShutdownSafe == ASSUME Safe, Shutdown PROVE Safe'
<1> USE RelayAssumption DEF Safe, Shutdown, Goto, Threads, table, relay, outside, reaping
<1>1. TypeOK'
  BY DEF TypeOK
<1>2. Places' /\ Born' /\ Hands' /\ Draining'
  BY DEF TypeOK, Places, Born, Hands, Draining, Camera
<1>3. PullsAccounted' /\ StoppedByOne'
  BY DEF PullsAccounted, StoppedByOne, Alive, Registered, InHand
<1>4. QED
  BY <1>1, <1>2, <1>3

LEMMA ExitsSafe == ASSUME Safe, Exits PROVE Safe'
<1> USE RelayAssumption DEF Safe, Exits, Threads, table, relay, outside, reaping
<1>1. TypeOK'
  BY DEF TypeOK
<1>2. \A t \in Threads : t # Reaper => hand[t] = NoProc
  BY DEF TypeOK, Places, Hands, Draining
<1>3. Places' /\ Born' /\ Hands' /\ Draining'
  BY <1>2 DEF TypeOK, Places, Born, Hands, Draining, Camera
<1>4. PullsAccounted' /\ StoppedByOne'
  BY DEF PullsAccounted, StoppedByOne, Alive, Registered, InHand
<1>5. QED
  BY <1>1, <1>3, <1>4

-------------------------------------------------------------------------------
(* What happens around the supervisor                                       *)

LEMMA ProcessSafe == ASSUME NEW p \in Procs, Safe, Publish(p) \/ Die(p) PROVE Safe'
<1> USE RelayAssumption DEF Safe, Threads, table, relay, reaping, shutting
<1>1. PICK what \in {"publishing", "dead"} : Alive(p) /\ Become(p, what)
  BY DEF Publish, Die, Alive
<1>2. /\ watched' \subseteq watched
      /\ state' = [state EXCEPT ![p] = what]
      /\ state[p] \in {"warming", "publishing", "terminated"}
      /\ UNCHANGED <<table, relay, feeds, goal, reaping, shutting, pc, hand, astray>>
  BY <1>1 DEF Publish, Die, Become, Alive
<1>3. TypeOK'
  BY <1>2 DEF TypeOK
<1>4. Places' /\ Born' /\ Hands' /\ Draining'
  BY <1>2 DEF TypeOK, Places, Born, Hands, Draining, Camera
<1>5. PullsAccounted' /\ StoppedByOne'
  BY <1>2 DEF TypeOK, PullsAccounted, StoppedByOne, Alive, Registered, InHand
<1>6. QED
  BY <1>3, <1>4, <1>5

\* Steps that change nothing but who publishes, who watches, and ages.
LEMMA AroundSafe ==
    ASSUME Safe, feeds' \subseteq Cameras, watched' \subseteq Paths,
           idle' \in [Procs -> 0..Limit], elapsed' \in 0..MaxPass,
           UNCHANGED <<table, serves, goal, todo, cur, readers, shutting, state, pc, hand,
                       astray>>
    PROVE  Safe'
<1> USE RelayAssumption DEF Safe, Threads, table, shutting
<1>1. TypeOK'
  BY DEF TypeOK
<1>2. Places' /\ Born' /\ Hands' /\ Draining'
  BY DEF Places, Born, Hands, Draining, Camera
<1>3. PullsAccounted' /\ StoppedByOne'
  BY DEF PullsAccounted, StoppedByOne, Alive, Registered, InHand
<1>4. QED
  BY <1>1, <1>2, <1>3

LEMMA OutsideSafe == ASSUME Safe, Outside \/ UNCHANGED vars PROVE Safe'
<1> USE RelayAssumption DEF table, relay, outside, reaping, shutting
<1>1. ASSUME NEW p \in Procs, Publish(p) \/ Die(p) PROVE Safe'
  BY <1>1, ProcessSafe
<1>2. ASSUME NEW c \in Cameras, FeedChanges(c) PROVE Safe'
  <2>1. feeds' \subseteq Cameras /\ watched' \subseteq Paths
    BY <1>2 DEF Safe, TypeOK, FeedChanges
  <2>2. QED
    BY <1>2, <2>1, AroundSafe DEF Safe, TypeOK, FeedChanges
<1>3. ASSUME NEW x \in Paths, Watch(x) PROVE Safe'
  <2>1. watched' \subseteq Paths
    BY <1>3 DEF Safe, TypeOK, Watch
  <2>2. QED
    BY <1>3, <2>1, AroundSafe DEF Safe, TypeOK, Watch
<1>4. CASE Tick
  <2>1. idle' \in [Procs -> 0..Limit] /\ elapsed' \in 0..MaxPass
    BY <1>4 DEF Safe, TypeOK, Tick, Older, Limit
  <2>2. QED
    BY <1>4, <2>1, AroundSafe DEF Safe, TypeOK, Tick
<1>5. CASE UNCHANGED vars
  BY <1>5, AroundSafe DEF Safe, TypeOK, vars
<1>6. QED
  BY <1>1, <1>2, <1>3, <1>4, <1>5 DEF Outside

LEMMA StepSafe == Safe /\ [Next]_vars => Safe'
<1> SUFFICES ASSUME Safe, [Next]_vars PROVE Safe'
  OBVIOUS
<1>1. ASSUME NEW r \in Requests, Request(r) PROVE Safe'
  BY <1>1, AskSafe, TouchSafe, StartSafe, StopRequestSafe DEF Request, Ensure
<1>2. ASSUME NEW t \in Threads, Stopping(t) PROVE Safe'
  BY <1>2, StoppingSafe
<1>3. CASE Reap
  BY <1>3, ReapListSafe, BurySafe, ReapStopSafe, ReapEndsSafe, LookSafe DEF Reap
<1>4. CASE Ending
  BY <1>4, ShutdownSafe, ExitsSafe, ShutdownStopsSafe DEF Ending
<1>5. CASE Outside \/ UNCHANGED vars
  BY <1>5, OutsideSafe
<1>6. QED
  BY <1>1, <1>2, <1>3, <1>4, <1>5 DEF Next, Over

-------------------------------------------------------------------------------
(* Deaths are counted once                                                  *)

\* What is dead stays so, and does not come back to the table, to the reaper's
\* list or to its hand other than by the way it takes through them.
DeadStayDead ==
    \A p \in Procs : state[p] = "dead" =>
        /\ state'[p] = "dead" /\ serves'[p] = serves[p]
        /\ Registered(p)' => Registered(p)
        /\ p \in todo' => p \in todo \/ Registered(p)
        /\ cur' = p => cur = p \/ p \in todo

LEMMA RequestDead == ASSUME NEW r \in Requests, Safe, Request(r) PROVE DeadStayDead
<1> USE RelayAssumption DEF DeadStayDead, Registered, reaping
<1>1. CASE Ask(r)
  BY <1>1 DEF Ask, table, relay
<1>2. CASE Touch(r) \/ StartFindsOne(r) \/ StartFails(r)
  BY <1>2 DEF Touch, StartFindsOne, StartFails, table, relay
<1>3. CASE Start(r)
  BY <1>3 DEF Start, Launch, Unborn, Safe, TypeOK, Places, Paths, Of
<1>4. CASE StopRequest(r)
  BY <1>4 DEF StopRequest, Pop, relay, Safe, TypeOK
<1>5. QED
  BY <1>1, <1>2, <1>3, <1>4 DEF Request, Ensure

LEMMA ReapDeadKept == ASSUME Safe, Reap PROVE DeadStayDead
<1> USE RelayAssumption DEF DeadStayDead, Registered
<1>1. CASE ReapList
  BY <1>1 DEF ReapList, table, relay
<1>2. CASE Bury
  BY <1>2 DEF Bury, relay, Safe, TypeOK
<1>3. CASE ReapStop
  BY <1>3 DEF ReapStop, Pop, relay, Safe, TypeOK
<1>4. CASE ReapEnds
  BY <1>4 DEF ReapEnds, table, relay
<1>5. ASSUME NEW p \in Procs, ReapDead(p) \/ ReapWatched(p) \/ ReapSpares(p) \/ ReapIdle(p)
      PROVE  DeadStayDead
  BY <1>5 DEF ReapDead, ReapWatched, ReapSpares, ReapIdle, Look, table, relay
<1>6. QED
  BY <1>1, <1>2, <1>3, <1>4, <1>5 DEF Reap

LEMMA OtherDead ==
    ASSUME Safe, \/ \E t \in Threads : Stopping(t)
                 \/ Ending \/ Outside \/ UNCHANGED vars
    PROVE  DeadStayDead
<1> USE RelayAssumption DEF DeadStayDead, Registered, table, relay, reaping, outside
<1>1. ASSUME NEW t \in Threads, Stopping(t) PROVE DeadStayDead
  BY <1>1 DEF Stopping, Terminate, Waited, Become, Alive, Safe, TypeOK, Hands
<1>2. CASE Ending
  BY <1>2 DEF Ending, Shutdown, Exits, ShutdownStops, Pop, Safe, TypeOK
<1>3. CASE Outside
  BY <1>3 DEF Outside, Publish, Die, FeedChanges, Watch, Tick, Become, Alive, Safe, TypeOK
<1>4. CASE UNCHANGED vars
  BY <1>4 DEF vars
<1>5. QED
  BY <1>1, <1>2, <1>3, <1>4

LEMMA StepDead == ASSUME Safe, [Next]_vars PROVE DeadStayDead
BY RequestDead, ReapDeadKept, OtherDead DEF Next, Over

\* Only a burial counts a death.
LEMMA ExitsKept == ASSUME Safe, [Next]_vars, ~Bury PROVE exits' = exits
<1>1. ASSUME NEW r \in Requests, Request(r) PROVE exits' = exits
  BY <1>1 DEF Request, Ensure, Ask, Touch, StartFindsOne, Start, StartFails, Launch,
     StopRequest, table
<1>2. ASSUME NEW t \in Threads, Stopping(t) PROVE exits' = exits
  BY <1>2 DEF Stopping, Terminate, Waited, table
<1>3. CASE Reap
  BY <1>3 DEF Reap, ReapList, ReapStop, ReapEnds, ReapDead, ReapWatched, ReapSpares,
     ReapIdle, table
<1>4. CASE Ending
  BY <1>4 DEF Ending, Shutdown, Exits, ShutdownStops, table
<1>5. CASE Outside \/ UNCHANGED vars
  BY <1>5 DEF Outside, Publish, Die, FeedChanges, Watch, Tick, vars, table
<1>6. QED
  BY <1>1, <1>2, <1>3, <1>4, <1>5 DEF Next, Over

LEMMA SpentFinite ==
    ASSUME NEW c \in Cameras
    PROVE  /\ IsFiniteSet(Spent(c)) /\ Cardinality(Spent(c)) \in Nat
           /\ IsFiniteSet(Spent(c)') /\ Cardinality(Spent(c)') \in Nat
<1>1. Spent(c) \subseteq Procs /\ Spent(c)' \subseteq Procs
  BY DEF Spent
<1>2. QED
  BY <1>1, RelayAssumption, FS_Subset, FS_CardinalityType

LEMMA SpentGrows ==
    ASSUME DeadStayDead, NEW c \in Cameras PROVE Spent(c) \subseteq Spent(c)'
BY DEF DeadStayDead, Spent, Camera

LEMMA ExitsStep == Safe /\ ExitsSpent /\ [Next]_vars => ExitsSpent'
<1> SUFFICES ASSUME Safe, ExitsSpent, [Next]_vars, NEW c \in Cameras
             PROVE  exits'[c] <= Cardinality(Spent(c)')
  BY DEF ExitsSpent
<1>1. Spent(c) \subseteq Spent(c)'
  BY StepDead, SpentGrows
<1>2. Cardinality(Spent(c)) <= Cardinality(Spent(c)')
  BY <1>1, SpentFinite, FS_Subset
<1>3. exits[c] \in Nat /\ exits[c] <= Cardinality(Spent(c))
  BY DEF Safe, TypeOK, ExitsSpent
<1>4. CASE ~(Bury /\ c = Camera(cur))
  <2>1. exits'[c] = exits[c]
    BY <1>4, ExitsKept DEF Bury, Safe, TypeOK
  <2>2. QED
    BY <2>1, <1>2, <1>3, SpentFinite
<1>5. CASE Bury /\ c = Camera(cur)
  <2> USE <1>5 DEF Bury
  <2>1. cur \in Procs /\ state[cur] = "dead" /\ cur \notin todo
    BY DEF Safe, Places
  <2>2. cur \notin Spent(c)
    BY DEF Spent
  <2>3. cur \in Spent(c)'
    <3>1. \A d \in Cameras : relays'[d] # cur
      BY <2>1, RelayAssumption DEF Safe, TypeOK, Born
    <3>2. QED
      BY <2>1, <3>1, RelayAssumption DEF Spent, Registered, Camera, relay
  <2>4. Spent(c) \cup {cur} \subseteq Spent(c)'
    BY <1>1, <2>3
  <2>5. Cardinality(Spent(c) \cup {cur}) = Cardinality(Spent(c)) + 1
    BY <2>2, SpentFinite, FS_AddElement
  <2>6. Cardinality(Spent(c) \cup {cur}) <= Cardinality(Spent(c)')
    BY <2>4, SpentFinite, FS_Subset
  <2>7. exits'[c] = exits[c] + 1
    BY DEF Safe, TypeOK
  <2>8. QED
    BY <2>5, <2>6, <2>7, <1>3, SpentFinite
<1>6. QED
  BY <1>4, <1>5

-------------------------------------------------------------------------------
(* The theorems                                                             *)

\* The invariant everything below follows from.
THEOREM RelayInvariant == Spec => []IInv
<1>1. Init => ExitsSpent
  BY SpentFinite, RelayAssumption DEF Init, ExitsSpent
<1>2. Init => IInv
  BY <1>1, InitSafe DEF IInv
<1>3. IInv /\ [Next]_vars => IInv'
  BY StepSafe, ExitsStep DEF IInv
<1>4. QED
  BY <1>2, <1>3, PTL DEF Spec

\* The supervisor's state keeps its types (relay.py, Supervisor and Relay).
THEOREM RelayTyped == Spec => []TypeOK
<1>1. IInv => TypeOK
  BY DEF IInv, Safe
<1>2. QED
  BY <1>1, RelayInvariant, PTL

\* No process that pulls video is forgotten, but one started between the
\* reaper's look at a dead relay and its burial (relay.py, _start, stop, reap).
THEOREM NoPullForgotten == Spec => []PullsAccounted
<1>1. IInv => PullsAccounted
  BY DEF IInv, Safe
<1>2. QED
  BY <1>1, RelayInvariant, PTL

\* No two threads stop the same relay, and none that is being stopped is handed
\* out to a viewer (relay.py, stop).
THEOREM OneStopEach == Spec => []StoppedByOne
<1>1. IInv => StoppedByOne
  BY DEF IInv, Safe
<1>2. QED
  BY <1>1, RelayInvariant, PTL

\* Shutdown empties the table, and only what the reaper had lost or in hand
\* outlives the service (relay.py, shutdown).
THEOREM ShutdownEmpties == Spec => []NothingServedAfterExit
<1>1. IInv => NothingServedAfterExit
  <2> SUFFICES ASSUME IInv, process = "exited" PROVE NothingServedAfterExit
    BY DEF NothingServedAfterExit
  <2> USE RelayAssumption DEF IInv, Safe
  <2>1. \A c \in Cameras : relays[c] = NoProc
    BY DEF Draining, Hands, Threads
  <2>2. \A p \in Procs : ~Registered(p)
    BY <2>1 DEF Registered
  <2>3. \A p \in Procs : Alive(p) => p \in astray \/ hand[Reaper] = p
    BY <2>2 DEF PullsAccounted, InHand, Hands
  <2>4. QED
    BY <2>2, <2>3 DEF NothingServedAfterExit
<1>2. QED
  BY <1>1, RelayInvariant, PTL

\* A relay's death is never counted twice towards "unstable" (relay.py, reap).
THEOREM DeathsCounted == Spec => []DeathsCountedOnce
<1>1. IInv => DeathsCountedOnce
  <2> SUFFICES ASSUME IInv, NEW c \in Cameras
               PROVE  exits[c] <=
                        Cardinality({p \in Procs : state[p] = "dead" /\ Camera(p) = c})
    BY DEF DeathsCountedOnce
  <2> DEFINE Dead == {p \in Procs : state[p] = "dead" /\ Camera(p) = c}
  <2>1. Spent(c) \subseteq Dead /\ Dead \subseteq Procs
    BY DEF Spent
  <2>2. IsFiniteSet(Dead) /\ Cardinality(Dead) \in Nat
    BY <2>1, RelayAssumption, FS_Subset, FS_CardinalityType
  <2>3. Cardinality(Spent(c)) <= Cardinality(Dead)
    BY <2>1, <2>2, FS_Subset
  <2>4. exits[c] \in Nat /\ exits[c] <= Cardinality(Spent(c))
    BY DEF IInv, Safe, TypeOK, ExitsSpent
  <2>5. QED
    BY <2>2, <2>3, <2>4, SpentFinite
<1>2. QED
  BY <1>1, RelayInvariant, PTL
===============================================================================
