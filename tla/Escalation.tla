------------------------------ MODULE Escalation ------------------------------
(***************************************************************************)
(* Which models the cameras of one worker read with: the ladder each       *)
(* camera climbs when the light path reads nothing on it                   *)
(* (services/anpr/escalation.py), the slots they share while they are on   *)
(* it (EscalationBudget), and the operator's OCR boost that may replace a  *)
(* camera's reader at the same time (services/anpr/worker.py _apply_boost, *)
(* _maybe_escalate).                                                       *)
(*                                                                         *)
(* A camera's pipeline and policy belong to its own thread; only the       *)
(* budget is shared, so only its two halves (the semaphore, and `held`     *)
(* under its lock) are separate steps.  Read rates are abstracted to the   *)
(* verdict they lead to: no decision yet, reading well enough, or not.     *)
(***************************************************************************)
EXTENDS Integers, FiniteSets

CONSTANTS
    Cameras,     \* camera threads of this worker
    BudgetSize,  \* EscalationBudget.size
    DefaultOcr,  \* the reader build_ocr() gives every camera
    Boosts,      \* readers an operator may boost a camera to, all learned
    Hub,         \* the heavy reader of the ladder, not a learned one
    NoReader     \* None

ASSUME EscalationAssumption ==
    /\ IsFiniteSet(Cameras)
    /\ BudgetSize \in Nat
    /\ Hub \notin Boosts \cup {DefaultOcr}
    /\ NoReader \notin Boosts \cup {DefaultOcr, Hub}

Ladder == <<"ocr", "locator", "tracker">>
Top    == 3

VARIABLES
    slots,      \* EscalationBudget._slots, free slots of the semaphore
    held,       \* EscalationBudget.held
    pc,         \* where each camera thread is
    rung,       \* EscalationPolicy.rung
    exhausted,  \* EscalationPolicy.exhausted
    holds,      \* EscalationPolicy._holds_budget
    ocr,        \* pipeline.ocr
    locator,    \* pipeline.locator, "light" or "heavy"
    tracker,    \* pipeline.tracker, "light" or "heavy"
    reader,     \* CameraWorker.boost_reader
    preBoost,   \* CameraWorker.pre_boost_ocr
    failed      \* cameras that counted an escalations_failed

budget   == <<slots, held>>
policy   == <<rung, exhausted, holds>>
boost    == <<reader, preBoost>>
pipeline == <<ocr, locator, tracker>>
vars     == <<budget, pc, policy, pipeline, boost, failed>>

Goto(c, where) == pc' = [pc EXCEPT ![c] = where]

Init ==
    /\ slots = BudgetSize /\ held = 0
    /\ pc = [c \in Cameras |-> "frame"]
    /\ rung = [c \in Cameras |-> 0]
    /\ exhausted = [c \in Cameras |-> FALSE]
    /\ holds = [c \in Cameras |-> FALSE]
    /\ ocr = [c \in Cameras |-> DefaultOcr]
    /\ locator = [c \in Cameras |-> "light"]
    /\ tracker = [c \in Cameras |-> "light"]
    /\ reader = [c \in Cameras |-> NoReader]
    /\ preBoost = [c \in Cameras |-> NoReader]
    /\ failed = {}

-------------------------------------------------------------------------------
(* _apply_boost, at the start of every frame                                *)

\* The boost of this camera, if it has one, is the one of the last frame.  A
\* reader escalation put underneath it is saved and replaced again.
BoostHolds(c) ==
    /\ pc[c] = "frame"
    /\ IF reader[c] # NoReader /\ ocr[c] # reader[c]
       THEN /\ preBoost' = [preBoost EXCEPT ![c] = ocr[c]]
            /\ ocr' = [ocr EXCEPT ![c] = reader[c]]
       ELSE UNCHANGED <<preBoost, ocr>>
    /\ Goto(c, "harvest")
    /\ UNCHANGED <<budget, policy, locator, tracker, reader, failed>>

\* The reader of the camera itself, once its boost is over.
Own(c) == IF reader[c] # NoReader THEN preBoost[c] ELSE ocr[c]

\* Mutant: the end of a boost forgets to put the camera's reader back.
BoostNeverUndone(c, wanted) ==
    /\ pc[c] = "frame"
    /\ \E r \in {wanted, NoReader} :
          /\ reader' = [reader EXCEPT ![c] = r]
          /\ preBoost' = [preBoost EXCEPT ![c] = IF r = NoReader THEN r ELSE Own(c)]
          /\ ocr' = [ocr EXCEPT ![c] = IF r = NoReader THEN ocr[c] ELSE r]
    /\ Goto(c, "harvest")
    /\ UNCHANGED <<budget, policy, locator, tracker, failed>>

\* The boost ended, was replaced or began; a reader that will not load leaves
\* the camera with its own.
BoostChanges(c, wanted) ==
    /\ pc[c] = "frame"
    /\ \E r \in {wanted, NoReader} :
          /\ reader' = [reader EXCEPT ![c] = r]
          /\ preBoost' = [preBoost EXCEPT ![c] = IF r = NoReader THEN r ELSE Own(c)]
          /\ ocr' = [ocr EXCEPT ![c] = IF r = NoReader THEN Own(c) ELSE r]
    /\ Goto(c, "harvest")
    /\ UNCHANGED <<budget, policy, locator, tracker, failed>>

-------------------------------------------------------------------------------
(* observe and _decide, on the tracks the frame finished                    *)

\* No track finished, the sample is too small, the rate is good enough, or the
\* camera has been given up.
NoRung(c) ==
    /\ pc[c] = "harvest"
    /\ Goto(c, "frame")
    /\ UNCHANGED <<budget, policy, pipeline, boost, failed>>

\* The camera reads too little, and something can still be tried.
Failing(c) == pc[c] = "harvest" /\ ~exhausted[c]

\* Mutant: the ladder has no top.
ClimbOn(c) ==
    /\ Failing(c) /\ holds[c]
    /\ rung' = [rung EXCEPT ![c] = @ + 1]
    /\ Goto(c, "build")
    /\ UNCHANGED <<budget, exhausted, holds, pipeline, boost, failed>>

\* _climb of a camera that has its slot already.
Climb(c) ==
    /\ Failing(c) /\ rung[c] < Top /\ holds[c]
    /\ rung' = [rung EXCEPT ![c] = @ + 1]
    /\ Goto(c, "build")
    /\ UNCHANGED <<budget, exhausted, holds, pipeline, boost, failed>>

\* Mutant: what the semaphore answers is not looked at.
TakeSlotUnasked(c) ==
    /\ Failing(c) /\ rung[c] < Top /\ ~holds[c]
    /\ slots' = slots - 1
    /\ Goto(c, "acquired")
    /\ UNCHANGED <<held, policy, pipeline, boost, failed>>

\* EscalationBudget.acquire: the semaphore ...
TakeSlot(c) ==
    /\ Failing(c) /\ rung[c] < Top /\ ~holds[c]
    /\ slots > 0
    /\ slots' = slots - 1
    /\ Goto(c, "acquired")
    /\ UNCHANGED <<held, policy, pipeline, boost, failed>>

\* ... then the count, and the climb.
CountSlot(c) ==
    /\ pc[c] = "acquired"
    /\ held' = held + 1
    /\ holds' = [holds EXCEPT ![c] = TRUE]
    /\ rung' = [rung EXCEPT ![c] = @ + 1]
    /\ Goto(c, "build")
    /\ UNCHANGED <<slots, exhausted, pipeline, boost, failed>>

\* No slot: deferred, and decided again on the next harvest.
Defer(c) ==
    /\ Failing(c) /\ rung[c] < Top /\ ~holds[c]
    /\ slots = 0
    /\ Goto(c, "frame")
    /\ UNCHANGED <<budget, policy, pipeline, boost, failed>>

\* _release, if there is a slot to give back: `held` first; the semaphore and
\* _holds_budget are ReturnSlot.
Release(c, half, done) ==
    IF holds[c] THEN held' = held - 1 /\ Goto(c, half)
                ELSE UNCHANGED held /\ Goto(c, done)

\* _give_up at the top of the ladder.
GiveUp(c) ==
    /\ Failing(c) /\ rung[c] = Top
    /\ exhausted' = [exhausted EXCEPT ![c] = TRUE]
    /\ Release(c, "returning", "reset")
    /\ UNCHANGED <<slots, rung, holds, pipeline, boost, failed>>

\* run's last act: close() gives the slot back if the camera has one.
Close(c) ==
    /\ pc[c] = "frame"
    /\ Release(c, "leaving", "ended")
    /\ UNCHANGED <<slots, policy, pipeline, boost, failed>>

\* Mutant: _release does not remember that it has given the slot back.
ReturnSlotAgain(c) ==
    /\ pc[c] \in {"returning", "leaving"}
    /\ slots' = slots + 1
    /\ Goto(c, IF pc[c] = "returning" THEN "reset" ELSE "ended")
    /\ UNCHANGED <<held, holds, rung, exhausted, pipeline, boost, failed>>

ReturnSlot(c) ==
    /\ pc[c] \in {"returning", "leaving"}
    /\ slots' = slots + 1
    /\ holds' = [holds EXCEPT ![c] = FALSE]
    /\ Goto(c, IF pc[c] = "returning" THEN "reset" ELSE "ended")
    /\ UNCHANGED <<held, rung, exhausted, pipeline, boost, failed>>

-------------------------------------------------------------------------------
(* _maybe_escalate, applying the rung                                       *)

Learned(r) == r \in Boosts

Stage(c) == Ladder[rung[c]]

\* The hub reader never replaces a learned one: the rung is spent on nothing.
SkipOcr(c) ==
    /\ pc[c] = "build" /\ Stage(c) = "ocr" /\ Learned(ocr[c])
    /\ Goto(c, "frame")
    /\ UNCHANGED <<budget, policy, pipeline, boost, failed>>

\* Mutant: the guard that skips the OCR rung is not there.
BuildAnyOcr(c) ==
    /\ pc[c] = "build"
    /\ CASE Stage(c) = "ocr"     -> /\ ocr' = [ocr EXCEPT ![c] = Hub]
                                    /\ UNCHANGED <<locator, tracker>>
         [] Stage(c) = "locator" -> /\ locator' = [locator EXCEPT ![c] = "heavy"]
                                    /\ UNCHANGED <<ocr, tracker>>
         [] Stage(c) = "tracker" -> /\ tracker' = [tracker EXCEPT ![c] = "heavy"]
                                    /\ UNCHANGED <<ocr, locator>>
    /\ Goto(c, "frame")
    /\ UNCHANGED <<budget, policy, boost, failed>>

Build(c) ==
    /\ pc[c] = "build"
    /\ CASE Stage(c) = "ocr"     -> /\ ~Learned(ocr[c])
                                    /\ ocr' = [ocr EXCEPT ![c] = Hub]
                                    /\ UNCHANGED <<locator, tracker>>
         [] Stage(c) = "locator" -> /\ locator' = [locator EXCEPT ![c] = "heavy"]
                                    /\ UNCHANGED <<ocr, tracker>>
         [] Stage(c) = "tracker" -> /\ tracker' = [tracker EXCEPT ![c] = "heavy"]
                                    /\ UNCHANGED <<ocr, locator>>
    /\ Goto(c, "frame")
    /\ UNCHANGED <<budget, policy, boost, failed>>

\* A heavy model that will not load; the rung and its slot stay taken.
BuildFails(c) ==
    /\ pc[c] = "build" /\ ~(Stage(c) = "ocr" /\ Learned(ocr[c]))
    /\ failed' = failed \cup {c}
    /\ Goto(c, "frame")
    /\ UNCHANGED <<budget, policy, pipeline, boost>>

\* Mutant: only the stage of the last rung goes back.
ResetLastStage(c) ==
    /\ pc[c] = "reset"
    /\ tracker' = [tracker EXCEPT ![c] = "light"]
    /\ Goto(c, "frame")
    /\ UNCHANGED <<ocr, locator, budget, policy, boost, failed>>

\* __reset__: every stage back to the process default.
Reset(c) ==
    /\ pc[c] = "reset"
    /\ ocr' = [ocr EXCEPT ![c] = DefaultOcr]
    /\ locator' = [locator EXCEPT ![c] = "light"]
    /\ tracker' = [tracker EXCEPT ![c] = "light"]
    /\ Goto(c, "frame")
    /\ UNCHANGED <<budget, policy, boost, failed>>

\* A default that will not build ends the loop over the stages where it is.
ResetFails(c) ==
    /\ pc[c] = "reset"
    /\ \E done \in 0..2 :
          /\ ocr' = IF done >= 1 THEN [ocr EXCEPT ![c] = DefaultOcr] ELSE ocr
          /\ locator' = IF done >= 2 THEN [locator EXCEPT ![c] = "light"] ELSE locator
    /\ failed' = failed \cup {c}
    /\ Goto(c, "frame")
    /\ UNCHANGED <<tracker, budget, policy, boost>>

-------------------------------------------------------------------------------
Boosting(c) == BoostHolds(c) \/ \E wanted \in Boosts \cup {NoReader} : BoostChanges(c, wanted)

Deciding(c) == NoRung(c) \/ Climb(c) \/ TakeSlot(c) \/ CountSlot(c) \/ Defer(c)
                         \/ GiveUp(c) \/ Close(c) \/ ReturnSlot(c)

Applying(c) == SkipOcr(c) \/ Build(c) \/ BuildFails(c) \/ Reset(c) \/ ResetFails(c)

Stopped == (\A c \in Cameras : pc[c] = "ended") /\ UNCHANGED vars

Next == \/ \E c \in Cameras : Boosting(c) \/ Deciding(c) \/ Applying(c)
        \/ Stopped

Spec == Init /\ [][Next]_vars

-------------------------------------------------------------------------------
(* Properties                                                               *)

Readers == Boosts \cup {DefaultOcr, Hub}

\* The values the policies, the pipelines and the budget range over.
TypeOK ==
    /\ slots \in Int /\ held \in Int
    /\ pc \in [Cameras -> {"frame", "harvest", "acquired", "build", "returning",
                           "leaving", "reset", "ended"}]
    /\ rung \in [Cameras -> 0..Top]
    /\ exhausted \in [Cameras -> BOOLEAN]
    /\ holds \in [Cameras -> BOOLEAN]
    /\ ocr \in [Cameras -> Readers]
    /\ locator \in [Cameras -> {"light", "heavy"}]
    /\ tracker \in [Cameras -> {"light", "heavy"}]
    /\ reader \in [Cameras -> Boosts \cup {NoReader}]
    /\ preBoost \in [Cameras -> Readers \cup {NoReader}]
    /\ failed \subseteq Cameras

\* Cameras that have a slot of the semaphore, and those `held` counts.
Takers  == {c \in Cameras : holds[c] \/ pc[c] = "acquired"}
Counted == {c \in Cameras : holds[c] /\ pc[c] \notin {"returning", "leaving"}}

\* No schedule of acquires, give-ups and closes leaks a slot or returns one
\* twice: the semaphore and the count both agree with the cameras that hold.
BudgetExact ==
    /\ slots = BudgetSize - Cardinality(Takers)
    /\ held = Cardinality(Counted)

\* "A process may hold only a few escalations at a time": never more cameras
\* on the ladder than slots, whoever races whom for the last one.
WithinBudget == slots >= 0 /\ Cardinality(Takers) <= BudgetSize

\* A heavy locator or tracker runs only on a camera that holds its slot, until
\* the reset that follows giving up or the thread's end, unless a failed build
\* was counted.
HeavyIsPaidFor ==
    \A c \in Cameras : (locator[c] = "heavy" \/ tracker[c] = "heavy")
        => holds[c] \/ pc[c] \in {"reset", "ended"} \/ c \in failed

\* A boost lasts as long as the operator wants it: while it runs the frame is
\* read with the boosted reader whatever escalation did, and no boosted reader
\* is left behind on a camera once it is over.
BoostFollowsOperator ==
    \A c \in Cameras :
        /\ pc[c] = "harvest" /\ reader[c] # NoReader => ocr[c] = reader[c]
        /\ reader[c] = NoReader => ocr[c] \in {DefaultOcr, Hub}

\* A learned reader gives way to the hub model only when a boost ends over a
\* camera that ran the hub model before it: escalation itself never does it.
HubNeverReplacesLearned ==
    [][\A c \in Cameras : Learned(ocr[c]) /\ ocr'[c] = Hub
           => pc[c] = "frame" /\ preBoost[c] = Hub]_vars

\* escalation.py:28-30: a camera the heavy path does not help "goes back to
\* light".  A boost that ends right after the reset restores the heavy reader
\* it had saved, on a camera that no longer holds a slot.
GivenUpReadsLight ==
    \A c \in Cameras : exhausted[c] /\ ocr[c] = Hub
        => pc[c] \in {"returning", "reset", "leaving", "ended"} \/ c \in failed
===============================================================================
