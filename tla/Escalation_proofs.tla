-------------------------- MODULE Escalation_proofs ---------------------------
(***************************************************************************)
(* The escalation budget of a worker is kept whatever the number of        *)
(* cameras and slots, no camera runs a heavy locator or tracker without a  *)
(* slot, and a boost lasts exactly as long as the operator wants it.       *)
(* All of it follows from one inductive invariant, IInv.                   *)
(*                                                                         *)
(* The second half is about the other side of the operator's boost: the    *)
(* module OcrBoost, instantiated, with the invariant BoostInv.             *)
(***************************************************************************)
EXTENDS Escalation, FiniteSetTheorems, TLAPS

\* Where a thread is tells whether its camera has a slot.
SlotByPlace ==
    \A c \in Cameras :
        /\ pc[c] = "acquired" => ~holds[c] /\ rung[c] < Top
        /\ pc[c] \in {"returning", "leaving"} => holds[c]
        /\ pc[c] = "build" => holds[c] /\ rung[c] \in 1..Top

\* A camera's own reader is never the boosted one: saved while a boost runs,
\* in place otherwise.
OwnReader ==
    \A c \in Cameras : reader[c] # NoReader =>
        /\ preBoost[c] \in {DefaultOcr, Hub}
        /\ ocr[c] \in {reader[c], DefaultOcr, Hub}

IInv ==
    /\ TypeOK
    /\ SlotByPlace
    /\ BudgetExact
    /\ slots >= 0
    /\ HeavyIsPaidFor
    /\ OwnReader
    /\ BoostFollowsOperator

-------------------------------------------------------------------------------
\* The sets of the budget are finite, so their cardinalities are numbers.
LEMMA FiniteSlots ==
    /\ IsFiniteSet(Takers) /\ Cardinality(Takers) \in Nat
    /\ IsFiniteSet(Counted) /\ Cardinality(Counted) \in Nat
<1>1. Takers \subseteq Cameras /\ Counted \subseteq Cameras
  BY DEF Takers, Counted
<1>2. IsFiniteSet(Takers) /\ IsFiniteSet(Counted)
  BY <1>1, EscalationAssumption, FS_Subset
<1>3. QED
  BY <1>2, FS_CardinalityType

\* A step that moves no camera in or out of the budget keeps it exact.
LEMMA SameBudget ==
    ASSUME BudgetExact, UNCHANGED budget, Takers' = Takers, Counted' = Counted
    PROVE  BudgetExact'
  BY DEF BudgetExact, budget

LEMMA InitInv == Init => IInv
<1> SUFFICES ASSUME Init PROVE IInv
  OBVIOUS
<1> USE DEF Init
<1>1. TypeOK
  BY EscalationAssumption DEF TypeOK, Readers, Top
<1>2. Takers = {} /\ Counted = {}
  BY DEF Takers, Counted
<1>3. BudgetExact
  BY <1>2, EscalationAssumption, FS_EmptySet DEF BudgetExact
<1>4. SlotByPlace /\ HeavyIsPaidFor /\ OwnReader /\ BoostFollowsOperator
  BY DEF SlotByPlace, HeavyIsPaidFor, OwnReader, BoostFollowsOperator
<1>5. QED
  BY <1>1, <1>3, <1>4, EscalationAssumption DEF IInv

-------------------------------------------------------------------------------
(* The boost                                                                *)

LEMMA BoostingInv ==
    ASSUME IInv, NEW c \in Cameras, Boosting(c)
    PROVE  IInv'
<1> USE DEF Goto, policy, budget, IInv
<1>1. CASE BoostHolds(c)
  <2> USE <1>1 DEF BoostHolds
  <2>1. TypeOK'
    BY DEF TypeOK, Readers
  <2>2. SlotByPlace' /\ HeavyIsPaidFor'
    BY DEF TypeOK, SlotByPlace, HeavyIsPaidFor
  <2>3. Takers' = Takers /\ Counted' = Counted
    BY DEF TypeOK, Takers, Counted
  <2>4. BudgetExact' /\ (slots >= 0)'
    BY <2>3, SameBudget
  <2>5. OwnReader'
    BY DEF TypeOK, OwnReader
  <2>6. BoostFollowsOperator'
    BY DEF TypeOK, OwnReader, BoostFollowsOperator
  <2>7. QED
    BY <2>1, <2>2, <2>4, <2>5, <2>6
<1>2. ASSUME NEW wanted \in Boosts \cup {NoReader}, BoostChanges(c, wanted)
      PROVE  IInv'
  <2> USE <1>2 DEF BoostChanges
  <2>0. PICK r \in {wanted, NoReader} :
           /\ reader' = [reader EXCEPT ![c] = r]
           /\ preBoost' = [preBoost EXCEPT ![c] = IF r = NoReader THEN r ELSE Own(c)]
           /\ ocr' = [ocr EXCEPT ![c] = IF r = NoReader THEN Own(c) ELSE r]
    OBVIOUS
  <2>1. Own(c) \in {DefaultOcr, Hub} /\ r \in Boosts \cup {NoReader}
    BY DEF Own, OwnReader, BoostFollowsOperator
  <2>2. TypeOK'
    BY <2>0, <2>1 DEF TypeOK, Readers
  <2>3. SlotByPlace' /\ HeavyIsPaidFor'
    BY DEF TypeOK, SlotByPlace, HeavyIsPaidFor
  <2>4. Takers' = Takers /\ Counted' = Counted
    BY DEF TypeOK, Takers, Counted
  <2>5. BudgetExact' /\ (slots >= 0)'
    BY <2>4, SameBudget
  <2>6. OwnReader'
    BY <2>0, <2>1 DEF TypeOK, OwnReader
  <2>7. BoostFollowsOperator'
    BY <2>0, <2>1 DEF TypeOK, BoostFollowsOperator
  <2>8. QED
    BY <2>2, <2>3, <2>5, <2>6, <2>7
<1>3. QED
  BY <1>1, <1>2 DEF Boosting

-------------------------------------------------------------------------------
(* The decision and the budget                                              *)

\* What a step that leaves the pipeline alone keeps of the readers.
LEMMA ReadersKept ==
    ASSUME TypeOK, OwnReader, BoostFollowsOperator, NEW c \in Cameras,
           NEW where \in {"frame", "acquired", "build", "returning", "leaving",
                          "reset", "ended"},
           Goto(c, where), UNCHANGED <<pipeline, boost>>
    PROVE  OwnReader' /\ BoostFollowsOperator'
  BY DEF TypeOK, OwnReader, BoostFollowsOperator, Goto, pipeline, boost

LEMMA QuietInv ==
    ASSUME IInv, NEW c \in Cameras, NoRung(c) \/ Climb(c) \/ Defer(c)
    PROVE  IInv'
<1> USE DEF IInv, Goto, Failing, NoRung, Climb, Defer, budget, policy
<1>1. TypeOK' /\ SlotByPlace'
  BY DEF TypeOK, SlotByPlace, pipeline, boost, Top
<1>2. Takers' = Takers /\ Counted' = Counted
  BY DEF TypeOK, Takers, Counted
<1>3. BudgetExact' /\ (slots >= 0)'
  BY <1>2, SameBudget
<1>4. HeavyIsPaidFor'
  BY DEF TypeOK, HeavyIsPaidFor, pipeline
<1>5. OwnReader' /\ BoostFollowsOperator'
  BY ReadersKept
<1>6. QED
  BY <1>1, <1>3, <1>4, <1>5

LEMMA TakeSlotInv ==
    ASSUME IInv, NEW c \in Cameras, TakeSlot(c)
    PROVE  IInv'
<1> USE DEF IInv, Goto, Failing, TakeSlot, policy
<1>1. TypeOK' /\ SlotByPlace'
  BY DEF TypeOK, SlotByPlace, pipeline, boost
<1>2. Takers' = Takers \cup {c} /\ c \notin Takers /\ Counted' = Counted
  BY DEF TypeOK, Takers, Counted
<1>3. Cardinality(Takers') = Cardinality(Takers) + 1
  BY <1>2, FiniteSlots, FS_AddElement
<1>4. BudgetExact' /\ (slots >= 0)'
  BY <1>2, <1>3, FiniteSlots, EscalationAssumption DEF BudgetExact, TypeOK
<1>5. HeavyIsPaidFor'
  BY DEF TypeOK, HeavyIsPaidFor, pipeline
<1>6. OwnReader' /\ BoostFollowsOperator'
  BY ReadersKept
<1>7. QED
  BY <1>1, <1>4, <1>5, <1>6

LEMMA CountSlotInv ==
    ASSUME IInv, NEW c \in Cameras, CountSlot(c)
    PROVE  IInv'
<1> USE DEF IInv, Goto, CountSlot
<1>1. TypeOK' /\ SlotByPlace'
  BY DEF TypeOK, SlotByPlace, pipeline, boost, Top
<1>2. Takers' = Takers /\ Counted' = Counted \cup {c} /\ c \notin Counted
  BY DEF TypeOK, SlotByPlace, Takers, Counted
<1>3. Cardinality(Counted') = Cardinality(Counted) + 1
  BY <1>2, FiniteSlots, FS_AddElement
<1>4. BudgetExact' /\ (slots >= 0)'
  BY <1>2, <1>3 DEF BudgetExact
<1>5. HeavyIsPaidFor'
  BY DEF TypeOK, HeavyIsPaidFor, pipeline
<1>6. OwnReader' /\ BoostFollowsOperator'
  BY ReadersKept
<1>7. QED
  BY <1>1, <1>4, <1>5, <1>6

LEMMA LeaveInv ==
    ASSUME IInv, NEW c \in Cameras, GiveUp(c) \/ Close(c)
    PROVE  IInv'
<1> USE DEF IInv
<1>1. PICK half \in {"returning", "leaving"}, done \in {"reset", "ended"} :
         Release(c, half, done)
  BY DEF GiveUp, Close
<1>2. /\ UNCHANGED <<slots, rung, holds, pipeline, boost, failed>>
      /\ pc[c] \in {"frame", "harvest"}
      /\ exhausted' \in [Cameras -> BOOLEAN]
  BY DEF GiveUp, Close, Failing, policy, TypeOK
<1>3. CASE holds[c]
  <2>0. pc' = [pc EXCEPT ![c] = half] /\ held' = held - 1
    BY <1>1, <1>3 DEF Release, Goto
  <2>1. TypeOK' /\ SlotByPlace'
    BY <1>2, <1>3, <2>0 DEF TypeOK, SlotByPlace, pipeline, boost
  <2>2. Takers' = Takers /\ Counted' = Counted \ {c} /\ c \in Counted
    BY <1>2, <1>3, <2>0 DEF TypeOK, Takers, Counted
  <2>3. Cardinality(Counted') = Cardinality(Counted) - 1
    BY <2>2, FiniteSlots, FS_RemoveElement
  <2>4. BudgetExact' /\ (slots >= 0)'
    BY <1>2, <2>0, <2>2, <2>3 DEF BudgetExact
  <2>5. HeavyIsPaidFor'
    BY <1>2, <1>3, <2>0 DEF TypeOK, HeavyIsPaidFor, pipeline
  <2>6. OwnReader' /\ BoostFollowsOperator'
    BY <1>2, <2>0, ReadersKept DEF Goto
  <2>7. QED
    BY <2>1, <2>4, <2>5, <2>6
<1>4. CASE ~holds[c]
  <2>0. pc' = [pc EXCEPT ![c] = done] /\ held' = held
    BY <1>1, <1>4 DEF Release, Goto
  <2>1. TypeOK' /\ SlotByPlace'
    BY <1>2, <1>4, <2>0 DEF TypeOK, SlotByPlace, pipeline, boost
  <2>2. Takers' = Takers /\ Counted' = Counted
    BY <1>2, <1>4, <2>0 DEF TypeOK, Takers, Counted
  <2>3. BudgetExact' /\ (slots >= 0)'
    BY <1>2, <2>0, <2>2 DEF BudgetExact
  <2>4. HeavyIsPaidFor'
    BY <1>2, <1>4, <2>0 DEF TypeOK, HeavyIsPaidFor, pipeline
  <2>5. OwnReader' /\ BoostFollowsOperator'
    BY <1>2, <2>0, ReadersKept DEF Goto
  <2>6. QED
    BY <2>1, <2>3, <2>4, <2>5
<1>5. QED
  BY <1>3, <1>4

LEMMA ReturnSlotInv ==
    ASSUME IInv, NEW c \in Cameras, ReturnSlot(c)
    PROVE  IInv'
<1> USE DEF IInv, Goto, ReturnSlot
<1>1. TypeOK' /\ SlotByPlace'
  BY DEF TypeOK, SlotByPlace, pipeline, boost
<1>2. Takers' = Takers \ {c} /\ c \in Takers /\ Counted' = Counted
  BY DEF TypeOK, SlotByPlace, Takers, Counted
<1>3. Cardinality(Takers') = Cardinality(Takers) - 1
  BY <1>2, FiniteSlots, FS_RemoveElement
<1>4. BudgetExact' /\ (slots >= 0)'
  BY <1>2, <1>3, FiniteSlots, EscalationAssumption DEF BudgetExact, TypeOK
<1>5. HeavyIsPaidFor'
  BY DEF TypeOK, HeavyIsPaidFor, pipeline
<1>6. OwnReader' /\ BoostFollowsOperator'
  BY ReadersKept
<1>7. QED
  BY <1>1, <1>4, <1>5, <1>6

-------------------------------------------------------------------------------
(* The swap                                                                 *)

LEMMA ApplyingInv ==
    ASSUME IInv, NEW c \in Cameras, Applying(c)
    PROVE  IInv'
<1> USE DEF IInv, Goto, Applying, SkipOcr, Build, BuildFails, Reset, ResetFails,
            budget, policy, boost
<1>1. UNCHANGED <<budget, policy, boost>> /\ Goto(c, "frame")
      /\ pc[c] \in {"build", "reset"}
  OBVIOUS
<1>2. Ladder[1] = "ocr" /\ Ladder[2] = "locator" /\ Ladder[3] = "tracker"
  BY DEF Ladder
<1>3. pc[c] = "build" => Stage(c) \in {"ocr", "locator", "tracker"}
  BY <1>2 DEF SlotByPlace, Stage, Top
<1>4. \A d \in Cameras : ocr'[d] = ocr[d] \/ (d = c /\ ocr'[d] \in {DefaultOcr, Hub})
  BY <1>3 DEF TypeOK, pipeline
<1>5. TypeOK'
  BY <1>3 DEF TypeOK, Readers, pipeline
<1>6. SlotByPlace'
  BY <1>1 DEF TypeOK, SlotByPlace
<1>7. Takers' = Takers /\ Counted' = Counted
  BY <1>1 DEF TypeOK, Takers, Counted
<1>8. BudgetExact' /\ (slots >= 0)'
  BY <1>1, <1>7, SameBudget
<1>9. HeavyIsPaidFor'
  BY <1>1, <1>3 DEF TypeOK, SlotByPlace, HeavyIsPaidFor, pipeline
<1>10. OwnReader' /\ BoostFollowsOperator'
  BY <1>1, <1>4 DEF TypeOK, OwnReader, BoostFollowsOperator
<1>11. QED
  BY <1>5, <1>6, <1>8, <1>9, <1>10

-------------------------------------------------------------------------------
LEMMA StepInv == IInv /\ [Next]_vars => IInv'
<1> SUFFICES ASSUME IInv, [Next]_vars PROVE IInv'
  OBVIOUS
<1>1. CASE UNCHANGED vars
  BY <1>1 DEF vars, budget, policy, boost, pipeline, IInv, TypeOK, SlotByPlace,
              BudgetExact, Takers, Counted, HeavyIsPaidFor, OwnReader,
              BoostFollowsOperator
<1>2. ASSUME NEW c \in Cameras, Deciding(c) PROVE IInv'
  BY <1>2, QuietInv, TakeSlotInv, CountSlotInv, LeaveInv, ReturnSlotInv DEF Deciding
<1>3. QED
  BY <1>1, <1>2, BoostingInv, ApplyingInv DEF Next, Stopped

THEOREM EscalationInvariant == Spec => []IInv
  BY InitInv, StepInv, PTL DEF Spec

\* The policies and the pipelines only ever take the values they are meant to.
THEOREM EscalationTyped == Spec => []TypeOK
<1>1. IInv => TypeOK
  BY DEF IInv
<1>2. QED
  BY <1>1, EscalationInvariant, PTL

\* No schedule leaks a slot of the budget or returns one twice.
THEOREM SlotsExact == Spec => []BudgetExact
<1>1. IInv => BudgetExact
  BY DEF IInv
<1>2. QED
  BY <1>1, EscalationInvariant, PTL

\* Never more cameras on the ladder than the budget has slots.
THEOREM BudgetKept == Spec => []WithinBudget
<1>1. IInv => WithinBudget
  BY FiniteSlots, EscalationAssumption DEF IInv, TypeOK, BudgetExact, WithinBudget
<1>2. QED
  BY <1>1, EscalationInvariant, PTL

\* A heavy locator or tracker runs only on a camera that holds its slot.
THEOREM HeavyHoldsSlot == Spec => []HeavyIsPaidFor
<1>1. IInv => HeavyIsPaidFor
  BY DEF IInv
<1>2. QED
  BY <1>1, EscalationInvariant, PTL

\* A boost lasts exactly as long as the operator wants it.
THEOREM BoostsEnd == Spec => []BoostFollowsOperator
<1>1. IInv => BoostFollowsOperator
  BY DEF IInv
<1>2. QED
  BY <1>1, EscalationInvariant, PTL

\* Escalation never replaces a learned reader by the hub model; only a boost
\* that ends over a camera already on the hub model puts it back.
THEOREM LearnedReadersKept == Spec => HubNeverReplacesLearned
<1> DEFINE Kept == \A c \in Cameras : Learned(ocr[c]) /\ ocr'[c] = Hub
                       => pc[c] = "frame" /\ preBoost[c] = Hub
<1>1. IInv /\ [Next]_vars => [Kept]_vars
  <2> SUFFICES ASSUME IInv, NEW c \in Cameras, [Next]_vars, Learned(ocr[c]), ocr'[c] = Hub
               PROVE  pc[c] = "frame" /\ preBoost[c] = Hub
    OBVIOUS
  <2> USE EscalationAssumption DEF IInv, Learned
  <2>1. CASE UNCHANGED vars
    BY <2>1 DEF vars, pipeline
  <2>2. ASSUME NEW d \in Cameras, Boosting(d) PROVE pc[c] = "frame" /\ preBoost[c] = Hub
    <3>1. c = d /\ pc[c] = "frame"
      BY <2>2 DEF Boosting, BoostHolds, BoostChanges, TypeOK
    <3>2. CASE BoostHolds(d)
      BY <3>1, <3>2 DEF BoostHolds, TypeOK
    <3>3. ASSUME NEW wanted \in Boosts \cup {NoReader}, BoostChanges(d, wanted)
          PROVE  preBoost[c] = Hub
      BY <3>1, <3>3 DEF BoostChanges, Own, TypeOK
    <3>4. QED
      BY <2>2, <3>1, <3>2, <3>3 DEF Boosting
  <2>3. ASSUME NEW d \in Cameras, Deciding(d) PROVE FALSE
    <3>1. ocr' = ocr
      BY <2>3 DEF Deciding, NoRung, Climb, TakeSlot, CountSlot, Defer, GiveUp, Close,
         ReturnSlot, pipeline
    <3>2. QED
      BY <3>1
  <2>4. ASSUME NEW d \in Cameras, Applying(d) PROVE FALSE
    <3>1. CASE Build(d)
      <4>1. Stage(d) \in {"ocr", "locator", "tracker"}
        BY <3>1 DEF Build, SlotByPlace, Stage, Ladder, Top
      <4>2. QED
        BY <3>1, <4>1 DEF Build, TypeOK
    <3>2. CASE SkipOcr(d) \/ BuildFails(d)
      BY <3>2 DEF SkipOcr, BuildFails, pipeline
    <3>3. CASE Reset(d) \/ ResetFails(d)
      BY <3>3 DEF Reset, ResetFails, TypeOK
    <3>4. QED
      BY <2>4, <3>1, <3>2, <3>3 DEF Applying
  <2>5. QED
    BY <2>1, <2>2, <2>3, <2>4 DEF Next, Stopped
<1>2. QED
  BY <1>1, EscalationInvariant, PTL DEF Spec, HubNeverReplacesLearned

-------------------------------------------------------------------------------
(* The boosts as the operators start them and the workers take them up, in  *)
(* an instance of their own: a table of rows and the requests that race.    *)

CONSTANTS Requests, RowIds, MaxCameras, None
VARIABLES boosts, asked, stage, copy, fresh, loaded, barred, following, boosted, earlier

Boost == INSTANCE OcrBoost WITH Boosts <- RowIds

\* The operators of the library are the same in the instance.
LEMMA SameSets ==
    ASSUME NEW S, NEW T
    PROVE  /\ Boost!IsFiniteSet(S) <=> IsFiniteSet(S)
           /\ Boost!Cardinality(S) = Cardinality(S)
           /\ Boost!Bijection(S, T) = Bijection(S, T)
<1>1. Boost!IsFiniteSet(S) <=> IsFiniteSet(S)
  BY DEF IsFiniteSet, Boost!IsFiniteSet
<1>2. Boost!Cardinality(S) = Cardinality(S)
  BY DEF Cardinality, Boost!Cardinality
<1>3. Boost!Bijection(S, T) = Bijection(S, T)
  BY DEF Bijection, Boost!Bijection, Injection, Boost!Injection, Surjection, Boost!Surjection,
         IsInjective, Boost!IsInjective
<1>4. QED
  BY <1>1, <1>2, <1>3

LEMMA DisjointUnion ==
    ASSUME NEW S, NEW T, IsFiniteSet(S), IsFiniteSet(T), S \cap T = {}
    PROVE  IsFiniteSet(S \cup T) /\ Cardinality(S \cup T) = Cardinality(S) + Cardinality(T)
<1>1. Cardinality(S) \in Nat /\ Cardinality(T) \in Nat
  BY FS_CardinalityType
<1>2. Cardinality(S \cap T) = 0
  BY FS_EmptySet
<1>3. IsFiniteSet(S \cup T)
      /\ Cardinality(S \cup T) = Cardinality(S) + Cardinality(T) - Cardinality(S \cap T)
  BY FS_Union
<1>4. QED
  BY <1>1, <1>2, <1>3

\* The cameras that are boosted now.
LiveCameras == {boosts[b].camera : b \in Boost!Live}

\* The cap holds with the boosts of cs.
Fits(cs) == Cardinality(LiveCameras \ cs) + Cardinality(cs) <= MaxCameras

\* A request that may insert is the only one, and its cameras fit under the cap.
OneStarts ==
    /\ \A q, r \in Requests : {stage[q], stage[r]} \subseteq {"locked", "counted"} => q = r
    /\ \A r \in Requests : stage[r] = "counted" => Fits(asked[r])

\* Ids are taken in order.
RowsInOrder == IsFiniteSet(Boost!Rows) /\ \A b \in Boost!Rows : b <= Cardinality(Boost!Rows)

\* Of two boosts of a camera, one is cleared, and the cameras with an open one are
\* within the cap.
CapHolds ==
    /\ Cardinality(LiveCameras) <= MaxCameras
    /\ \A b, d \in Boost!Rows : b # d /\ boosts[b].camera = boosts[d].camera
                                  => "cleared" \in {boosts[b].end, boosts[d].end}

\* The copy and the threads know rows of their own camera only, and a thread that
\* follows a boost that is still open has it from the copy.
RowsFollowed ==
    \A c \in Cameras :
        /\ copy[c] # None => copy[c] \in Boost!Rows /\ boosts[copy[c]].camera = c
        /\ following[c] # None => following[c] \in Boost!Rows /\ boosts[following[c]].camera = c
        /\ following[c] \in Boost!Live => copy[c] = following[c]

BoostInv ==
    Boost!TypeOK /\ OneStarts /\ RowsInOrder /\ CapHolds /\ RowsFollowed /\ Boost!OutcomeIsTrue

\* The cap as the code counts it is the cap as it is proved.
LEMMA CapIs == Boost!CapKept <=> CapHolds
  BY SameSets DEF Boost!CapKept, CapHolds, LiveCameras

LEMMA FitsIs == ASSUME NEW cs PROVE Boost!Cap(cs) <=> Fits(cs)
  BY SameSets DEF Boost!Cap, Fits, LiveCameras

LEMMA BoostInitInv == Boost!BoostAssumption /\ Boost!Init => BoostInv
<1> SUFFICES ASSUME Boost!BoostAssumption, Boost!Init PROVE BoostInv
  OBVIOUS
<1> USE DEF Boost!BoostAssumption, Boost!Init, Boost!Rows, Boost!Live, Boost!Open
<1>1. Boost!Rows = {} /\ Boost!Live = {} /\ LiveCameras = {}
  BY DEF LiveCameras
<1>2. Boost!TypeOK /\ OneStarts /\ RowsFollowed /\ Boost!OutcomeIsTrue
  BY <1>1 DEF Boost!TypeOK, OneStarts, RowsFollowed, Boost!OutcomeIsTrue
<1>3. RowsInOrder /\ CapHolds
  BY <1>1, FS_EmptySet DEF RowsInOrder, CapHolds
<1>4. QED
  BY <1>2, <1>3 DEF BoostInv

\* The boosted cameras are finitely many.
LEMMA FiniteCameras ==
    ASSUME Boost!BoostAssumption, BoostInv
    PROVE  /\ LiveCameras \subseteq Cameras
           /\ \A cs \in SUBSET Cameras : IsFiniteSet(cs) /\ Cardinality(cs) \in Nat
<1>1. LiveCameras \subseteq Cameras
  BY DEF LiveCameras, BoostInv, Boost!TypeOK, Boost!Row, Boost!Live
<1>2. IsFiniteSet(Cameras)
  BY SameSets DEF Boost!BoostAssumption
<1>3. QED
  BY <1>1, <1>2, FS_Subset, FS_CardinalityType

\* A table whose rows stay, or end, keeps what is said of it.
Ending ==
    /\ Boost!Rows' = Boost!Rows
    /\ \A b \in Boost!Rows :
          /\ boosts'[b] \in Boost!Row
          /\ boosts'[b].camera = boosts[b].camera
          /\ boosts'[b].end # boosts[b].end => boosts[b].end = "open"
    /\ UNCHANGED <<asked, stage>>

\* Rows that end make room, for the boosts there are and for a request that counts.
LEMMA EndingInv ==
    ASSUME Boost!BoostAssumption, BoostInv, Ending
    PROVE  OneStarts' /\ RowsInOrder' /\ CapHolds' /\ Boost!Live' \subseteq Boost!Live
<1> USE DEF BoostInv, Ending
<1>1. Boost!Live' \subseteq Boost!Live
  BY DEF Boost!Live, Boost!Open, Boost!TypeOK, Boost!Row
<1>2. LiveCameras' \subseteq LiveCameras
  BY <1>1 DEF LiveCameras, Boost!Live
<1>3. \A cs \in SUBSET Cameras : Fits(cs) => Fits(cs)'
  <2> SUFFICES ASSUME NEW cs \in SUBSET Cameras, Fits(cs) PROVE Fits(cs)'
    OBVIOUS
  <2>1. LiveCameras' \ cs \subseteq LiveCameras \ cs /\ LiveCameras \ cs \subseteq Cameras
    BY <1>2, FiniteCameras
  <2>2. Cardinality(LiveCameras' \ cs) <= Cardinality(LiveCameras \ cs)
    BY <2>1, FiniteCameras, FS_Subset
  <2>3. {Cardinality(LiveCameras' \ cs), Cardinality(LiveCameras \ cs), Cardinality(cs)}
            \subseteq Nat
    BY <2>1, FiniteCameras
  <2>4. QED
    BY <2>2, <2>3 DEF Fits, Boost!BoostAssumption
<1>4. OneStarts'
  BY <1>3 DEF OneStarts, Boost!TypeOK
<1>5. Cardinality(LiveCameras') <= MaxCameras
  <2>1. Cardinality(LiveCameras') <= Cardinality(LiveCameras)
    BY <1>2, FiniteCameras, FS_Subset
  <2>2. {Cardinality(LiveCameras'), Cardinality(LiveCameras)} \subseteq Nat
    BY <1>2, FiniteCameras
  <2>3. QED
    BY <2>1, <2>2 DEF CapHolds, Boost!BoostAssumption
<1>6. CapHolds'
  BY <1>5 DEF CapHolds, Boost!TypeOK, Boost!Row
<1>7. RowsInOrder'
  BY DEF RowsInOrder
<1>8. QED
  BY <1>1, <1>4, <1>6, <1>7

\* clear_boost, and a boost that runs out.
LEMMA EndsInv ==
    ASSUME Boost!BoostAssumption, BoostInv,
           (\E c \in Cameras : Boost!Clear(c)) \/ (\E b \in RowIds : Boost!Expire(b))
    PROVE  BoostInv'
<1> USE DEF BoostInv
<1>1. UNCHANGED <<asked, stage, copy, fresh, loaded, barred, following, boosted, earlier>>
  BY DEF Boost!Clear, Boost!Expire, Boost!operator, Boost!cache, Boost!readers, Boost!threads
<1>2. /\ Boost!Rows' = Boost!Rows
      /\ \A b \in Boost!Rows :
            /\ boosts'[b] \in Boost!Row
            /\ boosts'[b].camera = boosts[b].camera /\ boosts'[b].outcome = boosts[b].outcome
            /\ boosts'[b].end # boosts[b].end => boosts[b].end = "open"
  BY DEF Boost!Clear, Boost!Expire, Boost!Rows, Boost!Live, Boost!Open, Boost!TypeOK, Boost!Row
<1>3. Ending
  BY <1>1, <1>2 DEF Ending
<1>4. Boost!TypeOK'
  BY <1>1, <1>2 DEF Boost!TypeOK
<1>5. OneStarts' /\ RowsInOrder' /\ CapHolds' /\ Boost!Live' \subseteq Boost!Live
  BY <1>3, EndingInv
<1>6. RowsFollowed'
  BY <1>1, <1>2, <1>5 DEF RowsFollowed, Boost!TypeOK
<1>7. Boost!OutcomeIsTrue'
  BY <1>1, <1>2, <1>5 DEF Boost!OutcomeIsTrue, Boost!Live
<1>8. QED
  BY <1>4, <1>5, <1>6, <1>7

\* What a request does before it inserts.
LEMMA StartingInv ==
    ASSUME Boost!BoostAssumption, BoostInv, NEW r \in Requests,
           Boost!Choose(r) \/ Boost!Lock(r) \/ Boost!Count(r)
    PROVE  BoostInv'
<1> USE DEF BoostInv
<1>1. UNCHANGED <<boosts, earlier, copy, fresh, loaded, barred, following, boosted>>
  BY DEF Boost!Choose, Boost!Lock, Boost!Count, Boost!table, Boost!cache, Boost!readers,
         Boost!threads
<1>2. Boost!Rows' = Boost!Rows /\ Boost!Live' = Boost!Live /\ LiveCameras' = LiveCameras
  BY <1>1 DEF Boost!Rows, Boost!Live, Boost!Open, LiveCameras
<1>3. Boost!TypeOK' /\ RowsInOrder' /\ CapHolds' /\ RowsFollowed' /\ Boost!OutcomeIsTrue'
  <2>1. asked' \in [Requests -> SUBSET Cameras]
        /\ stage' \in [Requests -> {"new", "waiting", "locked", "counted", "done"}]
    BY DEF Boost!Choose, Boost!Lock, Boost!Count, Boost!Goto, Boost!TypeOK
  <2>2. QED
    BY <1>1, <1>2, <2>1 DEF Boost!TypeOK, RowsInOrder, CapHolds, RowsFollowed, Boost!OutcomeIsTrue
<1>4. OneStarts'
  <2>1. \A cs : Fits(cs)' <=> Fits(cs)
    BY <1>2 DEF Fits
  <2>2. stage'[r] = "counted" => Fits(asked'[r])
    BY FitsIs DEF Boost!Choose, Boost!Lock, Boost!Count, Boost!Goto, Boost!TypeOK
  <2>3. \A q \in Requests \ {r} : stage'[q] = stage[q] /\ asked'[q] = asked[q]
    BY DEF Boost!Choose, Boost!Lock, Boost!Count, Boost!Goto, Boost!TypeOK
  <2>4. \A q \in Requests : stage'[q] = "counted" => Fits(asked'[q])
    BY <2>2, <2>3 DEF OneStarts
  <2>5. stage'[r] \in {"locked", "counted"} =>
            \A q \in Requests \ {r} : stage[q] \notin {"locked", "counted"}
    BY DEF Boost!Choose, Boost!Lock, Boost!Count, Boost!Goto, Boost!TypeOK, OneStarts
  <2>6. QED
    BY <2>1, <2>3, <2>4, <2>5 DEF OneStarts
<1>5. QED
  BY <1>3, <1>4

\* The rows a request inserts are new, on cameras of its own, and one on each.
LEMMA InsertInv ==
    ASSUME Boost!BoostAssumption, BoostInv, NEW r \in Requests, Boost!Insert(r)
    PROVE  BoostInv'
<1> USE DEF BoostInv
<1> DEFINE cs  == asked[r]
           new == Boost!NextIds(cs)
           old == Boost!Rows
<1>1. cs \subseteq Cameras /\ stage[r] = "counted" /\ Fits(cs)
  BY DEF Boost!Insert, OneStarts, Boost!TypeOK
<1>2. PICK of \in Bijection(new, cs) :
        boosts' = [b \in old \cup DOMAIN of |->
            IF b \in old THEN Boost!Replaced(boosts[b], cs)
            ELSE [camera |-> of[b], end |-> "open", outcome |-> "pending"]]
  BY SameSets DEF Boost!Insert
<1>3. /\ of \in [new -> cs]
      /\ \A b, d \in new : of[b] = of[d] => b = d
  BY <1>2 DEF Bijection, Injection, IsInjective
<1>4. /\ UNCHANGED <<asked, copy, fresh, loaded, barred, following, boosted, earlier>>
      /\ stage' = [stage EXCEPT ![r] = "done"]
  BY DEF Boost!Insert, Boost!Goto, Boost!cache, Boost!readers, Boost!threads
<1>5. Boost!Rows' = old \cup new
  BY <1>2, <1>3 DEF Boost!Rows
<1>6. Cardinality(old) \in Nat /\ Cardinality(cs) \in Nat /\ IsFiniteSet(cs) /\ IsFiniteSet(old)
  BY <1>1, FiniteCameras, FS_CardinalityType DEF RowsInOrder
<1>7. /\ new \subseteq RowIds
      /\ new \subseteq (Cardinality(old) + 1)..(Cardinality(old) + Cardinality(cs))
      /\ Cardinality(new) = Cardinality(cs)
  <2>1. /\ Boost!Cardinality(cs) = Cardinality(cs) /\ Boost!Cardinality(new) = Cardinality(new)
        /\ Boost!Cardinality(old) = Cardinality(old)
    BY SameSets
  <2>2. new = {b \in RowIds : b > Cardinality(old) /\ b <= Cardinality(old) + Cardinality(cs)}
    BY <2>1 DEF Boost!NextIds
  <2>3. Cardinality(new) = Cardinality(cs)
    BY <2>1 DEF Boost!Insert
  <2>4. RowIds \subseteq Nat
    BY DEF Boost!BoostAssumption
  <2>5. new \subseteq (Cardinality(old) + 1)..(Cardinality(old) + Cardinality(cs))
    <3> SUFFICES ASSUME NEW b \in new
                 PROVE  b \in (Cardinality(old) + 1)..(Cardinality(old) + Cardinality(cs))
      OBVIOUS
    <3>1. b \in Nat /\ b > Cardinality(old) /\ b <= Cardinality(old) + Cardinality(cs)
      BY <2>2, <2>4
    <3>2. QED
      BY <1>6, <3>1
  <2>6. QED
    BY <2>2, <2>3, <2>5
<1>8. old \cap new = {} /\ old \subseteq Nat /\ new \subseteq Nat
  BY <1>6, <1>7 DEF RowsInOrder, Boost!TypeOK, Boost!BoostAssumption
<1>9. ASSUME NEW b \in old
      PROVE  /\ boosts'[b] \in Boost!Row
             /\ boosts'[b].camera = boosts[b].camera /\ boosts'[b].outcome = boosts[b].outcome
             /\ boosts'[b].end # boosts[b].end => boosts'[b].end = "cleared"
             /\ boosts[b].camera \in cs => boosts'[b].end = "cleared"
  BY <1>2, <1>8 DEF Boost!Replaced, Boost!TypeOK, Boost!Row
<1>10. ASSUME NEW b \in new
       PROVE  /\ boosts'[b] \in Boost!Row /\ boosts'[b].camera = of[b]
              /\ boosts'[b].outcome = "pending"
  BY <1>1, <1>2, <1>3, <1>8 DEF Boost!Row
<1>11. Boost!TypeOK'
  BY <1>4, <1>5, <1>7, <1>9, <1>10 DEF Boost!TypeOK
<1>12. RowsInOrder'
  <2>1. IsFiniteSet(new)
    <3>1. IsFiniteSet((Cardinality(old) + 1)..(Cardinality(old) + Cardinality(cs)))
      BY <1>6, FS_Interval
    <3>2. QED
      BY <1>7, <3>1, FS_Subset
  <2>2. IsFiniteSet(old \cup new) /\ Cardinality(old \cup new) = Cardinality(old) + Cardinality(cs)
    BY <1>6, <1>7, <1>8, <2>1, DisjointUnion
  <2>3. QED
    BY <1>5, <1>6, <1>7, <1>8, <2>2 DEF RowsInOrder
<1>13. Boost!Live' \cap old \subseteq {b \in Boost!Live : boosts[b].camera \notin cs}
  BY <1>9 DEF Boost!Live, Boost!Open
<1>14. Cardinality(LiveCameras') <= MaxCameras
  <2>1. LiveCameras' \subseteq (LiveCameras \ cs) \cup cs
    BY <1>3, <1>5, <1>9, <1>10, <1>13 DEF LiveCameras, Boost!Live
  <2>2. LiveCameras \ cs \subseteq Cameras /\ (LiveCameras \ cs) \cup cs \subseteq Cameras
    BY <1>1, FiniteCameras
  <2>3. Cardinality((LiveCameras \ cs) \cup cs) = Cardinality(LiveCameras \ cs) + Cardinality(cs)
    <3>1. (LiveCameras \ cs) \cap cs = {}
      OBVIOUS
    <3>2. QED
      BY <1>1, <2>2, <3>1, FiniteCameras, DisjointUnion
  <2>4. Cardinality(LiveCameras') <= Cardinality((LiveCameras \ cs) \cup cs)
    BY <2>1, <2>2, FiniteCameras, FS_Subset
  <2>5. Cardinality(LiveCameras') \in Nat /\ Cardinality((LiveCameras \ cs) \cup cs) \in Nat
    BY <2>1, <2>2, FiniteCameras
  <2>6. QED
    BY <1>1, <2>3, <2>4, <2>5 DEF Fits, Boost!BoostAssumption
<1>15. CapHolds'
  <2> SUFFICES ASSUME NEW b \in Boost!Rows', NEW d \in Boost!Rows', b # d,
                      boosts'[b].camera = boosts'[d].camera
               PROVE  "cleared" \in {boosts'[b].end, boosts'[d].end}
    BY <1>14 DEF CapHolds
  <2>1. CASE b \in old /\ d \in old
    BY <1>9, <2>1 DEF CapHolds
  <2>2. CASE b \in old /\ d \in new
    BY <1>3, <1>9, <1>10, <2>2
  <2>3. CASE b \in new /\ d \in old
    BY <1>3, <1>9, <1>10, <2>3
  <2>4. CASE b \in new /\ d \in new
    BY <1>3, <1>10, <2>4
  <2>5. QED
    BY <1>5, <2>1, <2>2, <2>3, <2>4
<1>16. OneStarts'
  BY <1>1, <1>4 DEF OneStarts, Boost!TypeOK
<1>17. RowsFollowed'
  <2>1. ASSUME NEW c \in Cameras, following[c] \in Boost!Live' PROVE following[c] \in Boost!Live
    <3>1. following[c] \in Nat
      BY <1>5, <1>8, <2>1 DEF Boost!Live
    <3>2. following[c] \in old
      BY <3>1 DEF RowsFollowed, Boost!BoostAssumption
    <3>3. QED
      BY <1>13, <2>1, <3>2
  <2>2. QED
    BY <1>4, <1>5, <1>9, <2>1 DEF RowsFollowed
<1>18. Boost!OutcomeIsTrue'
  BY <1>4, <1>5, <1>9, <1>10, <1>13 DEF Boost!OutcomeIsTrue, Boost!Live
<1>19. QED
  BY <1>11, <1>12, <1>15, <1>16, <1>17, <1>18

\* The copy that refresh takes has the one open boost of each camera.
LEMMA CacheInv ==
    ASSUME Boost!BoostAssumption, BoostInv,
           Boost!Age \/ Boost!Refresh \/ Boost!RefreshFails \/ Boost!RetryAllowed
    PROVE  BoostInv'
<1> USE DEF BoostInv
<1>1. UNCHANGED <<boosts, earlier, asked, stage, following, boosted>>
  BY DEF Boost!Age, Boost!Refresh, Boost!RefreshFails, Boost!RetryAllowed,
         Boost!table, Boost!operator, Boost!cache, Boost!threads
<1>2. Boost!Rows' = Boost!Rows /\ Boost!Live' = Boost!Live /\ LiveCameras' = LiveCameras
  BY <1>1 DEF Boost!Rows, Boost!Live, Boost!Open, LiveCameras
<1>3. OneStarts' /\ RowsInOrder' /\ CapHolds' /\ Boost!OutcomeIsTrue'
  BY <1>1, <1>2 DEF OneStarts, Fits, RowsInOrder, CapHolds, Boost!OutcomeIsTrue
<1>4. \A c \in Cameras, b \in Boost!Live : boosts[b].camera = c => Boost!Wanted(c) = b
  <2> SUFFICES ASSUME NEW b \in Boost!Live PROVE Boost!Wanted(boosts[b].camera) = b
    OBVIOUS
  <2>1. {d \in Boost!Live : boosts[d].camera = boosts[b].camera} = {b}
    BY DEF CapHolds, Boost!Live, Boost!Open
  <2>2. b \in Nat
    BY DEF Boost!Live, Boost!TypeOK, Boost!BoostAssumption
  <2>3. QED
    BY <2>1, <2>2 DEF Boost!Wanted, Boost!Max
<1>5. \A c \in Cameras : Boost!Wanted(c) # None =>
          Boost!Wanted(c) \in Boost!Live /\ boosts[Boost!Wanted(c)].camera = c
  <2> SUFFICES ASSUME NEW c \in Cameras, Boost!Wanted(c) # None
               PROVE  Boost!Wanted(c) \in Boost!Live /\ boosts[Boost!Wanted(c)].camera = c
    OBVIOUS
  <2>1. PICK b \in Boost!Live : boosts[b].camera = c
    BY DEF Boost!Wanted
  <2>2. QED
    BY <1>4, <2>1
<1>6. Boost!TypeOK' /\ RowsFollowed'
  <2>1. CASE Boost!Refresh
    <3>1. /\ copy' = [c \in Cameras |-> Boost!Wanted(c)] /\ fresh' = TRUE
          /\ UNCHANGED <<loaded, barred>>
      BY <2>1 DEF Boost!Refresh, Boost!readers
    <3>2. \A c \in Cameras : Boost!Wanted(c) \in RowIds \cup {None}
      BY <1>5 DEF Boost!TypeOK, Boost!Live
    <3>3. Boost!TypeOK'
      BY <1>1, <1>2, <3>1, <3>2 DEF Boost!TypeOK
    <3>4. \A c \in Cameras : following[c] \in Boost!Live => Boost!Wanted(c) = following[c]
      <4> SUFFICES ASSUME NEW c \in Cameras, following[c] \in Boost!Live
                   PROVE  Boost!Wanted(c) = following[c]
        OBVIOUS
      <4>1. boosts[following[c]].camera = c
        BY DEF RowsFollowed, Boost!Live, Boost!TypeOK, Boost!BoostAssumption
      <4>2. QED
        BY <1>4, <4>1
    <3>5. RowsFollowed'
      BY <1>1, <1>2, <1>5, <3>1, <3>4 DEF RowsFollowed, Boost!Live
    <3>6. QED
      BY <3>3, <3>5
  <2>2. CASE Boost!Age \/ Boost!RefreshFails \/ Boost!RetryAllowed
    BY <1>1, <1>2, <2>2 DEF Boost!Age, Boost!RefreshFails, Boost!RetryAllowed, Boost!readers,
       Boost!cache, Boost!TypeOK, RowsFollowed
  <2>3. QED
    BY <2>1, <2>2
<1>7. QED
  BY <1>3, <1>6

\* A frame that finds another boost in the copy than it follows finds the one it
\* follows over.
LEMMA BoostApplyingInv ==
    ASSUME Boost!BoostAssumption, BoostInv, NEW c \in Cameras, Boost!Applying(c)
    PROVE  BoostInv'
<1> USE DEF BoostInv
<1>1. /\ copy[c] # following[c] /\ following' = [following EXCEPT ![c] = copy[c]]
      /\ UNCHANGED <<asked, stage, copy, fresh>>
  BY DEF Boost!Applying, Boost!BoostEnds, Boost!BoostBegins, Boost!BoostFails, Boost!Swaps,
         Boost!operator, Boost!cache
<1>2. \A b \in Boost!Live : boosts[b].camera = c => following[c] # b
  BY <1>1 DEF RowsFollowed
<1>3. \/ UNCHANGED <<boosts, earlier>>
      \/ \E outcome \in {"running", "failed"} :
            /\ copy[c] # None /\ Boost!Report(copy[c], outcome)
            /\ outcome = "running" <=> c \in boosted'
  BY DEF Boost!Applying, Boost!BoostEnds, Boost!BoostBegins, Boost!BoostFails, Boost!table
<1>4. /\ boosted' \ {c} = boosted \ {c} /\ boosted' \subseteq Cameras
      /\ {loaded', barred'} \subseteq BOOLEAN
  BY DEF Boost!Applying, Boost!BoostEnds, Boost!BoostBegins, Boost!BoostFails, Boost!TypeOK,
         Boost!readers
<1>5. copy[c] # None => copy[c] \in Boost!Rows /\ boosts[copy[c]].camera = c
  BY DEF RowsFollowed
<1>6. /\ Boost!Rows' = Boost!Rows
      /\ \A b \in Boost!Rows :
            /\ boosts'[b] \in Boost!Row
            /\ boosts'[b].camera = boosts[b].camera /\ boosts'[b].end = boosts[b].end
            /\ b # copy[c] => boosts'[b].outcome = boosts[b].outcome
                              /\ (b \in earlier' <=> b \in earlier)
  BY <1>3, <1>5 DEF Boost!Report, Boost!Rows, Boost!TypeOK, Boost!Row
<1>7. Ending
  BY <1>1, <1>6 DEF Ending
<1>8. Boost!Live' = Boost!Live
  BY <1>6 DEF Boost!Live, Boost!Open
<1>9. Boost!TypeOK'
  <2>1. following' \in [Cameras -> RowIds \cup {None}]
    BY <1>1 DEF Boost!TypeOK
  <2>2. earlier' \subseteq Boost!Rows
    BY <1>3 DEF Boost!Report, Boost!TypeOK
  <2>3. QED
    BY <1>1, <1>4, <1>6, <2>1, <2>2 DEF Boost!TypeOK
<1>10. OneStarts' /\ RowsInOrder' /\ CapHolds'
  BY <1>7, EndingInv
<1>11. RowsFollowed'
  BY <1>1, <1>5, <1>6, <1>8 DEF RowsFollowed, Boost!TypeOK
<1>12. Boost!OutcomeIsTrue'
  <2> SUFFICES ASSUME NEW b \in Boost!Live, b \notin earlier', boosts'[b].outcome # "pending"
               PROVE  /\ following'[boosts[b].camera] = b
                      /\ boosts'[b].outcome = "running" <=> boosts[b].camera \in boosted'
    BY <1>6, <1>8 DEF Boost!OutcomeIsTrue, Boost!Live
  <2>1. CASE b = copy[c] /\ ~UNCHANGED <<boosts, earlier>>
    BY <1>1, <1>3, <1>5, <2>1 DEF Boost!Report, Boost!TypeOK, Boost!Row, Boost!Rows, Boost!Live
  <2>2. CASE b # copy[c] \/ UNCHANGED <<boosts, earlier>>
    <3>1. boosts[b].outcome # "pending" /\ b \notin earlier
      BY <1>6, <2>2 DEF Boost!Live
    <3>2. following[boosts[b].camera] = b /\ boosts'[b].outcome = boosts[b].outcome
          /\ (boosts[b].outcome = "running" <=> boosts[b].camera \in boosted)
      BY <1>6, <2>2, <3>1 DEF Boost!OutcomeIsTrue, Boost!Live
    <3>3. boosts[b].camera # c /\ boosts[b].camera \in Cameras
      BY <1>2, <3>2 DEF Boost!Live, Boost!TypeOK, Boost!Row
    <3>4. QED
      BY <1>1, <1>4, <3>2, <3>3 DEF Boost!TypeOK
  <2>3. QED
    BY <2>1, <2>2
<1>13. QED
  BY <1>9, <1>10, <1>11, <1>12

\* A worker that starts follows nothing, and what an earlier one has reported is earlier.
LEMMA RestartInv ==
    ASSUME Boost!BoostAssumption, BoostInv, Boost!Restart
    PROVE  BoostInv'
<1> USE DEF BoostInv
<1>1. UNCHANGED <<boosts, asked, stage>>
  BY DEF Boost!Restart, Boost!operator
<1>2. Boost!Rows' = Boost!Rows /\ Boost!Live' = Boost!Live /\ LiveCameras' = LiveCameras
  BY <1>1 DEF Boost!Rows, Boost!Live, Boost!Open, LiveCameras
<1>3. Boost!TypeOK'
  BY <1>1, <1>2 DEF Boost!Restart, Boost!TypeOK
<1>4. OneStarts' /\ RowsInOrder' /\ CapHolds'
  BY <1>1, <1>2 DEF OneStarts, Fits, RowsInOrder, CapHolds
<1>5. RowsFollowed'
  <2>1. None \notin Boost!Live
    BY DEF Boost!Live, Boost!TypeOK, Boost!BoostAssumption
  <2>2. QED
    BY <1>2, <2>1 DEF RowsFollowed, Boost!Restart
<1>6. Boost!OutcomeIsTrue'
  BY <1>1, <1>2 DEF Boost!OutcomeIsTrue, Boost!Restart, Boost!Live
<1>7. QED
  BY <1>3, <1>4, <1>5, <1>6

LEMMA BoostNextInv ==
    ASSUME Boost!BoostAssumption
    PROVE  BoostInv /\ [Boost!Next]_(Boost!vars) => BoostInv'
<1> SUFFICES ASSUME BoostInv, [Boost!Next]_(Boost!vars) PROVE BoostInv'
  OBVIOUS
<1>1. CASE Boost!Next
  BY <1>1, StartingInv, InsertInv, EndsInv, CacheInv, BoostApplyingInv, RestartInv
     DEF Boost!Next, Boost!Starting
<1>2. CASE UNCHANGED Boost!vars
  <2>1. UNCHANGED <<boosts, asked, stage, copy, fresh, loaded, barred, following, boosted, earlier>>
    BY <1>2 DEF Boost!vars, Boost!table, Boost!operator, Boost!cache, Boost!readers, Boost!threads
  <2>2. Boost!Rows' = Boost!Rows /\ Boost!Live' = Boost!Live /\ LiveCameras' = LiveCameras
    BY <2>1 DEF Boost!Rows, Boost!Live, Boost!Open, LiveCameras
  <2>3. QED
    BY <2>1, <2>2 DEF BoostInv, Boost!TypeOK, OneStarts, Fits, RowsInOrder, CapHolds,
       RowsFollowed, Boost!OutcomeIsTrue
<1>3. QED
  BY <1>1, <1>2

\* The inductive invariant of the boosts, for any number of requests, cameras and rows
\* and any cap.
THEOREM BoostInvariant ==
    ASSUME Boost!BoostAssumption
    PROVE  Boost!Spec => []BoostInv
<1>1. QED
  BY BoostInitInv, BoostNextInv, PTL DEF Boost!Spec

\* CapKept: requests that race through the check and the insert of start_boost never
\* leave more cameras boosted than MAX_CAMERAS, nor two open boosts on one camera.
THEOREM BoostsCapped ==
    ASSUME Boost!BoostAssumption
    PROVE  Boost!Spec => []Boost!CapKept
<1>1. BoostInv => Boost!CapKept
  BY CapIs DEF BoostInv
<1>2. QED
  BY <1>1, BoostInvariant, PTL

\* OutcomeIsTrue: what the table says became of an open boost is what the camera's
\* thread does, unless a worker before this one has said it.
THEOREM OutcomesTrue ==
    ASSUME Boost!BoostAssumption
    PROVE  Boost!Spec => []Boost!OutcomeIsTrue
<1>1. BoostInv => Boost!OutcomeIsTrue
  BY DEF BoostInv
<1>2. QED
  BY <1>1, BoostInvariant, PTL
===============================================================================
