-------------------------- MODULE SightingSink_proofs --------------------------
(***************************************************************************)
(* The safety properties of SightingSink for any number of cameras, reads  *)
(* and any batch size.                                                     *)
(***************************************************************************)
EXTENDS SightingSink, TLAPS

\* Which program counters go with a batch in hand, and with a row being counted.
BatchInHand ==
    \A t \in Threads :
        /\ pc[t] \in {"write", "retry", "lost", "count"} => batch[t] # {}
        /\ pc[t] \in {"idle", "due", "flush"} => batch[t] = {}
        /\ pc[t] = "count" => counting[t] \in batch[t]

\* The shutdown: threads are "gone" exactly when the process is not up; once
\* main has joined every camera thread none of them holds a read, and once its
\* own last flush is under way the buffer stays empty.
ShutdownOrder ==
    /\ \A t \in Threads : pc[t] = "gone" <=> process # "up"
    /\ process = "exited" => phase[Main] = "closed" /\ batch[Main] = {}
    /\ phase[Main] = "closed" /\ abandoned = {} =>
          /\ \A c \in Cameras :
                /\ phase[c] = "closed"
                /\ batch[c] = {}
                /\ pc[c] \in {"idle", "gone"}
          /\ pc[Main] # "flush" => pending = {}
    /\ phase[Main] = "closed" => pc[Main] # "due"

IInv ==
    /\ TypeOK
    /\ BatchInHand
    /\ HeldOnce
    /\ doubt \subseteq stored
    /\ SecondCopyOnlyInDoubt
    /\ NothingForgotten
    /\ AgeTracked
    /\ LossLeavesTrace
    /\ ShutdownOrder

-------------------------------------------------------------------------------
LEMMA InitInv == Init => IInv
<1> SUFFICES ASSUME Init PROVE IInv
  OBVIOUS
<1> USE SinkAssumption DEF Init, Threads
<1>1. TypeOK
  BY DEF TypeOK
<1>2. BatchInHand /\ HeldOnce /\ doubt \subseteq stored /\ AgeTracked /\ LossLeavesTrace
  BY DEF BatchInHand, HeldOnce, AgeTracked, LossLeavesTrace
<1>3. SecondCopyOnlyInDoubt /\ NothingForgotten
  <2>1. InFlight = {}
    BY DEF InFlight
  <2>2. QED
    BY <2>1 DEF SecondCopyOnlyInDoubt, NothingForgotten
<1>4. ShutdownOrder
  BY DEF ShutdownOrder
<1> QED
  BY <1>1, <1>2, <1>3, <1>4 DEF IInv

LEMMA PersistInv == ASSUME NEW c \in Cameras, IInv, Persist(c) PROVE IInv'
<1> USE SinkAssumption DEF IInv, Persist, Threads, Goto, Idle, vars, buffer, losses, database, control, Buffer, Finished
<1>1. TypeOK'
  BY DEF TypeOK
<1>2. BatchInHand'
  BY DEF TypeOK, BatchInHand
<1>3. HeldOnce'
  BY DEF TypeOK, HeldOnce, BatchInHand
<1>4. (doubt \subseteq stored)'
  BY DEF TypeOK
<1>5. SecondCopyOnlyInDoubt'
  BY DEF TypeOK, SecondCopyOnlyInDoubt, InFlight, BatchInHand, HeldOnce
<1>6. NothingForgotten'
  BY DEF TypeOK, NothingForgotten, InFlight, BatchInHand, HeldOnce
<1>7. AgeTracked'
  BY DEF TypeOK, AgeTracked, BatchInHand
<1>8. LossLeavesTrace'
  BY DEF TypeOK, LossLeavesTrace, BatchInHand
<1>9. ShutdownOrder'
  BY DEF TypeOK, ShutdownOrder, BatchInHand
<1> QED
  BY <1>1, <1>2, <1>3, <1>4, <1>5, <1>6, <1>7, <1>8, <1>9

LEMMA CameraDueInv == ASSUME NEW c \in Cameras, IInv, CameraDue(c) PROVE IInv'
<1> USE SinkAssumption DEF IInv, CameraDue, Threads, Goto, Idle, vars, buffer, losses, database, control
<1>1. TypeOK'
  BY DEF TypeOK
<1>2. BatchInHand'
  BY DEF TypeOK, BatchInHand
<1>3. HeldOnce'
  BY DEF TypeOK, HeldOnce, BatchInHand
<1>4. (doubt \subseteq stored)'
  BY DEF TypeOK
<1>5. SecondCopyOnlyInDoubt'
  BY DEF TypeOK, SecondCopyOnlyInDoubt, InFlight, BatchInHand, HeldOnce
<1>6. NothingForgotten'
  BY DEF TypeOK, NothingForgotten, InFlight, BatchInHand, HeldOnce
<1>7. AgeTracked'
  BY DEF TypeOK, AgeTracked, BatchInHand
<1>8. LossLeavesTrace'
  BY DEF TypeOK, LossLeavesTrace, BatchInHand
<1>9. ShutdownOrder'
  BY DEF TypeOK, ShutdownOrder, BatchInHand
<1> QED
  BY <1>1, <1>2, <1>3, <1>4, <1>5, <1>6, <1>7, <1>8, <1>9

LEMMA RollUpInv == ASSUME NEW c \in Cameras, IInv, RollUp(c) PROVE IInv'
<1> USE SinkAssumption DEF IInv, RollUp, Threads, Goto, Idle, vars, buffer, losses, database, control
<1>1. TypeOK'
  BY DEF TypeOK
<1>2. BatchInHand'
  BY DEF TypeOK, BatchInHand
<1>3. HeldOnce'
  BY DEF TypeOK, HeldOnce, BatchInHand
<1>4. (doubt \subseteq stored)'
  BY DEF TypeOK
<1>5. SecondCopyOnlyInDoubt'
  BY DEF TypeOK, SecondCopyOnlyInDoubt, InFlight, BatchInHand, HeldOnce
<1>6. NothingForgotten'
  BY DEF TypeOK, NothingForgotten, InFlight, BatchInHand, HeldOnce
<1>7. AgeTracked'
  BY DEF TypeOK, AgeTracked, BatchInHand
<1>8. LossLeavesTrace'
  BY DEF TypeOK, LossLeavesTrace, BatchInHand
<1>9. ShutdownOrder'
  BY DEF TypeOK, ShutdownOrder, BatchInHand
<1> QED
  BY <1>1, <1>2, <1>3, <1>4, <1>5, <1>6, <1>7, <1>8, <1>9

LEMMA LastHarvestInv == ASSUME NEW c \in Cameras, IInv, LastHarvest(c) PROVE IInv'
<1> USE SinkAssumption DEF IInv, LastHarvest, Threads, Goto, Idle, vars, buffer, losses, database, control, Buffer, Finished
<1>1. TypeOK'
  BY DEF TypeOK
<1>2. BatchInHand'
  BY DEF TypeOK, BatchInHand
<1>3. HeldOnce'
  BY DEF TypeOK, HeldOnce, BatchInHand
<1>4. (doubt \subseteq stored)'
  BY DEF TypeOK
<1>5. SecondCopyOnlyInDoubt'
  BY DEF TypeOK, SecondCopyOnlyInDoubt, InFlight, BatchInHand, HeldOnce
<1>6. NothingForgotten'
  BY DEF TypeOK, NothingForgotten, InFlight, BatchInHand, HeldOnce
<1>7. AgeTracked'
  BY DEF TypeOK, AgeTracked, BatchInHand
<1>8. LossLeavesTrace'
  BY DEF TypeOK, LossLeavesTrace, BatchInHand
<1>9. ShutdownOrder'
  BY DEF TypeOK, ShutdownOrder, BatchInHand
<1> QED
  BY <1>1, <1>2, <1>3, <1>4, <1>5, <1>6, <1>7, <1>8, <1>9

LEMMA LastFlushInv == ASSUME NEW c \in Cameras, IInv, LastFlush(c) PROVE IInv'
<1> USE SinkAssumption DEF IInv, LastFlush, Threads, Goto, Idle, vars, buffer, losses, database, control
<1>1. TypeOK'
  BY DEF TypeOK
<1>2. BatchInHand'
  BY DEF TypeOK, BatchInHand
<1>3. HeldOnce'
  BY DEF TypeOK, HeldOnce, BatchInHand
<1>4. (doubt \subseteq stored)'
  BY DEF TypeOK
<1>5. SecondCopyOnlyInDoubt'
  BY DEF TypeOK, SecondCopyOnlyInDoubt, InFlight, BatchInHand, HeldOnce
<1>6. NothingForgotten'
  BY DEF TypeOK, NothingForgotten, InFlight, BatchInHand, HeldOnce
<1>7. AgeTracked'
  BY DEF TypeOK, AgeTracked, BatchInHand
<1>8. LossLeavesTrace'
  BY DEF TypeOK, LossLeavesTrace, BatchInHand
<1>9. ShutdownOrder'
  BY DEF TypeOK, ShutdownOrder, BatchInHand
<1> QED
  BY <1>1, <1>2, <1>3, <1>4, <1>5, <1>6, <1>7, <1>8, <1>9

LEMMA FlushNothingInv == ASSUME NEW t \in Threads, IInv, FlushNothing(t) PROVE IInv'
<1> USE SinkAssumption DEF IInv, FlushNothing, Threads, Goto, Idle, vars, buffer, losses, database, control
<1>1. TypeOK'
  BY DEF TypeOK
<1>2. BatchInHand'
  BY DEF TypeOK, BatchInHand
<1>3. HeldOnce'
  BY DEF TypeOK, HeldOnce, BatchInHand
<1>4. (doubt \subseteq stored)'
  BY DEF TypeOK
<1>5. SecondCopyOnlyInDoubt'
  BY DEF TypeOK, SecondCopyOnlyInDoubt, InFlight, BatchInHand, HeldOnce
<1>6. NothingForgotten'
  BY DEF TypeOK, NothingForgotten, InFlight, BatchInHand, HeldOnce
<1>7. AgeTracked'
  BY DEF TypeOK, AgeTracked, BatchInHand
<1>8. LossLeavesTrace'
  BY DEF TypeOK, LossLeavesTrace, BatchInHand
<1>9. ShutdownOrder'
  BY DEF TypeOK, ShutdownOrder, BatchInHand
<1> QED
  BY <1>1, <1>2, <1>3, <1>4, <1>5, <1>6, <1>7, <1>8, <1>9

LEMMA TakeBatchInv == ASSUME NEW t \in Threads, IInv, TakeBatch(t) PROVE IInv'
<1> USE SinkAssumption DEF IInv, TakeBatch, Threads, Goto, Idle, vars, buffer, losses, database, control
<1>1. TypeOK'
  BY DEF TypeOK
<1>2. BatchInHand'
  BY DEF TypeOK, BatchInHand
<1>3. HeldOnce'
  BY DEF TypeOK, HeldOnce, BatchInHand
<1>4. (doubt \subseteq stored)'
  BY DEF TypeOK
<1>5. SecondCopyOnlyInDoubt'
  BY DEF TypeOK, SecondCopyOnlyInDoubt, InFlight, BatchInHand, HeldOnce
<1>6. NothingForgotten'
  BY DEF TypeOK, NothingForgotten, InFlight, BatchInHand, HeldOnce
<1>7. AgeTracked'
  BY DEF TypeOK, AgeTracked, BatchInHand
<1>8. LossLeavesTrace'
  BY DEF TypeOK, LossLeavesTrace, BatchInHand
<1>9. ShutdownOrder'
  BY DEF TypeOK, ShutdownOrder, BatchInHand
<1> QED
  BY <1>1, <1>2, <1>3, <1>4, <1>5, <1>6, <1>7, <1>8, <1>9

LEMMA CommitInv == ASSUME NEW t \in Threads, IInv, Commit(t) PROVE IInv'
<1> USE SinkAssumption DEF IInv, Commit, Threads, Goto, Idle, vars, buffer, losses, database, control, Writing, Release
<1>1. TypeOK'
  BY DEF TypeOK
<1>2. BatchInHand'
  BY DEF TypeOK, BatchInHand
<1>3. HeldOnce'
  BY DEF TypeOK, HeldOnce, BatchInHand
<1>4. (doubt \subseteq stored)'
  BY DEF TypeOK
<1>5. SecondCopyOnlyInDoubt'
  BY DEF TypeOK, SecondCopyOnlyInDoubt, InFlight, BatchInHand, HeldOnce
<1>6. NothingForgotten'
  BY DEF TypeOK, NothingForgotten, InFlight, BatchInHand, HeldOnce
<1>7. AgeTracked'
  BY DEF TypeOK, AgeTracked, BatchInHand
<1>8. LossLeavesTrace'
  BY DEF TypeOK, LossLeavesTrace, BatchInHand
<1>9. ShutdownOrder'
  BY DEF TypeOK, ShutdownOrder, BatchInHand
<1> QED
  BY <1>1, <1>2, <1>3, <1>4, <1>5, <1>6, <1>7, <1>8, <1>9

LEMMA CommitAbortedInv == ASSUME NEW t \in Threads, IInv, CommitAborted(t) PROVE IInv'
<1> USE SinkAssumption DEF IInv, CommitAborted, Threads, Goto, Idle, vars, buffer, losses, database, control, Writing, Release
<1>1. TypeOK'
  BY DEF TypeOK
<1>2. BatchInHand'
  BY DEF TypeOK, BatchInHand
<1>3. HeldOnce'
  BY DEF TypeOK, HeldOnce, BatchInHand
<1>4. (doubt \subseteq stored)'
  BY DEF TypeOK
<1>5. SecondCopyOnlyInDoubt'
  BY DEF TypeOK, SecondCopyOnlyInDoubt, InFlight, BatchInHand, HeldOnce
<1>6. NothingForgotten'
  BY DEF TypeOK, NothingForgotten, InFlight, BatchInHand, HeldOnce
<1>7. AgeTracked'
  BY DEF TypeOK, AgeTracked, BatchInHand
<1>8. LossLeavesTrace'
  BY DEF TypeOK, LossLeavesTrace, BatchInHand
<1>9. ShutdownOrder'
  BY DEF TypeOK, ShutdownOrder, BatchInHand
<1> QED
  BY <1>1, <1>2, <1>3, <1>4, <1>5, <1>6, <1>7, <1>8, <1>9

LEMMA RefuseInv == ASSUME NEW t \in Threads, IInv, Refuse(t) PROVE IInv'
<1> USE SinkAssumption DEF IInv, Refuse, Threads, Goto, Idle, vars, buffer, losses, database, control, Writing
<1>1. TypeOK'
  BY DEF TypeOK
<1>2. BatchInHand'
  BY DEF TypeOK, BatchInHand
<1>3. HeldOnce'
  BY DEF TypeOK, HeldOnce, BatchInHand
<1>4. (doubt \subseteq stored)'
  BY DEF TypeOK
<1>5. SecondCopyOnlyInDoubt'
  BY DEF TypeOK, SecondCopyOnlyInDoubt, InFlight, BatchInHand, HeldOnce
<1>6. NothingForgotten'
  BY DEF TypeOK, NothingForgotten, InFlight, BatchInHand, HeldOnce
<1>7. AgeTracked'
  BY DEF TypeOK, AgeTracked, BatchInHand
<1>8. LossLeavesTrace'
  BY DEF TypeOK, LossLeavesTrace, BatchInHand
<1>9. ShutdownOrder'
  BY DEF TypeOK, ShutdownOrder, BatchInHand
<1> QED
  BY <1>1, <1>2, <1>3, <1>4, <1>5, <1>6, <1>7, <1>8, <1>9

LEMMA DropInv == ASSUME NEW t \in Threads, IInv, Drop(t) PROVE IInv'
<1> USE SinkAssumption DEF IInv, Drop, Threads, Goto, Idle, vars, buffer, losses, database, control, Writing, AfterDrop
<1>1. TypeOK'
  BY DEF TypeOK
<1>2. BatchInHand'
  BY DEF TypeOK, BatchInHand
<1>3. HeldOnce'
  BY DEF TypeOK, HeldOnce, BatchInHand
<1>4. (doubt \subseteq stored)'
  BY DEF TypeOK
<1>5. SecondCopyOnlyInDoubt'
  BY DEF TypeOK, SecondCopyOnlyInDoubt, InFlight, BatchInHand, HeldOnce
<1>6. NothingForgotten'
  BY DEF TypeOK, NothingForgotten, InFlight, BatchInHand, HeldOnce
<1>7. AgeTracked'
  BY DEF TypeOK, AgeTracked, BatchInHand
<1>8. LossLeavesTrace'
  BY DEF TypeOK, LossLeavesTrace, BatchInHand
<1>9. ShutdownOrder'
  BY DEF TypeOK, ShutdownOrder, BatchInHand
<1> QED
  BY <1>1, <1>2, <1>3, <1>4, <1>5, <1>6, <1>7, <1>8, <1>9

LEMMA LoseAckInv == ASSUME NEW t \in Threads, IInv, LoseAck(t) PROVE IInv'
<1> USE SinkAssumption DEF IInv, LoseAck, Threads, Goto, Idle, vars, buffer, losses, database, control, Writing, AfterDrop
<1>1. TypeOK'
  BY DEF TypeOK
<1>2. BatchInHand'
  BY DEF TypeOK, BatchInHand
<1>3. HeldOnce'
  BY DEF TypeOK, HeldOnce, BatchInHand
<1>4. (doubt \subseteq stored)'
  BY DEF TypeOK
<1>5. SecondCopyOnlyInDoubt'
  BY DEF TypeOK, SecondCopyOnlyInDoubt, InFlight, BatchInHand, HeldOnce
<1>6. NothingForgotten'
  BY DEF TypeOK, NothingForgotten, InFlight, BatchInHand, HeldOnce
<1>7. AgeTracked'
  BY DEF TypeOK, AgeTracked, BatchInHand
<1>8. LossLeavesTrace'
  BY DEF TypeOK, LossLeavesTrace, BatchInHand
<1>9. ShutdownOrder'
  BY DEF TypeOK, ShutdownOrder, BatchInHand
<1> QED
  BY <1>1, <1>2, <1>3, <1>4, <1>5, <1>6, <1>7, <1>8, <1>9

LEMMA CountReadInv == ASSUME NEW t \in Threads, IInv, CountRead(t) PROVE IInv'
<1> USE SinkAssumption DEF IInv, CountRead, Threads, Goto, Idle, vars, buffer, losses, database, control
<1>1. TypeOK'
  BY DEF TypeOK
<1>2. BatchInHand'
  BY DEF TypeOK, BatchInHand
<1>3. HeldOnce'
  BY DEF TypeOK, HeldOnce, BatchInHand
<1>4. (doubt \subseteq stored)'
  BY DEF TypeOK
<1>5. SecondCopyOnlyInDoubt'
  BY DEF TypeOK, SecondCopyOnlyInDoubt, InFlight, BatchInHand, HeldOnce
<1>6. NothingForgotten'
  BY DEF TypeOK, NothingForgotten, InFlight, BatchInHand, HeldOnce
<1>7. AgeTracked'
  BY DEF TypeOK, AgeTracked, BatchInHand
<1>8. LossLeavesTrace'
  BY DEF TypeOK, LossLeavesTrace, BatchInHand
<1>9. ShutdownOrder'
  BY DEF TypeOK, ShutdownOrder, BatchInHand
<1> QED
  BY <1>1, <1>2, <1>3, <1>4, <1>5, <1>6, <1>7, <1>8, <1>9

LEMMA CountStoreInv == ASSUME NEW t \in Threads, IInv, CountStore(t) PROVE IInv'
<1> USE SinkAssumption DEF IInv, CountStore, Threads, Goto, Idle, vars, buffer, losses, database, control
<1>1. TypeOK'
  BY DEF TypeOK, BatchInHand
<1>2. BatchInHand'
  BY DEF TypeOK, BatchInHand
<1>3. HeldOnce'
  BY DEF TypeOK, HeldOnce, BatchInHand
<1>4. (doubt \subseteq stored)'
  BY DEF TypeOK
<1>5. SecondCopyOnlyInDoubt'
  BY DEF TypeOK, SecondCopyOnlyInDoubt, InFlight, BatchInHand, HeldOnce
<1>6. NothingForgotten'
  BY DEF TypeOK, NothingForgotten, InFlight, BatchInHand, HeldOnce
<1>7. AgeTracked'
  BY DEF TypeOK, AgeTracked, BatchInHand
<1>8. LossLeavesTrace'
  BY DEF TypeOK, LossLeavesTrace, BatchInHand
<1>9. ShutdownOrder'
  BY DEF TypeOK, ShutdownOrder, BatchInHand
<1> QED
  BY <1>1, <1>2, <1>3, <1>4, <1>5, <1>6, <1>7, <1>8, <1>9

LEMMA MainLooksInv == ASSUME IInv, MainLooks PROVE IInv'
<1> USE SinkAssumption DEF IInv, MainLooks, Threads, Goto, Idle, vars, buffer, losses, database, control
<1>1. TypeOK'
  BY DEF TypeOK
<1>2. BatchInHand'
  BY DEF TypeOK, BatchInHand
<1>3. HeldOnce'
  BY DEF TypeOK, HeldOnce, BatchInHand
<1>4. (doubt \subseteq stored)'
  BY DEF TypeOK
<1>5. SecondCopyOnlyInDoubt'
  BY DEF TypeOK, SecondCopyOnlyInDoubt, InFlight, BatchInHand, HeldOnce
<1>6. NothingForgotten'
  BY DEF TypeOK, NothingForgotten, InFlight, BatchInHand, HeldOnce
<1>7. AgeTracked'
  BY DEF TypeOK, AgeTracked, BatchInHand
<1>8. LossLeavesTrace'
  BY DEF TypeOK, LossLeavesTrace, BatchInHand
<1>9. ShutdownOrder'
  BY DEF TypeOK, ShutdownOrder, BatchInHand
<1> QED
  BY <1>1, <1>2, <1>3, <1>4, <1>5, <1>6, <1>7, <1>8, <1>9

LEMMA MainDecidesInv == ASSUME IInv, MainDecides PROVE IInv'
<1> USE SinkAssumption DEF IInv, MainDecides, Threads, Goto, Idle, vars, buffer, losses, database, control
<1>1. TypeOK'
  BY DEF TypeOK
<1>2. BatchInHand'
  BY DEF TypeOK, BatchInHand
<1>3. HeldOnce'
  BY DEF TypeOK, HeldOnce, BatchInHand
<1>4. (doubt \subseteq stored)'
  BY DEF TypeOK
<1>5. SecondCopyOnlyInDoubt'
  BY DEF TypeOK, SecondCopyOnlyInDoubt, InFlight, BatchInHand, HeldOnce
<1>6. NothingForgotten'
  BY DEF TypeOK, NothingForgotten, InFlight, BatchInHand, HeldOnce
<1>7. AgeTracked'
  BY DEF TypeOK, AgeTracked, BatchInHand
<1>8. LossLeavesTrace'
  BY DEF TypeOK, LossLeavesTrace, BatchInHand
<1>9. ShutdownOrder'
  BY DEF TypeOK, ShutdownOrder, BatchInHand
<1> QED
  BY <1>1, <1>2, <1>3, <1>4, <1>5, <1>6, <1>7, <1>8, <1>9

LEMMA MainTripsInv == ASSUME IInv, MainTrips PROVE IInv'
<1> USE SinkAssumption DEF IInv, MainTrips, Threads, Goto, Idle, vars, buffer, losses, database, control, Gone
<1>1. TypeOK'
  BY DEF TypeOK
<1>2. BatchInHand'
  BY DEF TypeOK, BatchInHand
<1>3. HeldOnce'
  BY DEF TypeOK, HeldOnce, BatchInHand
<1>4. (doubt \subseteq stored)'
  BY DEF TypeOK
<1>5. SecondCopyOnlyInDoubt'
  BY DEF TypeOK, SecondCopyOnlyInDoubt, InFlight, BatchInHand, HeldOnce
<1>6. NothingForgotten'
  BY DEF TypeOK, NothingForgotten, InFlight, BatchInHand, HeldOnce
<1>7. AgeTracked'
  BY DEF TypeOK, AgeTracked, BatchInHand
<1>8. LossLeavesTrace'
  BY DEF TypeOK, LossLeavesTrace, BatchInHand
<1>9. ShutdownOrder'
  BY DEF TypeOK, ShutdownOrder, BatchInHand
<1> QED
  BY <1>1, <1>2, <1>3, <1>4, <1>5, <1>6, <1>7, <1>8, <1>9

LEMMA MainJoinedInv == ASSUME IInv, MainJoined PROVE IInv'
<1> USE SinkAssumption DEF IInv, MainJoined, Threads, Goto, Idle, vars, buffer, losses, database, control, Ended
<1>1. TypeOK'
  BY DEF TypeOK
<1>2. BatchInHand'
  BY DEF TypeOK, BatchInHand
<1>3. HeldOnce'
  BY DEF TypeOK, HeldOnce, BatchInHand
<1>4. (doubt \subseteq stored)'
  BY DEF TypeOK
<1>5. SecondCopyOnlyInDoubt'
  BY DEF TypeOK, SecondCopyOnlyInDoubt, InFlight, BatchInHand, HeldOnce
<1>6. NothingForgotten'
  BY DEF TypeOK, NothingForgotten, InFlight, BatchInHand, HeldOnce
<1>7. AgeTracked'
  BY DEF TypeOK, AgeTracked, BatchInHand
<1>8. LossLeavesTrace'
  BY DEF TypeOK, LossLeavesTrace, BatchInHand
<1>9. ShutdownOrder'
  BY DEF TypeOK, ShutdownOrder, BatchInHand
<1> QED
  BY <1>1, <1>2, <1>3, <1>4, <1>5, <1>6, <1>7, <1>8, <1>9

LEMMA MainExitsInv == ASSUME IInv, MainExits PROVE IInv'
<1> USE SinkAssumption DEF IInv, MainExits, Threads, Goto, Idle, vars, buffer, losses, database, control, Gone
<1>1. TypeOK'
  BY DEF TypeOK
<1>2. BatchInHand'
  BY DEF TypeOK, BatchInHand
<1>3. HeldOnce'
  BY DEF TypeOK, HeldOnce, BatchInHand
<1>4. (doubt \subseteq stored)'
  BY DEF TypeOK
<1>5. SecondCopyOnlyInDoubt'
  BY DEF TypeOK, SecondCopyOnlyInDoubt, InFlight, BatchInHand, HeldOnce
<1>6. NothingForgotten'
  BY DEF TypeOK, NothingForgotten, InFlight, BatchInHand, HeldOnce
<1>7. AgeTracked'
  BY DEF TypeOK, AgeTracked, BatchInHand
<1>8. LossLeavesTrace'
  BY DEF TypeOK, LossLeavesTrace, BatchInHand
<1>9. ShutdownOrder'
  BY DEF TypeOK, ShutdownOrder, BatchInHand
<1> QED
  BY <1>1, <1>2, <1>3, <1>4, <1>5, <1>6, <1>7, <1>8, <1>9

LEMMA StopInv == ASSUME IInv, Stop PROVE IInv'
<1> USE SinkAssumption DEF IInv, Stop, Threads, Goto, Idle, vars, buffer, losses, database, control
<1>1. TypeOK'
  BY DEF TypeOK
<1>2. BatchInHand'
  BY DEF TypeOK, BatchInHand
<1>3. HeldOnce'
  BY DEF TypeOK, HeldOnce, BatchInHand
<1>4. (doubt \subseteq stored)'
  BY DEF TypeOK
<1>5. SecondCopyOnlyInDoubt'
  BY DEF TypeOK, SecondCopyOnlyInDoubt, InFlight, BatchInHand, HeldOnce
<1>6. NothingForgotten'
  BY DEF TypeOK, NothingForgotten, InFlight, BatchInHand, HeldOnce
<1>7. AgeTracked'
  BY DEF TypeOK, AgeTracked, BatchInHand
<1>8. LossLeavesTrace'
  BY DEF TypeOK, LossLeavesTrace, BatchInHand
<1>9. ShutdownOrder'
  BY DEF TypeOK, ShutdownOrder, BatchInHand
<1> QED
  BY <1>1, <1>2, <1>3, <1>4, <1>5, <1>6, <1>7, <1>8, <1>9

LEMMA AgeInv == ASSUME IInv, Age PROVE IInv'
<1> USE SinkAssumption DEF IInv, Age, Threads, Goto, Idle, vars, buffer, losses, database, control
<1>1. TypeOK'
  BY DEF TypeOK
<1>2. BatchInHand'
  BY DEF TypeOK, BatchInHand
<1>3. HeldOnce'
  BY DEF TypeOK, HeldOnce, BatchInHand
<1>4. (doubt \subseteq stored)'
  BY DEF TypeOK
<1>5. SecondCopyOnlyInDoubt'
  BY DEF TypeOK, SecondCopyOnlyInDoubt, InFlight, BatchInHand, HeldOnce
<1>6. NothingForgotten'
  BY DEF TypeOK, NothingForgotten, InFlight, BatchInHand, HeldOnce
<1>7. AgeTracked'
  BY DEF TypeOK, AgeTracked, BatchInHand
<1>8. LossLeavesTrace'
  BY DEF TypeOK, LossLeavesTrace, BatchInHand
<1>9. ShutdownOrder'
  BY DEF TypeOK, ShutdownOrder, BatchInHand
<1> QED
  BY <1>1, <1>2, <1>3, <1>4, <1>5, <1>6, <1>7, <1>8, <1>9

LEMMA StutterInv == ASSUME IInv, UNCHANGED vars PROVE IInv'
BY DEF IInv, vars, buffer, losses, database, control, TypeOK, BatchInHand,
       HeldOnce, SecondCopyOnlyInDoubt, NothingForgotten, InFlight, AgeTracked,
       LossLeavesTrace, ShutdownOrder

\* The inductive invariant: every state of every execution of the sink.
THEOREM Invariance == Spec => []IInv
<1>1. Init => IInv
  BY InitInv
<1>2. IInv /\ [Next]_vars => IInv'
  BY PersistInv, CameraDueInv, RollUpInv, LastHarvestInv, LastFlushInv,
     FlushNothingInv, TakeBatchInv, CommitInv, CommitAbortedInv, RefuseInv, DropInv,
     LoseAckInv, CountReadInv, CountStoreInv, MainLooksInv, MainDecidesInv, MainTripsInv,
     MainJoinedInv, MainExitsInv, StopInv, AgeInv, StutterInv
     DEF Next, Camera, Flushing, Attempt, MainLoop, Over
<1>3. QED
  BY <1>1, <1>2, PTL DEF Spec

\* Every state of the sink has its type, for any cameras, reads and batch size.
THEOREM TypeCorrect == Spec => []TypeOK
<1>1. IInv => TypeOK
  BY DEF IInv
<1>2. QED
  BY <1>1, Invariance, PTL

\* No schedule of add, flush, retry and shutdown makes a read disappear, puts it
\* in two flushes, or writes a settled read again (short of a lost commit
\* acknowledgement).
THEOREM ReadsAccounted ==
    Spec => [](NothingForgotten /\ HeldOnce /\ SecondCopyOnlyInDoubt)
<1>1. IInv => NothingForgotten /\ HeldOnce /\ SecondCopyOnlyInDoubt
  BY DEF IInv
<1>2. QED
  BY <1>1, Invariance, PTL

\* No read is in two batches, nor in a batch and the buffer: a flush takes it from
\* every other thread (SightingSink.flush).
THEOREM TakenByOne == Spec => []HeldOnce
<1>1. IInv => HeldOnce
  BY DEF IInv
<1>2. QED
  BY <1>1, Invariance, PTL

\* Only a batch whose commit was not acknowledged may be written again, or be
\* stored and counted lost (the retry in SightingSink.flush).
THEOREM CopiedOnlyInDoubt == Spec => []SecondCopyOnlyInDoubt
<1>1. IInv => SecondCopyOnlyInDoubt
  BY DEF IInv
<1>2. QED
  BY <1>1, Invariance, PTL

\* A waiting read always has a running clock: `due` cannot miss it.
THEOREM ClockRuns == Spec => []AgeTracked
<1>1. IInv => AgeTracked
  BY DEF IInv
<1>2. QED
  BY <1>1, Invariance, PTL

\* A lost read leaves a trace in its camera's counters, however they race.
THEOREM LossSeen == Spec => []LossLeavesTrace
<1>1. IInv => LossLeavesTrace
  BY DEF IInv
<1>2. QED
  BY <1>1, Invariance, PTL

\* When every camera thread is joined in time, main leaves no read in memory.
THEOREM StopsClean == Spec => []CleanExit
<1>1. IInv => CleanExit
  <2> SUFFICES ASSUME IInv, process = "exited", abandoned = {}
               PROVE  pending = {} /\ InFlight = {}
    BY DEF CleanExit
  <2>1. pc[Main] = "gone" /\ phase[Main] = "closed" /\ batch[Main] = {}
    BY DEF IInv, ShutdownOrder, Threads
  <2>2. pending = {} /\ \A c \in Cameras : batch[c] = {}
    BY <2>1 DEF IInv, ShutdownOrder
  <2>3. InFlight = {}
    BY <2>1, <2>2 DEF InFlight, Threads
  <2>4. QED
    BY <2>2, <2>3
<1>2. QED
  BY <1>1, Invariance, PTL

-------------------------------------------------------------------------------
(* The sink implements the ledger.                                          *)

\* A read in the buffer or in an unsettled flush is held, whoever has it.
LEMMA FateOfHeld ==
    ASSUME IInv, NEW r \in Reads, r \in pending \cup InFlight, r \notin stored
    PROVE  Fate[r] = "held"
<1>1. r \notin lost /\ r \notin swallowed
  BY DEF IInv, SecondCopyOnlyInDoubt
<1>2. r \notin unread
  BY DEF IInv, HeldOnce, InFlight
<1>3. QED
  BY <1>1, <1>2 DEF Fate

\* Moving held reads to one settled fate, and no other read, is a ledger step.
LEMMA SettleStep ==
    ASSUME NEW S \in SUBSET Reads, NEW to \in Ledger!Settled,
           \A r \in S : Fate[r] = "held",
           \A r \in Reads : Fate'[r] = IF r \in S THEN to ELSE Fate[r]
    PROVE  Ledger!Next
<1>1. Fate' = [r \in Reads |-> IF r \in S THEN to ELSE Fate[r]]
  BY DEF Fate
<1>2. Ledger!Settle(S, to)
  BY <1>1 DEF Ledger!Settle, Ledger!Move
<1>3. QED
  BY <1>2 DEF Ledger!Next

\* Handing unseen reads over is a ledger step.
LEMMA AcceptStep ==
    ASSUME IInv, NEW c \in Cameras, NEW rows \in SUBSET Finished(c), Buffer(c, rows),
           UNCHANGED <<losses, database>>
    PROVE  Ledger!Next
<1>1. rows \subseteq Reads /\ rows \subseteq unread
  BY DEF IInv, TypeOK, Finished
<1>2. \A r \in rows : Fate[r] = "unseen"
  BY <1>1 DEF IInv, SecondCopyOnlyInDoubt, Fate
<1>3. Fate' = [r \in Reads |-> IF r \in rows THEN "held" ELSE Fate[r]]
  BY <1>1 DEF IInv, SecondCopyOnlyInDoubt, Fate, Buffer, losses, database
<1>4. Ledger!Accept(rows)
  BY <1>2, <1>3 DEF Ledger!Accept, Ledger!Move
<1>5. QED
  BY <1>1, <1>4 DEF Ledger!Next

\* Every step of the sink is a step of the ledger or leaves the ledger alone.
LEMMA StepImplements == ASSUME IInv, [Next]_vars PROVE [Ledger!Next]_Fate
<1> USE DEF buffer, losses, database, control
<1> DEFINE Same == UNCHANGED <<unread, stored, lost, swallowed>>
<1>0. Same => Fate' = Fate
  BY DEF Fate
<1>1. ASSUME NEW c \in Cameras, Persist(c) \/ LastHarvest(c) PROVE Ledger!Next
  BY <1>1, AcceptStep DEF Persist, LastHarvest
<1>2. ASSUME NEW c \in Cameras, CameraDue(c) \/ RollUp(c) \/ LastFlush(c) PROVE Same
  BY <1>2 DEF CameraDue, RollUp, LastFlush
<1>3. ASSUME NEW t \in Threads,
             FlushNothing(t) \/ TakeBatch(t) \/ Refuse(t) \/ Drop(t) \/ CountRead(t)
      PROVE  Same
  BY <1>3 DEF FlushNothing, TakeBatch, Refuse, Drop, CountRead
<1>4. ASSUME NEW t \in Threads, Attempt(t) \/ CountStore(t) PROVE Same \/ Ledger!Next
  <2> DEFINE S == batch[t] \ stored
  <2>1. S \subseteq Reads /\ S \subseteq InFlight
    BY DEF IInv, TypeOK, InFlight
  <2>2. \A r \in S : Fate[r] = "held"
    BY <2>1, FateOfHeld
  <2>3. \A r \in S : r \notin lost /\ r \notin swallowed
    BY <2>1 DEF IInv, SecondCopyOnlyInDoubt
  <2>4. CASE Commit(t) \/ LoseAck(t)
    <3>1. \A r \in Reads : Fate'[r] = IF r \in S THEN "stored" ELSE Fate[r]
      BY <2>4 DEF Fate, Commit, LoseAck
    <3>2. QED
      BY <2>1, <2>2, <3>1, SettleStep DEF Ledger!Settled
  <2>5. CASE CommitAborted(t)
    <3>1. \A r \in batch[t] : r \notin lost \/ r \in stored
      BY <2>3
    <3>2. \A r \in Reads : Fate'[r] = IF r \in S THEN "swallowed" ELSE Fate[r]
      BY <2>3, <2>5, <3>1 DEF Fate, CommitAborted
    <3>3. QED
      BY <2>1, <2>2, <3>2, SettleStep DEF Ledger!Settled
  <2>6. CASE CountStore(t)
    <3> DEFINE T == {counting[t]} \cap S
    <3>1. counting[t] \in batch[t]
      BY <2>6 DEF IInv, BatchInHand, CountStore
    <3>2. \A r \in Reads : Fate'[r] = IF r \in T THEN "lost" ELSE Fate[r]
      BY <2>3, <2>6, <3>1 DEF Fate, CountStore
    <3>3. T \in SUBSET Reads /\ \A r \in T : Fate[r] = "held"
      BY <2>1, <2>2
    <3>4. QED
      BY <3>2, <3>3, SettleStep DEF Ledger!Settled
  <2>7. CASE Refuse(t) \/ Drop(t)
    BY <2>7 DEF Refuse, Drop
  <2>8. QED
    BY <1>4, <2>4, <2>5, <2>6, <2>7 DEF Attempt
<1>5. ASSUME MainLoop \/ Stop \/ Age PROVE Same
  BY <1>5 DEF MainLoop, MainLooks, MainDecides, MainTrips, MainJoined, MainExits,
              Stop, Age
<1>6. ASSUME UNCHANGED vars PROVE Same
  BY <1>6 DEF vars
<1> HIDE DEF Same
<1>7. CASE Next
  <2>1. CASE \E c \in Cameras : Camera(c)
    <3>1. PICK c \in Cameras : Camera(c)
      BY <2>1
    <3>2. Same \/ Ledger!Next
      BY <3>1, <1>1, <1>2 DEF Camera
    <3>3. QED
      BY <1>0, <3>2
  <2>2. CASE \E t \in Threads : Flushing(t)
    <3>1. PICK t \in Threads : Flushing(t)
      BY <2>2
    <3>2. Same \/ Ledger!Next
      BY <3>1, <1>3, <1>4 DEF Flushing
    <3>3. QED
      BY <1>0, <3>2
  <2>3. CASE MainLoop \/ Stop \/ Age
    BY <1>0, <1>5, <2>3
  <2>4. CASE Over
    BY <1>0, <1>6, <2>4 DEF Over
  <2>5. QED
    BY <1>7, <2>1, <2>2, <2>3, <2>4 DEF Next
<1>8. CASE UNCHANGED vars
  BY <1>0, <1>6, <1>8
<1>9. QED
  BY <1>7, <1>8

\* The sink keeps the ledger's promise: the fate of a read, once settled, is
\* final, and only a held read is ever settled.
THEOREM Implementation == Spec => ImplementsLedger
<1>1. Init => Ledger!Init
  BY DEF Init, Fate, Ledger!Init
<1>2. IInv /\ [Next]_vars => [Ledger!Next]_Fate
  BY StepImplements
<1>3. QED
  BY <1>1, <1>2, Invariance, PTL DEF Spec, ImplementsLedger, Ledger!Spec
===============================================================================
