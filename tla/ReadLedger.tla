------------------------------ MODULE ReadLedger ------------------------------
(***************************************************************************)
(* What the sighting sink promises about every plate read it is given,     *)
(* whatever threads, batches and retries it uses to keep the promise.      *)
(*                                                                         *)
(* A read the pipeline has not finished is "unseen".  Once handed to the   *)
(* sink it is "held"; a held read is settled exactly once, and the way it  *)
(* was settled never changes afterwards:                                   *)
(*   "stored"     it is a row of `sightings`;                              *)
(*   "lost"       the database refused it and it was counted as lost;      *)
(*   "swallowed"  its transaction was silently rolled back because an      *)
(*                alert statement inside it had failed.                    *)
(* "swallowed" is the sink as it is written, not as its author wanted it:  *)
(* NoReadVanishes of SightingSink states what was wanted.                  *)
(***************************************************************************)
CONSTANT Reads

VARIABLE fate

Settled == {"stored", "lost", "swallowed"}
Fates   == {"unseen", "held"} \cup Settled

Init == fate = [r \in Reads |-> "unseen"]

Move(S, to) == fate' = [r \in Reads |-> IF r \in S THEN to ELSE fate[r]]

\* A camera's harvest: some of its finished reads are handed over.
Accept(S) == /\ \A r \in S : fate[r] = "unseen"
             /\ Move(S, "held")

\* Some held reads are settled, all in the same way.
Settle(S, to) == /\ \A r \in S : fate[r] = "held"
                 /\ Move(S, to)

Next == \E S \in SUBSET Reads : \/ Accept(S)
                                \/ \E to \in Settled : Settle(S, to)

Spec == Init /\ [][Next]_fate
===============================================================================
