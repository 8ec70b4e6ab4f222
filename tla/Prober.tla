-------------------------------- MODULE Prober --------------------------------
(***************************************************************************)
(* Who decides a camera's status: the health prober, which sweeps the      *)
(* registry and writes what it saw in one transaction at the end           *)
(* (services/health/prober.py, status.py), and the operators, who onboard, *)
(* repoint, retire and bring back cameras meanwhile                        *)
(* (services/api/routers/cameras.py, imports.py).                          *)
(*                                                                         *)
(* They share the column cameras.status and nothing else.  A sweep is the  *)
(* read of the rows, one sample per camera, the debounce in memory and the *)
(* transaction; each may see the registry as it was at another moment.     *)
(* What a probe would find is `stream`, and assess() is the verdict it     *)
(* leads to.                                                               *)
(***************************************************************************)
EXTENDS Integers, FiniteSets

CONSTANTS
    Cameras,        \* camera ids
    Confirmations,  \* DEGRADE_CONFIRMATIONS
    Operators,      \* requests to recommission, which check and then write
    None,           \* no row, no sample, no pending status
    MaxSteps        \* bound: what the operators may do in a behaviour

ASSUME ProberAssumption ==
    /\ IsFiniteSet(Cameras)
    /\ Confirmations \in Nat \ {0} /\ MaxSteps \in Nat
    /\ None \notin {"online", "offline", "degraded", "unknown", "decommissioned"}

Verdicts == {"online", "offline", "degraded", "unknown"}

VARIABLES
    status,   \* cameras.status, or None before the camera is onboarded
    stream,   \* what a probe of the camera's stream_ref would find
    pc,       \* the prober: "idle", "sampling" or "writing"
    row,      \* CameraRow.status as the sweep read it, or None
    sample,   \* the verdict of the sweep's sample, or None until it is taken
    pending,  \* _Track.pending_status
    count,    \* _Track.pending_count, up to Confirmations
    verdict,  \* the debounced status the sweep will write
    asked,    \* recommission: the camera whose status a request has checked
    streak,   \* history: for how many sweeps in a row the sample was `said`
    said,     \* history: the sample of the last sweep that weighed it
    returned, \* history: cameras that came into service during this sweep
    steps     \* operators' steps so far

sweep   == <<pc, row, sample, verdict>>
memory  == <<pending, count>>
history == <<streak, said, returned>>
vars    == <<status, stream, sweep, memory, asked, history, steps>>

All(x) == [c \in Cameras |-> x]

InService(c) == status[c] \notin {None, "decommissioned"}

Init ==
    /\ status = All(None)
    /\ stream \in [Cameras -> {"online", "offline"}]
    /\ pc = "idle" /\ row = All(None) /\ sample = All(None) /\ verdict = All(None)
    /\ pending = All(None) /\ count = All(0)
    /\ asked = [o \in Operators |-> None]
    /\ streak = All(0) /\ said = All(None) /\ returned = {}
    /\ steps = 0

-------------------------------------------------------------------------------
(* One sweep                                                                *)

\* Mutant: the read has no guard.
ReadAll ==
    /\ pc = "idle"
    /\ pc' = "sampling"
    /\ row' = status
    /\ returned' = {}
    /\ UNCHANGED <<status, stream, sample, verdict, memory, asked, streak, said, steps>>

\* fetch_cameras: everything that is not decommissioned.
Read ==
    /\ pc = "idle"
    /\ pc' = "sampling"
    /\ row' = [c \in Cameras |-> IF InService(c) THEN status[c] ELSE None]
    /\ returned' = {}
    /\ UNCHANGED <<status, stream, sample, verdict, memory, asked, streak, said, steps>>

Swept == {c \in Cameras : row[c] # None}

\* _sample_for and assess.  The media server's cameras come from one answer and
\* the others from a pool of threads, so in any order.
Sample(c) ==
    /\ pc = "sampling" /\ c \in Swept /\ sample[c] = None
    /\ sample' = [sample EXCEPT ![c] = stream[c]]
    /\ UNCHANGED <<status, stream, pc, row, verdict, memory, asked, history, steps>>

\* Mutant: a different degradation does not start the count again.
CountedTogether(c) ==
    IF sample[c] = "online" THEN 0
    ELSE IF count[c] < Confirmations THEN count[c] + 1 ELSE count[c]

\* Mutant: the count does not outlive its sweep.
CountedOnce(c) == IF sample[c] = "online" THEN 0 ELSE 1

\* _debounce: pending_count after the sample.
Counted(c) ==
    IF sample[c] = "online" THEN 0
    ELSE IF pending[c] # sample[c] THEN 1
    ELSE IF count[c] < Confirmations THEN count[c] + 1 ELSE count[c]

\* A verdict that is not confirmed repeats the status the sweep has read.
Confirmed(c) ==
    IF sample[c] = "online" \/ Counted(c) >= Confirmations THEN sample[c] ELSE row[c]

\* History: the run of equal samples the sweeps have completed.
Weigh ==
    /\ said' = [c \in Cameras |-> IF c \in Swept THEN sample[c] ELSE said[c]]
    /\ streak' = [c \in Cameras |->
          IF c \notin Swept THEN streak[c]
          ELSE IF said[c] # sample[c] THEN 1
          ELSE IF streak[c] < Confirmations THEN streak[c] + 1 ELSE streak[c]]

Debounce ==
    /\ pc = "sampling" /\ \A c \in Swept : sample[c] # None
    /\ pc' = "writing"
    /\ count' = [c \in Cameras |-> IF c \in Swept THEN Counted(c) ELSE count[c]]
    /\ pending' = [c \in Cameras |->
          IF c \notin Swept THEN pending[c]
          ELSE IF sample[c] = "online" THEN None ELSE sample[c]]
    /\ verdict' = [c \in Cameras |-> IF c \in Swept THEN Confirmed(c) ELSE None]
    /\ Weigh
    /\ UNCHANGED <<status, stream, row, sample, asked, returned, steps>>

SweepOver ==
    /\ pc' = "idle"
    /\ row' = All(None) /\ sample' = All(None) /\ verdict' = All(None)

\* The transaction at the end, with the guard repeated.
Write ==
    /\ pc = "writing"
    /\ status' = [c \in Cameras |->
          IF verdict[c] # None /\ InService(c) THEN verdict[c] ELSE status[c]]
    /\ SweepOver
    /\ UNCHANGED <<stream, memory, asked, history, steps>>

\* The database fails during the sweep: the next one starts over, with the
\* counts this one has left.
SweepFails ==
    /\ pc \in {"sampling", "writing"}
    /\ SweepOver
    /\ UNCHANGED <<status, stream, memory, asked, history, steps>>

-------------------------------------------------------------------------------
(* Operators                                                                *)

Step == steps < MaxSteps /\ steps' = steps + 1

\* create_camera, or an import of a camera that is new.
Create(c) ==
    /\ Step /\ status[c] = None
    /\ status' = [status EXCEPT ![c] = "unknown"]
    /\ returned' = returned \cup {c}
    /\ UNCHANGED <<stream, sweep, memory, asked, streak, said>>

\* decommission_camera: whatever the status.
Decommission(c) ==
    /\ Step /\ status[c] # None
    /\ status' = [status EXCEPT ![c] = "decommissioned"]
    /\ UNCHANGED <<stream, sweep, memory, asked, history>>

\* recommission_camera: the status is checked ...
Ask(o, c) ==
    /\ Step /\ asked[o] = None /\ status[c] = "decommissioned"
    /\ asked' = [asked EXCEPT ![o] = c]
    /\ UNCHANGED <<status, stream, sweep, memory, history>>

\* ... and written by a second statement, whatever it has become.
Recommission(o) ==
    /\ asked[o] # None
    /\ status' = [status EXCEPT ![asked[o]] = "unknown"]
    /\ returned' = returned \cup {asked[o]}
    /\ asked' = [asked EXCEPT ![o] = None]
    /\ UNCHANGED <<stream, sweep, memory, streak, said, steps>>

\* What a probe finds changes: the camera does, or update_camera or an import
\* gives it another stream_ref, which leaves its status alone.
StreamChanges(c) ==
    /\ Step
    /\ \E v \in Verdicts \ {stream[c]} : stream' = [stream EXCEPT ![c] = v]
    /\ UNCHANGED <<status, sweep, memory, asked, history>>

-------------------------------------------------------------------------------
Sweep == Read \/ (\E c \in Cameras : Sample(c)) \/ Debounce \/ Write

Operate ==
    \/ \E c \in Cameras : Create(c) \/ Decommission(c) \/ StreamChanges(c)
    \/ \E o \in Operators : Recommission(o) \/ \E c \in Cameras : Ask(o, c)

Next == Sweep \/ SweepFails \/ Operate

\* The prober sweeps for ever ("one bad cycle must not kill the prober"), and
\* whatever makes sweeps fail does not make all of them fail from then on.
Fairness == WF_vars(Sweep) /\ []<><<Write>>_vars

Spec == Init /\ [][Next]_vars /\ Fairness

-------------------------------------------------------------------------------
(* Properties                                                               *)

\* The values of the registry, the sweep and the prober's memory.
TypeOK ==
    /\ status \in [Cameras -> Verdicts \cup {"decommissioned", None}]
    /\ stream \in [Cameras -> Verdicts]
    /\ pc \in {"idle", "sampling", "writing"}
    /\ row \in [Cameras -> Verdicts \cup {None}]
    /\ sample \in [Cameras -> Verdicts \cup {None}]
    /\ pending \in [Cameras -> Verdicts \cup {None}]
    /\ count \in [Cameras -> 0..Confirmations]
    /\ verdict \in [Cameras -> Verdicts \cup {None}]
    /\ asked \in [Operators -> Cameras \cup {None}]
    /\ streak \in [Cameras -> 0..Confirmations]
    /\ said \in [Cameras -> Verdicts \cup {None}]
    /\ returned \subseteq Cameras /\ steps \in 0..MaxSteps

\* What the last samples of c justify.
Justified(c, s) == said[c] = s /\ (s = "online" \/ streak[c] >= Confirmations)

\* Whatever the operators do during a sweep and however many sweeps fail, the
\* prober moves a camera to online only after a sample that said so, to any other
\* status only after DEGRADE_CONFIRMATIONS samples in a row that said the same,
\* and never out of decommissioned.  Only a camera that came into service during
\* the very sweep may be given the status it had before.
ChangesAreSampled ==
    [][\A c \in Cameras : pc = "writing" /\ pc' = "idle" /\ status'[c] # status[c]
           => /\ status[c] # "decommissioned"
              /\ Justified(c, status'[c]) \/ c \in returned]_vars

\* A camera in service whose stream stays as it is ends up with the status a
\* probe of it deserves, whatever happened before and however its sweeps fail.
StatusSettles ==
    \A c \in Cameras : \A v \in Verdicts :
        <>[](InService(c) /\ stream[c] = v) => <>[](status[c] = v)

\* cameras.py:626-627 of a camera that is brought back: "Status returns to
\* `unknown`; the health prober decides within seconds whether it is really
\* back".  A sweep that read it before it was retired writes its old status.
BackMeansSampled ==
    [][\A c \in Cameras : pc = "writing" /\ pc' = "idle" /\ status'[c] # status[c]
           => Justified(c, status'[c])]_vars
===============================================================================
