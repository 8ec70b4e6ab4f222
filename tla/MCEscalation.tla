----------------------------- MODULE MCEscalation -----------------------------
\* Two cameras and one slot, so that the second is deferred, races for the slot
\* the first gives back, and may find it taken again; a default reader that is
\* not learned, so that the OCR rung is really built; one reader to boost to.
EXTENDS Escalation, TLC

CONSTANTS c1, c2, doctr

MCCameras == {c1, c2}
MCBoosts  == {doctr}
Symmetry  == Permutations(MCCameras)
===============================================================================
