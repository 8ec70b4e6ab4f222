------------------------------ MODULE MCOcrBoost ------------------------------
\* Two requests for any of two cameras under a cap of one, so that they race for
\* it, replace each other and are refused; three rows.
EXTENDS OcrBoost

CONSTANTS c1, c2, r1, r2

MCCameras  == {c1, c2}
MCRequests == {r1, r2}
MCBoosts   == 1..3
===============================================================================
