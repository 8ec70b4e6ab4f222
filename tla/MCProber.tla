------------------------------- MODULE MCProber -------------------------------
\* One camera with two requests to bring it back, or two cameras in one sweep;
\* two confirmations, so that a count can be confirmed, interrupted and carried
\* over a sweep that failed.
EXTENDS Prober, TLC

CONSTANTS c1, c2, o1, o2

OneCamera  == {c1}
TwoCameras == {c1, c2}
MCOperators == {o1, o2}
===============================================================================
