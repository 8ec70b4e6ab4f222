--------------------------------- MODULE MCHub ---------------------------------
\* Three alerts in batches that may share a time and commit in any order, queries of
\* two rows, and two sockets that come and go while the pump waits, sends and ends.
EXTENDS AlertHub, TLC

CONSTANTS a1, a2, a3, s1, s2

MCAlerts  == {a1, a2, a3}
MCSockets == {s1, s2}
===============================================================================
