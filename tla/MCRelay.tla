-------------------------------- MODULE MCRelay -------------------------------
\* One camera the browser cannot play as it stands, so that its own path and
\* its copy are both in use; two requests, so that one may stop or replace what
\* the other has just found, while the reaper and shutdown are at it; two
\* processes, so that a relay can be replaced under all of them.
EXTENDS Relay

CONSTANTS c1, r1, r2

MCCameras  == {c1}
MCRequests == {r1, r2}
MCProcs    == 1..2
===============================================================================
