-------------------------------- MODULE MCSink --------------------------------
\* Two reads of one camera, so that one camera's losses are counted by two
\* threads at once; a second camera whose thread only ever flushes for others;
\* and a batch size both reads together reach, so that the buffer is flushed
\* full by the thread that filled it and part full by whoever finds it aged.
EXTENDS SightingSink

CONSTANTS c1, c2, r1, r2

MCCameras  == {c1, c2}
MCReads    == {r1, r2}
MCCameraOf == [r \in MCReads |-> c1]
===============================================================================
