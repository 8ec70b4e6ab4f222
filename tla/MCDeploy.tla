------------------------------- MODULE MCDeploy -------------------------------
\* Two runners for two migrations, two workers for two shards with a camera each,
\* and two faults: one worker crashes while another's session has dropped.
EXTENDS Deployment, TLC

CONSTANTS r1, r2, w1, w2, c1, c2

MCRunners    == {r1, r2}
MCMigrations == {1, 2}
MCWorkers    == {w1, w2}
MCCameras    == {c1, c2}
MCShardOf    == c1 :> 0 @@ c2 :> 1
===============================================================================
