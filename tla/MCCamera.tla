------------------------------- MODULE MCCamera -------------------------------
\* Two sessions or more within the bound, timestamps that advance, stand still,
\* jump, go back and go missing, and one or two ids the tracker reuses.
EXTENDS CameraThread, TLC

CONSTANTS v1, v2

MCVehicles == {v1}
MCReadings == {0, 1, 2}
===============================================================================
