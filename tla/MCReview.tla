------------------------------- MODULE MCReview -------------------------------
\* Three crops, one verified on the sheets and one below the floor, two people
\* with two answers, every second crop a re-check, one kill and one step out of turn.
EXTENDS ReviewQueue, TLC

CONSTANTS l1, l2, a1, a2

MCCrops     == 1..3
MCWithheld  == {3}
MCLabellers == {l1, l2}
MCAnswers   == {a1, a2}
MCKnown     == 2 :> a1
NoneKnown   == <<>>
===============================================================================
