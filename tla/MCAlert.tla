-------------------------------- MODULE MCAlert -------------------------------
\* Two flushing threads; two reads of one wanted vehicle at one camera, a
\* vehicle of another entry (so that a dictionary with a key in it gets a new
\* one), and one that can only be matched on its looks.  Windows of one
\* unit for plates and corroboration both hold and expire; that for looks, the
\* longer one, holds.
\*
\* Which entry a plate read matches is what its track's vote, normalisation and
\* match_plate make of it: p1 was read right by no frame, p2 is one character
\* off, q is exact.  PlateKeys has no state: its properties are assumptions here,
\* which TLC evaluates on the sets below before it begins.
EXTENDS AlertWriter, PlateKeys

CONSTANTS t1, t2, e1, e2, near, far, p1, p2, q, look

MCThreads == {t1, t2}
MCEntries == {e1, e2}
MCReads   == {p1, p2, q, look}
MCByPlate == {p1, p2, q}
MCSite    == [r \in MCReads |-> IF r = look THEN far ELSE near]
Symmetry  == Permutations(MCThreads) \cup Permutations({p1, p2})

-------------------------------------------------------------------------------
\* What data/ocr-confusion.json says of the characters below.
MCDerived ==
    [toDigit  |-> "B" :> "8" @@ "I" :> "1" @@ "Q" :> "0" @@ "S" :> "5" @@ "T" :> "7" @@ "Z" :> "2",
     toLetter |-> "0" :> "Q" @@ "1" :> "I" @@ "2" :> "Z" @@ "3" :> "S" @@ "5" :> "S" @@
                  "6" :> "S" @@ "7" :> "T" @@ "8" :> "B" @@ "9" :> "S",
     pairs    |-> {{"B", "E"}, {"C", "G"}, {"C", "L"}, {"D", "O"}, {"E", "F"}, {"E", "L"},
                   {"G", "O"}, {"H", "N"}, {"H", "U"}, {"I", "T"}},
     costs    |-> <<"A", "4">> :> 2272 @@ <<"B", "8">> :> 1554 @@ <<"I", "1">> :> 1425 @@
                  <<"O", "0">> :> 2555 @@ <<"4", "A">> :> 2272 @@ <<"8", "B">> :> 1554 @@
                  <<"1", "I">> :> 1425 @@ <<"0", "O">> :> 2555 @@ <<"3", "B">> :> 2232]

Strings(chars, lengths) == UNION {[1..n -> chars] : n \in lengths}

\* States of letters and digits, valid ones, repairable ones and neither;
\* middles of every length that split in one way, in two or in none.
MCRaws ==
    {s \o m \o n : s \in Strings({"G", "J", "I", "1", "4"}, {2}),
                   m \in Strings({"0", "1", "8", "H"}, 1..3),
                   n \in {<<"1", "2", "3", "4">>, <<"I", "2", "3", "A">>}}
    \cup {s \o m \o <<"1", "2", "3", "4">> : s \in {<<"G", "J">>, <<"6", "J">>},
                                            m \in Strings({"E", "8", "H"}, {4, 5})}
    \cup {<<"I", "N", "D">> \o s \o <<"0", "1", "1", "2", "3", "4">> :
             s \in {<<"G", "J">>, <<"1", "4">>}}

Rtos   == {<<"8">>, <<"0", "1">>, <<"1", "8">>, <<"8", "0">>}
Series == Strings({"A", "H"}, 0..3)

MCPlates ==
    {s \o r \o t \o <<"1", "2", "3", "4">> : s \in {<<"G", "J">>, <<"L", "A">>}, r \in Rtos, t \in Series}
    \cup {<<"2", "1", "B", "H", "1", "0", "3", "8">> \o t : t \in Strings({"A", "I"}, {1, 2})}

GJ01AB1234 == <<"G", "J", "0", "1", "A", "B", "1", "2", "3", "4">>
GJ01AH1234 == [GJ01AB1234 EXCEPT ![6] = "H"]

\* Reads of the second, up to three: right, wrong in one of three slots, or cut.
MCFrames ==
    {GJ01AH1234, Tail(GJ01AH1234)}
    \cup {[GJ01AH1234 EXCEPT ![slip[1]] = slip[2]] :
             slip \in {<<1, "6">>, <<4, "8">>, <<9, "8">>, <<9, "B">>}}
MCTracks ==
    UNION {[1..n -> [raw : MCFrames, confidence : {25, 50}]] : n \in 1..3}

-------------------------------------------------------------------------------
Listed == {[entry |-> e1, plate |-> GJ01AB1234, severity |-> 3],
           [entry |-> e2, plate |-> <<"D", "L", "8", "C", "A", "A", "1", "1", "1", "1">>, severity |-> 5]}

Frame(raw) == [raw |-> raw, confidence |-> 50]

TrackOf ==
    (p1 :> <<Frame([GJ01AB1234 EXCEPT ![4] = "I", ![6] = "H"]), Frame([GJ01AB1234 EXCEPT ![9] = "8"]),
             Frame([GJ01AB1234 EXCEPT ![1] = "6", ![10] = "A"])>>)
    @@ (p2 :> <<Frame(GJ01AH1234)>>)
    @@ (q :> <<Frame(<<"D", "L", "8", "C", "A", "4", "I", "1", "1", "1">>)>>)

MCEntry == look :> e1 @@ p1 :> e1 @@ p2 :> e1 @@ q :> e2

ASSUME KeysAreFound == FoundAsShown
ASSUME KeysAreKept == PlatesKeepTheirKey
ASSUME TracksAreRecovered == VoteRecovers

ASSUME MatchedByPlate ==
    \A r \in MCByPlate :
        {e.entry : e \in Closest(Vote(TrackOf[r]).normalised, FALSE, Listed)} = {MCEntry[r]}
===============================================================================
