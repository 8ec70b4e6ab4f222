------------------------------- MODULE PlateKeys -------------------------------
(***************************************************************************)
(* From what OCR returned to the key a plate is stored, listed and found   *)
(* under: services/common/confusion.py (what OCR mixes up, at what cost),  *)
(* services/common/plates.py (positional normalisation), services/anpr/    *)
(* vote.py (one plate for all reads of a track), and the places that       *)
(* normalise again - the search, the watchlist and the matching of alerts  *)
(* (services/api/routers, services/alerting/tiers.py).                     *)
(*                                                                         *)
(* A plate is a sequence of one-character strings; case is folded.  Costs  *)
(* are in thousandths, confidences in hundredths.  The trigram search that *)
(* follows an exact one without rows, and the confidence a vote reports,   *)
(* are left out.                                                           *)
(***************************************************************************)
EXTENDS Integers, Sequences, FiniteSets, TLC
LOCAL INSTANCE SequencesExt

CONSTANTS
    Derived,     \* the table in CONFUSION_PATH: toDigit, toLetter, pairs, costs
    Raws,        \* strings OCR may return
    Plates,      \* registrations that exist
    Tracks       \* the reads of a track, each with its confidence

Digits  == {"0", "1", "2", "3", "4", "5", "6", "7", "8", "9"}
Letters == {"A", "B", "C", "D", "E", "F", "G", "H", "I", "J", "K", "L", "M",
            "N", "O", "P", "Q", "R", "S", "T", "U", "V", "W", "X", "Y", "Z"}

Chars   == Digits \cup Letters

ASSUME PlateAssumption ==
    /\ \A c \in DOMAIN Derived.toDigit : c \in Letters /\ Derived.toDigit[c] \in Digits
    /\ \A c \in DOMAIN Derived.toLetter : c \in Digits /\ Derived.toLetter[c] \in Letters
    /\ \A pair \in DOMAIN Derived.costs : Derived.costs[pair] \in Nat
    /\ \A track \in Tracks : \A i \in DOMAIN track : track[i].confidence \in 0..100

-------------------------------------------------------------------------------
(* What OCR mixes up                                                        *)

PriorToDigit ==
    "A" :> "4" @@ "B" :> "8" @@ "C" :> "0" @@ "D" :> "0" @@ "E" :> "3" @@ "G" :> "6" @@
    "I" :> "1" @@ "J" :> "1" @@ "L" :> "1" @@ "O" :> "0" @@ "Q" :> "0" @@ "S" :> "5" @@
    "T" :> "7" @@ "U" :> "0" @@ "Z" :> "2"
PriorToLetter ==
    "0" :> "O" @@ "1" :> "I" @@ "2" :> "Z" @@ "3" :> "B" @@ "4" :> "A" @@ "5" :> "S" @@
    "6" :> "G" @@ "7" :> "T" @@ "8" :> "B" @@ "9" :> "G"
PriorPairs ==
    {{"I", "J"}, {"I", "L"}, {"I", "T"}, {"O", "D"}, {"O", "Q"}, {"C", "G"}, {"B", "R"},
     {"E", "F"}, {"M", "N"}, {"U", "V"}, {"S", "Z"}, {"K", "X"}, {"P", "R"}, {"D", "P"},
     {"H", "N"}}

PriorCost == 2000
Implausible == 6000

\* merge: coercions stay with the prior where it has one, costs come from the
\* derived table where it has one, and pairs from both.
ToDigit  == PriorToDigit @@ Derived.toDigit
ToLetter == PriorToLetter @@ Derived.toLetter
Pairs    == PriorPairs \cup Derived.pairs

\* coerce_to_digit, coerce_to_letter: no table has a character of its own class.
AsDigit(c)  == IF c \in DOMAIN ToDigit THEN ToDigit[c] ELSE c
AsLetter(c) == IF c \in DOMAIN ToLetter THEN ToLetter[c] ELSE c

\* char_cost: of reading c in a slot of a class it is not of.
Coercion(c, read) ==
    IF read = c THEN Implausible
    ELSE IF <<c, read>> \in DOMAIN Derived.costs THEN Derived.costs[<<c, read>>]
    ELSE PriorCost

CharCost(c, wantsDigit) ==
    IF (c \in Digits) = wantsDigit THEN 0
    ELSE Coercion(c, IF wantsDigit THEN AsDigit(c) ELSE AsLetter(c))

Confusable(a, b) == a = b \/ {a, b} \in Pairs

-------------------------------------------------------------------------------
(* Positional normalisation                                                 *)

MinLen == 7
MaxLen == 11

\* The grammar the code's regular expressions check.
Every(s, class) == \A i \in DOMAIN s : s[i] \in class

StateCodes ==
    {<<"A", "N">>, <<"A", "P">>, <<"A", "R">>, <<"A", "S">>, <<"B", "R">>, <<"C", "G">>,
     <<"C", "H">>, <<"D", "D">>, <<"D", "L">>, <<"D", "N">>, <<"G", "A">>, <<"G", "J">>,
     <<"H", "P">>, <<"H", "R">>, <<"J", "H">>, <<"J", "K">>, <<"K", "A">>, <<"K", "L">>,
     <<"L", "A">>, <<"L", "D">>, <<"M", "H">>, <<"M", "L">>, <<"M", "N">>, <<"M", "P">>,
     <<"M", "Z">>, <<"N", "L">>, <<"O", "D">>, <<"O", "R">>, <<"P", "B">>, <<"P", "Y">>,
     <<"R", "J">>, <<"S", "K">>, <<"T", "N">>, <<"T", "R">>, <<"T", "S">>, <<"U", "K">>,
     <<"U", "A">>, <<"U", "P">>, <<"W", "B">>}

DigitsOf(s)  == [i \in DOMAIN s |-> AsDigit(s[i])]
LettersOf(s) == [i \in DOMAIN s |-> AsLetter(s[i])]

\* _clean: what is not of a mark is dropped, and the plate's embossing.
Without(token, s) ==
    IF IsPrefix(token, s) /\ Len(s) - Len(token) >= MinLen
    THEN SubSeq(s, Len(token) + 1, Len(s)) ELSE s

Alnum(raw) == SelectSeq(raw, LAMBDA c : c \in Chars)

Clean(raw) ==
    Without(<<"B", "H", "A", "R", "A", "T">>, Without(<<"I", "N", "D">>, Alnum(raw)))

\* _split_middle: where the RTO's one or two digits end and the series begins.
OneDigitRto == 1000

SplitCost(middle, n) ==
    FoldLeftDomain(LAMBDA sum, i : sum + CharCost(middle[i], i <= n),
                   IF n = 1 THEN OneDigitRto ELSE 0, middle)

Splits(middle) ==
    {n \in 1..2 : /\ Len(middle) - n \in 0..3
                  /\ \E i \in 1..n : AsDigit(middle[i]) # "0"}

SplitMiddle(middle) ==
    IF Splits(middle) = {} THEN middle
    ELSE LET n == CHOOSE n \in Splits(middle) :
                      \A m \in Splits(middle) :
                          \/ SplitCost(middle, n) < SplitCost(middle, m)
                          \/ SplitCost(middle, n) = SplitCost(middle, m) /\ n <= m
         IN  DigitsOf(SubSeq(middle, 1, n)) \o LettersOf(SubSeq(middle, n + 1, Len(middle)))

\* correct_state: the one valid code a single confusable character away.
Nearby(code) ==
    {valid \in StateCodes :
        /\ Cardinality({i \in 1..2 : code[i] # valid[i]}) = 1
        /\ \A i \in 1..2 : Confusable(code[i], valid[i])}

CorrectState(code) ==
    IF code \notin StateCodes /\ Cardinality(Nearby(code)) = 1
    THEN CHOOSE valid \in Nearby(code) : TRUE ELSE code

\* Only letter evidence is repaired: two digits have been guessed at already.
StateOf(two) ==
    IF \E i \in 1..2 : two[i] \in Letters THEN CorrectState(LettersOf(two)) ELSE LettersOf(two)

Mark(s, valid) == [normalised |-> s, formatValid |-> valid]

\* _try_bh: <<year, "BH", number, series>>.
BharatShaped(s) == Len(s) \in 10..11 /\ LettersOf(SubSeq(s, 3, 4)) = <<"B", "H">>

Bharat(s) ==
    LET year   == DigitsOf(SubSeq(s, 1, 2))
        number == DigitsOf(SubSeq(s, 5, 8))
        series == LettersOf(SubSeq(s, 9, Len(s)))
    IN  Mark(year \o <<"B", "H">> \o number \o series,
             Every(year \o number, Digits) /\ Every(series, Letters))

Structural(middle, number) ==
    /\ Every(number, Digits)
    /\ \E n \in 1..2 : /\ Len(middle) - n \in 0..3
                       /\ Every(SubSeq(middle, 1, n), Digits)
                       /\ Every(SubSeq(middle, n + 1, Len(middle)), Letters)

Standard(s) ==
    LET state  == StateOf(SubSeq(s, 1, 2))
        middle == SplitMiddle(SubSeq(s, 3, Len(s) - 4))
        number == DigitsOf(SubSeq(s, Len(s) - 3, Len(s)))
    IN  IF Every(state, Letters) /\ Structural(middle, number)
        THEN Mark(state \o middle \o number, state \in StateCodes)
        ELSE Mark(s, FALSE)

Normalise(raw) ==
    LET s == Clean(raw)
    IN  IF BharatShaped(s) THEN Bharat(s)
        ELSE IF Len(s) \in MinLen..MaxLen THEN Standard(s)
        ELSE Mark(s, FALSE)

\* normalise_plate.
NormalisePlate(raw) == Normalise(raw).normalised

\* plate_key_variants: the keys a search probes.
KeyVariants(raw) == {NormalisePlate(raw)} \cup ({Clean(raw)} \ {<<>>})

-------------------------------------------------------------------------------
(* One plate for a track                                                    *)

MinReadConfidence == 10

Usable(track) ==
    SelectSeq(track, LAMBDA r : Alnum(r.raw) # <<>> /\ r.confidence >= MinReadConfidence)

Weight(reads) == FoldLeft(LAMBDA sum, r : sum + r.confidence, 0, reads)

WeightOf(reads, Test(_)) == Weight(SelectSeq(reads, Test))

\* Between equals Python's max takes the later string, by character code.
Order == <<"0", "1", "2", "3", "4", "5", "6", "7", "8", "9",
           "A", "B", "C", "D", "E", "F", "G", "H", "I", "J", "K", "L", "M",
           "N", "O", "P", "Q", "R", "S", "T", "U", "V", "W", "X", "Y", "Z">>
Place == [c \in Chars |-> CHOOSE i \in DOMAIN Order : Order[i] = c]

Later(a, b) ==
    \/ IsStrictPrefix(b, a)
    \/ \E i \in DOMAIN a \cap DOMAIN b :
          /\ Place[a[i]] > Place[b[i]]
          /\ \A j \in 1..i - 1 : a[j] = b[j]

Heaviest(S, W(_)) ==
    CHOOSE x \in S : \A y \in S : W(x) > W(y) \/ (W(x) = W(y) /\ ~Later(y, x))

\* _weighted_char_consensus.
ModalLength(reads) ==
    LET lengths == {Len(Alnum(r.raw)) : r \in ToSet(reads)}
        W(n)    == WeightOf(reads, LAMBDA r : Len(Alnum(r.raw)) = n)
    IN  CHOOSE n \in lengths : \A m \in lengths : W(n) > W(m) \/ (W(n) = W(m) /\ n >= m)

OfModalLength(reads) ==
    SelectSeq(reads, LAMBDA r : Len(Alnum(r.raw)) = ModalLength(reads))

AtSlot(reads, i, c) == WeightOf(reads, LAMBDA r : Alnum(r.raw)[i] = c)

Consensus(reads) ==
    [i \in 1..ModalLength(reads) |->
        LET chars == {Alnum(r.raw)[i] : r \in ToSet(reads)}
        IN  (Heaviest({<<c>> : c \in chars}, LAMBDA c : AtSlot(reads, i, c[1])))[1]]

\* The slots' mean agreement is Backing / (Len(text) * Weight(reads)).
Backing(reads, text) ==
    FoldLeftDomain(LAMBDA sum, i : sum + AtSlot(reads, i, text[i]), 0, text)

WholeString(reads) ==
    LET keyed(k) == SelectSeq(reads, LAMBDA r : NormalisePlate(r.raw) = k)
        key  == Heaviest({NormalisePlate(r.raw) : r \in ToSet(reads)}, LAMBDA k : Weight(keyed(k)))
        best == keyed(key)
        i    == CHOOSE i \in DOMAIN best :
                    \A j \in DOMAIN best : \/ best[i].confidence > best[j].confidence
                                           \/ best[i].confidence = best[j].confidence /\ i <= j
    IN  [plate |-> Normalise(best[i].raw), weight |-> Weight(best)]

\* vote, of a track with a usable read.
Prefers(reads, winner, same, text) ==
    LET candidate == Normalise(text)
    IN  \/ candidate.formatValid /\ ~winner.plate.formatValid
        \/ /\ Backing(same, text) * Weight(reads) > winner.weight * Len(text) * Weight(same)
           /\ winner.plate.formatValid => candidate.formatValid

Vote(track) ==
    LET reads  == Usable(track)
        winner == WholeString(reads)
        same   == OfModalLength(reads)
        text   == Consensus(same)
    IN  IF Len(same) >= 2 /\ Prefers(reads, winner, same, text)
        THEN Normalise(text) ELSE winner.plate

-------------------------------------------------------------------------------
(* Who asks for it                                                          *)

\* edit_distance up to 2; 3 stands for more.
Distance(a, b) ==
    LET within[k \in 0..2, i \in 1..Len(a) + 1, j \in 1..Len(b) + 1] ==
            IF i > Len(a) THEN Len(b) + 1 - j <= k
            ELSE IF j > Len(b) THEN Len(a) + 1 - i <= k
            ELSE IF a[i] = b[j] THEN within[k, i + 1, j + 1]
            ELSE k > 0 /\ \/ within[k - 1, i + 1, j]
                          \/ within[k - 1, i, j + 1]
                          \/ within[k - 1, i + 1, j + 1]
    IN  IF \E k \in 0..2 : within[k, 1, 1]
        THEN CHOOSE k \in 0..2 : within[k, 1, 1] /\ \A l \in 0..k - 1 : ~within[l, 1, 1]
        ELSE 3

\* match_plate: how far an entry is from a read, and the closest of them; the
\* graver one between equals.
Apart(key, target) == IF target \in KeyVariants(key) THEN 0 ELSE Distance(key, target)

Tier(distance, confident) ==
    IF distance = 0 /\ confident THEN "confirmed"
    ELSE IF distance <= 1 THEN "probable" ELSE "possible"

Demotion == [confirmed |-> 0, probable |-> 1, possible |-> 2]

Priority(severity, tier) ==
    IF severity - Demotion[tier] < 1 THEN 1 ELSE severity - Demotion[tier]

Closest(key, confident, listed) ==
    LET apart(e)    == Apart(key, e.plate)
        priority(e) == Priority(e.severity, Tier(apart(e), confident))
        within      == {e \in listed : apart(e) <= 2}
    IN  {e \in within : \A f \in within :
            \/ apart(e) < apart(f)
            \/ apart(e) = apart(f) /\ priority(e) >= priority(f)}

-------------------------------------------------------------------------------
(* Properties                                                               *)

\* A sighting is found again from the key its operator is shown, whatever
\* normalising that key once more makes of it: the search probes it, and an
\* entry listed from it is an exact match for the next sighting of its kind
\* (search_sightings, add_to_watchlist, match_plate).
FoundAsShown ==
    \A raw \in Raws :
        LET shown == NormalisePlate(raw)
        IN  shown # <<>> => /\ shown \in KeyVariants(shown)
                            /\ Apart(shown, NormalisePlate(shown)) = 0

\* Two shapes the grammar has and Normalise does not keep (see PlatesApart): an
\* RTO of one digit with a series that begins with H is taken for a mark of the
\* Bharat series, and one of that series with a single letter is too short to be
\* recognised as such.
Standardised(p) == SubSeq(p, 1, 2) \in StateCodes
Mistaken(p) == Standardised(p) = BharatShaped(p)

\* The slots of p whose class does not depend on how its middle is split, and
\* what OCR may return there that a slot of that class still resolves.
FixedSlots(p) ==
    IF Standardised(p) THEN {1, 2} \cup (Len(p) - 3..Len(p)) ELSE DOMAIN p

Resolves(c, printed) == printed = IF printed \in Digits THEN AsDigit(c) ELSE AsLetter(c)

\* The key of a registration is the registration itself - so that two of them
\* never share one - and stays it when OCR returns a character of the other
\* class in a slot that fixes which class it was.
PlatesKeepTheirKey ==
    \A p \in Plates : ~Mistaken(p) =>
        /\ Normalise(p) = Mark(p, TRUE)
        /\ \A i \in FixedSlots(p), c \in Chars :
              Resolves(c, p[i]) => NormalisePlate([p EXCEPT ![i] = c]) = p

\* A registration no frame need have read: when in every slot more than half of
\* the track's weight is behind its character, the track's one sighting carries
\* it.
Behind(reads, p) ==
    LET same == SelectSeq(reads, LAMBDA r : Len(Alnum(r.raw)) = Len(p))
    IN  same # <<>> /\ \A i \in DOMAIN p : 2 * AtSlot(same, i, p[i]) > Weight(reads)

VoteRecovers ==
    \A track \in Tracks, p \in Plates :
        (~Mistaken(p) /\ Behind(Usable(track), p)) => Vote(track) = Mark(p, TRUE)

-------------------------------------------------------------------------------
(* What the code's comments say, and it does not do (README, section 4)     *)

\* plates.py:6-8: that different plates collapse onto one key is the failure the
\* module exists to prevent.  The key of a mistaken one is another registration.
PlatesApart == \A p \in Plates : NormalisePlate(p) = p

\* plates.py:241-245: a guess from two digits is not repaired to a real plate.
\* Normalising the stored key again, as match_plate does, repairs it.
GuessesStayGuesses ==
    \A raw \in Raws :
        LET key == NormalisePlate(raw)
        IN  NormalisePlate(key) \in Plates => NormalisePlate(key) = key
===============================================================================
