------------------------------ MODULE ReviewQueue ------------------------------
(***************************************************************************)
(* The tool with which people label the plate crops                        *)
(* (scripts/review_server.py): a threaded server that hands out crops,     *)
(* keeps every label in memory and appends it to labels.jsonl, is killed   *)
(* and started again, seeds the log from the manifest, and a command that  *)
(* folds the log into the manifest.                                        *)
(*                                                                         *)
(* A crop is its place in queue_order.  A label says what was read, or     *)
(* that there is no plate: the texts and verdicts are the Answers.  Of the *)
(* log only the last word of each labeller on each crop is kept, which is  *)
(* all that latest_by_labeller takes from it.  A kill in the middle of a   *)
(* write leaves a torn line without its newline, and the next line written *)
(* is glued to it: load_events can read neither.                           *)
(***************************************************************************)
EXTENDS Integers, FiniteSetsExt

CONSTANTS
    Crops,         \* the manifest, in queue order
    Withheld,      \* crops below min_band
    Labellers,     \* people, one page each
    Sheets,        \* SEED_LABELLER
    Answers,       \* verdicts, with the text of a plate
    Known,         \* verifications the manifest begins with: crop to answer
    RecheckEvery,  \* RECHECK_EVERY
    MaxCrashes,    \* bound: kills of the server
    MaxExtra,      \* bound: skips, and crops opened or asked for out of turn
    Skip, Disputed, None

ASSUME ReviewAssumption ==
    /\ IsFiniteSet(Labellers) /\ IsFiniteSet(Crops)
    /\ Crops \subseteq Nat /\ Withheld \subseteq Crops
    /\ DOMAIN Known \subseteq Crops /\ \A c \in DOMAIN Known : Known[c] \in Answers
    /\ Sheets \notin Labellers /\ {Skip, Disputed, None} \cap Answers = {}
    /\ RecheckEvery \in Nat \ {0} /\ MaxCrashes \in Nat /\ MaxExtra \in Nat

VARIABLES
    log,       \* labels.jsonl: each labeller's last readable word on each crop
    torn,      \* whether it ends in a line without its newline
    manifest,  \* per crop: its verified answer, Disputed, or None
    up,        \* whether the server runs
    events,    \* Corpus.events, in the same way
    served,    \* Corpus.served
    pc,        \* each page: "idle", "shown" a crop to answer, or "posted" an answer
    crop,      \* the crop on each card that has yet to be answered
    given,     \* what each labeller is submitting
    word,      \* history: the last answer of each labeller that was acknowledged
    crashes, extra

files  == <<log, torn, manifest>>
server == <<up, events, served>>
page   == <<pc, crop, given>>
vars   == <<files, server, page, word, crashes, extra>>

Everyone == Labellers \cup {Sheets}

Silence == [l \in Everyone |-> [c \in Crops |-> None]]

Init ==
    /\ log = Silence /\ torn = FALSE
    /\ manifest = [c \in Crops |-> IF c \in DOMAIN Known THEN Known[c] ELSE None]
    /\ up = FALSE /\ events = Silence /\ served = [l \in Labellers |-> 0]
    /\ pc = [l \in Labellers |-> "idle"]
    /\ crop = [l \in Labellers |-> None] /\ given = [l \in Labellers |-> None]
    /\ word = [l \in Labellers |-> [c \in Crops |-> None]]
    /\ crashes = 0 /\ extra = 0

-------------------------------------------------------------------------------
(* What the log says                                                        *)

LabelledBy(words, l) == {c \in Crops : words[l][c] # None}

Labelled(words) == UNION {LabelledBy(words, l) : l \in Everyone}

\* Mutant: a labeller's first word on a crop stands.
SaidFirst(words, l, c, a) ==
    IF a = Skip \/ words[l][c] # None THEN words ELSE [words EXCEPT ![l][c] = a]

\* latest_by_labeller, one event later: the last word counts, a skip says nothing.
Said(words, l, c, a) == IF a = Skip THEN words ELSE [words EXCEPT ![l][c] = a]

-------------------------------------------------------------------------------
(* Handing out                                                              *)

\* choose_next hands out the first of these: every so often somebody else's crop,
\* otherwise one nobody has labelled, and a second opinion when there is none left.
Choose(l) ==
    LET rows   == (Crops \ Withheld) \cup Labelled(events)
        mine   == LabelledBy(events, l)
        due    == served[l] > 0 /\ served[l] % RecheckEvery = 0
        others == Labelled(events) \ mine
    IN  IF due /\ others # {} THEN others
        ELSE IF rows \ Labelled(events) # {} THEN rows \ Labelled(events)
        ELSE rows \ mine

HandOut(l) ==
    /\ up /\ Choose(l) # {}
    /\ served' = [served EXCEPT ![l] = @ + 1]
    /\ crop' = [crop EXCEPT ![l] = Min(Choose(l))]
    /\ pc' = [pc EXCEPT ![l] = "shown"]
    /\ UNCHANGED <<files, up, events, given, word, crashes>>

\* advance, after an answer: the page asks /api/next and opens what it is given.
Advance(l) == pc[l] = "idle" /\ HandOut(l) /\ UNCHANGED extra

\* The page asks again before the crop it shows is answered: that counts as served.
AskAgain(l) == pc[l] = "shown" /\ extra < MaxExtra /\ HandOut(l) /\ extra' = extra + 1

\* showAt: any crop, by its place in the table; the queue does not notice.
Open(l, c) ==
    /\ up /\ pc[l] # "posted" /\ extra < MaxExtra
    /\ extra' = extra + 1
    /\ crop' = [crop EXCEPT ![l] = c] /\ pc' = [pc EXCEPT ![l] = "shown"]
    /\ UNCHANGED <<files, server, given, word, crashes>>

-------------------------------------------------------------------------------
(* Labelling                                                                *)

Submit(l, a) ==
    /\ up /\ pc[l] = "shown"
    /\ given' = [given EXCEPT ![l] = a] /\ pc' = [pc EXCEPT ![l] = "posted"]
    /\ UNCHANGED <<files, server, crop, word, crashes>>

Answer(l) == \E a \in Answers : Submit(l, a) /\ UNCHANGED extra

SkipCrop(l) == Submit(l, Skip) /\ extra < MaxExtra /\ extra' = extra + 1

\* The line at the end of the file: after a torn one, it becomes part of it.
Write(l) ==
    /\ log' = IF torn THEN log ELSE Said(log, l, crop[l], given[l])
    /\ torn' = FALSE

\* The reply: the label counts, and the page is ready for the next crop.
Reply(l) ==
    /\ pc' = [pc EXCEPT ![l] = "idle"] /\ crop' = [crop EXCEPT ![l] = None]
    /\ word' = IF given[l] = Skip THEN word ELSE [word EXCEPT ![l][crop[l]] = given[l]]
    /\ given' = [given EXCEPT ![l] = None]

\* Mutant: the line is left in the file object's buffer.
RecordUnflushed(l) ==
    /\ up /\ pc[l] = "posted"
    /\ events' = Said(events, l, crop[l], given[l])
    /\ Reply(l)
    /\ UNCHANGED <<files, up, served, crashes, extra>>

\* Corpus.record, under the lock, and the reply.
Record(l) ==
    /\ up /\ pc[l] = "posted"
    /\ Write(l)
    /\ events' = Said(events, l, crop[l], given[l])
    /\ Reply(l)
    /\ UNCHANGED <<manifest, up, served, crashes, extra>>

-------------------------------------------------------------------------------
(* Starting, being killed, and applying                                     *)

Migrated == LabelledBy(log, Sheets) # {}

\* seed_from_manifest: the crops whose verification becomes an event of Sheets.
Seeds == IF Migrated THEN {} ELSE {c \in Crops : manifest[c] \in Answers}

\* The log with these seeds at its end, the first of them glued to a torn line.
Seeded(S) ==
    LET readable == IF torn /\ S # {} THEN S \ {Min(S)} ELSE S
    IN  [log EXCEPT ![Sheets] =
            [c \in Crops |-> IF c \in readable THEN manifest[c] ELSE log[Sheets][c]]]

\* Mutant: a log with a line that cannot be read is refused.
StartWhole ==
    /\ ~up /\ ~torn
    /\ log' = Seeded(Seeds) /\ UNCHANGED torn
    /\ up' = TRUE /\ events' = log'
    /\ UNCHANGED <<manifest, served, page, word, crashes, extra>>

\* main: seed the log, load it, serve.
Start ==
    /\ ~up
    /\ log' = Seeded(Seeds) /\ torn' = (torn /\ Seeds = {})
    /\ up' = TRUE /\ events' = log'
    /\ UNCHANGED <<manifest, served, page, word, crashes, extra>>

Killed == crashes < MaxCrashes /\ crashes' = crashes + 1

\* Killed while it seeds: some lines are there, the last one perhaps torn.
SeedKilled ==
    /\ ~up /\ Killed
    /\ \E next \in Seeds :
          LET written == {c \in Seeds : c < next}
          IN  log' = Seeded(written) /\ torn' \in {torn /\ written = {}, TRUE}
    /\ UNCHANGED <<manifest, server, page, word, extra>>

\* Killed while it serves: the label being written is lost, torn, or there although
\* nobody was told.  The pages are reloaded.
ServerKilled ==
    /\ up /\ Killed
    /\ \/ UNCHANGED <<log, torn>>
       \/ \E l \in Labellers :
             /\ pc[l] = "posted"
             /\ \/ Write(l)
                \/ UNCHANGED log /\ torn' = TRUE
    /\ up' = FALSE /\ events' = Silence /\ served' = [l \in Labellers |-> 0]
    /\ pc' = [l \in Labellers |-> "idle"]
    /\ crop' = [l \in Labellers |-> None] /\ given' = [l \in Labellers |-> None]
    /\ UNCHANGED <<manifest, word, extra>>

\* What is said of a crop, anchored labels (those of the sheets) with it or not.
Decisions(c, anchored) ==
    {log[l][c] : l \in IF anchored THEN Everyone ELSE Labellers} \ {None}

\* apply_labels: a crop with one answer is verified, one with two is disputed, one
\* with none is left as it is.
Apply(anchored) ==
    /\ manifest' = [c \in Crops |->
          CASE Decisions(c, anchored) = {}             -> manifest[c]
            [] Cardinality(Decisions(c, anchored)) = 1 -> CHOOSE a \in Decisions(c, anchored) : TRUE
            [] OTHER                                   -> Disputed]
    /\ UNCHANGED <<log, torn, server, page, word, crashes, extra>>

-------------------------------------------------------------------------------
Next ==
    \/ \E l \in Labellers : Advance(l) \/ AskAgain(l) \/ Answer(l) \/ SkipCrop(l) \/ Record(l)
    \/ \E l \in Labellers, c \in Crops : Open(l, c)
    \/ Start \/ SeedKilled \/ ServerKilled
    \/ \E anchored \in BOOLEAN : Apply(anchored)

\* The server is started again and serves; the people go on until they are done.
Fairness ==
    /\ WF_vars(Start)
    /\ \A l \in Labellers : WF_vars(Advance(l)) /\ WF_vars(Answer(l)) /\ WF_vars(Record(l))

Spec == Init /\ [][Next]_vars /\ Fairness

-------------------------------------------------------------------------------
(* Properties                                                               *)

\* The values of the files, the server and the pages.
TypeOK ==
    LET Words == [Everyone -> [Crops -> Answers \cup {None}]]
    IN  /\ log \in Words /\ events \in Words
        /\ torn \in BOOLEAN /\ up \in BOOLEAN
        /\ manifest \in [Crops -> Answers \cup {Disputed, None}]
        /\ served \in [Labellers -> Nat]
        /\ pc \in [Labellers -> {"idle", "shown", "posted"}]
        /\ crop \in [Labellers -> Crops \cup {None}]
        /\ given \in [Labellers -> Answers \cup {Skip, None}]
        /\ word \in [Labellers -> [Crops -> Answers \cup {None}]]
        /\ crashes \in 0..MaxCrashes /\ extra \in 0..MaxExtra

\* The labels a restart would not find as they were acknowledged.
Forgotten ==
    {said \in Labellers \X Crops :
        LET l == said[1]
            c == said[2]
        IN  word[l][c] # None /\ log[l][c] # word[l][c]}

\* However people label, change their minds and skip while the server is killed and
\* started again, a kill costs at most one acknowledged label: the one that is glued
\* to the line the kill has torn.
LabelsKept == Cardinality(Forgotten) <= crashes

\* "Disagreements are not silently resolved": as long as nothing was killed, a crop
\* is only ever turned into verified when that is everybody's last word on it, and
\* into disputed when it is not, in whatever order they answered and corrected.
DisputesStand ==
    [][\A c \in Crops :
          LET words == {word[l][c] : l \in Labellers} \ {None}
          IN  manifest'[c] # manifest[c] /\ crashes = 0 =>
                 IF manifest'[c] = Disputed
                 THEN Cardinality(words \cup (IF Migrated THEN {Known[d] : d \in DOMAIN Known \cap {c}}
                                              ELSE {})) > 1
                 ELSE words = {manifest'[c]}]_vars

\* With people who go on, every crop the queue serves is labelled in the end, through
\* re-checks, skips, kills and labels that were lost.
QueueDrains == <>[](up /\ Crops \ Withheld \subseteq Labelled(events))

\* review_server.py:47-49, as it stands: "A click during a crash therefore costs at
\* most itself".  The label after it is lost too, although it was acknowledged.
CostsItself ==
    \A l \in Labellers, c \in Crops : word[l][c] # None => log[l][c] # None

\* review_server.py:338-353, as it stands: verifications from before this tool become
\* events "once".  Without any, what reviewers labelled and somebody applied is seeded
\* at the next start: a second labeller who agrees with them.
OpinionsAreGiven == LabelledBy(log, Sheets) \subseteq DOMAIN Known
===============================================================================
