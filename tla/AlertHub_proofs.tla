---------------------------- MODULE AlertHub_proofs ----------------------------
(***************************************************************************)
(* The push sends no alert twice to a socket and passes over none that was *)
(* there to be found, unless a query cut it off from others of its time,   *)
(* for any number of alerts, batches and sockets and any limit.  Both      *)
(* follow from one inductive invariant: what was sent is behind the        *)
(* cursor, what is being sent has not been, and what is due and not among  *)
(* the rows of an answered query is later than all of them.                *)
(***************************************************************************)
EXTENDS AlertHub, TLAPS

\* Whether the cursor has passed the time of a.
Behind(a) == cursor # None /\ raised[a] # None /\ raised[a] <= cursor

\* Alerts that a console is owed or may be sent are committed, and have a time.
Timed ==
    /\ \A batch \in running : \A a \in batch : raised[a] # None
    /\ \A a \in visible : raised[a] # None
    /\ \A s \in Sockets, a \in Alerts : <<s, a>> \in due => a \in visible

\* A console that is there is a client; rows are in hand from the query to the last
\* send, and an audience only while they are sent.
Connected ==
    /\ open \subseteq clients
    /\ due \subseteq open \X Alerts /\ sent \subseteq open \X Alerts
    /\ pump # "sending" => audience = {}

\* The cursor has yet to move past the rows of an answered query, and what is due
\* and not among them is later than all of them.
RowsFirst ==
    pump = "answered" =>
        /\ \A a \in fresh : a \in visible /\ Ahead(a)
        /\ \A s \in Sockets, a \in Alerts :
              <<s, a>> \in due /\ Ahead(a) /\ a \notin fresh \cup cut
                  => \A b \in fresh : raised[b] < raised[a]

\* What has been sent, or is about to be, is behind the cursor.
SentBehind ==
    /\ pump = "sending" => \A a \in fresh : Behind(a)
    /\ \A s \in Sockets, a \in Alerts : <<s, a>> \in sent => Behind(a)

\* What is about to be sent has not been.
SentOnce == \A s \in audience, a \in fresh : <<s, a>> \notin sent

IInv ==
    /\ TypeOK
    /\ Timed
    /\ Connected
    /\ RowsFirst
    /\ SentBehind
    /\ SentOnce
    /\ PushedOnce
    /\ NoneSkipped

-------------------------------------------------------------------------------
LEMMA InitInv == Init => IInv
<1> SUFFICES ASSUME Init PROVE IInv
  OBVIOUS
<1> USE HubAssumption DEF Init
<1>1. TypeOK
  BY DEF TypeOK
<1>2. Timed /\ Connected /\ RowsFirst /\ SentBehind /\ SentOnce
  BY DEF Timed, Connected, RowsFirst, SentBehind, SentOnce
<1>3. PushedOnce /\ NoneSkipped
  BY DEF PushedOnce, NoneSkipped
<1>4. QED
  BY <1>1, <1>2, <1>3 DEF IInv

\* An alert behind the cursor is not ahead of it.
LEMMA EitherSide ==
    ASSUME TypeOK, NEW a \in Alerts, Behind(a)
    PROVE  ~Ahead(a)
  BY HubAssumption DEF TypeOK, Behind, Ahead

-------------------------------------------------------------------------------
(* The transactions                                                         *)

\* Alerts that had no time get one; nobody is owed them.
LEMMA BeginInv ==
    ASSUME IInv, NEW batch \in SUBSET Alerts, Begin(batch)
    PROVE  IInv'
<1> USE HubAssumption DEF IInv, Begin, task, history
<1>1. clock' \in Nat /\ clock' # None
  BY DEF TypeOK
<1>2. \A a \in Alerts : raised[a] # None => raised'[a] = raised[a]
  OBVIOUS
<1>3. \A a \in batch : raised'[a] = clock'
  OBVIOUS
<1>4. TypeOK'
  BY <1>1 DEF TypeOK
<1>5. Timed'
  BY <1>1, <1>2, <1>3 DEF TypeOK, Timed
<1>6. Connected' /\ SentOnce' /\ PushedOnce'
  BY DEF Connected, SentOnce, PushedOnce
<1>7. \A a \in Alerts : Behind(a) => Behind(a)'
  BY <1>2 DEF Behind
<1>8. SentBehind'
  BY <1>7 DEF TypeOK, SentBehind
<1>9. \A a \in visible : raised'[a] = raised[a] /\ (Ahead(a)' <=> Ahead(a))
  BY <1>2 DEF TypeOK, Timed, Ahead
<1>10. RowsFirst'
  BY <1>9 DEF TypeOK, Timed, RowsFirst
<1>11. NoneSkipped'
  BY <1>9 DEF Timed, NoneSkipped
<1>12. QED
  BY <1>4, <1>5, <1>6, <1>8, <1>10, <1>11

\* What becomes due is ahead of the cursor, and not while a query is answered.
LEMMA CommitInv ==
    ASSUME IInv, NEW batch \in SUBSET Alerts, Commit(batch)
    PROVE  IInv'
<1> USE DEF IInv, Commit, task
<1>1. \A a : (Ahead(a)' <=> Ahead(a)) /\ (Behind(a)' <=> Behind(a))
  BY DEF Ahead, Behind
<1>2. \A s \in Sockets, a \in Alerts :
         <<s, a>> \in due' =>
             \/ <<s, a>> \in due
             \/ pump # "answered" /\ s \in open /\ a \in batch /\ Ahead(a)
  OBVIOUS
<1>3. TypeOK'
  BY DEF TypeOK, Connected
<1>4. Timed'
  BY <1>2 DEF Timed
<1>5. Connected'
  BY DEF Connected, TypeOK
<1>6. RowsFirst'
  BY <1>1, <1>2 DEF RowsFirst
<1>7. SentBehind' /\ SentOnce' /\ PushedOnce'
  BY <1>1 DEF SentBehind, SentOnce, PushedOnce
<1>8. NoneSkipped'
  BY <1>1, <1>2 DEF NoneSkipped
<1>9. QED
  BY <1>3, <1>4, <1>5, <1>6, <1>7, <1>8

LEMMA RollbackInv ==
    ASSUME IInv, NEW batch \in SUBSET Alerts, Rollback(batch)
    PROVE  IInv'
<1> USE DEF IInv, Rollback, task, history
<1>1. TypeOK' /\ Timed' /\ Connected' /\ SentOnce' /\ PushedOnce'
  BY DEF TypeOK, Timed, Connected, SentOnce, PushedOnce
<1>2. RowsFirst' /\ SentBehind' /\ NoneSkipped'
  BY DEF RowsFirst, SentBehind, Behind, NoneSkipped, Ahead
<1>3. QED
  BY <1>1, <1>2

-------------------------------------------------------------------------------
(* The pump                                                                 *)

\* Without a cursor nothing is due that has not been sent, and nothing has been sent.
LEMMA StartInv ==
    ASSUME IInv, Start
    PROVE  IInv'
<1> USE HubAssumption DEF IInv, Start, Loop, table, history
<1>1. TypeOK'
  BY DEF TypeOK
<1>2. Timed' /\ SentOnce' /\ PushedOnce'
  BY DEF Timed, SentOnce, PushedOnce
<1>3. Connected' /\ RowsFirst'
  BY DEF Connected, RowsFirst
<1>4. \A a \in Alerts : Behind(a) => Behind(a)'
  BY DEF Behind
<1>5. SentBehind'
  BY <1>4 DEF TypeOK, SentBehind
<1>6. NoneSkipped'
  BY DEF Connected, NoneSkipped, Ahead
<1>7. QED
  BY <1>1, <1>2, <1>3, <1>5, <1>6

\* Nor does a pump that ends, or a query that fails or finds nothing, move anything.
LEMMA IdleInv ==
    ASSUME IInv, StartFails \/ QueryFails \/ NothingFresh
    PROVE  IInv'
<1> USE DEF IInv, StartFails, QueryFails, NothingFresh, Loop, table, history
<1>1. TypeOK' /\ Timed' /\ SentOnce' /\ PushedOnce'
  BY DEF TypeOK, Timed, SentOnce, PushedOnce
<1>2. Connected' /\ RowsFirst'
  BY DEF Connected, RowsFirst
<1>3. SentBehind' /\ NoneSkipped'
  BY DEF SentBehind, Behind, NoneSkipped, Ahead
<1>4. QED
  BY <1>1, <1>2, <1>3

\* The rows are the earliest beyond the cursor: what is left out and has the time of
\* one of them is cut, and the rest is later.
LEMMA QueryInv ==
    ASSUME IInv, Query
    PROVE  IInv'
<1> USE HubAssumption DEF IInv, Query, table
<1>1. PICK rows \in SUBSET Beyond :
         /\ Since(rows) /\ fresh' = rows
         /\ cut' = cut \cup {a \in Beyond \ rows : \E b \in rows : raised[b] = raised[a]}
  BY DEF Query
<1>2. Beyond \subseteq visible /\ Beyond \subseteq Alerts /\ \A a \in Beyond : Ahead(a)
  BY DEF Beyond, TypeOK
<1>3. \A a \in Alerts : (Ahead(a)' <=> Ahead(a)) /\ (Behind(a)' <=> Behind(a))
  BY DEF Ahead, Behind
<1>4. \A s \in Sockets, a \in Alerts : <<s, a>> \in due' => <<s, a>> \in due \/ a \in Beyond
  OBVIOUS
<1>5. TypeOK'
  BY <1>1, <1>2 DEF TypeOK, Connected
<1>6. Timed'
  BY <1>2, <1>4 DEF Timed
<1>7. Connected'
  BY <1>2 DEF Connected
<1>8. SentBehind' /\ SentOnce' /\ PushedOnce'
  BY <1>3 DEF SentBehind, SentOnce, PushedOnce, Connected
<1>9. RowsFirst'
  <2>1. \A a \in fresh' : a \in visible' /\ Ahead(a)'
    BY <1>1, <1>2, <1>3
  <2>2. ASSUME NEW s \in Sockets, NEW a \in Alerts, <<s, a>> \in due', Ahead(a)',
               a \notin fresh' \cup cut', NEW b \in fresh'
        PROVE  raised'[b] < raised'[a]
    <3>1. a \in Beyond \ rows
      BY <1>1, <1>3, <1>4, <2>2 DEF Beyond, Timed
    <3>2. raised[b] <= raised[a] /\ raised[b] # raised[a]
      BY <1>1, <2>2, <3>1 DEF Since
    <3>3. raised[a] \in Nat /\ raised[b] \in Nat
      BY <1>1, <1>2, <2>2, <3>1 DEF TypeOK, Timed
    <3>4. QED
      BY <3>2, <3>3
  <2>3. QED
    BY <2>1, <2>2 DEF RowsFirst
<1>10. NoneSkipped'
  BY <1>1, <1>2, <1>3, <1>4 DEF NoneSkipped, Connected
<1>11. QED
  BY <1>5, <1>6, <1>7, <1>8, <1>9, <1>10

\* The cursor moves to the latest of the rows: the rows fall behind it and are
\* about to be sent, and what else is due is later, or cut.
LEMMA DeliverInv ==
    ASSUME IInv, Deliver
    PROVE  IInv'
<1> USE HubAssumption DEF IInv, Deliver, table, history
<1>1. PICK top \in fresh : cursor' = raised[top] /\ \A b \in fresh : raised[b] <= raised[top]
  BY DEF Advance
<1>2. /\ fresh \subseteq visible /\ fresh \subseteq Alerts /\ \A b \in fresh : Ahead(b)
      /\ \A b \in fresh : raised[b] \in Nat
  BY DEF RowsFirst, TypeOK, Timed
<1>3. cursor \in Nat /\ cursor' \in Nat /\ cursor < cursor'
  BY <1>1, <1>2 DEF Ahead, TypeOK
<1>4. TypeOK'
  BY <1>2, <1>3 DEF TypeOK
<1>5. Timed' /\ PushedOnce' /\ RowsFirst'
  BY DEF Timed, PushedOnce, RowsFirst
<1>6. Connected'
  BY DEF Connected
<1>7. \A b \in Alerts : Behind(b) => Behind(b)'
  BY <1>3 DEF Behind, TypeOK
<1>8. \A b \in fresh : Behind(b)'
  BY <1>1, <1>2, <1>3 DEF Behind
<1>9. SentBehind'
  BY <1>7, <1>8 DEF SentBehind
<1>10. SentOnce'
  <2> SUFFICES ASSUME NEW s \in clients, NEW a \in fresh, <<s, a>> \in sent
               PROVE  FALSE
    BY DEF SentOnce
  <2>1. Behind(a)
    BY <1>2 DEF SentBehind, TypeOK
  <2>2. QED
    BY <1>2, <2>1, EitherSide
<1>11. NoneSkipped'
  <2> SUFFICES ASSUME NEW s \in Sockets, NEW a \in Alerts, <<s, a>> \in due,
                      a \notin cut, <<s, a>> \notin sent
               PROVE  Ahead(a)' \/ (s \in audience' /\ a \in fresh')
    BY DEF NoneSkipped
  <2>1. s \in clients /\ audience = {}
    BY DEF Connected
  <2>2. Ahead(a)
    BY <2>1 DEF NoneSkipped
  <2>3. CASE a \in fresh
    BY <2>1, <2>3
  <2>4. CASE a \notin fresh
    <3>1. raised[top] < raised[a]
      BY <2>2, <2>4 DEF RowsFirst
    <3>2. QED
      BY <1>1, <1>3, <3>1 DEF Ahead
  <2>5. QED
    BY <2>3, <2>4
<1>12. QED
  BY <1>4, <1>5, <1>6, <1>9, <1>10, <1>11

LEMMA SendInv ==
    ASSUME IInv, NEW s \in Sockets, Send(s)
    PROVE  IInv'
<1> USE DEF IInv, Send, Served, Loop, table
<1>1. \A a \in fresh : <<s, a>> \notin sent
  BY DEF SentOnce
<1>2. PushedOnce'
  BY <1>1 DEF PushedOnce
<1>3. TypeOK'
  BY DEF TypeOK
<1>4. Timed' /\ RowsFirst'
  BY DEF Timed, RowsFirst
<1>5. Connected'
  BY DEF Connected, TypeOK
<1>6. \A a : Behind(a)' <=> Behind(a)
  BY DEF Behind
<1>7. SentBehind'
  BY <1>6 DEF SentBehind
<1>8. SentOnce'
  BY DEF SentOnce
<1>9. NoneSkipped'
  BY DEF NoneSkipped, Ahead
<1>10. QED
  BY <1>2, <1>3, <1>4, <1>5, <1>7, <1>8, <1>9

LEMMA SendLostInv ==
    ASSUME IInv, NEW s \in Sockets, SendLost(s)
    PROVE  IInv'
<1> USE DEF IInv, SendLost, Served, Loop, table, history
<1>1. TypeOK'
  BY DEF TypeOK
<1>2. Timed' /\ RowsFirst' /\ PushedOnce'
  BY DEF Timed, RowsFirst, PushedOnce
<1>3. Connected'
  BY DEF Connected
<1>4. \A a : Behind(a)' <=> Behind(a)
  BY DEF Behind
<1>5. SentBehind'
  BY <1>4 DEF SentBehind
<1>6. SentOnce'
  BY DEF SentOnce
<1>7. NoneSkipped'
  BY DEF NoneSkipped, Ahead, Connected
<1>8. QED
  BY <1>1, <1>2, <1>3, <1>5, <1>6, <1>7

-------------------------------------------------------------------------------
(* Sockets                                                                  *)

\* A new socket is owed what the answered query has found, or what the next will.
LEMMA JoinInv ==
    ASSUME IInv, NEW s \in Sockets, Join(s)
    PROVE  IInv'
<1> USE DEF IInv, Join, table
<1>1. \A a : (Ahead(a)' <=> Ahead(a)) /\ (Behind(a)' <=> Behind(a))
  BY DEF Ahead, Behind
<1>2. \A t \in Sockets, a \in Alerts :
         <<t, a>> \in due' =>
             \/ <<t, a>> \in due
             \/ pump = "answered" /\ a \in fresh
             \/ pump # "answered" /\ a \in Beyond
  OBVIOUS
<1>3. \A a \in Beyond : a \in visible /\ Ahead(a)
  BY DEF Beyond
<1>4. TypeOK'
  BY DEF TypeOK, Beyond
<1>5. Timed'
  BY <1>2, <1>3 DEF Timed, RowsFirst
<1>6. Connected'
  BY DEF Connected, TypeOK, Beyond
<1>7. RowsFirst'
  BY <1>1, <1>2 DEF RowsFirst
<1>8. SentBehind' /\ SentOnce' /\ PushedOnce'
  BY <1>1 DEF SentBehind, SentOnce, PushedOnce
<1>9. NoneSkipped'
  BY <1>1, <1>2, <1>3 DEF NoneSkipped, RowsFirst
<1>10. QED
  BY <1>4, <1>5, <1>6, <1>7, <1>8, <1>9

\* What a console that went away was owed or sent is forgotten.
LEMMA DropInv ==
    ASSUME IInv, NEW s \in Sockets, Drop(s)
    PROVE  IInv'
<1> USE DEF IInv, Drop, table, task
<1>1. TypeOK' /\ Timed' /\ SentOnce' /\ PushedOnce'
  BY DEF TypeOK, Timed, SentOnce, PushedOnce
<1>2. Connected'
  BY DEF Connected
<1>3. RowsFirst' /\ SentBehind' /\ NoneSkipped'
  BY DEF RowsFirst, SentBehind, Behind, NoneSkipped, Ahead
<1>4. QED
  BY <1>1, <1>2, <1>3

LEMMA LeaveInv ==
    ASSUME IInv, NEW s \in Sockets, Leave(s)
    PROVE  IInv'
<1> USE DEF IInv, Leave, table, task, history
<1>1. TypeOK' /\ Timed' /\ Connected' /\ SentOnce' /\ PushedOnce'
  BY DEF TypeOK, Timed, Connected, SentOnce, PushedOnce
<1>2. RowsFirst' /\ SentBehind' /\ NoneSkipped'
  BY DEF RowsFirst, SentBehind, Behind, NoneSkipped, Ahead
<1>3. QED
  BY <1>1, <1>2

\* A new process knows no sockets and no cursor.
LEMMA RestartInv ==
    ASSUME IInv, Restart
    PROVE  IInv'
<1> USE DEF IInv, Restart, table
<1>1. TypeOK' /\ Timed' /\ Connected' /\ SentOnce' /\ PushedOnce'
  BY DEF TypeOK, Timed, Connected, SentOnce, PushedOnce
<1>2. RowsFirst' /\ SentBehind' /\ NoneSkipped'
  BY DEF RowsFirst, SentBehind, NoneSkipped
<1>3. QED
  BY <1>1, <1>2

-------------------------------------------------------------------------------
LEMMA StutterInv == IInv /\ UNCHANGED vars => IInv'
<1> SUFFICES ASSUME IInv, UNCHANGED vars PROVE IInv'
  OBVIOUS
<1> USE DEF IInv, vars, table, task, history
<1>1. TypeOK' /\ Timed' /\ Connected' /\ SentOnce' /\ PushedOnce'
  BY DEF TypeOK, Timed, Connected, SentOnce, PushedOnce
<1>2. RowsFirst' /\ SentBehind' /\ NoneSkipped'
  BY DEF RowsFirst, SentBehind, Behind, NoneSkipped, Ahead
<1>3. QED
  BY <1>1, <1>2

LEMMA NextInv == IInv /\ [Next]_vars => IInv'
<1> SUFFICES ASSUME IInv, [Next]_vars PROVE IInv'
  OBVIOUS
<1>1. CASE Raise
  BY <1>1, BeginInv, CommitInv, RollbackInv DEF Raise
<1>2. CASE Query
  BY <1>2, QueryInv
<1>3. CASE Pumping
  BY <1>3, StartInv, IdleInv, DeliverInv, SendInv, SendLostInv DEF Pumping, Sends
<1>4. CASE Connections
  BY <1>4, JoinInv, DropInv, LeaveInv DEF Connections
<1>5. CASE Restart
  BY <1>5, RestartInv
<1>6. CASE UNCHANGED vars
  BY <1>6, StutterInv
<1>7. QED
  BY <1>1, <1>2, <1>3, <1>4, <1>5, <1>6 DEF Next

\* The inductive invariant of the hub.
THEOREM HubInvariant == Spec => []IInv
<1>1. QED
  BY InitInv, NextInv, PTL DEF Spec

\* The table, the pump and the sockets keep their types.
THEOREM HubTyped == Spec => []TypeOK
<1>1. IInv => TypeOK
  BY DEF IInv
<1>2. QED
  BY <1>1, HubInvariant, PTL

\* PushedOnce: no socket is sent an alert twice, whatever the limit of the query, the
\* number of rounds and the order in which sockets come and go.
THEOREM NothingPushedTwice == Spec => []PushedOnce
<1>1. IInv => PushedOnce
  BY DEF IInv
<1>2. QED
  BY <1>1, HubInvariant, PTL

\* NoneSkipped: an alert that was there to be found is found, sent or about to be, or
\* cut off by the limit from alerts of its time: the pump's query, cursor and sends,
\* with anything between them, lose no other.
THEOREM CursorSkipsNone == Spec => []NoneSkipped
<1>1. IInv => NoneSkipped
  BY DEF IInv
<1>2. QED
  BY <1>1, HubInvariant, PTL
===============================================================================
