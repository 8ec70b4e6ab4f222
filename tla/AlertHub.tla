------------------------------- MODULE AlertHub -------------------------------
(***************************************************************************)
(* The live push of alerts: the transactions that raise them, the hub of   *)
(* the API process that polls the table and fans new rows out (AlertHub in *)
(* services/api/routers/alerts.py), and the sockets of the consoles.  A    *)
(* console that reconnects (web/src/AlertConsole.tsx) is another socket.   *)
(*                                                                         *)
(* raised_at is now(), the start of the transaction, to the microsecond:   *)
(* the alerts of a batch have one time, two batches may have the same, and *)
(* alerts may become visible in another order than their times.  The hub   *)
(* is one event loop: its clients change only where the pump awaits, which *)
(* is the sleep, the query, done in a thread, and every send.              *)
(***************************************************************************)
EXTENDS Integers, FiniteSets

CONSTANTS
    Alerts,    \* the alerts a behaviour may raise
    Sockets,   \* the sockets that may be connected at once
    Limit,     \* LIMIT of the poll
    None       \* no cursor, no time

ASSUME HubAssumption ==
    /\ IsFiniteSet(Alerts) /\ Limit \in Nat \ {0}
    /\ None \notin Nat

VARIABLES
    clock,      \* now() of the database
    raised,     \* raised_at, or None before the transaction starts
    running,    \* the open transactions, each the alerts of its batch
    visible,    \* the alerts that are committed
    clients,    \* hub._clients
    pump,       \* hub._task: "none", "starting", "waiting" for the next query,
                \* "answered" by the database, or "sending"
    cursor,     \* hub._cursor
    fresh,      \* the rows of the query, until they are sent
    audience,   \* the sockets of list(self._clients) still to be sent to
    open,       \* sockets whose console is there
    due,        \* history: pairs <<socket, alert>> a query was to find
    cut,        \* history: alerts a query left out although it returned their time
    sent,       \* history: pairs <<socket, alert>> sent, of consoles still there
    again       \* history: some pair has been sent twice

table   == <<clock, raised, running, visible>>
task    == <<pump, cursor, fresh, audience>>
history == <<due, cut, sent, again>>
vars    == <<table, clients, task, open, history>>

Init ==
    /\ clock = 0 /\ raised = [a \in Alerts |-> None] /\ running = {} /\ visible = {}
    /\ clients = {}
    /\ pump = "none" /\ cursor = None /\ fresh = {} /\ audience = {}
    /\ open = {}
    /\ due = {} /\ cut = {} /\ sent = {} /\ again = FALSE

-------------------------------------------------------------------------------
(* The transactions that raise alerts                                       *)

\* The first statement of a batch that will raise these alerts.
Begin(batch) ==
    /\ batch # {} /\ \A a \in batch : raised[a] = None
    /\ clock' \in {clock, clock + 1}
    /\ raised' = [a \in Alerts |-> IF a \in batch THEN clock' ELSE raised[a]]
    /\ running' = running \cup {batch}
    /\ UNCHANGED <<visible, clients, task, open, history>>

\* The alert is beyond the cursor: the next query finds it.
Ahead(a) == cursor # None /\ raised[a] > cursor

\* An alert is due to the consoles once it is there to be found, unless a query has
\* been answered whose rows the cursor has yet to move past.
Commit(batch) ==
    /\ batch \in running
    /\ running' = running \ {batch} /\ visible' = visible \cup batch
    /\ due' = IF pump = "answered" THEN due
              ELSE due \cup open \X {a \in batch : Ahead(a)}
    /\ UNCHANGED <<clock, raised, clients, task, open, cut, sent, again>>

Rollback(batch) ==
    /\ batch \in running
    /\ running' = running \ {batch}
    /\ UNCHANGED <<clock, raised, visible, clients, task, open, history>>

-------------------------------------------------------------------------------
(* The pump                                                                 *)

\* Mutant: a pump ends after one round.
LoopOnce(cs) == pump' = "none"

\* Head of the loop: the pump ends when nobody is connected.
Loop(cs) == pump' = IF cs = {} THEN "none" ELSE "waiting"

\* The first pump of the process starts from now, a later one where the last
\* ended.
Start ==
    /\ pump = "starting"
    /\ cursor' = IF cursor = None THEN clock ELSE cursor
    /\ Loop(clients)
    /\ UNCHANGED <<table, clients, fresh, audience, open, history>>

\* The query for now() is outside the try: its failure ends the task.
StartFails ==
    /\ pump = "starting" /\ cursor = None
    /\ pump' = "none"
    /\ UNCHANGED <<table, clients, cursor, fresh, audience, open, history>>

Beyond == {a \in visible : Ahead(a)}

\* Mutant: the poll has a limit and no order.
SinceUnordered(rows) ==
    rows \subseteq Beyond /\ (rows = Beyond \/ Cardinality(rows) = Limit)

\* _since: the oldest rows beyond the cursor, up to the limit.
Since(rows) ==
    /\ rows \subseteq Beyond /\ Cardinality(rows) <= Limit
    /\ rows # Beyond => Cardinality(rows) = Limit
    /\ \A a \in rows, b \in Beyond \ rows : raised[a] <= raised[b]

\* The thread's query is answered; while its rows are on their way to the event
\* loop, transactions commit and sockets come and go.
Query ==
    /\ pump = "waiting" /\ pump' = "answered"
    /\ \E rows \in SUBSET Beyond :
          /\ Since(rows) /\ fresh' = rows
          /\ cut' = cut \cup {a \in Beyond \ rows : \E b \in rows : raised[b] = raised[a]}
    /\ due' = due \cup open \X Beyond
    /\ UNCHANGED <<table, clients, cursor, audience, open, sent, again>>

\* The query fails.
QueryFails ==
    /\ pump = "waiting"
    /\ Loop(clients)
    /\ UNCHANGED <<table, clients, cursor, fresh, audience, open, history>>

NothingFresh ==
    /\ pump = "answered" /\ fresh = {}
    /\ Loop(clients)
    /\ UNCHANGED <<table, clients, cursor, fresh, audience, open, history>>

\* Mutant: the cursor moves once everybody has been sent to.
AdvanceLater(rows) == cursor' = cursor

Advance(rows) == \E a \in rows : cursor' = raised[a] /\ \A b \in rows : raised[b] <= raised[a]

\* The cursor moves before anyone is sent to.
Deliver ==
    /\ pump = "answered" /\ fresh # {}
    /\ Advance(fresh)
    /\ audience' = clients
    /\ IF clients = {} THEN pump' = "none" /\ fresh' = {}
       ELSE pump' = "sending" /\ fresh' = fresh
    /\ UNCHANGED <<table, clients, open, history>>

\* The audience after s, and the end of the round.
Served(s) ==
    /\ audience' = audience \ {s}
    /\ IF audience' = {} THEN Loop(clients') /\ fresh' = {} ELSE UNCHANGED <<pump, fresh>>

\* send_json to a console that is there.
Send(s) ==
    /\ pump = "sending" /\ s \in audience /\ s \in open
    /\ sent' = sent \cup {s} \X fresh
    /\ again' = (again \/ \E a \in fresh : <<s, a>> \in sent)
    /\ clients' = clients
    /\ Served(s)
    /\ UNCHANGED <<table, cursor, open, due, cut>>

\* send_json to one that is gone: it raises, or the bytes go nowhere.
SendLost(s) ==
    /\ pump = "sending" /\ s \in audience \ open
    /\ clients' \in {clients, clients \ {s}}
    /\ Served(s)
    /\ UNCHANGED <<table, cursor, open, history>>

-------------------------------------------------------------------------------
(* Sockets                                                                  *)

\* join, which starts a pump if there is none.
Join(s) ==
    /\ s \notin open \cup clients \cup audience
    /\ open' = open \cup {s} /\ clients' = clients \cup {s}
    /\ pump' = IF pump = "none" THEN "starting" ELSE pump
    /\ due' = due \cup {s} \X (IF pump = "answered" THEN fresh ELSE Beyond)
    /\ UNCHANGED <<table, cursor, fresh, audience, cut, sent, again>>

\* The console goes away or its connection breaks ...
Drop(s) ==
    /\ s \in open
    /\ open' = open \ {s}
    /\ due' = due \ ({s} \X Alerts) /\ sent' = sent \ ({s} \X Alerts)
    /\ UNCHANGED <<table, clients, task, cut, again>>

\* ... and live_alerts notices, in time or not.
Leave(s) ==
    /\ s \in clients \ open
    /\ clients' = clients \ {s}
    /\ UNCHANGED <<table, task, open, history>>

\* The API process ends and another takes its place.
Restart ==
    /\ open' = {} /\ clients' = {}
    /\ pump' = "none" /\ cursor' = None /\ fresh' = {} /\ audience' = {}
    /\ due' = {} /\ sent' = {}
    /\ UNCHANGED <<table, cut, again>>

-------------------------------------------------------------------------------
Raise == \E batch \in SUBSET Alerts : Begin(batch) \/ Commit(batch) \/ Rollback(batch)

Sends == \E s \in Sockets : Send(s) \/ SendLost(s)

Pumping == Start \/ StartFails \/ QueryFails \/ NothingFresh \/ Deliver \/ Sends

Connections == \E s \in Sockets : Join(s) \/ Drop(s) \/ Leave(s)

Next == Raise \/ Query \/ Pumping \/ Connections \/ Restart

\* The event loop goes on, and not every query fails from some point on.
Spec == Init /\ [][Next]_vars /\ WF_vars(Pumping) /\ SF_vars(Query)

-------------------------------------------------------------------------------
(* Properties                                                               *)

\* The values of the table, the hub and the sockets.
TypeOK ==
    /\ clock \in Nat /\ raised \in [Alerts -> Nat \cup {None}]
    /\ running \subseteq SUBSET Alerts /\ visible \subseteq Alerts
    /\ clients \subseteq Sockets /\ audience \subseteq Sockets
    /\ pump \in {"none", "starting", "waiting", "answered", "sending"}
    /\ cursor \in Nat \cup {None} /\ fresh \subseteq Alerts
    /\ open \subseteq Sockets
    /\ due \subseteq Sockets \X Alerts /\ sent \subseteq Sockets \X Alerts
    /\ cut \subseteq Alerts /\ again \in BOOLEAN

\* However rounds, joins, leaves and rolled-back or late transactions interleave,
\* and whichever alerts a limited query leaves for the next: no socket is sent an
\* alert twice.
PushedOnce == ~again

\* What the hub may pass over.  An alert that was there to be found while a socket
\* was connected - committed beyond the cursor with no query's answer on its way,
\* or seen by a query - is found by a query to come, sent, about to be sent, or cut
\* off by LIMIT from alerts raised at the same time as it: no order of commits,
\* queries, joins and dropped sockets loses another one.
NoneSkipped ==
    \A s \in Sockets, a \in Alerts :
        <<s, a>> \in due
            => \/ Ahead(a) \/ a \in cut
               \/ <<s, a>> \in sent \/ (s \in audience /\ a \in fresh)

\* alerts.py:3-6, the push of it: such an alert reaches the console unless its
\* socket drops, whatever other sockets do, and however many queries fail.
PushReaches ==
    \A s \in Sockets, a \in Alerts :
        <<s, a>> \in due ~> <<s, a>> \in sent \/ s \notin open \/ a \in cut

-------------------------------------------------------------------------------
(* What the code's comments say, and it does not do (README, section 4)     *)

\* alerts.py:3-6 of every alert: "must cause the next sighting of it to raise an
\* alert on screen".  One whose transaction is still running when the cursor passes
\* its time is never pushed.
NothingMissed == \A batch \in running : \A a \in batch : cursor # None => Ahead(a)

\* The same of an alert that is committed: one that commits between a query and the
\* move of the cursor is passed over although every console was connected.
NothingPassed ==
    [][\A a \in visible \ cut : Ahead(a) /\ pump' = "sending" => Ahead(a)' \/ a \in fresh']_vars

\* alerts.py:3-6: and no query loses one.
NothingCut == cut = {}

\* alerts.py:313: "a blip must not kill the pump".  One that hits its first query
\* does, and the consoles there are pushed nothing until another one connects.
PumpOutlivesBlips == clients # {} => pump # "none"
===============================================================================
