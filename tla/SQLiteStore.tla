---------------------------- MODULE SQLiteStore ----------------------------
(***************************************************************************)
(* pkg/store/sqlite: the store over one SQLite connection.                 *)
(*                                                                         *)
(* SetMaxOpenConns(1) makes database/sql queue every call for the one      *)
(* connection. A statement runs with it; a query that lists rows keeps it  *)
(* from one rows.Next to the next, until rows.Close. The tables are in a   *)
(* file: a restart finds them, and CREATE TABLE IF NOT EXISTS leaves them. *)
(***************************************************************************)
CONSTANTS Callers, Calls, Rows, Values, Done, Error, None

VARIABLES
    rows,     \* the tables in the file
    open,     \* db is not closed
    conn,     \* the goroutine that has the connection
    pc,       \* where each goroutine is in its call
    call,     \* the call it is in
    answer,   \* what it is about to return
    todo,     \* the rows its listing has still to read
    seen      \* what its listing has read

pool == <<open, conn>>
scan == <<todo, seen>>

vars == <<rows, open, conn, pc, call, answer, todo, seen>>

\* What callers are promised.
Promise == INSTANCE KVStore WITH Faults <- TRUE, Persistent <- TRUE

ASSUME CallAssumption ==
    /\ Rows \subseteq (DOMAIN Promise!Offers) \X {r[2] : r \in Rows}
    /\ Calls \subseteq Promise!Call

ASSUME NoneAssumption ==
    /\ None \notin Values /\ None \notin Calls /\ None \notin Callers
    /\ \A a \in Promise!Answer : a # None

\* Values of the Go types; and the connection is out exactly with the goroutine
\* whose statement runs, so that no path through a method leaks it.
TypeOK ==
    /\ rows \in [Rows -> Values \cup {None}]
    /\ open \in BOOLEAN
    /\ conn \in Callers \cup {None}
    /\ pc \in [Callers -> {"idle", "waiting", "running", "scanning", "returning"}]
    /\ call \in [Callers -> {None} \cup Calls]
    /\ answer \in [Callers -> {None} \cup Promise!Answer]
    /\ todo \in [Callers -> SUBSET Rows]
    /\ seen \in [Callers -> SUBSET (Rows \X Values)]
    /\ \A w \in Callers :
        /\ pc[w] \in {"running", "scanning"} <=> conn = w
        /\ pc[w] = "idle" <=> call[w] = None
        /\ pc[w] = "returning" <=> answer[w] # None

Everyone(x) == [w \in Callers |-> x]

Init ==
    /\ rows = [r \in Rows |-> None]
    /\ open = TRUE /\ conn = None
    /\ pc = Everyone("idle") /\ call = Everyone(None) /\ answer = Everyone(None)
    /\ todo = Everyone({}) /\ seen = Everyone({})

Op(w, op) == pc[w] = "running" /\ call[w].op = op

Goto(w, l) == pc' = [pc EXCEPT ![w] = l]

Finish(w, a) ==
    /\ Goto(w, "returning")
    /\ answer' = [answer EXCEPT ![w] = a]
    /\ UNCHANGED <<call, scan>>

\* Mutant: rows.Close is not deferred.
Keep == UNCHANGED conn

\* The end of ExecContext or of QueryRow.Scan, or rows.Close.
Release == conn' = None

-----------------------------------------------------------------------------
Begin(w, c) ==
    /\ pc[w] = "idle"
    /\ Goto(w, "waiting")
    /\ call' = [call EXCEPT ![w] = c]
    /\ UNCHANGED <<rows, pool, answer, scan>>

Acquire(w) ==
    /\ pc[w] = "waiting" /\ open /\ conn = None
    /\ Goto(w, "running")
    /\ conn' = w
    /\ UNCHANGED <<rows, open, call, answer, scan>>

\* The value cannot be marshalled, the caller's context ends in the queue, or
\* the database is closed.
NoConnection(w) ==
    /\ pc[w] = "waiting"
    /\ Finish(w, Error)
    /\ UNCHANGED <<rows, pool>>

Get(w) ==
    /\ Op(w, "get")
    /\ Finish(w, LET r == call[w].row IN IF rows[r] = None THEN Error ELSE rows[r])
    /\ Release
    /\ UNCHANGED <<rows, open>>

Insert(c) == rows' = [rows EXCEPT ![c.row] = c.value]

\* INSERT ... ON CONFLICT DO UPDATE
Save(w) ==
    /\ Op(w, "save")
    /\ Insert(call[w])
    /\ Finish(w, Done) /\ Release
    /\ UNCHANGED open

\* Mutant: the statement is an upsert like the others.
NeverConflicts(r) == FALSE

\* The primary key of the table.
Conflicts(r) == rows[r] # None

\* INSERT without ON CONFLICT
Create(w) ==
    /\ Op(w, "create") /\ ~Conflicts(call[w].row)
    /\ Insert(call[w])
    /\ Finish(w, Done) /\ Release
    /\ UNCHANGED open

CreateConflicts(w) ==
    /\ Op(w, "create") /\ Conflicts(call[w].row)
    /\ Finish(w, Error) /\ Release
    /\ UNCHANGED <<rows, open>>

Remove(c) == rows' = [rows EXCEPT ![c.row] = None]

Delete(w) ==
    /\ Op(w, "delete")
    /\ Remove(call[w])
    /\ Finish(w, Done) /\ Release
    /\ UNCHANGED open

Ping(w) ==
    /\ Op(w, "ping")
    /\ Finish(w, Done) /\ Release
    /\ UNCHANGED <<rows, open>>

\* The rows have the connection until they are closed.
Hold == UNCHANGED conn

ListOpen(w) ==
    /\ Op(w, "list")
    /\ Goto(w, "scanning")
    /\ todo' = [todo EXCEPT ![w] = {r \in Rows : r[1] = call[w].row[1]}]
    /\ seen' = [seen EXCEPT ![w] = {}]
    /\ Hold
    /\ UNCHANGED <<rows, open, call, answer>>

\* rows.Next and Scan: the next entry of the primary key's index, if it is there.
ListNext(w) ==
    /\ pc[w] = "scanning"
    /\ \E r \in todo[w] :
        /\ todo' = [todo EXCEPT ![w] = @ \ {r}]
        /\ seen' = [seen EXCEPT ![w] =
                     IF rows[r] = None THEN @ ELSE @ \cup {<<r, rows[r]>>}]
    /\ UNCHANGED <<rows, pool, pc, call, answer>>

ListEnd(w) ==
    /\ pc[w] = "scanning" /\ todo[w] = {}
    /\ Finish(w, seen[w])
    /\ Release
    /\ UNCHANGED <<rows, open>>

\* A row does not scan or unmarshal, or the query is interrupted.
ListFails(w) ==
    /\ pc[w] = "scanning"
    /\ Finish(w, Error)
    /\ Release
    /\ UNCHANGED <<rows, open>>

\* The statement fails, or it was interrupted after it was committed: the
\* driver then answers with the error of the context.
StatementFails(w) ==
    /\ pc[w] = "running"
    /\ \/ UNCHANGED rows
       \/ Op(w, "save") /\ Insert(call[w])
       \/ Op(w, "create") /\ ~Conflicts(call[w].row) /\ Insert(call[w])
       \/ Op(w, "delete") /\ Remove(call[w])
    /\ Finish(w, Error)
    /\ Release
    /\ UNCHANGED open

Return(w) ==
    /\ pc[w] = "returning"
    /\ Goto(w, "idle")
    /\ call' = [call EXCEPT ![w] = None]
    /\ answer' = [answer EXCEPT ![w] = None]
    /\ todo' = [todo EXCEPT ![w] = {}] /\ seen' = [seen EXCEPT ![w] = {}]
    /\ UNCHANGED <<rows, pool>>

\* db.Close: no statement starts any more, a running one ends as usual.
Close ==
    /\ open
    /\ open' = FALSE
    /\ UNCHANGED <<rows, conn, pc, call, answer, scan>>

\* The process ends, and New opens the file again.
Restart ==
    /\ open' = TRUE /\ conn' = None
    /\ pc' = Everyone("idle") /\ call' = Everyone(None) /\ answer' = Everyone(None)
    /\ todo' = Everyone({}) /\ seen' = Everyone({})
    /\ UNCHANGED rows

-----------------------------------------------------------------------------
Statement(w) ==
    \/ Get(w) \/ Save(w) \/ Create(w) \/ CreateConflicts(w) \/ Delete(w) \/ Ping(w)
    \/ ListOpen(w) \/ ListNext(w) \/ ListEnd(w) \/ ListFails(w) \/ StatementFails(w)

Next ==
    \/ \E w \in Callers :
        \/ \E c \in Calls : Begin(w, c)
        \/ Acquire(w) \/ NoConnection(w) \/ Statement(w) \/ Return(w)
    \/ Close \/ Restart

Spec == Init /\ [][Next]_vars

\* Statements end; database/sql hands the connection to the goroutines in its
\* queue as it comes back, and lets them go when it is closed.
Fairness ==
    \A w \in Callers :
        /\ WF_vars(Statement(w)) /\ WF_vars(Return(w))
        /\ SF_vars(Acquire(w)) /\ WF_vars(NoConnection(w) /\ ~open)

FairSpec == Spec /\ Fairness

-----------------------------------------------------------------------------
\* Every call takes effect at one moment and is answered from that moment, a
\* listing included: nobody else writes while it holds the connection.
KeepsPromise == Promise!Spec

\* What callers build on is kept: no listing, failed statement, closed database
\* or restart touches a row, and no answered call does.
RowsChangeByCalls == Promise!OnlyCallsChangeRows

\* The one connection is never waited for without end: no method calls another
\* while it holds it, and none returns with it.
CallsReturn == \A w \in Callers : pc[w] = "waiting" ~> pc[w] = "idle"

\* Inductive strengthening: what a listing has read so far is what the table
\* holds of the rows it has read.
ListingInv ==
    \A w \in Callers :
        pc[w] = "scanning" =>
            /\ call[w].op = "list"
            /\ \A r \in todo[w] : r[1] = call[w].row[1]
            /\ \A r \in Rows, v \in Values :
                <<r, v>> \in seen[w] <=>
                    r[1] = call[w].row[1] /\ r \notin todo[w] /\ rows[r] = v
=============================================================================
