------------------------------ MODULE KVStore ------------------------------
(***************************************************************************)
(* What pkg/store promises: a call takes effect at one moment between its  *)
(* start and its return, and its answer is the one of that moment.         *)
(* pkg/store/memory keeps the promise by construction, with one critical   *)
(* section of mu per method: it is this module with Faults and Persistent  *)
(* FALSE. Callers cannot tell one error from another.                      *)
(***************************************************************************)
CONSTANTS
    Callers,     \* goroutines that call the store
    Calls,       \* the calls they make
    Rows,        \* <<table, identifier>> pairs
    Values,      \* what a row may hold
    Faults,      \* TRUE: any call may fail
    Persistent,  \* TRUE: rows survive the process
    Done,        \* a nil error without data
    Error,       \* any error
    None         \* no row, no call, no answer yet

\* The methods of store.Store by table: auth requests are only ever created,
\* keys are never deleted, sessions and auth requests are not listed.
Offers ==
    [ sessions     |-> {"get", "save", "delete"},
      authRequests |-> {"get", "create", "delete"},
      keys         |-> {"get", "save", "list"},
      clients      |-> {"get", "save", "list", "delete"} ]

Ops == {"get", "save", "create", "delete", "list", "ping"}

Call ==
    {c \in [op : Ops, row : Rows, value : Values] :
        c.op = "ping" \/ c.op \in Offers[c.row[1]]}

Answer == Values \cup {Done, Error} \cup (SUBSET (Rows \X Values))

VARIABLES
    rows,    \* the tables
    call,    \* the call each goroutine is in
    answer   \* what it is about to return

vars == <<rows, call, answer>>

Empty == [r \in Rows |-> None]
NoCall == [w \in Callers |-> None]

Init == rows = Empty /\ call = NoCall /\ answer = NoCall

Begin(w, c) ==
    /\ call[w] = None
    /\ call' = [call EXCEPT ![w] = c]
    /\ UNCHANGED <<rows, answer>>

\* The critical section of a method.
Method(w, op, a) ==
    /\ call[w] # None /\ answer[w] = None /\ call[w].op = op
    /\ answer' = [answer EXCEPT ![w] = a]
    /\ UNCHANGED call

Found(r) == IF rows[r] = None THEN Error ELSE rows[r]

\* The stored rows of a table, in no order.
Listing(table) ==
    {<<r, rows[r]>> : r \in {r \in Rows : r[1] = table /\ rows[r] # None}}

Get(w)  == Method(w, "get", Found(call[w].row)) /\ UNCHANGED rows
List(w) == Method(w, "list", Listing(call[w].row[1])) /\ UNCHANGED rows
Ping(w) == Method(w, "ping", Done) /\ UNCHANGED rows

Write(c) == rows' = [rows EXCEPT ![c.row] = c.value]

Save(w) == Method(w, "save", Done) /\ Write(call[w])

\* A state token is created once: a second request for it is an error.
Create(w) ==
    \/ Method(w, "create", Done) /\ rows[call[w].row] = None /\ Write(call[w])
    \/ Method(w, "create", Error) /\ rows[call[w].row] # None /\ UNCHANGED rows

Erase(c) == rows' = [rows EXCEPT ![c.row] = None]

\* Deleting what is not there is no error.
Delete(w) == Method(w, "delete", Done) /\ Erase(call[w])

\* A call fails before or after it took effect.
Fail(w) ==
    /\ Faults /\ call[w] # None /\ answer[w] = None
    /\ answer' = [answer EXCEPT ![w] = Error]
    /\ \/ UNCHANGED rows
       \/ call[w].op = "save" /\ Write(call[w])
       \/ call[w].op = "create" /\ rows[call[w].row] = None /\ Write(call[w])
       \/ call[w].op = "delete" /\ Erase(call[w])
    /\ UNCHANGED call

Return(w) ==
    /\ answer[w] # None
    /\ call' = [call EXCEPT ![w] = None]
    /\ answer' = [answer EXCEPT ![w] = None]
    /\ UNCHANGED rows

\* The process ends with its goroutines.
Restart ==
    /\ rows' = IF Persistent THEN rows ELSE Empty
    /\ call' = NoCall /\ answer' = NoCall

Step(w) ==
    \/ Get(w) \/ Save(w) \/ Create(w) \/ Delete(w) \/ List(w) \/ Ping(w)
    \/ Fail(w) \/ Return(w)

Next ==
    \/ \E w \in Callers : Step(w) \/ \E c \in Calls : Begin(w, c)
    \/ Restart

Spec == Init /\ [][Next]_vars

\* What callers build on: a row changes only under a call that names it and has
\* no answer yet, to the value of that call, and an auth request that is there
\* is never replaced. A call that was answered, even with an error, writes no
\* more.
Changes(w, r) ==
    /\ call[w] # None /\ answer[w] = None /\ call[w].row = r
    /\ \/ call[w].op = "save" /\ rows'[r] = call[w].value
       \/ call[w].op = "create" /\ rows[r] = None /\ rows'[r] = call[w].value
       \/ call[w].op = "delete" /\ rows'[r] = None

OnlyCallsChange ==
    \/ ~Persistent /\ rows' = Empty
    \/ \A r \in Rows : rows'[r] # rows[r] => \E w \in Callers : Changes(w, r)

OnlyCallsChangeRows == [][OnlyCallsChange]_vars
=============================================================================
