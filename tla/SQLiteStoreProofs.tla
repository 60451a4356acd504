------------------------- MODULE SQLiteStoreProofs -------------------------
(***************************************************************************)
(* SQLiteStore keeps the promise of KVStore, for any callers, tables and   *)
(* values. The one connection is what makes a listing, which takes many    *)
(* steps, take effect at one moment.                                       *)
(***************************************************************************)
EXTENDS SQLiteStore, TLAPS

USE DEF pool, scan, Goto

\* A goroutine answers with data of the right type or with an error.
LEMMA AnswerTypes ==
    /\ Done \in Promise!Answer /\ Error \in Promise!Answer
    /\ \A v \in Values : v \in Promise!Answer
    /\ \A s \in SUBSET (Rows \X Values) : s \in Promise!Answer
    /\ \A a \in Promise!Answer : a # None
BY NoneAssumption DEF Promise!Answer

\* A call names a row, and a value to put there.
LEMMA CallTypes ==
    ASSUME NEW c \in Calls
    PROVE  c # None /\ c.row \in Rows /\ c.value \in Values
BY CallAssumption, NoneAssumption DEF Promise!Call

\* A step that ends a statement, or the wait for it.
LEMMA FinishTypes ==
    ASSUME TypeOK, NEW w \in Callers, NEW a \in Promise!Answer, Finish(w, a),
           pc[w] \in {"waiting", "running", "scanning"},
           IF pc[w] = "waiting" THEN UNCHANGED conn ELSE Release,
           rows' \in [Rows -> Values \cup {None}], UNCHANGED open
    PROVE  TypeOK'
BY AnswerTypes, NoneAssumption DEF TypeOK, Finish, Release

\* One case per action; every statement but a listing ends where it started.
LEMMA TypeStep ==
    ASSUME TypeOK, [Next]_vars
    PROVE  TypeOK'
<1> USE DEF TypeOK
<1>1. CASE UNCHANGED vars \/ Close
  BY <1>1 DEF vars, Close
<1>2. CASE Restart
  BY <1>2, NoneAssumption DEF Restart, Everyone
<1>3. ASSUME NEW w \in Callers, NEW c \in Calls, Begin(w, c)
      PROVE  TypeOK'
  BY <1>3, CallTypes DEF Begin
<1>4. ASSUME NEW w \in Callers, Acquire(w)
      PROVE  TypeOK'
  BY <1>4, NoneAssumption DEF Acquire
<1>5. ASSUME NEW w \in Callers,
             \/ NoConnection(w) \/ Get(w) \/ CreateConflicts(w) \/ Ping(w)
             \/ ListEnd(w) \/ ListFails(w)
      PROVE  TypeOK'
  <2>1. CASE Get(w)
    <3>1. call[w].row \in Rows
      BY <2>1, CallTypes DEF Get, Op
    <3>2. QED
      BY <2>1, <3>1, AnswerTypes, FinishTypes DEF Get, Op
  <2>2. CASE ListEnd(w)
    BY <2>2, AnswerTypes, FinishTypes DEF ListEnd
  <2>3. CASE NoConnection(w) \/ CreateConflicts(w) \/ Ping(w) \/ ListFails(w)
    BY <2>3, AnswerTypes, FinishTypes
       DEF NoConnection, CreateConflicts, Ping, ListFails, Op
  <2>4. QED
    BY <1>5, <2>1, <2>2, <2>3
<1>6. ASSUME NEW w \in Callers,
             Save(w) \/ Create(w) \/ Delete(w) \/ StatementFails(w)
      PROVE  TypeOK'
  <2>1. pc[w] = "running" /\ call[w] \in Calls
    BY <1>6 DEF Save, Create, Delete, StatementFails, Op
  <2>2. rows' \in [Rows -> Values \cup {None}]
    BY <1>6, <2>1, CallTypes DEF Save, Create, Delete, StatementFails, Insert, Remove
  <2>3. QED
    BY <1>6, <2>1, <2>2, AnswerTypes, FinishTypes
       DEF Save, Create, Delete, StatementFails
<1>7. ASSUME NEW w \in Callers, ListOpen(w)
      PROVE  TypeOK'
  BY <1>7 DEF ListOpen, Op, Hold
<1>8. ASSUME NEW w \in Callers, ListNext(w)
      PROVE  TypeOK'
  <2>1. PICK r \in todo[w] :
          /\ todo' = [todo EXCEPT ![w] = @ \ {r}]
          /\ seen' = [seen EXCEPT ![w] =
                       IF rows[r] = None THEN @ ELSE @ \cup {<<r, rows[r]>>}]
    BY <1>8 DEF ListNext
  <2>2. rows[r] # None => <<r, rows[r]>> \in Rows \X Values
    OBVIOUS
  <2>3. seen' \in [Callers -> SUBSET (Rows \X Values)]
    BY <2>1, <2>2
  <2>4. todo' \in [Callers -> SUBSET Rows]
    BY <2>1
  <2>5. QED
    BY <1>8, <2>3, <2>4 DEF ListNext
<1>9. ASSUME NEW w \in Callers, Return(w)
      PROVE  TypeOK'
  BY <1>9 DEF Return
<1>10. QED
  BY <1>1, <1>2, <1>3, <1>4, <1>5, <1>6, <1>7, <1>8, <1>9 DEF Next, Statement

\* No path through a method leaks the connection or uses it without having it.
THEOREM StoreTypeCorrect == Spec => []TypeOK
<1>1. Init => TypeOK
  BY NoneAssumption DEF Init, Everyone, TypeOK
<1>2. QED
  BY <1>1, TypeStep, PTL DEF Spec

-----------------------------------------------------------------------------
(* Listings *)

\* The rows change only under the goroutine that has the connection, so not
\* while another one lists them.
LEMMA ListingStep ==
    ASSUME TypeOK, ListingInv, [Next]_vars
    PROVE  ListingInv'
<1> SUFFICES ASSUME NEW w \in Callers, pc'[w] = "scanning"
    PROVE  /\ call'[w].op = "list"
           /\ \A r \in todo'[w] : r[1] = call'[w].row[1]
           /\ \A r \in Rows, v \in Values :
               <<r, v>> \in seen'[w] <=>
                   r[1] = call'[w].row[1] /\ r \notin todo'[w] /\ rows'[r] = v
  BY DEF ListingInv
<1> USE DEF TypeOK
<1>1. CASE /\ pc[w] = "scanning" /\ call'[w] = call[w]
           /\ todo'[w] = todo[w] /\ seen'[w] = seen[w]
  <2>1. conn = w /\ \A u \in Callers \ {w} : pc[u] \notin {"running", "scanning"}
    BY <1>1
  <2>2. ASSUME NEW u \in Callers,
               Save(u) \/ Create(u) \/ Delete(u) \/ StatementFails(u)
        PROVE  FALSE
    BY <1>1, <2>1, <2>2 DEF Save, Create, Delete, StatementFails, Op
  <2>3. rows' = rows
    BY <2>2 DEF Next, Statement, Begin, Acquire, NoConnection, Get, CreateConflicts,
                Ping, ListOpen, ListNext, ListEnd, ListFails, Return, Close, Restart,
                vars
  <2>4. QED
    BY <1>1, <2>3 DEF ListingInv
<1>2. CASE ListOpen(w)
  <2>1. /\ call'[w].op = "list" /\ call' = call /\ rows' = rows
        /\ todo'[w] = {r \in Rows : r[1] = call[w].row[1]} /\ seen'[w] = {}
    BY <1>2 DEF ListOpen, Op
  <2>2. QED
    BY <2>1
<1>3. CASE ListNext(w)
  <2>1. PICK x \in todo[w] :
          /\ todo' = [todo EXCEPT ![w] = @ \ {x}]
          /\ seen' = [seen EXCEPT ![w] =
                       IF rows[x] = None THEN @ ELSE @ \cup {<<x, rows[x]>>}]
    BY <1>3 DEF ListNext
  <2>2. /\ rows' = rows /\ pc[w] = "scanning" /\ call' = call
        /\ todo'[w] = todo[w] \ {x}
        /\ seen'[w] = IF rows[x] = None THEN seen[w] ELSE seen[w] \cup {<<x, rows[x]>>}
    BY <1>3, <2>1 DEF ListNext
  <2>3. /\ call[w].op = "list" /\ x[1] = call[w].row[1] /\ x \in Rows
        /\ \A r \in todo[w] : r[1] = call[w].row[1]
    BY <2>2 DEF ListingInv
  <2>4. ASSUME NEW r \in Rows, NEW v \in Values
        PROVE  <<r, v>> \in seen'[w] <=>
                 r[1] = call[w].row[1] /\ r \notin todo'[w] /\ rows[r] = v
    <3>1. <<r, v>> \in seen[w] <=>
            r[1] = call[w].row[1] /\ r \notin todo[w] /\ rows[r] = v
      BY <2>2 DEF ListingInv
    <3>2. v # None
      BY NoneAssumption
    <3>3. CASE r = x
      BY <2>2, <2>3, <3>1, <3>2, <3>3
    <3>4. CASE r # x
      BY <2>2, <3>1, <3>4
    <3>5. QED
      BY <3>3, <3>4
  <2>5. QED
    BY <2>2, <2>3, <2>4
<1>4. CASE ~ListOpen(w) /\ ~ListNext(w)
  <2>1. pc[w] = "scanning" /\ pc'[w] = pc[w]
    BY <1>4 DEF Next, Statement, Begin, Acquire, NoConnection, Get, Save, Create,
          CreateConflicts, Delete, Ping, ListOpen, ListNext, ListEnd, ListFails,
          StatementFails, Finish, Return, Close, Restart, Everyone, vars
  <2>2. call'[w] = call[w] /\ todo'[w] = todo[w] /\ seen'[w] = seen[w]
    BY <1>4, <2>1 DEF Next, Statement, Begin, Acquire, NoConnection, Get, Save, Create,
          CreateConflicts, Delete, Ping, ListOpen, ListNext, ListEnd, ListFails,
          StatementFails, Finish, Return, Close, Restart, Everyone, vars
  <2>3. QED
    BY <1>1, <2>1, <2>2
<1>5. QED
  BY <1>2, <1>3, <1>4

THEOREM ListingInvariant == Spec => []ListingInv
<1>1. Init => ListingInv
  BY DEF Init, Everyone, ListingInv
<1>2. TypeOK /\ ListingInv /\ [Next]_vars => ListingInv'
  BY ListingStep
<1>3. QED
  BY <1>1, <1>2, StoreTypeCorrect, PTL DEF Spec

-----------------------------------------------------------------------------
(* The promise *)

\* What a listing has read when it ends is the table of that moment.
LEMMA ListingIsExact ==
    ASSUME TypeOK, ListingInv, NEW w \in Callers, ListEnd(w)
    PROVE  seen[w] = Promise!Listing(call[w].row[1])
<1>1. pc[w] = "scanning" /\ todo[w] = {}
  BY DEF ListEnd
<1>2. seen[w] \subseteq Rows \X Values
  BY DEF TypeOK
<1>3. \A r \in Rows, v \in Values :
        <<r, v>> \in seen[w] <=> r[1] = call[w].row[1] /\ rows[r] = v
  <2>1. \A r \in Rows, v \in Values :
          <<r, v>> \in seen[w] <=>
            r[1] = call[w].row[1] /\ r \notin todo[w] /\ rows[r] = v
    BY <1>1 DEF ListingInv
  <2>2. QED
    BY <1>1, <2>1
<1>4. \A r \in Rows : rows[r] # None => rows[r] \in Values
  BY DEF TypeOK
<1>5. ASSUME NEW e \in seen[w]
      PROVE  e \in Promise!Listing(call[w].row[1])
  <2>1. PICK r \in Rows, v \in Values : e = <<r, v>>
    BY <1>2
  <2>2. r[1] = call[w].row[1] /\ rows[r] = v /\ v # None
    BY <1>3, <2>1, NoneAssumption
  <2>3. QED
    BY <2>1, <2>2 DEF Promise!Listing
<1>6. ASSUME NEW e \in Promise!Listing(call[w].row[1])
      PROVE  e \in seen[w]
  <2>1. PICK r \in Rows : r[1] = call[w].row[1] /\ rows[r] # None /\ e = <<r, rows[r]>>
    BY <1>6 DEF Promise!Listing
  <2>2. QED
    BY <1>3, <1>4, <2>1
<1>7. QED
  BY <1>5, <1>6

\* The goroutine of a step that ends a statement is in a call without answer.
LEMMA InCall ==
    ASSUME TypeOK, NEW w \in Callers, pc[w] \in {"waiting", "running", "scanning"}
    PROVE  call[w] # None /\ answer[w] = None
BY DEF TypeOK

\* The step at which a statement ends well is the moment of the promise.
LEMMA StatementMaps ==
    ASSUME TypeOK, NEW w \in Callers,
           \/ Get(w) \/ Save(w) \/ Create(w) \/ CreateConflicts(w)
           \/ Delete(w) \/ Ping(w)
    PROVE  Promise!Step(w)
<1> USE DEF Op, Finish, Promise!Method, Promise!Step
<1>1. CASE Get(w)
  BY <1>1, InCall DEF Get, Promise!Get, Promise!Found
<1>2. CASE Save(w)
  BY <1>2, InCall DEF Save, Insert, Promise!Save, Promise!Write
<1>3. CASE Create(w)
  BY <1>3, InCall DEF Create, Conflicts, Insert, Promise!Create, Promise!Write
<1>4. CASE CreateConflicts(w)
  BY <1>4, InCall DEF CreateConflicts, Conflicts, Promise!Create
<1>5. CASE Delete(w)
  BY <1>5, InCall DEF Delete, Remove, Promise!Delete, Promise!Erase
<1>6. CASE Ping(w)
  BY <1>6, InCall DEF Ping, Promise!Ping
<1>7. QED
  BY <1>1, <1>2, <1>3, <1>4, <1>5, <1>6

LEMMA FailureMaps ==
    ASSUME TypeOK, NEW w \in Callers,
           NoConnection(w) \/ ListFails(w) \/ StatementFails(w)
    PROVE  Promise!Step(w)
<1>1. Finish(w, Error) /\ pc[w] \in {"waiting", "running", "scanning"}
  BY DEF NoConnection, ListFails, StatementFails
<1>2. \/ UNCHANGED rows
      \/ call[w].op = "save" /\ Promise!Write(call[w])
      \/ call[w].op = "create" /\ rows[call[w].row] = None /\ Promise!Write(call[w])
      \/ call[w].op = "delete" /\ Promise!Erase(call[w])
  BY DEF NoConnection, ListFails, StatementFails, Op, Insert, Remove, Conflicts,
         Promise!Write, Promise!Erase
<1>3. Promise!Fail(w)
  BY <1>1, <1>2, InCall DEF Finish, Promise!Fail
<1>4. QED
  BY <1>3 DEF Promise!Step

\* Waiting for the connection, and reading row after row, is nothing to a caller.
LEMMA PromiseStep ==
    ASSUME TypeOK, ListingInv, [Next]_vars
    PROVE  [Promise!Next]_(Promise!vars)
<1>1. CASE UNCHANGED vars \/ Close
  BY <1>1 DEF vars, Close, Promise!vars
<1>2. CASE Restart
  BY <1>2 DEF Restart, Everyone, Promise!Next, Promise!Restart, Promise!NoCall
<1>3. ASSUME NEW w \in Callers, NEW c \in Calls, Begin(w, c)
      PROVE  Promise!Begin(w, c)
  BY <1>3 DEF Begin, TypeOK, Promise!Begin
<1>4. ASSUME NEW w \in Callers, Acquire(w) \/ ListOpen(w) \/ ListNext(w)
      PROVE  UNCHANGED Promise!vars
  BY <1>4 DEF Acquire, ListOpen, ListNext, Promise!vars
<1>5. ASSUME NEW w \in Callers, ListEnd(w)
      PROVE  Promise!List(w)
  <2>1. call[w].op = "list" /\ pc[w] = "scanning"
    BY <1>5 DEF ListEnd, ListingInv
  <2>2. QED
    BY <1>5, <2>1, ListingIsExact, InCall DEF ListEnd, Finish, Promise!List, Promise!Method
<1>6. ASSUME NEW w \in Callers, Return(w)
      PROVE  Promise!Return(w)
  BY <1>6 DEF Return, TypeOK, Promise!Return
<1>7. QED
  BY <1>1, <1>2, <1>3, <1>4, <1>5, <1>6, StatementMaps, FailureMaps
     DEF Next, Statement, Promise!Next, Promise!Step

\* For any number of goroutines, tables and rows: a call that queues for the
\* connection, and a listing that reads its rows one by one, still take effect
\* at one moment, as the methods of the memory store do.
THEOREM StoreKeepsPromise == Spec => KeepsPromise
<1>1. Init => Promise!Init
  BY DEF Init, Everyone, Promise!Init, Promise!Empty, Promise!NoCall
<1>2. TypeOK /\ ListingInv /\ [Next]_vars => [Promise!Next]_(Promise!vars)
  BY PromiseStep
<1>3. QED
  BY <1>1, <1>2, StoreTypeCorrect, ListingInvariant, PTL
     DEF Spec, KeepsPromise, Promise!Spec

\* A write of the promise changes one row, the one its call names.
LEMMA WriteIsTheCalls ==
    ASSUME NEW w \in Callers, TypeOK, call[w] # None, answer[w] = None,
           \/ UNCHANGED rows
           \/ call[w].op = "save" /\ Promise!Write(call[w])
           \/ /\ call[w].op = "create" /\ rows[call[w].row] = None
              /\ Promise!Write(call[w])
           \/ call[w].op = "delete" /\ Promise!Erase(call[w])
    PROVE  Promise!OnlyCallsChange
<1>1. call[w] \in Calls /\ call[w].row \in Rows
  BY CallTypes DEF TypeOK
<1>2. ASSUME NEW r \in Rows, rows'[r] # rows[r]
      PROVE  Promise!Changes(w, r)
  <2>1. r = call[w].row
    BY <1>1, <1>2 DEF TypeOK, Promise!Write, Promise!Erase
  <2>2. QED
    BY <1>1, <1>2, <2>1 DEF TypeOK, Promise!Write, Promise!Erase, Promise!Changes
<1>3. QED
  BY <1>2 DEF Promise!OnlyCallsChange

\* So callers may build on the promise: a row changes only by a call for it.
THEOREM OnlyCallsChangeTheTables == Spec => RowsChangeByCalls
<1>1. ASSUME TypeOK, ListingInv, [Next]_vars
      PROVE  [Promise!OnlyCallsChange]_(Promise!vars)
  <2>1. CASE UNCHANGED rows
    BY <2>1 DEF Promise!OnlyCallsChange
  <2>2. ASSUME NEW w \in Callers, Promise!Step(w)
        PROVE  Promise!OnlyCallsChange
    <3> USE DEF Promise!Method
    <3>1. CASE UNCHANGED rows
      BY <3>1 DEF Promise!OnlyCallsChange
    <3>2. CASE Promise!Save(w)
      BY <3>2, WriteIsTheCalls, <1>1 DEF Promise!Save
    <3>3. CASE Promise!Create(w)
      BY <3>3, WriteIsTheCalls, <1>1 DEF Promise!Create
    <3>4. CASE Promise!Delete(w)
      BY <3>4, WriteIsTheCalls, <1>1 DEF Promise!Delete
    <3>5. CASE Promise!Fail(w)
      BY <3>5, WriteIsTheCalls, <1>1 DEF Promise!Fail
    <3>6. QED
      BY <2>2, <3>1, <3>2, <3>3, <3>4, <3>5
         DEF Promise!Step, Promise!Get, Promise!List, Promise!Ping, Promise!Return
  <2>3. Promise!Restart => UNCHANGED rows
    BY DEF Promise!Restart
  <2>4. QED
    BY <1>1, <2>1, <2>2, <2>3, PromiseStep
       DEF Promise!Next, Promise!Begin, Promise!vars
<1>2. QED
  BY <1>1, StoreTypeCorrect, ListingInvariant, PTL
     DEF Spec, RowsChangeByCalls, Promise!OnlyCallsChangeRows
=============================================================================
