-------------------------- MODULE HTTPServerProofs --------------------------
(***************************************************************************)
(* Theorems about HTTPServer, for any finite set of requests.              *)
(***************************************************************************)
EXTENDS HTTPServer, FiniteSetTheorems, TLAPS

USE StatusAssumption DEF DefaultStatus, DrainedOrLate

\* The steps of main and of the operating system leave the requests alone.
ProcessStep ==
    \/ StartupFails \/ StartRun \/ MainStep \/ DeadlinePasses
    \/ Signal \/ Listen \/ ListenFails

\* The initial state has the types.
LEMMA InitTypeOK == Init => TypeOK
<1>1. Unserved \in Request
  BY DEF Unserved, Request
<1>2. ASSUME Init
      PROVE  TypeOK
  <2>1. request \in [Requests -> Request]
    BY <1>1, <1>2 DEF Init
  <2>2. requestsTotal \in [Statuses -> Nat]
    BY <1>2 DEF Init
  <2>3. QED
    BY <1>2, <2>1, <2>2 DEF Init, TypeOK
<1>3. QED
  BY <1>2

\* What is sent and recorded for a status is a status.
LEMMA HeaderTypes ==
    ASSUME NEW x \in Request, NEW code \in Statuses
    PROVE  /\ Sent(x, code) \in Statuses
           /\ WithHeader(x, code) \in Request
<1>1. Sent(x, code) \in Statuses /\ Recorded(x, code) \in Statuses
  BY DEF Request, Sent, Recorded
<1>2. QED
  BY <1>1 DEF Request, WithHeader

\* Types are kept by every step.
LEMMA TypeStep ==
    ASSUME TypeOK, [Next]_vars
    PROVE  TypeOK'
<1>1. CASE UNCHANGED vars
  BY <1>1 DEF vars, process, metrics, TypeOK
<1>2. CASE ProcessStep
  BY <1>2 DEF ProcessStep, StartupFails, StartRun, MainStep, RunFails,
     RunShutsDown, ShutdownReturns, CloseStore, Exit, DeadlinePasses, Signal,
     Listen, ListenFails, TypeOK, metrics
<1>3. ASSUME NEW r \in Requests, RequestStep(r)
      PROVE  TypeOK'
  <2> DEFINE x == request[r]
  <2>0. x \in Request /\ UNCHANGED process
    BY <1>3 DEF TypeOK, RequestStep, Arrive, HandlerUsesStore,
       HandlerWritesHeader, HandlerWrites, HandlerReturns, HandlerPanics
  <2>1. CASE Arrive(r)
    <3>1. [x EXCEPT !.pc = "handler"] \in Request
      BY <2>0 DEF Request
    <3>2. QED
      BY <2>0, <2>1, <3>1 DEF Arrive, TypeOK, process, metrics
  <2>2. CASE HandlerUsesStore(r)
    <3>1. [x EXCEPT !.storeFailed = @ \/ ~storeOpen] \in Request
      BY <2>0 DEF Request
    <3>2. QED
      BY <2>0, <2>2, <3>1 DEF HandlerUsesStore, TypeOK, process, metrics
  <2>3. ASSUME NEW code \in Statuses, HandlerWritesHeader(r, code)
        PROVE  TypeOK'
    <3>1. WithHeader(x, code) \in Request
      BY <2>0, HeaderTypes
    <3>2. QED
      BY <2>0, <2>3, <3>1 DEF HandlerWritesHeader, TypeOK, process, metrics
  <2>4. CASE HandlerWrites(r)
    <3> DEFINE y == WithHeader(x, StatusOK)
    <3>1. y \in Request
      BY <2>0, HeaderTypes
    <3>2. [y EXCEPT !.body = @ \cup {"page"}] \in Request
      BY <3>1 DEF Request
    <3>3. QED
      BY <2>0, <2>4, <3>2 DEF HandlerWrites, TypeOK, process, metrics
  <2>5. CASE HandlerReturns(r)
    <3>1. x.status \in Statuses /\ Sent(x, StatusOK) \in Statuses
      BY <2>0, HeaderTypes DEF Request
    <3>2. [x EXCEPT !.pc = "done", !.logged = x.status,
                    !.wire = Sent(x, StatusOK)] \in Request
      BY <2>0, <3>1 DEF Request
    <3>3. request' \in [Requests -> Request]
      BY <2>5, <3>2 DEF HandlerReturns, TypeOK
    <3>4. requestsTotal' \in [Statuses -> Nat]
      BY <2>5, <3>1 DEF HandlerReturns, TypeOK
    <3>5. QED
      BY <2>5, <3>3, <3>4 DEF HandlerReturns, TypeOK, process
  <2>6. CASE HandlerPanics(r)
    <3>1. Sent(x, StatusInternalServerError) \in Statuses
      BY <2>0, HeaderTypes
    <3>2. [x EXCEPT !.pc = "done",
                    !.wire = Sent(x, StatusInternalServerError),
                    !.body = @ \cup {"error"}] \in Request
      BY <2>0, <3>1 DEF Request
    <3>3. QED
      BY <2>0, <2>6, <3>2 DEF HandlerPanics, TypeOK, process
  <2>7. QED
    BY <1>3, <2>1, <2>2, <2>3, <2>4, <2>5, <2>6 DEF RequestStep
<1>4. QED
  BY <1>1, <1>2, <1>3 DEF Next, ProcessStep

\* Every variable keeps its type, for any handlers.
THEOREM ServerTypeCorrect == Spec => []TypeOK
BY InitTypeOK, TypeStep, PTL DEF Spec

-----------------------------------------------------------------------------
(* What the steps of a request do to it, field by field *)

\* A step of one request leaves the others alone.
LEMMA OthersKept ==
    ASSUME TypeOK, NEW r \in Requests, RequestStep(r)
    PROVE  \A q \in Requests \ {r} : request'[q] = request[q]
BY DEF RequestStep, Arrive, HandlerUsesStore, HandlerWritesHeader,
   HandlerWrites, HandlerReturns, HandlerPanics, TypeOK

\* Writing sends and records a status.
LEMMA WriteEffect ==
    ASSUME TypeOK, NEW r \in Requests, NEW code \in Statuses,
           HandlerWritesHeader(r, code) \/ (code = StatusOK /\ HandlerWrites(r))
    PROVE  /\ request[r].pc = "handler" /\ request'[r].pc = "handler"
           /\ request'[r].logged = request[r].logged
           /\ request'[r].storeFailed = request[r].storeFailed
           /\ request'[r].wroteHeader = TRUE
           /\ request'[r].wire = Sent(request[r], code)
           /\ request'[r].status = Recorded(request[r], code)
<1> DEFINE x == request[r]
           y == WithHeader(x, code)
<1>1. x \in Request /\ x.pc = "handler"
  BY DEF TypeOK, HandlerWritesHeader, HandlerWrites, Active
<1>2. y \in Request
  BY <1>1, HeaderTypes
<1>3. /\ y.pc = x.pc /\ y.logged = x.logged /\ y.storeFailed = x.storeFailed
      /\ y.wroteHeader = TRUE /\ y.wire = Sent(x, code)
      /\ y.status = Recorded(x, code)
  BY <1>1 DEF WithHeader, Request
<1>4. CASE HandlerWritesHeader(r, code)
  <2>1. request'[r] = y
    BY <1>4 DEF HandlerWritesHeader, TypeOK
  <2>2. QED
    BY <1>1, <1>3, <2>1
<1>5. CASE code = StatusOK /\ HandlerWrites(r)
  <2>1. request'[r] = [y EXCEPT !.body = @ \cup {"page"}]
    BY <1>5 DEF HandlerWrites, TypeOK
  <2> HIDE DEF y
  <2>2. /\ request'[r].pc = y.pc /\ request'[r].logged = y.logged
        /\ request'[r].storeFailed = y.storeFailed
        /\ request'[r].wroteHeader = y.wroteHeader
        /\ request'[r].wire = y.wire /\ request'[r].status = y.status
    BY <1>2, <2>1 DEF Request
  <2>3. QED
    BY <1>1, <1>3, <2>2
<1>6. QED
  BY <1>4, <1>5

\* The last step of a request.
LEMMA EndEffect ==
    ASSUME TypeOK, NEW r \in Requests, HandlerReturns(r) \/ HandlerPanics(r)
    PROVE  /\ request[r].pc = "handler" /\ request'[r].pc = "done"
           /\ request'[r].storeFailed = request[r].storeFailed
           /\ HandlerReturns(r) =>
               /\ request'[r].logged = request[r].status
               /\ request'[r].wire = Sent(request[r], StatusOK)
           /\ HandlerPanics(r) => request'[r].logged = request[r].logged
<1> DEFINE x == request[r]
<1>1. x \in Request /\ x.pc = "handler"
  BY DEF TypeOK, HandlerReturns, HandlerPanics, Active
<1>2. HandlerReturns(r) =>
        request'[r] = [x EXCEPT !.pc = "done", !.logged = x.status,
                                !.wire = Sent(x, StatusOK)]
  BY DEF HandlerReturns, TypeOK
<1>3. HandlerPanics(r) =>
        request'[r] = [x EXCEPT !.pc = "done",
                                !.wire = Sent(x, StatusInternalServerError),
                                !.body = @ \cup {"error"}]
  BY DEF HandlerPanics, TypeOK
<1>4. HandlerReturns(r) =>
        /\ request'[r].pc = "done" /\ request'[r].storeFailed = x.storeFailed
        /\ request'[r].logged = x.status
        /\ request'[r].wire = Sent(x, StatusOK)
  BY <1>1, <1>2 DEF Request
<1>5. HandlerPanics(r) =>
        /\ request'[r].pc = "done" /\ request'[r].storeFailed = x.storeFailed
        /\ request'[r].logged = x.logged
  BY <1>1, <1>3 DEF Request
<1>6. HandlerReturns(r) => request'[r].logged = x.status
  BY <1>4
<1>7. QED
  <2>1. CASE HandlerReturns(r) /\ ~HandlerPanics(r)
    BY <1>1, <1>4, <2>1
  <2>2. CASE HandlerPanics(r) /\ ~HandlerReturns(r)
    BY <1>1, <1>5, <2>2
  <2>3. ~(HandlerReturns(r) /\ HandlerPanics(r))
    <3>1. HandlerReturns(r) => panicsTotal' = panicsTotal
      BY DEF HandlerReturns
    <3>2. HandlerPanics(r) => panicsTotal' = panicsTotal + 1
      BY DEF HandlerPanics
    <3>3. QED
      BY <3>1, <3>2 DEF TypeOK
  <2>4. QED
    BY <2>1, <2>2, <2>3

-----------------------------------------------------------------------------
\* ShutdownInv is inductive: a listener that is closed accepts no request, so
\* what is drained stays drained, and the store is closed last.
LEMMA ShutdownStep ==
    ASSUME TypeOK, ShutdownInv, [Next]_vars
    PROVE  ShutdownInv'
<1> USE DEF ShutdownInv, StoreOutlivesHandlers, Active
<1>1. CASE UNCHANGED vars
  BY <1>1 DEF vars, process
<1>2. CASE ProcessStep
  BY <1>2 DEF ProcessStep, StartupFails, StartRun, MainStep, RunFails,
     RunShutsDown, ShutdownReturns, CloseStore, Exit, DeadlinePasses, Signal,
     Listen, ListenFails, TypeOK
<1>3. ASSUME NEW r \in Requests, RequestStep(r)
      PROVE  ShutdownInv'
  <2>1. CASE Arrive(r)
    BY <2>1 DEF Arrive, Alive, Ended, process, TypeOK, Request
  <2>2. CASE HandlerUsesStore(r)
    BY <2>2 DEF HandlerUsesStore, Alive, Ended, process, TypeOK, Request
  <2>0. \A q \in Requests \ {r} : request'[q] = request[q]
    BY <1>3, OthersKept
  <2>3. ASSUME NEW code \in Statuses,
               HandlerWritesHeader(r, code) \/ (code = StatusOK /\ HandlerWrites(r))
        PROVE  ShutdownInv'
    <3>1. /\ request[r].pc = "handler" /\ request'[r].pc = "handler"
          /\ request'[r].storeFailed = request[r].storeFailed
      BY <2>3, WriteEffect
    <3>2. UNCHANGED process
      BY <2>3 DEF HandlerWritesHeader, HandlerWrites
    <3>3. QED
      BY <2>0, <3>1, <3>2 DEF process
  <2>4. CASE HandlerWrites(r)
    BY <2>3, <2>4
  <2>5. CASE HandlerReturns(r) \/ HandlerPanics(r)
    BY <1>3, <2>5, OthersKept, EndEffect
       DEF HandlerReturns, HandlerPanics, process
  <2>6. QED
    BY <1>3, <2>1, <2>2, <2>3, <2>4, <2>5 DEF RequestStep
<1>4. QED
  BY <1>1, <1>2, <1>3 DEF Next, ProcessStep

\* The inductive invariant of the shutdown.
LEMMA ShutdownInvariant == Spec => [](TypeOK /\ ShutdownInv)
<1>1. Init => ShutdownInv
  BY DEF Init, ShutdownInv, StoreOutlivesHandlers, Unserved
<1>2. QED
  BY InitTypeOK, TypeStep, <1>1, ShutdownStep, PTL DEF Spec

\* A handler that is served within the ten seconds never meets a closed store.
THEOREM StoreClosesLast == Spec => []StoreOutlivesHandlers
<1>1. ShutdownInv => StoreOutlivesHandlers
  BY DEF ShutdownInv
<1>2. QED
  BY ShutdownInvariant, <1>1, PTL

\* Run returns after a signal with no request under way, or after ten seconds.
THEOREM ShutdownDrains == Spec => []DrainedUnlessLate
<1>1. ShutdownInv => DrainedUnlessLate
  BY DEF ShutdownInv, DrainedUnlessLate
<1>2. QED
  BY ShutdownInvariant, <1>1, PTL

-----------------------------------------------------------------------------
(* The metrics *)

\* The finished requests that were answered with a status, and that panicked.
Counted(s) == {r \in Requests : request[r].logged # None /\ request[r].wire = s}
PanickedSet == {r \in Requests : Panicked(r)}

\* Inductive strengthening of RequestsMissedArePanics: http_requests_total
\* counts the requests that were logged, with the status that was sent.
MetricsInv ==
    /\ \A s \in Statuses : requestsTotal[s] = Cardinality(Counted(s))
    /\ panicsTotal = Cardinality(PanickedSet)

\* One more element makes the set larger by one.
LEMMA OneMore ==
    ASSUME NEW S \in SUBSET Requests, NEW r \in Requests, r \notin S
    PROVE  /\ Cardinality(S \cup {r}) = Cardinality(S) + 1
           /\ Cardinality(S) \in Nat
<1>1. IsFiniteSet(S)
  BY RequestAssumption, FS_Subset
<1>2. QED
  BY <1>1, FS_AddElement, FS_CardinalityType

\* A step that ends no request keeps the sets behind the counters.
LEMMA SameCounts ==
    ASSUME MetricsInv, UNCHANGED metrics,
           \A r \in Requests :
               /\ request'[r].logged = request[r].logged
               /\ request'[r].pc = "done" <=> request[r].pc = "done"
               /\ request[r].logged # None => request'[r].wire = request[r].wire
    PROVE  MetricsInv'
<1>1. \A s : Counted(s)' = Counted(s)
  BY DEF Counted
<1>2. PanickedSet' = PanickedSet
  BY DEF PanickedSet, Panicked
<1>3. QED
  BY <1>1, <1>2 DEF MetricsInv, Counted, PanickedSet, metrics

\* The wrapper of the logging middleware follows the connection.
LEMMA WrapperStep ==
    ASSUME TypeOK, WrapperInv, [Next]_vars
    PROVE  WrapperInv'
<1> USE DEF WrapperInv
<1>1. CASE UNCHANGED vars
  BY <1>1 DEF vars
<1>2. CASE ProcessStep
  BY <1>2 DEF ProcessStep, StartupFails, StartRun, MainStep, RunFails,
     RunShutsDown, ShutdownReturns, CloseStore, Exit, DeadlinePasses, Signal,
     Listen, ListenFails
<1>3. ASSUME NEW r \in Requests, RequestStep(r)
      PROVE  WrapperInv'
  <2>1. CASE Arrive(r) \/ HandlerUsesStore(r)
    BY <2>1 DEF Arrive, HandlerUsesStore, Active, TypeOK, Request
  <2>0. \A q \in Requests \ {r} : request'[q] = request[q]
    BY <1>3, OthersKept
  <2>2. ASSUME NEW code \in Statuses,
               HandlerWritesHeader(r, code) \/ (code = StatusOK /\ HandlerWrites(r))
        PROVE  WrapperInv'
    <3>1. /\ request[r].pc = "handler" /\ request'[r].pc = "handler"
          /\ request'[r].logged = request[r].logged
          /\ request'[r].wroteHeader = TRUE
          /\ request'[r].wire = Sent(request[r], code)
          /\ request'[r].status = Recorded(request[r], code)
      BY <2>2, WriteEffect
    <3>2. Sent(request[r], code) = Recorded(request[r], code)
      <4>1. request[r].wire = None \/ request[r].wroteHeader
        BY <3>1
      <4>2. request[r].wroteHeader =>
              request[r].wire = request[r].status /\ request[r].wire # None
        BY <3>1 DEF TypeOK, Request
      <4>3. request[r].wroteHeader \in BOOLEAN
        BY DEF TypeOK, Request
      <4>4. QED
        BY <3>1, <4>1, <4>2, <4>3 DEF Sent, Recorded
    <3>3. QED
      BY <2>0, <3>1, <3>2
  <2>3. CASE HandlerWrites(r)
    BY <2>2, <2>3
  <2>4. CASE HandlerReturns(r) \/ HandlerPanics(r)
    BY <1>3, <2>4, OthersKept, EndEffect
  <2>5. QED
    BY <1>3, <2>1, <2>2, <2>3, <2>4 DEF RequestStep
<1>4. QED
  BY <1>1, <1>2, <1>3 DEF Next, ProcessStep

\* A handler that returns is counted under the status that was sent.
LEMMA ReturnCounts ==
    ASSUME TypeOK, WrapperInv, MetricsInv,
           NEW r \in Requests, HandlerReturns(r),
           NEW code \in Statuses, code = request[r].status
    PROVE  MetricsInv'
<1>1. /\ code # None /\ request[r].logged = None
      /\ request'[r].pc = "done" /\ request'[r].logged = code
      /\ request'[r].wire = code
  BY EndEffect, StatusAssumption DEF WrapperInv, Sent, TypeOK, Request
<1>2. \A q \in Requests \ {r} : request'[q] = request[q]
  BY DEF HandlerReturns, TypeOK
<1>3. Counted(code)' = Counted(code) \cup {r} /\ r \notin Counted(code)
  BY <1>1, <1>2 DEF Counted
<1>4. \A s \in Statuses \ {code} : Counted(s)' = Counted(s)
  BY <1>1, <1>2 DEF Counted
<1>5. PanickedSet' = PanickedSet
  <2>1. ~Panicked(r) /\ ~Panicked(r)'
    BY <1>1 DEF HandlerReturns, Active, Panicked
  <2>2. QED
    BY <1>2, <2>1 DEF PanickedSet, Panicked
<1>6. Cardinality(Counted(code)') = Cardinality(Counted(code)) + 1
  BY <1>3, OneMore DEF Counted
<1>7. requestsTotal' = [requestsTotal EXCEPT ![code] = @ + 1]
      /\ panicsTotal' = panicsTotal
  BY DEF HandlerReturns
<1>8. \A s \in Statuses : requestsTotal'[s] = Cardinality(Counted(s)')
  <2>1. \A s \in Statuses : requestsTotal[s] = Cardinality(Counted(s))
    BY DEF MetricsInv, Counted
  <2>2. requestsTotal \in [Statuses -> Nat]
    BY DEF TypeOK
  <2>3. requestsTotal'[code] = Cardinality(Counted(code)')
    BY <1>1, <1>6, <1>7, <2>1, <2>2
  <2>4. ASSUME NEW s \in Statuses, s # code
        PROVE  requestsTotal'[s] = Cardinality(Counted(s)')
    <3>1. requestsTotal'[s] = requestsTotal[s]
      BY <1>7, <2>2, <2>4
    <3>2. Counted(s)' = Counted(s)
      BY <1>4, <2>4
    <3>3. QED
      BY <2>1, <3>1, <3>2
  <2>5. QED
    BY <2>3, <2>4
<1>9. panicsTotal' = Cardinality(PanickedSet')
  BY <1>5, <1>7 DEF MetricsInv, PanickedSet
<1>10. QED
  BY <1>8, <1>9 DEF MetricsInv, Counted, PanickedSet

\* A handler that panics is counted as a panic only.
LEMMA PanicCounts ==
    ASSUME TypeOK, WrapperInv, MetricsInv,
           NEW r \in Requests, HandlerPanics(r)
    PROVE  MetricsInv'
<1>1. request[r].logged = None /\ request'[r].logged = None
      /\ request[r].pc # "done" /\ request'[r].pc = "done"
  BY EndEffect DEF WrapperInv
<1>2. \A q \in Requests \ {r} : request'[q] = request[q]
  BY DEF HandlerPanics, TypeOK
<1>3. \A s \in Statuses : Counted(s)' = Counted(s)
  BY <1>1, <1>2 DEF Counted
<1>4. PanickedSet' = PanickedSet \cup {r} /\ r \notin PanickedSet
  BY <1>1, <1>2 DEF PanickedSet, Panicked
<1>5. Cardinality(PanickedSet') = Cardinality(PanickedSet) + 1
  BY <1>4, OneMore DEF PanickedSet
<1>6. requestsTotal' = requestsTotal /\ panicsTotal' = panicsTotal + 1
  BY DEF HandlerPanics
<1>7. panicsTotal' = Cardinality(PanickedSet')
  BY <1>5, <1>6 DEF MetricsInv, PanickedSet
<1>8. QED
  BY <1>3, <1>6, <1>7 DEF MetricsInv, Counted, PanickedSet

\* Every step keeps counters and responses together.
LEMMA MetricsStep ==
    ASSUME TypeOK, WrapperInv, MetricsInv, [Next]_vars
    PROVE  MetricsInv'
<1>1. CASE UNCHANGED vars
  BY <1>1, SameCounts DEF vars
<1>2. CASE ProcessStep
  <2>1. UNCHANGED <<request, metrics>>
    BY <1>2 DEF ProcessStep, StartupFails, StartRun, MainStep, RunFails,
       RunShutsDown, ShutdownReturns, CloseStore, Exit, DeadlinePasses, Signal,
       Listen, ListenFails
  <2>2. QED
    BY <2>1, SameCounts
<1>3. ASSUME NEW r \in Requests, RequestStep(r)
      PROVE  MetricsInv'
  <2>1. CASE Arrive(r) \/ HandlerUsesStore(r)
    BY <2>1, SameCounts DEF Arrive, HandlerUsesStore, Active, TypeOK, Request
  <2>0. \A q \in Requests \ {r} : request'[q] = request[q]
    BY <1>3, OthersKept
  <2>2. ASSUME NEW code \in Statuses,
               HandlerWritesHeader(r, code) \/ (code = StatusOK /\ HandlerWrites(r))
        PROVE  MetricsInv'
    <3>1. /\ request[r].pc = "handler" /\ request'[r].pc = "handler"
          /\ request'[r].logged = request[r].logged
          /\ request[r].logged = None
      BY <2>2, WriteEffect DEF WrapperInv
    <3>2. UNCHANGED metrics
      BY <2>2 DEF HandlerWritesHeader, HandlerWrites
    <3>3. QED
      BY <2>0, <3>1, <3>2, SameCounts
  <2>3. CASE HandlerWrites(r)
    BY <2>2, <2>3
  <2>4. CASE HandlerReturns(r)
    <3>1. PICK code \in Statuses : code = request[r].status
      BY DEF TypeOK, Request
    <3>2. QED
      BY <2>4, <3>1, ReturnCounts
  <2>5. CASE HandlerPanics(r)
    BY <2>5, PanicCounts
  <2>6. QED
    BY <1>3, <2>1, <2>2, <2>3, <2>4, <2>5 DEF RequestStep
<1>4. QED
  BY <1>1, <1>2, <1>3 DEF Next, ProcessStep

\* The sizes of disjoint sets add up.
LEMMA DisjointSum ==
    ASSUME NEW S \in SUBSET Requests, NEW T \in SUBSET Requests, S \cap T = {}
    PROVE  Cardinality(S \cup T) = Cardinality(S) + Cardinality(T)
<1>1. IsFiniteSet(S) /\ IsFiniteSet(T)
  BY RequestAssumption, FS_Subset
<1>2. Cardinality(S) \in Nat /\ Cardinality(T) \in Nat /\ Cardinality({}) = 0
  BY <1>1, FS_CardinalityType, FS_EmptySet
<1>3. Cardinality(S \cup T)
        = Cardinality(S) + Cardinality(T) - Cardinality(S \cap T)
  BY ONLY <1>1, FS_Union
<1>4. Cardinality(S \cap T) = 0
  BY <1>2
<1>5. QED
  BY ONLY <1>2, <1>3, <1>4

\* The ended requests with a status were logged with it, or panicked.
LEMMA MissedArePanics ==
    ASSUME TypeOK, WrapperInv, MetricsInv
    PROVE  RequestsMissedArePanics
<1> DEFINE Lost(s)  == {r \in Requests : Panicked(r) /\ request[r].wire = s}
           Answered(s) == {r \in Requests : request[r].pc = "done" /\ request[r].wire = s}
<1>1. ASSUME NEW s \in Statuses
      PROVE  requestsTotal[s] + Cardinality(Lost(s)) = Cardinality(Answered(s))
  <2>1. /\ Answered(s) = Counted(s) \cup Lost(s)
        /\ Counted(s) \cap Lost(s) = {}
    BY DEF Counted, Panicked, WrapperInv
  <2>2. Counted(s) \in SUBSET Requests /\ Lost(s) \in SUBSET Requests
    BY DEF Counted
  <2>3. Cardinality(Answered(s)) = Cardinality(Counted(s)) + Cardinality(Lost(s))
    BY ONLY <2>1, <2>2, DisjointSum
  <2>4. requestsTotal[s] = Cardinality(Counted(s))
    BY DEF MetricsInv
  <2>5. QED
    BY <2>3, <2>4
<1>2. QED
  BY <1>1 DEF RequestsMissedArePanics, MetricsInv, PanickedSet

\* http_requests_total falls short of the responses by the panics and by
\* nothing else, and panics_recovered_total counts those, for any handlers.
THEOREM MetricsMissPanicsOnly == Spec => []RequestsMissedArePanics
<1>1. Init => WrapperInv /\ MetricsInv
  <2>1. ASSUME Init
        PROVE  (\A s : Counted(s) = {}) /\ PanickedSet = {} /\ WrapperInv
    BY <2>1 DEF Init, Unserved, Counted, PanickedSet, Panicked, WrapperInv
  <2>2. Cardinality({}) = 0
    BY FS_EmptySet
  <2>3. QED
    BY <2>1, <2>2 DEF Init, MetricsInv, Counted, PanickedSet
<1>2. QED
  BY InitTypeOK, TypeStep, <1>1, WrapperStep, MetricsStep, MissedArePanics, PTL DEF Spec

-----------------------------------------------------------------------------
(* The responses *)

\* Until the handler is done, a body without a header is empty, and the error
\* body is not there.
BodyInv ==
    /\ \A r \in Requests :
        request[r].pc # "done" =>
            /\ "error" \notin request[r].body
            /\ ~request[r].wroteHeader => request[r].body = {}
    /\ AnsweredWhole

\* What a step of a request makes of its body.
LEMMA BodyEffect ==
    ASSUME TypeOK, NEW r \in Requests, RequestStep(r)
    PROVE  LET x == request[r]
               y == request'[r]
           IN  \/ x.pc # "done" /\ y.pc # "done"
                  /\ y.wroteHeader = x.wroteHeader /\ y.body = x.body
               \/ /\ x.pc # "done" /\ y.pc # "done"
                  /\ y.wroteHeader /\ y.body \subseteq x.body \cup {"page"}
               \/ /\ HandlerReturns(r) /\ x.pc # "done" /\ y.pc = "done"
                  /\ y.body = x.body /\ y.logged = x.status
                  /\ y.wire = Sent(x, StatusOK)
               \/ /\ HandlerPanics(r) /\ x.pc # "done" /\ y.pc = "done"
                  /\ y.body = x.body \cup {"error"} /\ y.logged = x.logged
                  /\ y.wroteHeader = x.wroteHeader
                  /\ y.wire = Sent(x, StatusInternalServerError)
<1> DEFINE x == request[r]
<1>0. x \in Request
  BY DEF TypeOK
<1>1. CASE Arrive(r) \/ HandlerUsesStore(r)
  BY <1>0, <1>1 DEF Arrive, HandlerUsesStore, Active, TypeOK, Request
<1>2. ASSUME NEW code \in Statuses, HandlerWritesHeader(r, code)
      PROVE  /\ x.pc # "done" /\ request'[r].pc # "done"
             /\ request'[r].wroteHeader /\ request'[r].body = x.body
  <2>1. request'[r] = WithHeader(x, code)
    BY <1>2 DEF HandlerWritesHeader, TypeOK
  <2>2. WithHeader(x, code).body = x.body
    BY <1>0 DEF WithHeader, Request
  <2>3. QED
    BY <1>2, <2>1, <2>2, WriteEffect
<1>3. ASSUME HandlerWrites(r)
      PROVE  /\ x.pc # "done" /\ request'[r].pc # "done"
             /\ request'[r].wroteHeader /\ request'[r].body = x.body \cup {"page"}
  <2>1. request'[r] = [WithHeader(x, StatusOK) EXCEPT !.body = @ \cup {"page"}]
    BY <1>3 DEF HandlerWrites, TypeOK
  <2>2. WithHeader(x, StatusOK).body = x.body /\ WithHeader(x, StatusOK) \in Request
    BY <1>0, HeaderTypes DEF WithHeader, Request
  <2>3. request'[r].body = x.body \cup {"page"}
    BY <2>1, <2>2 DEF Request
  <2>4. QED
    BY <1>3, <2>3, WriteEffect
<1>4. CASE HandlerReturns(r)
  <2>1. request'[r] = [x EXCEPT !.pc = "done", !.logged = x.status,
                                !.wire = Sent(x, StatusOK)]
    BY <1>4 DEF HandlerReturns, TypeOK
  <2>2. request'[r].body = x.body
    BY <1>0, <2>1 DEF Request
  <2>3. QED
    BY <1>4, <2>2, EndEffect
<1>5. CASE HandlerPanics(r)
  <2>1. request'[r] = [x EXCEPT !.pc = "done",
                                !.wire = Sent(x, StatusInternalServerError),
                                !.body = @ \cup {"error"}]
    BY <1>5 DEF HandlerPanics, TypeOK
  <2>2. /\ request'[r].body = x.body \cup {"error"}
        /\ request'[r].wroteHeader = x.wroteHeader
        /\ request'[r].wire = Sent(x, StatusInternalServerError)
    BY <1>0, <2>1 DEF Request
  <2>3. QED
    BY <1>5, <2>2, EndEffect
<1>6. QED
  BY <1>1, <1>2, <1>3, <1>4, <1>5 DEF RequestStep

LEMMA BodyStep ==
    ASSUME TypeOK, WrapperInv, BodyInv, [Next]_vars
    PROVE  BodyInv'
<1> USE DEF BodyInv, AnsweredWhole, Panicked
<1>1. CASE request' = request
  BY <1>1
<1>2. ASSUME NEW r \in Requests, RequestStep(r)
      PROVE  BodyInv'
  <2> DEFINE x == request[r]
             y == request'[r]
  <2>1. \A q \in Requests \ {r} : request'[q] = request[q]
    BY <1>2, OthersKept
  <2>2. x.wroteHeader \in BOOLEAN /\ x.wire \in Statuses \cup {None}
        /\ x.status \in Statuses
    BY DEF TypeOK, Request
  <2>3. /\ x.pc # "done" =>
              /\ x.logged = None
              /\ x.wroteHeader => x.wire = x.status
              /\ ~x.wroteHeader => x.wire = None /\ x.status = StatusOK
    BY DEF WrapperInv
  <2>4. CASE HandlerReturns(r)
    <3>1. x.pc # "done" /\ y.pc = "done" /\ y.logged = x.status
          /\ y.wire = Sent(x, StatusOK)
      BY <2>4, EndEffect
    <3>2. ~HandlerPanics(r)
      BY <2>4 DEF HandlerReturns, HandlerPanics, TypeOK
    <3>3. y.body = x.body
      BY <1>2, <3>1, <3>2, BodyEffect
    <3>4. Sent(x, StatusOK) = x.status
      BY <2>2, <2>3, <3>1 DEF Sent
    <3>5. QED
      BY <2>1, <2>2, <3>1, <3>3, <3>4
  <2>5. CASE HandlerPanics(r)
    BY <1>2, <2>1, <2>2, <2>3, <2>5, BodyEffect DEF Sent
  <2>6. CASE ~HandlerReturns(r) /\ ~HandlerPanics(r)
    BY <1>2, <2>1, <2>2, <2>3, <2>6, BodyEffect
  <2>7. QED
    BY <2>4, <2>5, <2>6
<1>3. ProcessStep => request' = request
  BY DEF ProcessStep, StartupFails, StartRun, MainStep, RunFails,
     RunShutsDown, ShutdownReturns, CloseStore, Exit, DeadlinePasses, Signal,
     Listen, ListenFails
<1>4. QED
  BY <1>1, <1>2, <1>3 DEF Next, ProcessStep, vars

\* Whatever handlers do, a client gets the handler's response or a clean error
\* response, but for the one case of a panic after the header.
THEOREM ResponsesAreWhole == Spec => []AnsweredWhole
<1>1. Init => WrapperInv /\ BodyInv
  BY DEF Init, Unserved, WrapperInv, BodyInv, AnsweredWhole, Panicked
<1>2. BodyInv => AnsweredWhole
  BY DEF BodyInv
<1>3. QED
  BY InitTypeOK, TypeStep, <1>1, <1>2, WrapperStep, BodyStep, PTL DEF Spec
=============================================================================
