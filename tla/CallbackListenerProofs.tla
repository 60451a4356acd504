----------------------- MODULE CallbackListenerProofs -----------------------
(***************************************************************************)
(* Theorems about CallbackListener, for any number of callbacks and any    *)
(* capacity of the channel.                                                *)
(***************************************************************************)
EXTENDS CallbackListener, FiniteSetTheorems, TLAPS

USE ListenerAssumption DEF HasRoom, Queued, Drained

\* The contents of a bounded channel, as a sequence that is not too long.
LEMMA BoundedSequence ==
    ASSUME NEW S, NEW n \in Nat, NEW s
    PROVE  s \in BoundedSeq(S, n) <=> s \in Seq(S) /\ Len(s) <= n
<1>1. ASSUME s \in BoundedSeq(S, n)
      PROVE  s \in Seq(S) /\ Len(s) <= n
  <2>1. PICK m \in 0..n : s \in [1..m -> S]
    BY <1>1 DEF BoundedSeq, SeqOf
  <2>2. s \in Seq(S) /\ Len(s) = m
    BY <2>1
  <2>3. QED
    BY <2>2
<1>2. ASSUME s \in Seq(S), Len(s) <= n
      PROVE  s \in BoundedSeq(S, n)
  <2>1. Len(s) \in 0..n /\ s \in [1..Len(s) -> S]
    BY <1>2
  <2>2. QED
    BY <2>1 DEF BoundedSeq, SeqOf
<1>3. QED
  BY <1>1, <1>2

\* A channel with room takes one more value; nothing else comes in.
LEMMA SendTypes ==
    ASSUME NEW S, NEW n \in Nat, NEW s \in BoundedSeq(S, n), NEW x \in S, Len(s) < n
    PROVE  /\ Append(s, x) \in BoundedSeq(S, n)
           /\ ToSet(Append(s, x)) = ToSet(s) \cup {x}
<1>1. s \in Seq(S)
  BY BoundedSequence
<1>2. Append(s, x) \in Seq(S) /\ Len(Append(s, x)) <= n
  BY <1>1
<1>3. ToSet(Append(s, x)) = ToSet(s) \cup {x}
  BY <1>1 DEF ToSet
<1>4. QED
  BY <1>2, <1>3, BoundedSequence

\* Receiving takes the head out and leaves the other values.
LEMMA ReceiveTypes ==
    ASSUME NEW S, NEW n \in Nat, NEW s \in BoundedSeq(S, n), s # <<>>
    PROVE  /\ Tail(s) \in BoundedSeq(S, n) /\ Head(s) \in S
           /\ ToSet(s) \subseteq ToSet(Tail(s)) \cup {Head(s)}
<1>1. s \in Seq(S) /\ Len(s) <= n
  BY BoundedSequence
<1>2. Tail(s) \in Seq(S) /\ Len(Tail(s)) <= n /\ Head(s) \in S
  BY <1>1
<1>3. ASSUME NEW y \in ToSet(s)
      PROVE  y \in ToSet(Tail(s)) \cup {Head(s)}
  <2>1. PICK i \in 1..Len(s) : y = s[i]
    BY <1>1, <1>3 DEF ToSet
  <2>2. CASE i = 1
    BY <1>1, <2>1, <2>2
  <2>3. CASE i # 1
    <3>1. i - 1 \in 1..Len(Tail(s)) /\ Tail(s)[i - 1] = s[i]
      BY <1>1, <2>1, <2>3
    <3>2. DOMAIN Tail(s) = 1..Len(Tail(s))
      BY <1>2
    <3>3. Tail(s)[i - 1] \in ToSet(Tail(s))
      BY <3>1, <3>2, Zenon DEF ToSet
    <3>4. QED
      BY <2>1, <3>1, <3>3
  <2>4. QED
    BY <2>2, <2>3
<1>4. QED
  BY <1>2, <1>3, BoundedSequence

\* main receives once, before it cleans up, and it closes the listener before
\* it waits for the handlers.
ListenerInv ==
    /\ main \in {"starting", "opening", "waiting"} => result = None
    /\ main \in {"shutdown", "exited"} => server = "closed"
    /\ AnsweredWasDelivered
    /\ NoHandlerOutlivesMain

\* One case per statement of main and per step of a handler.
LEMMA ListenerStep ==
    ASSUME TypeOK, ListenerInv, [Next]_vars
    PROVE  TypeOK' /\ ListenerInv'
<1> USE DEF TypeOK, ListenerInv, AnsweredWasDelivered, NoHandlerOutlivesMain, Active
<1>1. CASE UNCHANGED vars
  BY <1>1 DEF vars
<1>2. CASE StartFlow \/ StartFlowFails \/ OpenBrowser
  BY <1>2 DEF StartFlow, StartFlowFails, OpenBrowser
<1>3. CASE Receive
  <2>1. /\ resultCh' \in BoundedSeq(Requests, Capacity) /\ result' \in Requests
        /\ ToSet(resultCh) \subseteq ToSet(resultCh') \cup {result'}
    BY <1>3, ReceiveTypes DEF Receive
  <2>2. result = None /\ \A r \in Requests : result # r
    BY <1>3 DEF Receive
  <2>3. QED
    BY <1>3, <2>1, <2>2 DEF Receive
<1>4. CASE Process \/ CloseListener \/ ShutdownReturns \/ ServeBreaks
  BY <1>4 DEF Process, CloseListener, ShutdownReturns, ServeBreaks
<1>5. ASSUME NEW r \in Requests, Arrive(r)
      PROVE  TypeOK' /\ ListenerInv'
  BY <1>5 DEF Arrive
<1>6. ASSUME NEW r \in Requests, Send(r)
      PROVE  TypeOK' /\ ListenerInv'
  <2>1. /\ resultCh' \in BoundedSeq(Requests, Capacity)
        /\ ToSet(resultCh') = ToSet(resultCh) \cup {r}
    BY <1>6, SendTypes DEF Send
  <2>2. QED
    BY <1>6, <2>1 DEF Send
<1>7. ASSUME NEW r \in Requests, Reply(r)
      PROVE  TypeOK' /\ ListenerInv'
  BY <1>7 DEF Reply
<1>8. QED
  BY <1>1, <1>2, <1>3, <1>4, <1>5, <1>6, <1>7 DEF Next, MainStep, HandlerStep

\* The invariant of the login.
LEMMA ListenerInvariant == Spec => [](TypeOK /\ ListenerInv)
<1>1. Init => TypeOK /\ ListenerInv
  <2>1. <<>> \in Seq(Requests) /\ Len(<<>>) <= Capacity
    OBVIOUS
  <2>2. <<>> \in BoundedSeq(Requests, Capacity)
    BY <2>1, BoundedSequence
  <2>3. QED
    BY <2>2 DEF Init, TypeOK, ListenerInv, AnsweredWasDelivered,
                NoHandlerOutlivesMain, Active
<1>2. QED
  BY <1>1, ListenerStep, PTL DEF Spec

\* The channel never holds more than its capacity, and run knows its outcome
\* before it cleans up.
THEOREM ListenerTypeCorrect == Spec => []TypeOK
BY ListenerInvariant, PTL

\* A browser that was told "successful" is the one main received from, or its
\* parameters are still in the channel: no answered callback is dropped.
THEOREM AnsweredCallbacksAreDelivered == Spec => []AnsweredWasDelivered
<1>1. ListenerInv => AnsweredWasDelivered
  BY DEF ListenerInv
<1>2. QED
  BY ListenerInvariant, <1>1, PTL

\* run returns only when no callback handler is at work, so that main does not
\* end the process under one that is about to answer.
THEOREM HandlersEndFirst == Spec => []NoHandlerOutlivesMain
<1>1. ListenerInv => NoHandlerOutlivesMain
  BY DEF ListenerInv
<1>2. QED
  BY ListenerInvariant, <1>1, PTL

-----------------------------------------------------------------------------
(* Who waits for whom *)

\* No wake-up is lost: main never waits for handlers that wait for main.
THEOREM NoWakeupIsLost == Spec => []NoLostWakeup
<1>1. TypeOK /\ ListenerInv => NoLostWakeup
  <2>1. SUFFICES ASSUME TypeOK, ListenerInv, main = "waiting", resultCh = <<>>,
                        NEW r \in Requests, handler[r] # "none"
                 PROVE  HasRoom /\ handler[r] = "sending"
    BY DEF NoLostWakeup
  <2>2. HasRoom
    BY <2>1
  <2>3. result # r /\ r \notin ToSet(resultCh)
    BY <2>1 DEF ListenerInv, ToSet
  <2>4. handler[r] = "sending"
    BY <2>1, <2>3 DEF ListenerInv, AnsweredWasDelivered, TypeOK, Active
  <2>5. QED
    BY <2>2, <2>4
<1>2. QED
  BY ListenerInvariant, <1>1, PTL

\* A handler that blocks behind a main that received is never released.
THEOREM StuckMeansForever == Spec => StuckForGood
<1>1. ASSUME TypeOK, [Next]_vars, Stuck
      PROVE  Stuck'
  <2>1. PICK r \in Requests : handler[r] = "sending"
    BY <1>1 DEF Stuck, Blocked
  <2>2. \A q \in Requests : ~Send(q)
    BY <1>1 DEF Send, Stuck, Blocked
  <2>3. ~ShutdownReturns
    BY <2>1 DEF ShutdownReturns, Active
  <2>4. resultCh' = resultCh /\ main' \in {"processing", "cleanup", "shutdown"}
    BY <1>1, <2>2, <2>3 DEF Stuck, Next, MainStep, HandlerStep, StartFlow,
       StartFlowFails, OpenBrowser, Receive, Process, CloseListener, Arrive,
       Reply, ServeBreaks, vars
  <2>5. handler'[r] = "sending"
    BY <1>1, <2>1, <2>2 DEF TypeOK, Stuck, Next, MainStep, HandlerStep, StartFlow,
       StartFlowFails, OpenBrowser, Receive, Process, CloseListener,
       ShutdownReturns, Arrive, Reply, ServeBreaks, vars
  <2>6. QED
    BY <1>1, <2>4, <2>5 DEF Stuck, Blocked
<1>2. QED
  BY ListenerTypeCorrect, <1>1, PTL DEF Spec, StuckForGood

-----------------------------------------------------------------------------
(* How many callbacks it takes to block one *)

\* Each result in the channel and with main is of another handler, which sent
\* it; finitely many callbacks arrived, none before a flow started.
CrowdInv ==
    /\ IsInjective(resultCh)
    /\ result \notin ToSet(resultCh)
    /\ \A r \in Requests :
        r = result \/ r \in ToSet(resultCh) => handler[r] \in {"replying", "answered"}
    /\ IsFiniteSet(Arrived)
    /\ main \notin {"opening", "waiting"} /\ result = None => Arrived = {}

\* Sending adds a value of its own at the end.
LEMMA SendKeepsDistinct ==
    ASSUME NEW S, NEW s \in Seq(S), NEW x \in S, IsInjective(s), x \notin ToSet(s)
    PROVE  IsInjective(Append(s, x))
<1>1. /\ DOMAIN Append(s, x) = 1..Len(s) + 1 /\ DOMAIN s = 1..Len(s)
      /\ Append(s, x)[Len(s) + 1] = x
      /\ \A i \in 1..Len(s) : Append(s, x)[i] = s[i]
  OBVIOUS
<1>2. \A i \in 1..Len(s) : s[i] # x
  BY <1>1, Zenon DEF ToSet
<1>3. SUFFICES ASSUME NEW i \in 1..Len(s) + 1, NEW j \in 1..Len(s) + 1,
                      Append(s, x)[i] = Append(s, x)[j]
               PROVE  i = j
  BY <1>1, Zenon DEF IsInjective
<1>4. CASE i \in 1..Len(s) /\ j \in 1..Len(s)
  BY <1>1, <1>3, <1>4, Zenon DEF IsInjective
<1>5. CASE i = Len(s) + 1 \/ j = Len(s) + 1
  <2>1. Len(s) \in Nat
    OBVIOUS
  <2>2. (i \in 1..Len(s) \/ i = Len(s) + 1) /\ (j \in 1..Len(s) \/ j = Len(s) + 1)
    BY <1>3, <2>1
  <2>3. QED
    BY <1>1, <1>2, <1>3, <1>5, <2>2
<1>6. QED
  BY <1>3, <1>4, <1>5

\* Receiving takes the only copy of the head.
LEMMA ReceiveKeepsDistinct ==
    ASSUME NEW S, NEW s \in Seq(S), s # <<>>, IsInjective(s)
    PROVE  /\ IsInjective(Tail(s)) /\ Head(s) \notin ToSet(Tail(s))
           /\ ToSet(Tail(s)) \subseteq ToSet(s) /\ Head(s) \in ToSet(s)
<1>1. /\ DOMAIN s = 1..Len(s) /\ DOMAIN Tail(s) = 1..Len(s) - 1
      /\ Len(s) \in Nat \ {0} /\ Head(s) = s[1]
      /\ \A i \in 1..Len(s) - 1 : Tail(s)[i] = s[i + 1]
  OBVIOUS
<1>2. \A i, j \in 1..Len(s) : s[i] = s[j] => i = j
  BY <1>1, Zenon DEF IsInjective
<1>3. \A i \in 1..Len(s) - 1 : i + 1 \in 1..Len(s) /\ 1 # i + 1
  BY <1>1
<1>4. 1 \in 1..Len(s)
  BY <1>1
<1>5. \A i \in 1..Len(s) - 1 : Tail(s)[i] # Head(s)
  BY <1>1, <1>2, <1>3, <1>4
<1>6. \A i, j \in 1..Len(s) - 1 : Tail(s)[i] = Tail(s)[j] => i = j
  BY <1>1, <1>2, <1>3
<1>7. Head(s) \notin ToSet(Tail(s))
  BY <1>1, <1>5, Zenon DEF ToSet
<1>8. ToSet(Tail(s)) \subseteq ToSet(s)
  BY <1>1, <1>3, Zenon DEF ToSet
<1>9. Head(s) \in ToSet(s)
  BY <1>1, <1>4, Zenon DEF ToSet
<1>10. QED
  BY <1>1, <1>6, <1>7, <1>8, <1>9, Zenon DEF IsInjective

\* One case per statement of main and per step of a handler.
LEMMA CrowdStep ==
    ASSUME TypeOK, ListenerInv, CrowdInv, [Next]_vars
    PROVE  CrowdInv'
<1> USE DEF CrowdInv, Arrived
<1>1. CASE UNCHANGED vars
  BY <1>1 DEF vars
<1>2. CASE StartFlow \/ StartFlowFails \/ OpenBrowser
  BY <1>2 DEF StartFlow, StartFlowFails, OpenBrowser
<1>3. CASE Receive
  <2>1. resultCh \in Seq(Requests) /\ resultCh # <<>>
    BY <1>3, BoundedSequence DEF TypeOK, Receive
  <2>2. /\ IsInjective(resultCh') /\ result' \notin ToSet(resultCh')
        /\ ToSet(resultCh') \subseteq ToSet(resultCh) /\ result' \in ToSet(resultCh)
        /\ result' \in Requests
    BY <1>3, <2>1, ReceiveKeepsDistinct DEF Receive
  <2>3. handler' = handler /\ result' # None
    BY <1>3, <2>2 DEF Receive
  <2>4. QED
    BY <2>2, <2>3
<1>4. CASE Process \/ CloseListener \/ ShutdownReturns \/ ServeBreaks
  BY <1>4 DEF Process, CloseListener, ShutdownReturns, ServeBreaks, ListenerInv
<1>5. ASSUME NEW r \in Requests, Arrive(r)
      PROVE  CrowdInv'
  <2>1. Arrived' = Arrived \cup {r}
    BY <1>5 DEF Arrive, TypeOK
  <2>2. IsFiniteSet(Arrived')
    BY <2>1, FS_AddElement
  <2>3. UNCHANGED <<main, result, resultCh>>
        /\ (main \in {"opening", "waiting"} \/ result # None)
    BY <1>5 DEF Arrive
  <2>4. \A q \in Requests :
          q = result \/ q \in ToSet(resultCh) => handler'[q] \in {"replying", "answered"}
    BY <1>5 DEF Arrive, TypeOK
  <2>5. QED
    BY <2>2, <2>3, <2>4
<1>6. ASSUME NEW r \in Requests, Send(r)
      PROVE  CrowdInv'
  <2>1. resultCh \in Seq(Requests) /\ r \notin ToSet(resultCh) /\ r # result
    BY <1>6, BoundedSequence DEF TypeOK, Send
  <2>2. IsInjective(resultCh')
    BY <1>6, <2>1, SendKeepsDistinct DEF Send
  <2>3. ToSet(resultCh') = ToSet(resultCh) \cup {r}
    BY <1>6, SendTypes DEF TypeOK, Send
  <2>4. /\ Arrived' = Arrived /\ UNCHANGED <<main, result>>
        /\ handler' = [handler EXCEPT ![r] = "replying"]
        /\ handler[r] = "sending"
    BY <1>6 DEF Send, TypeOK
  <2>5. QED
    BY <2>1, <2>2, <2>3, <2>4 DEF TypeOK
<1>7. ASSUME NEW r \in Requests, Reply(r)
      PROVE  CrowdInv'
  <2>1. Arrived' = Arrived
    BY <1>7 DEF Reply, TypeOK
  <2>2. QED
    BY <1>7, <2>1 DEF Reply, TypeOK
<1>8. QED
  BY <1>1, <1>2, <1>3, <1>4, <1>5, <1>6, <1>7 DEF Next, MainStep, HandlerStep

LEMMA CrowdInvariant == Spec => [](TypeOK /\ ListenerInv /\ CrowdInv)
<1>1. Init => CrowdInv
  <2>1. SUFFICES ASSUME Init PROVE CrowdInv
    OBVIOUS
  <2>2. Arrived = {} /\ resultCh = <<>> /\ DOMAIN resultCh = {}
    BY <2>1 DEF Init, Arrived
  <2>3. ToSet(resultCh) = {} /\ IsInjective(resultCh)
    BY <2>2 DEF ToSet, IsInjective
  <2>4. \A r \in Requests : r # result
    BY <2>1 DEF Init
  <2>5. QED
    BY <2>2, <2>3, <2>4, FS_EmptySet DEF CrowdInv
<1>2. QED
  BY ListenerInvariant, <1>1, CrowdStep, PTL DEF Spec

\* main, the channel and the blocked handler are Capacity + 2 callbacks, and
\* counting them does not count one twice.
LEMMA BlockedIsCrowded ==
    ASSUME TypeOK, CrowdInv, NEW r \in Requests, handler[r] = "sending",
           ~HasRoom, main \notin {"opening", "waiting"}
    PROVE  Crowded
<1>1. /\ resultCh \in Seq(Requests) /\ Len(resultCh) = Capacity
      /\ Capacity \in Nat /\ DOMAIN resultCh = 1..Capacity
  BY BoundedSequence DEF TypeOK
<1>2. r \in Arrived
  BY DEF Arrived
<1>3. result \in Arrived /\ result # r
  <2>1. result # None
    BY <1>2 DEF CrowdInv
  <2>2. QED
    BY <2>1 DEF CrowdInv, TypeOK, Arrived
<1>4. \A i \in 1..Capacity :
        /\ resultCh[i] \in Arrived /\ resultCh[i] # r /\ resultCh[i] # result
        /\ \A j \in 1..Capacity : resultCh[i] = resultCh[j] => i = j
  <2>1. ASSUME NEW i \in 1..Capacity
        PROVE  resultCh[i] \in Requests /\ resultCh[i] \in ToSet(resultCh)
    <3>1. resultCh[i] \in ToSet(resultCh)
      BY <1>1, <2>1, Zenon DEF ToSet
    <3>2. QED
      BY <1>1, <3>1
  <2>2. \A i, j \in 1..Capacity : resultCh[i] = resultCh[j] => i = j
    BY <1>1, Zenon DEF CrowdInv, IsInjective
  <2>3. QED
    BY <2>1, <2>2 DEF CrowdInv, Arrived
<1> DEFINE who == [i \in 0..Capacity + 1 |->
                     IF i = 0 THEN result
                     ELSE IF i = Capacity + 1 THEN r ELSE resultCh[i]]
<1>5. \A i \in 0..Capacity + 1 : i = 0 \/ i = Capacity + 1 \/ i \in 1..Capacity
  BY <1>1
<1>6. who \in [0..Capacity + 1 -> Arrived]
  BY <1>2, <1>3, <1>4, <1>5
<1>7. ASSUME NEW i \in 0..Capacity + 1, NEW j \in 0..Capacity + 1, who[i] = who[j]
      PROVE  i = j
  BY <1>1, <1>3, <1>4, <1>5, <1>7
<1>8. who \in Injection(0..Capacity + 1, Arrived)
  <2> HIDE DEF who
  <2>1. DOMAIN who = 0..Capacity + 1
    BY <1>6
  <2>2. QED
    BY <1>6, <1>7, <2>1, Zenon DEF Injection, IsInjective
<1>9. IsFiniteSet(Arrived) /\ Cardinality(Arrived) \in Nat
  BY FS_CardinalityType DEF CrowdInv
<1>10. Cardinality(0..Capacity + 1) <= Cardinality(Arrived)
  BY <1>8, <1>9, FS_Injection
<1>11. Cardinality(0..Capacity + 1) = Capacity + 2
  BY <1>1, FS_Interval
<1>12. QED
  BY <1>1, <1>9, <1>10, <1>11 DEF Crowded

\* The login hangs only if Capacity + 2 callbacks got in, whatever the order
\* in which browsers, handlers and main move.
THEOREM OnlyACrowdBlocks == Spec => []BlockedOnlyIfCrowded
<1>1. TypeOK /\ CrowdInv => BlockedOnlyIfCrowded
  BY BlockedIsCrowded DEF BlockedOnlyIfCrowded, Blocked
<1>2. QED
  BY CrowdInvariant, <1>1, PTL
=============================================================================
