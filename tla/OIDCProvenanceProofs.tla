------------------------ MODULE OIDCProvenanceProofs ------------------------
(***************************************************************************)
(* Theorems about what OIDCProvider mixes up, redirects to and accepts:    *)
(* where codes and ID tokens come from, for every value of the constants.  *)
(* They build on the invariants of OIDCProviderProofs.                     *)
(***************************************************************************)
EXTENDS OIDCProviderProofs

USE AbsentAssumption, NoneAssumption, InputAssumption, BoundAssumption
USE DEF store, provider, flowHist, codeHist, Without, LoseMaps, AsksHandle, Answer,
        Answering

-----------------------------------------------------------------------------
(* What a step leaves alone *)

\* A request stays filed, a code issued, a session confirmed and a request
\* taken; no process comes back.
LEMMA PastStays ==
    ASSUME TypeOK, FlowInv, [Next]_vars
    PROVE  /\ \A s \in FlowStates : origin[s] # None => origin'[s] = origin[s]
           /\ \A k \in Codes : issued[k] # None => issued'[k] = issued[k]
           /\ sessions \subseteq sessions'
           /\ taken \subseteq taken'
           /\ epoch' \in {epoch, epoch + 1}
<1>1. CASE \E w \in AuthWorkers : StorePending(w)
  <2>1. PICK w \in AuthWorkers : StorePending(w)
    BY <1>1
  <2>2. /\ \E x : origin' = [origin EXCEPT ![auth[w].state] = x]
        /\ UNCHANGED <<issued, sessions, taken, epoch>>
    BY <2>1 DEF StorePending
  <2>3. origin[auth[w].state] = None
    BY <2>1 DEF StorePending, FlowInv, FilingHandlers
  <2>4. QED
    BY <2>2, <2>3 DEF TypeOK
<1>2. CASE \E w \in CallbackWorkers : CallbackIssue(w)
  <2>1. PICK w \in CallbackWorkers, k \in Codes :
          /\ issued[k] = None
          /\ \E x : issued' = [issued EXCEPT ![k] = x]
    BY <1>2 DEF CallbackIssue
  <2>2. UNCHANGED <<origin, sessions, taken, epoch>>
    BY <1>2 DEF CallbackIssue
  <2>3. QED
    BY <2>1, <2>2 DEF TypeOK
<1>3. CASE ~(\E w \in AuthWorkers : StorePending(w))
           /\ ~(\E w \in CallbackWorkers : CallbackIssue(w))
  <2>1. UNCHANGED <<origin, issued>>
    BY <1>3 DEF Next, AuthRequestArrives, AuthorizeRejected, AuthorizeRefused,
       AuthorizeAsksHandle, AuthorizeAccepted, AuthEnter, AuthStep, StartFlow,
       StartFlowFails, AuthorizeReply, CallbackArrives, CallbackAccepted,
       CallbackRejected, CallbackEnter, CallbackStep, CallbackExchange,
       CallbackExchangeFails, CallbackTake, CallbackPlain, CallbackExpired, CallbackFresh,
       CallbackReply, TokenRequestArrives, TokenRejected, TokenConsume,
       TokenUnknown, TokenStep, TokenGrantRefused, TokenGrantAccepted,
       TokenClientAccepted, TokenClientRefused, TokenSign, TokenSignFails,
       TokenReply, Tick, Restart, RegisteredElsewhere, vars
  <2>2. sessions \subseteq sessions' /\ taken \subseteq taken'
        /\ epoch' \in {epoch, epoch + 1}
    BY <1>3 DEF Next, AuthRequestArrives, AuthorizeRejected, AuthorizeRefused,
       AuthorizeAsksHandle, AuthorizeAccepted, AuthEnter, AuthStep, StartFlow,
       StartFlowFails, AuthorizeReply, CallbackArrives, CallbackAccepted,
       CallbackRejected, CallbackEnter, CallbackStep, CallbackExchange,
       CallbackExchangeFails, CallbackTake, CallbackPlain, CallbackExpired, CallbackFresh,
       CallbackReply, TokenRequestArrives, TokenRejected, TokenConsume,
       TokenUnknown, TokenStep, TokenGrantRefused, TokenGrantAccepted,
       TokenClientAccepted, TokenClientRefused, TokenSign, TokenSignFails,
       TokenReply, Tick, Restart, RegisteredElsewhere, vars
  <2>3. QED
    BY <2>1, <2>2
<1>4. QED
  BY <1>1, <1>2, <1>3

\* Only a step of a /callback handler issues, delivers, takes or confirms, or
\* moves such a handler beyond its first section.
LEMMA CallbackQuiet ==
    ASSUME TypeOK, [Next]_vars, ~(\E w \in CallbackWorkers : CallbackStep(w))
    PROVE  /\ UNCHANGED <<issued, delivered, sessions, taken>>
           /\ \A v \in CallbackWorkers :
                cb'[v] = cb[v] \/ cb'[v].pc \in {"idle", "exchange", "failed"}
<1>1. CASE CallbackArrives
  <2>1. PICK w \in CallbackWorkers, s \in FlowStates, pc \in {"exchange", "failed"} :
          CallbackEnter(w, s, pc)
    BY <1>1 DEF CallbackArrives, CallbackAccepted, CallbackRejected
  <2>2. QED
    BY <2>1 DEF CallbackEnter, TypeOK
<1>2. CASE Restart
  BY <1>2 DEF Restart, IdleCallback
<1>3. CASE ~CallbackArrives /\ ~Restart
  <2>1. UNCHANGED <<issued, delivered, sessions, taken, cb>>
    BY <1>3 DEF Next, AuthRequestArrives, AuthorizeRejected, AuthorizeRefused,
       AuthorizeAsksHandle, AuthorizeAccepted, AuthEnter, AuthStep, StartFlow,
       StartFlowFails, StorePending, AuthorizeReply, TokenRequestArrives,
       TokenRejected, TokenConsume, TokenUnknown, TokenStep, TokenGrantRefused,
       TokenGrantAccepted, TokenClientAccepted, TokenClientRefused, TokenSign,
       TokenSignFails, TokenReply, Tick, RegisteredElsewhere, vars
  <2>2. QED
    BY <2>1
<1>4. QED
  BY <1>1, <1>2, <1>3

\* Where each step of a /callback handler leaves its locals.
LEMMA CallbackEffect ==
    ASSUME TypeOK, NEW w \in CallbackWorkers, CallbackStep(w)
    PROVE  /\ \A v \in CallbackWorkers \ {w} : cb'[v] = cb[v]
           /\ CallbackExchange(w) =>
                /\ cb'[w].pc = "take" /\ cb'[w].state = cb[w].state
                /\ sessions' = sessions \cup {<<cb'[w].state, cb'[w].did>>}
           /\ CallbackTake(w) =>
                /\ cb'[w].pc = "check_age" /\ cb'[w].state = cb[w].state
                /\ cb'[w].did = cb[w].did
                /\ cb'[w].pending = pendingRequests[cb[w].state]
           /\ CallbackFresh(w) =>
                /\ cb'[w].pc = "issue" /\ cb'[w].state = cb[w].state
                /\ cb'[w].did = cb[w].did /\ cb'[w].pending = cb[w].pending
                /\ cb'[w].freshAt = now
           /\ CallbackPlain(w) =>
                cb'[w].pc = "plain" /\ cb'[w].state = cb[w].state
           /\ CallbackExpired(w) =>
                /\ cb'[w].pc \in {"error_redirect", "error_page"}
                /\ cb'[w].state = cb[w].state /\ cb'[w].pending = cb[w].pending
           /\ CallbackIssue(w) =>
                /\ cb'[w].pc \in {"code_redirect", "bare_redirect"}
                /\ cb'[w].state = cb[w].state /\ cb'[w].pending = cb[w].pending
           /\ CallbackExchangeFails(w) => cb'[w].pc = "failed"
           /\ CallbackReply(w) => cb'[w].pc = "idle"
<1>1. cb \in [CallbackWorkers -> CallbackWorker]
  BY DEF TypeOK
<1>2. \A v \in CallbackWorkers \ {w} : cb'[v] = cb[v]
  BY <1>1 DEF CallbackStep, CallbackExchange, CallbackExchangeFails, CallbackTake,
     CallbackPlain, CallbackExpired, CallbackFresh, CallbackIssue, CallbackReply
<1>3. CallbackExchange(w) =>
        /\ cb'[w].pc = "take" /\ cb'[w].state = cb[w].state
        /\ sessions' = sessions \cup {<<cb'[w].state, cb'[w].did>>}
  BY <1>1 DEF CallbackExchange, CallbackWorker
<1>4. CallbackTake(w) =>
        /\ cb'[w].pc = "check_age" /\ cb'[w].state = cb[w].state
        /\ cb'[w].did = cb[w].did
        /\ cb'[w].pending = pendingRequests[cb[w].state]
  BY <1>1 DEF CallbackTake, CallbackWorker
<1>5. /\ CallbackPlain(w) =>
            cb'[w].pc = "plain" /\ cb'[w].state = cb[w].state
      /\ CallbackExchangeFails(w) => cb'[w].pc = "failed"
  BY <1>1 DEF CallbackPlain, CallbackExchangeFails, CallbackWorker
<1>6. CallbackExpired(w) =>
        /\ cb'[w].pc \in {"error_redirect", "error_page"}
        /\ cb'[w].state = cb[w].state /\ cb'[w].pending = cb[w].pending
  BY <1>1 DEF CallbackExpired, ErrorReply, CallbackWorker
<1>7. CallbackIssue(w) =>
        /\ cb'[w].pc \in {"code_redirect", "bare_redirect"}
        /\ cb'[w].state = cb[w].state /\ cb'[w].pending = cb[w].pending
  BY <1>1 DEF CallbackIssue, CodeReply, CallbackWorker
<1>8. CallbackReply(w) => cb'[w].pc = "idle"
  BY <1>1 DEF CallbackReply, IdleCallback
<1>9. CallbackFresh(w) =>
        /\ cb'[w].pc = "issue" /\ cb'[w].state = cb[w].state
        /\ cb'[w].did = cb[w].did /\ cb'[w].pending = cb[w].pending
        /\ cb'[w].freshAt = now
  BY <1>1 DEF CallbackFresh, CallbackWorker
<1>10. QED
  BY <1>2, <1>3, <1>4, <1>5, <1>6, <1>7, <1>8, <1>9

-----------------------------------------------------------------------------
(* The plain success page *)

\* A callback that finds no pending request had one filed for its flow, which
\* another callback took or an earlier process lost.
LEMMA PlainStep ==
    ASSUME TypeOK, FlowInv, PlainOnlyAfterTakeOrRestart, [Next]_vars
    PROVE  PlainOnlyAfterTakeOrRestart'
<1>1. ASSUME NEW v \in CallbackWorkers, cb'[v].pc = "plain", cb'[v] = cb[v]
      PROVE  /\ origin'[cb'[v].state] # None
             /\ cb'[v].state \in taken' \/ origin'[cb'[v].state].epoch < epoch'
  <2>1. cb[v].state \in FlowStates /\ origin[cb[v].state] # None
    BY <1>1 DEF TypeOK, CallbackLocals, PlainOnlyAfterTakeOrRestart
  <2>2. origin[cb[v].state].epoch \in Nat /\ epoch \in Nat
    BY <2>1 DEF TypeOK, Origin
  <2>3. QED
    BY <1>1, <2>1, <2>2, PastStays DEF PlainOnlyAfterTakeOrRestart
<1>2. ASSUME NEW w \in CallbackWorkers, CallbackPlain(w)
      PROVE  /\ origin'[cb[w].state] # None
             /\ cb[w].state \in taken' \/ origin'[cb[w].state].epoch < epoch'
  <2> DEFINE s == cb[w].state
  <2>1. /\ s \in FlowStates /\ pendingRequests[s] = None
        /\ UNCHANGED <<origin, taken, epoch>>
    BY <1>2 DEF CallbackPlain, TypeOK, CallbackLocals
  <2>2. origin[s] # None /\ origin[s].epoch <= epoch
    BY <1>2, <2>1 DEF CallbackPlain, FlowInv, TakingHandlers, FlowsFiled
  <2>3. /\ origin[s].request # None
        /\ origin[s].epoch \in Nat /\ epoch \in Nat
    BY <2>1, <2>2 DEF TypeOK, Origin
  <2>4. s \in taken \/ origin[s].epoch # epoch
    BY <2>1, <2>2, <2>3 DEF FlowInv, PendingExact
  <2>5. QED
    BY <2>1, <2>2, <2>3, <2>4
<1>3. ASSUME NEW w \in CallbackWorkers, CallbackStep(w),
             NEW v \in CallbackWorkers, cb'[v].pc = "plain"
      PROVE  /\ origin'[cb'[v].state] # None
             /\ cb'[v].state \in taken' \/ origin'[cb'[v].state].epoch < epoch'
  <2>1. CASE v = w /\ CallbackPlain(w)
    BY <1>2, <1>3, <2>1, CallbackEffect
  <2>2. CASE v = w /\ ~CallbackPlain(w)
    BY <1>3, <2>2, CallbackEffect DEF CallbackStep
  <2>3. CASE v # w
    BY <1>1, <1>3, <2>3, CallbackEffect
  <2>4. QED
    BY <2>1, <2>2, <2>3
<1>4. CASE \E w \in CallbackWorkers : CallbackStep(w)
  BY <1>3, <1>4 DEF PlainOnlyAfterTakeOrRestart
<1>5. CASE ~(\E w \in CallbackWorkers : CallbackStep(w))
  BY <1>1, <1>5, CallbackQuiet DEF PlainOnlyAfterTakeOrRestart
<1>6. QED
  BY <1>4, <1>5

\* The browser never gets ahead of the handler that files the request: the
\* plain page needs another callback's take or a restart.
THEOREM PlainNeedsTakeOrRestart == Spec => []PlainOnlyAfterTakeOrRestart
<1>1. Init => PlainOnlyAfterTakeOrRestart
  BY DEF Init, PlainOnlyAfterTakeOrRestart, IdleCallback
<1>2. QED
  BY TypeCorrect, FlowsAreInOnePlace, <1>1, PlainStep, PTL DEF Spec

-----------------------------------------------------------------------------
(* A login that was taken is answered *)

\* Why a taken login needs no handler any more, or which handler has it.
Settled(s) ==
    \/ s \in answered
    \/ origin[s].epoch < epoch
    \/ origin[s].request.uri \notin ParseableURIs

HasInHand(w, s) ==
    /\ cb[w].state = s
    /\ cb[w].pc \in Answering \cup {"error_redirect", "code_redirect"}

\* A login that is settled stays settled.
LEMMA SettledStays ==
    ASSUME TypeOK, FlowInv, [Next]_vars, NEW s \in taken, Settled(s)
    PROVE  Settled(s)'
<1>1. s \in FlowStates /\ origin[s] # None
  BY DEF TypeOK, FlowInv, FlowsFiled
<1>2. origin'[s] = origin[s] /\ epoch' \in {epoch, epoch + 1}
  BY <1>1, PastStays
<1>3. origin[s].epoch \in Nat /\ epoch \in Nat
  BY <1>1 DEF TypeOK, Origin
<1>4. answered \subseteq answered'
  BY DEF Next, AuthRequestArrives, AuthorizeRejected, AuthorizeRefused,
     AuthorizeAsksHandle, AuthorizeAccepted, AuthEnter, AuthStep, StartFlow,
     StartFlowFails, StorePending, AuthorizeReply, CallbackArrives,
     CallbackAccepted, CallbackRejected, CallbackEnter, CallbackStep,
     CallbackExchange, CallbackExchangeFails, CallbackTake, CallbackPlain,
     CallbackExpired, CallbackFresh, CallbackIssue, CallbackReply, TokenRequestArrives,
     TokenRejected, TokenConsume, TokenUnknown, TokenStep, TokenGrantRefused,
     TokenGrantAccepted, TokenClientAccepted, TokenClientRefused, TokenSign,
     TokenSignFails, TokenReply, Tick, Restart, RegisteredElsewhere, vars
<1>5. QED
  BY <1>2, <1>3, <1>4 DEF Settled

\* The handler that has a login in hand keeps it, or settles it: each way out
\* of HandleCallback behind the take is one of these cases.
LEMMA HandlerSettles ==
    ASSUME TypeOK, FlowInv, NEW w \in CallbackWorkers, CallbackStep(w),
           NEW s, HasInHand(w, s)
    PROVE  HasInHand(w, s)' \/ Settled(s)'
<1>1. s = cb[w].state
  BY DEF HasInHand
<1>2. CASE cb[w].pc \in Answering
  <2>1. cb[w].pending.uri = origin[s].request.uri
    BY <1>1, <1>2 DEF FlowInv, TakingHandlers
  <2>2. CASE CallbackIssue(w)
    <3>1. cb'[w].pc = CodeReply(cb[w].pending.uri) /\ cb'[w].state = s
          /\ origin' = origin
      BY <1>1, <2>2 DEF CallbackIssue, TypeOK, CallbackWorker
    <3>2. QED
      BY <2>1, <3>1 DEF CodeReply, HasInHand, Settled
  <2>3. CASE CallbackExpired(w)
    <3>1. cb'[w].pc = ErrorReply(cb[w].pending.uri) /\ cb'[w].state = s
          /\ origin' = origin
      BY <1>1, <2>3 DEF CallbackExpired, TypeOK, CallbackWorker
    <3>2. QED
      BY <2>1, <3>1 DEF ErrorReply, HasInHand, Settled
  <2>4. CASE CallbackFresh(w)
    BY <1>1, <2>4, CallbackEffect DEF HasInHand
  <2>5. QED
    BY <1>2, <2>2, <2>3, <2>4 DEF CallbackStep, CallbackExchange,
       CallbackExchangeFails, CallbackTake, CallbackPlain, CallbackReply,
       CallbackReplies
<1>3. CASE cb[w].pc \in {"error_redirect", "code_redirect"}
  <2>1. CallbackReply(w)
    BY <1>3 DEF CallbackStep, CallbackExchange, CallbackExchangeFails,
       CallbackTake, CallbackPlain, CallbackExpired, CallbackFresh, CallbackIssue
  <2>2. s \in answered'
    BY <1>1, <1>3, <2>1 DEF CallbackReply
  <2>3. QED
    BY <2>2 DEF Settled
<1>4. QED
  BY <1>2, <1>3 DEF HasInHand

\* A handler loses a login only by its own step or with the process.
LEMMA InHandStep ==
    ASSUME TypeOK, FlowInv, TakenFlowInHand, [Next]_vars
    PROVE  TakenFlowInHand'
<1>1. ASSUME NEW s \in taken
      PROVE  Settled(s) \/ \E w \in CallbackWorkers : HasInHand(w, s)
  BY DEF TakenFlowInHand, Settled, HasInHand
<1>2. SUFFICES ASSUME NEW s \in taken'
               PROVE  Settled(s)' \/ \E w \in CallbackWorkers : HasInHand(w, s)'
  BY DEF TakenFlowInHand, Settled, HasInHand
<1>3. CASE s \in taken /\ Settled(s)
  BY <1>3, SettledStays
<1>4. CASE s \in taken /\ \E w \in CallbackWorkers : HasInHand(w, s)
  <2>1. PICK w \in CallbackWorkers : HasInHand(w, s)
    BY <1>4
  <2>2. CASE CallbackStep(w)
    BY <2>1, <2>2, HandlerSettles
  <2>3. CASE cb'[w] = cb[w]
    BY <2>1, <2>3 DEF HasInHand
  <2>4. CASE Restart
    <3>1. origin[s] # None /\ origin[s].epoch <= epoch /\ s \in FlowStates
      BY <1>4 DEF FlowInv, FlowsFiled, TypeOK
    <3>2. origin[s].epoch \in Nat /\ epoch \in Nat
      BY <3>1 DEF TypeOK, Origin
    <3>3. epoch' = epoch + 1 /\ origin' = origin
      BY <2>4 DEF Restart
    <3>4. QED
      BY <3>1, <3>2, <3>3 DEF Settled
  <2>5. ASSUME NEW v \in CallbackWorkers \ {w}, CallbackStep(v)
        PROVE  cb'[w] = cb[w]
    BY <2>5, CallbackEffect
  <2>6. CASE CallbackArrives
    <3>1. PICK v \in CallbackWorkers, r \in FlowStates, pc \in {"exchange", "failed"} :
            CallbackEnter(v, r, pc)
      BY <2>6 DEF CallbackArrives, CallbackAccepted, CallbackRejected
    <3>2. v # w
      BY <2>1, <3>1 DEF CallbackEnter, HasInHand
    <3>3. cb'[w] = cb[w]
      BY <3>1, <3>2 DEF CallbackEnter, TypeOK
    <3>4. QED
      BY <2>3, <3>3
  <2>7. CASE ~CallbackArrives /\ ~Restart
             /\ ~(\E v \in CallbackWorkers : CallbackStep(v))
    <3>1. cb' = cb
      BY <2>7 DEF Next, AuthRequestArrives, AuthorizeRejected, AuthorizeRefused,
         AuthorizeAsksHandle, AuthorizeAccepted, AuthEnter, AuthStep, StartFlow,
         StartFlowFails, StorePending, AuthorizeReply, TokenRequestArrives,
         TokenRejected, TokenConsume, TokenUnknown, TokenStep,
         TokenGrantRefused, TokenGrantAccepted, TokenClientAccepted,
         TokenClientRefused, TokenSign, TokenSignFails, TokenReply, Tick, RegisteredElsewhere, vars
    <3>2. QED
      BY <2>3, <3>1
  <2>8. QED
    BY <2>2, <2>3, <2>4, <2>5, <2>6, <2>7
<1>5. CASE s \notin taken
  <2>1. PICK w \in CallbackWorkers : CallbackStep(w)
    BY <1>2, <1>5, CallbackQuiet
  <2>2. CallbackTake(w) /\ cb[w].state = s
    BY <1>2, <1>5, <2>1 DEF CallbackStep, CallbackExchange,
       CallbackExchangeFails, CallbackTake, CallbackPlain, CallbackExpired, CallbackFresh,
       CallbackIssue, CallbackReply
  <2>3. HasInHand(w, s)'
    BY <2>1, <2>2, CallbackEffect DEF HasInHand
  <2>4. QED
    BY <2>3
<1>6. QED
  BY <1>1, <1>3, <1>4, <1>5

\* Behind the take no path through HandleCallback drops the login: it is
\* answered, or a handler is about to answer it, but for a restart or a
\* redirect URI that does not parse. TakenFlowAnswered is this and fairness.
THEOREM TakenLoginsAreInHand == Spec => []TakenFlowInHand
<1>1. Init => TakenFlowInHand
  BY DEF Init, TakenFlowInHand
<1>2. QED
  BY TypeCorrect, FlowsAreInOnePlace, <1>1, InHandStep, PTL DEF Spec

-----------------------------------------------------------------------------
(* Codes and the flows they were issued for *)

\* What was said of an issued code stays true of it.
LEMMA IssuedStays ==
    ASSUME TypeOK, FlowInv, IssueInv, [Next]_vars, NEW k \in Codes, issued[k] # None
    PROVE  /\ issued'[k] = issued[k] /\ FlowOf(k)' = FlowOf(k)
           /\ RequestOf(k)' = RequestOf(k)
           /\ FlowOf(k) \in FlowStates /\ origin[FlowOf(k)] # None
           /\ origin'[FlowOf(k)] = origin[FlowOf(k)]
           /\ IssuedInFlow(issued[k])'
<1>1. /\ issued'[k] = issued[k] /\ FlowOf(k) \in FlowStates
      /\ IssuedInFlow(issued[k])
  BY PastStays DEF IssueInv, TypeOK, Issue, FlowOf
<1>2. origin[FlowOf(k)] # None /\ origin'[FlowOf(k)] = origin[FlowOf(k)]
      /\ sessions \subseteq sessions'
  BY <1>1, PastStays DEF IssuedInFlow, FlowOf
<1>3. FlowOf(k)' = FlowOf(k)
  BY <1>1 DEF FlowOf
<1>4. RequestOf(k)' = RequestOf(k)
  BY <1>2, <1>3 DEF RequestOf
<1>5. IssuedInFlow(issued[k])'
  BY <1>1, <1>2 DEF IssuedInFlow, FlowOf
<1>6. QED
  BY <1>1, <1>2, <1>3, <1>4, <1>5

\* CallbackIssue makes the grant from the request it took and the account it
\* confirmed, and remembers that the request was fresh when it was checked.
LEMMA IssueMakesGrant ==
    ASSUME TypeOK, FlowInv, IssueInv, NEW w \in CallbackWorkers, CallbackIssue(w)
    PROVE  \E k \in Codes :
             /\ issued[k] = None /\ issued'[k] # None
             /\ \A j \in Codes \ {k} : issued'[j] = issued[j]
             /\ cb'[w].code = k /\ FlowOf(k)' = cb[w].state
             /\ cb[w].pending = origin[cb[w].state].request
             /\ UNCHANGED <<origin, sessions, delivered>>
             /\ IssuedInFlow(issued[k])'
<1> DEFINE s == cb[w].state
           grant == NewGrant(cb[w].pending, cb[w].did)
           issue == [flow |-> s, grant |-> grant, epoch |-> epoch,
                     freshAt |-> cb[w].freshAt, issuedAt |-> now]
<1>1. PICK k \in Codes :
        /\ issued[k] = None
        /\ issued' = [issued EXCEPT ![k] = issue]
        /\ cb' = [cb EXCEPT ![w] =
              [@ EXCEPT !.pc = CodeReply(cb[w].pending.uri), !.code = k]]
  BY DEF CallbackIssue
<1>2. cb'[w].code = k
  BY <1>1 DEF TypeOK, CallbackWorker
<1>3. /\ UNCHANGED <<origin, sessions, delivered>>
      /\ cb[w].pc = "issue"
  BY DEF CallbackIssue
<1>4. /\ s \in FlowStates /\ cb[w].did \in DIDs
      /\ cb[w].pending \in PendingAuthorization
      /\ now \in Nat /\ epoch \in Nat /\ cb[w].freshAt \in Nat
  BY <1>3 DEF TypeOK, CallbackLocals, CallbackWorker
<1>5. /\ origin[s] # None /\ cb[w].pending = origin[s].request
      /\ <<s, cb[w].did>> \in sessions
  BY <1>3 DEF FlowInv, TakingHandlers, IssueInv
<1>6. grant \in CodeGrant
  BY <1>4 DEF NewGrant, CodeGrant, PendingAuthorization
<1>7. /\ cb[w].freshAt <= cb[w].pending.createdAt + AuthCodeTTL
      /\ grant.expiresAt = now + AuthCodeTTL
  BY <1>3 DEF NewGrant, IssueInv
<1>8. issue \in Issue /\ issue # None
  BY <1>4, <1>6 DEF Issue
<1>9. /\ issued'[k] = issue /\ FlowOf(k)' = s
      /\ \A j \in Codes \ {k} : issued'[j] = issued[j]
  BY <1>1 DEF TypeOK, FlowOf
<1>10. /\ grant.client = cb[w].pending.client /\ grant.uri = cb[w].pending.uri
       /\ grant.nonce = cb[w].pending.nonce /\ grant.handle = cb[w].pending.hint
       /\ grant.did = cb[w].did
  BY DEF NewGrant
<1>11. IssuedInFlow(issued[k])'
  <2>1. /\ issued'[k].grant = grant /\ issued'[k].flow = s
        /\ issued'[k].freshAt = cb[w].freshAt /\ issued'[k].issuedAt = now
    BY <1>9
  <2> HIDE DEF grant, issue, s
  <2>2. QED
    BY <1>3, <1>5, <1>7, <1>9, <1>10, <2>1 DEF IssuedInFlow
<1>12. QED
  BY <1>1, <1>2, <1>3, <1>5, <1>8, <1>9, <1>11

\* What a /callback handler holds belongs to its flow.
CallbackHolds(v) ==
    /\ cb[v].pc \in {"take"} \cup Answering =>
        <<cb[v].state, cb[v].did>> \in sessions
    /\ cb[v].pc = "issue" => cb[v].freshAt <= cb[v].pending.createdAt + AuthCodeTTL
    /\ cb[v].pc = "code_redirect" =>
        /\ issued[cb[v].code] # None /\ FlowOf(cb[v].code) = cb[v].state
        /\ cb[v].pending = origin[cb[v].state].request

\* It stays so for a handler that does not move.
LEMMA HoldsStays ==
    ASSUME TypeOK, FlowInv, IssueInv, [Next]_vars,
           NEW v \in CallbackWorkers, cb'[v] = cb[v]
    PROVE  CallbackHolds(v)'
<1>1. CASE cb[v].pc = "code_redirect"
  <2>1. /\ cb[v].code \in Codes /\ issued[cb[v].code] # None
        /\ FlowOf(cb[v].code) = cb[v].state
        /\ cb[v].pending = origin[cb[v].state].request
    BY <1>1 DEF IssueInv, TypeOK, CallbackLocals
  <2>2. /\ issued'[cb[v].code] = issued[cb[v].code]
        /\ origin'[cb[v].state] = origin[cb[v].state]
    BY <2>1, IssuedStays
  <2>3. QED
    BY <1>1, <2>1, <2>2 DEF CallbackHolds, FlowOf
<1>2. CASE cb[v].pc # "code_redirect"
  BY <1>2, PastStays DEF CallbackHolds, IssueInv
<1>3. QED
  BY <1>1, <1>2

\* One case per step of a /callback handler.
LEMMA IssueCallbackStep ==
    ASSUME TypeOK, FlowInv, IssueInv, NEW w \in CallbackWorkers, CallbackStep(w)
    PROVE  IssueInv'
<1>0. [Next]_vars
  BY DEF Next
<1>1. \A v \in CallbackWorkers \ {w} : CallbackHolds(v)'
  BY <1>0, HoldsStays, CallbackEffect
<1>2. \A k \in Codes :
        issued[k] # None => IssuedInFlow(issued[k])'
  BY <1>0, IssuedStays
<1>3. \A d \in delivered :
        /\ issued'[d.code] # None
        /\ d.uri = RequestOf(d.code)'.uri /\ d.state = RequestOf(d.code)'.state
  <2>1. ASSUME NEW d \in delivered
        PROVE  d.code \in Codes /\ issued[d.code] # None
    BY DEF TypeOK, Delivery, IssueInv, DeliveredToItsRP
  <2>2. QED
    BY <1>0, <2>1, IssuedStays DEF IssueInv, DeliveredToItsRP
<1>4. CASE CallbackIssue(w)
  <2>1. PICK k \in Codes :
          /\ issued[k] = None /\ issued'[k] # None
          /\ \A j \in Codes \ {k} : issued'[j] = issued[j]
          /\ cb'[w].code = k /\ FlowOf(k)' = cb[w].state
          /\ cb[w].pending = origin[cb[w].state].request
          /\ UNCHANGED <<origin, sessions, delivered>>
          /\ IssuedInFlow(issued[k])'
    BY <1>4, IssueMakesGrant
  <2>2. CallbackHolds(w)'
    BY <1>4, <2>1, CallbackEffect DEF CallbackHolds, FlowOf
  <2>3. QED
    BY <1>1, <1>2, <1>3, <2>1, <2>2 DEF IssueInv, CallbackHolds, DeliveredToItsRP
<1>5. CASE CallbackReply(w)
  <2>1. issued' = issued /\ cb'[w].pc = "idle"
    BY <1>5, CallbackEffect DEF CallbackReply
  <2>2. ASSUME NEW d \in delivered', d \notin delivered
        PROVE  /\ issued'[d.code] # None
               /\ d.uri = RequestOf(d.code)'.uri /\ d.state = RequestOf(d.code)'.state
    <3>1. /\ cb[w].pc = "code_redirect" /\ d.code = cb[w].code
          /\ d.uri = cb[w].pending.uri /\ d.state = cb[w].pending.state
      BY <1>5, <2>2 DEF CallbackReply
    <3>2. PICK k \in Codes : k = cb[w].code
      BY <3>1 DEF TypeOK, CallbackLocals
    <3>3. /\ issued[k] # None /\ FlowOf(k) = cb[w].state
          /\ cb[w].pending = origin[cb[w].state].request
      BY <3>1, <3>2 DEF IssueInv
    <3>4. cb[w].pending = RequestOf(k)
      BY <3>3 DEF RequestOf
    <3>5. RequestOf(k)' = RequestOf(k)
      BY <1>0, <3>3, IssuedStays
    <3>6. d.code = k
      BY <3>1, <3>2
    <3>7. d.uri = RequestOf(k)'.uri /\ d.state = RequestOf(k)'.state
      BY <3>1, <3>4, <3>5
    <3>8. QED
      BY <2>1, <3>3, <3>6, <3>7
  <2>3. CallbackHolds(w)'
    BY <2>1 DEF CallbackHolds
  <2>4. QED
    BY <1>1, <1>2, <1>3, <2>1, <2>2, <2>3 DEF IssueInv, CallbackHolds, DeliveredToItsRP
<1>6. CASE ~CallbackIssue(w) /\ ~CallbackReply(w)
  <2>1. issued' = issued /\ delivered' = delivered
    BY <1>6 DEF CallbackStep, CallbackExchange, CallbackExchangeFails, CallbackTake,
       CallbackPlain, CallbackExpired, CallbackFresh
  <2>2. CallbackHolds(w)'
    <3>1. CASE CallbackExchange(w)
      BY <3>1, CallbackEffect DEF CallbackHolds
    <3>2. CASE CallbackTake(w)
      BY <1>0, <3>2, CallbackEffect, PastStays DEF CallbackTake, CallbackHolds, IssueInv
    <3>3. CASE CallbackExchangeFails(w) \/ CallbackPlain(w) \/ CallbackExpired(w)
      BY <3>3, CallbackEffect DEF CallbackHolds
    <3>4. CASE CallbackFresh(w)
      <4>1. now <= cb[w].pending.createdAt + AuthCodeTTL
        BY <3>4 DEF CallbackFresh, Older, TypeOK, CallbackLocals, PendingAuthorization
      <4>2. QED
        BY <1>0, <3>4, <4>1, CallbackEffect, PastStays
           DEF CallbackFresh, CallbackHolds, IssueInv
    <3>5. QED
      BY <1>6, <3>1, <3>2, <3>3, <3>4 DEF CallbackStep
  <2>3. QED
    BY <1>1, <1>2, <1>3, <2>1, <2>2 DEF IssueInv, CallbackHolds, DeliveredToItsRP
<1>7. QED
  BY <1>4, <1>5, <1>6

\* Every other step leaves codes, redirects and sessions alone.
LEMMA IssueStep ==
    ASSUME TypeOK, FlowInv, IssueInv, [Next]_vars
    PROVE  IssueInv'
<1>1. CASE ~(\E w \in CallbackWorkers : CallbackStep(w))
  <2>1. issued' = issued /\ delivered' = delivered
    BY <1>1, CallbackQuiet
  <2>2. \A k \in Codes :
          issued[k] # None => IssuedInFlow(issued[k])'
    BY IssuedStays
  <2>3. \A v \in CallbackWorkers : CallbackHolds(v)'
    BY <1>1, CallbackQuiet, HoldsStays DEF CallbackHolds
  <2>4. DeliveredToItsRP'
    <3>1. ASSUME NEW d \in delivered
          PROVE  d.code \in Codes /\ issued[d.code] # None
      BY DEF TypeOK, Delivery, IssueInv, DeliveredToItsRP
    <3>2. QED
      BY <2>1, <3>1, IssuedStays DEF IssueInv, DeliveredToItsRP
  <2>5. QED
    BY <2>1, <2>2, <2>3, <2>4 DEF IssueInv, CallbackHolds
<1>2. QED
  BY <1>1, IssueCallbackStep

\* Every code was made from the request filed for its flow, in time, and for an
\* account confirmed in that flow.
LEMMA IssueInvariant == Spec => [](TypeOK /\ FlowInv /\ IssueInv)
<1>1. Init => IssueInv
  BY DEF Init, IssueInv, DeliveredToItsRP, IdleCallback
<1>2. QED
  BY TypeCorrect, FlowsAreInOnePlace, <1>1, IssueStep, PTL DEF Spec

\* A code reaches the redirect URI, with the state value, of the request it
\* answers, however many logins of however many RPs interleave.
THEOREM CodesReachTheirRP == Spec => []DeliveredToItsRP
<1>1. IssueInv => DeliveredToItsRP
  BY DEF IssueInv
<1>2. QED
  BY IssueInvariant, <1>1, PTL

-----------------------------------------------------------------------------
(* ID tokens and the grants they were signed for *)

\* What a /token handler holds is the grant of its code, and what it checked
\* holds.
TokenHolds(v) ==
    /\ tok[v].pc \in Holding \cup {"ok"} =>
        LET i == issued[tok[v].code]
        IN  /\ tok[v].code \in Codes
            /\ i # None /\ i.grant = tok[v].grant /\ i.epoch = epoch
    /\ tok[v].pc \in {"check_client", "sign"} =>
        Redeems(tok[v].form, tok[v].checkedAt, tok[v].grant)
    /\ tok[v].pc \in Holding => Row(tok[v].form.client) \subseteq held[v]
    /\ tok[v].pc \in {"sign", "ok"} => \E g \in held[v] : Admits(g, tok[v].form)

\* A token carries the claims of the grant of its code.
FromItsGrant(t) ==
    /\ issued[t.code] # None
    /\ LET g == issued[t.code].grant
       IN  /\ t.aud = g.client /\ t.sub = g.did
           /\ t.nonce = g.nonce /\ t.handle = g.handle
           /\ Redeems(t.form, t.checkedAt, g)

\* TokenInv is TokenHolds for every handler and FromItsGrant for every token.
LEMMA TokenInvParts ==
    (\A v \in TokenWorkers : TokenHolds(v)) /\ (\A t \in tokens : FromItsGrant(t))
        <=> TokenInv
BY DEF TokenHolds, FromItsGrant, TokenInv, SignsOnlyForAuthenticated, Holding

\* The same, of the next state.
LEMMA TokenInvPrimed ==
    ASSUME \A v \in TokenWorkers : TokenHolds(v)',
           \A t : t \in tokens' => FromItsGrant(t)'
    PROVE  TokenInv'
BY DEF TokenHolds, FromItsGrant, TokenInv, SignsOnlyForAuthenticated, Holding

\* Other steps sign nothing, and leave /token handlers and what these rely on
\* alone, unless the process ends.
LEMMA TokenQuiet ==
    ASSUME [Next]_vars, ~TokenRequestArrives, ~(\E w \in TokenWorkers : TokenStep(w))
    PROVE  /\ tokens' = tokens
           /\ \/ UNCHANGED <<tok, epoch>>
              \/ \A v \in TokenWorkers : tok'[v].pc = "idle"
<1>1. CASE Restart
  BY <1>1 DEF Restart, IdleToken
<1>2. CASE ~Restart
  BY <1>2 DEF Next, AuthRequestArrives, AuthorizeRejected, AuthorizeRefused,
     AuthorizeAsksHandle, AuthorizeAccepted, AuthEnter, AuthStep, StartFlow,
     StartFlowFails, StorePending, AuthorizeReply, CallbackArrives,
     CallbackAccepted, CallbackRejected, CallbackEnter, CallbackStep,
     CallbackExchange, CallbackExchangeFails, CallbackTake, CallbackPlain,
     CallbackExpired, CallbackFresh, CallbackIssue, CallbackReply, Tick, RegisteredElsewhere,
     vars
<1>3. QED
  BY <1>1, <1>2

\* What was registered for the client of a /token handler that does not move
\* is remembered, and what is registered meanwhile, by whatever process, too.
LEMMA HeldStays ==
    ASSUME TypeOK, TokenInv, [Next]_vars, NEW v \in TokenWorkers,
           tok'[v] = tok[v], epoch' = epoch
    PROVE  /\ held[v] \subseteq held'[v]
           /\ tok[v].pc \in Holding => Row(tok[v].form.client)' \subseteq held'[v]
<1>1. tok[v].pc \in Holding => Row(tok[v].form.client) \subseteq held[v]
  BY DEF TokenInv
<1>2. CASE RegisteredElsewhere
  <2>1. PICK config \in Configs, c \in Clients :
          /\ clients' = [clients EXCEPT ![c] = config[c]]
          /\ held'[v] = IF tok[v].pc \in Holding /\ tok[v].form.client = c
                        THEN held[v] \cup {config[c]} ELSE held[v]
    BY <1>2 DEF RegisteredElsewhere
  <2>2. ASSUME tok[v].pc \in Holding
        PROVE  Row(tok[v].form.client)' \subseteq held'[v]
    <3>1. CASE tok[v].form.client = c
      BY <2>1, <2>2, <3>1 DEF Row, TypeOK
    <3>2. CASE tok[v].form.client # c
      <4>1. Row(tok[v].form.client)' \subseteq Row(tok[v].form.client)
        BY <1>2, <2>1, <3>2 DEF Row, TypeOK, RegisteredElsewhere
      <4>2. QED
        BY <1>1, <2>1, <2>2, <3>2, <4>1
    <3>3. QED
      BY <3>1, <3>2
  <2>3. QED
    BY <2>1, <2>2
<1>3. CASE \E w \in TokenWorkers, f \in TokenForms, k \in Presentable : TokenConsume(w, f, k)
  <2>1. PICK w \in TokenWorkers, f \in TokenForms, k \in Presentable : TokenConsume(w, f, k)
    BY <1>3
  <2>2. v # w
    BY <2>1 DEF TokenConsume, TypeOK
  <2>3. held'[v] = held[v] /\ UNCHANGED clients
    BY <2>1, <2>2 DEF TokenConsume, TypeOK
  <2>4. QED
    BY <1>1, <2>3 DEF Row
<1>4. CASE /\ ~RegisteredElsewhere
           /\ ~(\E w \in TokenWorkers, f \in TokenForms, k \in Presentable :
                    TokenConsume(w, f, k))
  <2>1. ~Restart
    BY DEF Restart, TypeOK
  <2>2. UNCHANGED <<held, clients>>
    BY <1>4, <2>1 DEF Next, AuthRequestArrives, AuthorizeRejected,
       AuthorizeRefused, AuthorizeAsksHandle, AuthorizeAccepted, AuthEnter,
       AuthStep, StartFlow, StartFlowFails, StorePending, AuthorizeReply,
       CallbackArrives, CallbackAccepted, CallbackRejected, CallbackEnter,
       CallbackStep, CallbackExchange, CallbackExchangeFails, CallbackTake,
       CallbackPlain, CallbackExpired, CallbackFresh, CallbackIssue,
       CallbackReply, TokenRequestArrives, TokenRejected, TokenUnknown,
       TokenStep, TokenGrantRefused, TokenGrantAccepted, TokenClientAccepted,
       TokenClientRefused, TokenSign, TokenSignFails, TokenReply, Tick, vars
  <2>3. QED
    BY <1>1, <2>2 DEF Row
<1>5. QED
  BY <1>2, <1>3, <1>4

\* A handler that does not move keeps what it holds, in the same process.
LEMMA TokenHoldsStays ==
    ASSUME TypeOK, FlowInv, IssueInv, TokenInv, [Next]_vars, NEW v \in TokenWorkers,
           tok'[v] = tok[v], epoch' = epoch
    PROVE  TokenHolds(v)'
<1>0. TokenHolds(v)
  BY TokenInvParts
<1>1. CASE tok[v].pc \in Holding \cup {"ok"}
  <2>1. PICK k \in Codes : k = tok[v].code
    BY <1>0, <1>1 DEF TokenHolds
  <2>2. issued[k] # None /\ issued'[k] = issued[k]
    BY <1>0, <1>1, <2>1, IssuedStays DEF TokenHolds
  <2>3. QED
    BY <1>0, <1>1, <2>1, <2>2, HeldStays DEF TokenHolds, Redeems, Admits
<1>2. CASE tok[v].pc \notin Holding \cup {"ok"}
  BY <1>2 DEF TokenHolds, Holding
<1>3. QED
  BY <1>1, <1>2

\* A request that arrives is answered or takes the grant of its code.
LEMMA TokenArrivalHolds ==
    ASSUME TypeOK, CodeInv, TokenRequestArrives
    PROVE  /\ UNCHANGED <<tokens, issued, epoch, clients>>
           /\ \A v \in TokenWorkers : tok'[v] = tok[v] \/ TokenHolds(v)'
<1>1. PICK w \in TokenWorkers, f \in TokenForms, k \in Presentable :
         TokenRejected(w, f, k) \/ TokenConsume(w, f, k) \/ TokenUnknown(w, f, k)
  BY DEF TokenRequestArrives
<1>2. /\ UNCHANGED <<tokens, issued, epoch, clients>>
      /\ \A v \in TokenWorkers \ {w} : tok'[v] = tok[v]
  BY <1>1 DEF TokenRejected, TokenConsume, TokenUnknown, TypeOK
<1>3. CASE TokenConsume(w, f, k)
  <2>1. k \in Codes
    BY <1>3 DEF TokenConsume, WellFormed, Presentable, Delivery, TypeOK
  <2>2. /\ issued[k] # None /\ issued[k].epoch = epoch
        /\ codeGrants[k] = issued[k].grant
    BY <1>3, <2>1 DEF TokenConsume, CodeInv, GrantsExact
  <2>3. /\ tok'[w].pc = "check_grant" /\ tok'[w].code = k
        /\ tok'[w].grant = codeGrants[k]
    BY <1>3 DEF TokenConsume, TypeOK
  <2>4. QED
    <3>1. tok'[w].form = f /\ held'[w] = Row(f.client) /\ clients' = clients
      BY <1>3 DEF TokenConsume, TypeOK
    <3>2. Row(tok[w].form.client)' = held'[w]
      BY <3>1 DEF Row
    <3>3. QED
      BY <1>2, <2>1, <2>2, <2>3, <3>1, <3>2 DEF TokenHolds, Row
<1>4. CASE TokenRejected(w, f, k) \/ TokenUnknown(w, f, k)
  <2>1. tok'[w].pc \in {"invalid_request", "invalid_grant"}
    BY <1>4 DEF TokenRejected, TokenUnknown, IdleToken, TypeOK
  <2>2. QED
    BY <1>2, <2>1 DEF TokenHolds, Holding
<1>5. QED
  BY <1>1, <1>3, <1>4

\* One case per check of HandleToken: each adds what it checked.
LEMMA TokenStepHolds ==
    ASSUME TypeOK, TokenInv, NEW w \in TokenWorkers, TokenStep(w)
    PROVE  /\ UNCHANGED <<issued, epoch, clients>>
           /\ \A v \in TokenWorkers : tok'[v] = tok[v] \/ TokenHolds(v)'
           /\ \A t \in tokens' \ tokens : TokenSign(w) /\ t = NewIDToken(tok[w])
<1>0. /\ tok \in [TokenWorkers -> TokenWorker] /\ now \in Nat
      /\ TokenHolds(w)
  BY TokenInvParts DEF TypeOK
<1>1. /\ UNCHANGED <<issued, epoch, clients, held>>
      /\ \A v \in TokenWorkers \ {w} : tok'[v] = tok[v]
  BY <1>0 DEF TokenStep, TokenGrantRefused, TokenGrantAccepted, TokenClientAccepted,
     TokenClientRefused, TokenSign, TokenSignFails, TokenReply
<1>2. \A t \in tokens' \ tokens : TokenSign(w) /\ t = NewIDToken(tok[w])
  BY DEF TokenStep, TokenGrantRefused, TokenGrantAccepted, TokenClientAccepted,
     TokenClientRefused, TokenSign, TokenSignFails, TokenReply
<1>3. CASE TokenGrantAccepted(w)
  <2>1. /\ tok'[w].pc = "check_client" /\ tok'[w].checkedAt = now
        /\ tok'[w].form = tok[w].form /\ tok'[w].code = tok[w].code
        /\ tok'[w].grant = tok[w].grant
    BY <1>0, <1>3 DEF TokenGrantAccepted, TokenWorker
  <2>2. tok[w].pc \in Holding /\ tok[w].grant.expiresAt \in Nat
    BY <1>3 DEF TokenGrantAccepted, Holding, TypeOK, TokenLocals, CodeGrant
  <2>3. Redeems(tok[w].form, now, tok[w].grant)
    BY <1>0, <1>3, <2>2 DEF TokenGrantAccepted, Redeems
  <2>4. TokenHolds(w)'
    BY <1>0, <1>1, <2>1, <2>2, <2>3 DEF TokenHolds, Redeems, Row, Holding
  <2>5. QED
    BY <1>1, <1>2, <2>4
<1>4. CASE TokenClientAccepted(w)
  <2>1. /\ tok'[w].pc = "sign" /\ tok'[w].checkedAt = tok[w].checkedAt
        /\ tok'[w].form = tok[w].form /\ tok'[w].code = tok[w].code
        /\ tok'[w].grant = tok[w].grant
        /\ tok[w].pc = "check_client" /\ Authenticated(tok[w].form)
    BY <1>0, <1>4 DEF TokenClientAccepted, TokenWorker
  <2>2. TokenHolds(w)'
    <3>1. \E g \in held[w] : Admits(g, tok[w].form)
      BY <1>0, <2>1 DEF Authenticated, TokenHolds, Holding
    <3>2. QED
      BY <1>0, <1>1, <2>1, <3>1 DEF TokenHolds, Redeems, Admits, Holding, Row
  <2>3. QED
    BY <1>1, <1>2, <2>2
<1>7. CASE TokenSign(w)
  <2>1. /\ tok'[w].pc = "ok" /\ tok'[w].form = tok[w].form
        /\ tok'[w].code = tok[w].code /\ tok'[w].grant = tok[w].grant
        /\ tok[w].pc = "sign"
    BY <1>0, <1>7 DEF TokenSign, TokenWorker
  <2>2. TokenHolds(w)'
    BY <1>0, <1>1, <2>1 DEF TokenHolds, Admits, Holding
  <2>3. QED
    BY <1>1, <1>2, <2>2
<1>5. CASE \/ TokenGrantRefused(w) \/ TokenClientRefused(w)
           \/ TokenSignFails(w) \/ TokenReply(w)
  <2>1. tok'[w].pc \notin Holding \cup {"ok"}
    BY <1>0, <1>5 DEF TokenGrantRefused, TokenClientRefused,
       TokenSignFails, TokenReply, IdleToken, Holding, TokenWorker
  <2>2. TokenHolds(w)'
    BY <2>1 DEF TokenHolds, Holding
  <2>3. QED
    BY <1>1, <1>2, <2>2
<1>6. QED
  BY <1>3, <1>4, <1>5, <1>7 DEF TokenStep

\* A token that was signed keeps the claims of its grant; a new one has them.
LEMMA TokenInvStep ==
    ASSUME TypeOK, CodeInv, FlowInv, IssueInv, TokenInv, [Next]_vars
    PROVE  TokenInv'
<1>1. ASSUME NEW t \in tokens
      PROVE  FromItsGrant(t)'
  <2>1. t.code \in Codes /\ FromItsGrant(t)
    BY TokenInvParts DEF TypeOK, IDToken
  <2>2. issued'[t.code] = issued[t.code]
    BY <2>1, IssuedStays DEF FromItsGrant
  <2>3. QED
    BY <2>1, <2>2 DEF FromItsGrant, Redeems
<1>2. CASE TokenRequestArrives
  <2>1. \A v \in TokenWorkers : TokenHolds(v)'
    BY <1>2, TokenArrivalHolds, TokenHoldsStays
  <2>2. tokens' = tokens
    BY <1>2, TokenArrivalHolds
  <2>3. QED
    BY <1>1, <2>1, <2>2, TokenInvPrimed
<1>3. ASSUME NEW w \in TokenWorkers, TokenStep(w)
      PROVE  TokenInv'
  <2>1. \A v \in TokenWorkers : TokenHolds(v)'
    BY <1>3, TokenStepHolds, TokenHoldsStays
  <2>2. ASSUME NEW t \in tokens', t \notin tokens
        PROVE  FromItsGrant(t)'
    <3>1. /\ TokenSign(w) /\ t = NewIDToken(tok[w]) /\ issued' = issued
      BY <1>3, <2>2, TokenStepHolds
    <3>2. /\ issued[tok[w].code] # None
          /\ issued[tok[w].code].grant = tok[w].grant
          /\ Redeems(tok[w].form, tok[w].checkedAt, tok[w].grant)
      BY <3>1 DEF TokenSign, TokenInv, Holding
    <3>3. QED
      BY <3>1, <3>2 DEF NewIDToken, FromItsGrant, Redeems
  <2>3. QED
    BY <1>1, <2>1, <2>2, TokenInvPrimed
<1>4. CASE ~TokenRequestArrives /\ ~(\E w \in TokenWorkers : TokenStep(w))
  <2>1. \A v \in TokenWorkers : TokenHolds(v)'
    <3>1. CASE UNCHANGED <<tok, epoch>>
      BY <3>1, TokenHoldsStays
    <3>2. CASE \A v \in TokenWorkers : tok'[v].pc = "idle"
      BY <3>2 DEF TokenHolds, Holding
    <3>3. QED
      BY <1>4, <3>1, <3>2, TokenQuiet
  <2>2. tokens' = tokens
    BY <1>4, TokenQuiet
  <2>3. QED
    BY <1>1, <2>1, <2>2, TokenInvPrimed
<1>5. QED
  BY <1>2, <1>3, <1>4

\* Every token carries the grant of its code, and that of the request and the
\* account of its flow.
LEMMA TokenInvariant == Spec => [](TypeOK /\ IssueInv /\ TokenInv)
<1>1. Init => TokenInv
  BY DEF Init, TokenInv, SignsOnlyForAuthenticated, IdleToken, Holding
<1>2. QED
  BY CodesAreInOnePlace, IssueInvariant, <1>1, TokenInvStep, PTL DEF Spec

\* Client, nonce, handle and account of an ID token come from one login, the
\* one its code was issued for, and the client that got it is that client.
THEOREM TokensComeFromOneFlow == Spec => []TokenProvenance
<1>1. ASSUME TypeOK, IssueInv, TokenInv
      PROVE  TokenProvenance
  <2>1. ASSUME NEW t \in tokens
        PROVE  /\ t.code \in Codes /\ FromItsGrant(t)
               /\ IssuedInFlow(issued[t.code])
    BY <1>1 DEF TypeOK, IDToken, TokenInv, FromItsGrant, IssueInv
  <2>2. QED
    BY <2>1 DEF TokenProvenance, FromItsGrant, IssuedInFlow, RequestOf, FlowOf, Redeems
<1>2. QED
  BY TokenInvariant, <1>1, PTL

\* However slow the login and the RP are, a code is accepted at most two
\* lifetimes after its request was filed, and the time that its callback took
\* from the check of the request's age to the making of the grant.
THEOREM TokensAreInTime == Spec => []EndToEndDeadline
<1>1. ASSUME TypeOK, IssueInv, TokenInv, NEW t \in tokens
      PROVE  t.checkedAt <= RequestOf(t.code).createdAt + 2 * AuthCodeTTL
                            + (issued[t.code].issuedAt - issued[t.code].freshAt)
  <2> DEFINE i == issued[t.code]
             r == RequestOf(t.code)
  <2>1. /\ t.code \in Codes /\ t.checkedAt \in Nat
        /\ FromItsGrant(t) /\ IssuedInFlow(i)
    BY <1>1 DEF TypeOK, IDToken, TokenInv, FromItsGrant, IssueInv
  <2>2. i \in Issue /\ origin[FlowOf(t.code)] \in Origin
    BY <1>1, <2>1 DEF TypeOK, FromItsGrant, IssuedInFlow, FlowOf, Issue
  <2>3. i.freshAt \in Nat /\ i.issuedAt \in Nat /\ r.createdAt \in Nat
    BY <2>2 DEF Issue, Origin, PendingAuthorization, RequestOf
  <2>4. /\ i.freshAt <= r.createdAt + AuthCodeTTL
        /\ t.checkedAt <= i.issuedAt + AuthCodeTTL
    BY <2>1 DEF FromItsGrant, Redeems, IssuedInFlow, RequestOf, FlowOf
  <2> HIDE DEF i, r
  <2>5. t.checkedAt <= r.createdAt + 2 * AuthCodeTTL + (i.issuedAt - i.freshAt)
    BY <2>1, <2>3, <2>4
  <2>6. QED
    BY <2>5 DEF i, r
<1>2. TypeOK /\ IssueInv /\ TokenInv => EndToEndDeadline
  BY <1>1 DEF EndToEndDeadline
<1>3. QED
  BY TokenInvariant, <1>2, PTL

\* An ID token is signed only by the process that issued its code, and only for
\* a secret that the client had after that process took the code for it: what
\* other processes on the same database register meanwhile is taken into
\* account.
THEOREM TokensNeedAuthentication == Spec => []SignsOnlyForAuthenticated
<1>1. TokenInv => SignsOnlyForAuthenticated
  BY DEF TokenInv
<1>2. QED
  BY TokenInvariant, <1>1, PTL

-----------------------------------------------------------------------------
(* Redirects *)

\* A request of this process was validated against registrations that this
\* process found in the store, whoever put them there.
LEMMA RegistrationStep ==
    ASSUME TypeOK, RegistrationInv, [Next]_vars
    PROVE  RegistrationInv'
<1>1. CASE Restart
  BY <1>1 DEF Restart, RegistrationInv, IdleAuth, IdleCallback
<1>2. CASE RegisteredElsewhere
  <2>1. PICK config \in Configs, c \in Clients :
          /\ clients' = [clients EXCEPT ![c] = config[c]]
          /\ registry' = [registry EXCEPT ![c] = @ \cup {config[c]}]
    BY <1>2 DEF RegisteredElsewhere
  <2>2. UNCHANGED <<auth, cb, pendingRequests>>
    BY <1>2 DEF RegisteredElsewhere
  <2>3. \A d \in Clients : registry[d] \subseteq registry'[d]
    BY <2>1 DEF TypeOK
  <2>4. \A d \in Clients : Row(d)' \subseteq registry'[d]
    BY <2>1 DEF TypeOK, RegistrationInv, Row
  <2>5. \A x : WasRegistered(x) => WasRegistered(x)'
    BY <2>3 DEF WasRegistered
  <2>6. QED
    BY <2>2, <2>4, <2>5 DEF RegistrationInv
<1>3. CASE ~Restart /\ ~RegisteredElsewhere
  <2>0. UNCHANGED <<clients, registry>>
    BY <1>3 DEF Next, AuthRequestArrives, AuthorizeRejected, AuthorizeRefused,
       AuthorizeAsksHandle, AuthorizeAccepted, AuthEnter, AuthStep, StartFlow,
       StartFlowFails, StorePending, AuthorizeReply, CallbackArrives,
       CallbackAccepted, CallbackRejected, CallbackEnter, CallbackStep,
       CallbackExchange, CallbackExchangeFails, CallbackTake, CallbackPlain,
       CallbackExpired, CallbackFresh, CallbackIssue, CallbackReply,
       TokenRequestArrives, TokenRejected, TokenConsume, TokenUnknown,
       TokenStep, TokenGrantRefused, TokenGrantAccepted, TokenClientAccepted,
       TokenClientRefused, TokenSign, TokenSignFails, TokenReply, Tick, vars
  <2>1. CASE AuthRequestArrives
    <3>1. PICK w \in AuthWorkers, r \in AuthRequests,
               pc \in {"error_page", "error_redirect", "login_form", "start_flow"} :
            AuthEnter(w, r, pc) /\ (pc \in {"error_redirect", "start_flow"} => ValidTarget(r))
      BY <2>1 DEF AuthRequestArrives, AuthorizeRejected, AuthorizeRefused,
                  AuthorizeAsksHandle, AuthorizeAccepted, ErrorReply
    <3>2. ValidTarget(r) => WasRegistered(r)
      BY DEF ValidTarget, WasRegistered, AuthRequest, RegistrationInv, Row
    <3>3. /\ auth'[w].pc = pc /\ auth'[w].request = r
          /\ \A v \in AuthWorkers \ {w} : auth'[v] = auth[v]
          /\ UNCHANGED <<pendingRequests, cb>>
      BY <3>1 DEF AuthEnter, TypeOK
    <3>4. QED
      BY <2>0, <3>1, <3>2, <3>3 DEF RegistrationInv, WasRegistered, Row
  <2>2. ASSUME NEW w \in AuthWorkers, AuthStep(w)
        PROVE  RegistrationInv'
    <3>0. auth \in [AuthWorkers -> AuthWorker]
      BY DEF TypeOK
    <3>1. CASE StorePending(w)
      <4>1. /\ pendingRequests' =
                  [pendingRequests EXCEPT ![auth[w].state] = NewPending(auth[w].request)]
            /\ auth'[w].pc = "auth_redirect" /\ cb' = cb
            /\ \A v \in AuthWorkers \ {w} : auth'[v] = auth[v]
        BY <3>0, <3>1 DEF StorePending
      <4>2. WasRegistered(NewPending(auth[w].request))
        BY <3>1 DEF StorePending, RegistrationInv, WasRegistered, NewPending
      <4>3. QED
        BY <2>0, <4>1, <4>2 DEF RegistrationInv, WasRegistered, Row, TypeOK
    <3>2. CASE StartFlow(w) \/ StartFlowFails(w) \/ AuthorizeReply(w)
      <4>1. /\ UNCHANGED <<pendingRequests, cb>>
            /\ \A v \in AuthWorkers \ {w} : auth'[v] = auth[v]
        BY <3>0, <3>2 DEF StartFlow, StartFlowFails, AuthorizeReply
      <4>2. auth'[w].pc \in {"start_flow", "store_pending", "error_redirect"} =>
              /\ auth[w].pc = "start_flow" /\ auth'[w].request = auth[w].request
        BY <3>0, <3>2 DEF StartFlow, StartFlowFails, AuthorizeReply, IdleAuth, AuthWorker
      <4>3. QED
        BY <2>0, <4>1, <4>2 DEF RegistrationInv, WasRegistered, Row
    <3>3. QED
      BY <2>2, <3>1, <3>2 DEF AuthStep
  <2>3. ASSUME NEW w \in CallbackWorkers, CallbackStep(w)
        PROVE  RegistrationInv'
    <3>1. /\ auth' = auth
          /\ \A s \in FlowStates : pendingRequests'[s] \in {pendingRequests[s], None}
      BY <2>3 DEF CallbackStep, CallbackExchange, CallbackExchangeFails, CallbackTake,
         CallbackPlain, CallbackExpired, CallbackFresh, CallbackIssue, CallbackReply, TypeOK
    <3>2. CASE CallbackTake(w)
      <4>1. WasRegistered(cb'[w].pending)
        BY <2>3, <3>2, CallbackEffect
           DEF CallbackTake, RegistrationInv, TypeOK, CallbackLocals
      <4>2. QED
        BY <2>0, <2>3, <3>1, <4>1, CallbackEffect DEF RegistrationInv, WasRegistered, Row
    <3>3. CASE CallbackExpired(w) \/ CallbackFresh(w) \/ CallbackIssue(w)
      <4>1. WasRegistered(cb'[w].pending)
        BY <2>3, <3>3, CallbackEffect
           DEF CallbackExpired, CallbackFresh, CallbackIssue, RegistrationInv
      <4>2. QED
        BY <2>0, <2>3, <3>1, <4>1, CallbackEffect DEF RegistrationInv, WasRegistered, Row
    <3>4. CASE \/ CallbackExchange(w) \/ CallbackExchangeFails(w)
               \/ CallbackPlain(w) \/ CallbackReply(w)
      BY <2>0, <2>3, <3>1, <3>4, CallbackEffect DEF RegistrationInv, WasRegistered, Row
    <3>5. QED
      BY <2>3, <3>2, <3>3, <3>4 DEF CallbackStep
  <2>4. CASE /\ ~AuthRequestArrives
             /\ ~(\E w \in AuthWorkers : AuthStep(w))
             /\ ~(\E w \in CallbackWorkers : CallbackStep(w))
    <3>1. UNCHANGED <<auth, pendingRequests>>
      BY <1>3, <2>4 DEF Next, CallbackArrives, CallbackAccepted, CallbackRejected,
         CallbackEnter, TokenRequestArrives, TokenRejected, TokenConsume,
         TokenUnknown, TokenStep, TokenGrantRefused, TokenGrantAccepted,
         TokenClientAccepted, TokenClientRefused, TokenSign, TokenSignFails,
         TokenReply, Tick, RegisteredElsewhere, vars
    <3>2. QED
      BY <2>0, <2>4, <3>1, CallbackQuiet DEF RegistrationInv, WasRegistered, Row
  <2>5. QED
    BY <2>1, <2>2, <2>3, <2>4
<1>4. QED
  BY <1>1, <1>2, <1>3

\* No browser is redirected, with an error or a code, to a URI that the client
\* had not registered while this process was up, whoever registered it.
THEOREM RedirectsAreRegistered == Spec => []RedirectOnlyToRegistered
<1>1. Init => RegistrationInv
  BY DEF Init, RegistrationInv, Row, IdleAuth, IdleCallback
<1>2. RegistrationInv => RedirectOnlyToRegistered
  BY DEF RegistrationInv, RedirectOnlyToRegistered
<1>3. QED
  BY TypeCorrect, <1>1, RegistrationStep, <1>2, PTL DEF Spec
=============================================================================
