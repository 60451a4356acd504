------------------------- MODULE OIDCProviderProofs -------------------------
(***************************************************************************)
(* Theorems about OIDCProvider, for every value of its constants.          *)
(***************************************************************************)
EXTENDS OIDCProvider, TLAPS

USE AbsentAssumption, NoneAssumption, InputAssumption, BoundAssumption
USE DEF store, provider, flowHist, codeHist, Without, LoseMaps, AsksHandle, Answer,
        Answering

-----------------------------------------------------------------------------
(* Type correctness *)

\* The first process starts well-typed.
LEMMA InitTypeOK == Init => TypeOK
BY DEF Init, Row, TypeOK, AuthLocals, CallbackLocals, TokenLocals, Holding, AuthWorker,
       CallbackWorker, TokenWorker, IdleAuth, IdleCallback, IdleToken

\* The four ways to enter /authorize differ in the pc and its condition.
LEMMA TypeAuthArrives ==
    ASSUME TypeOK, AuthRequestArrives
    PROVE  TypeOK'
<1>1. PICK w \in AuthWorkers, r \in AuthRequests :
         \/ AuthorizeRejected(w, r) \/ AuthorizeRefused(w, r)
         \/ AuthorizeAsksHandle(w, r) \/ AuthorizeAccepted(w, r)
  BY DEF AuthRequestArrives
<1>2. CASE \E pc \in {"error_page", "error_redirect", "login_form"} :
             AuthEnter(w, r, pc)
  BY <1>2 DEF AuthEnter, TypeOK, AuthLocals, CallbackLocals, TokenLocals, Holding, AuthWorker, AuthReplies
<1>3. CASE AuthorizeAccepted(w, r)
  <2>1. r \in AuthRequest /\ clients \in [Clients -> Registration \cup {None}]
    BY DEF TypeOK
  <2>2. r.client \in Clients /\ r.uri \in URIs /\ r.hint \in RPValues
    BY <1>3, <2>1 DEF AuthorizeAccepted, ValidTarget, AuthRequest
  <2>3. QED
    BY <1>3, <2>2
    DEF AuthorizeAccepted, AuthEnter, TypeOK, AuthLocals, CallbackLocals, TokenLocals, Holding, AuthWorker
<1>4. QED
  BY <1>1, <1>2, <1>3
  DEF AuthorizeRejected, AuthorizeRefused, AuthorizeAsksHandle, ErrorReply

\* Each later step of /authorize replaces the locals of its handler.
LEMMA TypeAuthStep ==
    ASSUME TypeOK, NEW w \in AuthWorkers, AuthStep(w)
    PROVE  TypeOK'
<1> USE DEF TypeOK, AuthLocals, CallbackLocals, TokenLocals, Holding, AuthWorker, AuthReplies
<1>1. CASE StartFlow(w)
  BY <1>1 DEF StartFlow
<1>2. CASE StartFlowFails(w)
  BY <1>2 DEF StartFlowFails, ErrorReply
<1>3. CASE StorePending(w)
  BY <1>3 DEF StorePending, NewPending, PendingAuthorization, Origin, AuthRequest
<1>4. CASE AuthorizeReply(w)
  BY <1>4 DEF AuthorizeReply, IdleAuth
<1>5. QED
  BY <1>1, <1>2, <1>3, <1>4 DEF AuthStep

\* Replacing the locals of one handler by well-typed ones is all that a step
\* of it does to cb, and likewise to tok.
LEMMA CallbackUpdate ==
    ASSUME TypeOK, NEW w \in CallbackWorkers, NEW x \in CallbackWorker,
           CallbackLocals(x), cb' = [cb EXCEPT ![w] = x]
    PROVE  /\ cb' \in [CallbackWorkers -> CallbackWorker]
           /\ \A v \in CallbackWorkers : CallbackLocals(cb'[v])
BY DEF TypeOK

LEMMA TokenUpdate ==
    ASSUME TypeOK, NEW w \in TokenWorkers, NEW x \in TokenWorker,
           TokenLocals(x), tok' = [tok EXCEPT ![w] = x]
    PROVE  /\ tok' \in [TokenWorkers -> TokenWorker]
           /\ \A v \in TokenWorkers : TokenLocals(tok'[v])
BY DEF TypeOK

\* A callback that is accepted or refused sets its locals.
LEMMA TypeCallbackArrives ==
    ASSUME TypeOK, CallbackArrives
    PROVE  TypeOK'
<1>1. PICK w \in CallbackWorkers, s \in FlowStates, pc \in {"exchange", "failed"} :
         CallbackEnter(w, s, pc)
  BY DEF CallbackArrives, CallbackAccepted, CallbackRejected
<1> DEFINE x == [IdleCallback EXCEPT !.pc = pc, !.state = s]
<1>2. x \in CallbackWorker /\ CallbackLocals(x)
  BY DEF CallbackWorker, CallbackLocals, CallbackReplies, IdleCallback
<1>3. cb' = [cb EXCEPT ![w] = x]
  BY <1>1 DEF CallbackEnter
<1> HIDE DEF x
<1>4. QED
  BY <1>1, <1>2, <1>3, CallbackUpdate DEF CallbackEnter, TypeOK, TokenLocals

\* One step per exit of HandleCallback.
LEMMA TypeCallbackStep ==
    ASSUME TypeOK, NEW w \in CallbackWorkers, CallbackStep(w)
    PROVE  TypeOK'
<1>0. cb[w] \in CallbackWorker /\ CallbackLocals(cb[w])
  BY DEF TypeOK
<1> USE DEF CallbackWorker, CallbackLocals, CallbackReplies
<1>1. CASE CallbackExchange(w)
  <2>1. PICK d \in DIDs : cb' = [cb EXCEPT ![w] = [@ EXCEPT !.pc = "take", !.did = d]]
                          /\ sessions' = sessions \cup {<<cb[w].state, d>>}
    BY <1>1 DEF CallbackExchange
  <2> DEFINE x == [cb[w] EXCEPT !.pc = "take", !.did = d]
  <2>2. x \in CallbackWorker /\ CallbackLocals(x) /\ cb' = [cb EXCEPT ![w] = x]
    <3>1. cb[w].pc = "exchange" /\ cb[w].state \in FlowStates
      BY <1>0, <1>1 DEF CallbackExchange
    <3>2. x \in CallbackWorker
      BY <1>0
    <3>3. CallbackLocals(x)
      BY <1>0, <3>1
    <3>4. QED
      BY <2>1, <3>2, <3>3
  <2>3. sessions' \subseteq FlowStates \X DIDs
    BY <1>0, <1>1, <2>1 DEF CallbackExchange, TypeOK
  <2> HIDE DEF x
  <2>4. QED
    BY <1>1, <2>2, <2>3, CallbackUpdate DEF CallbackExchange, TypeOK, TokenLocals
<1>2. CASE CallbackExchangeFails(w)
  <2> DEFINE x == [cb[w] EXCEPT !.pc = "failed"]
  <2>1. x \in CallbackWorker /\ CallbackLocals(x) /\ cb' = [cb EXCEPT ![w] = x]
    BY <1>0, <1>2 DEF CallbackExchangeFails
  <2>2. authRequests' \subseteq FlowStates
    BY <1>2 DEF CallbackExchangeFails, TypeOK
  <2> HIDE DEF x
  <2>3. QED
    BY <1>2, <2>1, <2>2, CallbackUpdate DEF CallbackExchangeFails, TypeOK, TokenLocals
<1>3. CASE CallbackTake(w)
  <2> DEFINE x == [cb[w] EXCEPT !.pc = "check_age",
                                !.pending = pendingRequests[cb[w].state]]
  <2>1. x \in CallbackWorker /\ CallbackLocals(x) /\ cb' = [cb EXCEPT ![w] = x]
    BY <1>0, <1>3 DEF CallbackTake, TypeOK
  <2> HIDE DEF x
  <2>2. QED
    BY <1>0, <1>3, <2>1, CallbackUpdate DEF CallbackTake, TypeOK, TokenLocals
<1>4. CASE CallbackPlain(w)
  BY <1>4 DEF CallbackPlain, TypeOK
<1>5. CASE CallbackExpired(w)
  BY <1>5 DEF CallbackExpired, ErrorReply, TypeOK
<1>9. CASE CallbackFresh(w)
  <2> DEFINE x == [cb[w] EXCEPT !.pc = "issue", !.freshAt = now]
  <2>1. x \in CallbackWorker /\ CallbackLocals(x) /\ cb' = [cb EXCEPT ![w] = x]
    BY <1>0, <1>9 DEF CallbackFresh, TypeOK
  <2> HIDE DEF x
  <2>2. QED
    BY <1>9, <2>1, CallbackUpdate DEF CallbackFresh, TypeOK, TokenLocals
<1>6. CASE CallbackIssue(w)
  <2> DEFINE grant == NewGrant(cb[w].pending, cb[w].did)
             issue == [flow |-> cb[w].state, grant |-> grant, epoch |-> epoch,
                       freshAt |-> cb[w].freshAt, issuedAt |-> now]
  <2>1. PICK k \in Codes :
          /\ codeGrants' = [codeGrants EXCEPT ![k] = grant]
          /\ issued' = [issued EXCEPT ![k] = issue]
          /\ cb' = [cb EXCEPT ![w] =
                [@ EXCEPT !.pc = CodeReply(cb[w].pending.uri), !.code = k]]
    BY <1>6 DEF CallbackIssue
  <2>2. grant \in CodeGrant
    BY <1>0, <1>6 DEF CallbackIssue, NewGrant, CodeGrant, PendingAuthorization, TypeOK
  <2>3. issue \in Issue
    BY <1>0, <1>6, <2>2 DEF CallbackIssue, Issue, TypeOK
  <2> DEFINE x == [cb[w] EXCEPT !.pc = CodeReply(cb[w].pending.uri), !.code = k]
  <2>4. x \in CallbackWorker /\ CallbackLocals(x) /\ cb' = [cb EXCEPT ![w] = x]
    BY <1>0, <1>6, <2>1 DEF CallbackIssue, CodeReply, TypeOK
  <2> HIDE DEF grant, issue, x
  <2>5. QED
    BY <1>6, <2>1, <2>2, <2>3, <2>4, CallbackUpdate
    DEF CallbackIssue, TypeOK, TokenLocals
<1>7. CASE CallbackReply(w)
  BY <1>0, <1>7 DEF CallbackReply, IdleCallback, Delivery, PendingAuthorization, TypeOK
<1>8. QED
  BY <1>1, <1>2, <1>3, <1>4, <1>5, <1>6, <1>7, <1>9 DEF CallbackStep

\* A /token request consumes a grant or finds none.
LEMMA TypeTokenArrives ==
    ASSUME TypeOK, TokenRequestArrives
    PROVE  TypeOK'
<1> USE DEF TypeOK, AuthLocals, CallbackLocals, TokenLocals, Holding, TokenWorker, TokenReplies
<1>1. PICK w \in TokenWorkers, f \in TokenForms, k \in Presentable :
         TokenRejected(w, f, k) \/ TokenConsume(w, f, k) \/ TokenUnknown(w, f, k)
  BY DEF TokenRequestArrives
<1>2. CASE TokenRejected(w, f, k)
  BY <1>2 DEF TokenRejected, IdleToken
<1>3. CASE TokenConsume(w, f, k)
  <2>1. k \in Codes
    BY <1>3 DEF TokenConsume, WellFormed, Presentable, Delivery
  <2>2. Row(f.client) \subseteq Registration
    BY <1>3, AbsentAssumption DEF TokenConsume, WellFormed, Row, TokenForm
  <2>3. QED
    BY <1>3, <2>1, <2>2 DEF TokenConsume
<1>4. CASE TokenUnknown(w, f, k)
  BY <1>4 DEF TokenUnknown, IdleToken
<1>5. QED
  BY <1>1, <1>2, <1>3, <1>4

\* One step per exit of HandleToken.
LEMMA TypeTokenStep ==
    ASSUME TypeOK, NEW w \in TokenWorkers, TokenStep(w)
    PROVE  TypeOK'
<1>0. tok[w] \in TokenWorker /\ TokenLocals(tok[w])
  BY DEF TypeOK
<1> USE DEF TokenWorker, TokenLocals, TokenReplies, Holding
<1>1. CASE TokenGrantRefused(w)
  BY <1>1 DEF TokenGrantRefused, TypeOK
<1>2. CASE TokenGrantAccepted(w)
  <2> DEFINE x == [tok[w] EXCEPT !.pc = "check_client", !.checkedAt = now]
  <2>1. now \in Nat
    BY DEF TypeOK
  <2>2. x \in TokenWorker /\ TokenLocals(x)
    BY <1>0, <1>2, <2>1 DEF TokenGrantAccepted
  <2>3. tok' = [tok EXCEPT ![w] = x]
    BY <1>2 DEF TokenGrantAccepted
  <2> HIDE DEF x
  <2>4. QED
    BY <1>2, <2>2, <2>3, TokenUpdate DEF TokenGrantAccepted, TypeOK
<1>3. CASE TokenClientAccepted(w)
  BY <1>3 DEF TokenClientAccepted, TypeOK
<1>4. CASE TokenClientRefused(w)
  BY <1>4 DEF TokenClientRefused, TypeOK
<1>5. CASE TokenSign(w)
  BY <1>5 DEF TokenSign, NewIDToken, CodeGrant, IDToken, TypeOK
<1>6. CASE TokenSignFails(w)
  BY <1>6 DEF TokenSignFails, TypeOK
<1>7. CASE TokenReply(w)
  BY <1>7 DEF TokenReply, IdleToken, TypeOK
<1>8. QED
  BY <1>1, <1>2, <1>3, <1>4, <1>5, <1>6, <1>7 DEF TokenStep

\* The clock touches no handler.
LEMMA TypeTick ==
    ASSUME TypeOK, Tick
    PROVE  TypeOK'
BY DEF Tick, TypeOK, AuthLocals, CallbackLocals, TokenLocals, Holding

\* A restart empties the maps and ends every handler.
LEMMA TypeRestart ==
    ASSUME TypeOK, Restart
    PROVE  TypeOK'
<1>1. PICK config \in Configs :
         clients' = Registered(IF Persistent THEN clients ELSE NoClients, config)
  BY DEF Restart
<1>2. clients' \in [Clients -> Registration \cup {None}]
  BY <1>1 DEF Registered, NoClients, TypeOK
<1>3. registry' \in [Clients -> SUBSET Registration]
  BY <1>2 DEF Restart, Row
<1>4. QED
  BY <1>2, <1>3
  DEF Restart, TypeOK, AuthLocals, CallbackLocals, TokenLocals, Holding, AuthWorker,
      CallbackWorker, TokenWorker, IdleAuth, IdleCallback, IdleToken

\* A registration by another process changes one client's row.
LEMMA TypeRegisteredElsewhere ==
    ASSUME TypeOK, RegisteredElsewhere
    PROVE  TypeOK'
<1>1. PICK config \in Configs, c \in Clients :
        /\ config[c] # None
        /\ clients' = [clients EXCEPT ![c] = config[c]]
        /\ registry' = [registry EXCEPT ![c] = @ \cup {config[c]}]
        /\ held' = [w \in TokenWorkers |->
                IF tok[w].pc \in Holding /\ tok[w].form.client = c
                THEN held[w] \cup {config[c]} ELSE held[w]]
  BY DEF RegisteredElsewhere
<1>2. config[c] \in Registration
  BY <1>1
<1>3. QED
  BY <1>1, <1>2
  DEF RegisteredElsewhere, TypeOK, AuthLocals, CallbackLocals, TokenLocals, Holding

\* In every reachable state each variable holds values of the type the code
\* gives it, and each handler has set the locals it is about to use.
THEOREM TypeCorrect == Spec => []TypeOK
<1>1. TypeOK /\ [Next]_vars => TypeOK'
  <2> SUFFICES ASSUME TypeOK, [Next]_vars PROVE TypeOK'
    OBVIOUS
  <2>1. CASE UNCHANGED vars
    BY <2>1 DEF vars, TypeOK, AuthLocals, CallbackLocals, TokenLocals, Holding
  <2>2. CASE Next
    BY <2>2, TypeAuthArrives, TypeAuthStep, TypeCallbackArrives, TypeCallbackStep,
       TypeTokenArrives, TypeTokenStep, TypeTick, TypeRestart,
       TypeRegisteredElsewhere DEF Next
  <2>3. QED
    BY <2>1, <2>2
<1>2. QED
  BY InitTypeOK, <1>1, PTL DEF Spec

-----------------------------------------------------------------------------
(* Authorization codes *)

\* No code exists at first.
LEMMA InitCodeInv == Init => CodeInv
BY DEF Init, CodeInv, GrantsExact, Holding, IdleToken

\* A step that leaves the codes alone keeps CodeInv if it makes no /token
\* handler hold a grant that it did not hold before.
LEMMA CodeFrame ==
    ASSUME CodeInv,
           UNCHANGED <<epoch, issued, codeGrants, consumed, uses>>,
           \A v \in TokenWorkers :
               tok'[v].pc \in Holding =>
                   tok[v].pc \in Holding /\ tok'[v].code = tok[v].code
    PROVE  CodeInv'
BY DEF CodeInv, GrantsExact

\* /authorize, the clock and other processes touch no code.
LEMMA CodeAuthStep ==
    ASSUME CodeInv,
           \/ AuthRequestArrives \/ \E w \in AuthWorkers : AuthStep(w)
           \/ CallbackArrives \/ Tick \/ RegisteredElsewhere \/ UNCHANGED vars
    PROVE  CodeInv'
<1>1. UNCHANGED <<epoch, issued, codeGrants, consumed, uses, tok>>
  BY DEF AuthRequestArrives, AuthorizeRejected, AuthorizeRefused,
         AuthorizeAsksHandle, AuthorizeAccepted, AuthEnter, AuthStep, StartFlow,
         StartFlowFails, StorePending, AuthorizeReply, CallbackArrives,
         CallbackAccepted, CallbackRejected, CallbackEnter, Tick,
         RegisteredElsewhere, vars
<1>2. QED
  BY <1>1, CodeFrame

\* Only CallbackIssue adds a code, and it is a fresh one.
LEMMA CodeCallbackStep ==
    ASSUME TypeOK, CodeInv, NEW w \in CallbackWorkers, CallbackStep(w)
    PROVE  CodeInv'
<1>1. CASE CallbackIssue(w)
  <2> DEFINE grant == NewGrant(cb[w].pending, cb[w].did)
             issue == [flow |-> cb[w].state, grant |-> grant, epoch |-> epoch,
                       freshAt |-> cb[w].freshAt, issuedAt |-> now]
  <2>1. PICK k \in Codes :
          /\ issued[k] = None
          /\ codeGrants' = [codeGrants EXCEPT ![k] = grant]
          /\ issued' = [issued EXCEPT ![k] = issue]
    BY <1>1 DEF CallbackIssue
  <2>2. UNCHANGED <<epoch, consumed, uses, tok>>
    BY <1>1 DEF CallbackIssue
  <2>3. issued'[k].grant = grant /\ issued'[k].epoch = epoch /\ issued'[k] # None
    <3>1. /\ cb[w].state \in FlowStates /\ grant \in CodeGrant /\ epoch \in Nat
          /\ cb[w].freshAt \in Nat /\ now \in Nat
      BY <1>1 DEF CallbackIssue, NewGrant, CodeGrant, PendingAuthorization,
                  TypeOK, CallbackLocals, CallbackWorker
    <3>2. issue \in Issue
      BY <3>1 DEF Issue
    <3>3. issued \in [Codes -> Issue \cup {None}]
      BY DEF TypeOK
    <3> HIDE DEF grant
    <3>4. QED
      BY <2>1, <3>2, <3>3
  <2>4. k \notin consumed
    BY <2>1 DEF CodeInv
  <2> HIDE DEF grant
  <2>5. GrantsExact'
    BY <2>1, <2>2, <2>3, <2>4 DEF CodeInv, GrantsExact, TypeOK
  <2>6. QED
    BY <2>1, <2>2, <2>3, <2>5 DEF CodeInv, TypeOK
<1>2. CASE ~CallbackIssue(w)
  <2>1. UNCHANGED <<epoch, issued, codeGrants, consumed, uses, tok>>
    BY <1>2 DEF CallbackStep, CallbackExchange, CallbackExchangeFails,
                CallbackTake, CallbackPlain, CallbackExpired, CallbackFresh,
                CallbackReply
  <2>2. QED
    BY <2>1, CodeFrame
<1>3. QED
  BY <1>1, <1>2

\* TokenConsume moves a code from codeGrants to the one handler.
LEMMA CodeTokenArrives ==
    ASSUME TypeOK, CodeInv, TokenRequestArrives
    PROVE  CodeInv'
<1>1. PICK w \in TokenWorkers, f \in TokenForms, k \in Presentable :
         TokenRejected(w, f, k) \/ TokenConsume(w, f, k) \/ TokenUnknown(w, f, k)
  BY DEF TokenRequestArrives
<1>2. CASE TokenConsume(w, f, k)
  <2>1. k \in Codes
    BY <1>2 DEF TokenConsume, WellFormed, Presentable, Delivery, TypeOK
  <2>2. issued[k] # None /\ k \notin consumed /\ uses[k] = 0
    BY <1>2, <2>1 DEF TokenConsume, CodeInv, GrantsExact
  <2>3. GrantsExact'
    BY <1>2, <2>1 DEF TokenConsume, CodeInv, GrantsExact, TypeOK
  <2>4. /\ UNCHANGED <<epoch, issued, uses>> /\ consumed' = consumed \cup {k}
        /\ tok'[w].code = k
        /\ \A v \in TokenWorkers \ {w} : tok'[v] = tok[v]
    BY <1>2 DEF TokenConsume, TypeOK
  <2>5. \A v \in TokenWorkers : tok[v].pc \in Holding => tok[v].code # k
    BY <2>2 DEF CodeInv
  <2>6. QED
    BY <2>2, <2>3, <2>4, <2>5 DEF CodeInv
<1>3. CASE TokenRejected(w, f, k) \/ TokenUnknown(w, f, k)
  <2>1. /\ UNCHANGED <<epoch, issued, codeGrants, consumed, uses>>
        /\ tok'[w].pc \notin Holding
        /\ \A v \in TokenWorkers \ {w} : tok'[v] = tok[v]
    BY <1>3 DEF TokenRejected, TokenUnknown, IdleToken, Holding, TypeOK
  <2>2. QED
    BY <2>1, CodeFrame
<1>4. QED
  BY <1>1, <1>2, <1>3

\* TokenSign moves a held grant into the one ID token it buys.
LEMMA CodeTokenStep ==
    ASSUME TypeOK, CodeInv, NEW w \in TokenWorkers, TokenStep(w)
    PROVE  CodeInv'
<1>1. CASE TokenSign(w)
  <2> DEFINE k == tok[w].code
  <2>1. k \in Codes /\ k \in consumed /\ uses[k] = 0
    BY <1>1 DEF TokenSign, CodeInv, Holding, TypeOK, TokenLocals
  <2>2. uses' = [uses EXCEPT ![k] = 1]
    BY <1>1, <2>1 DEF TokenSign
  <2>3. /\ UNCHANGED <<epoch, issued, codeGrants, consumed>>
        /\ tok'[w].pc \notin Holding
        /\ \A v \in TokenWorkers \ {w} : tok'[v] = tok[v]
    BY <1>1 DEF TokenSign, Holding, TypeOK, TokenWorker
  <2>4. \A v \in TokenWorkers \ {w} : tok[v].pc \in Holding => tok[v].code # k
    BY <1>1 DEF TokenSign, CodeInv, Holding
  <2>5. GrantsExact'
    BY <2>3 DEF CodeInv, GrantsExact
  <2>6. QED
    BY <2>1, <2>2, <2>3, <2>4, <2>5 DEF CodeInv, TypeOK
<1>2. CASE TokenGrantAccepted(w)
  <2>1. /\ UNCHANGED <<epoch, issued, codeGrants, consumed, uses>>
        /\ tok[w].pc \in Holding /\ tok'[w].code = tok[w].code
        /\ \A v \in TokenWorkers \ {w} : tok'[v] = tok[v]
    BY <1>2 DEF TokenGrantAccepted, Holding, TypeOK, TokenWorker
  <2>2. QED
    BY <2>1, CodeFrame
<1>3. CASE TokenClientAccepted(w)
  <2>1. /\ UNCHANGED <<epoch, issued, codeGrants, consumed, uses>>
        /\ tok[w].pc \in Holding /\ tok'[w].code = tok[w].code
        /\ \A v \in TokenWorkers \ {w} : tok'[v] = tok[v]
    BY <1>3 DEF TokenClientAccepted, Holding, TypeOK, TokenWorker
  <2>2. QED
    BY <2>1, CodeFrame
<1>4. CASE \/ TokenGrantRefused(w) \/ TokenClientRefused(w)
           \/ TokenSignFails(w) \/ TokenReply(w)
  <2>1. /\ UNCHANGED <<epoch, issued, codeGrants, consumed, uses>>
        /\ tok'[w].pc \notin Holding
        /\ \A v \in TokenWorkers \ {w} : tok'[v] = tok[v]
    BY <1>4 DEF TokenGrantRefused, TokenClientRefused, TokenSignFails, TokenReply,
                IdleToken, Holding, TypeOK, TokenWorker
  <2>2. QED
    BY <2>1, CodeFrame
<1>5. QED
  BY <1>1, <1>2, <1>3, <1>4 DEF TokenStep

\* A restart loses every code that was not redeemed.
LEMMA CodeRestart ==
    ASSUME TypeOK, CodeInv, Restart
    PROVE  CodeInv'
<1>1. /\ UNCHANGED <<issued, consumed, uses>> /\ epoch' = epoch + 1
      /\ codeGrants' = [k \in Codes |-> None]
      /\ tok' = [w \in TokenWorkers |-> IdleToken]
  BY DEF Restart
<1>2. \A k \in Codes : issued[k] # None => issued[k].epoch \in Nat
  BY DEF TypeOK, Issue
<1>3. GrantsExact'
  BY <1>1, <1>2 DEF CodeInv, GrantsExact, TypeOK
<1>4. \A w \in TokenWorkers : tok'[w].pc \notin Holding
  BY <1>1 DEF IdleToken, Holding
<1>5. QED
  BY <1>1, <1>2, <1>3, <1>4 DEF CodeInv, TypeOK

\* codeGrants holds the codes of this process that were not consumed; a code
\* that was consumed and bought nothing yet is held by at most one handler.
THEOREM CodesAreInOnePlace == Spec => []CodeInv
<1>1. TypeOK /\ CodeInv /\ [Next]_vars => CodeInv'
  BY CodeAuthStep, CodeCallbackStep, CodeTokenArrives, CodeTokenStep, CodeRestart
  DEF Next
<1>2. QED
  BY InitCodeInv, TypeCorrect, <1>1, PTL DEF Spec

\* A code buys at most one ID token, whatever the number of /token requests
\* that carry it and however they interleave.
THEOREM CodesAreSingleUse == Spec => []SingleUse
<1>1. CodeInv => SingleUse
  BY DEF CodeInv, SingleUse
<1>2. QED
  BY CodesAreInOnePlace, <1>1, PTL

\* codeGrants is exactly the set of codes issued by this process and not yet
\* consumed, with the grants they were issued with.
THEOREM GrantsAreExact == Spec => []GrantsExact
<1>1. CodeInv => GrantsExact
  BY DEF CodeInv
<1>2. QED
  BY CodesAreInOnePlace, <1>1, PTL

-----------------------------------------------------------------------------
(* Flows *)

\* No flow exists at first.
LEMMA InitFlowInv == Init => FlowInv
BY DEF Init, FlowInv, PendingExact, FlowsFiled, FilingHandlers, TakingHandlers,
       CodesOfTakenFlows, OneCodePerFlow, FlowOf, IdleAuth, IdleCallback

\* A step that files, takes, issues and redirects nothing keeps FlowInv if no
\* handler enters a section where it answers for a flow.
LEMMA FlowFrame ==
    ASSUME FlowInv,
           UNCHANGED <<epoch, origin, taken, atBrowser, pendingRequests, issued>>,
           drawn \subseteq drawn',
           \A v \in AuthWorkers :
               auth'[v].pc \in {"store_pending", "auth_redirect"} =>
                   auth'[v] = auth[v],
           \A v \in CallbackWorkers :
               /\ cb'[v].pc # "idle" =>
                   cb[v].pc # "idle" /\ cb'[v].state = cb[v].state
               /\ cb'[v].pc \in Answering =>
                   cb[v].pc \in Answering /\ cb'[v].pending = cb[v].pending
    PROVE  FlowInv'
<1> USE DEF FlowInv
<1>1. PendingExact'
  BY DEF PendingExact
<1>2. FlowsFiled'
  BY DEF FlowsFiled
<1>3. FilingHandlers'
  BY DEF FilingHandlers
<1>4. TakingHandlers'
  BY DEF TakingHandlers, FlowOf
<1>5. CodesOfTakenFlows' /\ OneCodePerFlow'
  BY DEF CodesOfTakenFlows, OneCodePerFlow, FlowOf
<1>6. QED
  BY <1>1, <1>2, <1>3, <1>4, <1>5

\* The clock, /token requests and other processes touch no flow.
LEMMA FlowOtherStep ==
    ASSUME TypeOK, FlowInv,
           \/ AuthRequestArrives \/ TokenRequestArrives
           \/ \E w \in TokenWorkers : TokenStep(w)
           \/ Tick \/ RegisteredElsewhere \/ UNCHANGED vars
    PROVE  FlowInv'
<1>1. CASE AuthRequestArrives
  <2>1. PICK w \in AuthWorkers, r \in AuthRequests,
             pc \in {"error_page", "error_redirect", "login_form", "start_flow"} :
               AuthEnter(w, r, pc)
    BY <1>1 DEF AuthRequestArrives, AuthorizeRejected, AuthorizeRefused,
                AuthorizeAsksHandle, AuthorizeAccepted, ErrorReply
  <2>2. /\ auth'[w].pc \notin {"store_pending", "auth_redirect"}
        /\ \A v \in AuthWorkers \ {w} : auth'[v] = auth[v]
        /\ UNCHANGED <<epoch, origin, taken, atBrowser, pendingRequests, issued,
                       drawn, cb>>
    BY <2>1 DEF AuthEnter, TypeOK
  <2>3. QED
    BY <2>2, FlowFrame
<1>2. CASE ~AuthRequestArrives
  <2>1. UNCHANGED <<epoch, origin, taken, atBrowser, pendingRequests, issued,
                    drawn, auth, cb>>
    BY <1>2 DEF TokenRequestArrives, TokenRejected, TokenConsume, TokenUnknown,
                TokenStep, TokenGrantRefused, TokenGrantAccepted,
                TokenClientAccepted, TokenClientRefused, TokenSign,
                TokenSignFails, TokenReply, Tick, RegisteredElsewhere, vars
  <2>2. QED
    BY <2>1, FlowFrame
<1>3. QED
  BY <1>1, <1>2

\* /authorize starts a flow and files its request once, before its redirect.
LEMMA FlowAuthStep ==
    ASSUME TypeOK, FlowInv, NEW w \in AuthWorkers, AuthStep(w)
    PROVE  FlowInv'
<1>0. auth \in [AuthWorkers -> AuthWorker] /\ AuthLocals(auth[w])
  BY DEF TypeOK
<1>1. CASE StartFlow(w)
  <2>1. PICK s \in FlowStates \ drawn :
          /\ drawn' = drawn \cup {s}
          /\ auth' = [auth EXCEPT ![w] =
                [pc |-> "store_pending", request |-> @.request, state |-> s]]
    BY <1>1 DEF StartFlow
  <2>2. UNCHANGED <<epoch, origin, taken, atBrowser, pendingRequests, issued, cb>>
    BY <1>1 DEF StartFlow
  <2>3. auth'[w].pc = "store_pending" /\ auth'[w].state = s
    BY <1>0, <2>1
  <2>4. \A v \in AuthWorkers \ {w} : auth'[v] = auth[v]
    BY <1>0, <2>1
  <2>5. origin[s] = None
    BY DEF FlowInv, FlowsFiled
  <2>6. PendingExact' /\ FlowsFiled'
    BY <2>1, <2>2 DEF FlowInv, PendingExact, FlowsFiled
  <2>7. FilingHandlers'
    BY <2>1, <2>2, <2>3, <2>4, <2>5 DEF FlowInv, FilingHandlers
  <2>8. TakingHandlers' /\ CodesOfTakenFlows' /\ OneCodePerFlow'
    BY <2>2 DEF FlowInv, TakingHandlers, CodesOfTakenFlows, OneCodePerFlow, FlowOf
  <2>9. QED
    BY <2>6, <2>7, <2>8 DEF FlowInv
<1>2. CASE StartFlowFails(w)
  <2>1. /\ UNCHANGED <<epoch, origin, taken, atBrowser, pendingRequests, issued, cb>>
        /\ drawn \subseteq drawn'
        /\ auth'[w].pc \notin {"store_pending", "auth_redirect"}
        /\ \A v \in AuthWorkers \ {w} : auth'[v] = auth[v]
    BY <1>0, <1>2 DEF StartFlowFails, ErrorReply
  <2>2. QED
    BY <2>1, FlowFrame
<1>3. CASE StorePending(w)
  <2> DEFINE s == auth[w].state
             pending == NewPending(auth[w].request)
  <2>1. /\ pendingRequests' = [pendingRequests EXCEPT ![s] = pending]
        /\ origin' = [origin EXCEPT ![s] = [request |-> pending, epoch |-> epoch]]
        /\ UNCHANGED <<epoch, drawn, taken, atBrowser, issued, cb>>
    BY <1>3 DEF StorePending
  <2>2. s \in FlowStates /\ s \in drawn /\ origin[s] = None
    BY <1>0, <1>3 DEF StorePending, FlowInv, FilingHandlers, AuthLocals
  <2>3. pending \in PendingAuthorization
    BY <1>0, <1>3 DEF StorePending, NewPending, PendingAuthorization, AuthLocals,
                      AuthRequest, TypeOK
  <2>4. [request |-> pending, epoch |-> epoch] \in Origin
    BY <2>3 DEF Origin, TypeOK
  <2>5. origin'[s].request = pending /\ origin'[s].epoch = epoch /\ origin'[s] # None
    BY <2>1, <2>2, <2>4 DEF TypeOK
  <2>6. \A v \in AuthWorkers :
            /\ auth'[v].state = auth[v].state
            /\ v # w => auth'[v] = auth[v]
            /\ v = w => auth'[v].pc = "auth_redirect"
    BY <1>0, <1>3 DEF StorePending
  <2>7. \A t \in FlowStates \ {s} :
            origin'[t] = origin[t] /\ pendingRequests'[t] = pendingRequests[t]
    BY <2>1 DEF TypeOK
  <2>8. s \notin taken /\ pendingRequests'[s] = pending
    BY <2>1, <2>2 DEF TypeOK, FlowInv, FlowsFiled
  <2> HIDE DEF pending, s
  <2>9. PendingExact'
    BY <2>1, <2>2, <2>5, <2>7, <2>8 DEF FlowInv, PendingExact
  <2>10. FlowsFiled'
    BY <2>1, <2>2, <2>5, <2>7 DEF FlowInv, FlowsFiled, TypeOK
  <2>11. FilingHandlers'
    <3>1. \A v \in AuthWorkers :
            auth[v].pc \in {"store_pending", "auth_redirect"} =>
                auth[v].state \in FlowStates
      BY DEF TypeOK, AuthLocals
    <3>2. \A v \in AuthWorkers :
            v # w /\ auth[v].pc = "store_pending" => auth[v].state # s
      BY <1>3 DEF FlowInv, FilingHandlers, StorePending, s
    <3>3. auth[w].state = s
      BY DEF s
    <3>4. QED
      BY <2>1, <2>5, <2>6, <2>7, <3>1, <3>2, <3>3 DEF FlowInv, FilingHandlers
  <2>12. TakingHandlers'
    <3>1. \A v \in CallbackWorkers : cb[v].pc # "idle" =>
              cb[v].state \in FlowStates \ {s}
      BY <2>2 DEF TypeOK, CallbackLocals, FlowInv, TakingHandlers
    <3>2. QED
      BY <2>1, <2>7, <3>1 DEF FlowInv, TakingHandlers, FlowOf
  <2>13. CodesOfTakenFlows' /\ OneCodePerFlow'
    BY <2>1 DEF FlowInv, CodesOfTakenFlows, OneCodePerFlow, FlowOf
  <2>14. QED
    BY <2>9, <2>10, <2>11, <2>12, <2>13 DEF FlowInv
<1>4. CASE AuthorizeReply(w)
  <2>1. /\ UNCHANGED <<epoch, origin, drawn, taken, pendingRequests, issued, cb>>
        /\ auth'[w].pc = "idle"
        /\ \A v \in AuthWorkers \ {w} : auth'[v] = auth[v]
    BY <1>0, <1>4 DEF AuthorizeReply, IdleAuth
  <2>2. \A s \in atBrowser' : origin[s] # None
    BY <1>0, <1>4 DEF AuthorizeReply, AuthLocals, FlowInv, FlowsFiled, FilingHandlers, TypeOK
  <2>3. FlowsFiled'
    BY <2>1, <2>2 DEF FlowInv, FlowsFiled
  <2>4. FilingHandlers'
    BY <2>1 DEF FlowInv, FilingHandlers
  <2>5. PendingExact' /\ TakingHandlers' /\ CodesOfTakenFlows' /\ OneCodePerFlow'
    BY <2>1 DEF FlowInv, PendingExact, TakingHandlers, CodesOfTakenFlows,
                OneCodePerFlow, FlowOf
  <2>6. QED
    BY <2>3, <2>4, <2>5 DEF FlowInv
<1>5. QED
  BY <1>1, <1>2, <1>3, <1>4 DEF AuthStep

\* A callback that arrives answers for nothing yet.
LEMMA FlowCallbackArrives ==
    ASSUME TypeOK, FlowInv, CallbackArrives
    PROVE  FlowInv'
<1>1. PICK w \in CallbackWorkers, s \in FlowStates, pc \in {"exchange", "failed"} :
         CallbackEnter(w, s, pc)
  BY DEF CallbackArrives, CallbackAccepted, CallbackRejected
<1>2. /\ UNCHANGED <<epoch, origin, drawn, taken, atBrowser, pendingRequests,
                     issued, auth>>
      /\ cb'[w].pc = pc /\ cb'[w].state = s
      /\ \A v \in CallbackWorkers \ {w} : cb'[v] = cb[v]
  BY <1>1 DEF CallbackEnter, IdleCallback, TypeOK
<1>3. origin[s] # None
  BY <1>1 DEF CallbackEnter, FlowInv, FlowsFiled
<1>4. TakingHandlers'
  BY <1>2, <1>3 DEF FlowInv, TakingHandlers, FlowOf
<1>5. PendingExact' /\ FlowsFiled' /\ FilingHandlers' /\ CodesOfTakenFlows'
      /\ OneCodePerFlow'
  BY <1>2 DEF FlowInv, PendingExact, FlowsFiled, FilingHandlers,
              CodesOfTakenFlows, OneCodePerFlow, FlowOf
<1>6. QED
  BY <1>4, <1>5 DEF FlowInv

\* The pending request a callback takes is the one filed for its flow by this
\* process, and nothing was issued for the flow before.
LEMMA FlowTake ==
    ASSUME TypeOK, FlowInv, NEW w \in CallbackWorkers, CallbackTake(w)
    PROVE  FlowInv'
<1> DEFINE s == cb[w].state
<1>1. s \in FlowStates /\ pendingRequests[s] # None
  BY DEF CallbackTake, TypeOK, CallbackLocals
<1>2. /\ s \notin taken /\ origin[s] # None
      /\ origin[s].request = pendingRequests[s]
  BY <1>1 DEF FlowInv, PendingExact
<1>3. /\ UNCHANGED <<epoch, origin, drawn, atBrowser, issued, auth>>
      /\ taken' = taken \cup {s}
      /\ pendingRequests' = [pendingRequests EXCEPT ![s] = None]
  BY DEF CallbackTake
<1>4. /\ cb'[w].pc \in Answering /\ cb'[w].state = s
      /\ cb'[w].pending = pendingRequests[s]
      /\ \A v \in CallbackWorkers \ {w} : cb'[v] = cb[v]
  BY DEF CallbackTake, TypeOK, CallbackWorker
<1> HIDE DEF s
<1>5. PendingExact'
  BY <1>1, <1>3 DEF FlowInv, PendingExact, TypeOK
<1>6. FlowsFiled' /\ FilingHandlers' /\ OneCodePerFlow' /\ CodesOfTakenFlows'
  BY <1>2, <1>3 DEF FlowInv, FlowsFiled, FilingHandlers, OneCodePerFlow,
                    CodesOfTakenFlows, FlowOf
<1>7. \A k \in Codes : issued[k] # None => FlowOf(k) # s
  BY <1>2 DEF FlowInv, CodesOfTakenFlows
<1>8. \A v \in CallbackWorkers : cb[v].pc \in Answering => cb[v].state # s
  BY <1>2 DEF FlowInv, TakingHandlers
<1>9. TakingHandlers'
  BY <1>2, <1>3, <1>4, <1>7, <1>8 DEF FlowInv, TakingHandlers, FlowOf
<1>10. QED
  BY <1>5, <1>6, <1>9 DEF FlowInv

\* A callback issues one code, for the request it took.
LEMMA FlowIssue ==
    ASSUME TypeOK, FlowInv, NEW w \in CallbackWorkers, CallbackIssue(w)
    PROVE  FlowInv'
<1> DEFINE s == cb[w].state
           issue == [flow |-> s, grant |-> NewGrant(cb[w].pending, cb[w].did),
                     epoch |-> epoch, freshAt |-> cb[w].freshAt, issuedAt |-> now]
<1>1. PICK k \in Codes :
        /\ issued[k] = None
        /\ issued' = [issued EXCEPT ![k] = issue]
        /\ cb' = [cb EXCEPT ![w] =
              [@ EXCEPT !.pc = CodeReply(cb[w].pending.uri), !.code = k]]
  BY DEF CallbackIssue
<1>2. UNCHANGED <<epoch, origin, drawn, taken, atBrowser, pendingRequests, auth>>
  BY DEF CallbackIssue
<1>3. /\ s \in taken /\ origin[s] # None
      /\ \A j \in Codes : issued[j] # None => FlowOf(j) # s
      /\ \A v \in CallbackWorkers \ {w} : cb[v].pc \in Answering => cb[v].state # s
  BY DEF CallbackIssue, FlowInv, TakingHandlers
<1>4. FlowOf(k)' = s
  BY <1>1 DEF FlowOf, TypeOK
<1>5. \A j \in Codes \ {k} : issued'[j] = issued[j] /\ FlowOf(j)' = FlowOf(j)
  BY <1>1 DEF FlowOf, TypeOK
<1>6. /\ cb'[w].pc \in {"code_redirect", "bare_redirect"} /\ cb'[w].state = s
      /\ \A v \in CallbackWorkers \ {w} : cb'[v] = cb[v]
  BY <1>1 DEF CodeReply, TypeOK, CallbackWorker
<1> HIDE DEF s, issue
<1>7. PendingExact' /\ FlowsFiled' /\ FilingHandlers'
  BY <1>2 DEF FlowInv, PendingExact, FlowsFiled, FilingHandlers
<1>8. TakingHandlers'
  BY <1>2, <1>3, <1>4, <1>5, <1>6 DEF FlowInv, TakingHandlers
<1>9. CodesOfTakenFlows'
  BY <1>2, <1>3, <1>4, <1>5 DEF FlowInv, CodesOfTakenFlows
<1>10. OneCodePerFlow'
  BY <1>3, <1>4, <1>5 DEF FlowInv, OneCodePerFlow
<1>11. QED
  BY <1>7, <1>8, <1>9, <1>10 DEF FlowInv

\* The other steps of a callback only let go of what it took.
LEMMA FlowCallbackStep ==
    ASSUME TypeOK, FlowInv, NEW w \in CallbackWorkers, CallbackStep(w)
    PROVE  FlowInv'
<1>1. CASE CallbackTake(w)
  BY <1>1, FlowTake
<1>2. CASE CallbackIssue(w)
  BY <1>2, FlowIssue
<1>3. CASE \/ CallbackExchange(w) \/ CallbackExchangeFails(w)
           \/ CallbackPlain(w) \/ CallbackExpired(w) \/ CallbackFresh(w)
           \/ CallbackReply(w)
  <2>1. UNCHANGED <<epoch, origin, drawn, taken, atBrowser, pendingRequests,
                    issued, auth>>
    BY <1>3 DEF CallbackExchange, CallbackExchangeFails, CallbackPlain,
                CallbackExpired, CallbackFresh, CallbackReply
  <2>2. cb[w].pc # "idle"
    BY <1>3 DEF CallbackExchange, CallbackExchangeFails, CallbackPlain,
                CallbackExpired, CallbackFresh, CallbackReply, CallbackReplies
  <2>3. \A v \in CallbackWorkers \ {w} : cb'[v] = cb[v]
    BY <1>3 DEF CallbackExchange, CallbackExchangeFails, CallbackPlain,
                CallbackExpired, CallbackFresh, CallbackReply, TypeOK
  <2>4. /\ cb'[w].pc # "idle" => cb'[w].state = cb[w].state
        /\ cb'[w].pc \in Answering =>
            cb[w].pc \in Answering /\ cb'[w].pending = cb[w].pending
    <3>1. cb \in [CallbackWorkers -> CallbackWorker]
      BY DEF TypeOK
    <3>2. CASE CallbackReply(w)
      BY <3>1, <3>2 DEF CallbackReply, IdleCallback
    <3>3. CASE CallbackExchange(w)
      BY <3>1, <3>3 DEF CallbackExchange, CallbackWorker
    <3>4. CASE CallbackExchangeFails(w) \/ CallbackPlain(w) \/ CallbackExpired(w)
      BY <3>1, <3>4 DEF CallbackExchangeFails, CallbackPlain, CallbackExpired,
                        ErrorReply, CallbackWorker
    <3>5. CASE CallbackFresh(w)
      BY <3>1, <3>5 DEF CallbackFresh, CallbackWorker
    <3>6. QED
      BY <1>3, <3>2, <3>3, <3>4, <3>5
  <2>5. QED
    BY <2>1, <2>2, <2>3, <2>4, FlowFrame
<1>4. QED
  BY <1>1, <1>2, <1>3 DEF CallbackStep

\* A restart loses every pending request.
LEMMA FlowRestart ==
    ASSUME TypeOK, FlowInv, Restart
    PROVE  FlowInv'
<1>1. /\ UNCHANGED <<origin, drawn, taken, atBrowser, issued>>
      /\ epoch' = epoch + 1
      /\ pendingRequests' = [s \in FlowStates |-> None]
      /\ auth' = [w \in AuthWorkers |-> IdleAuth]
      /\ cb' = [w \in CallbackWorkers |-> IdleCallback]
  BY DEF Restart
<1>2. \A s \in FlowStates : origin[s] # None => origin[s].epoch \in Nat
  BY DEF TypeOK, Origin
<1>3. epoch \in Nat
  BY DEF TypeOK
<1>4. PendingExact' /\ FlowsFiled'
  BY <1>1, <1>2, <1>3 DEF FlowInv, PendingExact, FlowsFiled
<1>5. FilingHandlers' /\ TakingHandlers'
  BY <1>1 DEF FilingHandlers, TakingHandlers, IdleAuth, IdleCallback
<1>6. CodesOfTakenFlows' /\ OneCodePerFlow'
  BY <1>1 DEF FlowInv, CodesOfTakenFlows, OneCodePerFlow, FlowOf
<1>7. QED
  BY <1>4, <1>5, <1>6 DEF FlowInv

\* The request of a flow is pending, held by the one callback that took it,
\* answered or lost, and only in one of these places.
THEOREM FlowsAreInOnePlace == Spec => []FlowInv
<1>1. TypeOK /\ FlowInv /\ [Next]_vars => FlowInv'
  BY FlowOtherStep, FlowAuthStep, FlowCallbackArrives, FlowCallbackStep, FlowRestart
  DEF Next
<1>2. QED
  BY InitFlowInv, TypeCorrect, <1>1, PTL DEF Spec

\* At most one authorization code is ever issued for an ATProto login,
\* whatever the number of callbacks that arrive for it.
THEOREM FlowsYieldOneCode == Spec => []OneCodePerFlow
<1>1. FlowInv => OneCodePerFlow
  BY DEF FlowInv
<1>2. QED
  BY FlowsAreInOnePlace, <1>1, PTL

\* pendingRequests is exactly the set of requests filed by this process that
\* no callback took, each under the state token it was filed under.
THEOREM PendingIsExact == Spec => []PendingExact
<1>1. FlowInv => PendingExact
  BY DEF FlowInv
<1>2. QED
  BY FlowsAreInOnePlace, <1>1, PTL
=============================================================================
