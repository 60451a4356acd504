------------------------- MODULE AuthCodeFlowProofs -------------------------
(***************************************************************************)
(* OIDCProvider implements AuthCodeFlow, for every value of its constants: *)
(* each step of a handler's goroutine is one action of the promise or none *)
(* of its business. The invariants proved before say where a login and a   *)
(* code can be, which is what the refinement mapping reads off.            *)
(***************************************************************************)
EXTENDS OIDCProvenanceProofs

USE AbsentAssumption, NoneAssumption, InputAssumption, BoundAssumption
USE DEF store, provider, flowHist, codeHist, Without, LoseMaps, AsksHandle, Answer,
        Answering

MapInv == TypeOK /\ CodeInv /\ FlowInv /\ IssueInv /\ TokenInv

\* The invariants the mapping rests on, together.
LEMMA MapInvariant == Spec => []MapInv
<1>1. Spec => []CodeInv
  BY CodesAreInOnePlace
<1>2. QED
  BY <1>1, IssueInvariant, TokenInvariant, PTL DEF MapInv

\* The first process has promised nothing.
LEMMA FlowInit == Init => Flow!Init
BY DEF Init, Flow!Init, flowLogin, flowCode, flowRequest, flowGrant, flowTokens,
       LoginStatus, CodeStatus, IdleCallback, IdleToken, Holding

-----------------------------------------------------------------------------
(* Frames: what an action leaves alone is the same for the promise *)

\* A login stays where it is while its request and its taker do.
LEMMA LoginFrame ==
    ASSUME UNCHANGED <<pendingRequests, origin>>,
           \A w \in CallbackWorkers :
               /\ cb'[w].pc \in Answering <=> cb[w].pc \in Answering
               /\ cb[w].pc \in Answering => cb'[w].state = cb[w].state
    PROVE  UNCHANGED <<flowLogin, flowRequest>>
BY DEF flowLogin, flowRequest, LoginStatus

\* A code stays where it is while its grant and its holder do.
LEMMA CodeFrameOf ==
    ASSUME UNCHANGED <<codeGrants, issued>>,
           \A w \in TokenWorkers :
               /\ tok'[w].pc \in Holding <=> tok[w].pc \in Holding
               /\ tok[w].pc \in Holding => tok'[w].code = tok[w].code
    PROVE  UNCHANGED <<flowCode, flowGrant>>
BY DEF flowCode, flowGrant, CodeStatus

\* Steps of /callback and /authorize leave codes alone, but for the issue.
LEMMA CodesAlone ==
    ASSUME UNCHANGED <<codeGrants, issued, tok, tokens>>
    PROVE  UNCHANGED <<flowCode, flowGrant, flowTokens>>
<1>1. UNCHANGED <<flowCode, flowGrant>>
  BY CodeFrameOf
<1>2. QED
  BY <1>1 DEF flowTokens

\* Steps of /token and /authorize leave logins alone, but for the filing.
LEMMA LoginsAlone ==
    ASSUME UNCHANGED <<pendingRequests, origin, cb>>
    PROVE  UNCHANGED <<flowLogin, flowRequest>>
BY LoginFrame

-----------------------------------------------------------------------------
(* /authorize *)

\* Filing a request is the request of the promise; no other step shows.
LEMMA AuthStepMaps ==
    ASSUME MapInv, NEW w \in AuthWorkers, AuthStep(w)
    PROVE  [Flow!Next]_(Flow!vars)
<1>1. CASE StorePending(w)
  <2> DEFINE s == auth[w].state
  <2>1. UNCHANGED <<flowCode, flowGrant, flowTokens>> /\ UNCHANGED <<sessions, uses>>
    BY <1>1, CodesAlone DEF StorePending
  <2>2. /\ s \in FlowStates /\ origin[s] = None
        /\ NewPending(auth[w].request) \in PendingAuthorization
    BY <1>1 DEF StorePending, MapInv, TypeOK, FlowInv, FilingHandlers, AuthLocals,
                NewPending, PendingAuthorization, AuthRequest
  <2>3. pendingRequests[s] = None
    BY <2>2 DEF MapInv, FlowInv, PendingExact
  <2>4. \A v \in CallbackWorkers : cb[v].pc \in Answering => cb[v].state # s
    BY <2>2 DEF MapInv, FlowInv, TakingHandlers
  <2>5. LoginStatus(s) = "new"
    BY <2>2, <2>3, <2>4 DEF LoginStatus
  <2>6. /\ pendingRequests' =
             [pendingRequests EXCEPT ![s] = NewPending(auth[w].request)]
        /\ origin' = [origin EXCEPT ![s] =
                         [request |-> NewPending(auth[w].request), epoch |-> epoch]]
        /\ cb' = cb
    BY <1>1 DEF StorePending
  <2>7. pendingRequests \in [FlowStates -> PendingAuthorization \cup {None}]
        /\ origin \in [FlowStates -> Origin \cup {None}] /\ epoch \in Nat
    BY DEF MapInv, TypeOK
  <2>8. flowLogin' = [flowLogin EXCEPT ![s] = "open"]
    BY <2>2, <2>6, <2>7 DEF flowLogin, LoginStatus
  <2>9. flowRequest' = [flowRequest EXCEPT ![s] = NewPending(auth[w].request)]
    <3> DEFINE o == [request |-> NewPending(auth[w].request), epoch |-> epoch]
    <3>1. o \in Origin
      BY <2>2, <2>7 DEF Origin
    <3>2. o # None /\ o.request = NewPending(auth[w].request)
      BY <3>1
    <3> HIDE DEF o
    <3>3. origin' = [origin EXCEPT ![s] = o]
      BY <2>6 DEF o
    <3>4. QED
      BY <2>2, <2>7, <3>2, <3>3 DEF flowRequest
  <2>10. Flow!Request(s)
    BY <2>1, <2>2, <2>5, <2>8, <2>9
    DEF Flow!Request, Flow!MoveLogin, flowLogin, flowRequest
  <2>11. QED
    BY <2>2, <2>10 DEF Flow!Next
<1>2. CASE ~StorePending(w)
  <2>1. UNCHANGED <<codeGrants, issued, tok, tokens, uses, pendingRequests, origin, cb,
                    sessions>>
    BY <1>2 DEF AuthStep, StartFlow, StartFlowFails, AuthorizeReply
  <2>2. QED
    BY <2>1, CodesAlone, LoginsAlone DEF Flow!vars
<1>3. QED
  BY <1>1, <1>2

-----------------------------------------------------------------------------
(* /callback *)

\* Confirm, Take, RefuseLogin and IssueCode are one step each of /callback.
LEMMA ExchangeMaps ==
    ASSUME MapInv, NEW w \in CallbackWorkers, CallbackExchange(w)
    PROVE  [Flow!Next]_(Flow!vars)
<1> DEFINE s == cb[w].state
<1>1. s \in FlowStates /\ origin[s] # None
  BY DEF CallbackExchange, MapInv, TypeOK, CallbackLocals, FlowInv, TakingHandlers
<1>2. PICK d \in DIDs : sessions' = sessions \cup {<<s, d>>}
  BY DEF CallbackExchange
<1>3. cb \in [CallbackWorkers -> CallbackWorker]
  BY DEF MapInv, TypeOK
<1>4. UNCHANGED <<flowLogin, flowRequest>>
  BY <1>3, LoginFrame DEF CallbackExchange, CallbackWorker
<1>5. UNCHANGED <<flowCode, flowGrant, flowTokens>> /\ UNCHANGED uses
  BY CodesAlone DEF CallbackExchange
<1>6. flowLogin[s] # "new"
  BY <1>1 DEF flowLogin, LoginStatus
<1>7. Flow!Confirm(s, d)
  BY <1>2, <1>4, <1>5, <1>6 DEF Flow!Confirm
<1>8. QED
  BY <1>1, <1>7 DEF Flow!Next

LEMMA TakeMaps ==
    ASSUME MapInv, NEW w \in CallbackWorkers, CallbackTake(w)
    PROVE  [Flow!Next]_(Flow!vars)
<1>0. PICK s \in FlowStates : s = cb[w].state
  BY DEF CallbackTake, MapInv, TypeOK, CallbackLocals
<1>1. /\ pendingRequests[s] # None
      /\ cb[w].did \in DIDs /\ <<s, cb[w].did>> \in sessions
  BY <1>0 DEF CallbackTake, MapInv, TypeOK, CallbackLocals, IssueInv
<1>2. cb \in [CallbackWorkers -> CallbackWorker]
      /\ pendingRequests \in [FlowStates -> PendingAuthorization \cup {None}]
  BY DEF MapInv, TypeOK
<1>3. pendingRequests' = [pendingRequests EXCEPT ![s] = None] /\ origin' = origin
  BY <1>0 DEF CallbackTake
<1>4. /\ cb'[w].pc \in Answering /\ cb'[w].state = s
      /\ \A v \in CallbackWorkers \ {w} : cb'[v] = cb[v]
  BY <1>0, <1>2 DEF CallbackTake, CallbackWorker
<1>5. \A x \in FlowStates \ {s} :
        (\E v \in CallbackWorkers : cb'[v].pc \in Answering /\ cb'[v].state = x)
        <=> (\E v \in CallbackWorkers : cb[v].pc \in Answering /\ cb[v].state = x)
  BY <1>0, <1>4 DEF CallbackTake
<1>6. flowLogin' = [flowLogin EXCEPT ![s] = "answering"]
  <2>1. LoginStatus(s)' = "answering"
    BY <1>1, <1>2, <1>3, <1>4 DEF LoginStatus
  <2>2. \A x \in FlowStates \ {s} : LoginStatus(x)' = LoginStatus(x)
    BY <1>2, <1>3, <1>5 DEF LoginStatus
  <2>3. QED
    BY <1>1, <2>1, <2>2 DEF flowLogin
<1>7. UNCHANGED flowRequest
  BY <1>3 DEF flowRequest
<1>8. UNCHANGED <<flowCode, flowGrant, flowTokens>> /\ UNCHANGED <<sessions, uses>>
  BY CodesAlone DEF CallbackTake
<1>9. flowLogin[s] = "open"
  BY <1>1 DEF flowLogin, LoginStatus
<1>10. Flow!Take(s)
  BY <1>1, <1>6, <1>7, <1>8, <1>9 DEF Flow!Take, Flow!MoveLogin
<1>11. QED
  BY <1>10 DEF Flow!Next

\* Whatever ends the answering of a login leaves it closed.
LEMMA AnsweredCloses ==
    ASSUME MapInv, NEW w \in CallbackWorkers, cb[w].pc \in Answering,
           cb'[w].pc \notin Answering, \A v \in CallbackWorkers \ {w} : cb'[v] = cb[v],
           UNCHANGED <<pendingRequests, origin>>
    PROVE  /\ cb[w].state \in FlowStates /\ flowLogin[cb[w].state] = "answering"
           /\ flowLogin' = [flowLogin EXCEPT ![cb[w].state] = "closed"]
           /\ UNCHANGED flowRequest
<1>0. PICK s \in FlowStates : s = cb[w].state
  BY DEF MapInv, TypeOK, CallbackLocals
<1>1. origin[s] # None /\ s \in taken
  BY <1>0 DEF MapInv, FlowInv, TakingHandlers
<1>2. pendingRequests[s] = None
  BY <1>1 DEF MapInv, FlowInv, PendingExact
<1>3. \A v \in CallbackWorkers \ {w} : cb[v].pc \in Answering => cb[v].state # s
  BY <1>0 DEF MapInv, FlowInv, TakingHandlers
<1>4. LoginStatus(s) = "answering"
  BY <1>0, <1>2 DEF LoginStatus
<1>5. LoginStatus(s)' = "closed"
  BY <1>1, <1>2, <1>3 DEF LoginStatus
<1>6. \A x \in FlowStates \ {s} : LoginStatus(x)' = LoginStatus(x)
  BY <1>0 DEF LoginStatus
<1>7. flowLogin' = [flowLogin EXCEPT ![s] = "closed"]
  BY <1>1, <1>5, <1>6 DEF flowLogin
<1>8. QED
  BY <1>0, <1>4, <1>7 DEF flowLogin, flowRequest

LEMMA ExpiredMaps ==
    ASSUME MapInv, NEW w \in CallbackWorkers, CallbackExpired(w)
    PROVE  [Flow!Next]_(Flow!vars)
<1>1. cb \in [CallbackWorkers -> CallbackWorker]
  BY DEF MapInv, TypeOK
<1>2. /\ cb[w].pc \in Answering /\ cb'[w].pc \notin Answering
      /\ \A v \in CallbackWorkers \ {w} : cb'[v] = cb[v]
      /\ UNCHANGED <<pendingRequests, origin, sessions, codeGrants, issued, tok, tokens,
                     uses>>
  BY <1>1 DEF CallbackExpired, ErrorReply, CallbackWorker
<1>3. /\ cb[w].state \in FlowStates /\ flowLogin[cb[w].state] = "answering"
      /\ flowLogin' = [flowLogin EXCEPT ![cb[w].state] = "closed"]
      /\ UNCHANGED flowRequest
  BY <1>2, AnsweredCloses
<1>4. UNCHANGED <<flowCode, flowGrant, flowTokens>>
  BY <1>2, CodesAlone
<1>5. Flow!RefuseLogin(cb[w].state)
  BY <1>2, <1>3, <1>4 DEF Flow!RefuseLogin, Flow!MoveLogin
<1>6. QED
  BY <1>3, <1>5 DEF Flow!Next

LEMMA IssueMaps ==
    ASSUME MapInv, NEW w \in CallbackWorkers, CallbackIssue(w)
    PROVE  [Flow!Next]_(Flow!vars)
<1> DEFINE s == cb[w].state
           g == NewGrant(cb[w].pending, cb[w].did)
           i == [flow |-> s, grant |-> g, epoch |-> epoch,
                 freshAt |-> cb[w].freshAt, issuedAt |-> now]
<1>1. cb \in [CallbackWorkers -> CallbackWorker]
      /\ codeGrants \in [Codes -> CodeGrant \cup {None}]
      /\ issued \in [Codes -> Issue \cup {None}]
  BY DEF MapInv, TypeOK
<1>2. PICK k \in Codes :
        /\ issued[k] = None
        /\ codeGrants' = [codeGrants EXCEPT ![k] = g]
        /\ issued' = [issued EXCEPT ![k] = i]
        /\ cb' = [cb EXCEPT ![w] =
                      [@ EXCEPT !.pc = CodeReply(cb[w].pending.uri), !.code = k]]
  BY DEF CallbackIssue
<1>3. /\ cb[w].pc \in Answering /\ cb'[w].pc \notin Answering
      /\ \A v \in CallbackWorkers \ {w} : cb'[v] = cb[v]
      /\ UNCHANGED <<pendingRequests, origin, sessions, tok, tokens, uses>>
  BY <1>1, <1>2 DEF CallbackIssue, CodeReply, CallbackWorker
<1>4. /\ s \in FlowStates /\ flowLogin[s] = "answering"
      /\ flowLogin' = [flowLogin EXCEPT ![s] = "closed"]
      /\ UNCHANGED flowRequest
  BY <1>3, AnsweredCloses
<1>5. cb[w].did \in DIDs /\ <<s, cb[w].did>> \in sessions
  BY <1>3 DEF MapInv, TypeOK, CallbackLocals, IssueInv
<1>6. g.did = cb[w].did /\ g # None
  <2>1. cb[w].pending \in PendingAuthorization /\ now \in Nat
    BY <1>3 DEF MapInv, TypeOK, CallbackLocals
  <2>2. g \in CodeGrant
    BY <1>5, <2>1 DEF NewGrant, CodeGrant, PendingAuthorization
  <2>3. QED
    BY <2>2 DEF NewGrant
<1>7. i # None
  <2>1. /\ cb[w].pending \in PendingAuthorization /\ cb[w].freshAt \in Nat
        /\ now \in Nat /\ epoch \in Nat
    BY <1>3 DEF MapInv, TypeOK, CallbackLocals, CallbackWorker
  <2>2. i \in Issue
    BY <1>4, <1>5, <2>1 DEF NewGrant, CodeGrant, PendingAuthorization, Issue
  <2>3. QED
    BY <2>2
<1>8. codeGrants[k] = None /\ k \notin consumed
  BY <1>2 DEF MapInv, CodeInv, GrantsExact
<1>9. \A v \in TokenWorkers : tok[v].pc \in Holding => tok[v].code # k
  BY <1>8 DEF MapInv, CodeInv
<1>10. flowCode[k] = "new"
  BY <1>2, <1>8, <1>9 DEF flowCode, CodeStatus
<1>11. flowCode' = [flowCode EXCEPT ![k] = "live"]
  <2>1. CodeStatus(k)' = "live"
    BY <1>1, <1>2, <1>6 DEF CodeStatus
  <2>2. \A x \in Codes \ {k} : CodeStatus(x)' = CodeStatus(x)
    BY <1>1, <1>2, <1>3 DEF CodeStatus
  <2>3. QED
    BY <2>1, <2>2 DEF flowCode
<1>12. flowGrant' = [flowGrant EXCEPT ![k] = [login |-> s, account |-> cb[w].did]]
  BY <1>1, <1>2, <1>6, <1>7 DEF flowGrant
<1>13. UNCHANGED flowTokens
  BY <1>3 DEF flowTokens
<1>14. Flow!IssueCode(s, k, cb[w].did)
  BY <1>3, <1>4, <1>5, <1>10, <1>11, <1>12, <1>13
  DEF Flow!IssueCode, Flow!MoveLogin, Flow!MoveCode
<1>15. QED
  BY <1>4, <1>5, <1>14 DEF Flow!Next

LEMMA CallbackStepMaps ==
    ASSUME MapInv, NEW w \in CallbackWorkers, CallbackStep(w)
    PROVE  [Flow!Next]_(Flow!vars)
<1>0. CASE CallbackFresh(w)
  <2>1. cb \in [CallbackWorkers -> CallbackWorker]
    BY DEF MapInv, TypeOK
  <2>2. /\ cb[w].pc \in Answering /\ cb'[w].pc \in Answering
        /\ cb'[w].state = cb[w].state
        /\ \A v \in CallbackWorkers \ {w} : cb'[v] = cb[v]
        /\ UNCHANGED <<pendingRequests, origin, sessions, codeGrants, issued, tok, tokens,
                       uses>>
    BY <1>0, <2>1 DEF CallbackFresh, CallbackWorker
  <2>3. UNCHANGED <<flowLogin, flowRequest>>
    BY <2>2, LoginFrame
  <2>4. QED
    BY <2>2, <2>3, CodesAlone DEF Flow!vars
<1>1. CASE CallbackExchangeFails(w) \/ CallbackPlain(w) \/ CallbackReply(w)
  <2>1. cb \in [CallbackWorkers -> CallbackWorker]
    BY DEF MapInv, TypeOK
  <2>2. /\ cb[w].pc \notin Answering /\ cb'[w].pc \notin Answering
        /\ \A v \in CallbackWorkers \ {w} : cb'[v] = cb[v]
        /\ UNCHANGED <<pendingRequests, origin, sessions, codeGrants, issued, tok, tokens,
                     uses>>
    BY <1>1, <2>1 DEF CallbackExchangeFails, CallbackPlain, CallbackReply,
                      CallbackReplies, IdleCallback, CallbackWorker
  <2>3. UNCHANGED <<flowLogin, flowRequest>>
    BY <2>2, LoginFrame
  <2>4. QED
    BY <2>2, <2>3, CodesAlone DEF Flow!vars
<1>2. QED
  BY <1>0, <1>1, ExchangeMaps, TakeMaps, ExpiredMaps, IssueMaps DEF CallbackStep

LEMMA CallbackArrivesMaps ==
    ASSUME MapInv, CallbackArrives
    PROVE  UNCHANGED Flow!vars
<1>1. PICK w \in CallbackWorkers, s \in FlowStates, pc \in {"exchange", "failed"} :
        CallbackEnter(w, s, pc)
  BY DEF CallbackArrives, CallbackAccepted, CallbackRejected
<1>2. cb \in [CallbackWorkers -> CallbackWorker]
  BY DEF MapInv, TypeOK
<1>3. /\ cb[w].pc \notin Answering /\ cb'[w].pc \notin Answering
      /\ \A v \in CallbackWorkers \ {w} : cb'[v] = cb[v]
      /\ UNCHANGED <<pendingRequests, origin, sessions, codeGrants, issued, tok, tokens,
                     uses>>
  BY <1>1, <1>2 DEF CallbackEnter, IdleCallback, CallbackWorker
<1>4. UNCHANGED <<flowLogin, flowRequest>>
  BY <1>3, LoginFrame
<1>5. QED
  BY <1>3, <1>4, CodesAlone DEF Flow!vars

-----------------------------------------------------------------------------
(* /token *)

\* The delete of the grant presents its code.
LEMMA ConsumeMaps ==
    ASSUME MapInv, NEW w \in TokenWorkers, NEW f \in TokenForms,
           NEW k \in Presentable, TokenConsume(w, f, k)
    PROVE  [Flow!Next]_(Flow!vars)
<1>1. tok \in [TokenWorkers -> TokenWorker]
      /\ codeGrants \in [Codes -> CodeGrant \cup {None}]
  BY DEF MapInv, TypeOK
<1>2. k \in Codes /\ codeGrants[k] # None
  BY DEF TokenConsume, WellFormed, Presentable, MapInv, TypeOK, Delivery
<1>3. /\ codeGrants' = [codeGrants EXCEPT ![k] = None]
      /\ tok'[w].pc \in Holding /\ tok'[w].code = k /\ tok[w].pc \notin Holding
      /\ \A v \in TokenWorkers \ {w} : tok'[v] = tok[v]
      /\ UNCHANGED <<pendingRequests, origin, cb, sessions, issued, tokens, uses>>
  BY <1>1 DEF TokenConsume, Holding
<1>4. \A x \in Codes \ {k} :
        (\E v \in TokenWorkers : tok'[v].pc \in Holding /\ tok'[v].code = x)
        <=> (\E v \in TokenWorkers : tok[v].pc \in Holding /\ tok[v].code = x)
  BY <1>3
<1>5. flowCode' = [flowCode EXCEPT ![k] = "presented"]
  <2>1. CodeStatus(k)' = "presented"
    BY <1>1, <1>2, <1>3 DEF CodeStatus
  <2>2. \A x \in Codes \ {k} : CodeStatus(x)' = CodeStatus(x)
    BY <1>1, <1>2, <1>3, <1>4 DEF CodeStatus
  <2>3. QED
    BY <1>2, <2>1, <2>2 DEF flowCode
<1>6. flowCode[k] = "live"
  BY <1>2 DEF flowCode, CodeStatus
<1>7. UNCHANGED <<flowLogin, flowRequest>>
  BY <1>3, LoginsAlone
<1>8. UNCHANGED <<flowGrant, flowTokens>>
  BY <1>3 DEF flowGrant, flowTokens
<1>9. Flow!Present(k)
  BY <1>3, <1>5, <1>6, <1>7, <1>8 DEF Flow!Present, Flow!MoveCode
<1>10. QED
  BY <1>2, <1>9 DEF Flow!Next

\* A handler that lets go of its code closes it.
LEMMA LettingGoCloses ==
    ASSUME MapInv, NEW w \in TokenWorkers, tok[w].pc \in Holding,
           tok'[w].pc \notin Holding, \A v \in TokenWorkers \ {w} : tok'[v] = tok[v],
           UNCHANGED <<codeGrants, issued>>
    PROVE  /\ tok[w].code \in Codes /\ flowCode[tok[w].code] = "presented"
           /\ flowCode' = [flowCode EXCEPT ![tok[w].code] = "closed"]
           /\ UNCHANGED flowGrant
<1>0. PICK k \in Codes : k = tok[w].code
  BY DEF MapInv, TypeOK, TokenLocals
<1>1. issued[k] # None /\ k \in consumed
  BY <1>0 DEF MapInv, TokenInv, CodeInv
<1>2. codeGrants[k] = None
  BY <1>1 DEF MapInv, CodeInv, GrantsExact
<1>3. \A v \in TokenWorkers \ {w} : tok[v].pc \in Holding => tok[v].code # k
  BY <1>0 DEF MapInv, CodeInv
<1>4. CodeStatus(k) = "presented"
  BY <1>0, <1>2 DEF CodeStatus
<1>5. CodeStatus(k)' = "closed"
  BY <1>1, <1>2, <1>3 DEF CodeStatus
<1>6. \A x \in Codes \ {k} : CodeStatus(x)' = CodeStatus(x)
  BY <1>0 DEF CodeStatus
<1>7. flowCode' = [flowCode EXCEPT ![k] = "closed"]
  BY <1>1, <1>5, <1>6 DEF flowCode
<1>8. QED
  BY <1>0, <1>4, <1>7 DEF flowCode, flowGrant

\* A signed token has the claims of the promise.
LEMMA SignMaps ==
    ASSUME MapInv, NEW w \in TokenWorkers, TokenSign(w)
    PROVE  [Flow!Next]_(Flow!vars)
<1> DEFINE k == tok[w].code
<1>1. tok \in [TokenWorkers -> TokenWorker]
  BY DEF MapInv, TypeOK
<1>2. /\ tok[w].pc \in Holding /\ tok'[w].pc \notin Holding
      /\ \A v \in TokenWorkers \ {w} : tok'[v] = tok[v]
      /\ UNCHANGED <<codeGrants, issued, pendingRequests, origin, cb, sessions>>
  BY <1>1 DEF TokenSign, Holding, TokenWorker
<1>3. /\ k \in Codes /\ flowCode[k] = "presented"
      /\ flowCode' = [flowCode EXCEPT ![k] = "closed"]
      /\ UNCHANGED flowGrant
  BY <1>2, LettingGoCloses
<1>4. UNCHANGED <<flowLogin, flowRequest>>
  BY <1>2, LoginsAlone
<1>5. /\ issued[k] # None /\ issued[k].grant = tok[w].grant
      /\ IssuedInFlow(issued[k]) /\ FlowOf(k) \in FlowStates
  BY <1>2, <1>3 DEF MapInv, TokenInv, IssueInv, TypeOK, FlowOf, Issue
<1>6. flowTokens' = flowTokens \cup {Claims(NewIDToken(tok[w]))}
  BY DEF TokenSign, flowTokens
<1>7. Claims(NewIDToken(tok[w])) = Flow!TokenFor(k)
  <2>1. flowGrant[k] = [login |-> FlowOf(k), account |-> tok[w].grant.did]
    BY <1>3, <1>5 DEF flowGrant, FlowOf
  <2>2. flowRequest[FlowOf(k)] = origin[FlowOf(k)].request
    BY <1>5 DEF flowRequest, IssuedInFlow, FlowOf
  <2>3. QED
    BY <1>5, <2>1, <2>2 DEF Claims, NewIDToken, Flow!TokenFor, IssuedInFlow, FlowOf
<1>8. uses' = [uses EXCEPT ![k] = @ + 1]
  BY DEF TokenSign
<1>9. Flow!Redeem(k)
  BY <1>2, <1>3, <1>4, <1>6, <1>7, <1>8 DEF Flow!Redeem, Flow!MoveCode
<1>10. QED
  BY <1>3, <1>9 DEF Flow!Next

LEMMA TokenStepMaps ==
    ASSUME MapInv, NEW w \in TokenWorkers, TokenStep(w)
    PROVE  [Flow!Next]_(Flow!vars)
<1>1. tok \in [TokenWorkers -> TokenWorker]
  BY DEF MapInv, TypeOK
<1>2. CASE TokenGrantRefused(w) \/ TokenClientRefused(w) \/ TokenSignFails(w)
  <2>1. /\ tok[w].pc \in Holding /\ tok'[w].pc \notin Holding
        /\ \A v \in TokenWorkers \ {w} : tok'[v] = tok[v]
        /\ UNCHANGED <<codeGrants, issued, pendingRequests, origin, cb, sessions,
                       tokens, uses>>
    BY <1>1, <1>2 DEF TokenGrantRefused, TokenClientRefused, TokenSignFails, Holding, TokenWorker
  <2>2. /\ tok[w].code \in Codes /\ flowCode[tok[w].code] = "presented"
        /\ flowCode' = [flowCode EXCEPT ![tok[w].code] = "closed"]
        /\ UNCHANGED flowGrant
    BY <2>1, LettingGoCloses
  <2>3. UNCHANGED <<flowLogin, flowRequest>> /\ UNCHANGED flowTokens
    BY <2>1, LoginsAlone DEF flowTokens
  <2>4. Flow!RefuseCode(tok[w].code)
    BY <2>1, <2>2, <2>3 DEF Flow!RefuseCode, Flow!MoveCode
  <2>5. QED
    BY <2>2, <2>4 DEF Flow!Next
<1>3. CASE TokenGrantAccepted(w) \/ TokenClientAccepted(w) \/ TokenReply(w)
  <2>1. /\ tok'[w].pc \in Holding <=> tok[w].pc \in Holding
        /\ tok[w].pc \in Holding => tok'[w].code = tok[w].code
        /\ \A v \in TokenWorkers \ {w} : tok'[v] = tok[v]
        /\ UNCHANGED <<codeGrants, issued, pendingRequests, origin, cb, sessions,
                       tokens, uses>>
    <3>1. CASE TokenGrantAccepted(w)
      BY <1>1, <3>1 DEF TokenGrantAccepted, Holding, TokenWorker
    <3>2. CASE TokenClientAccepted(w)
      BY <1>1, <3>2 DEF TokenClientAccepted, Holding, TokenWorker
    <3>3. CASE TokenReply(w)
      BY <1>1, <3>3 DEF TokenReply, TokenReplies, IdleToken, Holding
    <3>4. QED
      BY <1>3, <3>1, <3>2, <3>3
  <2>2. UNCHANGED <<flowCode, flowGrant>>
    BY <2>1, CodeFrameOf
  <2>3. QED
    BY <2>1, <2>2, LoginsAlone DEF Flow!vars, flowTokens
<1>4. QED
  BY <1>2, <1>3, SignMaps DEF TokenStep

LEMMA TokenArrivesMaps ==
    ASSUME MapInv, TokenRequestArrives
    PROVE  [Flow!Next]_(Flow!vars)
<1>1. PICK w \in TokenWorkers, f \in TokenForms, k \in Presentable :
        TokenRejected(w, f, k) \/ TokenConsume(w, f, k) \/ TokenUnknown(w, f, k)
  BY DEF TokenRequestArrives
<1>2. CASE TokenRejected(w, f, k) \/ TokenUnknown(w, f, k)
  <2>1. tok \in [TokenWorkers -> TokenWorker]
    BY DEF MapInv, TypeOK
  <2>2. /\ tok[w].pc \notin Holding /\ tok'[w].pc \notin Holding
        /\ \A v \in TokenWorkers \ {w} : tok'[v] = tok[v]
        /\ UNCHANGED <<codeGrants, issued, pendingRequests, origin, cb, sessions,
                       tokens, uses>>
    BY <1>2, <2>1 DEF TokenRejected, TokenUnknown, IdleToken, Holding
  <2>3. UNCHANGED <<flowCode, flowGrant>>
    BY <2>2, CodeFrameOf
  <2>4. QED
    BY <2>2, <2>3, LoginsAlone DEF Flow!vars, flowTokens
<1>3. QED
  BY <1>1, <1>2, ConsumeMaps

-----------------------------------------------------------------------------
(* Time and restarts *)

\* A restart closes every login and every code that was open.
LEMMA RestartMaps ==
    ASSUME MapInv, Restart
    PROVE  [Flow!Next]_(Flow!vars)
<1>1. /\ \A s \in FlowStates : pendingRequests'[s] = None
      /\ \A k \in Codes : codeGrants'[k] = None
      /\ \A w \in CallbackWorkers : cb'[w].pc \notin Answering
      /\ \A w \in TokenWorkers : tok'[w].pc \notin Holding
      /\ UNCHANGED <<origin, issued, sessions, tokens, uses>>
  BY DEF Restart, IdleCallback, IdleToken, Holding
<1>2. flowLogin' = [s \in FlowStates |-> Flow!Closed(flowLogin[s])]
  <2>1. \A s \in FlowStates : pendingRequests[s] # None => origin[s] # None
    BY DEF MapInv, FlowInv, PendingExact
  <2>2. \A w \in CallbackWorkers : cb[w].pc \in Answering => origin[cb[w].state] # None
    BY DEF MapInv, FlowInv, TakingHandlers
  <2>3. \A s \in FlowStates : LoginStatus(s)' = Flow!Closed(LoginStatus(s))
    BY <1>1, <2>1, <2>2 DEF LoginStatus, Flow!Closed
  <2>4. QED
    BY <2>3 DEF flowLogin
<1>3. flowCode' = [k \in Codes |-> Flow!Closed(flowCode[k])]
  <2>1. \A k \in Codes : codeGrants[k] # None => issued[k] # None
    BY DEF MapInv, CodeInv, GrantsExact
  <2>2. \A w \in TokenWorkers : tok[w].pc \in Holding => issued[tok[w].code] # None
    BY DEF MapInv, TokenInv
  <2>3. \A k \in Codes : CodeStatus(k)' = Flow!Closed(CodeStatus(k))
    BY <1>1, <2>1, <2>2 DEF CodeStatus, Flow!Closed
  <2>4. QED
    BY <2>3 DEF flowCode
<1>4. UNCHANGED <<flowRequest, flowGrant, flowTokens>>
  BY <1>1 DEF flowRequest, flowGrant, flowTokens
<1>5. Flow!Restart
  BY <1>1, <1>2, <1>3, <1>4 DEF Flow!Restart
<1>6. QED
  BY <1>5 DEF Flow!Next

-----------------------------------------------------------------------------
\* Every step of every goroutine, restarts included, is a step of the promise
\* or shows nothing: an RP sees each login answered once, by one code, redeemed
\* once, for the claims of that login.
THEOREM ProviderKeepsPromise == Spec => RefinesAuthCodeFlow
<1>1. ASSUME MapInv, [Next]_vars
      PROVE  [Flow!Next]_(Flow!vars)
  <2>1. CASE AuthRequestArrives \/ Tick \/ RegisteredElsewhere \/ UNCHANGED vars
    <3>1. UNCHANGED <<pendingRequests, origin, cb, sessions, codeGrants, issued, tok, tokens,
                     uses>>
      BY <2>1 DEF AuthRequestArrives, AuthorizeRejected, AuthorizeRefused,
                  AuthorizeAsksHandle, AuthorizeAccepted, AuthEnter, Tick,
                  RegisteredElsewhere, vars
    <3>2. QED
      BY <3>1, CodesAlone, LoginsAlone DEF Flow!vars
  <2>2. QED
    BY <1>1, <2>1, AuthStepMaps, CallbackArrivesMaps, CallbackStepMaps,
       TokenArrivesMaps, TokenStepMaps, RestartMaps DEF Next
<1>2. QED
  BY <1>1, FlowInit, MapInvariant, PTL DEF Spec, RefinesAuthCodeFlow, Flow!Spec

-----------------------------------------------------------------------------
(* What the promise is worth, to whoever it is kept *)

\* Nothing is promised yet, so nothing contradicts it.
LEMMA PromiseInit == Flow!Init => Flow!PromiseInv
BY DEF Flow!Init, Flow!PromiseInv

\* The claims of a token stay what the promise says while its login and its
\* code stay closed.
LEMMA TokensStay ==
    ASSUME Flow!PromiseInv, UNCHANGED flowGrant,
           \A l \in FlowStates : flowLogin[l] = "closed" => flowRequest'[l] = flowRequest[l]
    PROVE  \A t \in flowTokens : Flow!TokenFor(t.code)' = Flow!TokenFor(t.code)
BY DEF Flow!PromiseInv, Flow!TokenFor

\* A step of a login that issues no code moves that login ahead.
LEMMA PromiseLoginStep ==
    ASSUME Flow!PromiseInv, NEW l \in FlowStates,
           \/ Flow!Request(l) \/ Flow!Take(l) \/ Flow!RefuseLogin(l)
           \/ \E a \in DIDs : Flow!Confirm(l, a)
    PROVE  Flow!PromiseInv' /\ Flow!NothingLost
<1> USE DEF Flow!PromiseInv, Flow!NothingLost, Flow!Progress, Flow!MoveLogin
<1>1. UNCHANGED <<flowCode, flowGrant, flowTokens, uses>>
  BY DEF Flow!Request, Flow!Take, Flow!RefuseLogin, Flow!Confirm
<1>2. CASE Flow!Request(l)
  BY <1>1, <1>2, TokensStay DEF Flow!Request
<1>3. CASE Flow!Take(l)
  BY <1>1, <1>3, TokensStay DEF Flow!Take
<1>4. CASE Flow!RefuseLogin(l)
  BY <1>1, <1>4, TokensStay DEF Flow!RefuseLogin
<1>5. CASE \E a \in DIDs : Flow!Confirm(l, a)
  BY <1>1, <1>5, TokensStay DEF Flow!Confirm
<1>6. QED
  BY <1>2, <1>3, <1>4, <1>5

\* The issue closes the login, so no other code can have been made for it.
LEMMA PromiseIssueStep ==
    ASSUME Flow!PromiseInv, NEW l \in FlowStates, NEW k \in Codes, NEW a \in DIDs,
           Flow!IssueCode(l, k, a)
    PROVE  Flow!PromiseInv' /\ Flow!NothingLost
<1> USE DEF Flow!PromiseInv
<1>1. /\ flowLogin' = [flowLogin EXCEPT ![l] = "closed"] /\ flowLogin[l] = "answering"
      /\ flowCode' = [flowCode EXCEPT ![k] = "live"] /\ flowCode[k] = "new"
      /\ flowGrant' = [flowGrant EXCEPT ![k] = [login |-> l, account |-> a]]
      /\ UNCHANGED <<flowRequest, flowTokens, uses>>
  BY DEF Flow!IssueCode, Flow!MoveLogin, Flow!MoveCode
<1>2. flowGrant'[k].login = l /\ \A j \in Codes \ {k} : flowGrant'[j] = flowGrant[j]
  BY <1>1
<1>3. \A j \in Codes \ {k} : flowCode[j] # "new" => flowGrant[j].login # l
  BY <1>1
<1>4. \A t \in flowTokens : t.code # k /\ Flow!TokenFor(t.code)' = Flow!TokenFor(t.code)
  BY <1>1, <1>2 DEF Flow!TokenFor
<1>5. Flow!PromiseInv'
  BY <1>1, <1>2, <1>3, <1>4
<1>6. Flow!NothingLost
  BY <1>1, <1>2 DEF Flow!NothingLost, Flow!Progress
<1>7. QED
  BY <1>5, <1>6

\* A code that is closed by its token, or without one, stays closed.
LEMMA PromiseCodeStep ==
    ASSUME Flow!PromiseInv, NEW k \in Codes,
           Flow!Present(k) \/ Flow!Redeem(k) \/ Flow!RefuseCode(k)
    PROVE  Flow!PromiseInv' /\ Flow!NothingLost
<1> USE DEF Flow!PromiseInv, Flow!NothingLost, Flow!Progress, Flow!MoveCode
<1>1. UNCHANGED <<flowLogin, flowRequest, flowGrant>>
  BY DEF Flow!Present, Flow!Redeem, Flow!RefuseCode
<1>2. \A j \in Codes : Flow!TokenFor(j)' = Flow!TokenFor(j)
  BY <1>1 DEF Flow!TokenFor
<1>3. CASE Flow!Present(k)
  BY <1>1, <1>2, <1>3 DEF Flow!Present
<1>4. CASE Flow!Redeem(k)
  <2>1. Flow!TokenFor(k).code = k
    BY DEF Flow!TokenFor
  <2>2. QED
    BY <1>1, <1>2, <1>4, <2>1 DEF Flow!Redeem
<1>5. CASE Flow!RefuseCode(k)
  BY <1>1, <1>2, <1>5 DEF Flow!RefuseCode
<1>6. QED
  BY <1>3, <1>4, <1>5

\* A restart closes what was open and forgets nothing else.
LEMMA PromiseRestart ==
    ASSUME Flow!PromiseInv, Flow!Restart
    PROVE  Flow!PromiseInv' /\ Flow!NothingLost
<1> USE DEF Flow!PromiseInv
<1>1. /\ \A l \in FlowStates : flowLogin'[l] = Flow!Closed(flowLogin[l])
      /\ \A k \in Codes : flowCode'[k] = Flow!Closed(flowCode[k])
      /\ UNCHANGED <<flowRequest, flowGrant, flowTokens, uses>>
  BY DEF Flow!Restart
<1>2. \A t \in flowTokens : Flow!TokenFor(t.code)' = Flow!TokenFor(t.code)
  BY <1>1, TokensStay
<1>3. Flow!PromiseInv'
  BY <1>1, <1>2 DEF Flow!Restart, Flow!Closed
<1>4. Flow!NothingLost
  BY <1>1 DEF Flow!NothingLost, Flow!Progress, Flow!Closed
<1>5. QED
  BY <1>3, <1>4

\* Whoever keeps the promise keeps its invariant, and takes nothing back.
LEMMA PromiseStep ==
    ASSUME Flow!PromiseInv, [Flow!Next]_(Flow!vars)
    PROVE  Flow!PromiseInv' /\ [Flow!NothingLost]_(Flow!vars)
<1>1. CASE UNCHANGED Flow!vars
  BY <1>1 DEF Flow!vars, Flow!PromiseInv, Flow!TokenFor
<1>2. QED
  BY <1>1, PromiseLoginStep, PromiseIssueStep, PromiseCodeStep, PromiseRestart
     DEF Flow!Next

LEMMA PromiseInvariant == Flow!Spec => []Flow!PromiseInv
BY PromiseInit, PromiseStep, PTL DEF Flow!Spec

\* However often a browser comes back, a code is presented or the server
\* restarts, one login buys at most one ID token.
THEOREM LoginsBuyOneToken == Spec => []LoginBuysOneToken
<1>1. Flow!PromiseInv => LoginBuysOneToken
  BY DEF Flow!PromiseInv, LoginBuysOneToken, Flow!OneTokenPerLogin
<1>2. QED
  BY <1>1, ProviderKeepsPromise, PromiseInvariant, PTL DEF RefinesAuthCodeFlow

\* No step of any goroutine, and no restart, brings back a login or a code that
\* is done with, or changes what was requested, granted or signed.
THEOREM NothingIsReopened == Spec => NothingReopens
<1>1. Flow!Spec => Flow!NothingTakenBack
  BY PromiseInvariant, PromiseStep, PTL DEF Flow!Spec, Flow!NothingTakenBack
<1>2. QED
  BY <1>1, ProviderKeepsPromise, PTL DEF RefinesAuthCodeFlow, NothingReopens
=============================================================================
