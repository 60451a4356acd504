---------------------------- MODULE OIDCProvider ----------------------------
(***************************************************************************)
(* The OIDC provider of internal/oidc: the authorization-code flow that    *)
(* bridges a relying party (RP) to an ATProto login.                       *)
(*                                                                         *)
(*   /authorize  validates the RP's request, starts the ATProto flow and   *)
(*               files the request under the ATProto state token           *)
(*   /callback   finishes the ATProto flow, takes the filed request and    *)
(*               issues an authorization code                              *)
(*   /token      consumes a code and signs an ID token                     *)
(*                                                                         *)
(* net/http serves every request on its own goroutine, so each endpoint    *)
(* has a pool of workers and a handler is cut into one action per section  *)
(* between two points where another goroutine can run: store calls, calls  *)
(* to the PDS and the two mutex-protected map accesses.                    *)
(***************************************************************************)
EXTENDS Naturals, FiniteSets

CONSTANTS
    AuthWorkers,      \* goroutines serving GET /authorize
    CallbackWorkers,  \* goroutines serving /callback
    TokenWorkers,     \* goroutines serving POST /token
    FlowStates,       \* ATProto state tokens indigo can draw
    Codes,            \* authorization codes generateRandomHex can draw
    DIDs,             \* ATProto accounts
    Clients,          \* client identifiers
    URIs,             \* redirect URIs
    ParseableURIs,    \* those url.Parse accepts
    Secrets,          \* client secrets
    RPValues,         \* state, nonce and login_hint values RPs send
    AuthRequests,     \* the /authorize requests RPs make
    TokenForms,       \* the /token requests RPs make, but for the code
    Configs,          \* the client lists the server may be configured with
    AuthCodeTTL,      \* authCodeTTL, in ticks
    MaxClock,         \* bound: the clock stops here
    MaxRestarts,      \* bound: the server restarts at most this often
    Persistent,       \* TRUE: sqlite backend, FALSE: memory backend
    Absent,           \* a missing query or form parameter
    None              \* a nil pointer, a missing map entry

Registration == [redirectURIs : SUBSET URIs, secret : Secrets \cup {Absent}]

AuthRequest ==
    [ client : Clients \cup {Absent}, uri : URIs \cup {Absent},
      isCode : BOOLEAN, hasOpenid : BOOLEAN,
      state : RPValues, nonce : RPValues, hint : RPValues \cup {Absent} ]

TokenForm ==
    [ isAuthCodeGrant : BOOLEAN, client : Clients \cup {Absent},
      uri : URIs \cup {Absent}, secret : Secrets \cup {Absent} ]

PendingAuthorization ==
    [ client : Clients, uri : URIs, state : RPValues, nonce : RPValues,
      hint : RPValues, createdAt : Nat ]

CodeGrant ==
    [ client : Clients, uri : URIs, nonce : RPValues, did : DIDs,
      handle : RPValues, expiresAt : Nat ]

\* What the properties remember of a filed request and of an issued code.
Origin == [request : PendingAuthorization, epoch : Nat]
Issue  ==
    [ flow : FlowStates, grant : CodeGrant, epoch : Nat, freshAt : Nat,
      issuedAt : Nat ]

ASSUME AbsentAssumption ==
    Absent \notin Clients \cup URIs \cup Secrets \cup Codes \cup RPValues

ASSUME NoneAssumption ==
    /\ None \notin FlowStates \cup Codes \cup DIDs
    /\ None \notin AuthRequest /\ None \notin TokenForm
    /\ None \notin Registration
    /\ None \notin PendingAuthorization /\ None \notin CodeGrant
    /\ None \notin Origin /\ None \notin Issue

ASSUME InputAssumption ==
    /\ ParseableURIs \subseteq URIs
    /\ AuthRequests \subseteq AuthRequest
    /\ TokenForms \subseteq TokenForm
    /\ Configs \subseteq [Clients -> Registration \cup {None}]

ASSUME BoundAssumption ==
    /\ AuthCodeTTL \in Nat /\ MaxClock \in Nat /\ MaxRestarts \in Nat
    /\ Persistent \in BOOLEAN

VARIABLES
    now,              \* time.Now()
    epoch,            \* how often the process was restarted
    clients,          \* store: registered RPs
    authRequests,     \* store: state tokens with a saved ATProto auth request
    pendingRequests,  \* Provider.pendingRequests
    codeGrants,       \* Provider.codeGrants
    auth, cb, tok,    \* the local variables of the handlers' goroutines
    \* What happened so far, kept for the properties only:
    registry,         \* client -> registrations it had since the process started
    held,             \* /token handler -> those its client had since it took a code
    drawn,            \* state tokens drawn
    origin,           \* state token -> the request filed under it, and when
    atBrowser,        \* state tokens of auth URLs that browsers were sent to
    sessions,         \* <<state token, account>> pairs the PDS confirmed
    taken,            \* state tokens whose pending request was taken
    answered,         \* state tokens whose RP was redirected to
    issued,           \* code -> the flow it was issued for, and its grant
    delivered,        \* the redirects that carried a code to an RP
    consumed,         \* codes taken out of codeGrants by /token
    uses,             \* code -> how many ID tokens were signed for it
    tokens            \* the ID tokens signed

provider == <<pendingRequests, codeGrants>>
store    == <<clients, registry, authRequests>>
flowHist == <<drawn, origin, atBrowser, sessions, taken, answered>>
codeHist == <<held, issued, delivered, consumed, uses, tokens>>
vars == <<now, epoch, store, provider, auth, cb, tok, flowHist, codeHist>>

-----------------------------------------------------------------------------
(* Handler goroutines. A pc that ends in a reply has the response written. *)

AuthReplies == {"error_page", "error_redirect", "login_form", "auth_redirect"}
CallbackReplies ==
    {"failed", "plain", "error_page", "error_redirect", "code_redirect",
     "bare_redirect"}
TokenReplies ==
    {"ok", "invalid_request", "invalid_grant", "invalid_client", "server_error"}

AuthWorker ==
    [ pc : {"idle", "start_flow", "store_pending"} \cup AuthReplies,
      request : AuthRequests \cup {None}, state : FlowStates \cup {None} ]

CallbackWorker ==
    [ pc : {"idle", "exchange", "take", "check_age", "issue"} \cup CallbackReplies,
      state : FlowStates \cup {None}, did : DIDs \cup {None},
      pending : PendingAuthorization \cup {None}, freshAt : Nat,
      code : Codes \cup {None} ]

TokenWorker ==
    [ pc : {"idle", "check_grant", "check_client", "sign"} \cup TokenReplies,
      form : TokenForms \cup {None}, code : Codes \cup {None},
      grant : CodeGrant \cup {None}, checkedAt : Nat ]

IdleAuth == [pc |-> "idle", request |-> None, state |-> None]
IdleCallback ==
    [ pc |-> "idle", state |-> None, did |-> None, pending |-> None,
      freshAt |-> 0, code |-> None ]
IdleToken ==
    [pc |-> "idle", form |-> None, code |-> None, grant |-> None, checkedAt |-> 0]

Delivery == [code : Codes, uri : URIs, state : RPValues]
IDToken ==
    [ code : Codes, aud : Clients, sub : DIDs, nonce : RPValues,
      handle : RPValues, form : TokenForms, checkedAt : Nat ]

\* A /callback handler has taken a request and not answered it yet; a /token
\* handler has taken a grant and not used it yet.
Answering == {"check_age", "issue"}
Holding == {"check_grant", "check_client", "sign"}

\* The locals a handler is about to use are set: no nil pointer is followed and
\* no empty client, redirect URI or handle gets past the checks on entry.
AuthLocals(x) ==
    /\ x.pc \in {"start_flow", "store_pending"} =>
        /\ x.request \in AuthRequests
        /\ x.request.client \in Clients
        /\ x.request.uri \in URIs
        /\ x.request.hint \in RPValues
    /\ x.pc \in {"store_pending", "auth_redirect"} => x.state \in FlowStates

CallbackLocals(x) ==
    /\ x.pc # "idle" => x.state \in FlowStates
    /\ x.pc \in {"take"} \cup Answering => x.did \in DIDs
    /\ x.pc \in Answering \cup {"code_redirect", "bare_redirect"} =>
        x.pending \in PendingAuthorization
    /\ x.pc \in {"code_redirect", "bare_redirect"} => x.code \in Codes

TokenLocals(x) ==
    x.pc \in Holding =>
        x.form \in TokenForms /\ x.code \in Codes /\ x.grant \in CodeGrant

\* Every variable holds values of the Go type it models, and the locals of the
\* handlers are set when they are used.
TypeOK ==
    /\ now \in Nat
    /\ epoch \in Nat
    /\ clients \in [Clients -> Registration \cup {None}]
    /\ registry \in [Clients -> SUBSET Registration]
    /\ held \in [TokenWorkers -> SUBSET Registration]
    /\ authRequests \subseteq FlowStates
    /\ pendingRequests \in [FlowStates -> PendingAuthorization \cup {None}]
    /\ codeGrants \in [Codes -> CodeGrant \cup {None}]
    /\ auth \in [AuthWorkers -> AuthWorker]
    /\ cb \in [CallbackWorkers -> CallbackWorker]
    /\ tok \in [TokenWorkers -> TokenWorker]
    /\ drawn \subseteq FlowStates
    /\ origin \in [FlowStates -> Origin \cup {None}]
    /\ atBrowser \subseteq FlowStates
    /\ sessions \subseteq FlowStates \X DIDs
    /\ taken \subseteq FlowStates
    /\ answered \subseteq FlowStates
    /\ issued \in [Codes -> Issue \cup {None}]
    /\ delivered \subseteq Delivery
    /\ consumed \subseteq Codes
    /\ uses \in [Codes -> Nat]
    /\ tokens \subseteq IDToken
    /\ \A w \in AuthWorkers : AuthLocals(auth[w])
    /\ \A w \in CallbackWorkers : CallbackLocals(cb[w])
    /\ \A w \in TokenWorkers : TokenLocals(tok[w])

\* The registration of client c, if it has one.
Row(c) == {clients[c]} \ {None}

Init ==
    /\ now = 0
    /\ epoch = 0
    /\ clients \in Configs
    /\ registry = [c \in Clients |-> Row(c)]
    /\ held = [w \in TokenWorkers |-> {}]
    /\ authRequests = {}
    /\ pendingRequests = [s \in FlowStates |-> None]
    /\ codeGrants = [k \in Codes |-> None]
    /\ auth = [w \in AuthWorkers |-> IdleAuth]
    /\ cb = [w \in CallbackWorkers |-> IdleCallback]
    /\ tok = [w \in TokenWorkers |-> IdleToken]
    /\ drawn = {}
    /\ origin = [s \in FlowStates |-> None]
    /\ atBrowser = {}
    /\ sessions = {}
    /\ taken = {}
    /\ answered = {}
    /\ issued = [k \in Codes |-> None]
    /\ delivered = {}
    /\ consumed = {}
    /\ uses = [k \in Codes |-> 0]
    /\ tokens = {}

\* Mutant: the age of a pending request is not checked.
NeverOlder(since) == FALSE

\* time.Since(since) > authCodeTTL, equivalently time.Now().After(since + TTL).
Older(since) == now > since + AuthCodeTTL

\* Mutant: an RP is never sent an error.
AlwaysPage(uri) == "error_page"

\* redirectWithError: an unparseable redirect URI falls back to renderError.
ErrorReply(uri) == IF uri \in ParseableURIs THEN "error_redirect" ELSE "error_page"

\* Mutants: nothing is deleted; everything is.
Kept(m, x) == m
Cleared(m, x) == [y \in DOMAIN m |-> None]

\* delete(m, x), in one critical section with the lookup before it.
Without(m, x) == [m EXCEPT ![x] = None]

-----------------------------------------------------------------------------
(* GET /authorize *)

\* Mutant: any redirect URI will do.
NamedTarget(r) == r.client # Absent /\ clients[r.client] # None /\ r.uri # Absent

\* client_id and redirect_uri are checked first: nothing may redirect before.
ValidTarget(r) ==
    /\ r.client # Absent
    /\ clients[r.client] # None
    /\ r.uri # Absent
    /\ r.uri \in clients[r.client].redirectURIs

ValidParams(r) == r.isCode /\ r.hasOpenid

\* Mutant: an empty handle is taken for one.
AsksNobody(r) == FALSE

AsksHandle(r) == r.hint = Absent

AuthEnter(w, r, pc) ==
    /\ auth[w].pc = "idle"
    /\ auth' = [auth EXCEPT ![w] = [pc |-> pc, request |-> r, state |-> None]]
    /\ UNCHANGED <<now, epoch, store, provider, cb, tok, flowHist, codeHist>>

\* Unguarded: GetClient may fail for any client, and any error is "unknown".
AuthorizeRejected(w, r) == AuthEnter(w, r, "error_page")

AuthorizeRefused(w, r) ==
    /\ ValidTarget(r) /\ ~ValidParams(r)
    /\ AuthEnter(w, r, ErrorReply(r.uri))

AuthorizeAsksHandle(w, r) ==
    /\ ValidTarget(r) /\ ValidParams(r) /\ AsksHandle(r)
    /\ AuthEnter(w, r, "login_form")

AuthorizeAccepted(w, r) ==
    /\ ValidTarget(r) /\ ValidParams(r) /\ ~AsksHandle(r)
    /\ AuthEnter(w, r, "start_flow")

\* indigo's StartAuthFlow draws a state token, saves the auth request and
\* returns the auth URL.
StartFlow(w) ==
    /\ auth[w].pc = "start_flow"
    /\ \E s \in FlowStates \ drawn :
        /\ drawn' = drawn \cup {s}
        /\ authRequests' = authRequests \cup {s}
        /\ auth' = [auth EXCEPT ![w] =
                       [pc |-> "store_pending", request |-> @.request, state |-> s]]
    /\ UNCHANGED <<now, epoch, clients, registry, provider, cb, tok, codeHist,
                   origin, atBrowser, sessions, taken, answered>>

\* StartAuthFlow fails, before or after it saved the auth request, or the URL
\* it returns carries no state token (extractStateFromURL).
StartFlowFails(w) ==
    /\ auth[w].pc = "start_flow"
    /\ \E S \in SUBSET (FlowStates \ drawn) :
        /\ Cardinality(S) <= 1
        /\ drawn' = drawn \cup S
        /\ authRequests' = authRequests \cup S
    /\ auth' = [auth EXCEPT ![w] =
                   [pc |-> ErrorReply(@.request.uri), request |-> @.request,
                    state |-> None]]
    /\ UNCHANGED <<now, epoch, clients, registry, provider, cb, tok, codeHist,
                   origin, atBrowser, sessions, taken, answered>>

NewPending(r) ==
    [ client |-> r.client, uri |-> r.uri, state |-> r.state, nonce |-> r.nonce,
      hint |-> r.hint, createdAt |-> now ]

StorePending(w) ==
    /\ auth[w].pc = "store_pending"
    /\ LET s == auth[w].state
           pending == NewPending(auth[w].request)
       IN  /\ pendingRequests' = [pendingRequests EXCEPT ![s] = pending]
           /\ origin' = [origin EXCEPT ![s] = [request |-> pending, epoch |-> epoch]]
    /\ auth' = [auth EXCEPT ![w] =
                   [pc |-> "auth_redirect", request |-> @.request, state |-> @.state]]
    /\ UNCHANGED <<now, epoch, store, codeGrants, cb, tok, codeHist,
                   drawn, atBrowser, sessions, taken, answered>>

AuthorizeReply(w) ==
    /\ auth[w].pc \in AuthReplies
    /\ auth' = [auth EXCEPT ![w] = IdleAuth]
    /\ atBrowser' = IF auth[w].pc = "auth_redirect"
                    THEN atBrowser \cup {auth[w].state} ELSE atBrowser
    /\ UNCHANGED <<now, epoch, store, provider, cb, tok, codeHist,
                   drawn, origin, sessions, taken, answered>>

-----------------------------------------------------------------------------
(* /callback: the PDS sends the browser back with the state token *)

CallbackEnter(w, s, pc) ==
    /\ cb[w].pc = "idle"
    /\ s \in atBrowser
    /\ cb' = [cb EXCEPT ![w] = [IdleCallback EXCEPT !.pc = pc, !.state = s]]
    /\ UNCHANGED <<now, epoch, store, provider, auth, tok, flowHist, codeHist>>

\* indigo's ProcessCallback first reads the auth request saved for the token.
CallbackAccepted(w, s) ==
    /\ s \in authRequests
    /\ CallbackEnter(w, s, "exchange")

\* The auth request is gone, its read fails, or the user refused the login.
CallbackRejected(w, s) == CallbackEnter(w, s, "failed")

\* The PDS confirms an account: indigo saves the session and deletes the auth
\* request. Two callbacks of one flow may both have read it before that.
CallbackExchange(w) ==
    /\ cb[w].pc = "exchange"
    /\ \E d \in DIDs :
        /\ cb' = [cb EXCEPT ![w] = [@ EXCEPT !.pc = "take", !.did = d]]
        /\ sessions' = sessions \cup {<<cb[w].state, d>>}
    /\ authRequests' = authRequests \ {cb[w].state}
    /\ UNCHANGED <<now, epoch, clients, registry, provider, auth, tok, codeHist,
                   drawn, origin, atBrowser, taken, answered>>

CallbackExchangeFails(w) ==
    /\ cb[w].pc = "exchange"
    /\ cb' = [cb EXCEPT ![w].pc = "failed"]
    /\ authRequests' \in {authRequests, authRequests \ {cb[w].state}}
    /\ UNCHANGED <<now, epoch, clients, registry, provider, auth, tok, flowHist, codeHist>>

\* One critical section of pendingMu: look the request up and delete it.
CallbackTake(w) ==
    /\ cb[w].pc = "take"
    /\ pendingRequests[cb[w].state] # None
    /\ cb' = [cb EXCEPT ![w] =
                  [@ EXCEPT !.pc = "check_age",
                            !.pending = pendingRequests[cb[w].state]]]
    /\ pendingRequests' = Without(pendingRequests, cb[w].state)
    /\ taken' = taken \cup {cb[w].state}
    /\ UNCHANGED <<now, epoch, store, codeGrants, auth, tok, codeHist,
                   drawn, origin, atBrowser, sessions, answered>>

CallbackPlain(w) ==
    /\ cb[w].pc = "take"
    /\ pendingRequests[cb[w].state] = None
    /\ cb' = [cb EXCEPT ![w].pc = "plain"]
    /\ UNCHANGED <<now, epoch, store, provider, auth, tok, flowHist, codeHist>>

CallbackExpired(w) ==
    /\ cb[w].pc = "check_age"
    /\ Older(cb[w].pending.createdAt)
    /\ cb' = [cb EXCEPT ![w].pc = ErrorReply(cb[w].pending.uri)]
    /\ UNCHANGED <<now, epoch, store, provider, auth, tok, flowHist, codeHist>>

CallbackFresh(w) ==
    /\ cb[w].pc = "check_age"
    /\ ~Older(cb[w].pending.createdAt)
    /\ cb' = [cb EXCEPT ![w] = [@ EXCEPT !.pc = "issue", !.freshAt = now]]
    /\ UNCHANGED <<now, epoch, store, provider, auth, tok, flowHist, codeHist>>

NewGrant(pending, did) ==
    [ client |-> pending.client, uri |-> pending.uri, nonce |-> pending.nonce,
      did |-> did, handle |-> pending.hint, expiresAt |-> now + AuthCodeTTL ]

\* buildRedirectURL: a URI url.Parse refuses is returned without the code.
CodeReply(uri) ==
    IF uri \in ParseableURIs THEN "code_redirect" ELSE "bare_redirect"

\* The deadline of the code is counted from a second reading of the clock, some
\* time after the check. generateRandomHex never repeats: 32 bytes of crypto/rand.
CallbackIssue(w) ==
    /\ cb[w].pc = "issue"
    /\ \E k \in Codes :
        /\ issued[k] = None
        /\ LET grant == NewGrant(cb[w].pending, cb[w].did)
           IN  /\ codeGrants' = [codeGrants EXCEPT ![k] = grant]
               /\ issued' = [issued EXCEPT ![k] =
                      [flow |-> cb[w].state, grant |-> grant, epoch |-> epoch,
                       freshAt |-> cb[w].freshAt, issuedAt |-> now]]
        /\ cb' = [cb EXCEPT ![w] =
                      [@ EXCEPT !.pc = CodeReply(cb[w].pending.uri), !.code = k]]
    /\ UNCHANGED <<now, epoch, store, pendingRequests, auth, tok, flowHist,
                   held, delivered, consumed, uses, tokens>>

\* Mutant: the RP gets its nonce back for its state.
AnswerWithNonce(x) ==
    [code |-> x.code, uri |-> x.pending.uri, state |-> x.pending.nonce]

\* The redirect that carries code and state to the RP.
Answer(x) == [code |-> x.code, uri |-> x.pending.uri, state |-> x.pending.state]

CallbackReply(w) ==
    /\ cb[w].pc \in CallbackReplies
    /\ cb' = [cb EXCEPT ![w] = IdleCallback]
    /\ answered' = IF cb[w].pc \in {"error_redirect", "code_redirect"}
                   THEN answered \cup {cb[w].state} ELSE answered
    /\ delivered' = IF cb[w].pc = "code_redirect"
                    THEN delivered \cup {Answer(cb[w])} ELSE delivered
    /\ UNCHANGED <<now, epoch, store, provider, auth, tok, held, issued, consumed,
                   uses, tokens, drawn, origin, atBrowser, sessions, taken>>

-----------------------------------------------------------------------------
(* POST /token *)

WellFormed(f, k) == f.isAuthCodeGrant /\ k # Absent /\ f.client # Absent

\* Codes cannot be guessed: what is presented was delivered to some RP.
Presentable == {d.code : d \in delivered} \cup {Absent}

TokenRejected(w, f, k) ==
    /\ tok[w].pc = "idle"
    /\ ~WellFormed(f, k)
    /\ tok' = [tok EXCEPT ![w] = [IdleToken EXCEPT !.pc = "invalid_request"]]
    /\ UNCHANGED <<now, epoch, store, provider, auth, cb, flowHist, codeHist>>

\* One critical section of codeGrantsMu: look the grant up and delete it.
TokenConsume(w, f, k) ==
    /\ tok[w].pc = "idle"
    /\ WellFormed(f, k)
    /\ codeGrants[k] # None
    /\ tok' = [tok EXCEPT ![w] =
                  [pc |-> "check_grant", form |-> f, code |-> k,
                   grant |-> codeGrants[k], checkedAt |-> 0]]
    /\ codeGrants' = Without(codeGrants, k)
    /\ consumed' = consumed \cup {k}
    /\ held' = [held EXCEPT ![w] = Row(f.client)]
    /\ UNCHANGED <<now, epoch, store, pendingRequests, auth, cb, flowHist,
                   issued, delivered, uses, tokens>>

TokenUnknown(w, f, k) ==
    /\ tok[w].pc = "idle"
    /\ WellFormed(f, k)
    /\ codeGrants[k] = None
    /\ tok' = [tok EXCEPT ![w] = [IdleToken EXCEPT !.pc = "invalid_grant"]]
    /\ UNCHANGED <<now, epoch, store, provider, auth, cb, flowHist, codeHist>>

\* Mutant: the client is not compared with the one the code was issued to.
RedeemsForAnyClient(form, at, g) == at <= g.expiresAt /\ form.uri \in {Absent, g.uri}

\* Not expired, for the client it was issued to, and with the redirect URI of
\* the authorization request unless the form has none.
Redeems(form, at, g) ==
    at <= g.expiresAt /\ form.client = g.client /\ form.uri \in {Absent, g.uri}

\* Mutant: a grant that was refused goes back to the map, for another attempt.
TokenGrantReturned(w) ==
    /\ tok[w].pc = "check_grant"
    /\ ~Redeems(tok[w].form, now, tok[w].grant)
    /\ tok' = [tok EXCEPT ![w].pc = "invalid_grant"]
    /\ codeGrants' = [codeGrants EXCEPT ![tok[w].code] = tok[w].grant]
    /\ UNCHANGED <<now, epoch, store, pendingRequests, auth, cb, flowHist, codeHist>>

TokenGrantRefused(w) ==
    /\ tok[w].pc = "check_grant"
    /\ ~Redeems(tok[w].form, now, tok[w].grant)
    /\ tok' = [tok EXCEPT ![w].pc = "invalid_grant"]
    /\ UNCHANGED <<now, epoch, store, provider, auth, cb, flowHist, codeHist>>

TokenGrantAccepted(w) ==
    /\ tok[w].pc = "check_grant"
    /\ Redeems(tok[w].form, now, tok[w].grant)
    /\ tok' = [tok EXCEPT ![w] =
                  [@ EXCEPT !.pc = "check_client", !.checkedAt = now]]
    /\ UNCHANGED <<now, epoch, store, provider, auth, cb, flowHist, codeHist>>

\* A client registered without a secret is public and needs none.
Admits(registration, f) == registration.secret \in {Absent, f.secret}

\* Mutant: the registrations are cached while the process lives.
AuthenticatedOnce(f) == \E g \in registry[f.client] : Admits(g, f)

Authenticated(f) == \E g \in Row(f.client) : Admits(g, f)

TokenClientAccepted(w) ==
    /\ tok[w].pc = "check_client"
    /\ Authenticated(tok[w].form)
    /\ tok' = [tok EXCEPT ![w].pc = "sign"]
    /\ UNCHANGED <<now, epoch, store, provider, auth, cb, flowHist, codeHist>>

\* Unguarded: GetClient may fail for any client. The code is consumed already.
TokenClientRefused(w) ==
    /\ tok[w].pc = "check_client"
    /\ tok' = [tok EXCEPT ![w].pc = "invalid_client"]
    /\ UNCHANGED <<now, epoch, store, provider, auth, cb, flowHist, codeHist>>

\* buildIDToken: every claim comes from the grant.
NewIDToken(t) ==
    [ code |-> t.code, aud |-> t.grant.client, sub |-> t.grant.did,
      nonce |-> t.grant.nonce, handle |-> t.grant.handle, form |-> t.form,
      checkedAt |-> t.checkedAt ]

TokenSign(w) ==
    /\ tok[w].pc = "sign"
    /\ tok' = [tok EXCEPT ![w].pc = "ok"]
    /\ uses' = [uses EXCEPT ![tok[w].code] = @ + 1]
    /\ tokens' = tokens \cup {NewIDToken(tok[w])}
    /\ UNCHANGED <<now, epoch, store, provider, auth, cb, flowHist,
                   held, issued, delivered, consumed>>

TokenSignFails(w) ==
    /\ tok[w].pc = "sign"
    /\ tok' = [tok EXCEPT ![w].pc = "server_error"]
    /\ UNCHANGED <<now, epoch, store, provider, auth, cb, flowHist, codeHist>>

TokenReply(w) ==
    /\ tok[w].pc \in TokenReplies
    /\ tok' = [tok EXCEPT ![w] = IdleToken]
    /\ UNCHANGED <<now, epoch, store, provider, auth, cb, flowHist, codeHist>>

-----------------------------------------------------------------------------
(* Time and restarts *)

Tick ==
    /\ now < MaxClock
    /\ now' = now + 1
    /\ UNCHANGED <<epoch, store, provider, auth, cb, tok, flowHist, codeHist>>

\* registerConfiguredClients upserts the configured clients and removes none.
Registered(stored, config) ==
    [c \in Clients |-> IF config[c] # None THEN config[c] ELSE stored[c]]

NoClients == [c \in Clients |-> None]

\* Mutant: the two maps survive the process.
KeepMaps == UNCHANGED provider

LoseMaps ==
    /\ pendingRequests' = [s \in FlowStates |-> None]
    /\ codeGrants' = [k \in Codes |-> None]

\* The process dies with its handlers and its maps and starts again, perhaps
\* with another configuration; a memory store dies with it.
Restart ==
    /\ epoch < MaxRestarts
    /\ epoch' = epoch + 1
    /\ \E config \in Configs :
        clients' = Registered(IF Persistent THEN clients ELSE NoClients, config)
    /\ registry' = [c \in Clients |-> Row(c)']
    /\ held' = [w \in TokenWorkers |-> {}]
    /\ authRequests' = IF Persistent THEN authRequests ELSE {}
    /\ LoseMaps
    /\ auth' = [w \in AuthWorkers |-> IdleAuth]
    /\ cb' = [w \in CallbackWorkers |-> IdleCallback]
    /\ tok' = [w \in TokenWorkers |-> IdleToken]
    /\ UNCHANGED <<now, flowHist, issued, delivered, consumed, uses, tokens>>

\* Another process that starts on the same database file registers a client of
\* its configuration, at any moment: main.go:41 upserts them one by one.
RegisteredElsewhere ==
    /\ Persistent
    /\ \E config \in Configs, c \in Clients :
        /\ config[c] # None
        /\ clients' = [clients EXCEPT ![c] = config[c]]
        /\ registry' = [registry EXCEPT ![c] = @ \cup {config[c]}]
        /\ held' = [w \in TokenWorkers |->
                IF tok[w].pc \in Holding /\ tok[w].form.client = c
                THEN held[w] \cup {config[c]} ELSE held[w]]
    /\ UNCHANGED <<now, epoch, authRequests, provider, auth, cb, tok, flowHist,
                   issued, delivered, consumed, uses, tokens>>

-----------------------------------------------------------------------------
AuthStep(w) ==
    \/ StartFlow(w) \/ StartFlowFails(w) \/ StorePending(w) \/ AuthorizeReply(w)

CallbackStep(w) ==
    \/ CallbackExchange(w) \/ CallbackExchangeFails(w)
    \/ CallbackTake(w) \/ CallbackPlain(w)
    \/ CallbackExpired(w) \/ CallbackFresh(w) \/ CallbackIssue(w) \/ CallbackReply(w)

TokenStep(w) ==
    \/ TokenGrantRefused(w) \/ TokenGrantAccepted(w)
    \/ TokenClientAccepted(w) \/ TokenClientRefused(w)
    \/ TokenSign(w) \/ TokenSignFails(w) \/ TokenReply(w)

AuthRequestArrives ==
    \E w \in AuthWorkers, r \in AuthRequests :
        \/ AuthorizeRejected(w, r) \/ AuthorizeRefused(w, r)
        \/ AuthorizeAsksHandle(w, r) \/ AuthorizeAccepted(w, r)

CallbackArrives ==
    \E w \in CallbackWorkers, s \in FlowStates :
        CallbackAccepted(w, s) \/ CallbackRejected(w, s)

TokenRequestArrives ==
    \E w \in TokenWorkers, f \in TokenForms, k \in Presentable :
        TokenRejected(w, f, k) \/ TokenConsume(w, f, k) \/ TokenUnknown(w, f, k)

Next ==
    \/ AuthRequestArrives \/ \E w \in AuthWorkers : AuthStep(w)
    \/ CallbackArrives \/ \E w \in CallbackWorkers : CallbackStep(w)
    \/ TokenRequestArrives \/ \E w \in TokenWorkers : TokenStep(w)
    \/ Tick \/ Restart \/ RegisteredElsewhere

Spec == Init /\ [][Next]_vars

\* The Go scheduler runs every goroutine and the store and PDS calls return;
\* no request needs to arrive, no clock to tick, no server to restart.
Fairness ==
    /\ \A w \in AuthWorkers : WF_vars(AuthStep(w))
    /\ \A w \in CallbackWorkers : WF_vars(CallbackStep(w))
    /\ \A w \in TokenWorkers : WF_vars(TokenStep(w))

FairSpec == Spec /\ Fairness

-----------------------------------------------------------------------------
(* Safety *)

FlowOf(k) == issued[k].flow
RequestOf(k) == origin[FlowOf(k)].request

\* A code buys at most one ID token however many /token requests carry it at
\* the same time (the delete under codeGrantsMu in HandleToken).
SingleUse == \A k \in Codes : uses[k] <= 1

\* However many callbacks arrive for one ATProto flow, at most one code is
\* ever issued for it (the delete under pendingMu in HandleCallback).
OneCodePerFlow ==
    \A j, k \in Codes :
        issued[j] # None /\ issued[k] # None /\ FlowOf(j) = FlowOf(k) => j = k

\* pendingRequests holds a request exactly from the moment /authorize files it
\* until a callback takes it or the process ends, and never another one.
PendingExact ==
    \A s \in FlowStates :
        pendingRequests[s] =
            IF origin[s] # None /\ origin[s].epoch = epoch /\ s \notin taken
            THEN origin[s].request ELSE None

\* codeGrants holds a grant exactly from the moment the callback issues the
\* code until /token consumes it or the process ends: no code that was sent to
\* an RP is lost, and no consumed one comes back.
GrantsExact ==
    \A k \in Codes :
        codeGrants[k] =
            IF issued[k] # None /\ issued[k].epoch = epoch /\ k \notin consumed
            THEN issued[k].grant ELSE None

\* Every claim of an ID token comes from one flow: the client, nonce and handle
\* of the request filed for it, and an account the PDS confirmed in it; the
\* token went to a request of that client which named no other redirect URI.
TokenProvenance ==
    \A t \in tokens :
        /\ issued[t.code] # None
        /\ origin[FlowOf(t.code)] # None
        /\ LET r == RequestOf(t.code)
           IN  /\ t.aud = r.client /\ t.form.client = r.client
               /\ t.nonce = r.nonce /\ t.handle = r.hint
               /\ t.form.uri \in {Absent, r.uri}
        /\ <<FlowOf(t.code), t.sub>> \in sessions

\* A code reaches the redirect URI, and comes with the state value, of the
\* request it answers.
DeliveredToItsRP ==
    \A d \in delivered :
        /\ issued[d.code] # None
        /\ d.uri = RequestOf(d.code).uri /\ d.state = RequestOf(d.code).state

\* A code is accepted at most two code lifetimes after its request was filed,
\* one for the login and one for the code, and what the callback takes between
\* its two readings of the clock: the check of the login's age and the start of
\* the code's lifetime.
EndToEndDeadline ==
    \A t \in tokens :
        LET i == issued[t.code]
        IN  t.checkedAt <= RequestOf(t.code).createdAt + 2 * AuthCodeTTL
                           + (i.issuedAt - i.freshAt)

\* The client of r had r's redirect URI, now or since the process started.
WasRegistered(r) ==
    r.client \in Clients /\ \E g \in registry[r.client] : r.uri \in g.redirectURIs

\* A browser is redirected, with a code or an error, only to a redirect URI that
\* its client had registered while this process was up: a request that was
\* validated against older registrations is gone with its process.
RedirectOnlyToRegistered ==
    /\ \A w \in AuthWorkers :
        auth[w].pc = "error_redirect" => WasRegistered(auth[w].request)
    /\ \A w \in CallbackWorkers :
        cb[w].pc \in {"error_redirect", "code_redirect", "bare_redirect"} =>
            WasRegistered(cb[w].pending)

\* A callback of an OIDC flow ends on the plain success page only if another
\* callback took the request, or the process restarted since it was filed:
\* the browser never gets ahead of the handler that files the request.
PlainOnlyAfterTakeOrRestart ==
    \A w \in CallbackWorkers :
        cb[w].pc = "plain" =>
            /\ origin[cb[w].state] # None
            /\ cb[w].state \in taken \/ origin[cb[w].state].epoch < epoch

\* An ID token is signed only for a secret that the store had for the client
\* after the code was presented: one that was replaced before buys nothing,
\* whoever replaced it. And it is signed by the process that issued the code.
SignsOnlyForAuthenticated ==
    \A w \in TokenWorkers :
        tok[w].pc \in {"sign", "ok"} =>
            /\ \E g \in held[w] : Admits(g, tok[w].form)
            /\ issued[tok[w].code].epoch = epoch

(* Liveness *)

\* Once a callback took a pending request, the RP hears of it, with a code or
\* an error: nothing else can repeat the take. Two things prevent it, a restart
\* and a registered redirect URI that does not parse: buildRedirectURL then
\* sends the browser there without the code.
TakenFlowAnswered ==
    \A s \in FlowStates :
        s \in taken ~>
            \/ s \in answered
            \/ origin[s] # None /\ origin[s].epoch < epoch
            \/ origin[s] # None /\ origin[s].request.uri \notin ParseableURIs

\* The safety that TakenFlowAnswered rests on: a login that a callback took is
\* answered, or a handler of this process is about to answer it. No path
\* through HandleCallback drops one, but for the two exceptions.
TakenFlowInHand ==
    \A s \in taken :
        \/ s \in answered
        \/ origin[s].epoch < epoch
        \/ origin[s].request.uri \notin ParseableURIs
        \/ \E w \in CallbackWorkers :
             /\ cb[w].state = s
             /\ cb[w].pc \in Answering \cup {"error_redirect", "code_redirect"}

(* Inductive strengthenings, for the proofs *)

\* Each code is in one place: not issued, in codeGrants, with one /token
\* handler, or spent. Every clause is needed to carry SingleUse over a step.
CodeInv ==
    /\ GrantsExact
    /\ \A k \in Codes :
        /\ issued[k] # None => issued[k].epoch <= epoch
        /\ issued[k] = None => k \notin consumed
        /\ k \notin consumed => uses[k] = 0
        /\ uses[k] <= 1
    /\ \A w \in TokenWorkers :
        tok[w].pc \in Holding =>
            /\ tok[w].code \in consumed
            /\ uses[tok[w].code] = 0
            /\ \A v \in TokenWorkers :
                tok[v].pc \in Holding /\ tok[v].code = tok[w].code => v = w

\* Each flow is in one place: drawn, with one /authorize handler, in
\* pendingRequests, with one /callback handler, or turned into one code.
FlowsFiled ==
    \A s \in FlowStates :
        /\ origin[s] # None => s \in drawn /\ origin[s].epoch <= epoch
        /\ s \in taken \cup atBrowser => origin[s] # None

FilingHandlers ==
    \A w \in AuthWorkers :
        /\ auth[w].pc = "store_pending" =>
            /\ auth[w].state \in drawn
            /\ origin[auth[w].state] = None
            /\ \A v \in AuthWorkers :
                auth[v].pc = "store_pending" /\ auth[v].state = auth[w].state
                => v = w
        /\ auth[w].pc = "auth_redirect" => origin[auth[w].state] # None

TakingHandlers ==
    \A w \in CallbackWorkers :
        /\ cb[w].pc # "idle" => origin[cb[w].state] # None
        /\ cb[w].pc \in Answering =>
            /\ cb[w].state \in taken
            /\ cb[w].pending = origin[cb[w].state].request
            /\ \A k \in Codes : issued[k] # None => FlowOf(k) # cb[w].state
            /\ \A v \in CallbackWorkers :
                cb[v].pc \in Answering /\ cb[v].state = cb[w].state => v = w

CodesOfTakenFlows == \A k \in Codes : issued[k] # None => FlowOf(k) \in taken

FlowInv ==
    /\ PendingExact
    /\ FlowsFiled
    /\ FilingHandlers
    /\ TakingHandlers
    /\ CodesOfTakenFlows
    /\ OneCodePerFlow

\* A code was made from the request filed for its flow, in time, and for an
\* account confirmed in that flow.
IssuedInFlow(i) ==
    /\ origin[i.flow] # None
    /\ LET r == origin[i.flow].request
       IN  /\ i.grant.client = r.client /\ i.grant.uri = r.uri
           /\ i.grant.nonce = r.nonce /\ i.grant.handle = r.hint
           /\ i.freshAt <= r.createdAt + AuthCodeTTL
    /\ i.grant.expiresAt = i.issuedAt + AuthCodeTTL
    /\ <<i.flow, i.grant.did>> \in sessions

\* Every code is for its flow, and so is what a /callback handler holds.
IssueInv ==
    /\ \A k \in Codes :
        issued[k] # None => IssuedInFlow(issued[k])
    /\ \A w \in CallbackWorkers :
        /\ cb[w].pc \in {"take"} \cup Answering =>
            <<cb[w].state, cb[w].did>> \in sessions
        /\ cb[w].pc = "issue" => cb[w].freshAt <= cb[w].pending.createdAt + AuthCodeTTL
        /\ cb[w].pc = "code_redirect" =>
            /\ issued[cb[w].code] # None /\ FlowOf(cb[w].code) = cb[w].state
            /\ cb[w].pending = origin[cb[w].state].request
    /\ DeliveredToItsRP

\* What a /token handler holds, and what it signed, is the grant of its code.
TokenInv ==
    /\ \A w \in TokenWorkers :
        /\ tok[w].pc \in Holding \cup {"ok"} =>
            LET i == issued[tok[w].code]
            IN  /\ tok[w].code \in Codes
                /\ i # None /\ i.grant = tok[w].grant /\ i.epoch = epoch
        /\ tok[w].pc \in {"check_client", "sign"} =>
            Redeems(tok[w].form, tok[w].checkedAt, tok[w].grant)
        /\ tok[w].pc \in Holding => Row(tok[w].form.client) \subseteq held[w]
    /\ SignsOnlyForAuthenticated
    /\ \A t \in tokens :
        /\ issued[t.code] # None
        /\ LET g == issued[t.code].grant
           IN  /\ t.aud = g.client /\ t.sub = g.did
               /\ t.nonce = g.nonce /\ t.handle = g.handle
               /\ Redeems(t.form, t.checkedAt, g)

\* Every request in the hands of this process was validated against the
\* registrations that this process has.
RegistrationInv ==
    /\ \A c \in Clients : Row(c) \subseteq registry[c]
    /\ \A w \in AuthWorkers :
        auth[w].pc \in {"start_flow", "store_pending", "error_redirect"} =>
            WasRegistered(auth[w].request)
    /\ \A s \in FlowStates :
        pendingRequests[s] # None => WasRegistered(pendingRequests[s])
    /\ \A w \in CallbackWorkers :
        cb[w].pc \in Answering \cup
                     {"error_redirect", "code_redirect", "bare_redirect"} =>
            WasRegistered(cb[w].pending)

(* The promise to relying parties, and how the provider keeps it: a login is
   where its pending request is, a code is where its grant is. *)

LoginStatus(s) ==
    IF pendingRequests[s] # None THEN "open"
    ELSE IF \E w \in CallbackWorkers : cb[w].pc \in Answering /\ cb[w].state = s
         THEN "answering"
    ELSE IF origin[s] = None THEN "new" ELSE "closed"

CodeStatus(k) ==
    IF codeGrants[k] # None THEN "live"
    ELSE IF \E w \in TokenWorkers : tok[w].pc \in Holding /\ tok[w].code = k
         THEN "presented"
    ELSE IF issued[k] = None THEN "new" ELSE "closed"

flowLogin == [s \in FlowStates |-> LoginStatus(s)]
flowCode  == [k \in Codes |-> CodeStatus(k)]

flowRequest ==
    [s \in FlowStates |-> IF origin[s] = None THEN None ELSE origin[s].request]

flowGrant ==
    [k \in Codes |->
        IF issued[k] = None THEN None
        ELSE [login |-> issued[k].flow, account |-> issued[k].grant.did]]

Claims(t) ==
    [ code |-> t.code, client |-> t.aud, nonce |-> t.nonce, handle |-> t.handle,
      account |-> t.sub ]

flowTokens == {Claims(t) : t \in tokens}

Flow == INSTANCE AuthCodeFlow WITH
    Logins <- FlowStates, Accounts <- DIDs, Requests <- PendingAuthorization,
    login <- flowLogin, request <- flowRequest, confirmed <- sessions,
    code <- flowCode, grant <- flowGrant, tokens <- flowTokens, signed <- uses

\* Whatever the goroutines and a restart do to the two maps, an RP sees each
\* login answered once, by one code, redeemed once, for that login's claims.
RefinesAuthCodeFlow == Flow!Spec

\* A login buys one ID token, whatever is repeated, raced or restarted: the
\* take under pendingMu and the one under codeGrantsMu together.
LoginBuysOneToken == Flow!OneTokenPerLogin

\* What was answered, consumed or lost stays so: the maps never get back a
\* request or a grant, not after a refusal, an expiry or a restart either.
NothingReopens == Flow!NothingTakenBack

\* The invariant of the promise, for the proofs.
PromiseInv == Flow!PromiseInv

(* What comments say *)

\* provider.go:247 takes a callback without a pending request for one that no
\* OIDC request started ("No OIDC request - plain ATProto callback").
PlainMeansNoOIDCRequest ==
    \A w \in CallbackWorkers :
        cb[w].pc = "plain" => origin[cb[w].state] = None
=============================================================================
