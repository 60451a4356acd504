# Formal verification of ATConnect

ATConnect is an OpenID Connect provider that lets a relying party (RP) log its
users in with an ATProto account: the RP speaks plain OIDC to ATConnect, and
ATConnect speaks ATProto OAuth to the user's PDS. This directory holds TLA+
modules translated from the Go sources, TLC configurations that model-check them
on small instances, and proofs that the TLA+ proof system (TLAPS) checks.

Paths below are relative to `src/`.

## 1. The system

| component | state it keeps | operations | who calls it |
|---|---|---|---|
| OIDC provider, `internal/oidc/provider.go` | `pendingRequests` (ATProto state token to RP request, under `pendingMu`), `codeGrants` (code to grant, under `codeGrantsMu`), both in memory only | `/authorize`, `/callback`, `/token` | RPs and browsers, one goroutine per request |
| ID token claims and JWKS, `internal/oidc/claims.go`, `jwks.go` | none | build and sign a token, publish the key | `/token`, `/jwks` |
| Key manager, `internal/keys/manager.go` | the signing key in memory, one row in the store under one fixed key ID | load or generate at startup | `cmd/server` |
| ATProto OAuth client, `internal/oauth/client.go` | auth requests and sessions in the store | `StartFlow`, `HandleCallback` (through the indigo library) | provider, CLI |
| Callback listener and CLI, `internal/oauth/flow.go`, `cmd/cli` | a channel of capacity 1, a temporary HTTP server | listen, receive one callback, shut down | the user |
| Memory store, `pkg/store/memory` | maps under `mu`, indigo's `MemStore` for auth requests and sessions; dies with the process | get, save, create, list, delete, ping | everything above |
| SQLite store, `pkg/store/sqlite` | four tables in a file, one connection that every call queues for | the same, and close | everything above |
| Server, `internal/server`, `cmd/server` | the HTTP server, `errCh`, the signal context | start, serve, drain, close the store | the operating system |
| Middleware, `internal/middleware` | request and panic counters, a status wrapper per request | recovery, request ID, logging | net/http |
| Configuration and startup, `internal/config`, `cmd/server` | the effective configuration; writes the configured clients to the store | load, validate, build the store, register clients, load the key, listen | the operating system |
| Observability, error types, discovery document | metric and log registries | answer probes | `cmd/server` |

**How they interact.** `/authorize` checks the RP's request against the client in
the store, calls `StartFlow`, which saves an auth request and returns the PDS's
authorization URL, files the RP's request in `pendingRequests` under the state
token of that URL and redirects the browser. The PDS sends the browser to
`/callback`, which calls `HandleCallback` (read the auth request, exchange the
code with the PDS, save a session, delete the auth request), takes the pending
request, files a grant in `codeGrants` under a random code and redirects the
browser to the RP with it. The RP posts the code to `/token`, which takes the
grant, checks it and the client, and signs an ID token with the key manager's key.

**What is hard.** Handlers of the same login run at the same time (a reloaded
callback page, an RP that retries `/token`), and between reading a map, calling
the PDS and writing a response every other goroutine may run. The two maps die
with the process while SQLite does not, so a restart splits a login in two. A
code is consumed before anything is checked, so a failed attempt must not bring it
back. Two clocks run after each other (login, code). The key row is read, a key
generated and the row upserted in separate statements, by processes that may
overlap in a rolling deployment. The CLI's handlers block on a full channel while
main waits for them. A shutdown has a deadline and closes the store under
handlers that are late. A handler may panic half-way through its response. Every
call of the SQLite store queues for one connection, and a listing keeps it from row
to row. A start registers clients one by one before it knows whether the rest of
the start succeeds, in a file that another process may be serving from.

**What makes each part correct.**

- *Provider*: one code per login, one token per code, nothing of one login in
  another's code, redirect or token; maps that hold exactly what is unfinished;
  redirects to registered URIs only; a login that is taken is answered; a token
  within two code lifetimes of the request, and what the callback takes between them.
- *Keys*: one key behind the one key ID, whatever crashes and restarts; only keys
  that a restart can find again sign or are published.
- *Callback listener*: no callback that was told "successful" is lost, a callback
  wakes main, the cleanup ends.
- *Server and middleware*: handlers do not meet a closed store within the ten
  seconds, the process ends when told to, log and metrics agree with the responses of
  handlers that return.
- *Stores*: every call takes effect at one moment between its start and its return
  and is answered from that moment; a state token is created once; every call returns.
- *Startup*: a server is served from the clients it was configured with; no start loses a registration; a start ends.

## 2. Modules

| module | models | instance | proofs |
|---|---|---|---|
| `AuthCodeFlow` | what the provider promises an RP, without goroutines and maps | | `AuthCodeFlowProofs` |
| `OIDCProvider` | `/authorize`, `/callback`, `/token`, with the client and auth-request rows of the store, time and restarts | `MCOIDCProvider` | `OIDCProviderProofs`, `OIDCProvenanceProofs` |
| `KeyManager` | key startup of several processes over one stored row, signing, JWKS | `MCKeyManager` | `KeyManagerProofs` |
| `CallbackListener` | the CLI login: main, callback handlers, channel, shutdown | `MCCallbackListener` | `CallbackListenerProofs` |
| `HTTPServer` | `Server.Run` from start to exit and the middleware around every request | `MCHTTPServer` | `HTTPServerProofs` |
| `KVStore` | what `pkg/store` promises its callers; the memory store | | |
| `SQLiteStore` | `pkg/store/sqlite` over its one connection | `MCSQLiteStore` | `SQLiteStoreProofs` |
| `Startup` | `internal/config` and `main` up to `ListenAndServe`, for several processes | `MCStartup` | `StartupProofs` |

Two pairs are refinements: `OIDCProvider` implements `AuthCodeFlow`
(`RefinesAuthCodeFlow`) and `SQLiteStore` implements `KVStore` (`KeepsPromise`).
Components meet where the code lets them: `OIDCProvider` has the client rows and the auth
requests as single steps, which `KeepsPromise` justifies; `Startup` hands over to
`KeyManager` in its `keys` step and to `HTTPServer` in its `listening` step.

### OIDCProvider

Each endpoint has a pool of workers, one per goroutine that may serve it at the
same time; `auth`, `cb` and `tok` hold their local variables and `pc`. A handler is
cut where another goroutine can run and make a difference:

| code | actions |
|---|---|
| `HandleAuthorize` | entry with the client lookup and the checks: `AuthorizeRejected` (error page), `AuthorizeRefused` (error redirect), `AuthorizeAsksHandle` (login form), `AuthorizeAccepted`; `StartFlow` or `StartFlowFails`; `StorePending` (lines 200-211); `AuthorizeReply` |
| `HandleCallback` | `CallbackAccepted` or `CallbackRejected` (reading the auth request); `CallbackExchange` or `CallbackExchangeFails` (PDS, session, deletion of the auth request); `CallbackTake` or `CallbackPlain` (the section under `pendingMu`); `CallbackExpired` or `CallbackFresh` (line 254, the first reading of the clock); `CallbackIssue` (lines 262-278 with the second one, line 273); `CallbackReply` |
| `HandleToken` | `TokenRejected` (form), `TokenConsume` or `TokenUnknown` (the section under `codeGrantsMu`), `TokenGrantAccepted` or `TokenGrantRefused`, `TokenClientAccepted` or `TokenClientRefused`, `TokenSign` or `TokenSignFails`, `TokenReply` |
| the clock, the process | `Tick`; `Restart`, which empties both maps, ends all handlers, registers the clients of a possibly new configuration and empties a memory store; `RegisteredElsewhere`: with SQLite, another process that starts on the same file upserts one client of its configuration, between any two steps of the handlers |

Failures are actions of their own: any call of the store, of the PDS or of the
signer may fail. `registry`, `held`, `drawn`, `origin`, `atBrowser`, `sessions`, `taken`,
`answered`, `issued`, `delivered`, `consumed`, `uses` and `tokens` are history variables: no
guard of the code reads them, and they let properties speak about the past. `registry` has the
registrations each client had since this process started, `held[w]` those the client of a
`/token` request had since its code was taken. (Three
of them also restrict inputs: a state token or a code that was drawn is not drawn
again, and a callback carries a state token that a browser was sent to.)

### AuthCodeFlow and its refinement

A login is `new`, `open` (its request is filed), `answering` (a callback took it) or
`closed`; a code is `new`, `live`, `presented` or `closed`. A restart closes
everything that is under way. `LoginStatus` and `CodeStatus` in `OIDCProvider` compute the
status of a login from `pendingRequests`, the callback handlers and `origin`, that
of a code from `codeGrants`, the token handlers and `issued`; tokens map to their
claims, and `uses`, which counts the signatures, to `signed`: two tokens with the same
claims count twice.

### KeyManager

`row` is the row of `defaultKeyID`. `Start`, `LoadKey`, `LoadCorrupt`, `Generate`,
`SaveKey` and `SaveKeyFails` are the statements of `loadOrGenerate`; `Stop` may come
between any two. The constant `ReadFaults` names an environment fault the code is exposed
to: GetKey fails although the row is there. Nothing keeps two processes from starting
together on an empty store; the history variable `raced` says whether they did, for the
properties that need that they did not.

### CallbackListener

`main` goes through the statements of `run`; each request is a handler goroutine
that sends on `resultCh` and then answers; `ServeBreaks` is the error of `srv.Serve`
that is only logged. `CloseListener` and `ShutdownReturns` are the cleanup function.

### HTTPServer

`main` goes through `Server.Run`; `listener` is the goroutine around
`ListenAndServe`; a request is accepted while the listener is open, and its handler
then calls the store, sends a status, writes, returns, panics or hangs, in any
order. The status wrapper of the logging middleware (`status`, `wroteHeader`) and
the connection (`wire`, `body`) are separate state, because a panic bypasses the
wrapper.

### KVStore and SQLiteStore

A goroutine makes a call (`Begin`), gets an answer and returns. In `KVStore` one step does the
work: the critical section of the memory store. `Offers` says which table has which
method: auth requests are created and never overwritten, sessions, keys and clients
are upserted. In `SQLiteStore` the call first waits for the connection (`Acquire`, or
`NoConnection` when the context ends or the database is closed), then its statement
runs; `ListOpen`, `ListNext` and `ListEnd` are `QueryContext`, one `rows.Next` and
`rows.Close`. `StatementFails` is an error of the statement, also one after it was
committed. `Restart` reopens the file. `pc`, `todo` and `seen` are local to the
goroutines; `rows`, `call` and `answer` are those of `KVStore`.

### Startup

`Merged` is `Load`: the YAML decoded over `Default`, then each variable that is not empty.
`Valid` is `Validate`. `OpenStore` is `newStore`, `Register` one iteration of
`registerConfiguredClients`, `Registered`, `KeysReady` and `Listen` the rest of `main`; `Fail` is
every `log.Fatalf` after `Load`, `Stop` the end of a process at any moment. A start
with an invalid configuration changes nothing and is not a step. `clients` has a table
per database file and one per process for the memory store. The `by` of a row is
history: which process wrote it last.

### Abstractions

- A section of a handler without a call that lets others in is one step. Two readings of
  the clock are never in one: the check of a login's age, the start of its code's
  lifetime and the check of that lifetime are three steps, and the clock may move
  between any two.
- `Provider.store` is read and written in single steps, which `KeepsPromise` justifies.
- indigo is external: `StartFlow` draws a fresh state token and saves the auth
  request or fails at any point (after saving too); `HandleCallback` fails, or
  confirms an account, saves the session and deletes the auth request. The URL
  without a state parameter is one of the ways to fail.
- `generateRandomHex` never repeats a code.
- Client identifiers, URIs, secrets and RP values are members of small sets; a
  URI either parses or does not; HTML, JSON and logging are left out.
- Clients are stored by the configuration only, as in the code.
- net/http is external: a status sent first is the one that counts, `Shutdown` waits
  for requests that are under way. A request counts as under way from the moment its
  connection is accepted: `Shutdown` waits for such a connection too, and drops one
  that stays silent for five seconds, which no variable here can tell apart.
- `Close` of the memory store does nothing in the code; `HTTPServer` models the
  SQLite one. A process that is killed is modelled in `OIDCProvider` (`Restart`) and
  `KeyManager` (`Stop`), not in `HTTPServer`, whose properties are about its own exit.

## 3. What TLC checks

Each `.cfg` names the constants of one instance. All passing runs explore the whole
state space of their instance.

| run | instance | shows |
|---|---|---|
| `ProviderFlows` (485,824 states) | two logins of two clients, two accounts, two callbacks, two codes, memory store | `TypeOK`; `OneCodePerFlow`: a repeated callback never yields a second code, although both may pass the PDS; `LoginBuysOneToken`: over all codes of a login one signature at most; `PlainOnlyAfterTakeOrRestart`: the request is filed before the browser can come back; `TokenProvenance`, `DeliveredToItsRP`: nothing of one login gets into the other |
| `ProviderTokens` (342,480) | one code, two `/token` requests of every form, three ticks with a lifetime of one, SQLite, a restart, another process that changes the client's secret back and forth | `GrantsExact`: `codeGrants` holds what is unconsumed and nothing else; `SingleUse`: one ID token at most per code; `EndToEndDeadline`: two lifetimes and the gap between the callback's two clock readings, boundary included; `SignsOnlyForAuthenticated`: no signature for a secret that was replaced before the code was taken; `RefinesAuthCodeFlow`, with refusals, expiry and a restart |
| `ProviderRestart` (419,646) | every form of `/authorize`, two callbacks, no `/token`, SQLite, a restart and another process that change the configuration, a URI that does not parse, fairness | `PendingExact`: `pendingRequests` holds what is unfinished and nothing else; `RedirectOnlyToRegistered`; `TakenFlowInHand`: no path through `HandleCallback` drops a request it took; `TakenFlowAnswered` |
| `KeysKept` (24,288) | three processes that start in any order, three keys, any initial row, no read fault | `JWKSVerifiesEveryToken`: unless two first starts raced, there is one key; `RaceHeals`: from the last save on the row stays, and only processes that ran before it may be stale; `UsedKeysWereSaved`; `StoredKeyIsKept`: a stored key that does not parse is not replaced either |
| `ListenerCallbacks` (2,406) | four callbacks, channel of one, `Serve` may break | `AnsweredWasDelivered`, `NoHandlerOutlivesMain`, `NoLostWakeup`, `CallbackWakesMain`, `BlockedOnlyIfCrowded`, `CleanupReturnsUncrowded` (two callbacks do no harm), `StuckForGood` (a handler that blocks behind a main that has its callback is never released) |
| `ServerShutdown` (14,558) | two requests, three statuses, signal, deadline, listen error | `StoreOutlivesHandlers`, `RequestsMissedArePanics`: under every status the request counter is short of the responses by the panics, and by nothing else; `AnsweredWhole`: a response is its handler's or a clean error, and mixed only after a panic behind a header; `TerminatesWhenTold` |
| `StoreCalls` (126,468) | two goroutines, a state token, two clients, every kind of call, errors, close, restart, fairness | `TypeOK`: the connection never leaks; `KeepsPromise`: every call, a listing too, takes effect at one moment; `CallsReturn` |
| `Startup` (44,273) | two processes, one file, five configuration files (one invalid, one with a client twice), five environments (one postgres, two with empty variables), fairness | `ServedAsConfigured`; `MemoryHoldsItsOwn`: a memory store has nothing of another process or an earlier start; `StartEnds` |

Each module's `TypeOK` is checked by one of its runs. Four more runs state what a comment of the code says and show that the code does
something else:

| run | comment | behaviour found |
|---|---|---|
| `PlainAfterRestart` | `internal/oidc/provider.go:247` "No OIDC request — plain ATProto callback" | after a restart with SQLite the login of an OIDC request succeeds and ends on the plain page; the RP never hears of it |
| `KeyOverwritten` | `internal/keys/manager.go:38-39` "loads an existing signing key from the store, or generates a new EC P-256 key pair if none exists" | any failing read at startup replaces the stored key |
| `ListenerThreeCallbacks` | `internal/oauth/flow.go:17-19` "a cleanup function to shut down the server" | with a third callback it never returns |
| `PanicAfterHeaders` | `internal/middleware/recovery.go:51-52` "this will be a no-op" | the error JSON is appended to a response with the status already sent |

A fifth disagreement is not a run of its own. `internal/observability/metrics.go:51` calls
`http_requests_total` the "Total number of HTTP requests processed, by method, path, and
status." A request whose handler panics is answered with 500 and never counted there, because
the panic leaves the logging middleware before its `Inc` (`internal/middleware/logging.go:80`);
only `panics_recovered_total` has it. `RequestsMissedArePanics`, in `ServerShutdown`, states
exactly this shortfall.

**Bounds, and why they are enough.** Races in the provider are between handlers that
touch the same map entry, so two handlers of the endpoint that races and one of the
others let every pair meet; mixing needs two logins, which `ProviderFlows` has. The
deadline needs the clock to pass both expiry checks: with `AuthCodeTTL = 1`,
`MaxClock = 3` reaches one tick past `2 * AuthCodeTTL`. One restart (`MaxRestarts`)
separates "this process" from "an earlier one", and no variable distinguishes more.
A restart of a memory-backed server forgets more than one with SQLite does, and no client
row changes while it runs; the runs have the restart with SQLite, and the proofs both.
Three server processes over the key row let one crash while another starts and a
third runs. For the callback channel, one callback is received, one fits in the
buffer, the third blocks, and a fourth shows that more than one blocked handler
changes nothing. In the store one goroutine holds the connection while the other
waits, and the second client lets a listing take two steps; a third goroutine would wait
like the second. Two server processes are enough for one to serve while the other
registers; a configuration with one client twice reaches the last-entry rule. The proofs of section 4 have none of these bounds, except that the
clock and the restarts stop somewhere (at any natural number). Other processes register
without a bound: the two configurations of a run repeat.

**Fairness.** `TakenFlowAnswered` assumes that a handler that can take a step takes one
(`WF` of each worker): goroutines are scheduled, and calls of the store and the PDS
return, with an error if need be. It does not assume that requests arrive, that the
clock moves or that the server restarts. In `CallbackListener` main and the handlers
are scheduled; no browser has to come back and the user may never enter a handle.
In `HTTPServer` main is scheduled and its timer fires, and nothing is assumed of
handlers: `TerminatesWhenTold` holds with handlers that hang. `DeadlinePasses` may
come at any moment of the drain, also before an idle server had its turn. In
`SQLiteStore` statements end and a goroutine that is granted the connection again and
again gets it once (`SF` of `Acquire`): database/sql serves its queue in order. A goroutine
that waits when the database is closed is let go. In `Startup` main goes on, or ends.

`TakenFlowAnswered` excepts requests whose redirect URI does not parse: for one,
`buildRedirectURL` returns it bare and the RP gets neither code nor error
(`bare_redirect`, reached in `ProviderRestart`). `/token` compares `redirect_uri` only when
the request has one (`Redeems`), as every run has it. `ServedAsConfigured` excepts rows that
another process wrote later: a start registers clients before it listens, so one
that fails there has changed the registrations of the server that is up. Deadlock is checked everywhere but
in `CallbackListener` and `HTTPServer`, whose programs end.

**Mutants.** Operators marked "Mutant" before the definition they change are plausible
bugs: the delete under a mutex left out, a deadline dropped, a save error ignored,
a client's secret cached for the life of the process, an upsert in place of a create-only
insert, an upsert that does not update.
Each property fails when its mutant takes the place of the code's definition, which
is how we know that the property depends on that line.

## 4. What is proved

TLAPS checks the following for every value of the constants: any number of workers,
logins, codes, accounts, clients, processes, keys, requests, statuses, goroutines at
the store, tables, rows and configurations.

| module | theorem | states |
|---|---|---|
| `OIDCProviderProofs` | `TypeCorrect` | `[]TypeOK`: among others no handler uses a local it has not set |
| | `CodesAreInOnePlace`, `CodesAreSingleUse`, `GrantsAreExact` | `[]CodeInv`, `[]SingleUse`, `[]GrantsExact` |
| | `FlowsAreInOnePlace`, `FlowsYieldOneCode`, `PendingIsExact` | `[]FlowInv`, `[]OneCodePerFlow`, `[]PendingExact` |
| `OIDCProvenanceProofs` | `PlainNeedsTakeOrRestart`, `RedirectsAreRegistered` | `[]PlainOnlyAfterTakeOrRestart`, `[]RedirectOnlyToRegistered` |
| | `CodesReachTheirRP`, `TokensComeFromOneFlow` | `[]DeliveredToItsRP`, `[]TokenProvenance` |
| | `TokensAreInTime`, `TokensNeedAuthentication` | `[]EndToEndDeadline`, `[]SignsOnlyForAuthenticated` |
| | `TakenLoginsAreInHand` | `[]TakenFlowInHand` |
| `AuthCodeFlowProofs` | `ProviderKeepsPromise` | `RefinesAuthCodeFlow`: the provider implements `AuthCodeFlow` |
| | `LoginsBuyOneToken`, `NothingIsReopened` | `[]LoginBuysOneToken`, `NothingReopens` |
| `KeyManagerProofs` | `KeyTypeCorrect`, `OnlySavedKeysAreUsed` | `[]TypeOK`, `[]UsedKeysWereSaved`, under every fault |
| | `OneStoredKey`, `StoredKeyStays`, `CachedJWKSStaysGood`, `RacesHeal` | `[]KeyInv`, `StoredKeyIsKept`, `[]JWKSVerifiesEveryToken`, `RaceHeals`, assuming `~ReadFaults` |
| `CallbackListenerProofs` | `ListenerTypeCorrect`, `AnsweredCallbacksAreDelivered`, `HandlersEndFirst` | `[]TypeOK`, `[]AnsweredWasDelivered`, `[]NoHandlerOutlivesMain` |
| | `NoWakeupIsLost`, `OnlyACrowdBlocks`, `StuckMeansForever` | `[]NoLostWakeup`, `[]BlockedOnlyIfCrowded`, `StuckForGood` |
| `HTTPServerProofs` | `ServerTypeCorrect`, `StoreClosesLast`, `ShutdownDrains`, `MetricsMissPanicsOnly` | `[]TypeOK`, `[]StoreOutlivesHandlers`, `[]DrainedUnlessLate`, `[]RequestsMissedArePanics` |
| | `ResponsesAreWhole` | `[]AnsweredWhole` |
| `SQLiteStoreProofs` | `StoreTypeCorrect`, `ListingInvariant`, `StoreKeepsPromise` | `[]TypeOK`, `[]ListingInv`, `KeepsPromise`: SQLite implements `KVStore` |
| | `OnlyCallsChangeTheTables` | `RowsChangeByCalls` |
| `StartupProofs` | `StartupTypeCorrect`, `ConfiguredClientsServed`, `CumulativeRegistration` | `[]TypeOK`, `[]ServedAsConfigured`, `RegistrationsSurvive` |
| | `MemoryForgets` | `[]MemoryHoldsItsOwn` |

**Assumptions.** The `ASSUME`s of each module: the sentinels `None`, `Absent`, `Corrupt`
and `NoStatus` are not values, inputs have their types, the set of requests that is
counted is finite. The assumption of the key theorems is a hypothesis of the
theorems, since the code does not enforce it: `KeyOverwritten` shows that it is needed. That
two first starts did not race is part of `StoredKeyIsKept` and `JWKSVerifiesEveryToken`;
`RaceHeals` is what is left without it.

**Arguments.**

- *Codes.* `SingleUse` is not inductive: nothing in it stops two `/token` handlers from
  holding the same grant. `CodeInv` adds that a handler that holds a grant took its code out
  of `codeGrants` (`consumed`), alone, and that the code bought nothing yet; that a
  code that is not consumed bought nothing; and that `codeGrants` is exactly the set of
  codes of this process not consumed. Then taking a code is possible once, and signing
  once per taking.
- *Logins.* `OneCodePerFlow` needs the same for `pendingRequests`. `FlowInv` adds that a
  handler that issues a code took the request of its flow, alone, and that no code was
  issued for it; that codes were issued for taken flows only; that a handler that is
  about to file a request has a state token of its own; and `PendingExact`.
- *Provenance.* Each stage of a login passes its data on, so the invariants go stage by
  stage. `IssueInv`: every code was made from the request filed for its flow and an
  account that the PDS confirmed, at an instant `freshAt` at most one lifetime after the
  request was made, and with a deadline one lifetime after `issuedAt`. The bound of
  `EndToEndDeadline` has their difference in it, for the code puts no limit to what passes
  between lines 254 and 273.
  `TokenInv`: a `/token` handler holds the grant of its code, has checked of it what its
  place in the code implies, and, behind the check of the client, has a secret that is in
  `held`, which only grows while the handler has its grant (`HeldStays`).
  `RegistrationInv`: a request that was filed by this process, or is held by one of its
  handlers, passed the validation against a registration in `registry`, which grows until
  the process ends. Neither says that the registration is still the one in the store: the code
  does not look again.
- *Callbacks.* `ListenerInv` says that main receives at most once, so what it received
  is never replaced, and that it closed the listener before it waits for the handlers,
  so none starts after it looked.
- *How many callbacks it takes to block.* A handler blocks on a full channel when main receives no
  more. `CrowdInv` says that the results in the channel and with main are of different
  handlers, each past its send. With the blocked one that is an injection of
  `0..Capacity + 1` into the callbacks that arrived, hence `Capacity + 2` of them at least.
  From then on no step receives, so nothing makes room (`StuckForGood`).
- *Keys.* `KeyInv` says that, unless first starts raced, a running process runs with the stored key, that a process
  that saves does so on an empty store, and that one that may still generate is alone.
- *Races of first starts.* With a row there and nobody about to save, a process that starts reads the
  row and never gets to generate; so no save follows and no process turns stale (`SettledStep`).
- *Shutdown.* `ShutdownInv` says that from the drain on the listener is closed, so a
  drained server stays drained, and that the store is closed after the drain or the deadline.
- *Metrics.* `WrapperInv` says that until the handler is done the wrapper's status is the
  one on the wire, or both are unset; so the status that is counted is the one sent.
  The counter is the number of requests that were logged (`MetricsInv`), and those that ended
  are these and the panicked ones, which are disjoint (`MissedArePanics`).
- *Responses.* `BodyInv` adds that a response without a header has no body, and that only the
  recovery writes the error, in the step that ends the handler.
- *Promise of the provider.* Each action maps to one step of `AuthCodeFlow` or to none. The
  steps that need an invariant are the takes and the ends of handlers: that the
  taken login had not been answered, and that no other handler holds it, is `FlowInv`;
  the same for codes is `CodeInv`; that the token's claims are those of its login is `TokenInv`.
- *What the promise is worth.* `PromiseInv` is inductive for `AuthCodeFlow` alone: a code was
  made in the one moment that closed its login, so two codes have two logins, and a signature
  closes its code, so `signed` is at most one for each. So a login buys one token, and nothing
  that was closed opens again (`NothingLost`). `ProviderKeepsPromise` carries both over to the
  handlers and maps, without another look at their actions.
- *Taken logins.* The handler that took a login goes to a step that answers it, whichever branch it
  takes, and leaves that step only by answering (`HandlerSettles`); a login once answered, or of
  an earlier process, stays so (`SettledStays`).
- *Promise of the store.* A call takes effect when its statement ends. For a listing that
  needs `ListingInv`: what it has read is what the table holds of the rows it has
  passed, which is inductive because only the goroutine with the connection writes (`TypeOK`).
- *Rows.* `OnlyCallsChangeRows` follows from one step of `KVStore`; that of SQLite follows from
  `KeepsPromise`, as the rows and the calls of both are the same.
- *Startup.* `ServedAsConfigured` is inductive with `TypeOK`: another process that writes a row
  puts its own name on it, and an entry with the same identifier makes the earlier
  ones not the last. `MemoryHoldsItsOwn` is inductive with `TypeOK` too: `next` never goes back within a
  start, and a process that ends takes its table with it.

Each strengthening was checked with TLC before it was proved. The runs check what it
strengthens, and not again what has a theorem and follows: `CodeInv` contains `GrantsExact`,
`FlowInv` contains `PendingExact`, `NothingReopens` and `RowsChangeByCalls` follow from the
refinements; `DrainedUnlessLate` and `RegistrationsSurvive` are left to their proofs.

**Only model-checked**: the liveness properties (`TakenFlowAnswered`,
`CallbackWakesMain`, `CleanupReturnsUncrowded`, `TerminatesWhenTold`, `CallsReturn`,
`StartEnds`). They rest on
fairness, hence on `ENABLED`, which the prover does not handle. What is safety in them is
proved: that the state each one waits in is one that a fair step leaves.

| liveness, checked by TLC | proved |
|---|---|
| `TakenFlowAnswered` | `TakenFlowInHand`: a taken login is answered or a handler is about to |
| `CallbackWakesMain` | `NoLostWakeup`: main and the handlers do not wait for each other |
| `CleanupReturnsUncrowded` | `BlockedOnlyIfCrowded`, and `StuckForGood` for the crowded case |
| `CallsReturn` | `TypeOK` of `SQLiteStore`: the connection is out with a running statement only |

## 5. What is not modelled

- YAML decoding, the log settings, `padToN` and the scope check: sequential functions without
  state, which unit tests reach.
- Any property of the configuration by itself: `Merged` is what `Load` computes, and a claim about
  its precedence would say the same again. What follows from it for the clients and the
  store is `ServedAsConfigured` and `StartEnds`.
- The contents of stored rows: JSON is abstracted to whether a row can be read back.
- That the configuration example asks for unique client IDs and a redirect URI, which
  nothing checks: a client twice leaves its last entry (`ServedAsConfigured`).
- The discovery document, error and user types, metric declarations: constants and
  declarations without control flow.
- The contents of HTML pages and log entries; the time series of request durations.
- indigo, net/http, database/sql and the PDS, other than by what their callers observe.

## 6. Plan

Done, in the order of importance: `OIDCProvider`, `KeyManager`, `CallbackListener`,
`HTTPServer`, the abstract `AuthCodeFlow`, the stores, startup; the proofs of their
safety properties and refinements; and what follows from those across components or rests
under a liveness property (`LoginBuysOneToken`, `TakenFlowInHand`, `BlockedOnlyIfCrowded`).

What would come next:

1. The auth requests of `OIDCProvider`: that a state token passes the PDS only while its row
   is there, so that the window in which a callback can be repeated ends with the exchange.
2. `OIDCProvider` over `KVStore` calls that take time, instead of atomic store steps, to
   show the composition in one instance as well as by refinement.
3. `HTTPServer` with the store's queue, to relate the ten seconds of the shutdown to
   calls that wait for the connection.
