----------------------------- MODULE HTTPServer -----------------------------
(***************************************************************************)
(* The life of the server process (cmd/server, internal/server) and of the *)
(* requests in it (internal/middleware).                                   *)
(*                                                                         *)
(* main starts a goroutine that listens, waits for a signal or a listen    *)
(* error, drains the HTTP server for at most ten seconds and closes the    *)
(* store. Every request runs on a goroutine of its own through             *)
(* recovery(requestid(logging(mux))); what the handlers behind the mux do  *)
(* is left open, so they call the store, write and panic in any order, and *)
(* may take for ever.                                                      *)
(***************************************************************************)
EXTENDS Naturals, FiniteSets

CONSTANTS
    Requests,    \* the requests clients may send
    Statuses,    \* the final status codes handlers send
    StatusOK, StatusInternalServerError,
    NoStatus,    \* the zero value of an int, no status code
    None         \* nothing sent, nothing logged

ASSUME StatusAssumption ==
    /\ StatusOK \in Statuses /\ StatusInternalServerError \in Statuses
    /\ None \notin Statuses /\ NoStatus \notin Statuses

ASSUME RequestAssumption == IsFiniteSet(Requests)

VARIABLES
    main,            \* where main is
    signalled,       \* SIGINT or SIGTERM arrived: ctx is done
    deadline,        \* the ten seconds of shutdownCtx are over
    listener,        \* where the goroutine around ListenAndServe is
    errSent,         \* whether it sent its error to errCh
    storeOpen,       \* whether the store still answers
    request,         \* every request: its handler and its response
    requestsTotal,   \* http_requests_total, by status
    panicsTotal      \* panics_recovered_total

process == <<main, signalled, deadline, listener, errSent, storeOpen>>
metrics == <<requestsTotal, panicsTotal>>
vars == <<process, request, metrics>>

\* wire: the status sent; status, wroteHeader: the wrapper of the logging
\* middleware; body: whose bytes were sent; logged: the status in the log
\* entry; storeFailed: a call of the handler met a closed store.
Request ==
    [ pc : {"none", "handler", "done"}, wire : Statuses \cup {None},
      status : Statuses, wroteHeader : BOOLEAN, body : SUBSET {"page", "error"},
      logged : Statuses \cup {None}, storeFailed : BOOLEAN ]

\* Mutant: the wrapper is made without a default status.
NoDefault == NoStatus

DefaultStatus == StatusOK

Unserved ==
    [ pc |-> "none", wire |-> None, status |-> DefaultStatus, wroteHeader |-> FALSE,
      body |-> {}, logged |-> None, storeFailed |-> FALSE ]

\* Every variable holds values of the Go type it models.
TypeOK ==
    /\ main \in {"starting", "running", "draining", "closing", "returning",
                "exited", "failed"}
    /\ signalled \in BOOLEAN /\ deadline \in BOOLEAN
    /\ listener \in {"unbound", "listening", "closed", "broken"}
    /\ errSent \in BOOLEAN /\ storeOpen \in BOOLEAN
    /\ request \in [Requests -> Request]
    /\ requestsTotal \in [Statuses -> Nat] /\ panicsTotal \in Nat

Init ==
    /\ main = "starting"
    /\ signalled = FALSE /\ deadline = FALSE
    /\ listener = "unbound" /\ errSent = FALSE
    /\ storeOpen = TRUE
    /\ request = [r \in Requests |-> Unserved]
    /\ requestsTotal = [s \in Statuses |-> 0] /\ panicsTotal = 0

Ended == {"exited", "failed"}
Alive == main \notin Ended
Active(r) == request[r].pc = "handler"

-----------------------------------------------------------------------------
(* main *)

\* Configuration, store, clients or key fail (log.Fatalf), or a signal comes
\* before anyone catches it.
StartupFails ==
    /\ main = "starting"
    /\ main' = "failed"
    /\ UNCHANGED <<signalled, deadline, listener, errSent, storeOpen, request, metrics>>

StartRun ==
    /\ main = "starting"
    /\ main' = "running"
    /\ UNCHANGED <<signalled, deadline, listener, errSent, storeOpen, request, metrics>>

\* case err := <-errCh: main ends through log.Fatalf, the store is not closed.
RunFails ==
    /\ main = "running" /\ errSent
    /\ main' = "failed"
    /\ UNCHANGED <<signalled, deadline, listener, errSent, storeOpen, request, metrics>>

\* case <-ctx.Done(): Shutdown closes the listener, and a ListenAndServe that
\* comes later returns at once.
RunShutsDown ==
    /\ main = "running" /\ signalled
    /\ main' = "draining"
    /\ listener' = IF listener = "broken" THEN "broken" ELSE "closed"
    /\ UNCHANGED <<signalled, deadline, errSent, storeOpen, request, metrics>>

DeadlinePasses ==
    /\ main = "draining" /\ ~deadline
    /\ deadline' = TRUE
    /\ UNCHANGED <<main, signalled, listener, errSent, storeOpen, request, metrics>>

\* Mutants: srv.Close instead of srv.Shutdown; a context without a deadline.
AtOnce == TRUE
OnlyDrained == \A r \in Requests : ~Active(r)

DrainedOrLate == deadline \/ \A r \in Requests : ~Active(r)

\* Shutdown returns when no request is active or with the error of its context,
\* which is only logged.
ShutdownReturns ==
    /\ main = "draining" /\ DrainedOrLate
    /\ main' = "closing"
    /\ UNCHANGED <<signalled, deadline, listener, errSent, storeOpen, request, metrics>>

CloseStore ==
    /\ main = "closing"
    /\ storeOpen' = FALSE
    /\ main' = "returning"
    /\ UNCHANGED <<signalled, deadline, listener, errSent, request, metrics>>

\* Run and main return; the goroutines of requests still active end with them.
Exit ==
    /\ main = "returning"
    /\ main' = "exited"
    /\ UNCHANGED <<signalled, deadline, listener, errSent, storeOpen, request, metrics>>

-----------------------------------------------------------------------------
(* The operating system and the listening goroutine *)

\* NotifyContext catches the first signal; later ones change nothing.
Signal ==
    /\ main = "running" /\ ~signalled
    /\ signalled' = TRUE
    /\ UNCHANGED <<main, deadline, listener, errSent, storeOpen, request, metrics>>

Listen ==
    /\ main = "running" /\ listener = "unbound"
    /\ listener' = "listening"
    /\ UNCHANGED <<main, signalled, deadline, errSent, storeOpen, request, metrics>>

\* The address is taken, or Accept fails later. errCh has room for the error.
ListenFails ==
    /\ main = "running" /\ listener \in {"unbound", "listening"}
    /\ listener' = "broken"
    /\ errSent' = TRUE
    /\ UNCHANGED <<main, signalled, deadline, storeOpen, request, metrics>>

-----------------------------------------------------------------------------
(* Requests *)

\* A request is accepted and passes the three middlewares on its way in.
Arrive(r) ==
    /\ Alive /\ listener = "listening"
    /\ request[r].pc = "none"
    /\ request' = [request EXCEPT ![r].pc = "handler"]
    /\ UNCHANGED <<process, metrics>>

HandlerUsesStore(r) ==
    /\ Alive /\ Active(r)
    /\ request' = [request EXCEPT ![r].storeFailed = @ \/ ~storeOpen]
    /\ UNCHANGED <<process, metrics>>

\* net/http sends the first status code it is given.
Sent(x, code) == IF x.wire = None THEN code ELSE x.wire

\* Mutant: the wrapper records every code it is given.
RecordedLast(x, code) == code

\* So does responseWriter, which records the code for the log.
Recorded(x, code) == IF x.wroteHeader THEN x.status ELSE code

\* Mutant: the wrapper forgets that a header went out.
WithHeaderForgotten(x, code) ==
    [x EXCEPT !.status = Recorded(x, code), !.wire = Sent(x, code)]

\* The wrapper passes a code on; Write without WriteHeader implies StatusOK.
WithHeader(x, code) ==
    [x EXCEPT !.status = Recorded(x, code), !.wroteHeader = TRUE,
              !.wire = Sent(x, code)]

HandlerWritesHeader(r, code) ==
    /\ Alive /\ Active(r)
    /\ request' = [request EXCEPT ![r] = WithHeader(request[r], code)]
    /\ UNCHANGED <<process, metrics>>

HandlerWrites(r) ==
    /\ Alive /\ Active(r)
    /\ request' = [request EXCEPT ![r] =
           [WithHeader(request[r], StatusOK) EXCEPT !.body = @ \cup {"page"}]]
    /\ UNCHANGED <<process, metrics>>

\* The handler returns: the logging middleware logs and counts, and net/http
\* finishes the response.
HandlerReturns(r) ==
    /\ Alive /\ Active(r)
    /\ request' = [request EXCEPT ![r] =
           [request[r] EXCEPT !.pc = "done", !.logged = request[r].status,
                              !.wire = Sent(request[r], StatusOK)]]
    /\ requestsTotal' = [requestsTotal EXCEPT ![request[r].status] = @ + 1]
    /\ UNCHANGED <<process, panicsTotal>>

\* The handler panics, past the logging middleware: handlePanic logs, counts
\* and writes an error response to the unwrapped writer. If a header was sent
\* already the code is ignored, and the body is appended.
HandlerPanics(r) ==
    /\ Alive /\ Active(r)
    /\ request' = [request EXCEPT ![r] =
           [request[r] EXCEPT !.pc = "done",
                              !.wire = Sent(request[r], StatusInternalServerError),
                              !.body = @ \cup {"error"}]]
    /\ panicsTotal' = panicsTotal + 1
    /\ UNCHANGED <<process, requestsTotal>>

-----------------------------------------------------------------------------
MainStep == RunFails \/ RunShutsDown \/ ShutdownReturns \/ CloseStore \/ Exit

RequestStep(r) ==
    \/ Arrive(r) \/ HandlerUsesStore(r)
    \/ \E code \in Statuses : HandlerWritesHeader(r, code)
    \/ HandlerWrites(r) \/ HandlerReturns(r) \/ HandlerPanics(r)

Next ==
    \/ StartupFails \/ StartRun \/ MainStep \/ DeadlinePasses
    \/ Signal \/ Listen \/ ListenFails
    \/ \E r \in Requests : RequestStep(r)

Spec == Init /\ [][Next]_vars

\* main is scheduled and the timer of its context fires. Nothing is assumed of
\* the handlers: they may hang.
Fairness == WF_vars(MainStep) /\ WF_vars(DeadlinePasses)

FairSpec == Spec /\ Fairness

-----------------------------------------------------------------------------
Panicked(r) == request[r].pc = "done" /\ request[r].logged = None

\* No handler meets a closed store, unless the ten seconds are over: Run closes
\* the store only after the HTTP server is drained or gave up.
StoreOutlivesHandlers == \A r \in Requests : request[r].storeFailed => deadline

\* When Run returns after a signal, every request that got in has its response,
\* unless the ten seconds were over.
DrainedUnlessLate ==
    main \in {"returning", "exited"} => deadline \/ \A r \in Requests : ~Active(r)

\* What http_requests_total misses: the requests whose handler panicked, though
\* the client was answered, and nothing else. Under every status it is short of
\* the ended requests by those, and panics_recovered_total counts them all. (The
\* Help text of metrics.go:51 promises the "Total number of HTTP requests
\* processed, by method, path, and status.": it is the number less the panics,
\* for a panic leaves loggingHandler.ServeHTTP before its Inc.)
RequestsMissedArePanics ==
    /\ \A s \in Statuses :
        requestsTotal[s] + Cardinality({r \in Requests : Panicked(r) /\ request[r].wire = s})
            = Cardinality({r \in Requests : request[r].pc = "done" /\ request[r].wire = s})
    /\ panicsTotal = Cardinality({r \in Requests : Panicked(r)})

\* A client gets the response of its handler, with the status that is logged,
\* or a clean error response; the two mix only if the handler panics after a
\* header was sent.
AnsweredWhole ==
    \A r \in Requests :
        LET x == request[r] IN
        /\ x.pc = "done" /\ ~Panicked(r) =>
            x.logged = x.wire /\ "error" \notin x.body
        /\ Panicked(r) /\ ~x.wroteHeader =>
            x.wire = StatusInternalServerError /\ x.body = {"error"}

\* A signal or a listen error ends the process, even if a handler hangs for ever.
TerminatesWhenTold == signalled \/ errSent ~> main \in Ended

\* Inductive strengthening of the first two.
ShutdownInv ==
    /\ main \notin {"starting", "running", "failed"} => listener # "listening"
    /\ main \in {"closing", "returning", "exited"} =>
        deadline \/ \A r \in Requests : ~Active(r)
    /\ ~storeOpen => main \in {"returning", "exited"}
    /\ StoreOutlivesHandlers

\* What RequestsMissedArePanics rests on: until the handler is done
\* the wrapper of the logging middleware agrees with the connection.
WrapperInv ==
    \A r \in Requests :
        /\ request[r].logged # None => request[r].pc = "done"
        /\ request[r].pc # "done" =>
            /\ request[r].wroteHeader => request[r].wire = request[r].status
            /\ ~request[r].wroteHeader =>
                request[r].wire = None /\ request[r].status = StatusOK

\* recovery.go:51-54 says of the error response: "If headers have already been
\* sent (unlikely after a panic), this will be a no-op".
PanicAfterHeadersIsNoOp ==
    \A r \in Requests :
        Panicked(r) /\ request[r].wroteHeader => "error" \notin request[r].body
=============================================================================
