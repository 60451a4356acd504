-------------------------- MODULE CallbackListener --------------------------
(***************************************************************************)
(* The CLI login: cmd/cli starts a temporary HTTP server for the OAuth     *)
(* callback (internal/oauth ListenForCallback), sends the user's browser   *)
(* to the PDS, waits for one callback on a channel and shuts the server    *)
(* down.                                                                   *)
(*                                                                         *)
(* Three kinds of goroutine share the channel and the server: main, one    *)
(* goroutine per /callback request, and the one running srv.Serve. The     *)
(* channel is bounded and a handler sends without a select, so a handler   *)
(* may block; Shutdown gets a context without deadline and returns only    *)
(* when no handler is active.                                              *)
(***************************************************************************)
EXTENDS Naturals, FiniteSets, Sequences, SequencesExt

CONSTANTS
    Requests,    \* /callback requests that browsers may make
    Capacity,    \* capacity of resultCh
    ServeFails,  \* TRUE: srv.Serve may end with an error of its own
    None

ASSUME ListenerAssumption ==
    Capacity \in Nat \ {0} /\ ServeFails \in BOOLEAN /\ None \notin Requests

VARIABLES
    main,      \* where main is in run
    outcome,   \* what run is going to return
    server,    \* whether srv accepts connections
    handler,   \* where the handler of each request is
    resultCh,  \* the channel: the requests whose parameters it holds
    result     \* the request whose parameters main received

vars == <<main, outcome, server, handler, resultCh, result>>

Active == {"sending", "replying"}

\* The channel never holds more than its capacity, and run knows its outcome
\* from the moment it starts to clean up.
TypeOK ==
    /\ main \in {"starting", "opening", "waiting", "processing",
                "cleanup", "shutdown", "exited"}
    /\ outcome \in {"none", "ok", "error"}
    /\ server \in {"serving", "broken", "closed"}
    /\ handler \in [Requests -> {"none", "answered"} \cup Active]
    /\ resultCh \in BoundedSeq(Requests, Capacity)
    /\ result \in Requests \cup {None}
    /\ main \in {"cleanup", "shutdown", "exited"} => outcome # "none"

Init ==
    /\ main = "starting"
    /\ outcome = "none"
    /\ server = "serving"
    /\ handler = [r \in Requests |-> "none"]
    /\ resultCh = <<>>
    /\ result = None

-----------------------------------------------------------------------------
(* main *)

\* The user enters a handle and the ATProto flow starts.
StartFlow ==
    /\ main = "starting"
    /\ main' = "opening"
    /\ UNCHANGED <<outcome, server, handler, resultCh, result>>

StartFlowFails ==
    /\ main = "starting"
    /\ main' = "cleanup"
    /\ outcome' = "error"
    /\ UNCHANGED <<server, handler, resultCh, result>>

\* The browser is started, or the user is asked to open the URL; main does not
\* wait for it and may reach the channel after the callback.
OpenBrowser ==
    /\ main = "opening"
    /\ main' = "waiting"
    /\ UNCHANGED <<outcome, server, handler, resultCh, result>>

\* result := <-resultCh; no handler ever sends an Err.
Receive ==
    /\ main = "waiting"
    /\ resultCh # <<>>
    /\ result' = Head(resultCh)
    /\ resultCh' = Tail(resultCh)
    /\ main' = "processing"
    /\ UNCHANGED <<outcome, server, handler>>

\* HandleCallback exchanges the parameters at the PDS, which may refuse them.
Process ==
    /\ main = "processing"
    /\ outcome' \in {"ok", "error"}
    /\ main' = "cleanup"
    /\ UNCHANGED <<server, handler, resultCh, result>>

\* The deferred cleanup: srv.Shutdown closes the listener first ...
CloseListener ==
    /\ main = "cleanup"
    /\ server' = "closed"
    /\ main' = "shutdown"
    /\ UNCHANGED <<outcome, handler, resultCh, result>>

\* Mutant: srv.Close instead of srv.Shutdown.
Abandoned == TRUE

Drained == \A r \in Requests : handler[r] \notin Active

\* ... then waits, without a deadline, for the active handlers to return.
ShutdownReturns ==
    /\ main = "shutdown" /\ Drained
    /\ main' = "exited"
    /\ UNCHANGED <<outcome, server, handler, resultCh, result>>

-----------------------------------------------------------------------------
(* The callback server *)

\* A browser comes back from the PDS, reloads the page or repeats the request.
\* Nobody knows the callback URL, which has a random port, before a flow started.
Arrive(r) ==
    /\ main \in {"opening", "waiting"} \/ result # None
    /\ server = "serving"
    /\ handler[r] = "none"
    /\ handler' = [handler EXCEPT ![r] = "sending"]
    /\ UNCHANGED <<main, outcome, server, resultCh, result>>

\* Mutants: a queue without a bound; a channel without a buffer.
AlwaysRoom == TRUE
Received == main = "waiting" /\ resultCh = <<>>

HasRoom == Len(resultCh) < Capacity

\* Mutant: a select with a default case drops what main does not wait for.
QueuedIfWaiting(r) == IF main = "waiting" THEN Append(resultCh, r) ELSE resultCh

Queued(r) == Append(resultCh, r)

\* resultCh <- CallbackResult{...}
Send(r) ==
    /\ handler[r] = "sending" /\ HasRoom
    /\ resultCh' = Queued(r)
    /\ handler' = [handler EXCEPT ![r] = "replying"]
    /\ UNCHANGED <<main, outcome, server, result>>

Reply(r) ==
    /\ handler[r] = "replying"
    /\ handler' = [handler EXCEPT ![r] = "answered"]
    /\ UNCHANGED <<main, outcome, server, resultCh, result>>

\* The goroutine around srv.Serve logs the error and tells nobody.
ServeBreaks ==
    /\ ServeFails
    /\ server = "serving"
    /\ server' = "broken"
    /\ UNCHANGED <<main, outcome, handler, resultCh, result>>

-----------------------------------------------------------------------------
MainStep == OpenBrowser \/ Receive \/ Process \/ CloseListener \/ ShutdownReturns

HandlerStep(r) == Send(r) \/ Reply(r)

Next ==
    \/ StartFlow \/ StartFlowFails \/ MainStep
    \/ \E r \in Requests : Arrive(r) \/ HandlerStep(r)
    \/ ServeBreaks

Spec == Init /\ [][Next]_vars

\* The scheduler runs main and the handlers, and the PDS answers. The user may
\* never enter a handle, and no browser has to come back.
Fairness ==
    /\ WF_vars(MainStep)
    /\ \A r \in Requests : WF_vars(HandlerStep(r))

FairSpec == Spec /\ Fairness

-----------------------------------------------------------------------------
\* A browser that is told "Authentication successful!" had its parameters
\* delivered: main has them, or they wait in the channel, once.
AnsweredWasDelivered ==
    \A r \in Requests :
        handler[r] \in {"replying", "answered"} =>
            \/ result = r \/ r \in ToSet(resultCh)

\* run returns only after every callback that got in has its answer: main does
\* not end the process under a handler.
NoHandlerOutlivesMain ==
    main = "exited" => \A r \in Requests : handler[r] \notin Active

\* No wake-up is lost: while main waits on the channel, a callback that got in
\* is in the channel or can still get there; main and the handlers never wait
\* for each other.
NoLostWakeup ==
    main = "waiting" /\ (\E r \in Requests : handler[r] # "none") =>
        \/ resultCh # <<>>
        \/ HasRoom /\ \E r \in Requests : handler[r] = "sending"

\* A callback that reaches the server wakes main, also if it comes with others.
CallbackWakesMain ==
    \A r \in Requests : handler[r] = "sending" ~> main \notin {"opening", "waiting"}

\* More callbacks got in than main and the channel can take.
Arrived == {r \in Requests : handler[r] # "none"}
Crowded == Cardinality(Arrived) > Capacity + 1

Blocked == ~HasRoom /\ \E r \in Requests : handler[r] = "sending"

\* A handler that blocks when main receives no more, or never did, is one too
\* many: the safety that CleanupReturnsUncrowded rests on.
BlockedOnlyIfCrowded ==
    Blocked /\ main \notin {"opening", "waiting"} => Crowded

\* Once main received its callback, a handler that blocks stays blocked and main
\* never returns from Shutdown: nobody receives again, and the context that
\* Shutdown gets has no deadline.
Stuck == main \in {"processing", "cleanup", "shutdown"} /\ Blocked

StuckForGood == [][Stuck => Stuck']_vars

\* Once run calls the cleanup function, run returns, unless too many callbacks
\* got in: one for main and as many as the channel holds do no harm.
CleanupReturnsUncrowded == main = "cleanup" ~> main = "exited" \/ Crowded

\* flow.go:17-19: ListenForCallback returns "a cleanup function to shut down
\* the server". Once run calls it, it returns.
CleanupReturns == main = "cleanup" ~> main = "exited"
=============================================================================
