------------------------------ MODULE Startup ------------------------------
(***************************************************************************)
(* internal/config and cmd/server: from a file and the environment to a    *)
(* server that listens.                                                    *)
(*                                                                         *)
(* main registers the configured clients in the store before it knows      *)
(* whether the rest of the start succeeds, and never removes one. Several  *)
(* processes may be started over one database file, at the same time or    *)
(* one after the other, with different configurations.                     *)
(***************************************************************************)
EXTENDS Naturals, Sequences

CONSTANTS
    Procs,          \* server processes
    Paths,          \* database files
    ClientIDs,
    Registrations,  \* what a client is registered with
    Files,          \* contents of configuration files
    Envs,           \* environments
    DefaultAddress, DefaultPath, DefaultIssuer,
    Empty,          \* the empty string
    None            \* no row

Fields == {"address", "backend", "path", "issuer", "scopes", "enabled", "clients"}

\* The settings an ATCONNECT_ variable overrides.
EnvFields == {"address", "backend", "path", "issuer"}

Client == [id : ClientIDs, registration : Registrations]

\* DefaultConfig
Default ==
    [ address |-> DefaultAddress, backend |-> "memory", path |-> DefaultPath,
      issuer |-> DefaultIssuer, scopes |-> {"atproto"}, enabled |-> FALSE,
      clients |-> <<>> ]

ASSUME StoreAssumption == Paths \cap Procs = {}

ASSUME InputAssumption ==
    /\ DefaultPath \in Paths
    /\ \A f \in Files :
        /\ DOMAIN f \subseteq Fields
        /\ "clients" \in DOMAIN f => f.clients \in Seq(Client)
        /\ "path" \in DOMAIN f => f.path \in Paths
    /\ \A e \in Envs :
        /\ DOMAIN e \subseteq EnvFields
        /\ "path" \in DOMAIN e => e.path \in Paths

VARIABLES
    pc,       \* how far main is: down, opening, registering, keys, listening, serving
    cfg,      \* what Load made of them
    next,     \* the configured client to register next
    clients   \* the client table of each file, and of each process's memory

vars == <<pc, cfg, next, clients>>

\* A row, with the process that wrote it last.
Row == [registration : Registrations, by : Procs]

ASSUME NoneAssumption == \A row \in Row : row # None

NoRows == [c \in ClientIDs |-> None]
Rows == [ClientIDs -> Row \cup {None}]

\* Mutant: newStore gives every backend the memory store.
AlwaysMemory(p) == p

\* Where cfg[p] puts the clients of p.
StoreOf(p) == IF cfg[p].backend = "sqlite" THEN cfg[p].path ELSE p

-----------------------------------------------------------------------------
(* Load *)

Overrides(env) == {f \in DOMAIN env : env[f] # Empty}

\* The YAML is decoded over the defaults; then the environment is applied.
Merged(file, env) ==
    [f \in Fields |->
        IF f \in Overrides(env) THEN env[f]
        ELSE IF f \in DOMAIN file THEN file[f]
        ELSE Default[f]]

Valid(c) ==
    /\ c.address # Empty
    /\ c.backend \in {"memory", "sqlite", "postgres"}
    /\ c.backend = "sqlite" => c.path # Empty
    /\ c.scopes # {}

-----------------------------------------------------------------------------
Init ==
    /\ pc = [p \in Procs |-> "down"]
    /\ cfg = [p \in Procs |-> Default]
    /\ next = [p \in Procs |-> 1]
    /\ clients = [s \in Paths \cup Procs |-> NoRows]

Goto(p, l) == pc' = [pc EXCEPT ![p] = l]

\* log.Fatalf, a crash, or the end of main: the memory of p is gone.
Gone(p) ==
    /\ Goto(p, "down")
    /\ cfg' = [cfg EXCEPT ![p] = Default]
    /\ next' = [next EXCEPT ![p] = 1]
    /\ clients' = [clients EXCEPT ![p] = NoRows]

\* Load and Validate. An invalid configuration ends main, which leaves nothing.
Load(p, file, env) ==
    /\ pc[p] = "down" /\ Valid(Merged(file, env))
    /\ Goto(p, "opening")
    /\ cfg' = [cfg EXCEPT ![p] = Merged(file, env)]
    /\ UNCHANGED <<next, clients>>

\* Mutant: every other backend is the memory store.
AnyBackend(c) == TRUE

Buildable(c) == c.backend \in {"memory", "sqlite"}

\* CREATE TABLE IF NOT EXISTS
Created(rows) == rows

\* newStore. Without OIDC main neither registers clients nor needs a key.
OpenStore(p) ==
    /\ pc[p] = "opening" /\ Buildable(cfg[p])
    /\ clients' = [clients EXCEPT ![StoreOf(p)] = Created(@)]
    /\ Goto(p, IF cfg[p].enabled THEN "registering" ELSE "listening")
    /\ UNCHANGED <<cfg, next>>

\* Mutant: INSERT ... ON CONFLICT DO NOTHING.
Inserted(old, new) == IF old = None THEN new ELSE old

\* INSERT ... ON CONFLICT DO UPDATE; an assignment to the map of MemoryStore.
Upserted(old, new) == new

\* One iteration of registerConfiguredClients.
Register(p) ==
    /\ pc[p] = "registering" /\ next[p] <= Len(cfg[p].clients)
    /\ LET c == cfg[p].clients[next[p]] IN
         clients' = [clients EXCEPT ![StoreOf(p)][c.id] =
             Upserted(@, [registration |-> c.registration, by |-> p])]
    /\ next' = [next EXCEPT ![p] = @ + 1]
    /\ UNCHANGED <<pc, cfg>>

Registered(p) ==
    /\ pc[p] = "registering" /\ next[p] > Len(cfg[p].clients)
    /\ Goto(p, "keys")
    /\ UNCHANGED <<cfg, next, clients>>

\* NewManager; the key is the business of KeyManager.
KeysReady(p) ==
    /\ pc[p] = "keys"
    /\ Goto(p, "listening")
    /\ UNCHANGED <<cfg, next, clients>>

\* ListenAndServe; the address is free.
Listen(p) ==
    /\ pc[p] = "listening"
    /\ \A q \in Procs : pc[q] = "serving" => cfg[q].address # cfg[p].address
    /\ Goto(p, "serving")
    /\ UNCHANGED <<cfg, next, clients>>

\* Mutant: the client that could not be registered is tried again.
TryAgain(p) == UNCHANGED vars

Fatal(p) == Gone(p)

\* newStore, SaveClient, NewManager or ListenAndServe returns an error. What was
\* registered in a file stays there.
Fail(p) ==
    /\ pc[p] \notin {"down", "serving"}
    /\ Fatal(p)

\* Run returns, or the process crashes.
Stop(p) == pc[p] # "down" /\ Gone(p)

Starting(p) ==
    \/ OpenStore(p) \/ Register(p) \/ Registered(p) \/ KeysReady(p) \/ Listen(p)
    \/ Fail(p)

Next ==
    \E p \in Procs :
        \/ \E file \in Files, env \in Envs : Load(p, file, env)
        \/ Starting(p) \/ Stop(p)

Spec == Init /\ [][Next]_vars

\* main goes on as long as it can.
FairSpec == Spec /\ \A p \in Procs : WF_vars(Starting(p))

-----------------------------------------------------------------------------
\* Values of the Go types; and past newStore the backend is one it can build,
\* although Validate lets "postgres" pass.
TypeOK ==
    /\ pc \in [Procs ->
         {"down", "opening", "registering", "keys", "listening", "serving"}]
    /\ next \in [Procs -> Nat \ {0}]
    /\ clients \in [Paths \cup Procs -> Rows]
    /\ DOMAIN cfg = Procs
    /\ \A p \in Procs :
        /\ DOMAIN cfg[p] = Fields
        /\ cfg[p].path \in Paths
        /\ cfg[p].clients \in Seq(Client)
        /\ next[p] <= Len(cfg[p].clients) + 1
        /\ pc[p] = "down" => next[p] = 1
        /\ pc[p] \notin {"down", "opening"} => cfg[p].backend \in {"memory", "sqlite"}

\* The last configured client with an identifier, of the first n.
LastOf(c, i, n) == \A j \in (i + 1)..n : c[j].id # c[i].id

\* A configured client is in the store of the server that is configured with
\* it, from the moment it is registered, as its last entry says: unless another
\* process, on the same file, has registered it otherwise since.
ServedAsConfigured ==
    \A p \in Procs :
        LET c == cfg[p].clients
            n == next[p] - 1
        IN  /\ pc[p] \in {"keys", "listening", "serving"} /\ cfg[p].enabled => n = Len(c)
            /\ \A i \in 1..n :
                LET row == clients[StoreOf(p)][c[i].id] IN
                /\ row # None
                /\ LastOf(c, i, n) /\ row.by = p => row.registration = c[i].registration

\* Registration is cumulative: whatever is configured, and however a start
\* ends, no client leaves a database file, also one no configuration names any
\* more.
RegistrationsSurvive ==
    [][\A s \in Paths, c \in ClientIDs :
         clients[s][c] # None => clients'[s][c] # None]_vars

\* The memory store forgets: it holds a client only if its own process has
\* registered it from the configuration of this start. What an earlier start or
\* a process on a file registered is not there, and no file's server uses it.
MemoryHoldsItsOwn ==
    \A p \in Procs, c \in ClientIDs :
        clients[p][c] # None =>
            /\ clients[p][c].by = p
            /\ cfg[p].backend = "memory"
            /\ \E i \in 1..(next[p] - 1) : cfg[p].clients[i].id = c

\* A start ends: main serves or is gone.
StartEnds ==
    \A p \in Procs : pc[p] = "opening" ~> pc[p] \in {"serving", "down"}
=============================================================================
