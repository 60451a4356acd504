----------------------------- MODULE KeyManager -----------------------------
(***************************************************************************)
(* The signing key of the OIDC provider: internal/keys loads it from the   *)
(* store at startup or generates and saves a new one; internal/oidc signs  *)
(* ID tokens with it and publishes it at /jwks. There is one key ID        *)
(* (defaultKeyID), so the store has one row for it, and a key that         *)
(* replaces another one keeps its name. RPs cache the JWKS (max-age 3600). *)
(*                                                                         *)
(* Server processes that open the same SQLite file share the row: a        *)
(* restarted server, or the two instances of a rolling deployment. GetKey  *)
(* and SaveKey are separate statements, with the key generation between.   *)
(***************************************************************************)
EXTENDS Naturals, FiniteSets

CONSTANTS
    Processes,    \* server processes over the same store
    Keys,         \* EC key pairs GenerateKey can draw
    InitialRows,  \* what the store may hold before the first start
    ReadFaults,   \* TRUE: GetKey may fail although the row is there
    Corrupt,      \* a row parsePrivateKey refuses
    None          \* no row, no key

ASSUME KeyAssumption ==
    /\ Corrupt \notin Keys /\ None \notin Keys /\ Corrupt # None
    /\ InitialRows \subseteq Keys \cup {Corrupt, None}
    /\ ReadFaults \in BOOLEAN

VARIABLES
    row,        \* store: the key data saved under defaultKeyID
    pc,         \* where each process is in its startup
    key,        \* Manager.signingKey of each process, or the key being saved
    \* What happened so far, kept for the properties only:
    drawn,      \* keys that were in the store or were generated
    saved,      \* keys that were in the store at some time
    signed,     \* keys that signed an ID token
    published,  \* keys that were served at /jwks, hence cached by RPs
    raced       \* a process started on an empty store while another was up

vars == <<row, pc, key, drawn, saved, signed, published, raced>>

\* Every variable holds values of the Go type it models, and a key is set
\* where it is used.
TypeOK ==
    /\ row \in Keys \cup {Corrupt, None}
    /\ pc \in [Processes -> {"down", "load", "save", "running"}]
    /\ key \in [Processes -> Keys \cup {None}]
    /\ drawn \subseteq Keys /\ saved \subseteq Keys
    /\ signed \subseteq Keys /\ published \subseteq Keys
    /\ raced \in BOOLEAN
    /\ \A p \in Processes : pc[p] \in {"save", "running"} => key[p] \in Keys

Init ==
    /\ row \in InitialRows
    /\ pc = [p \in Processes |-> "down"]
    /\ key = [p \in Processes |-> None]
    /\ drawn = Keys \cap {row} /\ saved = Keys \cap {row}
    /\ signed = {} /\ published = {}
    /\ raced = FALSE

\* main reaches NewManager. Nothing in the code keeps two first starts apart.
Start(p) ==
    /\ pc[p] = "down"
    /\ pc' = [pc EXCEPT ![p] = "load"]
    /\ raced' = (\/ raced
                 \/ row = None /\ \E q \in Processes : pc[q] # "down")
    /\ UNCHANGED <<row, key, drawn, saved, signed, published>>

\* Mutant: a row that does not parse is treated like a missing one.
GetKeyFailsOnCorrupt == row \in {None, Corrupt} \/ ReadFaults

\* GetKey finds no row, or the statement fails.
GetKeyFails == row = None \/ ReadFaults

\* Mutant: parsePrivateKey hides its error.
ParsesAnything == row # None

Parses == row \in Keys

\* Mutant: a failed save is only logged.
LogFailure(k) == UNCHANGED <<row, saved>>

\* INSERT ... ON CONFLICT DO UPDATE: the row is replaced whatever it holds.
Upsert(k) ==
    /\ row' = k
    /\ saved' = saved \cup {k}

LoadKey(p) ==
    /\ pc[p] = "load" /\ Parses
    /\ key' = [key EXCEPT ![p] = row]
    /\ pc' = [pc EXCEPT ![p] = "running"]
    /\ UNCHANGED <<row, drawn, saved, signed, published, raced>>

\* A row that does not parse is an error of NewManager: main ends.
LoadCorrupt(p) ==
    /\ pc[p] = "load" /\ row # None /\ ~Parses
    /\ pc' = [pc EXCEPT ![p] = "down"]
    /\ UNCHANGED <<row, key, drawn, saved, signed, published, raced>>

\* Every error of GetKey is taken for "key not found".
Generate(p) ==
    /\ pc[p] = "load"
    /\ GetKeyFails
    /\ \E k \in Keys \ drawn :
        /\ key' = [key EXCEPT ![p] = k]
        /\ drawn' = drawn \cup {k}
    /\ pc' = [pc EXCEPT ![p] = "save"]
    /\ UNCHANGED <<row, saved, signed, published, raced>>

SaveKey(p) ==
    /\ pc[p] = "save"
    /\ Upsert(key[p])
    /\ pc' = [pc EXCEPT ![p] = "running"]
    /\ UNCHANGED <<key, drawn, signed, published, raced>>

\* An error of SaveKey, after or before the row was written, ends the process.
SaveKeyFails(p) ==
    /\ pc[p] = "save"
    /\ Upsert(key[p]) \/ UNCHANGED <<row, saved>>
    /\ pc' = [pc EXCEPT ![p] = "down"]
    /\ UNCHANGED <<key, drawn, signed, published, raced>>

SignIDToken(p) ==
    /\ pc[p] = "running"
    /\ signed' = signed \cup {key[p]}
    /\ UNCHANGED <<row, pc, key, drawn, saved, published, raced>>

ServeJWKS(p) ==
    /\ pc[p] = "running"
    /\ published' = published \cup {key[p]}
    /\ UNCHANGED <<row, pc, key, drawn, saved, signed, raced>>

\* Shutdown or crash, at any point of the startup too.
Stop(p) ==
    /\ pc[p] # "down"
    /\ pc' = [pc EXCEPT ![p] = "down"]
    /\ key' = [key EXCEPT ![p] = None]
    /\ UNCHANGED <<row, drawn, saved, signed, published, raced>>

Next ==
    \E p \in Processes :
        \/ Start(p) \/ LoadKey(p) \/ LoadCorrupt(p) \/ Generate(p)
        \/ SaveKey(p) \/ SaveKeyFails(p)
        \/ SignIDToken(p) \/ ServeJWKS(p) \/ Stop(p)

Spec == Init /\ [][Next]_vars

-----------------------------------------------------------------------------
\* Whatever JWKS an RP has cached, it verifies every ID token of any process,
\* before and after restarts: there is one key behind the one key ID. This needs
\* that the first start on an empty store is over before the next process starts.
JWKSVerifiesEveryToken ==
    ~raced => \A k \in signed, j \in published : k = j

\* A key that signed or was published had been saved: a restart can find it,
\* even one after a crash between generating a key and using it.
UsedKeysWereSaved == signed \cup published \subseteq saved

\* manager.go:38-39: NewManager "loads an existing signing key from the store,
\* or generates a new EC P-256 key pair if none exists". No startup replaces
\* what the store holds, not even a key that does not parse; two first starts
\* that race are another matter.
StoredKeyIsKept == [][row # None /\ ~raced => row' = row]_vars

\* Two processes that start on an empty store together each save a key of their
\* own, and the one saved first signs with a key the row no longer holds. The
\* damage ends with the last save: from then on the row stays, and only those
\* that run already may be stale, each until it stops.
Settled == row # None /\ \A p \in Processes : pc[p] # "save"

Stale == {p \in Processes : pc[p] = "running" /\ key[p] # row}

RaceHeals == [][Settled => Settled' /\ row' = row /\ Stale' \subseteq Stale]_vars

\* Inductive strengthening: without a race at most one process is up while the
\* store is empty, and afterwards every process runs with the stored key.
OneKey ==
    /\ \A p \in Processes :
        /\ pc[p] = "running" => row = key[p]
        /\ pc[p] = "save" => row = None
        /\ pc[p] \in {"load", "save"} /\ row = None =>
            \A q \in Processes \ {p} : pc[q] = "down"
    /\ signed \cup published \subseteq {row}

KeyInv == TypeOK /\ (raced \/ OneKey)
=============================================================================
