--------------------------- MODULE StartupProofs ---------------------------
(***************************************************************************)
(* What a start guarantees, for any number of processes, files and         *)
(* configurations.                                                         *)
(***************************************************************************)
EXTENDS Startup, TLAPS

USE DEF Goto, Created, Upserted, Fatal

LEMMA DefaultTypes ==
    /\ DOMAIN Default = Fields /\ Default.path \in Paths
    /\ Default.clients \in Seq(Client) /\ Len(Default.clients) = 0
BY InputAssumption DEF Default, Fields

\* What Load makes of a file and an environment has the types of Config.
LEMMA MergedTypes ==
    ASSUME NEW file \in Files, NEW env \in Envs
    PROVE  /\ DOMAIN Merged(file, env) = Fields
           /\ Merged(file, env).path \in Paths
           /\ Merged(file, env).clients \in Seq(Client)
<1>1. "path" \in Fields /\ "clients" \in Fields /\ "clients" \notin DOMAIN env
  BY InputAssumption, DefaultTypes DEF Fields, EnvFields
<1>2. DOMAIN Merged(file, env) = Fields
  BY DEF Merged
<1>3. Merged(file, env).path \in Paths
  BY <1>1, InputAssumption, DefaultTypes DEF Merged, Overrides
<1>4. Merged(file, env).clients =
        IF "clients" \in DOMAIN file THEN file.clients ELSE Default.clients
  BY <1>1 DEF Merged, Overrides
<1>5. Merged(file, env).clients \in Seq(Client)
  BY <1>4, InputAssumption, DefaultTypes
<1>6. QED
  BY <1>2, <1>3, <1>5

LEMMA ConfiguredClient ==
    ASSUME TypeOK, NEW p \in Procs, NEW i \in 1..Len(cfg[p].clients)
    PROVE  cfg[p].clients[i] \in Client /\ cfg[p].clients[i].id \in ClientIDs
<1>1. cfg[p].clients \in Seq(Client)
  BY DEF TypeOK
<1>2. cfg[p].clients[i] \in Client
  BY <1>1
<1>3. QED
  BY <1>2 DEF Client

\* The one write of a start: the next configured client, by p.
LEMMA RegisterWrites ==
    ASSUME TypeOK, NEW p \in Procs, Register(p)
    PROVE  LET c == cfg[p].clients[next[p]]
               row == [registration |-> c.registration, by |-> p]
           IN  /\ c \in Client /\ row \in Row /\ row # None
               /\ StoreOf(p) \in Paths \cup {p}
               /\ clients' = [clients EXCEPT ![StoreOf(p)][c.id] = row]
<1> DEFINE c == cfg[p].clients[next[p]]
<1>1. next[p] \in 1..Len(cfg[p].clients)
  BY DEF Register, TypeOK
<1>2. c \in Client
  BY <1>1 DEF TypeOK
<1>3. [registration |-> c.registration, by |-> p] \in Row
  BY <1>2 DEF Client, Row
<1>4. StoreOf(p) \in Paths \cup {p}
  BY DEF StoreOf, TypeOK
<1>5. QED
  BY <1>2, <1>3, <1>4, NoneAssumption DEF Register

LEMMA TypeStep ==
    ASSUME TypeOK, [Next]_vars
    PROVE  TypeOK'
<1> USE DEF TypeOK
<1>1. CASE UNCHANGED vars
  BY <1>1 DEF vars, Buildable
<1>2. ASSUME NEW p \in Procs, NEW file \in Files, NEW env \in Envs, Load(p, file, env)
      PROVE  TypeOK'
  <2>1. cfg' = [cfg EXCEPT ![p] = Merged(file, env)]
    BY <1>2 DEF Load
  <2>2. \A q \in Procs :
          /\ DOMAIN cfg'[q] = Fields /\ cfg'[q].path \in Paths
          /\ cfg'[q].clients \in Seq(Client)
    BY <2>1, MergedTypes
  <2>3. next'[p] = 1 /\ pc'[p] = "opening"
    BY <1>2 DEF Load
  <2>4. QED
    BY <1>2, <2>1, <2>2, <2>3 DEF Load, Buildable
<1>3. ASSUME NEW p \in Procs, Gone(p)
      PROVE  TypeOK'
  <2>1. NoRows \in Rows
    BY DEF NoRows, Rows
  <2>2. QED
    BY <1>3, <2>1, InputAssumption, DefaultTypes DEF Gone, Buildable
<1>4. ASSUME NEW p \in Procs, OpenStore(p)
      PROVE  TypeOK'
  BY <1>4 DEF OpenStore, Buildable
<1>5. ASSUME NEW p \in Procs, Register(p)
      PROVE  TypeOK'
  <2>1. PICK c \in Client :
          clients' = [clients EXCEPT ![StoreOf(p)][c.id] =
                        [registration |-> c.registration, by |-> p]]
    BY <1>5, RegisterWrites
  <2>2. [registration |-> c.registration, by |-> p] \in Row /\ c.id \in ClientIDs
    BY DEF Client, Row
  <2>3. clients' \in [Paths \cup Procs -> Rows]
    BY <2>1, <2>2 DEF Rows
  <2>4. QED
    BY <1>5, <2>3 DEF Register, Buildable
<1>6. ASSUME NEW p \in Procs, Registered(p) \/ KeysReady(p) \/ Listen(p)
      PROVE  TypeOK'
  BY <1>6 DEF Registered, KeysReady, Listen, Buildable
<1>7. QED
  BY <1>1, <1>2, <1>3, <1>4, <1>5, <1>6 DEF Next, Starting, Fail, Stop

\* No process gets past newStore with a backend that cannot be built.
THEOREM StartupTypeCorrect == Spec => []TypeOK
<1>1. Init => TypeOK
  BY InputAssumption, DefaultTypes DEF Init, TypeOK, NoRows, Rows
<1>2. QED
  BY <1>1, TypeStep, PTL DEF Spec

-----------------------------------------------------------------------------
\* Nobody removes a row of a file; a row of memory goes with its process.
LEMMA RowsStay ==
    ASSUME TypeOK, [Next]_vars, NEW s \in Paths, NEW c \in ClientIDs,
           clients[s][c] # None
    PROVE  clients'[s][c] # None
<1> USE DEF TypeOK
<1>1. ASSUME NEW p \in Procs, Gone(p)
      PROVE  clients'[s][c] # None
  BY <1>1, StoreAssumption DEF Gone
<1>2. ASSUME NEW p \in Procs, Register(p)
      PROVE  clients'[s][c] # None
  <2> DEFINE x == cfg[p].clients[next[p]]
  <2> DEFINE row == [registration |-> x.registration, by |-> p]
  <2>1. row # None /\ clients' = [clients EXCEPT ![StoreOf(p)][x.id] = row]
    BY <1>2, RegisterWrites
  <2>2. QED
    BY <2>1 DEF Rows
<1>3. ASSUME NEW p \in Procs, NEW file \in Files, NEW env \in Envs, Load(p, file, env)
      PROVE  clients'[s][c] # None
  BY <1>3 DEF Load
<1>4. ASSUME NEW p \in Procs,
             OpenStore(p) \/ Registered(p) \/ KeysReady(p) \/ Listen(p)
      PROVE  clients'[s][c] # None
  BY <1>4 DEF OpenStore, Registered, KeysReady, Listen
<1>5. QED
  BY <1>1, <1>2, <1>3, <1>4 DEF Next, Starting, Fail, Stop, vars

\* Whatever processes start, fail and crash, a client stays registered in a file.
THEOREM CumulativeRegistration == Spec => RegistrationsSurvive
<1>1. TypeOK /\ [Next]_vars =>
        [\A s \in Paths, c \in ClientIDs :
           clients[s][c] # None => clients'[s][c] # None]_vars
  BY RowsStay
<1>2. QED
  BY <1>1, StartupTypeCorrect, PTL DEF Spec, RegistrationsSurvive

-----------------------------------------------------------------------------
\* A step that leaves p's configuration, its place in it, and its rows, or gives
\* one of them to another process.
LEMMA OthersRegister ==
    ASSUME TypeOK, ServedAsConfigured, NEW p \in Procs, NEW q \in Procs,
           p # q, Register(q)
    PROVE  \A i \in 1..(next'[p] - 1) :
             LET c == cfg'[p].clients
                 row == clients'[StoreOf(p)'][c[i].id]
             IN  /\ row # None
                 /\ LastOf(c, i, next'[p] - 1) /\ row.by = p =>
                      row.registration = c[i].registration
<1> DEFINE c == cfg[p].clients
<1> DEFINE n == next[p] - 1
<1> DEFINE x == cfg[q].clients[next[q]]
<1>1. cfg' = cfg /\ next'[p] = next[p] /\ StoreOf(p)' = StoreOf(p)
  BY DEF Register, StoreOf, TypeOK
<1>2. /\ x \in Client /\ [registration |-> x.registration, by |-> q] # None
      /\ clients' = [clients EXCEPT ![StoreOf(q)][x.id] =
                       [registration |-> x.registration, by |-> q]]
  BY RegisterWrites
<1>3. StoreOf(p) \in Paths \cup Procs
  BY DEF StoreOf, TypeOK
<1>4. SUFFICES ASSUME NEW i \in 1..n
      PROVE  /\ clients'[StoreOf(p)][c[i].id] # None
             /\ LastOf(c, i, n) /\ clients'[StoreOf(p)][c[i].id].by = p =>
                  clients'[StoreOf(p)][c[i].id].registration = c[i].registration
  BY <1>1
<1>5. /\ clients[StoreOf(p)][c[i].id] # None
      /\ LastOf(c, i, n) /\ clients[StoreOf(p)][c[i].id].by = p =>
           clients[StoreOf(p)][c[i].id].registration = c[i].registration
  BY DEF ServedAsConfigured
<1>6. i \in 1..Len(c)
  BY DEF TypeOK
<1>7. c[i].id \in ClientIDs
  BY <1>6, ConfiguredClient
<1>8. CASE StoreOf(q) = StoreOf(p) /\ x.id = c[i].id
  <2>1. clients'[StoreOf(p)][c[i].id] = [registration |-> x.registration, by |-> q]
    BY <1>2, <1>3, <1>7, <1>8 DEF TypeOK, Rows
  <2>2. QED
    BY <1>2, <2>1
<1>9. CASE ~(StoreOf(q) = StoreOf(p) /\ x.id = c[i].id)
  <2>1. clients'[StoreOf(p)][c[i].id] = clients[StoreOf(p)][c[i].id]
    BY <1>2, <1>3, <1>7, <1>9 DEF TypeOK, Rows
  <2>2. QED
    BY <1>5, <2>1
<1>10. QED
  BY <1>8, <1>9

\* p's own next client: the entry is stored, and no earlier entry with the same
\* identifier is the last one any more.
LEMMA OwnRegister ==
    ASSUME TypeOK, ServedAsConfigured, NEW p \in Procs, Register(p)
    PROVE  \A i \in 1..(next'[p] - 1) :
             LET c == cfg'[p].clients
                 row == clients'[StoreOf(p)'][c[i].id]
             IN  /\ row # None
                 /\ LastOf(c, i, next'[p] - 1) /\ row.by = p =>
                      row.registration = c[i].registration
<1> DEFINE c == cfg[p].clients
<1> DEFINE n == next[p]
<1>1. cfg' = cfg /\ next'[p] = n + 1 /\ StoreOf(p)' = StoreOf(p)
  BY DEF Register, StoreOf, TypeOK
<1>2. /\ c[n] \in Client /\ [registration |-> c[n].registration, by |-> p] # None
      /\ clients' = [clients EXCEPT ![StoreOf(p)][c[n].id] =
                       [registration |-> c[n].registration, by |-> p]]
  BY RegisterWrites
<1>3. StoreOf(p) \in Paths \cup Procs /\ n \in Nat \ {0}
  BY DEF StoreOf, TypeOK
<1>4. SUFFICES ASSUME NEW i \in 1..n
      PROVE  /\ clients'[StoreOf(p)][c[i].id] # None
             /\ LastOf(c, i, n) /\ clients'[StoreOf(p)][c[i].id].by = p =>
                  clients'[StoreOf(p)][c[i].id].registration = c[i].registration
  BY <1>1, <1>3
<1>5. i \in 1..Len(c)
  BY DEF TypeOK, Register
<1>6. c[i].id \in ClientIDs
  BY <1>5, ConfiguredClient
<1>7. CASE c[i].id = c[n].id
  <2>1. clients'[StoreOf(p)][c[i].id] = [registration |-> c[n].registration, by |-> p]
    BY <1>2, <1>3, <1>6, <1>7 DEF TypeOK, Rows
  <2>2. LastOf(c, i, n) => i = n
    BY <1>3, <1>7 DEF LastOf
  <2>3. QED
    BY <1>2, <2>1, <2>2
<1>8. CASE c[i].id # c[n].id
  <2>1. clients'[StoreOf(p)][c[i].id] = clients[StoreOf(p)][c[i].id]
    BY <1>2, <1>3, <1>6, <1>8 DEF TypeOK, Rows
  <2>2. i \in 1..(n - 1) /\ LastOf(c, i, n) => LastOf(c, i, n - 1)
    BY <1>3, <1>8 DEF LastOf
  <2>3. QED
    BY <1>3, <1>8, <2>1, <2>2 DEF ServedAsConfigured
<1>9. QED
  BY <1>7, <1>8

LEMMA ServedStep ==
    ASSUME TypeOK, ServedAsConfigured, [Next]_vars
    PROVE  ServedAsConfigured'
<1> DEFINE All(p) ==
      \A i \in 1..(next'[p] - 1) :
          LET c == cfg'[p].clients
              row == clients'[StoreOf(p)'][c[i].id]
          IN  /\ row # None
              /\ LastOf(c, i, next'[p] - 1) /\ row.by = p =>
                   row.registration = c[i].registration
<1> SUFFICES ASSUME NEW p \in Procs
    PROVE  /\ pc'[p] \in {"keys", "listening", "serving"} /\ cfg'[p].enabled =>
                next'[p] - 1 = Len(cfg'[p].clients)
           /\ All(p)
  BY DEF ServedAsConfigured, LastOf
<1>1. pc'[p] \in {"keys", "listening", "serving"} /\ cfg'[p].enabled =>
        next'[p] - 1 = Len(cfg'[p].clients)
  <2>1. pc[p] \in {"keys", "listening", "serving"} /\ cfg[p].enabled =>
          next[p] - 1 = Len(cfg[p].clients)
    BY DEF ServedAsConfigured
  <2>2. next[p] <= Len(cfg[p].clients) + 1 /\ next[p] \in Nat
        /\ Len(cfg[p].clients) \in Nat
    BY DEF TypeOK
  <2>3. CASE UNCHANGED <<pc, cfg, next>>
    BY <2>1, <2>3
  <2>4. ASSUME NEW q \in Procs, Gone(q)
        PROVE  \/ pc'[p] = "down"
               \/ pc'[p] = pc[p] /\ cfg'[p] = cfg[p] /\ next'[p] = next[p]
    BY <2>4 DEF Gone, TypeOK
  <2>5. ASSUME NEW q \in Procs, NEW file \in Files, NEW env \in Envs, Load(q, file, env)
        PROVE  \/ pc'[p] = "opening"
               \/ pc'[p] = pc[p] /\ cfg'[p] = cfg[p] /\ next'[p] = next[p]
    BY <2>5 DEF Load, TypeOK
  <2>6. ASSUME NEW q \in Procs, OpenStore(q)
        PROVE  \/ pc'[p] = "registering" \/ ~cfg'[p].enabled
               \/ pc'[p] = pc[p] /\ cfg'[p] = cfg[p] /\ next'[p] = next[p]
    BY <2>6 DEF OpenStore, TypeOK
  <2>7. ASSUME NEW q \in Procs, Register(q)
        PROVE  \/ pc'[p] = "registering"
               \/ pc'[p] = pc[p] /\ cfg'[p] = cfg[p] /\ next'[p] = next[p]
    BY <2>7 DEF Register, TypeOK
  <2>8. ASSUME NEW q \in Procs, Registered(q)
        PROVE  \/ cfg'[p] = cfg[p] /\ next'[p] = next[p] /\ next[p] > Len(cfg[p].clients)
               \/ pc'[p] = pc[p] /\ cfg'[p] = cfg[p] /\ next'[p] = next[p]
    BY <2>8 DEF Registered, TypeOK
  <2>9. ASSUME NEW q \in Procs, KeysReady(q) \/ Listen(q)
        PROVE  /\ pc'[p] \in {"keys", "listening", "serving"} =>
                    pc[p] \in {"keys", "listening", "serving"}
               /\ cfg'[p] = cfg[p] /\ next'[p] = next[p]
    BY <2>9 DEF KeysReady, Listen, TypeOK
  <2>10. QED
    BY <2>1, <2>2, <2>3, <2>4, <2>5, <2>6, <2>7, <2>8, <2>9
       DEF Next, Starting, Fail, Stop, vars
<1>2. ASSUME /\ next'[p] = next[p] /\ cfg'[p] = cfg[p]
             /\ clients'[StoreOf(p)] = clients[StoreOf(p)]
      PROVE  All(p)
  <2>1. StoreOf(p)' = StoreOf(p)
    BY <1>2 DEF StoreOf
  <2>2. QED
    BY <1>2, <2>1 DEF ServedAsConfigured
<1>3. ASSUME next'[p] = 1
      PROVE  All(p)
  BY <1>3
<1>4. ASSUME NEW q \in Procs, Gone(q)
      PROVE  All(p)
  <2>1. CASE q = p
    BY <1>3, <1>4, <2>1 DEF Gone, TypeOK
  <2>2. CASE q # p
    <3>1. StoreOf(p) # q /\ StoreOf(p) \in Paths \cup Procs
      BY <2>2, StoreAssumption DEF StoreOf, TypeOK
    <3>2. QED
      BY <1>2, <1>4, <2>2, <3>1 DEF Gone, TypeOK
  <2>3. QED
    BY <2>1, <2>2
<1>5. ASSUME NEW q \in Procs, NEW file \in Files, NEW env \in Envs, Load(q, file, env)
      PROVE  All(p)
  BY <1>2, <1>3, <1>5 DEF Load, TypeOK
<1>6. ASSUME NEW q \in Procs,
             OpenStore(q) \/ Registered(q) \/ KeysReady(q) \/ Listen(q)
      PROVE  All(p)
  <2>1. next' = next /\ cfg' = cfg /\ clients' = clients
    BY <1>6 DEF OpenStore, Registered, KeysReady, Listen, TypeOK
  <2>2. QED
    BY <1>2, <2>1
<1>7. ASSUME NEW q \in Procs, Register(q)
      PROVE  All(p)
  BY <1>7, OwnRegister, OthersRegister
<1>8. All(p)
  <2>1. CASE UNCHANGED vars
    BY <1>2, <2>1 DEF vars
  <2>2. QED
    BY <1>4, <1>5, <1>6, <1>7, <2>1 DEF Next, Starting, Fail, Stop
<1>9. QED
  BY <1>1, <1>8

\* For any configurations and any interleaving of starts: a server's clients are
\* there, as its own configuration's last entry says where it wrote last.
THEOREM ConfiguredClientsServed == Spec => []ServedAsConfigured
<1>1. Init => ServedAsConfigured
  <2>1. SUFFICES ASSUME Init, NEW p \in Procs
        PROVE  pc[p] = "down" /\ 1..(next[p] - 1) = {}
    BY DEF ServedAsConfigured
  <2>2. QED
    BY <2>1 DEF Init
<1>2. TypeOK /\ ServedAsConfigured /\ [Next]_vars => ServedAsConfigured'
  BY ServedStep
<1>3. QED
  BY <1>1, <1>2, StartupTypeCorrect, PTL DEF Spec

-----------------------------------------------------------------------------
\* A process writes to its own memory or to a file, and starts with no rows.
LEMMA MemoryStep ==
    ASSUME TypeOK, MemoryHoldsItsOwn, [Next]_vars
    PROVE  MemoryHoldsItsOwn'
<1> SUFFICES ASSUME NEW p \in Procs, NEW c \in ClientIDs, clients'[p][c] # None
    PROVE  /\ clients'[p][c].by = p
           /\ cfg'[p].backend = "memory"
           /\ \E i \in 1..(next'[p] - 1) : cfg'[p].clients[i].id = c
  BY DEF MemoryHoldsItsOwn
<1> DEFINE Holds ==
      /\ clients'[p][c].by = p
      /\ cfg'[p].backend = "memory"
      /\ \E i \in 1..(next'[p] - 1) : cfg'[p].clients[i].id = c
<1>1. CASE UNCHANGED <<clients[p][c], cfg[p], next[p]>>
  BY <1>1 DEF MemoryHoldsItsOwn
<1>2. ASSUME NEW q \in Procs, Gone(q)
      PROVE  Holds
  <2>1. q # p
    BY <1>2 DEF Gone, TypeOK, NoRows
  <2>2. QED
    BY <1>1, <1>2, <2>1 DEF Gone, TypeOK
<1>3. ASSUME NEW q \in Procs, NEW file \in Files, NEW env \in Envs, Load(q, file, env)
      PROVE  Holds
  <2>1. CASE q = p
    <3>1. next[p] = 1 /\ clients' = clients
      BY <1>3, <2>1 DEF Load, TypeOK
    <3>2. \E i \in 1..(next[p] - 1) : cfg[p].clients[i].id = c
      BY <3>1 DEF MemoryHoldsItsOwn
    <3>3. QED
      BY <3>1, <3>2
  <2>2. CASE q # p
    BY <1>1, <1>3, <2>2 DEF Load, TypeOK
  <2>3. QED
    BY <2>1, <2>2
<1>4. ASSUME NEW q \in Procs,
             OpenStore(q) \/ Registered(q) \/ KeysReady(q) \/ Listen(q)
      PROVE  Holds
  <2>1. next' = next /\ cfg' = cfg /\ clients' = clients
    BY <1>4 DEF OpenStore, Registered, KeysReady, Listen, TypeOK
  <2>2. QED
    BY <1>1, <2>1
<1>5. ASSUME NEW q \in Procs, Register(q)
      PROVE  Holds
  <2> DEFINE x == cfg[q].clients[next[q]]
  <2> DEFINE row == [registration |-> x.registration, by |-> q]
  <2>1. /\ clients' = [clients EXCEPT ![StoreOf(q)][x.id] = row]
        /\ StoreOf(q) \in Paths \cup {q}
    BY <1>5, RegisterWrites
  <2>2. /\ cfg' = cfg /\ next' = [next EXCEPT ![q] = @ + 1]
        /\ pc[q] = "registering" /\ next[q] \in Nat \ {0}
    BY <1>5 DEF Register, TypeOK
  <2>3. CASE StoreOf(q) = p /\ x.id = c
    <3>1. q = p /\ cfg[p].backend = "memory"
      BY <2>1, <2>2, <2>3, StoreAssumption DEF StoreOf, TypeOK
    <3>2. clients'[p][c] = row
      BY <2>1, <2>3 DEF TypeOK, Rows
    <3>3. next'[p] = next[p] + 1 /\ next[p] \in 1..(next'[p] - 1)
      BY <2>2, <3>1 DEF TypeOK
    <3>4. cfg'[p].clients[next[p]].id = c
      BY <2>2, <2>3, <3>1
    <3>5. QED
      BY <2>2, <3>1, <3>2, <3>3, <3>4
  <2>4. CASE ~(StoreOf(q) = p /\ x.id = c)
    <3>1. clients'[p][c] = clients[p][c]
      BY <2>1, <2>4 DEF TypeOK, Rows
    <3>2. PICK i \in 1..(next[p] - 1) : cfg[p].clients[i].id = c
      BY <3>1 DEF MemoryHoldsItsOwn
    <3>3. i \in 1..(next'[p] - 1)
      BY <2>2, <3>2 DEF TypeOK
    <3>4. QED
      BY <2>2, <3>1, <3>2, <3>3 DEF MemoryHoldsItsOwn
  <2>5. QED
    BY <2>3, <2>4
<1>6. CASE UNCHANGED vars
  BY <1>1, <1>6 DEF vars
<1>7. QED
  BY <1>2, <1>3, <1>4, <1>5, <1>6 DEF Next, Starting, Fail, Stop

\* For any interleaving of starts and crashes, a memory store holds what its
\* own process registered since it started, and nothing else.
THEOREM MemoryForgets == Spec => []MemoryHoldsItsOwn
<1>1. Init => MemoryHoldsItsOwn
  BY DEF Init, MemoryHoldsItsOwn, NoRows
<1>2. TypeOK /\ MemoryHoldsItsOwn /\ [Next]_vars => MemoryHoldsItsOwn'
  BY MemoryStep
<1>3. QED
  BY <1>1, <1>2, StartupTypeCorrect, PTL DEF Spec
=============================================================================
