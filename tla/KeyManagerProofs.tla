-------------------------- MODULE KeyManagerProofs --------------------------
(***************************************************************************)
(* Theorems about KeyManager, for any set of processes and keys.           *)
(*                                                                         *)
(* Those about the stored key assume that GetKey fails only when there is  *)
(* no row, which the code does not enforce: each theorem states it. That   *)
(* no two processes made their first start on an empty store together is   *)
(* part of the properties (raced), but for RacesHeal, which needs it not.  *)
(***************************************************************************)
EXTENDS KeyManager, TLAPS

USE KeyAssumption DEF GetKeyFails, Upsert, Parses

\* Whatever row the store holds, no process has a key to disagree with it.
LEMMA InitKeyInv == Init => KeyInv
BY DEF Init, KeyInv, OneKey, TypeOK

\* The types are kept under any fault.
LEMMA TypeStep ==
    ASSUME TypeOK, [Next]_vars
    PROVE  TypeOK'
<1>1. CASE UNCHANGED vars
  BY <1>1 DEF vars, TypeOK
<1>2. ASSUME NEW p \in Processes,
             \/ Start(p) \/ LoadKey(p) \/ LoadCorrupt(p) \/ Generate(p)
             \/ SaveKey(p) \/ SaveKeyFails(p)
             \/ SignIDToken(p) \/ ServeJWKS(p) \/ Stop(p)
      PROVE  TypeOK'
  <2> USE DEF TypeOK
  <2>1. CASE Start(p) \/ LoadKey(p) \/ LoadCorrupt(p)
    BY <2>1 DEF Start, LoadKey, LoadCorrupt
  <2>2. CASE Generate(p)
    BY <2>2 DEF Generate
  <2>3. CASE SaveKey(p) \/ SaveKeyFails(p)
    BY <2>3 DEF SaveKey, SaveKeyFails
  <2>4. CASE SignIDToken(p) \/ ServeJWKS(p) \/ Stop(p)
    BY <2>4 DEF SignIDToken, ServeJWKS, Stop
  <2>5. QED
    BY <1>2, <2>1, <2>2, <2>3, <2>4
<1>3. QED
  BY <1>1, <1>2 DEF Next

\* Every variable keeps its type and every running process has a key, whatever
\* GetKey does and however processes start.
THEOREM KeyTypeCorrect == Spec => []TypeOK
<1>1. Init => TypeOK
  BY DEF Init, TypeOK
<1>2. QED
  BY <1>1, TypeStep, PTL DEF Spec

\* A crash between generating a key and saving it leaves no trace: only a key
\* that was in the store signs or is published, under any fault.
THEOREM OnlySavedKeysAreUsed == Spec => []UsedKeysWereSaved
<1> DEFINE Inv ==
      /\ TypeOK
      /\ UsedKeysWereSaved
      /\ row \in Keys => row \in saved
      /\ \A p \in Processes : pc[p] = "running" => key[p] \in saved
<1>1. Init => Inv
  BY DEF Init, TypeOK, UsedKeysWereSaved
<1>2. ASSUME Inv, [Next]_vars
      PROVE  Inv'
  <2>0. TypeOK /\ TypeOK'
    BY <1>2, TypeStep
  <2>1. CASE UNCHANGED vars
    BY <1>2, <2>0, <2>1 DEF vars, UsedKeysWereSaved
  <2>2. ASSUME NEW p \in Processes,
               \/ Start(p) \/ LoadKey(p) \/ LoadCorrupt(p) \/ Generate(p)
               \/ SaveKey(p) \/ SaveKeyFails(p)
               \/ SignIDToken(p) \/ ServeJWKS(p) \/ Stop(p)
        PROVE  Inv'
    <3>1. CASE Start(p) \/ LoadKey(p) \/ LoadCorrupt(p)
      BY <1>2, <2>0, <3>1
         DEF Start, LoadKey, LoadCorrupt, UsedKeysWereSaved, TypeOK
    <3>2. CASE Generate(p)
      BY <1>2, <2>0, <3>2 DEF Generate, UsedKeysWereSaved, TypeOK
    <3>3. CASE SaveKey(p) \/ SaveKeyFails(p)
      BY <1>2, <2>0, <3>3 DEF SaveKey, SaveKeyFails, UsedKeysWereSaved, TypeOK
    <3>4. CASE SignIDToken(p) \/ ServeJWKS(p) \/ Stop(p)
      BY <1>2, <2>0, <3>4
         DEF SignIDToken, ServeJWKS, Stop, UsedKeysWereSaved, TypeOK
    <3>5. QED
      BY <2>2, <3>1, <3>2, <3>3, <3>4
  <2>3. QED
    BY <1>2, <2>1, <2>2 DEF Next
<1>3. QED
  BY <1>1, <1>2, PTL DEF Spec

\* One step: a process that saves does so on an empty store, alone.
LEMMA KeyStep ==
    ASSUME ~ReadFaults, KeyInv, [Next]_vars
    PROVE  KeyInv' /\ (row # None /\ ~raced => row' = row)
<1>0. TypeOK /\ TypeOK'
  BY TypeStep DEF KeyInv
<1>1. CASE raced
  <2>1. raced'
    BY <1>1 DEF vars, Next, Start, LoadKey, LoadCorrupt, Generate, SaveKey,
         SaveKeyFails, SignIDToken, ServeJWKS, Stop
  <2>2. QED
    BY <1>0, <1>1, <2>1 DEF KeyInv
<1>2. CASE UNCHANGED vars
  BY <1>0, <1>2 DEF vars, KeyInv, OneKey
<1>3. ASSUME ~raced,
             NEW p \in Processes,
             \/ Start(p) \/ LoadKey(p) \/ LoadCorrupt(p) \/ Generate(p)
             \/ SaveKey(p) \/ SaveKeyFails(p)
             \/ SignIDToken(p) \/ ServeJWKS(p) \/ Stop(p)
      PROVE  KeyInv' /\ (row # None /\ ~raced => row' = row)
  <2>0. OneKey
    BY <1>3 DEF KeyInv
  <2>1. CASE Start(p)
    BY <1>0, <1>3, <2>0, <2>1 DEF Start, KeyInv, OneKey, TypeOK
  <2>2. CASE LoadKey(p)
    BY <1>0, <1>3, <2>0, <2>2 DEF LoadKey, KeyInv, OneKey, TypeOK
  <2>3. CASE LoadCorrupt(p)
    BY <1>0, <1>3, <2>0, <2>3 DEF LoadCorrupt, KeyInv, OneKey, TypeOK
  <2>4. CASE Generate(p)
    BY <1>0, <1>3, <2>0, <2>4 DEF Generate, KeyInv, OneKey, TypeOK
  <2>5. CASE SaveKey(p)
    <3>1. /\ row = None /\ key[p] \in Keys
          /\ \A q \in Processes \ {p} : pc[q] = "down"
      BY <1>0, <1>3, <2>0, <2>5 DEF SaveKey, KeyInv, OneKey, TypeOK
    <3>2. QED
      BY <1>0, <1>3, <2>0, <2>5, <3>1 DEF SaveKey, KeyInv, OneKey, TypeOK
  <2>6. CASE SaveKeyFails(p)
    <3>1. /\ row = None /\ key[p] \in Keys
          /\ \A q \in Processes \ {p} : pc[q] = "down"
      BY <1>0, <1>3, <2>0, <2>6 DEF SaveKeyFails, KeyInv, OneKey, TypeOK
    <3>2. QED
      BY <1>0, <1>3, <2>0, <2>6, <3>1 DEF SaveKeyFails, KeyInv, OneKey, TypeOK
  <2>7. CASE SignIDToken(p) \/ ServeJWKS(p)
    BY <1>0, <1>3, <2>0, <2>7 DEF SignIDToken, ServeJWKS, KeyInv, OneKey, TypeOK
  <2>8. CASE Stop(p)
    BY <1>0, <1>3, <2>0, <2>8 DEF Stop, KeyInv, OneKey, TypeOK
  <2>9. QED
    BY <1>3, <2>1, <2>2, <2>3, <2>4, <2>5, <2>6, <2>7, <2>8
<1>4. QED
  BY <1>1, <1>2, <1>3 DEF Next

\* Every process runs with the key in the store, and one process at a time
\* generates the first one.
THEOREM OneStoredKey ==
    ASSUME ~ReadFaults
    PROVE  Spec => []KeyInv
<1>1. KeyInv /\ [Next]_vars => KeyInv'
  BY KeyStep
<1>2. QED
  BY InitKeyInv, <1>1, PTL DEF Spec

\* No startup, crash or restart replaces the stored signing key.
THEOREM StoredKeyStays ==
    ASSUME ~ReadFaults
    PROVE  Spec => StoredKeyIsKept
<1>1. KeyInv /\ [Next]_vars => [row # None /\ ~raced => row' = row]_vars
  BY KeyStep
<1>2. QED
  BY OneStoredKey, <1>1, PTL DEF Spec, StoredKeyIsKept

\* A JWKS fetched from any process at any time verifies every ID token.
THEOREM CachedJWKSStaysGood ==
    ASSUME ~ReadFaults
    PROVE  Spec => []JWKSVerifiesEveryToken
<1>1. KeyInv => JWKSVerifiesEveryToken
  BY DEF KeyInv, OneKey, JWKSVerifiesEveryToken
<1>2. QED
  BY OneStoredKey, <1>1, PTL

\* One step after the last save: the row stays, nobody saves again, and a
\* process that comes up runs with the row.
LEMMA SettledStep ==
    ASSUME ~ReadFaults, TypeOK, Settled, [Next]_vars
    PROVE  Settled' /\ row' = row /\ Stale' \subseteq Stale
<1> USE DEF Settled, Stale, TypeOK
<1>1. CASE UNCHANGED vars
  BY <1>1 DEF vars
<1>2. ASSUME NEW p \in Processes,
             \/ Start(p) \/ LoadKey(p) \/ LoadCorrupt(p) \/ Generate(p)
             \/ SaveKey(p) \/ SaveKeyFails(p)
             \/ SignIDToken(p) \/ ServeJWKS(p) \/ Stop(p)
      PROVE  Settled' /\ row' = row /\ Stale' \subseteq Stale
  <2>1. ~Generate(p) /\ ~SaveKey(p) /\ ~SaveKeyFails(p)
    BY DEF Generate, SaveKey, SaveKeyFails
  <2>2. CASE Start(p) \/ LoadCorrupt(p)
    BY <2>2 DEF Start, LoadCorrupt
  <2>3. CASE LoadKey(p)
    BY <2>3 DEF LoadKey
  <2>4. CASE SignIDToken(p) \/ ServeJWKS(p)
    BY <2>4 DEF SignIDToken, ServeJWKS
  <2>5. CASE Stop(p)
    BY <2>5 DEF Stop
  <2>6. QED
    BY <1>2, <2>1, <2>2, <2>3, <2>4, <2>5
<1>3. QED
  BY <1>1, <1>2 DEF Next

\* However many processes raced for the first start, the race is over with the
\* last save: the key stays and a restart heals a process that lost it.
THEOREM RacesHeal ==
    ASSUME ~ReadFaults
    PROVE  Spec => RaceHeals
<1>1. TypeOK /\ [Next]_vars =>
        [Settled => Settled' /\ row' = row /\ Stale' \subseteq Stale]_vars
  BY SettledStep
<1>2. QED
  BY KeyTypeCorrect, <1>1, PTL DEF Spec, RaceHeals
=============================================================================
