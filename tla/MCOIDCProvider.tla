--------------------------- MODULE MCOIDCProvider ---------------------------
(***************************************************************************)
(* Small instances of OIDCProvider. The RPs are a confidential client c1   *)
(* and a public client c2; every run chooses who sends what.               *)
(***************************************************************************)
EXTENDS OIDCProvider, TLC

CONSTANTS c1, c2, u1, u2, x1, x2, v1, v2

Request(c, u, v) ==
    [ client |-> c, uri |-> u, isCode |-> TRUE, hasOpenid |-> TRUE,
      state |-> v, nonce |-> IF v = v1 THEN v2 ELSE v1, hint |-> v ]

\* One good request of each client.
GoodRequests == {Request(c1, u1, v1), Request(c2, u2, v2)}

\* The same, and one without a handle.
FlowRequests == GoodRequests \cup {[Request(c1, u1, v1) EXCEPT !.hint = Absent]}

\* One of the client that has a secret.
SecretRequests == {Request(c1, u1, v1)}

\* Every way /authorize can turn a request away before it starts a flow, the
\* ones with several faults at once included.
FaultyRequests ==
    { Request(c1, u2, v1), Request(c1, Absent, v1), Request(Absent, u1, v1),
      [Request(c1, u1, v1) EXCEPT !.isCode = FALSE],
      [Request(c1, u2, v1) EXCEPT !.isCode = FALSE],
      [Request(c2, u2, v2) EXCEPT !.hasOpenid = FALSE],
      [Request(c2, u1, v2) EXCEPT !.hasOpenid = FALSE],
      [Request(c2, u2, v2) EXCEPT !.hint = Absent] }

AllRequests == GoodRequests \cup FaultyRequests

Form(c, u, x) ==
    [isAuthCodeGrant |-> TRUE, client |-> c, uri |-> u, secret |-> x]

\* What the two clients send to redeem a code of theirs.
GoodForms == {Form(c1, u1, x1), Form(c2, Absent, Absent)}

\* The same with a wrong or missing client, secret, redirect URI, grant type.
AllForms ==
    GoodForms \cup
    { Form(c1, u2, x1), Form(c1, u1, x2), Form(Absent, u1, x1),
      [Form(c1, u1, x1) EXCEPT !.isAuthCodeGrant = FALSE] }

Reg(u, x) == [redirectURIs |-> {u}, secret |-> x]

\* Both clients configured; and after a change of the configuration c1 only,
\* with another redirect URI and another secret.
BothClients == [c \in Clients |-> IF c = c1 THEN Reg(u1, x1) ELSE Reg(u2, Absent)]
MovedClient == [c \in Clients |-> IF c = c1 THEN Reg(u2, x2) ELSE None]

OneConfig  == {BothClients}
TwoConfigs == {BothClients, MovedClient}

\* Both clients, and c1 with either secret.
SecretConfigs == {BothClients, [BothClients EXCEPT ![c1] = Reg(u1, x2)]}

Symmetry ==
    Permutations(AuthWorkers) \cup Permutations(CallbackWorkers)
    \cup Permutations(TokenWorkers) \cup Permutations(FlowStates)
    \cup Permutations(Codes) \cup Permutations(DIDs)
=============================================================================
