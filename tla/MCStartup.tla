----------------------------- MODULE MCStartup -----------------------------
(***************************************************************************)
(* A small instance of Startup: configurations that share a file, name the *)
(* same client differently or twice, ask for a backend that cannot be      *)
(* built, or are invalid.                                                  *)
(***************************************************************************)
EXTENDS Startup, TLC

CONSTANTS p1, p2, c1, c2, u1, u2, a1, a2, d1

C(i, u) == [id |-> i, registration |-> u]

OnFile(cs) == [backend |-> "sqlite", enabled |-> TRUE, clients |-> cs]

MCFiles ==
    { [f \in {} |-> None],
      OnFile(<<C(c1, u1), C(c2, u1)>>),
      OnFile(<<C(c1, u2), C(c1, u1)>>),
      [enabled |-> TRUE, path |-> Empty, address |-> a2, clients |-> <<C(c1, u2)>>],
      [scopes |-> {}] }

MCEnvs ==
    { [f \in {} |-> None],
      [backend |-> "sqlite", address |-> Empty],
      [backend |-> "postgres"],
      [address |-> a2, path |-> Empty],
      [path |-> d1, issuer |-> a2] }
=============================================================================
