---------------------------- MODULE MCHTTPServer ----------------------------
(***************************************************************************)
(* Small instances of HTTPServer: handlers send three different statuses.  *)
(***************************************************************************)
EXTENDS HTTPServer

CONSTANTS r1, r2, NotFound

OneRequest  == {r1}
TwoRequests == {r1, r2}
MCStatuses  == {StatusOK, NotFound, StatusInternalServerError}
=============================================================================
