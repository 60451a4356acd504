--------------------------- MODULE MCSQLiteStore ---------------------------
(***************************************************************************)
(* A small instance of SQLiteStore: one state token, two clients, and the  *)
(* calls that can disturb each other.                                      *)
(***************************************************************************)
EXTENDS SQLiteStore, TLC

CONSTANTS w1, w2, i1, i2, v1, v2

Token == <<"authRequests", i1>>
Client1 == <<"clients", i1>>
Client2 == <<"clients", i2>>

MCRows == {Token, Client1, Client2}

MCCalls ==
    [op : {"get"}, row : {Token, Client1}, value : {v1}]
    \cup [op : {"create"}, row : {Token}, value : {v1, v2}]
    \cup [op : {"save"}, row : {Client1}, value : {v1, v2}]
    \cup [op : {"save"}, row : {Client2}, value : {v1}]
    \cup [op : {"delete"}, row : {Token, Client1}, value : {v1}]
    \cup [op : {"list", "ping"}, row : {Client1}, value : {v1}]
=============================================================================
