---------------------------- MODULE AuthCodeFlow ----------------------------
(***************************************************************************)
(* What internal/oidc promises its relying parties, whatever goroutines    *)
(* and maps it uses. A login is requested once, taken by one callback and  *)
(* answered with one code or refused. A code is presented once and         *)
(* redeemed for one ID token or refused. Every claim of the token belongs  *)
(* to the login its code was issued for. A restart closes what is open.    *)
(***************************************************************************)
EXTENDS Naturals

CONSTANTS Logins, Codes, Accounts, Requests, None

VARIABLES
    login,      \* login -> new, open, answering or closed
    request,    \* login -> what the relying party asked for
    confirmed,  \* <<login, account>> pairs that the PDS confirmed
    code,       \* code -> new, live, presented or closed
    grant,      \* code -> the login and the account it was issued for
    tokens,     \* what the ID tokens handed out claim
    signed      \* code -> how many ID tokens were handed out for it

vars == <<login, request, confirmed, code, grant, tokens, signed>>

Init ==
    /\ login = [l \in Logins |-> "new"]
    /\ request = [l \in Logins |-> None]
    /\ confirmed = {}
    /\ code = [k \in Codes |-> "new"]
    /\ grant = [k \in Codes |-> None]
    /\ tokens = {}
    /\ signed = [k \in Codes |-> 0]

MoveLogin(l, from, to) ==
    login[l] = from /\ login' = [login EXCEPT ![l] = to]

MoveCode(k, from, to) ==
    code[k] = from /\ code' = [code EXCEPT ![k] = to]

Request(l) ==
    /\ MoveLogin(l, "new", "open")
    /\ request'[l] \in Requests
    /\ request' = [request EXCEPT ![l] = request'[l]]
    /\ UNCHANGED <<confirmed, code, grant, tokens, signed>>

\* Browsers may come back more than once, and as different accounts.
Confirm(l, a) ==
    /\ login[l] # "new"
    /\ confirmed' = confirmed \cup {<<l, a>>}
    /\ UNCHANGED <<login, request, code, grant, tokens, signed>>

Take(l) ==
    /\ \E a \in Accounts : <<l, a>> \in confirmed
    /\ MoveLogin(l, "open", "answering")
    /\ UNCHANGED <<request, confirmed, code, grant, tokens, signed>>

IssueCode(l, k, a) ==
    /\ <<l, a>> \in confirmed
    /\ MoveLogin(l, "answering", "closed")
    /\ MoveCode(k, "new", "live")
    /\ grant' = [grant EXCEPT ![k] = [login |-> l, account |-> a]]
    /\ UNCHANGED <<request, confirmed, tokens, signed>>

RefuseLogin(l) ==
    /\ MoveLogin(l, "answering", "closed")
    /\ UNCHANGED <<request, confirmed, code, grant, tokens, signed>>

Present(k) ==
    /\ MoveCode(k, "live", "presented")
    /\ UNCHANGED <<login, request, confirmed, grant, tokens, signed>>

TokenFor(k) ==
    LET r == request[grant[k].login]
    IN  [ code |-> k, client |-> r.client, nonce |-> r.nonce,
          handle |-> r.hint, account |-> grant[k].account ]

Redeem(k) ==
    /\ MoveCode(k, "presented", "closed")
    /\ tokens' = tokens \cup {TokenFor(k)}
    /\ signed' = [signed EXCEPT ![k] = @ + 1]
    /\ UNCHANGED <<login, request, confirmed, grant>>

RefuseCode(k) ==
    /\ MoveCode(k, "presented", "closed")
    /\ UNCHANGED <<login, request, confirmed, grant, tokens, signed>>

Closed(status) == IF status = "new" THEN "new" ELSE "closed"

Restart ==
    /\ login' = [l \in Logins |-> Closed(login[l])]
    /\ code' = [k \in Codes |-> Closed(code[k])]
    /\ UNCHANGED <<request, confirmed, grant, tokens, signed>>

Next ==
    \/ \E l \in Logins :
        \/ Request(l) \/ Take(l) \/ RefuseLogin(l)
        \/ \E a \in Accounts : Confirm(l, a)
        \/ \E k \in Codes, a \in Accounts : IssueCode(l, k, a)
    \/ \E k \in Codes : Present(k) \/ Redeem(k) \/ RefuseCode(k)
    \/ Restart

Spec == Init /\ [][Next]_vars

-----------------------------------------------------------------------------
\* What a relying party can count on, of whoever keeps the promise.

\* However often the browser comes back and however often codes are presented,
\* one login buys one ID token (provider.go:239-244 and 331-336 together).
OneTokenPerLogin ==
    \A j, k \in Codes :
        /\ signed[k] <= 1
        /\ signed[j] > 0 /\ signed[k] > 0 /\ grant[j].login = grant[k].login
           => j = k

\* How far a login, or a code, has come.
Progress ==
    [ new |-> 1, open |-> 2, live |-> 2, answering |-> 3, presented |-> 3,
      closed |-> 4 ]

NothingLost ==
    /\ \A l \in Logins :
        /\ Progress[login[l]] <= Progress[login'[l]]
        /\ request[l] # None => request'[l] = request[l]
    /\ \A k \in Codes :
        /\ Progress[code[k]] <= Progress[code'[k]]
        /\ grant[k] # None => grant'[k] = grant[k]
        /\ signed[k] <= signed'[k]
    /\ tokens \subseteq tokens'

\* Nothing is taken back: no login is answered or asked for again, no code that
\* was presented is good again, also after a refusal or a restart, and what
\* was requested, granted or signed stays as it was.
NothingTakenBack == [][NothingLost]_vars

\* Inductive strengthening: a code was made in the one moment that closed its
\* login, a token is made of what login and code hold for good, and it is signed
\* in the one step that closes the code.
PromiseInv ==
    /\ login \in [Logins -> {"new", "open", "answering", "closed"}]
    /\ code \in [Codes -> {"new", "live", "presented", "closed"}]
    /\ DOMAIN request = Logins /\ DOMAIN grant = Codes
    /\ \A l \in Logins : login[l] = "new" => request[l] = None
    /\ \A k \in Codes :
        IF code[k] = "new" THEN grant[k] = None
        ELSE grant[k].login \in Logins /\ login[grant[k].login] = "closed"
    /\ \A j, k \in Codes :
        code[j] # "new" /\ code[k] # "new" /\ grant[j].login = grant[k].login
        => j = k
    /\ \A t \in tokens :
        t.code \in Codes /\ code[t.code] = "closed" /\ t = TokenFor(t.code)
    /\ signed \in [Codes -> 0..1]
    /\ \A k \in Codes : signed[k] > 0 => code[k] = "closed"
=============================================================================
