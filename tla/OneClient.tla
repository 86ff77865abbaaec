------------------------------ MODULE OneClient ------------------------------
(***************************************************************************)
(* A browser as the server of classlite-api is to see it, however many     *)
(* tabs it has: one client with one refresh token, that asks for one       *)
(* rotation at a time, for none within five seconds of the last, and that  *)
(* forgets what it asked for only when a page goes.  SessionRefresh        *)
(* implements it where the browser has Web Locks.                          *)
(***************************************************************************)
EXTENDS Naturals

CONSTANT NoToken

VARIABLES
    rows,      \* the refresh tokens the server knows, <<family, generation>>
    families,  \* sign-ins so far
    cookie,    \* the client's token
    recent,    \* it got an answer less than five seconds ago
    asked,     \* the token of the refresh on its way, {} without one
    answers,   \* the token of an answer on its way, NoToken for a refusal
    orphans,   \* the tokens of refreshes that were forgotten
    lost,      \* some rotation was cut off from the client
    revoked    \* the server took a refresh for the replay of a stolen token

vars == <<rows, families, cookie, recent, asked, answers, orphans, lost, revoked>>

Init ==
    /\ cookie \in {NoToken, <<1, 1>>}
    /\ rows = {cookie} \ {NoToken}
    /\ families = IF cookie = NoToken THEN 0 ELSE 1
    /\ recent = FALSE
    /\ asked = {} /\ answers = {} /\ orphans = {}
    /\ lost = FALSE /\ revoked = FALSE

Family(tok) == {r \in rows : r[1] = tok[1]}

\* A known token is replaced; an unknown one takes its family with it, and is a
\* replay if there is any.
Refresh(tok) ==
    IF tok \in rows
      THEN rows' = (rows \ {tok}) \cup {<<tok[1], tok[2] + 1>>} /\ UNCHANGED revoked
    ELSE IF tok = NoToken \/ Family(tok) = {} THEN UNCHANGED <<rows, revoked>>
    ELSE rows' = rows \ Family(tok) /\ revoked' = TRUE

-----------------------------------------------------------------------------
Ask ==
    /\ asked = {} /\ answers = {} /\ ~recent
    /\ asked' = {cookie}
    /\ UNCHANGED <<rows, families, cookie, recent, answers, orphans, lost, revoked>>

\* What is answered may be less than what was done.
Serve(tok) ==
    /\ tok \in asked
    /\ asked' = {}
    /\ Refresh(tok)
    /\ \/ answers' = (IF tok \in rows THEN {<<tok[1], tok[2] + 1>>} ELSE {NoToken})
          /\ UNCHANGED lost
       \/ tok \in rows /\ answers' = {NoToken} /\ lost' = TRUE
    /\ UNCHANGED <<families, cookie, recent, orphans>>

NeverServed ==
    /\ asked # {}
    /\ asked' = {} /\ answers' = {NoToken}
    /\ UNCHANGED <<rows, families, cookie, recent, orphans, lost, revoked>>

Take(tok) ==
    /\ tok \in answers
    /\ answers' = {}
    /\ IF tok = NoToken THEN UNCHANGED <<cookie, recent>>
                        ELSE cookie' = tok /\ recent' = TRUE
    /\ UNCHANGED <<rows, families, asked, orphans, lost, revoked>>

\* A page goes: its request may still be served, its answer set the cookie.
ForgetRequest(tok) ==
    /\ tok \in asked
    /\ asked' = {} /\ lost' = TRUE
    /\ orphans' = orphans \cup ({tok} \ {NoToken})
    /\ UNCHANGED <<rows, families, cookie, recent, answers, revoked>>

ForgetAnswer(tok) ==
    /\ tok \in answers \ {NoToken}
    /\ answers' = {} /\ lost' = TRUE
    /\ cookie' \in {cookie, tok}
    /\ UNCHANGED <<rows, families, recent, asked, orphans, revoked>>

ServeOrphan(tok) ==
    /\ tok \in orphans
    /\ orphans' = orphans \ {tok}
    /\ Refresh(tok)
    /\ UNCHANGED <<families, cookie, recent, asked, answers, lost>>

SignIn ==
    /\ families' = families + 1
    /\ rows' = rows \cup {<<families + 1, 1>>}
    /\ cookie' = <<families + 1, 1>>
    /\ UNCHANGED <<recent, asked, answers, orphans, lost, revoked>>

SignOut ==
    /\ rows' = rows \ {cookie}
    /\ cookie' = NoToken
    /\ UNCHANGED <<families, recent, asked, answers, orphans, lost, revoked>>

ForceLogout ==
    /\ rows' = {}
    /\ UNCHANGED <<families, cookie, recent, asked, answers, orphans, lost, revoked>>

FiveSecondsPass ==
    /\ recent' = FALSE
    /\ UNCHANGED <<rows, families, cookie, asked, answers, orphans, lost, revoked>>

Next ==
    \/ Ask \/ NeverServed \/ SignIn \/ SignOut \/ ForceLogout \/ FiveSecondsPass
    \/ \E tok \in asked : Serve(tok) \/ ForgetRequest(tok)
    \/ \E tok \in answers : Take(tok) \/ ForgetAnswer(tok)
    \/ \E tok \in orphans : ServeOrphan(tok)

Spec == Init /\ [][Next]_vars
=============================================================================
