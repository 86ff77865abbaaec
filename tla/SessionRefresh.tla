--------------------------- MODULE SessionRefresh ---------------------------
(* The session of one browser: its tabs, the refresh-token cookie and the    *)
(* localStorage stamp they share, the channel they tell each other the       *)
(* outcome on, and the rows of refresh tokens the server rotates             *)
(* (lib/auth-refresh.ts, lib/api-fetch.ts, App.tsx, features/auth/api,       *)
(* service/auth_refresh.go).                                                 *)
(*                                                                           *)
(* A refresh token is <<family, generation>>: a login starts a family, a     *)
(* rotation its next generation.  The access token handed out with it bears  *)
(* its name.  Two moments of time matter: the debounce window after a        *)
(* refresh (5 s) ends, and an access token (15 min) expires.                 *)
EXTENDS Naturals, Sequences, FiniteSets

CONSTANTS
    Tabs,
    NoToken,      \* no cookie, no token in a message
    Cold,         \* the session cache was never written
    LoggedOut,    \* the session cache holds null
    WebLocks,     \* navigator.locks exists and grants what is asked for
    MaxFamilies, MaxGenerations,
    MaxReloads,   \* reloads by the user
    MaxFaults     \* failing, unparseable or lost answers

Token == (1 .. MaxFamilies) \X (1 .. MaxGenerations)

ASSUME SessionAssumption ==
    /\ {NoToken, Cold, LoggedOut} \cap Token = {}
    /\ Cold # LoggedOut
    /\ WebLocks \in BOOLEAN
    /\ MaxFamilies \in Nat \ {0} /\ MaxGenerations \in Nat \ {0}
    /\ MaxReloads \in Nat /\ MaxFaults \in Nat

VARIABLES
    rows,      \* the server's refresh_tokens
    families,  \* logins so far
    cookie,    \* the refresh_token cookie, one for all tabs
    recent,    \* the stamp in localStorage is less than 5 s old
    expired,   \* access tokens past their 15 minutes
    doc,       \* tab -> "up", or "leaving": location.assign was called
    at,        \* tab -> "app" or "login"
    cache,     \* tab -> its ['auth','session'] entry, by its access token
    refresh,   \* tab -> where its refreshPromise stands
    carried,   \* tab -> the token its refresh sent, then the one granted
    waiting,   \* tab -> who awaits its refreshPromise
    chan,      \* tab -> messages posted to it and not handled yet
    orphans,   \* tokens in refreshes whose page is gone
    reloads, faults,
    lost,      \* some refresh was cut off between the server and its page
    revoked    \* the server took a refresh for the replay of a stolen token

server == <<rows, families>>
page   == <<doc, at>>
bounds == <<reloads, faults>>
vars == <<rows, families, cookie, recent, expired, doc, at, cache, refresh, carried,
          waiting, chan, orphans, reloads, faults, lost, revoked>>

Family(f) == {r \in rows : r[1] = f}
Next1(tok) == <<tok[1], tok[2] + 1>>

-----------------------------------------------------------------------------
(* Pages.                                                                    *)

\* A document starts: module state is gone, App fires the boot probe.
Boot(t) ==
    /\ doc' = [doc EXCEPT ![t] = "up"]
    /\ cache' = [cache EXCEPT ![t] = Cold]
    /\ refresh' = [refresh EXCEPT ![t] = "queued"]
    /\ carried' = [carried EXCEPT ![t] = NoToken]
    /\ waiting' = [waiting EXCEPT ![t] = {"probe"}]
    /\ chan' = [chan EXCEPT ![t] = <<>>]

Init ==
    /\ cookie \in {NoToken, <<1, 1>>}
    /\ rows = {cookie} \ {NoToken}
    /\ families = Cardinality(rows)
    /\ recent = FALSE
    /\ expired = {}
    /\ doc = [t \in Tabs |-> "up"]
    /\ at = [t \in Tabs |-> IF cookie = NoToken THEN "login" ELSE "app"]
    /\ cache = [t \in Tabs |-> Cold]
    /\ refresh = [t \in Tabs |-> "queued"]
    /\ carried = [t \in Tabs |-> NoToken]
    /\ waiting = [t \in Tabs |-> {"probe"}]
    /\ chan = [t \in Tabs |-> <<>>]
    /\ orphans = {}
    /\ reloads = 0 /\ faults = 0
    /\ lost = FALSE /\ revoked = FALSE

\* A document that leaves, or has been told to, makes nothing of a message.
Deaf(u) == \/ doc[u] = "leaving"
           \/ \E i \in DOMAIN chan[u] : chan[u][i].type = "failed"

Post(t, msg) ==
    [u \in Tabs |-> IF u = t \/ Deaf(u) THEN chan[u] ELSE Append(chan[u], msg)]

\* A refresh under way when the page goes: a request may still reach the
\* server, an answer on its way may or may not set the cookie.
Abandon(t) ==
    \/ /\ refresh[t] \in {"none", "queued", "refused"}
       /\ UNCHANGED <<orphans, cookie, lost>>
    \/ /\ refresh[t] = "sent"
       /\ orphans' = orphans \cup ({carried[t]} \ {NoToken})
       /\ lost' = TRUE
       /\ UNCHANGED cookie
    \/ /\ refresh[t] \in {"granted", "garbled"}
       /\ cookie' \in {cookie, carried[t]}
       /\ lost' = TRUE
       /\ UNCHANGED orphans

Reload(t) ==
    /\ doc[t] = "up" /\ reloads < MaxReloads
    /\ reloads' = reloads + 1
    /\ Abandon(t)
    /\ Boot(t)
    /\ UNCHANGED <<server, recent, expired, at, faults, revoked>>

\* The navigation of onAuthFailure or of the sign-out is carried out.
Navigate(t) ==
    /\ doc[t] = "leaving"
    /\ at' = [at EXCEPT ![t] = "login"]
    /\ Abandon(t)
    /\ Boot(t)
    /\ UNCHANGED <<server, recent, expired, reloads, faults, revoked>>

\* onAuthFailure: latched, one navigation per document.
Leaving(S) == [t \in Tabs |-> IF t \in S THEN "leaving" ELSE doc[t]]

-----------------------------------------------------------------------------
(* refreshAccessToken.                                                       *)

Accepted(tok) == tok \in Token \ expired

\* The refreshPromise ends well: everyone who awaited it goes on.  A request is
\* sent again with what the cache holds now, c; a second 401 is final.
ResumeOnly(t, c) ==  \* mutant: refreshPromise is not set back to null
    /\ carried' = [carried EXCEPT ![t] = NoToken]
    /\ waiting' = [waiting EXCEPT ![t] = {}]
    /\ refresh' = [refresh EXCEPT ![t] = "queued"]
    /\ doc' = IF "call" \in waiting[t] /\ ~Accepted(c) THEN Leaving({t}) ELSE doc
Resume(t, c) ==
    /\ refresh' = [refresh EXCEPT ![t] = "none"]
    /\ carried' = [carried EXCEPT ![t] = NoToken]
    /\ waiting' = [waiting EXCEPT ![t] = {}]
    /\ doc' = IF "call" \in waiting[t] /\ ~Accepted(c) THEN Leaving({t}) ELSE doc

\* It fails: apiFetch gives up and leaves, the boot probe is silent.
GiveUp(t) ==
    /\ refresh' = [refresh EXCEPT ![t] = "none"]
    /\ carried' = [carried EXCEPT ![t] = NoToken]
    /\ waiting' = [waiting EXCEPT ![t] = {}]
    /\ doc' = IF "call" \in waiting[t] THEN Leaving({t}) ELSE doc

InsideFromRequest(t) == refresh[t] # "none"  \* mutant: held while asked for
Inside(t) == refresh[t] \in {"sent", "granted", "garbled", "refused"}

\* navigator.locks lets one tab at a time into performNetworkRefresh.
MayEnterAny(t) == refresh[t] = "queued"  \* mutant: no lock
MayEnter(t) ==
    /\ refresh[t] = "queued"
    /\ WebLocks => \A u \in Tabs : ~Inside(u)

\* The stamp is read inside the lock.
DebouncedNever == FALSE  \* mutant: every tab refreshes for itself
Debounced == recent

DebounceHit(t) ==
    /\ MayEnter(t) /\ Debounced
    /\ Resume(t, cache[t])
    /\ UNCHANGED <<server, cookie, recent, expired, at, cache, chan, orphans, bounds,
                   lost, revoked>>

SendRefresh(t) ==
    /\ MayEnter(t) /\ ~Debounced
    /\ refresh' = [refresh EXCEPT ![t] = "sent"]
    /\ carried' = [carried EXCEPT ![t] = cookie]
    /\ UNCHANGED <<server, cookie, recent, expired, page, cache, waiting, chan,
                   orphans, bounds, lost, revoked>>

\* RefreshTokens: what becomes of the rows.  A row that is there is rotated; a
\* token whose row is gone is a replay if its family has another row.
Replayed(tok) == tok \notin rows /\ tok # NoToken /\ Family(tok[1]) # {}
Rotates(tok) == tok \in rows => tok[2] < MaxGenerations
RowsAfter(tok) ==
    IF tok \in rows THEN (rows \ {tok}) \cup {Next1(tok)}
    ELSE IF tok = NoToken THEN rows
    ELSE rows \ Family(tok[1])

\* The rotation is committed before the answer is built: one that fails
\* afterwards is refused all the same.
Serve(t) ==
    LET tok == carried[t] IN
    /\ refresh[t] = "sent"
    /\ Rotates(tok)
    /\ rows' = RowsAfter(tok)
    /\ revoked' = (revoked \/ Replayed(tok))
    /\ \/ /\ refresh' = [refresh EXCEPT ![t] = IF tok \in rows THEN "granted" ELSE "refused"]
          /\ carried' = [carried EXCEPT ![t] = IF tok \in rows THEN Next1(tok) ELSE NoToken]
          /\ UNCHANGED <<faults, lost>>
       \/ /\ tok \in rows /\ faults < MaxFaults
          /\ faults' = faults + 1
          /\ \/ /\ refresh' = [refresh EXCEPT ![t] = "garbled"]
                /\ carried' = [carried EXCEPT ![t] = Next1(tok)]
                /\ UNCHANGED lost
             \/ /\ refresh' = [refresh EXCEPT ![t] = "refused"]
                /\ carried' = [carried EXCEPT ![t] = NoToken]
                /\ lost' = TRUE
    /\ UNCHANGED <<families, cookie, recent, expired, page, cache, waiting, chan,
                   orphans, reloads>>

\* The request never gets there (nor is the last generation ever rotated).
RefreshUnsent(t) ==
    /\ refresh[t] = "sent"
    /\ \/ faults < MaxFaults /\ faults' = faults + 1
       \/ ~Rotates(carried[t]) /\ UNCHANGED faults
    /\ refresh' = [refresh EXCEPT ![t] = "refused"]
    /\ carried' = [carried EXCEPT ![t] = NoToken]
    /\ UNCHANGED <<server, cookie, recent, expired, page, cache, waiting, chan,
                   orphans, reloads, lost, revoked>>

\* A request whose page is gone is served like any other, to nobody.
ServeOrphan(tok) ==
    /\ tok \in orphans /\ Rotates(tok)
    /\ orphans' = orphans \ {tok}
    /\ rows' = RowsAfter(tok)
    /\ revoked' = (revoked \/ Replayed(tok))
    /\ UNCHANGED <<families, cookie, recent, expired, page, cache, refresh, carried, waiting,
                   chan, bounds, lost>>

\* A 200: the cookie is set, the stamp written, the cache hydrated and the
\* siblings told; a body that cannot be read hydrates no one.
Granted(t) ==
    LET tok == carried[t]
        read == refresh[t] = "granted"
        c == IF read THEN [cache EXCEPT ![t] = tok] ELSE cache IN
    /\ refresh[t] \in {"granted", "garbled"}
    /\ cookie' = tok
    /\ recent' = TRUE
    /\ cache' = c
    /\ chan' = Post(t, [type |-> "refreshed", tok |-> IF read THEN tok ELSE NoToken])
    /\ Resume(t, c[t])
    /\ UNCHANGED <<server, expired, at, orphans, bounds, lost, revoked>>

\* Anything else: the siblings are told too.
Refused(t) ==
    /\ refresh[t] = "refused"
    /\ chan' = Post(t, [type |-> "failed", tok |-> NoToken])
    /\ GiveUp(t)
    /\ UNCHANGED <<server, cookie, recent, expired, at, cache, orphans, bounds, lost, revoked>>

\* handleChannelMessage.
Hydrates(msg) == msg.type \in {"refreshed", "login"} /\ msg.tok # NoToken
Deliver(t) ==
    /\ chan[t] # <<>>
    /\ LET msg == Head(chan[t]) IN
       /\ cache' = IF Hydrates(msg) THEN [cache EXCEPT ![t] = msg.tok] ELSE cache
       /\ recent' = (recent \/ msg.type = "refreshed")
       /\ doc' = IF msg.type = "failed" THEN Leaving({t}) ELSE doc
    /\ chan' = [chan EXCEPT ![t] = Tail(@)]
    /\ UNCHANGED <<server, cookie, expired, at, refresh, carried, waiting,
                   orphans, bounds, lost, revoked>>

-----------------------------------------------------------------------------
(* apiFetch.                                                                 *)

\* A request is refused: the cache has nothing better to send, or it was sent
\* with a token that expired and was replaced since.  The first 401 asks for a
\* refresh, or joins the one under way.
Unauthorized(t) ==
    /\ doc[t] = "up" /\ at[t] = "app" /\ "call" \notin waiting[t]
    /\ Accepted(cache[t]) => expired # {}
    /\ waiting' = [waiting EXCEPT ![t] = @ \cup {"call"}]
    /\ refresh' = [refresh EXCEPT ![t] = IF @ = "none" THEN "queued" ELSE @]
    /\ UNCHANGED <<server, cookie, recent, expired, page, cache, carried, chan,
                   orphans, bounds, lost, revoked>>

-----------------------------------------------------------------------------
(* Sign-in, sign-out and time.                                               *)

\* useLogin (acceptInvite does the same): cookie, cache, channel; no stamp.
Login(t) ==
    LET tok == <<families + 1, 1>> IN
    /\ doc[t] = "up" /\ at[t] = "login" /\ "probe" \notin waiting[t]
    /\ families < MaxFamilies
    /\ families' = families + 1
    /\ rows' = rows \cup {tok}
    /\ cookie' = tok
    /\ cache' = [cache EXCEPT ![t] = tok]
    /\ at' = [at EXCEPT ![t] = "app"]
    /\ chan' = Post(t, [type |-> "login", tok |-> tok])
    /\ UNCHANGED <<recent, expired, doc, refresh, carried, waiting, orphans, bounds,
                   lost, revoked>>

\* LoginPage sends a visitor who turns out to be signed in to the app.
AlreadySignedIn(t) ==
    /\ doc[t] = "up" /\ at[t] = "login" /\ "probe" \notin waiting[t]
    /\ cache[t] \in Token
    /\ at' = [at EXCEPT ![t] = "app"]
    /\ UNCHANGED <<server, cookie, recent, expired, doc, cache, refresh, carried, waiting,
                   chan, orphans, bounds, lost, revoked>>

\* useLogout and the redirect of its caller.  The row of the cookie goes, not
\* its family; when the request fails only the cache is cleared.
Logout(t) ==
    /\ doc[t] = "up" /\ at[t] = "app" /\ cache[t] \in Token
    /\ \/ /\ rows' = rows \ {cookie}
          /\ cookie' = NoToken
          /\ UNCHANGED faults
       \/ /\ faults < MaxFaults
          /\ faults' = faults + 1
          /\ UNCHANGED <<rows, cookie>>
    /\ cache' = [cache EXCEPT ![t] = LoggedOut]
    /\ doc' = Leaving({t})
    /\ UNCHANGED <<families, recent, expired, at, refresh, carried, waiting, chan,
                   orphans, reloads, lost, revoked>>

\* Five seconds are over; a message does not take that long.
DebounceEnds ==
    /\ recent /\ \A t \in Tabs : chan[t] = <<>>
    /\ recent' = FALSE
    /\ UNCHANGED <<server, cookie, expired, page, cache, refresh, carried, waiting,
                   chan, orphans, bounds, lost, revoked>>

\* Fifteen minutes are over for a token that was handed out.
Expire(tok) ==
    /\ tok \notin expired /\ tok \in {cache[t] : t \in Tabs}
    /\ recent => tok # cookie
    /\ expired' = expired \cup {tok}
    /\ UNCHANGED <<server, cookie, recent, page, cache, refresh, carried, waiting,
                   chan, orphans, bounds, lost, revoked>>

\* ForceLogout, a password reset: the rows of the user go.
ForceLogout ==
    /\ rows # {}
    /\ rows' = {}
    /\ UNCHANGED <<families, cookie, recent, expired, page, cache, refresh, carried, waiting,
                   chan, orphans, bounds, lost, revoked>>

Enter(t) == DebounceHit(t) \/ SendRefresh(t)
Fetched(t) == Serve(t) \/ RefreshUnsent(t)
Settle(t) == Granted(t) \/ Refused(t)

Next ==
    \/ \E t \in Tabs :
        \/ Enter(t) \/ Fetched(t) \/ Settle(t) \/ Deliver(t)
        \/ Unauthorized(t)
        \/ Login(t) \/ AlreadySignedIn(t) \/ Logout(t)
        \/ Reload(t) \/ Navigate(t)
    \/ \E tok \in Token : ServeOrphan(tok) \/ Expire(tok)
    \/ DebounceEnds
    \/ ForceLogout

Spec == Init /\ [][Next]_vars

\* The browser grants the lock in the order it was asked for, runs the queued
\* tasks of a tab and carries navigations out; the server answers.
Fairness ==
    \A t \in Tabs : /\ SF_vars(Enter(t)) /\ WF_vars(Fetched(t)) /\ WF_vars(Settle(t))
                    /\ WF_vars(Deliver(t)) /\ WF_vars(Navigate(t))

FairSpec == Spec /\ Fairness /\ WF_vars(DebounceEnds)

-----------------------------------------------------------------------------
(* Properties.                                                               *)

Message == [type : {"refreshed", "login", "failed"}, tok : Token \cup {NoToken}]

\* Somebody waits for a tab's refresh exactly as long as there is one.
TypeOK ==
    /\ rows \in SUBSET Token /\ families \in 0 .. MaxFamilies
    /\ cookie \in Token \cup {NoToken}
    /\ recent \in BOOLEAN
    /\ expired \in SUBSET Token
    /\ doc \in [Tabs -> {"up", "leaving"}] /\ at \in [Tabs -> {"app", "login"}]
    /\ cache \in [Tabs -> Token \cup {Cold, LoggedOut}]
    /\ refresh \in [Tabs -> {"none", "queued", "sent", "granted", "garbled", "refused"}]
    /\ carried \in [Tabs -> Token \cup {NoToken}]
    /\ waiting \in [Tabs -> SUBSET {"probe", "call"}]
    /\ chan \in [Tabs -> Seq(Message)]
    /\ orphans \in SUBSET Token
    /\ reloads \in 0 .. MaxReloads /\ faults \in 0 .. MaxFaults
    /\ lost \in BOOLEAN /\ revoked \in BOOLEAN
    /\ \A t \in Tabs : waiting[t] = {} <=> refresh[t] = "none"

\* "Without this layer ... the server detects reuse and revokes the user's token
\* family" (auth-refresh.ts): with the lock, the server takes a refresh for a
\* replay only after a page went, or an answer failed, in the middle of one.
ReuseMeansALostAnswer == revoked => lost

\* "burning the rotation Tab 1 just performed": no refresh is on its way while
\* the stamp of the last one is fresh, in whatever tab and however the waits for
\* the lock, the answers, the messages and the end of the window interleave.
NoBurnedRotation == \A t \in Tabs : refresh[t] \in {"sent", "granted", "garbled"} => ~recent

\* All tabs together are one client: the tokens sent, and those in the answers.
Asked == {carried[t] : t \in {u \in Tabs : refresh[u] = "sent"}}
Answers ==
    {IF refresh[t] = "refused" THEN NoToken ELSE carried[t] :
        t \in {u \in Tabs : refresh[u] \in {"granted", "garbled", "refused"}}}

Client == INSTANCE OneClient WITH asked <- Asked, answers <- Answers

\* Whatever its tabs do at once, the server sees of a browser with Web Locks one
\* client with one refresh under way, and none within five seconds of the last
\* (withLockOrCoalesce, performNetworkRefresh).
ImplementsOneClient == Client!Spec

\* Nobody waits for ever for a refresh: neither for the lock, nor for an answer,
\* nor for a refreshPromise that was forgotten.
RefreshSettles == \A t \in Tabs : refresh[t] # "none" ~> refresh[t] = "none"
=============================================================================
