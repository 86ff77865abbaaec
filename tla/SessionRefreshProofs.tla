------------------------ MODULE SessionRefreshProofs ------------------------
(***************************************************************************)
(* Theorems about the refresh of a session where navigator.locks is        *)
(* there, for any number of tabs, logins, rotations, reloads and faults.   *)
(*                                                                         *)
(* The server takes a token for stolen when its row is gone and its family *)
(* has another.  Call a token good unless that is so.  As long as no       *)
(* refresh was cut off, what is under way carries a good token, and the    *)
(* cookie is good too, or about to be replaced by the answer of the one    *)
(* refresh under way, a token of its own family.                           *)
(***************************************************************************)
EXTENDS SessionRefresh, SequenceTheorems, FiniteSetTheorems, TLAPS

Good(tok) == tok \in rows \/ Family(tok[1]) = {}

Answered(t) == refresh[t] \in {"granted", "garbled"}

OneInside == \A t, u \in Tabs : Inside(t) /\ Inside(u) => t = u

OneRowPerFamily == \A r, s \in rows : r[1] = s[1] => r = s

Known ==
    /\ \A r \in rows : r[1] <= families
    /\ cookie # NoToken => cookie[1] <= families
    /\ \A t \in Tabs : carried[t] # NoToken => carried[t][1] <= families

AnswersCarry == \A t \in Tabs : Answered(t) => carried[t] \in Token

Stamped ==
    /\ \A t \in Tabs : \A i \in DOMAIN chan[t] : chan[t][i].type = "refreshed" => recent
    /\ \A t \in Tabs : refresh[t] = "sent" \/ Answered(t) => ~recent

NothingLost ==
    ~lost =>
        /\ orphans = {}
        /\ \A t \in Tabs : Inside(t) /\ carried[t] # NoToken => Good(carried[t])
        /\ cookie # NoToken =>
              \/ Good(cookie)
              \/ \E t \in Tabs : Answered(t) /\ carried[t][1] = cookie[1]

IInv ==
    /\ TypeOK
    /\ OneInside /\ OneRowPerFamily /\ Known /\ AnswersCarry
    /\ Stamped /\ NothingLost
    /\ ReuseMeansALostAnswer

-----------------------------------------------------------------------------
(* The initial states.                                                     *)

LEMMA FirstToken == <<1, 1>> \in Token
  BY SessionAssumption DEF Token

LEMMA InitKeeps == ASSUME WebLocks PROVE Init => IInv
<1> SUFFICES ASSUME Init
             PROVE  IInv
  OBVIOUS
<1> USE DEF Init
<1>1. cookie \in Token \cup {NoToken} /\ rows \in SUBSET Token
  BY FirstToken
<1>2. families \in 0 .. MaxFamilies /\ families = IF cookie = NoToken THEN 0 ELSE 1
  <2>1. CASE cookie = NoToken
    <3>1. rows = {}
      BY <2>1
    <3>2. families = 0
      BY <3>1, FS_EmptySet
    <3> QED
      BY <2>1, <3>2, SessionAssumption
  <2>2. CASE cookie = <<1, 1>> /\ cookie # NoToken
    <3>1. rows = {cookie}
      BY <2>2
    <3>2. families = 1
      BY <3>1, FS_Singleton
    <3> QED
      BY <2>2, <3>2, SessionAssumption
  <2> QED
    BY <2>1, <2>2
<1>3. TypeOK
  <2>1. chan \in [Tabs -> Seq(Message)]
    BY EmptySeq
  <2>2. waiting \in [Tabs -> SUBSET {"probe", "call"}]
    <3>1. {"probe"} \in SUBSET {"probe", "call"}
      OBVIOUS
    <3> QED
      BY <3>1
  <2>3. /\ doc \in [Tabs -> {"up", "leaving"}] /\ at \in [Tabs -> {"app", "login"}]
        /\ cache \in [Tabs -> Token \cup {Cold, LoggedOut}]
        /\ refresh \in [Tabs -> {"none", "queued", "sent", "granted", "garbled", "refused"}]
        /\ carried \in [Tabs -> Token \cup {NoToken}]
    OBVIOUS
  <2>4. \A t \in Tabs : waiting[t] = {} <=> refresh[t] = "none"
    <3>1. {"probe"} # {}
      OBVIOUS
    <3> QED
      BY <3>1
  <2>5. reloads \in 0 .. MaxReloads /\ faults \in 0 .. MaxFaults
    BY SessionAssumption
  <2>6. /\ recent \in BOOLEAN /\ lost \in BOOLEAN /\ revoked \in BOOLEAN
        /\ expired \in SUBSET Token /\ orphans \in SUBSET Token
    BY Zenon
  <2> HIDE DEF Init
  <2> QED
    BY <1>1, <1>2, <2>1, <2>2, <2>3, <2>4, <2>5, <2>6 DEF TypeOK
<1>4. OneInside /\ AnswersCarry
  BY DEF OneInside, Inside, AnswersCarry, Answered
<1>5. OneRowPerFamily
  BY DEF OneRowPerFamily
<1>6. Known
  BY <1>1, <1>2 DEF Known
<1>7. Stamped
  BY DEF Stamped, Answered
<1>8. NothingLost
  BY DEF NothingLost, Inside, Good
<1>9. ReuseMeansALostAnswer
  BY DEF ReuseMeansALostAnswer
<1> QED
  BY <1>3, <1>4, <1>5, <1>6, <1>7, <1>8, <1>9 DEF IInv

-----------------------------------------------------------------------------
(* Tokens, rows and channels.                                              *)

LEMMA TokenParts ==
    ASSUME NEW tok \in Token
    PROVE  /\ tok[1] \in 1 .. MaxFamilies /\ tok[2] \in 1 .. MaxGenerations
           /\ tok = <<tok[1], tok[2]>>
           /\ tok # NoToken
  BY SessionAssumption DEF Token

\* A rotation gives the family its next generation.
LEMMA NextToken ==
    ASSUME NEW tok \in Token, tok[2] < MaxGenerations
    PROVE  Next1(tok) \in Token /\ Next1(tok)[1] = tok[1] /\ Next1(tok) # tok
<1>1. /\ tok[1] \in 1 .. MaxFamilies /\ tok[2] \in 1 .. MaxGenerations
      /\ tok = <<tok[1], tok[2]>>
  BY TokenParts
<1>2. tok[2] + 1 \in 1 .. MaxGenerations
  BY <1>1, SessionAssumption
<1> QED
  BY <1>1, <1>2 DEF Next1, Token

\* What the server does to the rows for a token it is shown.
LEMMA ServerStep ==
    ASSUME TypeOK, OneRowPerFamily, \A r \in rows : r[1] <= families,
           NEW tok \in Token \cup {NoToken}, Rotates(tok),
           rows' = RowsAfter(tok)
    PROVE  /\ rows' \in SUBSET Token
           /\ OneRowPerFamily'
           /\ \A r \in rows' : r[1] <= families
           /\ tok \in rows => Next1(tok) \in Token /\ Next1(tok)[1] = tok[1] /\ Good(Next1(tok))'
           /\ tok \in rows \/ ~Replayed(tok) =>
                \A x \in Token : Good(x) /\ (tok \in rows => x[1] # tok[1]) => Good(x)'
<1> USE DEF OneRowPerFamily, RowsAfter, Rotates, Family
<1>1. CASE tok \in rows
  <2>1. tok \in Token
    BY <1>1 DEF TypeOK
  <2>2. Next1(tok) \in Token /\ Next1(tok)[1] = tok[1]
    BY <1>1, <2>1, NextToken
  <2>3. rows' = (rows \ {tok}) \cup {Next1(tok)}
    BY <1>1
  <2>4. OneRowPerFamily'
    BY <1>1, <2>2, <2>3
  <2> QED
    BY <1>1, <2>1, <2>2, <2>3, <2>4 DEF TypeOK, Good
<1>2. CASE tok \notin rows
  <2>1. rows' \in SUBSET rows
    BY <1>2
  <2>2. ~Replayed(tok) => rows' = rows
    BY <1>2 DEF Replayed
  <2> QED
    BY <1>2, <2>1, <2>2 DEF TypeOK, Good
<1> QED
  BY <1>1, <1>2

LEMMA PostKeeps ==
    ASSUME TypeOK, NEW t \in Tabs, NEW msg \in Message
    PROVE  /\ Post(t, msg) \in [Tabs -> Seq(Message)]
           /\ \A u \in Tabs : \A i \in DOMAIN Post(t, msg)[u] :
                \/ Post(t, msg)[u][i] = msg
                \/ i \in DOMAIN chan[u] /\ Post(t, msg)[u][i] = chan[u][i]
<1>1. \A u \in Tabs : chan[u] \in Seq(Message)
  BY DEF TypeOK
<1>2. ASSUME NEW u \in Tabs
      PROVE  /\ Append(chan[u], msg) \in Seq(Message)
             /\ \A i \in DOMAIN Append(chan[u], msg) :
                  \/ Append(chan[u], msg)[i] = msg
                  \/ i \in DOMAIN chan[u] /\ Append(chan[u], msg)[i] = chan[u][i]
  <2>1. /\ Append(chan[u], msg) \in Seq(Message)
        /\ Len(Append(chan[u], msg)) = Len(chan[u]) + 1
        /\ \A i \in 1 .. Len(chan[u]) : Append(chan[u], msg)[i] = chan[u][i]
        /\ Append(chan[u], msg)[Len(chan[u]) + 1] = msg
    BY <1>1, AppendProperties
  <2>2. /\ DOMAIN chan[u] = 1 .. Len(chan[u]) /\ Len(chan[u]) \in Nat
        /\ DOMAIN Append(chan[u], msg) = 1 .. Len(Append(chan[u], msg))
    BY <1>1, <2>1
  <2>3. \A i \in 1 .. Len(chan[u]) + 1 : i \in 1 .. Len(chan[u]) \/ i = Len(chan[u]) + 1
    BY <2>2
  <2> QED
    BY <2>1, <2>2, <2>3
<1> QED
  BY <1>1, <1>2 DEF Post

LEMMA TailKeeps ==
    ASSUME TypeOK, NEW t \in Tabs, chan[t] # <<>>
    PROVE  /\ Head(chan[t]) \in Message /\ Head(chan[t]) = chan[t][1] /\ 1 \in DOMAIN chan[t]
           /\ [chan EXCEPT ![t] = Tail(@)] \in [Tabs -> Seq(Message)]
           /\ \A i \in DOMAIN Tail(chan[t]) :
                i + 1 \in DOMAIN chan[t] /\ Tail(chan[t])[i] = chan[t][i + 1]
<1>1. chan[t] \in Seq(Message)
  BY DEF TypeOK
<1>2. /\ Head(chan[t]) \in Message /\ Tail(chan[t]) \in Seq(Message)
      /\ Len(Tail(chan[t])) = Len(chan[t]) - 1
      /\ \A i \in 1 .. Len(Tail(chan[t])) : Tail(chan[t])[i] = chan[t][i + 1]
  BY <1>1, HeadTailProperties
<1>3. DOMAIN chan[t] = 1 .. Len(chan[t]) /\ Len(chan[t]) \in Nat \ {0}
  BY <1>1, EmptySeq
<1>4. DOMAIN Tail(chan[t]) = 1 .. Len(chan[t]) - 1
  BY <1>2
<1>5. [chan EXCEPT ![t] = Tail(@)] \in [Tabs -> Seq(Message)]
  BY <1>2 DEF TypeOK
<1>6. \A i \in 1 .. Len(chan[t]) - 1 : i + 1 \in 1 .. Len(chan[t])
  BY <1>3
<1> QED
  BY <1>1, <1>2, <1>3, <1>4, <1>5, <1>6

-----------------------------------------------------------------------------
(* Pages.                                                                  *)

\* What a document that starts leaves of its tab.
LEMMA BootTyped ==
    ASSUME TypeOK, NEW t \in Tabs, Boot(t)
    PROVE  /\ doc' \in [Tabs -> {"up", "leaving"}]
           /\ cache' \in [Tabs -> Token \cup {Cold, LoggedOut}]
           /\ refresh' \in [Tabs -> {"none", "queued", "sent", "granted", "garbled", "refused"}]
           /\ carried' \in [Tabs -> Token \cup {NoToken}]
           /\ waiting' \in [Tabs -> SUBSET {"probe", "call"}]
           /\ chan' \in [Tabs -> Seq(Message)]
           /\ \A u \in Tabs : waiting'[u] = {} <=> refresh'[u] = "none"
<1>1. <<>> \in Seq(Message)
  BY EmptySeq
<1>2. {"probe"} \in SUBSET {"probe", "call"} /\ {"probe"} # {}
  OBVIOUS
<1>3. chan' \in [Tabs -> Seq(Message)]
  BY <1>1 DEF TypeOK, Boot
<1>4. waiting' \in [Tabs -> SUBSET {"probe", "call"}]
  BY <1>2 DEF TypeOK, Boot
<1>5. \A u \in Tabs : waiting'[u] = {} <=> refresh'[u] = "none"
  BY <1>2 DEF TypeOK, Boot
<1> QED
  BY <1>3, <1>4, <1>5 DEF TypeOK, Boot

\* A page that goes, by a reload or a navigation.
LEMMA GoneKeeps ==
    ASSUME IInv, NEW t \in Tabs, Abandon(t), Boot(t),
           UNCHANGED <<server, recent, expired, faults, revoked>>,
           at' \in [Tabs -> {"app", "login"}], reloads' \in 0 .. MaxReloads
    PROVE  IInv'
<1> USE DEF IInv, server
<1>1. cookie' \in Token \cup {NoToken} /\ orphans' \in SUBSET Token /\ lost' \in BOOLEAN
  BY DEF Abandon, TypeOK
<1>2. TypeOK'
  BY <1>1, BootTyped DEF TypeOK
<1>3. /\ refresh' = [refresh EXCEPT ![t] = "queued"]
      /\ carried' = [carried EXCEPT ![t] = NoToken]
      /\ \A u \in Tabs : u # t => refresh'[u] = refresh[u] /\ carried'[u] = carried[u]
      /\ refresh'[t] = "queued" /\ carried'[t] = NoToken
  BY DEF Boot, TypeOK
<1>4. OneInside' /\ AnswersCarry'
  BY <1>3 DEF OneInside, Inside, AnswersCarry, Answered
<1>5. OneRowPerFamily'
  BY DEF OneRowPerFamily
<1>6. Known'
  BY <1>3 DEF Known, Abandon
<1>7. Stamped'
  <2>1. chan'[t] = <<>> /\ \A u \in Tabs : u # t => chan'[u] = chan[u]
    BY DEF Boot, TypeOK
  <2> QED
    BY <1>3, <2>1 DEF Stamped, Answered
<1>8. NothingLost'
  <2>1. SUFFICES ASSUME ~lost'
                 PROVE  NothingLost'
    BY DEF NothingLost
  <2>2. /\ refresh[t] \in {"none", "queued", "refused"}
        /\ UNCHANGED <<orphans, cookie, lost, rows>>
    BY <2>1 DEF Abandon
  <2> QED
    BY <1>3, <2>1, <2>2 DEF NothingLost, Good, Family, Inside, Answered
<1>9. ReuseMeansALostAnswer'
  BY DEF ReuseMeansALostAnswer, Abandon
<1> QED
  BY <1>2, <1>4, <1>5, <1>6, <1>7, <1>8, <1>9

LEMMA ReloadKeeps == ASSUME IInv, NEW t \in Tabs, Reload(t) PROVE IInv'
<1>1. reloads' \in 0 .. MaxReloads
  BY SessionAssumption DEF Reload, IInv, TypeOK
<1> QED
  BY <1>1, GoneKeeps DEF Reload, IInv, TypeOK

LEMMA NavigateKeeps == ASSUME IInv, NEW t \in Tabs, Navigate(t) PROVE IInv'
<1>1. at' \in [Tabs -> {"app", "login"}]
  BY DEF Navigate, IInv, TypeOK
<1> QED
  BY <1>1, GoneKeeps DEF Navigate, IInv, TypeOK

-----------------------------------------------------------------------------
(* Refreshes.                                                              *)

\* A refreshPromise that ends, well or not.
Ends(t) ==
    /\ refresh' = [refresh EXCEPT ![t] = "none"]
    /\ carried' = [carried EXCEPT ![t] = NoToken]
    /\ waiting' = [waiting EXCEPT ![t] = {}]
    /\ doc' = doc \/ doc' = Leaving({t})

LEMMA EndsTyped ==
    ASSUME TypeOK, NEW t \in Tabs, Ends(t)
    PROVE  /\ doc' \in [Tabs -> {"up", "leaving"}]
           /\ refresh' \in [Tabs -> {"none", "queued", "sent", "granted", "garbled", "refused"}]
           /\ carried' \in [Tabs -> Token \cup {NoToken}]
           /\ waiting' \in [Tabs -> SUBSET {"probe", "call"}]
           /\ \A u \in Tabs : waiting'[u] = {} <=> refresh'[u] = "none"
           /\ refresh'[t] = "none" /\ carried'[t] = NoToken
           /\ \A u \in Tabs : u # t => refresh'[u] = refresh[u] /\ carried'[u] = carried[u]
<1>1. waiting' \in [Tabs -> SUBSET {"probe", "call"}]
  BY DEF TypeOK, Ends
<1>2. doc' \in [Tabs -> {"up", "leaving"}]
  BY DEF TypeOK, Ends, Leaving
<1>3. \A u \in Tabs : waiting'[u] = {} <=> refresh'[u] = "none"
  BY DEF TypeOK, Ends
<1> QED
  BY <1>1, <1>2, <1>3 DEF TypeOK, Ends

LEMMA DebounceHitKeeps == ASSUME IInv, NEW t \in Tabs, DebounceHit(t) PROVE IInv'
<1> USE DEF IInv, server, bounds, DebounceHit
<1>1. Ends(t)
  BY DEF Ends, Resume
<1>2. TypeOK'
  BY <1>1, EndsTyped DEF TypeOK
<1>3. OneInside' /\ AnswersCarry'
  BY <1>1, EndsTyped DEF OneInside, Inside, AnswersCarry, Answered
<1>4. OneRowPerFamily' /\ Known'
  BY <1>1, EndsTyped DEF OneRowPerFamily, Known
<1>5. Stamped'
  BY <1>1, EndsTyped DEF Stamped, Answered
<1>6. NothingLost'
  <2>1. refresh[t] = "queued"
    BY DEF MayEnter
  <2> QED
    BY <1>1, <2>1, EndsTyped DEF NothingLost, Good, Family, Inside, Answered
<1>7. ReuseMeansALostAnswer'
  BY DEF ReuseMeansALostAnswer
<1> QED
  BY <1>2, <1>3, <1>4, <1>5, <1>6, <1>7

LEMMA SendRefreshKeeps == ASSUME WebLocks, IInv, NEW t \in Tabs, SendRefresh(t) PROVE IInv'
<1> USE DEF IInv, server, bounds, page, SendRefresh
<1>1. /\ refresh[t] = "queued" /\ \A u \in Tabs : ~Inside(u)
      /\ refresh' = [refresh EXCEPT ![t] = "sent"] /\ carried' = [carried EXCEPT ![t] = cookie]
      /\ refresh'[t] = "sent" /\ carried'[t] = cookie
      /\ \A u \in Tabs : u # t => refresh'[u] = refresh[u] /\ carried'[u] = carried[u]
  BY DEF MayEnter, TypeOK
<1>2. TypeOK'
  BY <1>1 DEF TypeOK
<1>3. OneInside' /\ AnswersCarry'
  BY <1>1 DEF OneInside, Inside, AnswersCarry, Answered
<1>4. OneRowPerFamily' /\ Known'
  BY <1>1 DEF OneRowPerFamily, Known
<1>5. Stamped'
  BY <1>1 DEF Stamped, Answered, Debounced
<1>6. NothingLost'
  BY <1>1 DEF NothingLost, Good, Family, Inside, Answered
<1>7. ReuseMeansALostAnswer'
  BY DEF ReuseMeansALostAnswer
<1> QED
  BY <1>2, <1>3, <1>4, <1>5, <1>6, <1>7

\* The heart of it: the token that is shown is good, so it is rotated or its
\* family is gone, and the cookie of its family is about to be replaced.
LEMMA ServeKeeps == ASSUME IInv, NEW t \in Tabs, Serve(t) PROVE IInv'
<1> USE DEF IInv, server, page
<1>0. PICK tok \in Token \cup {NoToken} : tok = carried[t]
  BY DEF TypeOK
<1>1. /\ tok \in Token \cup {NoToken} /\ Rotates(tok) /\ rows' = RowsAfter(tok)
      /\ refresh[t] = "sent" /\ Inside(t)
      /\ UNCHANGED <<families, cookie, recent, expired, doc, at, cache, waiting, chan, orphans, reloads>>
  BY <1>0 DEF Serve, Inside
<1>2. /\ rows' \in SUBSET Token
      /\ OneRowPerFamily'
      /\ \A r \in rows' : r[1] <= families
      /\ tok \in rows => Next1(tok) \in Token /\ Next1(tok)[1] = tok[1] /\ Good(Next1(tok))'
      /\ tok \in rows \/ ~Replayed(tok) =>
            \A x \in Token : Good(x) /\ (tok \in rows => x[1] # tok[1]) => Good(x)'
  <2>1. TypeOK /\ OneRowPerFamily /\ \A r \in rows : r[1] <= families
    BY DEF Known
  <2> HIDE DEF IInv
  <2> QED
    BY <1>1, <2>1, ServerStep
<1>3. \E r \in {"granted", "garbled", "refused"}, c \in Token \cup {NoToken} :
        /\ refresh' = [refresh EXCEPT ![t] = r]
        /\ carried' = [carried EXCEPT ![t] = c]
        /\ r \in {"granted", "garbled"} => tok \in rows /\ c = Next1(tok)
        /\ r = "refused" => c = NoToken /\ (tok \in rows => lost')
  BY <1>0, <1>1, <1>2 DEF Serve
<1>4. PICK r \in {"granted", "garbled", "refused"}, c \in Token \cup {NoToken} :
        /\ refresh' = [refresh EXCEPT ![t] = r]
        /\ carried' = [carried EXCEPT ![t] = c]
        /\ r \in {"granted", "garbled"} => tok \in rows /\ c = Next1(tok)
        /\ r = "refused" => c = NoToken /\ (tok \in rows => lost')
  BY <1>3
<1>5. /\ refresh'[t] = r /\ carried'[t] = c
      /\ \A u \in Tabs : u # t => refresh'[u] = refresh[u] /\ carried'[u] = carried[u]
  BY <1>4 DEF TypeOK
<1>6. faults' \in 0 .. MaxFaults /\ (lost => lost') /\ lost' \in BOOLEAN /\ revoked' \in BOOLEAN
  <2>1. faults' = faults \/ (faults < MaxFaults /\ faults' = faults + 1)
    BY DEF Serve
  <2>2. faults' \in 0 .. MaxFaults
    BY <2>1, SessionAssumption DEF TypeOK
  <2>3. lost' = lost \/ lost' = TRUE
    BY DEF Serve
  <2>4. (lost => lost') /\ lost' \in BOOLEAN
    BY <2>3, Zenon DEF TypeOK
  <2>5. revoked' \in BOOLEAN
    BY Zenon DEF Serve
  <2> QED
    BY <2>2, <2>4, <2>5
<1>7. TypeOK'
  <2>1. refresh' \in [Tabs -> {"none", "queued", "sent", "granted", "garbled", "refused"}]
    BY <1>4 DEF TypeOK
  <2>2. carried' \in [Tabs -> Token \cup {NoToken}]
    BY <1>4 DEF TypeOK
  <2>3. \A u \in Tabs : waiting'[u] = {} <=> refresh'[u] = "none"
    BY <1>1, <1>5 DEF TypeOK
  <2> QED
    BY <1>1, <1>2, <1>6, <2>1, <2>2, <2>3 DEF TypeOK
<1>8. OneInside' /\ AnswersCarry'
  BY <1>1, <1>2, <1>4, <1>5 DEF OneInside, Inside, AnswersCarry, Answered
<1>9. Known'
  <2>1. tok # NoToken => tok[1] <= families
    BY <1>0 DEF Known
  <2>2. c # NoToken => c[1] <= families
    BY <1>2, <1>4, <2>1, TokenParts DEF TypeOK
  <2> QED
    BY <1>1, <1>2, <1>5, <2>2 DEF Known
<1>10. Stamped'
  BY <1>1, <1>4, <1>5 DEF Stamped, Answered
<1>11. ~lost => ~Replayed(tok)
  BY <1>0, <1>1 DEF NothingLost, Replayed, Good, Inside
<1>12. NothingLost'
  <2>1. SUFFICES ASSUME ~lost'
                 PROVE  NothingLost'
    BY DEF NothingLost
  <2>2. ~lost /\ ~Replayed(tok) /\ orphans = {}
    BY <1>6, <1>11, <2>1 DEF NothingLost
  <2>3. \A u \in Tabs : Inside(u)' => u = t
    BY <1>1, <1>5 DEF OneInside, Inside
  <2>4. c # NoToken => Good(c)' /\ r \in {"granted", "garbled"} /\ tok \in rows /\ c[1] = tok[1]
    <3>1. ASSUME r = "refused" PROVE c = NoToken
      BY <1>4, <3>1
    <3>2. ASSUME r # "refused"
          PROVE  r \in {"granted", "garbled"} /\ tok \in rows /\ c = Next1(tok)
      BY <1>4, <3>2
    <3>3. tok \in rows => Next1(tok)[1] = tok[1] /\ Good(Next1(tok))'
      BY <1>2
    <3>4. ASSUME tok \in rows, c = Next1(tok) PROVE c[1] = tok[1] /\ Good(c)'
      BY <3>3, <3>4
    <3> QED
      BY <3>1, <3>2, <3>4
  <2>5. ASSUME cookie # NoToken
        PROVE  \/ Good(cookie)'
               \/ \E u \in Tabs : Answered(u)' /\ carried'[u][1] = cookie[1]
    <3>1. cookie \in Token /\ Good(cookie)
      <4>1. \A u \in Tabs : ~Answered(u)
        BY <1>1 DEF OneInside, Inside, Answered
      <4>2. cookie \in Token
        BY <2>5 DEF TypeOK
      <4>3. cookie # NoToken => Good(cookie) \/ \E u \in Tabs : Answered(u) /\ carried[u][1] = cookie[1]
        BY <2>2, Zenon DEF NothingLost
      <4> QED
        BY <2>5, <4>1, <4>2, <4>3
    <3>2. CASE tok \in rows /\ cookie[1] = tok[1]
      <4>1. r \in {"granted", "garbled"} /\ c = Next1(tok) /\ c[1] = cookie[1]
        BY <1>2, <1>4, <2>1, <3>2
      <4> QED
        BY <1>5, <4>1 DEF Answered
    <3>3. CASE ~(tok \in rows /\ cookie[1] = tok[1])
      <4>1. PICK x \in Token : x = cookie
        BY <3>1
      <4>2. Good(x) /\ (tok \in rows => x[1] # tok[1])
        BY <3>1, <3>3, <4>1
      <4>3. Good(x)'
        BY <1>2, <2>2, <4>2
      <4> QED
        BY <1>1, <4>1, <4>3 DEF Good
    <3> QED
      BY <3>2, <3>3
  <2> QED
    BY <1>1, <1>5, <2>2, <2>3, <2>4, <2>5 DEF NothingLost
<1>13. ReuseMeansALostAnswer'
  BY <1>0, <1>6, <1>11 DEF ReuseMeansALostAnswer, Serve
<1> QED
  BY <1>2, <1>7, <1>8, <1>9, <1>10, <1>12, <1>13

LEMMA RefreshUnsentKeeps == ASSUME IInv, NEW t \in Tabs, RefreshUnsent(t) PROVE IInv'
<1> USE DEF IInv, server, page
<1>1. /\ refresh[t] = "sent"
      /\ refresh' = [refresh EXCEPT ![t] = "refused"] /\ carried' = [carried EXCEPT ![t] = NoToken]
      /\ refresh'[t] = "refused" /\ carried'[t] = NoToken
      /\ \A u \in Tabs : u # t => refresh'[u] = refresh[u] /\ carried'[u] = carried[u]
      /\ UNCHANGED <<server, cookie, recent, expired, page, cache, waiting, chan,
                     orphans, reloads, lost, revoked>>
  BY DEF RefreshUnsent, TypeOK
<1>2. TypeOK'
  <2>1. faults' \in 0 .. MaxFaults
    BY SessionAssumption DEF RefreshUnsent, TypeOK
  <2>2. \A u \in Tabs : waiting'[u] = {} <=> refresh'[u] = "none"
    BY <1>1 DEF TypeOK
  <2> QED
    BY <1>1, <2>1, <2>2 DEF TypeOK
<1>3. OneInside' /\ AnswersCarry'
  BY <1>1 DEF OneInside, Inside, AnswersCarry, Answered
<1>4. OneRowPerFamily' /\ Known'
  BY <1>1 DEF OneRowPerFamily, Known
<1>5. Stamped'
  BY <1>1 DEF Stamped, Answered
<1>6. NothingLost'
  BY <1>1 DEF NothingLost, Good, Family, Inside, Answered
<1>7. ReuseMeansALostAnswer'
  BY <1>1 DEF ReuseMeansALostAnswer
<1> QED
  BY <1>2, <1>3, <1>4, <1>5, <1>6, <1>7

\* There are such requests only after something was lost.
LEMMA ServeOrphanKeeps == ASSUME IInv, NEW tok \in Token, ServeOrphan(tok) PROVE IInv'
<1> USE DEF IInv, server, page, bounds
<1>1. /\ tok \in orphans /\ Rotates(tok) /\ rows' = RowsAfter(tok) /\ orphans' = orphans \ {tok}
      /\ UNCHANGED <<families, cookie, recent, expired, page, cache, refresh, carried, waiting,
                     chan, bounds, lost>>
  BY DEF ServeOrphan
<1>2. lost /\ lost'
  BY <1>1 DEF NothingLost, TypeOK
<1>3. rows' \in SUBSET Token /\ OneRowPerFamily' /\ \A r \in rows' : r[1] <= families
  <2>1. TypeOK /\ OneRowPerFamily /\ \A r \in rows : r[1] <= families
    BY DEF Known
  <2> HIDE DEF IInv
  <2> QED
    BY <1>1, <2>1, ServerStep
<1>4. TypeOK'
  <2>1. revoked' \in BOOLEAN
    BY Zenon DEF ServeOrphan
  <2> QED
    BY <1>1, <1>3, <2>1 DEF TypeOK
<1>5. OneInside' /\ AnswersCarry' /\ Known' /\ Stamped'
  BY <1>1, <1>3 DEF OneInside, Inside, AnswersCarry, Answered, Known, Stamped
<1>6. NothingLost' /\ ReuseMeansALostAnswer'
  BY <1>2 DEF NothingLost, ReuseMeansALostAnswer
<1> QED
  BY <1>3, <1>4, <1>5, <1>6

\* The answer replaces the cookie by a good token of its family.
LEMMA GrantedKeeps == ASSUME WebLocks, IInv, NEW t \in Tabs, Granted(t) PROVE IInv'
<1> USE DEF IInv, server, bounds
<1> DEFINE msg == [type |-> "refreshed", tok |-> IF refresh[t] = "granted" THEN carried[t] ELSE NoToken]
<1>1. /\ refresh[t] \in {"granted", "garbled"} /\ Inside(t) /\ Answered(t)
      /\ cookie' = carried[t] /\ recent' = TRUE
      /\ chan' = Post(t, msg)
      /\ UNCHANGED <<server, expired, at, orphans, bounds, lost, revoked>>
  BY DEF Granted, Inside, Answered
<1>2. carried[t] \in Token /\ carried[t] # NoToken
  BY <1>1, SessionAssumption DEF AnswersCarry
<1>3. Ends(t)
  BY DEF Granted, Ends, Resume
<1>4. msg \in Message
  BY <1>2 DEF Message
<1> HIDE DEF msg
<1>5. chan' \in [Tabs -> Seq(Message)]
  BY <1>1, <1>4, PostKeeps
<1>6. TypeOK'
  <2>1. cache' \in [Tabs -> Token \cup {Cold, LoggedOut}]
    BY <1>2 DEF Granted, TypeOK
  <2>2. recent' \in BOOLEAN
    BY <1>1
  <2> QED
    BY <1>1, <1>2, <1>3, <1>5, <2>1, <2>2, EndsTyped DEF TypeOK
<1>7. /\ refresh'[t] = "none" /\ carried'[t] = NoToken
      /\ \A u \in Tabs : u # t => refresh'[u] = refresh[u] /\ carried'[u] = carried[u]
  BY <1>3, EndsTyped
<1>8. OneInside' /\ AnswersCarry'
  BY <1>7 DEF OneInside, Inside, AnswersCarry, Answered
<1>9. OneRowPerFamily' /\ Known'
  BY <1>1, <1>2, <1>7 DEF OneRowPerFamily, Known
<1>10. \A u \in Tabs : ~Inside(u)'
  BY <1>1, <1>7 DEF OneInside, Inside
<1>11. Stamped'
  BY <1>1, <1>10 DEF Stamped, Answered, Inside
<1>12. NothingLost'
  BY <1>1, <1>2, <1>10 DEF NothingLost, Good, Family
<1>13. ReuseMeansALostAnswer'
  BY <1>1 DEF ReuseMeansALostAnswer
<1> QED
  BY <1>6, <1>8, <1>9, <1>11, <1>12, <1>13

LEMMA RefusedKeeps == ASSUME IInv, NEW t \in Tabs, Refused(t) PROVE IInv'
<1> USE DEF IInv, server, bounds
<1> DEFINE msg == [type |-> "failed", tok |-> NoToken]
<1>1. /\ refresh[t] = "refused" /\ chan' = Post(t, msg)
      /\ UNCHANGED <<server, cookie, recent, expired, at, cache, orphans, bounds, lost, revoked>>
  BY DEF Refused
<1>2. Ends(t)
  BY DEF Refused, Ends, GiveUp
<1>3. msg \in Message /\ msg.type # "refreshed"
  BY DEF Message
<1> HIDE DEF msg
<1>4. /\ chan' \in [Tabs -> Seq(Message)]
      /\ \A u \in Tabs : \A i \in DOMAIN chan'[u] :
            chan'[u][i] = msg \/ (i \in DOMAIN chan[u] /\ chan'[u][i] = chan[u][i])
  BY <1>1, <1>3, PostKeeps
<1>5. TypeOK'
  BY <1>1, <1>2, <1>4, EndsTyped DEF TypeOK
<1>6. /\ refresh'[t] = "none" /\ carried'[t] = NoToken
      /\ \A u \in Tabs : u # t => refresh'[u] = refresh[u] /\ carried'[u] = carried[u]
  BY <1>2, EndsTyped
<1>7. OneInside' /\ AnswersCarry'
  BY <1>6 DEF OneInside, Inside, AnswersCarry, Answered
<1>8. OneRowPerFamily' /\ Known'
  BY <1>1, <1>6 DEF OneRowPerFamily, Known
<1>9. Stamped'
  <2>1. \A u \in Tabs : \A i \in DOMAIN chan'[u] : chan'[u][i].type = "refreshed" => recent
    BY <1>3, <1>4 DEF Stamped
  <2>2. \A u \in Tabs : refresh'[u] = "sent" \/ Answered(u)' => ~recent
    BY <1>6 DEF Stamped, Answered
  <2> QED
    BY <1>1, <2>1, <2>2 DEF Stamped
<1>10. NothingLost'
  BY <1>1, <1>6 DEF NothingLost, Good, Family, Inside, Answered
<1>11. ReuseMeansALostAnswer'
  BY <1>1 DEF ReuseMeansALostAnswer
<1> QED
  BY <1>5, <1>7, <1>8, <1>9, <1>10, <1>11

\* A message that says a refresh was done finds the stamp fresh already.
LEMMA DeliverKeeps == ASSUME IInv, NEW t \in Tabs, Deliver(t) PROVE IInv'
<1> USE DEF IInv, server, bounds
<1>1. /\ chan[t] # <<>> /\ chan' = [chan EXCEPT ![t] = Tail(@)]
      /\ UNCHANGED <<server, cookie, expired, at, refresh, carried, waiting,
                     orphans, bounds, lost, revoked>>
  BY DEF Deliver
<1>2. Head(chan[t]) \in Message /\ Head(chan[t]) = chan[t][1] /\ 1 \in DOMAIN chan[t]
  BY <1>1, TailKeeps
<1>3. recent' = recent
  <2>1. Head(chan[t]).type = "refreshed" => recent
    BY <1>2 DEF Stamped
  <2>2. recent' = (recent \/ Head(chan[t]).type = "refreshed")
    BY DEF Deliver
  <2>3. recent \in BOOLEAN
    BY DEF TypeOK
  <2> QED
    BY <2>1, <2>2, <2>3
<1>4. chan' \in [Tabs -> Seq(Message)]
  BY <1>1, TailKeeps
<1>5. TypeOK'
  <2>1. cache' \in [Tabs -> Token \cup {Cold, LoggedOut}]
    BY <1>2 DEF Deliver, Hydrates, Message, TypeOK
  <2>2. doc' \in [Tabs -> {"up", "leaving"}]
    BY DEF Deliver, Leaving, TypeOK
  <2> QED
    BY <1>1, <1>3, <1>4, <2>1, <2>2 DEF TypeOK
<1>6. OneInside' /\ AnswersCarry' /\ OneRowPerFamily' /\ Known'
  BY <1>1 DEF OneInside, Inside, AnswersCarry, Answered, OneRowPerFamily, Known
<1>7. Stamped'
  <2>1. /\ chan'[t] = Tail(chan[t])
        /\ \A u \in Tabs : u # t => chan'[u] = chan[u]
    BY <1>1 DEF TypeOK
  <2>2. \A i \in DOMAIN Tail(chan[t]) :
           i + 1 \in DOMAIN chan[t] /\ Tail(chan[t])[i] = chan[t][i + 1]
    BY <1>1, TailKeeps
  <2>3. \A i \in DOMAIN chan'[t] : chan'[t][i].type = "refreshed" => recent
    BY <2>1, <2>2 DEF Stamped
  <2> QED
    BY <1>1, <1>3, <2>1, <2>3 DEF Stamped, Answered
<1>8. NothingLost' /\ ReuseMeansALostAnswer'
  BY <1>1 DEF NothingLost, Good, Family, Inside, Answered, ReuseMeansALostAnswer
<1> QED
  BY <1>4, <1>5, <1>6, <1>7, <1>8

-----------------------------------------------------------------------------
(* Requests, sign-in, sign-out and time.                                   *)

LEMMA UnauthorizedKeeps == ASSUME IInv, NEW t \in Tabs, Unauthorized(t) PROVE IInv'
<1> USE DEF IInv, server, bounds, page
<1>1. /\ waiting' = [waiting EXCEPT ![t] = @ \cup {"call"}]
      /\ refresh' = [refresh EXCEPT ![t] = IF @ = "none" THEN "queued" ELSE @]
      /\ refresh'[t] = IF refresh[t] = "none" THEN "queued" ELSE refresh[t]
      /\ \A u \in Tabs : u # t => refresh'[u] = refresh[u]
      /\ UNCHANGED <<server, cookie, recent, expired, page, cache, carried, chan,
                     orphans, bounds, lost, revoked>>
  BY DEF Unauthorized, TypeOK
<1>2. \A u \in Tabs : /\ refresh'[u] = "none" => u # t /\ refresh[u] = "none"
                      /\ Inside(u)' <=> Inside(u)
                      /\ Answered(u)' <=> Answered(u)
                      /\ refresh'[u] = "sent" <=> refresh[u] = "sent"
  BY <1>1 DEF Inside, Answered
<1>3. TypeOK'
  <2>1. waiting[t] \cup {"call"} \in SUBSET {"probe", "call"} /\ waiting[t] \cup {"call"} # {}
    BY DEF TypeOK
  <2>2. waiting' \in [Tabs -> SUBSET {"probe", "call"}]
    BY <1>1, <2>1 DEF TypeOK
  <2>3. \A u \in Tabs : waiting'[u] = {} <=> refresh'[u] = "none"
    BY <1>1, <2>1 DEF TypeOK
  <2>4. refresh' \in [Tabs -> {"none", "queued", "sent", "granted", "garbled", "refused"}]
    BY <1>1 DEF TypeOK
  <2> QED
    BY <1>1, <2>2, <2>3, <2>4 DEF TypeOK
<1>4. OneInside' /\ AnswersCarry' /\ OneRowPerFamily' /\ Known'
  BY <1>1, <1>2 DEF OneInside, AnswersCarry, OneRowPerFamily, Known
<1>5. Stamped'
  BY <1>1, <1>2 DEF Stamped
<1>6. NothingLost' /\ ReuseMeansALostAnswer'
  BY <1>1, <1>2 DEF NothingLost, Good, Family, ReuseMeansALostAnswer
<1> QED
  BY <1>3, <1>4, <1>5, <1>6

\* A login starts a family no token is of.
LEMMA LoginKeeps == ASSUME IInv, NEW t \in Tabs, Login(t) PROVE IInv'
<1> USE DEF IInv, bounds
<1>0. PICK tok : tok = <<families + 1, 1>>
  OBVIOUS
<1> DEFINE msg == [type |-> "login", tok |-> tok]
<1>1. /\ families < MaxFamilies /\ families' = families + 1
      /\ rows' = rows \cup {tok} /\ cookie' = tok
      /\ chan' = Post(t, msg)
      /\ UNCHANGED <<recent, expired, doc, refresh, carried, waiting, orphans, bounds,
                     lost, revoked>>
  BY <1>0 DEF Login
<1>2. tok \in Token /\ tok[1] = families + 1 /\ families \in Nat
  BY <1>0, <1>1, SessionAssumption DEF TypeOK, Token
<1>3. msg \in Message /\ msg.type # "refreshed"
  BY <1>2 DEF Message
<1> HIDE DEF msg
<1>4. /\ chan' \in [Tabs -> Seq(Message)]
      /\ \A u \in Tabs : \A i \in DOMAIN chan'[u] :
            chan'[u][i] = msg \/ (i \in DOMAIN chan[u] /\ chan'[u][i] = chan[u][i])
  BY <1>1, <1>3, PostKeeps
<1>5. TypeOK'
  <2>1. families' \in 0 .. MaxFamilies
    BY <1>1, SessionAssumption DEF TypeOK
  <2>2. cache' \in [Tabs -> Token \cup {Cold, LoggedOut}]
    BY <1>0, <1>2 DEF TypeOK, Login
  <2>3. at' \in [Tabs -> {"app", "login"}]
    BY DEF TypeOK, Login
  <2> QED
    BY <1>1, <1>2, <1>4, <2>1, <2>2, <2>3 DEF TypeOK
<1>6. OneInside' /\ AnswersCarry'
  BY <1>1 DEF OneInside, Inside, AnswersCarry, Answered
<1>7. \A r \in rows : r \in Token /\ r[1] \in Nat /\ r[1] <= families
  BY TokenParts DEF TypeOK, Known
<1>8. OneRowPerFamily'
  BY <1>1, <1>2, <1>7 DEF OneRowPerFamily
<1>9. Known'
  <2>1. \A u \in Tabs : carried[u] # NoToken => carried[u] \in Token /\ carried[u][1] <= families
    BY DEF Known, TypeOK
  <2>2. \A u \in Tabs : carried[u] # NoToken => carried[u][1] <= families + 1
    BY <1>2, <2>1, TokenParts
  <2>3. \A r \in rows' : r[1] <= families + 1
    BY <1>1, <1>2, <1>7
  <2> QED
    BY <1>1, <1>2, <2>2, <2>3 DEF Known
<1>10. Stamped'
  BY <1>1, <1>3, <1>4 DEF Stamped, Answered
<1>11. NothingLost'
  <2>1. ASSUME NEW x \in Token, Good(x), x[1] <= families
        PROVE  x \in rows' \/ {r \in rows' : r[1] = x[1]} = {}
    <3>1. x[1] # tok[1]
      BY <1>2, <2>1, TokenParts
    <3> QED
      BY <1>1, <2>1, <3>1 DEF Good, Family
  <2>2. SUFFICES ASSUME ~lost
                 PROVE  NothingLost'
    BY <1>1 DEF NothingLost
  <2>3. ASSUME NEW u \in Tabs, Inside(u), carried[u] # NoToken
        PROVE  carried[u] \in rows' \/ {r \in rows' : r[1] = carried[u][1]} = {}
    <3>1. carried[u] \in Token /\ Good(carried[u]) /\ carried[u][1] <= families
      BY <2>2, <2>3 DEF NothingLost, TypeOK, Known
    <3> QED
      BY <2>1, <3>1
  <2> QED
    BY <1>1, <2>2, <2>3 DEF NothingLost, Good, Family, Inside
<1>12. ReuseMeansALostAnswer'
  BY <1>1 DEF ReuseMeansALostAnswer
<1> QED
  BY <1>5, <1>6, <1>8, <1>9, <1>10, <1>11, <1>12

\* What takes rows away, whole families at a time.
LEMMA FewerRowsKeep ==
    ASSUME IInv,
           \A f : {r \in rows' : r[1] = f} = {} \/ {r \in rows' : r[1] = f} = Family(f),
           rows' \in SUBSET rows,
           cookie' \in {cookie, NoToken},
           UNCHANGED <<families, recent, refresh, carried, chan, orphans, lost, revoked>>
    PROVE  OneInside' /\ AnswersCarry' /\ OneRowPerFamily' /\ Known' /\ Stamped'
           /\ NothingLost' /\ ReuseMeansALostAnswer'
<1> USE DEF IInv
<1>1. OneInside' /\ AnswersCarry' /\ OneRowPerFamily' /\ Stamped'
  BY DEF OneInside, Inside, AnswersCarry, Answered, OneRowPerFamily, Stamped
<1>2. Known'
  BY DEF Known
<1>3. \A x : Good(x) => x \in rows' \/ {r \in rows' : r[1] = x[1]} = {}
  BY DEF Good, Family
<1>4. NothingLost'
  BY <1>3 DEF NothingLost, Good, Family, Inside, Answered
<1>5. ReuseMeansALostAnswer'
  BY DEF ReuseMeansALostAnswer
<1> QED
  BY <1>1, <1>2, <1>4, <1>5

LEMMA LogoutKeeps == ASSUME IInv, NEW t \in Tabs, Logout(t) PROVE IInv'
<1>1. /\ UNCHANGED <<families, recent, expired, at, refresh, carried, waiting, chan,
                     orphans, reloads, lost, revoked>>
      /\ cookie' \in {cookie, NoToken} /\ rows' \in {rows, rows \ {cookie}}
  BY DEF Logout
<1>2. TypeOK'
  <2>1. faults' \in 0 .. MaxFaults
    BY SessionAssumption DEF Logout, IInv, TypeOK
  <2>2. cache' \in [Tabs -> Token \cup {Cold, LoggedOut}] /\ doc' \in [Tabs -> {"up", "leaving"}]
    BY DEF Logout, Leaving, IInv, TypeOK
  <2>3. rows' \in SUBSET Token /\ cookie' \in Token \cup {NoToken}
    BY <1>1 DEF IInv, TypeOK
  <2> QED
    BY <1>1, <2>1, <2>2, <2>3 DEF IInv, TypeOK
<1>3. \A f : {r \in rows' : r[1] = f} = {} \/ {r \in rows' : r[1] = f} = Family(f)
  BY <1>1 DEF IInv, OneRowPerFamily, Family
<1> QED
  BY <1>1, <1>2, <1>3, FewerRowsKeep DEF IInv

LEMMA ForceLogoutKeeps == ASSUME IInv, ForceLogout PROVE IInv'
<1> USE DEF IInv, page, bounds
<1>1. TypeOK'
  BY DEF ForceLogout, TypeOK
<1>2. \A f : {r \in rows' : r[1] = f} = {}
  BY DEF ForceLogout
<1> QED
  BY <1>1, <1>2, FewerRowsKeep DEF ForceLogout

\* What leaves the rows, the cookie and the refreshes alone.
LEMMA QuietKeeps ==
    ASSUME IInv, TypeOK',
           UNCHANGED <<server, cookie, refresh, carried, orphans, lost, revoked>>,
           \/ UNCHANGED <<recent, chan>>
           \/ recent' = FALSE /\ \A t \in Tabs : chan'[t] = <<>>
    PROVE  IInv'
<1> USE DEF IInv, server
<1>1. OneInside' /\ AnswersCarry' /\ OneRowPerFamily' /\ Known'
  BY DEF OneInside, Inside, AnswersCarry, Answered, OneRowPerFamily, Known
<1>2. Stamped'
  BY DEF Stamped, Answered
<1>3. NothingLost' /\ ReuseMeansALostAnswer'
  BY DEF NothingLost, Good, Family, Inside, Answered, ReuseMeansALostAnswer
<1> QED
  BY <1>1, <1>2, <1>3

LEMMA QuietSteps ==
    ASSUME IInv,
           \/ \E t \in Tabs : AlreadySignedIn(t)
           \/ \E tok \in Token : Expire(tok)
           \/ DebounceEnds
           \/ UNCHANGED vars
    PROVE  IInv'
<1>1. CASE \E t \in Tabs : AlreadySignedIn(t)
  <2>1. TypeOK'
    BY <1>1 DEF AlreadySignedIn, IInv, TypeOK, server, bounds
  <2> QED
    BY <1>1, <2>1, QuietKeeps DEF AlreadySignedIn
<1>2. CASE \E tok \in Token : Expire(tok)
  <2>1. TypeOK'
    BY <1>2 DEF Expire, IInv, TypeOK, server, bounds, page
  <2> QED
    BY <1>2, <2>1, QuietKeeps DEF Expire
<1>3. CASE DebounceEnds
  <2>1. TypeOK'
    BY <1>3 DEF DebounceEnds, IInv, TypeOK, server, bounds, page
  <2> QED
    BY <1>3, <2>1, QuietKeeps DEF DebounceEnds
<1>4. CASE UNCHANGED vars
  <2>1. TypeOK'
    BY <1>4 DEF IInv, TypeOK, vars
  <2> QED
    BY <1>4, <2>1, QuietKeeps DEF vars, server
<1> QED
  BY <1>1, <1>2, <1>3, <1>4

-----------------------------------------------------------------------------
(* The theorems.                                                           *)

LEMMA StepKeeps == ASSUME WebLocks, IInv, [Next]_vars PROVE IInv'
<1>1. ASSUME NEW t \in Tabs, Enter(t) PROVE IInv'
  BY <1>1, DebounceHitKeeps, SendRefreshKeeps DEF Enter
<1>2. ASSUME NEW t \in Tabs, Fetched(t) PROVE IInv'
  BY <1>2, ServeKeeps, RefreshUnsentKeeps DEF Fetched
<1>3. ASSUME NEW t \in Tabs, Settle(t) PROVE IInv'
  BY <1>3, GrantedKeeps, RefusedKeeps DEF Settle
<1> QED
  BY <1>1, <1>2, <1>3, DeliverKeeps, UnauthorizedKeeps, LoginKeeps, LogoutKeeps,
     ReloadKeeps, NavigateKeeps, ServeOrphanKeeps, ForceLogoutKeeps, QuietSteps DEF Next

LEMMA InvariantHolds == ASSUME WebLocks PROVE Spec => []IInv
<1>1. Init => IInv
  BY InitKeeps
<1>2. IInv /\ [Next]_vars => IInv'
  BY StepKeeps
<1> QED
  BY <1>1, <1>2, PTL DEF Spec

\* With navigator.locks every state of a session is well typed, and somebody
\* waits for the refreshPromise of a tab exactly as long as there is one.
THEOREM TypeCorrect == ASSUME WebLocks PROVE Spec => []TypeOK
<1>1. IInv => TypeOK
  BY DEF IInv
<1> QED
  BY <1>1, InvariantHolds, PTL

\* With navigator.locks RefreshTokens revokes a family for the replay of its
\* token only after a refresh was cut off between the server and its page.
THEOREM ReuseExplained == ASSUME WebLocks PROVE Spec => []ReuseMeansALostAnswer
<1>1. IInv => ReuseMeansALostAnswer
  BY DEF IInv
<1> QED
  BY <1>1, InvariantHolds, PTL

\* With navigator.locks no tab has a token rotated within the debounce window
\* of another rotation (performNetworkRefresh, withLockOrCoalesce).
THEOREM RotationNotBurned == ASSUME WebLocks PROVE Spec => []NoBurnedRotation
<1>1. IInv => NoBurnedRotation
  BY DEF IInv, Stamped, Answered, NoBurnedRotation
<1> QED
  BY <1>1, InvariantHolds, PTL

-----------------------------------------------------------------------------
(* All tabs together are one client of the server.                         *)

\* Asked and Answers of any refreshes r that carry c.
AskedBy(r, c) == {c[t] : t \in {u \in Tabs : r[u] = "sent"}}
AnswersTo(r, c) ==
    {IF r[t] = "refused" THEN NoToken ELSE c[t] :
        t \in {u \in Tabs : r[u] \in {"granted", "garbled", "refused"}}}

Within == {"sent", "granted", "garbled", "refused"}

\* Refreshes that are not in fetch do not count.
LEMMA NoneInside ==
    ASSUME NEW r, NEW c, \A u \in Tabs : r[u] \notin Within
    PROVE  AskedBy(r, c) = {} /\ AnswersTo(r, c) = {}
  BY DEF AskedBy, AnswersTo, Within

\* The one that is decides.
LEMMA OneCounts ==
    ASSUME NEW r, NEW c, NEW t \in Tabs, \A u \in Tabs : u # t => r[u] \notin Within
    PROVE  /\ r[t] \notin Within => AskedBy(r, c) = {} /\ AnswersTo(r, c) = {}
           /\ r[t] = "sent" => AskedBy(r, c) = {c[t]} /\ AnswersTo(r, c) = {}
           /\ r[t] \in {"granted", "garbled"}
                 => AskedBy(r, c) = {} /\ AnswersTo(r, c) = {c[t]}
           /\ r[t] = "refused" => AskedBy(r, c) = {} /\ AnswersTo(r, c) = {NoToken}
<1>1. r[t] \notin Within => AskedBy(r, c) = {} /\ AnswersTo(r, c) = {}
  <2>1. r[t] \notin Within => \A u \in Tabs : r[u] \notin Within
    OBVIOUS
  <2> QED
    BY <2>1, NoneInside
<1>2. ASSUME r[t] = "sent" PROVE AskedBy(r, c) = {c[t]} /\ AnswersTo(r, c) = {}
  <2>1. {u \in Tabs : r[u] = "sent"} = {t}
    BY <1>2 DEF Within
  <2>2. {u \in Tabs : r[u] \in {"granted", "garbled", "refused"}} = {}
    BY <1>2 DEF Within
  <2> QED
    BY <2>1, <2>2 DEF AskedBy, AnswersTo
<1>3. ASSUME r[t] \in {"granted", "garbled", "refused"}
      PROVE  /\ AskedBy(r, c) = {}
             /\ AnswersTo(r, c) = {IF r[t] = "refused" THEN NoToken ELSE c[t]}
  <2>1. {u \in Tabs : r[u] = "sent"} = {}
    BY <1>3 DEF Within
  <2>2. {u \in Tabs : r[u] \in {"granted", "garbled", "refused"}} = {t}
    BY <1>3 DEF Within
  <2> QED
    BY <2>1, <2>2 DEF AskedBy, AnswersTo
<1> QED
  BY <1>1, <1>2, <1>3

\* What changes outside of fetch is not seen.
LEMMA SameCounts ==
    ASSUME NEW r, NEW c, NEW r2, NEW c2,
           \A u \in Tabs : \/ r2[u] = r[u] /\ c2[u] = c[u]
                           \/ r[u] \notin Within /\ r2[u] \notin Within
    PROVE  AskedBy(r2, c2) = AskedBy(r, c) /\ AnswersTo(r2, c2) = AnswersTo(r, c)
<1>1. {u \in Tabs : r2[u] = "sent"} = {u \in Tabs : r[u] = "sent"}
  BY DEF Within
<1>2. {u \in Tabs : r2[u] \in {"granted", "garbled", "refused"}}
        = {u \in Tabs : r[u] \in {"granted", "garbled", "refused"}}
  BY DEF Within
<1>3. \A u \in Tabs : r[u] \in Within => r2[u] = r[u] /\ c2[u] = c[u]
  OBVIOUS
<1>4. AskedBy(r2, c2) = AskedBy(r, c)
  BY <1>1, <1>3 DEF AskedBy, Within
<1>5. AnswersTo(r2, c2) = AnswersTo(r, c)
  <2>1. \A u \in Tabs : r[u] \in {"granted", "garbled", "refused"}
          => (IF r2[u] = "refused" THEN NoToken ELSE c2[u])
             = (IF r[u] = "refused" THEN NoToken ELSE c[u])
    BY <1>3 DEF Within
  <2> QED
    BY <1>2, <2>1 DEF AnswersTo
<1> QED
  BY <1>4, <1>5

LEMMA ByDefinition ==
    /\ Asked = AskedBy(refresh, carried) /\ Asked' = AskedBy(refresh', carried')
    /\ Answers = AnswersTo(refresh, carried) /\ Answers' = AnswersTo(refresh', carried')
    /\ \A t \in Tabs : Inside(t) <=> refresh[t] \in Within
  BY DEF Asked, AskedBy, Answers, AnswersTo, Inside, Within

\* A tab asks when no other does.
LEMMA SendRefreshAsks ==
    ASSUME WebLocks, IInv, NEW t \in Tabs, SendRefresh(t)
    PROVE  Client!Ask
<1>1. /\ \A u \in Tabs : refresh[u] \notin Within
      /\ ~recent
      /\ refresh'[t] = "sent" /\ carried'[t] = cookie
      /\ \A u \in Tabs : u # t => refresh'[u] = refresh[u]
      /\ UNCHANGED <<rows, families, cookie, recent, orphans, lost, revoked>>
  BY ByDefinition DEF SendRefresh, MayEnter, Debounced, IInv, TypeOK, server
<1>2. Asked = {} /\ Answers = {}
  BY <1>1, NoneInside, ByDefinition
<1>3. Asked' = {cookie} /\ Answers' = {}
  BY <1>1, OneCounts, ByDefinition
<1> QED
  BY <1>1, <1>2, <1>3 DEF Client!Ask

\* What a tab in fetch knows of the others.
LEMMA AloneInside ==
    ASSUME IInv, NEW t \in Tabs, Inside(t)
    PROVE  \A u \in Tabs : u # t => refresh[u] \notin Within
  BY ByDefinition DEF IInv, OneInside

\* The server's part, for whoever sent the token.
LEMMA RowsRefreshed ==
    ASSUME NEW tok, rows' = RowsAfter(tok), revoked' = (revoked \/ Replayed(tok)),
           revoked \in BOOLEAN
    PROVE  Client!Refresh(tok)
<1>1. CASE tok \in rows
  <2>1. revoked' = revoked
    BY <1>1, Zenon DEF Replayed
  <2> QED
    BY <1>1, <2>1 DEF RowsAfter, Next1, Client!Refresh
<1>2. CASE tok \notin rows /\ tok = NoToken
  <2>1. revoked' = revoked
    BY <1>2, Zenon DEF Replayed
  <2> QED
    BY <1>2, <2>1 DEF RowsAfter, Client!Refresh
<1>3. CASE tok \notin rows /\ tok # NoToken
  <2>1. Family(tok[1]) = Client!Family(tok)
    BY DEF Family, Client!Family
  <2>2. rows' = rows \ Family(tok[1])
    BY <1>3 DEF RowsAfter
  <2>3. CASE Family(tok[1]) = {}
    <3>1. revoked' = revoked
      BY <2>3, Zenon DEF Replayed
    <3> QED
      BY <1>3, <2>1, <2>2, <2>3, <3>1 DEF Client!Refresh
  <2>4. CASE Family(tok[1]) # {}
    <3>1. revoked' = TRUE
      BY <1>3, <2>4, Zenon DEF Replayed
    <3> QED
      BY <1>3, <2>1, <2>2, <2>4, <3>1 DEF Client!Refresh
  <2> QED
    BY <2>3, <2>4
<1> QED
  BY <1>1, <1>2, <1>3

LEMMA ServeServes ==
    ASSUME IInv, NEW t \in Tabs, Serve(t)
    PROVE  \E tok \in Asked : Client!Serve(tok)
<1> DEFINE tok == carried[t]
<1>1. /\ refresh[t] = "sent"
      /\ \A u \in Tabs : u # t => refresh[u] \notin Within
      /\ \A u \in Tabs : u # t => refresh'[u] = refresh[u]
      /\ rows' = RowsAfter(tok) /\ revoked' = (revoked \/ Replayed(tok))
      /\ UNCHANGED <<families, cookie, recent, orphans>>
      /\ revoked \in BOOLEAN
  BY AloneInside DEF Serve, Inside, IInv, TypeOK
<1>2. Asked = {tok}
  BY <1>1, OneCounts, ByDefinition
<1>3. PICK k \in Asked : k = tok
  BY <1>2
<1>4. Client!Refresh(k)
  BY <1>1, <1>3, RowsRefreshed
<1>5. \/ /\ refresh'[t] = (IF tok \in rows THEN "granted" ELSE "refused")
         /\ carried'[t] = (IF tok \in rows THEN Next1(tok) ELSE NoToken)
         /\ lost' = lost
      \/ /\ tok \in rows /\ refresh'[t] = "garbled" /\ carried'[t] = Next1(tok)
         /\ lost' = lost
      \/ tok \in rows /\ refresh'[t] = "refused" /\ lost' = TRUE
  BY DEF Serve, IInv, TypeOK
<1>6. Asked' = {}
  BY <1>1, <1>5, OneCounts, ByDefinition
<1>7. \/ /\ Answers' = (IF k \in rows THEN {<<k[1], k[2] + 1>>} ELSE {NoToken})
         /\ lost' = lost
      \/ k \in rows /\ Answers' = {NoToken} /\ lost' = TRUE
  <2>1. /\ refresh'[t] \in {"granted", "garbled"} => Answers' = {carried'[t]}
        /\ refresh'[t] = "refused" => Answers' = {NoToken}
    BY <1>1, OneCounts, ByDefinition
  <2> QED
    BY <1>3, <1>5, <2>1 DEF Next1
<1>8. Client!Serve(k)
  BY <1>1, <1>3, <1>4, <1>6, <1>7 DEF Client!Serve
<1> QED
  BY <1>3, <1>8

LEMMA RefreshUnsentServes ==
    ASSUME IInv, NEW t \in Tabs, RefreshUnsent(t)
    PROVE  Client!NeverServed
<1>1. /\ refresh[t] = "sent" /\ refresh'[t] = "refused"
      /\ \A u \in Tabs : u # t => refresh[u] \notin Within
      /\ \A u \in Tabs : u # t => refresh'[u] = refresh[u]
      /\ UNCHANGED <<rows, families, cookie, recent, orphans, lost, revoked>>
  BY AloneInside DEF RefreshUnsent, Inside, IInv, TypeOK, server
<1>2. Asked = {carried[t]} /\ Asked' = {} /\ Answers' = {NoToken}
  BY <1>1, OneCounts, ByDefinition
<1> QED
  BY <1>1, <1>2 DEF Client!NeverServed

LEMMA SettleTakes ==
    ASSUME IInv, NEW t \in Tabs, Settle(t)
    PROVE  \E tok \in Answers : Client!Take(tok)
<1>1. Inside(t) /\ refresh'[t] = "none"
  BY DEF Settle, Granted, Refused, Resume, GiveUp, Inside, IInv, TypeOK
<1>2. /\ \A u \in Tabs : u # t => refresh[u] \notin Within
      /\ \A u \in Tabs : u # t => refresh'[u] = refresh[u]
      /\ UNCHANGED <<rows, families, orphans, lost, revoked>>
  <2>1. \A u \in Tabs : u # t => refresh[u] \notin Within
    BY <1>1, AloneInside
  <2>2. refresh' = [refresh EXCEPT ![t] = "none"]
    BY DEF Settle, Granted, Refused, Resume, GiveUp
  <2>3. UNCHANGED <<rows, families, orphans, lost, revoked>>
    BY DEF Settle, Granted, Refused, server
  <2> QED
    BY <2>1, <2>2, <2>3 DEF IInv, TypeOK
<1>3. Asked' = {} /\ Answers' = {}
  BY <1>1, <1>2, OneCounts, ByDefinition DEF Within
<1>4. CASE Granted(t)
  <2>1. refresh[t] \in {"granted", "garbled"} /\ cookie' = carried[t] /\ recent' = TRUE
    BY <1>4 DEF Granted
  <2>2. Asked = {} /\ Answers = {carried[t]}
    BY <1>2, <2>1, OneCounts, ByDefinition
  <2>3. carried[t] # NoToken
    BY <2>1, SessionAssumption DEF IInv, AnswersCarry, Answered
  <2>4. PICK k \in Answers : k = carried[t]
    BY <2>2
  <2>5. Client!Take(k)
    BY <1>2, <1>3, <2>1, <2>2, <2>3, <2>4 DEF Client!Take
  <2> QED
    BY <2>4, <2>5
<1>5. CASE Refused(t)
  <2>1. refresh[t] = "refused" /\ UNCHANGED <<cookie, recent>>
    BY <1>5 DEF Refused
  <2>2. Asked = {} /\ Answers = {NoToken}
    BY <1>2, <2>1, OneCounts, ByDefinition
  <2>3. Client!Take(NoToken)
    BY <1>2, <1>3, <2>1, <2>2 DEF Client!Take
  <2> QED
    BY <2>2, <2>3
<1> QED
  BY <1>4, <1>5 DEF Settle

\* A page that goes forgets the refresh it had, if it had one.
LEMMA GoneForgets ==
    ASSUME IInv, NEW t \in Tabs, Abandon(t), Boot(t),
           UNCHANGED <<rows, families, recent, revoked>>
    PROVE  \/ \E tok \in Asked : Client!ForgetRequest(tok)
           \/ \E tok \in Answers : Client!Take(tok) \/ Client!ForgetAnswer(tok)
           \/ UNCHANGED Client!vars
<1>1. /\ refresh'[t] = "queued"
      /\ \A u \in Tabs : u # t => refresh'[u] = refresh[u] /\ carried'[u] = carried[u]
  BY DEF Boot, IInv, TypeOK
<1>2. CASE refresh[t] \in {"none", "queued"}
  <2>1. UNCHANGED <<orphans, cookie, lost>>
    BY <1>2 DEF Abandon
  <2>2. Asked' = Asked /\ Answers' = Answers
    BY <1>1, <1>2, SameCounts, ByDefinition DEF Within
  <2> QED
    BY <2>1, <2>2 DEF Client!vars
<1>3. ASSUME Inside(t)
      PROVE  /\ Asked' = {} /\ Answers' = {}
             /\ \A u \in Tabs : u # t => refresh[u] \notin Within
  <2>1. \A u \in Tabs : u # t => refresh[u] \notin Within
    BY <1>3, AloneInside
  <2> QED
    BY <1>1, <2>1, OneCounts, ByDefinition DEF Within
<1>4. CASE refresh[t] = "sent"
  <2>1. /\ orphans' = orphans \cup ({carried[t]} \ {NoToken})
        /\ lost' = TRUE /\ cookie' = cookie
    BY <1>4 DEF Abandon
  <2>2. Asked = {carried[t]} /\ Answers = {} /\ Asked' = {} /\ Answers' = {}
    BY <1>3, <1>4, OneCounts, ByDefinition DEF Inside
  <2>3. PICK k \in Asked : k = carried[t]
    BY <2>2
  <2>4. Client!ForgetRequest(k)
    BY <2>1, <2>2, <2>3 DEF Client!ForgetRequest
  <2> QED
    BY <2>3, <2>4
<1>5. CASE refresh[t] \in {"granted", "garbled"}
  <2>1. cookie' \in {cookie, carried[t]} /\ lost' = TRUE /\ orphans' = orphans
    BY <1>5 DEF Abandon
  <2>2. Asked = {} /\ Answers = {carried[t]} /\ Asked' = {} /\ Answers' = {}
    BY <1>3, <1>5, OneCounts, ByDefinition DEF Inside
  <2>3. carried[t] # NoToken
    BY <1>5, SessionAssumption DEF IInv, AnswersCarry, Answered
  <2>4. PICK k \in Answers : k = carried[t]
    BY <2>2
  <2>5. Client!ForgetAnswer(k)
    BY <2>1, <2>2, <2>3, <2>4 DEF Client!ForgetAnswer
  <2> QED
    BY <2>4, <2>5
<1>6. CASE refresh[t] = "refused"
  <2>1. UNCHANGED <<orphans, cookie, lost>>
    BY <1>6 DEF Abandon
  <2>2. Asked = {} /\ Answers = {NoToken} /\ Asked' = {} /\ Answers' = {}
    BY <1>3, <1>6, OneCounts, ByDefinition DEF Inside
  <2>3. Client!Take(NoToken)
    BY <2>1, <2>2 DEF Client!Take
  <2> QED
    BY <2>2, <2>3
<1> QED
  BY <1>2, <1>4, <1>5, <1>6 DEF IInv, TypeOK

\* Tabs that wait, hit the window, or hear of a refresh are not seen.
LEMMA QuietUnseen ==
    ASSUME UNCHANGED <<rows, families, cookie, recent, orphans, lost, revoked>>,
           \A u \in Tabs : \/ refresh'[u] = refresh[u] /\ carried'[u] = carried[u]
                           \/ refresh[u] \notin Within /\ refresh'[u] \notin Within
    PROVE  UNCHANGED Client!vars
<1>1. Asked' = Asked /\ Answers' = Answers
  BY SameCounts, ByDefinition
<1> QED
  BY <1>1 DEF Client!vars

LEMMA TabsUnseen ==
    ASSUME IInv, NEW t \in Tabs,
           DebounceHit(t) \/ Deliver(t) \/ Unauthorized(t) \/ AlreadySignedIn(t)
    PROVE  UNCHANGED Client!vars
<1>1. CASE DebounceHit(t)
  BY <1>1, QuietUnseen
  DEF DebounceHit, MayEnter, Resume, Within, IInv, TypeOK, server
<1>2. CASE Deliver(t)
  <2>1. recent' = recent
    <3>1. chan[t] \in Seq(Message) /\ chan[t] # <<>> /\ recent \in BOOLEAN
      BY <1>2 DEF Deliver, IInv, TypeOK
    <3>2. Head(chan[t]) = chan[t][1] /\ 1 \in DOMAIN chan[t]
      BY <3>1
    <3>3. Head(chan[t]).type = "refreshed" => recent
      BY <3>2 DEF IInv, Stamped
    <3>4. recent' = (recent \/ Head(chan[t]).type = "refreshed")
      BY <1>2 DEF Deliver
    <3> QED
      BY <3>1, <3>3, <3>4, Zenon
  <2> QED
    BY <1>2, <2>1, QuietUnseen DEF Deliver, server
<1>3. CASE Unauthorized(t)
  BY <1>3, QuietUnseen DEF Unauthorized, Within, IInv, TypeOK, server
<1>4. CASE AlreadySignedIn(t)
  BY <1>4, QuietUnseen DEF AlreadySignedIn, server
<1> QED
  BY <1>1, <1>2, <1>3, <1>4

\* What leaves the refreshes alone leaves both sets alone.
LEMMA RefreshesAlone ==
    ASSUME UNCHANGED <<refresh, carried>>
    PROVE  UNCHANGED <<Asked, Answers>>
  BY DEF Asked, Answers

LEMMA ClientStep ==
    ASSUME WebLocks, IInv, [Next]_vars
    PROVE  [Client!Next]_(Client!vars)
<1>1. ASSUME NEW t \in Tabs, Enter(t) \/ Fetched(t) \/ Settle(t) \/ Deliver(t)
      PROVE  Client!Next \/ UNCHANGED Client!vars
  BY <1>1, TabsUnseen, SendRefreshAsks, ServeServes, RefreshUnsentServes, SettleTakes
  DEF Enter, Fetched, Client!Next
<1>2. ASSUME NEW t \in Tabs, Unauthorized(t) \/ AlreadySignedIn(t)
      PROVE  UNCHANGED Client!vars
  BY <1>2, TabsUnseen
<1>3. ASSUME NEW t \in Tabs, Login(t) PROVE Client!Next
  <2>1. Client!SignIn
    BY <1>3, RefreshesAlone DEF Login, Client!SignIn
  <2> QED
    BY <2>1 DEF Client!Next
<1>4. ASSUME NEW t \in Tabs, Logout(t) PROVE Client!Next \/ UNCHANGED Client!vars
  <2>1. UNCHANGED <<Asked, Answers>>
    BY <1>4, RefreshesAlone DEF Logout
  <2>2. Client!SignOut \/ UNCHANGED Client!vars
    BY <1>4, <2>1 DEF Logout, Client!SignOut, Client!vars
  <2> QED
    BY <2>2 DEF Client!Next
<1>5. ASSUME NEW t \in Tabs, Reload(t) \/ Navigate(t)
      PROVE  Client!Next \/ UNCHANGED Client!vars
  <2>1. Abandon(t) /\ Boot(t) /\ UNCHANGED <<rows, families, recent, revoked>>
    BY <1>5 DEF Reload, Navigate, server
  <2> QED
    BY <2>1, GoneForgets DEF Client!Next
<1>6. ASSUME NEW tok \in Token, ServeOrphan(tok) PROVE Client!Next
  <2>1. Client!Refresh(tok)
    BY <1>6, RowsRefreshed DEF ServeOrphan, IInv, TypeOK
  <2>2. Client!ServeOrphan(tok)
    BY <1>6, <2>1, RefreshesAlone DEF ServeOrphan, Client!ServeOrphan
  <2> QED
    BY <1>6, <2>2 DEF ServeOrphan, Client!Next
<1>7. ASSUME NEW tok \in Token, Expire(tok) PROVE UNCHANGED Client!vars
  BY <1>7, RefreshesAlone DEF Expire, server, Client!vars
<1>8. ASSUME DebounceEnds PROVE Client!Next
  <2>1. Client!FiveSecondsPass
    BY <1>8, RefreshesAlone DEF DebounceEnds, server, Client!FiveSecondsPass
  <2> QED
    BY <2>1 DEF Client!Next
<1>9. ASSUME ForceLogout PROVE Client!Next
  <2>1. Client!ForceLogout
    BY <1>9, RefreshesAlone DEF ForceLogout, Client!ForceLogout
  <2> QED
    BY <2>1 DEF Client!Next
<1>10. ASSUME UNCHANGED vars PROVE UNCHANGED Client!vars
  BY <1>10, RefreshesAlone DEF vars, Client!vars
<1>11. Client!Next \/ UNCHANGED Client!vars
  BY <1>1, <1>2, <1>3, <1>4, <1>5, <1>6, <1>7, <1>8, <1>9, <1>10 DEF Next
<1> QED
  BY <1>11

LEMMA ClientStarts == Init => Client!Init
<1> SUFFICES ASSUME Init PROVE Client!Init
  OBVIOUS
<1>1. families = IF cookie = NoToken THEN 0 ELSE 1
  <2>1. CASE cookie = NoToken
    BY <2>1, FS_EmptySet DEF Init
  <2>2. CASE cookie # NoToken
    <3>1. rows = {cookie}
      BY <2>2 DEF Init
    <3> QED
      BY <2>2, <3>1, FS_Singleton DEF Init
  <2> QED
    BY <2>1, <2>2
<1>2. Asked = {} /\ Answers = {}
  BY NoneInside, ByDefinition DEF Init, Within
<1> QED
  BY <1>1, <1>2 DEF Init, Client!Init

\* With navigator.locks the tabs of a browser are one client to RefreshTokens: one
\* refresh under way, none within the debounce window of the last, and a token is
\* forgotten only when a page goes (withLockOrCoalesce, performNetworkRefresh).
THEOREM Implements == ASSUME WebLocks PROVE Spec => ImplementsOneClient
<1>1. Init => Client!Init
  BY ClientStarts
<1>2. IInv /\ [Next]_vars => [Client!Next]_(Client!vars)
  BY ClientStep
<1> QED
  BY <1>1, <1>2, InvariantHolds, PTL DEF Spec, ImplementsOneClient, Client!Spec
=============================================================================
