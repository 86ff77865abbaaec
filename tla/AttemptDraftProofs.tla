------------------------- MODULE AttemptDraftProofs -------------------------
(***************************************************************************)
(* Theorems about a student's work in one tab, for any number of edits,    *)
(* questions and troubles.                                                 *)
(*                                                                         *)
(* Submitting: a submit is only on its way when the row holds what the     *)
(* final flush read or something sent later, or when it cannot be taken    *)
(* any more (CanPost).  A save the server takes restores that, one it      *)
(* refuses shows that the submit would be refused too.                     *)
(* Surviving: a copy of the work that is there has every edit that was     *)
(* committed and is not lost, the page every one that is kept; the numbers *)
(* of an essay grow with its edits; where there is no mirror nothing has   *)
(* been done yet.                                                          *)
(* Acknowledging: a save in flight that is still fresh carries what is on  *)
(* screen, or something will be shown to follow it.                        *)
(***************************************************************************)
EXTENDS AttemptDraft, SequenceTheorems, TLAPS

Flushes(c) == \E i \in 1 .. Len(c) : c[i] = "final"

Shells ==
    /\ \A q \in strays : q # <<>>
    /\ ~Writing => ~foreign /\ ~commitDue
    /\ fin = "flushing" <=> Flushes(chain)
    /\ \A i, j \in 1 .. Len(chain) : chain[i] = "final" /\ chain[j] = "final" => i = j

Lossless == stored \in since \/ overtaken \/ clock = "over"
CanPost == Lossless \/ ~AcceptsSubmit

Submitting ==
    /\ NoLossySubmit
    /\ fin = "posted" \/ Flushed => CanPost
    /\ \A q \in strays : \A i \in 1 .. Len(q) : q[i].do \in {"submit", "post"} => CanPost

Acknowledging ==
    wire # Nothing /\ wire.fresh =>
        \/ wire.body = Screen \/ commitDue \/ Len(chain) >= 2 \/ EditorReadOnly
        \/ Writing /\ ~online
        \/ cache = Nothing /\ wire.body = Empty

IInv == TypeOK /\ Shells /\ Submitting /\ Acknowledging

Untouched ==
    /\ seed = Nothing /\ cache = Nothing /\ stored = Empty /\ strays = {}
    /\ committed = Empty

Has(copy, f) == copy # Nothing => Holds(copy, f)
Older(copy, f) == copy # Nothing => copy[f] <= committed[f]
Grows(f) ==
    /\ committed[f] <= edits /\ live[f] <= edits
    /\ Older(mirror, f) /\ Older(cache, f) /\ Older(seed, f)

Surviving ==
    ~cleared =>
        /\ mirror = Nothing => Untouched
        /\ \A f \in Fields :
               /\ fate[f] # "lost" => Has(mirror, f) /\ Has(cache, f)
               /\ view = "shell" /\ fate[f] = "kept" => Holds(Screen, f)
               /\ Writing => Grows(f)

-----------------------------------------------------------------------------
(* Contents, requests and errands.                                         *)

LEMMA NotContent == \A c \in Content : c # Nothing
  BY DraftAssumption

LEMMA NotRequest == \A r \in Request : r # Nothing
  BY DraftAssumption

LEMMA EmptyContent == Empty \in Content /\ \A f \in Fields : Empty[f] = 0
  BY DraftAssumption DEF Empty, Content

LEMMA ErrandParts ==
    ASSUME NEW what \in {"save", "flush", "submit", "post"}, NEW body \in Content
    PROVE  /\ Put(what, body) \in Errand /\ Put(what, body).do = what
           /\ Put(what, body).body = body
           /\ Task(what) \in Errand /\ Task(what).do = what
  BY EmptyContent DEF Put, Task, Errand

LEMMA Singleton ==
    ASSUME NEW S, NEW x \in S
    PROVE  /\ <<x>> \in Seq(S) /\ <<x>> # <<>> /\ Len(<<x>>) = 1 /\ <<x>>[1] = x
           /\ Head(<<x>>) = x
  OBVIOUS

LEMMA MergeContent ==
    ASSUME NEW local \in Content \cup {Nothing}, NEW server \in Content
    PROVE  /\ Merge(local, server) \in Content
           /\ local = Nothing => Merge(local, server) = server
           /\ local # Nothing /\ Writing => Merge(local, server) = local
           /\ local # Nothing /\ ~Writing =>
                  \A f \in Fields : local[f] # 0 => Merge(local, server)[f] # 0
<1>1. CASE local = Nothing \/ Writing
  BY <1>1 DEF Merge
<1>2. CASE local # Nothing /\ ~Writing
  <2> DEFINE m == [f \in Fields |-> IF server[f] # 0 THEN server[f] ELSE local[f]]
  <2>1. Merge(local, server) = m
    BY <1>2 DEF Merge
  <2>2. m \in Content
    BY <1>2 DEF Content
  <2>3. \A f \in Fields : local[f] # 0 => m[f] # 0
    BY <1>2
  <2> QED
    BY <1>2, <2>1, <2>2, <2>3
<1> QED
  BY <1>1, <1>2

LEMMA ShownContent ==
    ASSUME TypeOK PROVE Draft \in Content /\ Shown \in Content
  BY EmptyContent DEF TypeOK, Shown, Draft

\* A chain grows by a save at its end.
LEMMA ChainGrows ==
    ASSUME NEW c \in Seq({"auto", "final"}), NEW x \in {"auto", "final"}
    PROVE  /\ Append(c, x) \in Seq({"auto", "final"}) /\ Append(c, x) # <<>>
           /\ Len(Append(c, x)) = Len(c) + 1
           /\ c # <<>> => Head(Append(c, x)) = Head(c) /\ Len(Append(c, x)) >= 2
           /\ Flushes(Append(c, x)) <=> Flushes(c) \/ x = "final"
           /\ (\A i, j \in 1 .. Len(c) : c[i] = "final" /\ c[j] = "final" => i = j)
                 /\ (x = "auto" \/ ~Flushes(c))
              => \A i, j \in 1 .. Len(Append(c, x)) :
                     Append(c, x)[i] = "final" /\ Append(c, x)[j] = "final" => i = j
<1>1. /\ Append(c, x) \in Seq({"auto", "final"}) /\ Len(Append(c, x)) = Len(c) + 1
      /\ \A i \in 1 .. Len(c) + 1 : Append(c, x)[i] = IF i <= Len(c) THEN c[i] ELSE x
  BY AppendProperties
<1>2. Len(c) \in Nat
  OBVIOUS
<1>3. c # <<>> => Head(Append(c, x)) = Head(c) /\ Len(Append(c, x)) >= 2
  BY <1>1, <1>2
<1>4. Flushes(Append(c, x)) <=> Flushes(c) \/ x = "final"
  <2>1. ASSUME Flushes(c) PROVE Flushes(Append(c, x))
    BY <1>1, <1>2, <2>1 DEF Flushes
  <2>2. ASSUME x = "final" PROVE Flushes(Append(c, x))
    <3>1. Len(c) + 1 \in 1 .. Len(Append(c, x)) /\ Append(c, x)[Len(c) + 1] = "final"
      BY <1>1, <1>2, <2>2
    <3> QED
      BY <3>1 DEF Flushes
  <2>3. ASSUME Flushes(Append(c, x)), x # "final" PROVE Flushes(c)
    BY <1>1, <1>2, <2>3 DEF Flushes
  <2> QED
    BY <2>1, <2>2, <2>3
<1>5. ASSUME \A i, j \in 1 .. Len(c) : c[i] = "final" /\ c[j] = "final" => i = j,
             x = "auto" \/ ~Flushes(c),
             NEW i \in 1 .. Len(Append(c, x)), NEW j \in 1 .. Len(Append(c, x)),
             Append(c, x)[i] = "final", Append(c, x)[j] = "final"
      PROVE  i = j
  <2>1. CASE x = "auto"
    BY <1>1, <1>2, <1>5, <2>1
  <2>2. CASE ~Flushes(c)
    BY <1>1, <1>2, <1>5, <2>2 DEF Flushes
  <2> QED
    BY <1>5, <2>1, <2>2
<1> QED
  BY <1>1, <1>2, <1>3, <1>4, <1>5

\* A chain shrinks by the save at its head.
LEMMA ChainShrinks ==
    ASSUME NEW c \in Seq({"auto", "final"}), c # <<>>,
           \A i, j \in 1 .. Len(c) : c[i] = "final" /\ c[j] = "final" => i = j
    PROVE  /\ Tail(c) \in Seq({"auto", "final"}) /\ Len(Tail(c)) = Len(c) - 1
           /\ Head(c) \in {"auto", "final"}
           /\ Head(c) = "final" => Flushes(c) /\ ~Flushes(Tail(c))
           /\ Head(c) # "final" => (Flushes(Tail(c)) <=> Flushes(c))
           /\ \A i, j \in 1 .. Len(Tail(c)) :
                  Tail(c)[i] = "final" /\ Tail(c)[j] = "final" => i = j
<1>1. /\ Head(c) = c[1] /\ Head(c) \in {"auto", "final"}
      /\ Tail(c) \in Seq({"auto", "final"}) /\ Len(Tail(c)) = Len(c) - 1
      /\ \A i \in 1 .. Len(Tail(c)) : Tail(c)[i] = c[i + 1]
  BY HeadTailProperties
<1>2. Len(c) \in Nat /\ 1 \in 1 .. Len(c)
  OBVIOUS
<1>3. \A i \in 1 .. Len(Tail(c)) : i + 1 \in 1 .. Len(c) /\ i + 1 # 1 /\ i \in Nat
  BY <1>1, <1>2
<1>4. Head(c) = "final" => Flushes(c) /\ ~Flushes(Tail(c))
  BY <1>1, <1>2, <1>3 DEF Flushes
<1>5. ASSUME Head(c) # "final" PROVE Flushes(Tail(c)) <=> Flushes(c)
  <2>1. ASSUME Flushes(c) PROVE Flushes(Tail(c))
    <3>1. PICK i \in 1 .. Len(c) : c[i] = "final"
      BY <2>1 DEF Flushes
    <3>2. i # 1 /\ i - 1 \in 1 .. Len(Tail(c)) /\ (i - 1) + 1 = i
      BY <1>1, <1>2, <1>5, <3>1
    <3>3. Tail(c)[i - 1] = "final"
      BY <1>1, <3>1, <3>2
    <3> QED
      BY <3>2, <3>3 DEF Flushes
  <2>2. ASSUME Flushes(Tail(c)) PROVE Flushes(c)
    BY <1>1, <1>3, <2>2 DEF Flushes
  <2> QED
    BY <2>1, <2>2
<1>6. ASSUME NEW i \in 1 .. Len(Tail(c)), NEW j \in 1 .. Len(Tail(c)),
             Tail(c)[i] = "final", Tail(c)[j] = "final"
      PROVE  i = j
  <2>1. i + 1 = j + 1
    BY <1>1, <1>3, <1>6
  <2> QED
    BY <1>3, <2>1
<1> QED
  BY <1>1, <1>4, <1>5, <1>6

-----------------------------------------------------------------------------
(* What a step leaves alone.                                               *)

LEMMA SubmittingKept ==
    ASSUME Submitting, UNCHANGED row, overtaken' = overtaken,
           since \subseteq since', locked => locked', clock = "over" => clock' = "over",
           fin' = "posted" \/ Flushed' => CanPost,
           \A q \in strays' : \A i \in 1 .. Len(q) : q[i].do \in {"submit", "post"} => CanPost
    PROVE  Submitting'
<1>1. stored' = stored /\ sealed' = sealed
  BY DEF row
<1>2. CanPost => CanPost'
  BY <1>1 DEF CanPost, Lossless, AcceptsSubmit
<1>3. NoLossySubmit'
  BY <1>1 DEF Submitting, NoLossySubmit
<1>4. fin' = "posted" \/ Flushed' => CanPost'
  BY <1>2
<1>5. \A q \in strays' : \A i \in 1 .. Len(q) : q[i].do \in {"submit", "post"} => CanPost'
  BY <1>2
<1> QED
  BY <1>3, <1>4, <1>5 DEF Submitting

\* The steps that touch neither the row nor what is on its way to it.
LEMMA NothingSubmitted ==
    ASSUME Submitting, UNCHANGED <<row, saves, fin, strays, since, overtaken>>,
           locked => locked', clock = "over" => clock' = "over"
    PROVE  Submitting'
<1>1. UNCHANGED <<row, wire, chain, fin, strays>> /\ since' = since /\ overtaken' = overtaken
  BY DEF saves
<1>2. Flushed' = Flushed
  BY <1>1 DEF Flushed
<1>3. fin' = "posted" \/ Flushed' => CanPost
  BY <1>1, <1>2 DEF Submitting
<1>4. \A q \in strays' : \A i \in 1 .. Len(q) : q[i].do \in {"submit", "post"} => CanPost
  BY <1>1 DEF Submitting
<1> QED
  BY <1>1, <1>3, <1>4, SubmittingKept

LEMMA AcknowledgingKept ==
    ASSUME Acknowledging, UNCHANGED <<attempt, wire, live, shot, cache, online>>,
           commitDue => commitDue', EditorReadOnly => EditorReadOnly',
           wire # Nothing /\ Len(chain) >= 2 => Len(chain') >= 2
    PROVE  Acknowledging'
  BY DEF Acknowledging, attempt, Screen, Writing

LEMMA NothingInFlight ==
    ASSUME wire' = Nothing PROVE Acknowledging' /\ ~Flushed'
  BY DEF Acknowledging, Flushed

\* A write the server takes, and one it does not take, leave a row a submit may
\* follow.
LEMMA ApplyStep ==
    ASSUME TypeOK, NEW body \in Content, Apply(body), UNCHANGED <<sealed, gates>>,
           since \subseteq since'
    PROVE  /\ stored' \in Content /\ overtaken' \in BOOLEAN
           /\ CanPost'
           /\ NoLossySubmit => NoLossySubmit'
<1>1. sealed' = sealed /\ locked' = locked /\ clock' = clock
  BY DEF gates
<1>2. CASE AcceptsSave
  <2>1. stored' = body /\ overtaken' = (body \notin since)
    BY <1>2 DEF Apply
  <2>2. overtaken' \in BOOLEAN
    BY <2>1, Zenon
  <2>3. stored' \in since' \/ overtaken'
    BY <1>1, <2>1, Zenon
  <2>4. sealed' # "own"
    BY <1>1, <1>2 DEF AcceptsSave, AcceptsSubmit
  <2> QED
    BY <2>1, <2>2, <2>3, <2>4 DEF CanPost, Lossless, NoLossySubmit
<1>3. CASE ~AcceptsSave
  <2>1. stored' = stored /\ overtaken' = overtaken
    BY <1>3 DEF Apply
  <2>2. clock' = "over" \/ ~AcceptsSubmit'
    BY <1>1, <1>3 DEF AcceptsSave, AcceptsSubmit
  <2> QED
    BY <1>1, <2>1, <2>2 DEF CanPost, Lossless, NoLossySubmit, TypeOK
<1> QED
  BY <1>2, <1>3

LEMMA WaitingTypes ==
    ASSUME TypeOK
    PROVE  /\ Waiting \in Seq({"auto", "final"})
           /\ wire # Nothing => Head(chain) \in {"auto", "final"} /\ wire.body \in Content
           /\ \A save \in {"auto", "final"} : Purpose(save) \in {"save", "flush"}
<1>1. chain \in Seq({"auto", "final"})
  BY DEF TypeOK
<1>2. ASSUME wire # Nothing PROVE chain # <<>> /\ wire \in Request
  BY <1>2 DEF TypeOK
<1>3. ASSUME wire # Nothing
      PROVE  Head(chain) \in {"auto", "final"} /\ Tail(chain) \in Seq({"auto", "final"})
  BY <1>1, <1>2, <1>3, HeadTailProperties
<1>4. ASSUME wire # Nothing PROVE wire.body \in Content
  BY <1>2, <1>4 DEF Request
<1>5. \A save \in {"auto", "final"} : Purpose(save) \in {"save", "flush"}
  BY DEF Purpose
<1> QED
  BY <1>1, <1>3, <1>4, <1>5 DEF Waiting

LEMMA BackgroundErrands ==
    ASSUME TypeOK
    PROVE  /\ Background \in Seq(Errand)
           /\ \A i \in 1 .. Len(Background) : Background[i].do \in {"save", "flush"}
<1> DEFINE Body == [do : {"save", "flush"}, body : Content]
<1> DEFINE first == IF wire # Nothing /\ wire.at = "sent"
                    THEN <<Put(Purpose(Head(chain)), wire.body)>> ELSE <<>>
           later == [i \in DOMAIN Waiting |-> Put(Purpose(Waiting[i]), Shown)]
<1>1. Body \subseteq Errand /\ \A x \in Body : x.do \in {"save", "flush"}
  BY DEF Errand
<1>2. \A what \in {"save", "flush"}, body \in Content : Put(what, body) \in Body
  BY DEF Put
<1> HIDE DEF Body
<1>3. first \in Seq(Body)
  <2>1. CASE wire # Nothing /\ wire.at = "sent"
    <3>1. Put(Purpose(Head(chain)), wire.body) \in Body
      BY <1>2, <2>1, WaitingTypes
    <3> HIDE DEF Body
    <3>2. <<Put(Purpose(Head(chain)), wire.body)>> \in Seq(Body)
      BY <3>1
    <3> QED
      BY <2>1, <3>2
  <2>2. CASE ~(wire # Nothing /\ wire.at = "sent")
    BY <2>2
  <2> QED
    BY <2>1, <2>2
<1>4. later \in Seq(Body)
  <2>1. Waiting \in Seq({"auto", "final"})
    BY WaitingTypes
  <2>2. DOMAIN Waiting = 1 .. Len(Waiting) /\ Len(Waiting) \in Nat
    BY <2>1
  <2>3. \A i \in 1 .. Len(Waiting) : Waiting[i] \in {"auto", "final"}
    BY <2>1, ElementOfSeq
  <2>4. \A i \in 1 .. Len(Waiting) : Put(Purpose(Waiting[i]), Shown) \in Body
    BY <1>2, <2>3, ShownContent, WaitingTypes
  <2>5. later \in [1 .. Len(Waiting) -> Body]
    BY <2>2, <2>4
  <2> QED
    BY <2>2, <2>5, SeqDef
<1> HIDE DEF first, later
<1>5. first \o later \in Seq(Body)
  BY <1>3, <1>4, ConcatProperties
<1>6. Background = first \o later
  BY DEF Background, first, later
<1>7. Background \in Seq(Body)
  BY <1>5, <1>6
<1>8. \A i \in 1 .. Len(Background) : Background[i] \in Body
  BY <1>7, ElementOfSeq
<1>9. Background \in Seq(Errand)
  BY <1>1, <1>7, SeqMonotonic
<1> QED
  BY <1>1, <1>8, <1>9

\* A shell that unmounts leaves the errands it had, and a submit only if one
\* could be posted.
LEMMA UnmountStep ==
    ASSUME TypeOK, Shells, Submitting, view = "shell", Unmount
    PROVE  /\ strays' \subseteq Seq(Errand) /\ \A q \in strays' : q # <<>>
           /\ \A q \in strays' : \A i \in 1 .. Len(q) : q[i].do \in {"submit", "post"} => CanPost
           /\ since \subseteq since' /\ since' \subseteq Content
           /\ commitDue' = FALSE /\ dirty' = FALSE /\ armed' = FALSE
           /\ chain' = <<>> /\ wire' = Nothing /\ fin' = "none"
           /\ shot' = Empty /\ live' = Empty
           /\ readOnly' = FALSE /\ foreign' = FALSE /\ fired' = FALSE
<1> DEFINE Good(q) == /\ q \in Seq(Errand)
                      /\ \A i \in 1 .. Len(q) : q[i].do \in {"submit", "post"} => CanPost
<1>1. Good(Background)
  BY BackgroundErrands
<1>2. Good(<<>>)
  OBVIOUS
<1>3. Good(Posting)
  <2>1. CASE fin = "posted" \/ Flushed
    <3>1. Posting = <<Task("submit")>> /\ CanPost
      BY <2>1 DEF Posting, Submitting
    <3>2. Task("submit") \in Errand
      BY ErrandParts, EmptyContent
    <3>3. <<Task("submit")>> \in Seq(Errand)
      BY <3>2, Singleton
    <3> QED
      BY <3>1, <3>3
  <2>2. CASE ~(fin = "posted" \/ Flushed)
    BY <1>2, <2>2 DEF Posting
  <2> QED
    BY <2>1, <2>2
<1>4. Good(Beacon)
  <2>1. CASE dirty /\ Enabled
    <3>1. Put("save", Shown) \in Errand /\ Put("save", Shown).do = "save"
      BY ErrandParts, ShownContent
    <3>2. /\ <<Put("save", Shown)>> \in Seq(Errand) /\ Len(<<Put("save", Shown)>>) = 1
          /\ <<Put("save", Shown)>>[1] = Put("save", Shown)
      BY <3>1, Singleton
    <3>3. Beacon = <<Put("save", Shown)>>
      BY <2>1 DEF Beacon
    <3> HIDE DEF Good
    <3>4. Good(<<Put("save", Shown)>>)
      BY <3>1, <3>2 DEF Good
    <3> QED
      BY <3>3, <3>4
  <2>2. CASE ~(dirty /\ Enabled)
    BY <1>2, <2>2 DEF Beacon
  <2> QED
    BY <2>1, <2>2
<1>5. \A q \in strays : Good(q)
  BY DEF TypeOK, Submitting
<1>6. strays' = strays \cup ({Background, Posting, Beacon} \ {<<>>})
  BY DEF Unmount
<1> HIDE DEF Good
<1>7. \A q \in strays' : Good(q) /\ q # <<>>
  BY <1>1, <1>3, <1>4, <1>5, <1>6 DEF Shells
<1>8. since \subseteq since' /\ since' \subseteq Content
  <2>1. Shown \in Content /\ since \subseteq Content
    BY ShownContent DEF TypeOK
  <2> QED
    BY <2>1 DEF Unmount
<1> QED
  BY <1>7, <1>8 DEF Good, Unmount, Quiet

\* A save whose turn has come is still a save.
LEMMA ReadyStep ==
    ASSUME TypeOK, NEW q \in Seq(Errand), q # <<>>
    PROVE  /\ Ready(q) \in Seq(Errand) /\ Ready(q) # <<>> /\ Ready(q)[1].body \in Content
           /\ Len(Ready(q)) = Len(q)
           /\ \A i \in 1 .. Len(q) : Ready(q)[i].do = q[i].do
<1>1. q \in [1 .. Len(q) -> Errand] /\ Len(q) \in Nat /\ 1 \in 1 .. Len(q)
  OBVIOUS
<1>2. \A i \in 1 .. Len(q) : q[i] \in Errand
  BY <1>1
<1>3. CASE Ready(q) = q
  <2>1. q[1] \in Errand
    BY <1>1, <1>2
  <2> QED
    BY <1>3, <2>1 DEF Errand
<1>4. CASE Ready(q) = [q EXCEPT ![1].body = Draft]
  <2> DEFINE e == [q[1] EXCEPT !.body = Draft]
             r == [q EXCEPT ![1] = e]
  <2>1. e \in Errand /\ e.body \in Content /\ e.do = q[1].do
    BY <1>1, <1>2, ShownContent DEF Errand
  <2>2. Ready(q) = r
    BY <1>4
  <2> HIDE DEF e
  <2>3. /\ r \in [1 .. Len(q) -> Errand] /\ r[1] = e
        /\ \A i \in 1 .. Len(q) : r[i].do = q[i].do
    BY <1>1, <1>2, <2>1
  <2> HIDE DEF r
  <2>4. r \in Seq(Errand) /\ Len(r) = Len(q)
    BY <1>1, <2>3, SeqDef
  <2> QED
    BY <1>1, <2>1, <2>2, <2>3, <2>4
<1> QED
  BY <1>3, <1>4 DEF Ready

\* What is left of the errands when one of them has been run.
LEMMA RestStep ==
    ASSUME TypeOK, Shells, Submitting, NEW q \in strays
    PROVE  /\ Head(q) \in Errand
           /\ Head(q).do \in {"submit", "post"} => CanPost
           /\ Rest(q) \subseteq Seq(Errand) /\ \A r \in Rest(q) : r # <<>>
           /\ \A r \in Rest(q) : \A i \in 1 .. Len(r) : r[i].do \in {"submit", "post"} => CanPost
           /\ Heard(q) => since \subseteq since' /\ since' \subseteq Content
<1> DEFINE t == Tail(q)
           Good(r) == /\ r \in Seq(Errand)
                      /\ \A i \in 1 .. Len(r) : r[i].do \in {"submit", "post"} => CanPost
<1>1. q \in Seq(Errand) /\ q # <<>>
  BY DEF TypeOK, Shells
<1>2. /\ Head(q) \in Errand /\ Head(q) = q[1] /\ 1 \in 1 .. Len(q)
      /\ t \in Seq(Errand) /\ Len(t) = Len(q) - 1 /\ Len(q) \in Nat
      /\ \A i \in 1 .. Len(t) : t[i] = q[i + 1]
  BY <1>1, HeadTailProperties
<1>3. \A i \in 1 .. Len(t) : i + 1 \in 1 .. Len(q)
  BY <1>2
<1>4. \A r \in strays : \A i \in 1 .. Len(r) : r[i].do \in {"submit", "post"} => CanPost
  BY DEF Submitting
<1>5. \A i \in 1 .. Len(t) : t[i].do \in {"submit", "post"} => CanPost
  BY <1>2, <1>3, <1>4
<1>6. \A r \in strays : r # <<>> /\ Good(r)
  BY <1>4 DEF TypeOK, Shells
<1> HIDE DEF t
<1>7. ASSUME Ready(t) # <<>> PROVE Good(Ready(t)) /\ Ready(t)[1].body \in Content
  <2>1. t # <<>>
    BY <1>7 DEF Ready
  <2>2. /\ Ready(t) \in Seq(Errand) /\ Ready(t)[1].body \in Content /\ Len(Ready(t)) = Len(t)
        /\ \A i \in 1 .. Len(t) : Ready(t)[i].do = t[i].do
    BY <1>2, <2>1, ReadyStep
  <2> QED
    BY <1>5, <2>2
<1> HIDE DEF Good
<1>8. \A r \in Rest(q) : r # <<>> /\ Good(r)
  BY <1>6, <1>7, Zenon DEF Rest, t
<1>9. ASSUME Heard(q) PROVE since \subseteq since' /\ since' \subseteq Content
  <2>1. since \subseteq Content
    BY DEF TypeOK
  <2>2. CASE since' = since
    BY <2>1, <2>2
  <2>3. CASE Len(q) > 1 /\ since' = since \cup {Ready(t)[1].body}
    <3>1. t # <<>>
      BY <1>2, <2>3
    <3>2. Ready(t)[1].body \in Content
      BY <1>2, <3>1, ReadyStep
    <3> QED
      BY <2>1, <2>3, <3>2
  <2> QED
    BY <1>9, <2>2, <2>3 DEF Heard, t
<1> QED
  BY <1>2, <1>4, <1>8, <1>9 DEF Good

-----------------------------------------------------------------------------
(* The initial state, and a page that comes and goes.                      *)

LEMMA InitKeeps == Init => IInv
<1> SUFFICES ASSUME Init PROVE IInv
  OBVIOUS
<1>1. <<kind, timed>> \in Attempts
  <2>1. PICK a \in Attempts : kind = a[1] /\ timed = a[2]
    BY DEF Init
  <2>2. a = <<a[1], a[2]>>
    BY DraftAssumption
  <2> QED
    BY <2>1, <2>2
<1>2. 0 \in 0 .. MaxEdits[timed] /\ 0 \in 0 .. MaxTroubles
  <2>1. timed \in BOOLEAN
    BY <1>1, DraftAssumption
  <2> QED
    BY <2>1, DraftAssumption
<1>3. TypeOK
  <2>1. /\ stored \in Content /\ live \in Content /\ committed \in Content /\ shot \in Content
        /\ mirror \in Content \cup {Nothing} /\ cache \in Content \cup {Nothing}
        /\ seed \in Content \cup {Nothing} /\ since \in SUBSET Content
        /\ edits \in 0 .. MaxEdits[timed] /\ troubles \in 0 .. MaxTroubles
    BY <1>2, EmptyContent DEF Init
  <2>2. /\ chain \in Seq({"auto", "final"}) /\ wire \in Request \cup {Nothing}
        /\ strays \subseteq Seq(Errand)
    BY DEF Init
  <2>3. /\ sealed \in {"no", "own", "foreign"} /\ clock \in {"running", "zero", "over"}
        /\ view \in {"away", "shell", "error", "confirmed"}
        /\ indicator \in Pending \cup {"idle", "saved"}
        /\ fin \in {"none", "flushing", "posted", "answered"}
        /\ fate \in [Fields -> {"kept", "hidden", "lost"}]
    BY DEF Init
  <2>4. /\ locked \in BOOLEAN /\ online \in BOOLEAN /\ readOnly \in BOOLEAN
        /\ foreign \in BOOLEAN /\ fired \in BOOLEAN /\ commitDue \in BOOLEAN
        /\ dirty \in BOOLEAN /\ armed \in BOOLEAN /\ overtaken \in BOOLEAN
        /\ cleared \in BOOLEAN
    BY Zenon DEF Init
  <2>5. /\ wire = Nothing /\ view # "shell" /\ chain = <<>> /\ fin = "none" /\ ~dirty /\ ~commitDue
    BY DEF Init
  <2> QED
    BY <1>1, <2>1, <2>2, <2>3, <2>4, <2>5 DEF TypeOK
<1>4. Shells
  BY DEF Init, Shells, Flushes
<1>5. Submitting
  BY DEF Init, Submitting, NoLossySubmit, Flushed
<1>6. Acknowledging
  BY DEF Init, Acknowledging
<1> QED
  BY <1>3, <1>4, <1>5, <1>6 DEF IInv

LEMMA NoShellNoSave ==
    ASSUME TypeOK, view # "shell"
    PROVE  chain = <<>> /\ wire = Nothing /\ fin = "none" /\ ~Flushed
  BY DEF TypeOK, Flushed

LEMMA ReconciledContent == ASSUME TypeOK PROVE Reconciled \in Content
<1>1. CASE cache # Nothing
  BY <1>1 DEF Reconciled, TypeOK
<1>2. CASE cache = Nothing
  BY <1>2, MergeContent DEF Reconciled, TypeOK
<1> QED
  BY <1>1, <1>2

LEMMA LoadKeeps == ASSUME IInv, Load PROVE IInv'
<1> USE DEF IInv
<1> DEFINE draft == Reconciled
<1>1. draft \in Content /\ draft # Nothing
  BY ReconciledContent, NotContent
<1> HIDE DEF draft
<1>2. /\ view \in {"away", "error"} /\ view' = "shell"
      /\ live' = draft /\ cache' = draft /\ shot' = draft /\ mirror' = draft /\ seed' = draft
      /\ indicator' = "idle"
      /\ UNCHANGED <<kind, timed, stored, sealed, locked, clock, online, readOnly, foreign,
                     commitDue, dirty, armed, chain, wire, fin, fired, strays, edits,
                     troubles, committed, since, overtaken, cleared>>
  BY <1>1 DEF Load, Mount, attempt, row, gates, saves, bounds, draft
<1>3. chain = <<>> /\ wire = Nothing /\ fin = "none"
  BY <1>2, NoShellNoSave
<1>4. fate' \in [Fields -> {"kept", "hidden", "lost"}]
  BY DEF Load, TypeOK
<1>5. TypeOK'
  BY <1>1, <1>2, <1>3, <1>4 DEF TypeOK
<1>6. Shells'
  BY <1>1, <1>2, <1>3 DEF Shells, Flushes, Writing
<1>7. Submitting'
  BY <1>2, NothingSubmitted DEF row, saves
<1>8. Acknowledging'
  BY <1>2, <1>3, NothingInFlight
<1> QED
  BY <1>5, <1>6, <1>7, <1>8

LEMMA RemountKeeps == ASSUME IInv, Remount PROVE IInv'
<1> USE DEF IInv
<1>1. /\ view = "error" /\ view' = "shell" /\ seed # Nothing
      /\ live' = seed /\ cache' = cache
      /\ shot' = (IF cache = Nothing THEN Empty ELSE cache)
      /\ mirror' = (IF cache = Nothing THEN mirror ELSE cache)
      /\ UNCHANGED <<kind, timed, stored, sealed, locked, clock, seed, online, readOnly,
                     foreign, commitDue, dirty, armed, indicator, chain, wire, fin, fired,
                     strays, edits, troubles, committed, since, overtaken, cleared>>
  BY DEF Remount, Mount, attempt, row, gates, autosave, saves, bounds
<1>2. chain = <<>> /\ wire = Nothing /\ fin = "none"
  BY <1>1, NoShellNoSave
<1>3. /\ cache \in Content \cup {Nothing} /\ seed \in Content
      /\ shot' \in Content /\ mirror' \in Content \cup {Nothing}
      /\ fate' \in [Fields -> {"kept", "hidden", "lost"}]
  BY <1>1, EmptyContent DEF TypeOK, Remount
<1>4. TypeOK'
  BY <1>1, <1>2, <1>3 DEF TypeOK
<1>5. Shells'
  BY <1>1, <1>2 DEF Shells, Flushes, Writing
<1>6. Submitting'
  BY <1>1, NothingSubmitted DEF row, saves
<1>7. Acknowledging'
  BY <1>1, <1>2, NothingInFlight
<1> QED
  BY <1>4, <1>5, <1>6, <1>7

\* The page shows something else and leaves the query cache alone.
LEMMA GoneKeeps ==
    ASSUME IInv, view' \in {"away", "error", "confirmed"},
           seed' \in {seed, Nothing}, troubles' \in 0 .. MaxTroubles,
           IF view = "shell" THEN Unmount
           ELSE UNCHANGED <<commitDue, dirty, armed, saves, fin, strays, since, shot, live,
                          readOnly, foreign, fired>>,
           UNCHANGED <<attempt, row, gates, mirror, cache, online, indicator, edits, work,
                       overtaken, cleared>>
    PROVE  IInv'
<1> USE DEF IInv
<1>1. UNCHANGED <<kind, timed, stored, sealed, locked, clock, mirror, cache, online,
                  indicator, edits, committed, fate, overtaken, cleared>>
  BY DEF attempt, row, gates, work
<1>2. /\ strays' \subseteq Seq(Errand) /\ \A q \in strays' : q # <<>>
      /\ \A q \in strays' : \A i \in 1 .. Len(q) : q[i].do \in {"submit", "post"} => CanPost
      /\ since \subseteq since' /\ since' \subseteq Content
      /\ commitDue' = FALSE /\ dirty' = FALSE
      /\ chain' = <<>> /\ wire' = Nothing /\ fin' = "none"
      /\ shot' \in Content /\ live' \in Content
      /\ ~Writing => ~foreign'
  <2>1. CASE view = "shell"
    BY <2>1, EmptyContent, UnmountStep
  <2>2. CASE view # "shell"
    <3>1. UNCHANGED <<commitDue, dirty, chain, wire, fin, strays, since, shot, live, foreign>>
      BY <2>2 DEF saves
    <3>2. chain = <<>> /\ wire = Nothing /\ fin = "none"
      BY <2>2, NoShellNoSave
    <3>3. commitDue = FALSE /\ dirty = FALSE
      BY <2>2, Zenon DEF TypeOK
    <3>4. /\ strays \subseteq Seq(Errand) /\ \A q \in strays : q # <<>>
          /\ \A q \in strays : \A i \in 1 .. Len(q) : q[i].do \in {"submit", "post"} => CanPost
          /\ since \subseteq Content /\ shot \in Content /\ live \in Content
          /\ ~Writing => ~foreign
      BY DEF TypeOK, Shells, Submitting
    <3> QED
      BY <3>1, <3>2, <3>3, <3>4
  <2> QED
    BY <2>1, <2>2
<1>3. armed' \in BOOLEAN /\ readOnly' \in BOOLEAN /\ foreign' \in BOOLEAN /\ fired' \in BOOLEAN
  <2>1. CASE view = "shell"
    <3>1. armed' = FALSE /\ readOnly' = FALSE /\ foreign' = FALSE /\ fired' = FALSE
      BY <2>1, UnmountStep
    <3> QED
      BY <3>1, Zenon
  <2>2. CASE view # "shell"
    BY <2>2, Zenon DEF TypeOK
  <2> QED
    BY <2>1, <2>2
<1>4. TypeOK'
  <2>1. commitDue' \in BOOLEAN /\ dirty' \in BOOLEAN
    BY <1>2, Zenon
  <2>2. /\ view' \in {"away", "shell", "error", "confirmed"} /\ view' # "shell"
        /\ seed' \in Content \cup {Nothing}
        /\ chain' \in Seq({"auto", "final"}) /\ wire' \in Request \cup {Nothing}
        /\ fin' \in {"none", "flushing", "posted", "answered"}
    BY <1>2 DEF TypeOK
  <2>3. /\ (edits \in 0 .. MaxEdits[timed])' /\ since' \in SUBSET Content
        /\ <<kind, timed>>' \in Attempts
    BY <1>1, <1>2 DEF TypeOK
  <2>4. /\ locked' \in BOOLEAN /\ online' \in BOOLEAN /\ overtaken' \in BOOLEAN
        /\ cleared' \in BOOLEAN
    BY <1>1, Zenon DEF TypeOK
  <2>5. /\ stored' \in Content /\ sealed' \in {"no", "own", "foreign"}
        /\ clock' \in {"running", "zero", "over"}
        /\ mirror' \in Content \cup {Nothing} /\ cache' \in Content \cup {Nothing}
        /\ indicator' \in Pending \cup {"idle", "saved"}
        /\ committed' \in Content /\ fate' \in [Fields -> {"kept", "hidden", "lost"}]
    BY <1>1 DEF TypeOK, Pending
  <2>6. chain' = <<>> /\ wire' = Nothing /\ fin' = "none" /\ ~dirty' /\ ~commitDue'
    BY <1>2, Zenon
  <2> QED
    BY <1>2, <1>3, <2>1, <2>2, <2>3, <2>4, <2>5, <2>6 DEF TypeOK
<1>5. Shells'
  BY <1>1, <1>2 DEF Shells, Flushes, Writing
<1>6. Submitting'
  BY <1>1, <1>2, SubmittingKept, NothingInFlight DEF row
<1>7. Acknowledging'
  BY <1>2, NothingInFlight
<1> QED
  BY <1>4, <1>5, <1>6, <1>7

LEMMA TroubleCounts ==
    ASSUME TypeOK
    PROVE  /\ Trouble => troubles' \in 0 .. MaxTroubles
           /\ Breaks => troubles' \in 0 .. MaxTroubles
<1>1. troubles \in 0 .. MaxTroubles /\ MaxTroubles \in Nat
  BY DraftAssumption DEF TypeOK
<1> QED
  BY <1>1 DEF Trouble, Breaks

LEMMA RefetchedKeeps ==
    ASSUME IInv, BootstrapRefused \/ BootstrapFails PROVE IInv'
<1>1. PICK to \in {"error", "confirmed"} : Refetched(to)
  BY DEF BootstrapRefused, BootstrapFails
<1>2. troubles' \in 0 .. MaxTroubles
  <2>1. CASE BootstrapRefused
    BY <2>1 DEF BootstrapRefused, IInv, TypeOK
  <2>2. CASE BootstrapFails
    BY <2>2, TroubleCounts DEF BootstrapFails, IInv
  <2> QED
    BY <2>1, <2>2
<1>3. /\ view' = to
      /\ IF view = "shell" THEN Unmount
         ELSE UNCHANGED <<commitDue, dirty, armed, saves, fin, strays, since, shot, live,
                          readOnly, foreign, fired>>
      /\ seed' = seed
      /\ UNCHANGED <<attempt, row, gates, mirror, cache, online, indicator, edits, work,
                     overtaken, cleared>>
  BY <1>1 DEF Refetched, copies
<1> QED
  BY <1>1, <1>2, <1>3, GoneKeeps

LEMMA LeaveKeeps == ASSUME IInv, Leave PROVE IInv'
<1>1. troubles' \in 0 .. MaxTroubles
  BY TroubleCounts DEF Leave, IInv
<1> QED
  BY <1>1, GoneKeeps DEF Leave

\* An errand whose document is gone.
LEMMA InFlightErrand ==
    ASSUME NEW q \in Seq(Errand), q # <<>>
    PROVE  /\ InFlight(q) \in Seq(Errand) /\ InFlight(q) # <<>> /\ Len(InFlight(q)) = 1
           /\ InFlight(q)[1].do \in {"submit", "post"} => q[1].do \in {"submit", "post"}
<1> DEFINE e == Head(q)
           what == CASE e.do = "submit" -> "post" [] e.do = "flush" -> "save" [] OTHER -> e.do
           f == [e EXCEPT !.do = what]
<1>1. e \in Errand /\ e = q[1]
  BY HeadTailProperties
<1> HIDE DEF e
<1>2. what \in {"save", "flush", "submit", "post"}
      /\ (what \in {"submit", "post"} => e.do \in {"submit", "post"})
  BY <1>1 DEF Errand
<1> HIDE DEF what
<1>3. f \in Errand /\ f.do = what
  BY <1>1, <1>2 DEF Errand
<1>4. InFlight(q) = <<f>>
  BY DEF InFlight, f, what, e
<1> HIDE DEF f
<1> QED
  BY <1>1, <1>2, <1>3, <1>4, Singleton

LEMMA ReloadKeeps == ASSUME IInv, Reload PROVE IInv'
<1> USE DEF IInv
<1>1. /\ view' = "away" /\ seed' = Nothing /\ cache' = Nothing
      /\ commitDue' = FALSE /\ dirty' = FALSE /\ armed' = FALSE
      /\ chain' = <<>> /\ wire' = Nothing /\ fin' = "none"
      /\ shot' = Empty /\ live' = Empty
      /\ readOnly' = FALSE /\ foreign' = FALSE /\ fired' = FALSE
      /\ UNCHANGED <<kind, timed, stored, sealed, locked, clock, mirror, online, indicator,
                     edits, committed, fate, since, overtaken, cleared>>
  BY DEF Reload, Quiet, attempt, row, gates, work
<1>2. troubles' \in 0 .. MaxTroubles
  BY TroubleCounts DEF Reload
<1> DEFINE Good(q) == /\ q \in Seq(Errand) /\ q # <<>>
                      /\ \A i \in 1 .. Len(q) : q[i].do \in {"submit", "post"} => CanPost
<1>3. \A q \in strays : Good(InFlight(q))
  <2> TAKE q \in strays
  <2>1. q \in Seq(Errand) /\ q # <<>>
    BY DEF TypeOK, Shells
  <2>2. 1 \in 1 .. Len(q)
    BY <2>1
  <2>3. q[1].do \in {"submit", "post"} => CanPost
    BY <2>2 DEF Submitting
  <2> DEFINE r == InFlight(q)
  <2>4. /\ r \in Seq(Errand) /\ r # <<>> /\ Len(r) = 1
        /\ r[1].do \in {"submit", "post"} => q[1].do \in {"submit", "post"}
    BY <2>1, InFlightErrand
  <2> HIDE DEF r
  <2>5. \A i \in 1 .. Len(r) : i = 1
    BY <2>4
  <2>6. Good(r)
    BY <2>3, <2>4, <2>5
  <2> QED
    BY <2>6 DEF r
<1>4. ASSUME wire # Nothing PROVE Good(<<Put("save", wire.body)>>)
  <2> DEFINE e == Put("save", wire.body)
  <2>1. wire.body \in Content
    BY <1>4, WaitingTypes
  <2>2. e \in Errand /\ e.do = "save"
    BY <2>1, ErrandParts
  <2> HIDE DEF e
  <2>3. Good(<<e>>)
    BY <2>2, Singleton
  <2> QED
    BY <2>3 DEF e
<1>5. ASSUME fin = "posted" PROVE Good(<<Task("post")>>)
  <2>1. CanPost
    BY <1>5 DEF Submitting
  <2> DEFINE e == Task("post")
  <2>2. e \in Errand
    BY EmptyContent, ErrandParts
  <2> HIDE DEF e
  <2>3. Good(<<e>>)
    BY <2>1, <2>2, Singleton
  <2> QED
    BY <2>3 DEF e
<1> HIDE DEF Good
<1>6. \A q \in strays' : Good(q)
  <2>1. strays' = {InFlight(q) : q \in strays}
                  \cup (IF wire # Nothing /\ wire.at = "sent" THEN {<<Put("save", wire.body)>>}
                        ELSE {})
                  \cup (IF fin = "posted" THEN {<<Task("post")>>} ELSE {})
    BY DEF Reload
  <2> QED
    BY <1>3, <1>4, <1>5, <2>1, Zenon
<1>7. /\ strays' \subseteq Seq(Errand) /\ \A q \in strays' : q # <<>>
      /\ \A q \in strays' : \A i \in 1 .. Len(q) : q[i].do \in {"submit", "post"} => CanPost
  BY <1>6 DEF Good
<1>8. TypeOK'
  <2>1. /\ commitDue' \in BOOLEAN /\ dirty' \in BOOLEAN /\ armed' \in BOOLEAN
        /\ readOnly' \in BOOLEAN /\ foreign' \in BOOLEAN /\ fired' \in BOOLEAN
    BY <1>1, Zenon
  <2>2. /\ chain' \in Seq({"auto", "final"}) /\ wire' \in Request \cup {Nothing}
        /\ fin' \in {"none", "flushing", "posted", "answered"}
        /\ shot' \in Content /\ live' \in Content
    BY <1>1, EmptyContent
  <2> QED
    BY <1>1, <1>2, <1>7, <2>1, <2>2 DEF TypeOK
<1>9. Shells'
  BY <1>1, <1>7 DEF Shells, Flushes, Writing
<1>10. Submitting'
  BY <1>1, <1>7, SubmittingKept, NothingInFlight DEF row
<1>11. Acknowledging'
  BY <1>1, NothingInFlight
<1> QED
  BY <1>8, <1>9, <1>10, <1>11

-----------------------------------------------------------------------------
(* Editing.                                                                *)

LEMMA ScheduleStep ==
    ASSUME TypeOK, ScheduleSave
    PROVE  /\ dirty' \in BOOLEAN /\ armed' \in BOOLEAN
           /\ indicator' \in Pending \cup {"idle", "saved"}
           /\ wire' \in Request \cup {Nothing} /\ (wire' # Nothing <=> wire # Nothing)
           /\ wire # Nothing => wire'.at = wire.at
           /\ Enabled /\ wire' # Nothing => ~wire'.fresh
           /\ ~Enabled => wire' = wire
           /\ indicator' = "saved" => indicator = "saved"
           /\ ~dirty' => ~dirty
<1>1. CASE Enabled
  <2>1. /\ dirty' = TRUE /\ armed' = TRUE /\ indicator' = "unsaved"
        /\ wire' = IF wire = Nothing THEN wire ELSE [wire EXCEPT !.fresh = FALSE]
    BY <1>1 DEF ScheduleSave
  <2>2. CASE wire = Nothing
    BY <1>1, <2>1, <2>2 DEF Pending
  <2>3. CASE wire # Nothing
    <3>1. wire \in Request
      BY <2>3 DEF TypeOK
    <3> DEFINE w == [wire EXCEPT !.fresh = FALSE]
    <3>2. w \in Request /\ w.at = wire.at /\ w.fresh = FALSE
      BY <3>1 DEF Request
    <3>3. wire' = w
      BY <2>1, <2>3
    <3> HIDE DEF w
    <3>4. wire' \in Request /\ wire' # Nothing /\ wire'.at = wire.at /\ wire'.fresh = FALSE
      BY <3>2, <3>3, NotRequest
    <3> QED
      BY <1>1, <2>1, <2>3, <3>4 DEF Pending
  <2> QED
    BY <2>2, <2>3
<1>2. CASE ~Enabled
  <2>1. UNCHANGED <<dirty, armed, indicator, wire>>
    BY <1>2 DEF ScheduleSave, autosave
  <2>2. dirty' \in BOOLEAN /\ armed' \in BOOLEAN
    BY <2>1, Zenon DEF TypeOK
  <2> QED
    BY <1>2, <2>1, <2>2 DEF TypeOK
<1> QED
  BY <1>1, <1>2

LEMMA NextEdit ==
    ASSUME TypeOK, edits < MaxEdits[timed]
    PROVE  /\ edits + 1 \in 0 .. MaxEdits[timed]
           /\ \A c \in Content, f \in Fields : [c EXCEPT ![f] = edits + 1] \in Content
<1>1. MaxEdits[timed] \in Nat
  <2>1. timed \in BOOLEAN
    BY DraftAssumption DEF TypeOK
  <2> QED
    BY <2>1, DraftAssumption
<1>2. edits + 1 \in 0 .. MaxEdits[timed] /\ edits + 1 \in Nat
  BY <1>1 DEF TypeOK
<1> QED
  BY <1>2 DEF Content

LEMMA TypeKeeps == ASSUME IInv, NEW f \in Fields, Type(f) PROVE IInv'
<1> USE DEF IInv
<1> DEFINE text == [live EXCEPT ![f] = edits + 1]
<1>1. /\ view = "shell" /\ live' = text /\ edits' = edits + 1 /\ commitDue' = TRUE /\ Writing
      /\ UNCHANGED <<kind, timed, stored, sealed, locked, clock, mirror, cache, shot, seed,
                     view, online, readOnly, foreign, dirty, armed, indicator, chain, wire,
                     fin, fired, strays, troubles, committed, fate, since, overtaken,
                     cleared>>
  BY DEF Type, attempt, row, gates, autosave, saves, work
<1>2. edits' \in 0 .. MaxEdits[timed] /\ text \in Content
  <2>1. live \in Content
    BY DEF TypeOK
  <2> QED
    BY <1>1, <2>1, NextEdit DEF Type
<1> HIDE DEF text
<1>3. commitDue' \in BOOLEAN
  BY <1>1, Zenon
<1>4. TypeOK'
  BY <1>1, <1>2, <1>3 DEF TypeOK
<1>5. Shells'
  BY <1>1 DEF Shells, Flushes, Writing
<1>6. Submitting'
  BY <1>1, NothingSubmitted DEF row, saves
<1>7. Acknowledging'
  BY <1>1 DEF Acknowledging
<1> QED
  BY <1>4, <1>5, <1>6, <1>7

\* An edit that reaches the draft: what the four steps of Commit and Answer share.
LEMMA StoreStep ==
    ASSUME IInv, view = "shell", NEW c \in Content, Store(c), ScheduleSave,
           edits' \in 0 .. MaxEdits[timed], committed' \in Content,
           fate' \in [Fields -> {"kept", "hidden", "lost"}], commitDue' \in BOOLEAN, commitDue' => commitDue,
           UNCHANGED <<attempt, row, gates, seed, live, view, online, readOnly, foreign, chain,
                       fin, fired, strays, troubles, since, overtaken, cleared>>,
           ~EditorReadOnly
    PROVE  IInv'
<1> USE DEF IInv
<1>1. /\ cache' = c /\ mirror' = c /\ shot' = c /\ c # Nothing
      /\ UNCHANGED <<kind, timed, stored, sealed, locked, clock, seed, live, view, online,
                     readOnly, foreign, chain, fin, fired, strays, troubles, since,
                     overtaken, cleared>>
  BY NotContent DEF Store, attempt, row, gates
<1>2. TypeOK'
  BY <1>1, ScheduleStep DEF TypeOK
<1>3. Shells'
  BY <1>1 DEF Shells, Flushes, Writing
<1>4. Submitting'
  <2>1. Flushed' => Flushed
    BY <1>1, ScheduleStep DEF Flushed
  <2> QED
    BY <1>1, <2>1, SubmittingKept DEF row, Submitting
<1>5. Acknowledging'
  <2>1. CASE Enabled
    BY <2>1, ScheduleStep DEF Acknowledging
  <2>2. CASE ~Enabled
    <3>1. Writing' /\ ~online'
      BY <1>1, <2>2 DEF Enabled, Writing
    <3> QED
      BY <3>1 DEF Acknowledging
  <2> QED
    BY <2>1, <2>2
<1> QED
  BY <1>2, <1>3, <1>4, <1>5

LEMMA CommitKeeps == ASSUME IInv, Commit PROVE IInv'
<1> USE DEF IInv
<1>1. view = "shell" /\ commitDue' = FALSE /\ edits' = edits /\ troubles' = troubles
  BY DEF Commit, TypeOK, bounds
<1>2. commitDue' \in BOOLEAN
  BY <1>1, Zenon
<1>3. CASE ~EditorReadOnly
  <2>1. Store(live) /\ ScheduleSave
    BY <1>3 DEF Commit
  <2>2. live \in Content /\ edits' \in 0 .. MaxEdits[timed]
    BY <1>1 DEF Commit, attempt, TypeOK
  <2>3. committed' \in Content
    BY <1>3 DEF Commit, TypeOK, Content
  <2>4. fate' \in [Fields -> {"kept", "hidden", "lost"}]
    BY <1>3 DEF Commit, TypeOK
  <2> QED
    BY <1>1, <1>2, <1>3, <2>1, <2>2, <2>3, <2>4, StoreStep DEF Commit
<1>4. CASE EditorReadOnly
  <2>1. UNCHANGED <<kind, timed, stored, sealed, locked, clock, mirror, cache, shot, seed,
                    live, view, online, readOnly, foreign, dirty, armed, indicator, chain,
                    wire, fin, fired, strays, edits, troubles, committed, fate, since,
                    overtaken, cleared>>
    BY <1>4 DEF Commit, attempt, row, gates, autosave, bounds, work
  <2>2. TypeOK'
    BY <1>1, <1>2, <2>1 DEF TypeOK
  <2>3. Shells'
    BY <1>1, <2>1 DEF Shells, Flushes, Writing
  <2>4. Submitting'
    BY <2>1, NothingSubmitted DEF row, saves
  <2>6. Acknowledging'
    BY <1>4, <2>1 DEF Acknowledging, EditorReadOnly
  <2> QED
    BY <2>2, <2>3, <2>4, <2>6
<1> QED
  BY <1>3, <1>4

LEMMA AnswerKeeps == ASSUME IInv, NEW f \in Fields, Answer(f) PROVE IInv'
<1> USE DEF IInv
<1> DEFINE c == [Draft EXCEPT ![f] = edits + 1]
<1>1. /\ view = "shell" /\ edits < MaxEdits[timed] /\ edits' = edits + 1 /\ Store(c)
      /\ ScheduleSave /\ commitDue' = commitDue
      /\ committed' = [committed EXCEPT ![f] = edits + 1]
  BY DEF Answer
<1>2. Draft \in Content /\ committed \in Content
  BY ShownContent DEF TypeOK
<1>3. c \in Content /\ edits' \in 0 .. MaxEdits[timed] /\ committed' \in Content
  BY <1>1, <1>2, NextEdit
<1> HIDE DEF c
<1>4. commitDue' \in BOOLEAN /\ (commitDue' => commitDue)
  BY <1>1, Zenon DEF TypeOK
<1>5. ~EditorReadOnly
  BY DEF Answer, EditorReadOnly, Shells
<1>6. fate' \in [Fields -> {"kept", "hidden", "lost"}]
  BY DEF Answer, TypeOK
<1> QED
  BY <1>1, <1>3, <1>4, <1>5, <1>6, StoreStep DEF Answer

-----------------------------------------------------------------------------
(* Saves.                                                                  *)

\* A save joins the chain.
LEMMA GrownKeeps ==
    ASSUME IInv, view = "shell", NEW x \in {"auto", "final"}, chain' = Append(chain, x),
           IF x = "final" THEN fin = "none" /\ fin' = "flushing" ELSE fin' = fin,
           armed' \in BOOLEAN, fired' \in BOOLEAN, online' \in BOOLEAN, readOnly' \in BOOLEAN,
           UNCHANGED <<attempt, row, gates, copies, view, foreign, commitDue, dirty,
                       indicator, wire, strays, bounds, work, since, overtaken, cleared>>
    PROVE  IInv'
<1> USE DEF IInv
<1>1. UNCHANGED <<kind, timed, stored, sealed, locked, clock, mirror, cache, shot, seed, live,
                  view, foreign, commitDue, dirty, indicator, wire, strays, edits, troubles,
                  committed, fate, since, overtaken, cleared>>
  BY DEF attempt, row, gates, copies, bounds, work
<1>2. chain \in Seq({"auto", "final"}) /\ (wire # Nothing => chain # <<>>)
  BY DEF TypeOK
<1>3. x = "final" => ~Flushes(chain)
  BY DEF Shells
<1>4. /\ chain' \in Seq({"auto", "final"}) /\ chain' # <<>>
      /\ chain # <<>> => Head(chain') = Head(chain) /\ Len(chain') >= 2
      /\ Flushes(chain') <=> Flushes(chain) \/ x = "final"
      /\ \A i, j \in 1 .. Len(chain') : chain'[i] = "final" /\ chain'[j] = "final" => i = j
  BY <1>2, <1>3, ChainGrows DEF Shells
<1>5. TypeOK'
  <2>1. fin' \in {"none", "flushing", "posted", "answered"}
    BY DEF TypeOK
  <2> QED
    BY <1>1, <1>4, <2>1 DEF TypeOK
<1>6. Shells'
  BY <1>1, <1>4 DEF Shells, Flushes, Writing
<1>7. Submitting'
  <2>1. Flushed' => Flushed
    BY <1>1, <1>2, <1>4 DEF Flushed
  <2>2. fin' = "posted" => fin = "posted"
    OBVIOUS
  <2> QED
    BY <1>1, <2>1, <2>2, SubmittingKept DEF row, Submitting
<1>8. Acknowledging'
  BY <1>1, <1>2, <1>4 DEF Acknowledging
<1> QED
  BY <1>5, <1>6, <1>7, <1>8

\* Only what surrounds the page changes, and it does not open again what a
\* fresh save in flight has seen closed.
LEMMA AroundKeeps ==
    ASSUME IInv,
           UNCHANGED <<attempt, row, copies, view, commitDue, dirty, saves, fin, fired, strays,
                       edits, committed, fate, cleared>>,
           since' \subseteq Content, overtaken' \in BOOLEAN, Submitting',
           locked' \in BOOLEAN, locked => locked',
           clock' \in {"running", "zero", "over"}, clock = "over" => clock' = "over",
           online' \in BOOLEAN, readOnly' \in BOOLEAN, foreign' \in BOOLEAN, armed' \in BOOLEAN,
           indicator' \in Pending \cup {"idle", "saved"}, troubles' \in 0 .. MaxTroubles,
           EditorReadOnly => EditorReadOnly',
           Writing /\ ~EditorReadOnly /\ wire # Nothing => (online' => online),
           foreign' => foreign \/ Writing
    PROVE  IInv'
<1> USE DEF IInv
<1>1. UNCHANGED <<kind, timed, stored, sealed, mirror, cache, shot, seed, live, view, commitDue,
                  dirty, chain, wire, fin, fired, strays, edits, committed, fate,
                  cleared>>
  BY DEF attempt, row, copies, saves, work
<1>2. TypeOK'
  BY <1>1 DEF TypeOK, Pending
<1>3. Shells'
  BY <1>1 DEF Shells, Flushes, Writing
<1>4. Acknowledging'
  BY <1>1 DEF Acknowledging, Screen, Writing
<1> QED
  BY <1>2, <1>3, <1>4

LEMMA TimerFiresKeeps == ASSUME IInv, TimerFires PROVE IInv'
<1>1. armed' \in BOOLEAN /\ online' \in BOOLEAN /\ readOnly' \in BOOLEAN
      /\ foreign' \in BOOLEAN /\ fired' \in BOOLEAN
  BY Zenon DEF TimerFires, IInv, TypeOK
<1>2. CASE Due
  <2>1. chain' = Append(chain, "auto") /\ view = "shell"
    BY <1>2 DEF TimerFires, Due, IInv, TypeOK
  <2> QED
    BY <1>1, <2>1, GrownKeeps DEF TimerFires
<1>3. CASE ~Due
  <2>1. /\ UNCHANGED <<attempt, row, copies, view, commitDue, dirty, saves, fin, fired, strays,
                       edits, committed, fate, since, overtaken, cleared>>
        /\ UNCHANGED <<locked, clock, online, readOnly, foreign, indicator, troubles>>
    BY <1>3 DEF TimerFires, gates, saves, bounds, work
  <2>2. locked' \in BOOLEAN /\ (EditorReadOnly => EditorReadOnly') /\ overtaken' \in BOOLEAN
    BY <2>1, Zenon DEF IInv, TypeOK, EditorReadOnly
  <2>4. since' \subseteq Content /\ Submitting'
    BY <2>1, NothingSubmitted DEF IInv, TypeOK
  <2>3. /\ clock' \in {"running", "zero", "over"}
        /\ indicator' \in Pending \cup {"idle", "saved"} /\ troubles' \in 0 .. MaxTroubles
    BY <2>1 DEF IInv, TypeOK
  <2> QED
    BY <1>1, <2>1, <2>2, <2>3, <2>4, AroundKeeps
<1> QED
  BY <1>2, <1>3

LEMMA IssueKeeps == ASSUME IInv, Issue PROVE IInv'
<1> USE DEF IInv
<1> DEFINE w == [body |-> Shown, fresh |-> TRUE, at |-> "sent"]
<1>1. /\ chain # <<>> /\ wire = Nothing /\ wire' = w /\ indicator' = "saving"
      /\ UNCHANGED <<kind, timed, stored, sealed, locked, clock, mirror, cache, shot, seed,
                     live, view, online, readOnly, foreign, commitDue, dirty, armed, chain,
                     fin, fired, strays, edits, troubles, committed, fate, overtaken,
                     cleared>>
  BY DEF Issue, Drained, attempt, row, gates, copies, bounds, work
<1>2. view = "shell" /\ chain \in Seq({"auto", "final"})
  BY <1>1 DEF TypeOK
<1>3. Shown \in Content
  BY <1>2, ShownContent
<1>4. w \in Request /\ w.at = "sent" /\ w.body = Shown
  BY <1>3 DEF Request
<1> HIDE DEF w
<1>5. \/ since' = since \cup {Shown}
      \/ since' = since
      \/ /\ since' = {Shown} /\ Head(chain) = "final" /\ sealed = "no" /\ ~SubmittingBehind
  BY DEF Issue, AcceptsSave, AcceptsSubmit
<1>6. TypeOK'
  <2>1. since' \in SUBSET Content
    BY <1>3, <1>5 DEF TypeOK
  <2> QED
    BY <1>1, <1>4, <2>1 DEF TypeOK, Pending
<1>7. Shells'
  BY <1>1 DEF Shells, Flushes, Writing
<1>8. ~Flushed'
  BY <1>1, <1>4 DEF Flushed
<1>9. Submitting'
  <2>1. CASE since' = since \cup {Shown} \/ since' = since
    <3>1. fin' = "posted" => CanPost
      BY <1>1 DEF Submitting
    <3> QED
      BY <1>1, <1>8, <2>1, <3>1, SubmittingKept DEF row, Submitting
  <2>2. CASE Head(chain) = "final" /\ sealed = "no" /\ ~SubmittingBehind
    <3>1. Flushes(chain)
      <4>1. Head(chain) = chain[1] /\ 1 \in 1 .. Len(chain)
        BY <1>1, <1>2
      <4> QED
        BY <2>2, <4>1 DEF Flushes
    <3>2. fin' # "posted"
      BY <1>1, <3>1 DEF Shells
    <3>3. \A q \in strays : \A i \in 1 .. Len(q) : q[i].do = "save"
      <4>1. \A q \in strays : DOMAIN q = 1 .. Len(q)
        BY DEF TypeOK
      <4> QED
        BY <2>2, <4>1 DEF SubmittingBehind
    <3>4. \A q \in strays' : \A i \in 1 .. Len(q) : q[i].do \notin {"submit", "post"}
      BY <1>1, <3>3
    <3>5. NoLossySubmit'
      BY <1>1, <2>2 DEF NoLossySubmit
    <3> QED
      BY <1>8, <3>2, <3>4, <3>5 DEF Submitting
  <2> QED
    BY <1>5, <2>1, <2>2
<1>10. Acknowledging'
  <2>1. wire'.body = Screen' \/ (cache' = Nothing /\ wire'.body = Empty)
    BY <1>1, <1>2, <1>4 DEF Shown, Screen, Draft, Writing, TypeOK
  <2> QED
    BY <2>1 DEF Acknowledging
<1> QED
  BY <1>6, <1>7, <1>9, <1>10

\* The save in flight is answered: at, or lost.
LEMMA SavedKeeps == ASSUME IInv, Saved PROVE IInv'
<1> USE DEF IInv
<1>1. /\ wire # Nothing /\ wire.at = "sent" /\ sealed' = sealed
      /\ UNCHANGED <<kind, timed, locked, clock, mirror, cache, shot, seed, live, view, online,
                     readOnly, foreign, commitDue, dirty, armed, indicator, chain, fin, fired,
                     strays, edits, committed, fate, since, cleared>>
  BY DEF Saved, ServeSave, SaveBreaks, attempt, gates, copies, autosave, bounds, work
<1>2. troubles' \in 0 .. MaxTroubles
  <2>1. CASE ServeSave
    BY <2>1 DEF ServeSave, bounds, TypeOK
  <2>2. CASE SaveBreaks
    BY <2>2, TroubleCounts DEF SaveBreaks
  <2> QED
    BY <2>1, <2>2 DEF Saved
<1>3. PICK at \in {"ok", "net", "refused"} : wire' = [wire EXCEPT !.at = at]
  BY DEF Saved, ServeSave, SaveBreaks
<1>4. wire \in Request /\ chain # <<>> /\ view = "shell"
  BY <1>1 DEF TypeOK
<1>5. /\ wire' \in Request /\ wire' # Nothing /\ wire'.at = at
      /\ wire'.body = wire.body /\ wire'.fresh = wire.fresh
  <2> DEFINE w == [wire EXCEPT !.at = at]
  <2>1. w \in Request /\ w.at = at /\ w.body = wire.body /\ w.fresh = wire.fresh
    BY <1>4 DEF Request
  <2>2. wire' = w
    BY <1>3
  <2> HIDE DEF w
  <2> QED
    BY <2>1, <2>2, NotRequest
<1>6. wire.body \in Content
  BY <1>4 DEF Request
<1>7. \/ Apply(wire.body)
      \/ at = "net" /\ stored' = stored /\ overtaken' = overtaken
  <2>1. CASE ServeSave
    BY <2>1 DEF ServeSave
  <2>2. CASE SaveBreaks
    <3>1. wire'.at = "net"
      BY <1>3, <1>4, <2>2 DEF SaveBreaks, Request
    <3> QED
      BY <1>5, <2>2, <3>1 DEF SaveBreaks
  <2> QED
    BY <2>1, <2>2 DEF Saved
<1>8. /\ stored' \in Content /\ overtaken' \in BOOLEAN
      /\ (at # "net" \/ CanPost) => CanPost'
      /\ NoLossySubmit'
  <2>1. CASE Apply(wire.body)
    <3>1. UNCHANGED <<sealed, gates>> /\ since \subseteq since'
      BY <1>1 DEF gates
    <3> QED
      BY <1>6, <2>1, <3>1, ApplyStep DEF Submitting
  <2>2. CASE at = "net" /\ stored' = stored /\ overtaken' = overtaken
    <3>1. CanPost => CanPost'
      BY <1>1, <2>2 DEF CanPost, Lossless, AcceptsSubmit
    <3>2. NoLossySubmit'
      BY <1>1, <2>2 DEF Submitting, NoLossySubmit
    <3>3. stored' \in Content /\ overtaken' \in BOOLEAN
      BY <2>2, Zenon DEF TypeOK
    <3> QED
      BY <2>2, <3>1, <3>2, <3>3
  <2> QED
    BY <1>7, <2>1, <2>2
<1>9. TypeOK'
  BY <1>1, <1>2, <1>5, <1>8 DEF TypeOK
<1>10. Shells'
  BY <1>1 DEF Shells, Flushes, Writing
<1>11. Submitting'
  <2>1. ~Flushed
    BY <1>1 DEF Flushed
  <2>2. Flushed' => at # "net"
    BY <1>5 DEF Flushed
  <2>3. fin' = "posted" \/ Flushed' => CanPost'
    BY <1>1, <1>8, <2>2 DEF Submitting
  <2>4. \A q \in strays' : \A i \in 1 .. Len(q) : q[i].do \in {"submit", "post"} => CanPost'
    BY <1>1, <1>8 DEF Submitting
  <2> QED
    BY <1>8, <2>3, <2>4 DEF Submitting
<1>12. Acknowledging'
  <2>1. Screen' = Screen /\ EditorReadOnly' = EditorReadOnly /\ Writing' = Writing
    BY <1>1 DEF Screen, EditorReadOnly, Writing
  <2> QED
    BY <1>1, <1>5, <2>1 DEF Acknowledging
<1> QED
  BY <1>9, <1>10, <1>11, <1>12

LEMMA SaveSettlesKeeps == ASSUME IInv, SaveSettles PROVE IInv'
<1> USE DEF IInv
<1>1. /\ wire # Nothing /\ wire.at # "sent" /\ wire' = Nothing
      /\ UNCHANGED <<kind, timed, stored, sealed, locked, clock, mirror, cache, shot, seed,
                     live, view, online, foreign, commitDue, fired, strays, edits, troubles,
                     committed, fate, since, overtaken, cleared>>
  BY DEF SaveSettles, attempt, row, gates, copies, bounds, work
<1>2. wire \in Request /\ chain # <<>> /\ chain \in Seq({"auto", "final"}) /\ view = "shell"
  BY <1>1 DEF TypeOK
<1>3. chain' = Append(Tail(chain), "auto") \/ chain' = Tail(chain)
  BY DEF SaveSettles
<1>4. /\ Tail(chain) \in Seq({"auto", "final"}) /\ Head(chain) \in {"auto", "final"}
      /\ Head(chain) = "final" => Flushes(chain) /\ ~Flushes(Tail(chain))
      /\ Head(chain) # "final" => (Flushes(Tail(chain)) <=> Flushes(chain))
      /\ \A i, j \in 1 .. Len(Tail(chain)) :
             Tail(chain)[i] = "final" /\ Tail(chain)[j] = "final" => i = j
  BY <1>2, ChainShrinks DEF Shells
<1>5. /\ chain' \in Seq({"auto", "final"}) /\ (Flushes(chain') <=> Flushes(Tail(chain)))
      /\ \A i, j \in 1 .. Len(chain') : chain'[i] = "final" /\ chain'[j] = "final" => i = j
  <2>1. CASE chain' = Tail(chain)
    BY <1>4, <2>1
  <2>2. CASE chain' = Append(Tail(chain), "auto")
    <3> DEFINE t == Tail(chain)
               grown == Append(t, "auto")
    <3>1. /\ t \in Seq({"auto", "final"})
          /\ \A i, j \in 1 .. Len(t) : t[i] = "final" /\ t[j] = "final" => i = j
      BY <1>4
    <3> HIDE DEF t
    <3>2. /\ grown \in Seq({"auto", "final"}) /\ (Flushes(grown) <=> Flushes(t))
          /\ \A i, j \in 1 .. Len(grown) : grown[i] = "final" /\ grown[j] = "final" => i = j
      <4>1. "auto" \in {"auto", "final"}
        OBVIOUS
      <4> QED
        BY <3>1, <4>1, ChainGrows
    <3>3. chain' = grown
      BY <2>2 DEF t
    <3> HIDE DEF grown
    <3> QED
      BY <3>2, <3>3 DEF t
  <2> QED
    BY <1>3, <2>1, <2>2
<1>6. fin' = IF Head(chain) = "final" THEN AfterFlush(wire.at) ELSE fin
  BY DEF SaveSettles
<1>7. AfterFlush(wire.at) \in {"none", "posted"}
      /\ (AfterFlush(wire.at) = "posted" => wire.at \in {"ok", "refused"})
  BY <1>1, <1>2 DEF AfterFlush, Request
<1>8. TypeOK'
  <2>1. armed' \in BOOLEAN
    BY Zenon DEF SaveSettles, TypeOK
  <2>2. dirty' \in BOOLEAN
    BY Zenon DEF SaveSettles, TypeOK
  <2>3. readOnly' \in BOOLEAN
    BY Zenon DEF SaveSettles, TypeOK
  <2>4. indicator' \in Pending \cup {"idle", "saved"}
    BY DEF SaveSettles, TypeOK, Pending
  <2>5. fin' \in {"none", "flushing", "posted", "answered"}
    BY <1>6, <1>7 DEF TypeOK
  <2> QED
    BY <1>1, <1>2, <1>5, <2>1, <2>2, <2>3, <2>4, <2>5 DEF TypeOK
<1>9. Shells'
  <2>1. fin' = "flushing" <=> Flushes(chain')
    <3>1. CASE Head(chain) = "final"
      BY <1>4, <1>5, <1>6, <1>7, <3>1
    <3>2. CASE Head(chain) # "final"
      BY <1>4, <1>5, <1>6, <3>2 DEF Shells
    <3> QED
      BY <3>1, <3>2
  <2> QED
    BY <1>1, <1>5, <2>1 DEF Shells, Writing
<1>10. Submitting'
  <2>1. ~Flushed'
    BY <1>1, NothingInFlight
  <2>2. fin' = "posted" => fin = "posted" \/ Flushed
    BY <1>1, <1>6, <1>7 DEF Flushed
  <2> QED
    BY <1>1, <2>1, <2>2, SubmittingKept DEF row, Submitting
<1>11. Acknowledging'
  BY <1>1, NothingInFlight
<1> QED
  BY <1>8, <1>9, <1>10, <1>11

-----------------------------------------------------------------------------
(* The finalizer.                                                          *)

LEMMA FinalizeKeeps == ASSUME IInv, Confirm \/ Expire PROVE IInv'
<1>1. /\ view = "shell" /\ fin = "none" /\ fin' = "flushing" /\ armed' = FALSE
      /\ chain' = Append(chain, "final")
      /\ UNCHANGED <<attempt, row, gates, copies, view, online, readOnly, foreign, commitDue,
                     dirty, indicator, wire, strays, bounds, work, since, overtaken,
                     cleared>>
  BY DEF Confirm, Expire, Finalize
<1>2. armed' \in BOOLEAN /\ online' \in BOOLEAN /\ readOnly' \in BOOLEAN
  BY <1>1, Zenon DEF IInv, TypeOK
<1>3. fired' \in BOOLEAN
  BY Zenon DEF IInv, TypeOK, Confirm, Expire
<1> QED
  BY <1>1, <1>2, <1>3, GrownKeeps

LEMMA ExpireTwiceKeeps == ASSUME IInv, ExpireTwice PROVE IInv'
<1> USE DEF IInv
<1>1. /\ view = "shell" /\ view' = "confirmed" /\ Unmount
      /\ mirror' = Nothing /\ cleared' = TRUE
      /\ UNCHANGED <<kind, timed, stored, sealed, locked, clock, cache, seed, online, indicator,
                     edits, troubles, committed, fate, overtaken>>
  BY DEF ExpireTwice, attempt, row, gates, bounds, work
<1>2. /\ strays' \subseteq Seq(Errand) /\ \A q \in strays' : q # <<>>
      /\ \A q \in strays' : \A i \in 1 .. Len(q) : q[i].do \in {"submit", "post"} => CanPost
      /\ since \subseteq since' /\ since' \subseteq Content
      /\ commitDue' = FALSE /\ dirty' = FALSE /\ armed' = FALSE
      /\ chain' = <<>> /\ wire' = Nothing /\ fin' = "none"
      /\ shot' \in Content /\ live' \in Content
      /\ readOnly' = FALSE /\ foreign' = FALSE /\ fired' = FALSE
  BY <1>1, EmptyContent, UnmountStep
<1>3. TypeOK'
  <2>1. /\ commitDue' \in BOOLEAN /\ dirty' \in BOOLEAN /\ armed' \in BOOLEAN
        /\ readOnly' \in BOOLEAN /\ foreign' \in BOOLEAN /\ fired' \in BOOLEAN
        /\ cleared' \in BOOLEAN
    BY <1>1, <1>2, Zenon
  <2>2. /\ view' \in {"away", "shell", "error", "confirmed"} /\ view' # "shell"
        /\ chain' \in Seq({"auto", "final"}) /\ wire' \in Request \cup {Nothing}
        /\ fin' \in {"none", "flushing", "posted", "answered"}
    BY <1>1, <1>2
  <2> QED
    BY <1>1, <1>2, <2>1, <2>2 DEF TypeOK
<1>4. Shells'
  BY <1>1, <1>2 DEF Shells, Flushes, Writing
<1>5. Submitting'
  BY <1>1, <1>2, SubmittingKept, NothingInFlight DEF row
<1>6. Acknowledging'
  BY <1>2, NothingInFlight
<1> QED
  BY <1>3, <1>4, <1>5, <1>6

\* A submit that may be posted seals a row it may seal.
LEMMA SealStep ==
    ASSUME TypeOK, CanPost, sealed' \in {sealed, IF AcceptsSubmit THEN "own" ELSE sealed},
           UNCHANGED <<stored, gates, since, overtaken>>
    PROVE  /\ sealed' \in {"no", "own", "foreign"} /\ CanPost'
           /\ NoLossySubmit => NoLossySubmit'
<1>1. UNCHANGED <<locked, clock>>
  BY DEF gates
<1>2. CASE sealed' = sealed
  BY <1>1, <1>2 DEF TypeOK, CanPost, Lossless, AcceptsSubmit, NoLossySubmit
<1>3. CASE AcceptsSubmit /\ sealed' = "own"
  BY <1>1, <1>3 DEF CanPost, Lossless, AcceptsSubmit, NoLossySubmit
<1> QED
  BY <1>2, <1>3

LEMMA PostedKeeps == ASSUME IInv, ServeSubmit \/ SubmitBreaks PROVE IInv'
<1> USE DEF IInv
<1>1. /\ fin = "posted" /\ fin' \in {"answered", "none"}
      /\ sealed' \in {sealed, IF AcceptsSubmit THEN "own" ELSE sealed}
      /\ UNCHANGED <<kind, timed, stored, locked, clock, mirror, cache, shot, seed, live, view,
                     online, readOnly, foreign, commitDue, dirty, armed, indicator, chain,
                     wire, fired, strays, edits, committed, fate, since, overtaken, cleared>>
  BY DEF ServeSubmit, SubmitBreaks, attempt, gates, copies, autosave, saves, bounds, work
<1>2. troubles' \in 0 .. MaxTroubles
  <2>1. CASE ServeSubmit
    BY <2>1 DEF ServeSubmit, bounds, TypeOK
  <2>2. CASE SubmitBreaks
    BY <2>2, TroubleCounts DEF SubmitBreaks
  <2> QED
    BY <2>1, <2>2
<1>3. CanPost
  BY <1>1 DEF Submitting
<1>4. sealed' \in {"no", "own", "foreign"} /\ CanPost' /\ (NoLossySubmit => NoLossySubmit')
  BY <1>1, <1>3, SealStep DEF gates
<1>5. view = "shell"
  BY <1>1 DEF TypeOK
<1>6. TypeOK'
  BY <1>1, <1>2, <1>4, <1>5 DEF TypeOK
<1>7. Shells'
  BY <1>1 DEF Shells, Flushes, Writing
<1>8. Submitting'
  BY <1>1, <1>4 DEF Submitting
<1>9. Acknowledging'
  BY <1>1, AcknowledgingKept DEF attempt, EditorReadOnly
<1> QED
  BY <1>6, <1>7, <1>8, <1>9

LEMMA SubmittedKeeps == ASSUME IInv, Submitted PROVE IInv'
<1> USE DEF IInv
<1>1. /\ view' = "confirmed" /\ mirror' = Nothing /\ cleared' = TRUE
      /\ commitDue' = FALSE /\ dirty' = FALSE /\ armed' = FALSE
      /\ chain' = <<>> /\ wire' = Nothing /\ fin' = "none"
      /\ shot' = Empty /\ live' = Empty
      /\ readOnly' = FALSE /\ foreign' = FALSE /\ fired' = FALSE
      /\ UNCHANGED <<kind, timed, stored, sealed, locked, clock, cache, seed, online, indicator,
                     strays, edits, troubles, committed, fate, since, overtaken>>
  BY DEF Submitted, Quiet, attempt, row, gates, bounds, work
<1>2. TypeOK'
  <2>1. /\ commitDue' \in BOOLEAN /\ dirty' \in BOOLEAN /\ armed' \in BOOLEAN
        /\ readOnly' \in BOOLEAN /\ foreign' \in BOOLEAN /\ fired' \in BOOLEAN
        /\ cleared' \in BOOLEAN
    BY <1>1, Zenon
  <2>2. /\ view' \in {"away", "shell", "error", "confirmed"} /\ view' # "shell"
        /\ chain' \in Seq({"auto", "final"}) /\ wire' \in Request \cup {Nothing}
        /\ fin' \in {"none", "flushing", "posted", "answered"}
        /\ shot' \in Content /\ live' \in Content
    BY <1>1, EmptyContent
  <2> QED
    BY <1>1, <2>1, <2>2 DEF TypeOK
<1>3. Shells'
  BY <1>1 DEF Shells, Flushes, Writing
<1>4. Submitting'
  BY <1>1, SubmittingKept, NothingInFlight DEF row, Submitting
<1>5. Acknowledging'
  BY <1>1, NothingInFlight
<1> QED
  BY <1>2, <1>3, <1>4, <1>5

-----------------------------------------------------------------------------
(* In the background, and around the page.                                 *)

LEMMA StraySavedKeeps == ASSUME IInv, NEW q \in strays, StraySaved(q) PROVE IInv'
<1> USE DEF IInv
<1>1. /\ Apply(Head(q).body) /\ sealed' = sealed
      /\ UNCHANGED <<kind, timed, locked, clock, mirror, cache, shot, seed, live, view, online,
                     readOnly, foreign, commitDue, dirty, armed, indicator, chain, wire, fin,
                     fired, edits, troubles, committed, fate, cleared>>
  BY DEF StraySaved, attempt, gates, copies, autosave, saves, bounds, work
<1>2. /\ Head(q) \in Errand
      /\ Rest(q) \subseteq Seq(Errand) /\ \A r \in Rest(q) : r # <<>>
  BY RestStep
<1>3. Head(q).body \in Content
  BY <1>2 DEF Errand
<1>4. UNCHANGED <<sealed, gates>> /\ since \subseteq since' /\ since' \subseteq Content
  BY <1>1, RestStep DEF gates, StraySaved
<1>5. stored' \in Content /\ overtaken' \in BOOLEAN /\ CanPost' /\ NoLossySubmit'
  BY <1>1, <1>3, <1>4, ApplyStep DEF Submitting
<1>6. strays' \subseteq Seq(Errand) /\ \A r \in strays' : r # <<>>
  <2> DEFINE e == Task("submit")
  <2>1. e \in Errand
    BY EmptyContent, ErrandParts
  <2>2. strays' = Rest(q) \cup (IF Head(q).do = "flush" THEN {<<e>>} ELSE {})
    BY DEF StraySaved
  <2> HIDE DEF e
  <2>3. <<e>> \in Seq(Errand) /\ <<e>> # <<>>
    BY <2>1
  <2> QED
    BY <1>2, <2>2, <2>3
<1>7. TypeOK'
  BY <1>1, <1>4, <1>5, <1>6 DEF TypeOK
<1>8. Shells'
  BY <1>1, <1>6 DEF Shells, Flushes, Writing
<1>9. Submitting'
  BY <1>5 DEF Submitting
<1>10. Acknowledging'
  BY <1>1, AcknowledgingKept DEF attempt, EditorReadOnly
<1> QED
  BY <1>7, <1>8, <1>9, <1>10

LEMMA StraySubmittedKeeps == ASSUME IInv, NEW q \in strays, StraySubmitted(q) PROVE IInv'
<1> USE DEF IInv
<1>1. /\ Head(q).do \in {"submit", "post"} /\ strays' = Rest(q)
      /\ sealed' = (IF AcceptsSubmit THEN "own" ELSE sealed)
      /\ \/ mirror' = Nothing /\ cleared' = TRUE
         \/ mirror' = mirror /\ cleared' = cleared
      /\ UNCHANGED <<kind, timed, stored, locked, clock, cache, shot, seed, live, view, online,
                     readOnly, foreign, commitDue, dirty, armed, indicator, chain, wire, fin,
                     fired, edits, troubles, committed, fate, since, overtaken>>
  <2>1. /\ Head(q).do \in {"submit", "post"} /\ strays' = Rest(q)
        /\ sealed' = (IF AcceptsSubmit THEN "own" ELSE sealed)
        /\ UNCHANGED <<kind, timed, stored, locked, clock, cache, shot, seed, live, view,
                       online, readOnly, foreign, commitDue, dirty, armed, indicator, chain,
                       wire, fin, fired, edits, troubles, committed, fate, since, overtaken>>
    BY DEF StraySubmitted, attempt, gates, autosave, saves, bounds, work
  <2>2. \/ mirror' = Nothing /\ cleared' = TRUE
        \/ mirror' = mirror /\ cleared' = cleared
    <3>1. CASE Head(q).do = "submit"
      BY <3>1 DEF StraySubmitted
    <3>2. CASE Head(q).do # "submit"
      <4>1. mirror' = mirror
        BY <3>2 DEF StraySubmitted
      <4>2. cleared' = (cleared \/ FALSE)
        BY <3>2, Zenon DEF StraySubmitted
      <4>3. cleared' = cleared
        BY <4>2, Zenon DEF TypeOK
      <4> QED
        BY <4>1, <4>3
    <3> QED
      BY <3>1, <3>2
  <2> QED
    BY <2>1, <2>2
<1>2. /\ CanPost /\ Rest(q) \subseteq Seq(Errand) /\ \A r \in Rest(q) : r # <<>>
  BY <1>1, RestStep
<1>3. sealed' \in {"no", "own", "foreign"} /\ CanPost' /\ NoLossySubmit'
  BY <1>1, <1>2, SealStep DEF gates, Submitting
<1>4. cleared' \in BOOLEAN
  BY <1>1, Zenon DEF TypeOK
<1>5. TypeOK'
  BY <1>1, <1>2, <1>3, <1>4 DEF TypeOK
<1>6. Shells'
  BY <1>1, <1>2 DEF Shells, Flushes, Writing
<1>7. Submitting'
  BY <1>3 DEF Submitting
<1>8. Acknowledging'
  BY <1>1 DEF Acknowledging, Screen, Writing, EditorReadOnly
<1> QED
  BY <1>5, <1>6, <1>7, <1>8

LEMMA StrayLostKeeps == ASSUME IInv, NEW q \in strays, StrayLost(q) PROVE IInv'
<1> USE DEF IInv
<1>1. /\ strays' = Rest(q)
      /\ UNCHANGED <<kind, timed, stored, sealed, locked, clock, mirror, cache, shot, seed,
                     live, view, online, readOnly, foreign, commitDue, dirty, armed,
                     indicator, chain, wire, fin, fired, edits, committed, fate, overtaken,
                     cleared>>
  BY DEF StrayLost, attempt, row, gates, copies, autosave, saves, work
<1>2. /\ Rest(q) \subseteq Seq(Errand) /\ \A r \in Rest(q) : r # <<>>
      /\ \A r \in Rest(q) : \A i \in 1 .. Len(r) : r[i].do \in {"submit", "post"} => CanPost
      /\ since \subseteq since' /\ since' \subseteq Content
  BY RestStep DEF StrayLost
<1>3. troubles' \in 0 .. MaxTroubles
  BY TroubleCounts DEF StrayLost
<1>4. TypeOK'
  BY <1>1, <1>2, <1>3 DEF TypeOK
<1>5. Shells'
  BY <1>1, <1>2 DEF Shells, Flushes, Writing
<1>6. Submitting'
  <2>1. Flushed' = Flushed
    BY <1>1 DEF Flushed
  <2> QED
    BY <1>1, <1>2, <2>1, SubmittingKept DEF row, Submitting
<1>7. Acknowledging'
  BY <1>1, AcknowledgingKept DEF attempt, EditorReadOnly
<1> QED
  BY <1>4, <1>5, <1>6, <1>7

LEMMA NetworkKeeps == ASSUME IInv, GoOffline \/ GoOnline PROVE IInv'
<1>1. /\ UNCHANGED <<attempt, row, gates, copies, view, readOnly, foreign, commitDue, dirty,
                     wire, fin, fired, strays, edits, committed, fate, since, overtaken,
                     cleared>>
  BY DEF GoOffline, GoOnline, saves, bounds, work
<1>2. troubles' \in 0 .. MaxTroubles
  <2>1. CASE GoOffline
    BY <2>1, TroubleCounts DEF GoOffline, IInv
  <2>2. CASE GoOnline
    BY <2>2 DEF GoOnline, bounds, IInv, TypeOK
  <2> QED
    BY <2>1, <2>2
<1>3. /\ locked' \in BOOLEAN /\ readOnly' \in BOOLEAN
      /\ foreign' \in BOOLEAN /\ fired' \in BOOLEAN
  BY <1>1, Zenon DEF IInv, TypeOK, gates
<1>4. armed' \in BOOLEAN /\ online' \in BOOLEAN
  BY Zenon DEF GoOffline, GoOnline, IInv, TypeOK
<1>5. /\ clock' \in {"running", "zero", "over"} /\ clock' = clock /\ locked' = locked
      /\ EditorReadOnly' = EditorReadOnly
  BY <1>1 DEF gates, EditorReadOnly, IInv, TypeOK
<1>6. indicator' \in Pending \cup {"idle", "saved"}
  BY DEF GoOffline, GoOnline, Pending, IInv, TypeOK
<1>7. CASE chain' = chain
  <2>1. Writing /\ ~EditorReadOnly /\ wire # Nothing => (online' => online)
    <3>1. CASE GoOffline
      BY <3>1 DEF GoOffline
    <3>2. CASE GoOnline
      <4>1. ASSUME Writing, ~EditorReadOnly, wire # Nothing PROVE FALSE
        <5>1. view = "shell" /\ chain \in Seq({"auto", "final"})
          BY <4>1 DEF IInv, TypeOK
        <5>2. chain' = Append(chain, "auto")
          BY <3>2, <4>1, <5>1 DEF GoOnline
        <5>3. Len(chain') = Len(chain) + 1 /\ Len(chain) \in Nat
          BY <5>1, <5>2, ChainGrows
        <5> QED
          BY <1>7, <5>3
      <4> QED
        BY <4>1
    <3> QED
      BY <3>1, <3>2
  <2> QED
    <3>1. since' \subseteq Content /\ overtaken' \in BOOLEAN
      BY <1>1, Zenon DEF IInv, TypeOK
    <3>2. Submitting'
      BY <1>1, <1>5, <1>7, NothingSubmitted DEF IInv, saves
    <3> QED
      BY <1>1, <1>2, <1>3, <1>4, <1>5, <1>6, <1>7, <2>1, <3>1, <3>2, AroundKeeps DEF saves
<1>8. CASE chain' # chain
  <2>1. GoOnline
    BY <1>8 DEF GoOffline, saves
  <2>2. /\ view = "shell" /\ chain' = Append(chain, "auto") /\ UNCHANGED <<indicator, bounds>>
    BY <1>8, <2>1 DEF GoOnline
  <2> QED
    BY <1>1, <1>3, <1>4, <2>2, GrownKeeps DEF work
<1> QED
  BY <1>7, <1>8

LEMMA DeadlineSeenKeeps == ASSUME IInv, DeadlineSeen PROVE IInv'
<1>1. /\ UNCHANGED <<attempt, row, gates, copies, view, online, foreign, commitDue, dirty,
                     indicator, wire, fin, fired, strays, bounds, work, since, overtaken,
                     cleared>>
      /\ readOnly' = TRUE /\ view = "shell"
  BY DEF DeadlineSeen
<1>2. /\ locked' \in BOOLEAN /\ online' \in BOOLEAN /\ readOnly' \in BOOLEAN
      /\ foreign' \in BOOLEAN /\ fired' \in BOOLEAN
  BY <1>1, Zenon DEF IInv, TypeOK, gates
<1>3. armed' \in BOOLEAN
  BY Zenon DEF DeadlineSeen, IInv, TypeOK
<1>4. CASE chain' = Append(chain, "auto")
  BY <1>1, <1>2, <1>3, <1>4, GrownKeeps
<1>5. CASE chain' = chain
  <2>1. /\ locked' = locked /\ clock' = clock /\ clock \in {"running", "zero", "over"}
        /\ edits' = edits /\ troubles' = troubles /\ troubles \in 0 .. MaxTroubles
        /\ indicator \in Pending \cup {"idle", "saved"}
    BY <1>1 DEF gates, bounds, IInv, TypeOK
  <2>2. EditorReadOnly'
    BY <1>1 DEF EditorReadOnly
  <2> QED
    <3>1. since' \subseteq Content /\ overtaken' \in BOOLEAN
      BY <1>1, Zenon DEF IInv, TypeOK
    <3>2. Submitting'
      BY <1>1, <1>5, <2>1, NothingSubmitted DEF IInv, saves
    <3> QED
      BY <1>1, <1>2, <1>3, <1>5, <2>1, <2>2, <3>1, <3>2, AroundKeeps DEF saves, work
<1> QED
  BY <1>4, <1>5 DEF DeadlineSeen

\* A row that takes no submit any more, and an attempt whose time is over, owe the
\* finalizer nothing.
LEMMA SubmittingOver ==
    ASSUME Submitting, ~AcceptsSubmit' \/ clock' = "over", sealed' = "own" => sealed = "own",
           AcceptsSubmit \/ clock' = "over"
    PROVE  Submitting'
<1>1. CanPost'
  BY DEF CanPost, Lossless
<1>2. NoLossySubmit'
  BY DEF NoLossySubmit, AcceptsSubmit
<1> QED
  BY <1>1, <1>2 DEF Submitting

\* Time passes, the assignment is locked, another tab speaks.
LEMMA AroundStep == ASSUME IInv, Lock \/ TimePasses \/ ForeignHeard PROVE IInv'
<1>1. /\ UNCHANGED <<attempt, row, copies, view, commitDue, dirty, saves, fin, fired, strays,
                     edits, committed, fate, cleared>>
      /\ UNCHANGED <<online, readOnly, armed, indicator, troubles>>
  BY DEF Lock, TimePasses, ForeignHeard, gates, autosave, bounds, work
<1>2. locked' \in BOOLEAN /\ (locked => locked')
  BY Zenon DEF Lock, TimePasses, ForeignHeard, gates, IInv, TypeOK
<1>3. clock' \in {"running", "zero", "over"} /\ (clock = "over" => clock' = "over")
  BY DEF Lock, TimePasses, ForeignHeard, gates, IInv, TypeOK
<1>4. /\ online' \in BOOLEAN /\ readOnly' \in BOOLEAN /\ armed' \in BOOLEAN
  BY <1>1, Zenon DEF IInv, TypeOK
<1>5. foreign' \in BOOLEAN /\ (foreign => foreign') /\ (foreign' => foreign \/ Writing)
  <2>1. CASE foreign' = foreign
    BY <2>1, Zenon DEF IInv, TypeOK
  <2>2. CASE ForeignHeard
    <3>1. foreign' = TRUE /\ Writing
      BY <2>2 DEF ForeignHeard
    <3> QED
      BY <3>1, Zenon
  <2> QED
    BY <2>1, <2>2 DEF Lock, TimePasses
<1>6. EditorReadOnly => EditorReadOnly'
  BY <1>1, <1>5, Zenon DEF EditorReadOnly
<1>7. indicator' \in Pending \cup {"idle", "saved"} /\ troubles' \in 0 .. MaxTroubles
  BY <1>1 DEF IInv, TypeOK
<1>8. since' \subseteq Content /\ overtaken' \in BOOLEAN
  <2>1. since' = since \/ since' = {}
    BY DEF Lock, TimePasses, ForeignHeard
  <2>2. overtaken' = overtaken \/ overtaken' = FALSE
    BY Zenon DEF Lock, TimePasses, ForeignHeard
  <2>3. overtaken' \in BOOLEAN
    BY <2>2, Zenon DEF IInv, TypeOK
  <2> QED
    BY <2>1, <2>3 DEF IInv, TypeOK
<1>9. Submitting'
  <2>1. CASE Lock \/ (TimePasses /\ clock = "zero")
    <3>1. (AcceptsSubmit /\ locked' = TRUE) \/ clock' = "over"
      BY <2>1 DEF Lock, TimePasses
    <3> QED
      BY <1>1, <3>1, SubmittingOver DEF IInv, AcceptsSubmit, row
  <2>2. CASE (TimePasses /\ clock # "zero") \/ ForeignHeard
    <3>1. since' = since /\ overtaken' = overtaken
      BY <2>2 DEF TimePasses, ForeignHeard
    <3> QED
      BY <1>1, <1>2, <1>3, <3>1, NothingSubmitted DEF IInv
  <2> QED
    BY <2>1, <2>2
<1> QED
  BY <1>1, <1>2, <1>3, <1>4, <1>5, <1>6, <1>7, <1>8, <1>9, AroundKeeps

LEMMA ForeignSubmitKeeps == ASSUME IInv, ForeignSubmit PROVE IInv'
<1> USE DEF IInv
<1>1. /\ AcceptsSubmit /\ sealed' = "foreign" /\ since' = {} /\ overtaken' = FALSE
      /\ UNCHANGED <<kind, timed, stored, locked, clock, mirror, cache, shot, seed, live, view,
                     online, readOnly, foreign, commitDue, dirty, armed, indicator, chain,
                     wire, fin, fired, strays, edits, troubles, committed, fate, cleared>>
  BY DEF ForeignSubmit, attempt, gates, copies, autosave, saves, bounds, work
<1>2. TypeOK'
  <2>1. overtaken' \in BOOLEAN
    BY <1>1, Zenon
  <2> QED
    BY <1>1, <2>1 DEF TypeOK
<1>3. Shells'
  BY <1>1 DEF Shells, Flushes, Writing
<1>4. Submitting'
  BY <1>1, SubmittingOver DEF AcceptsSubmit
<1>5. Acknowledging'
  BY <1>1, AcknowledgingKept DEF attempt, EditorReadOnly
<1> QED
  BY <1>2, <1>3, <1>4, <1>5

LEMMA CollectKeeps == ASSUME IInv, Collect PROVE IInv'
<1> USE DEF IInv
<1>1. /\ cache' = Nothing
      /\ UNCHANGED <<kind, timed, stored, sealed, locked, clock, mirror, shot, seed, live, view,
                     online, readOnly, foreign, commitDue, dirty, armed, indicator, chain, wire,
                     fin, fired, strays, edits, troubles, committed, fate, since, overtaken,
                     cleared>>
  BY DEF Collect, attempt, row, gates, autosave, saves, bounds, work
<1>2. TypeOK'
  BY <1>1 DEF TypeOK
<1>3. Shells'
  BY <1>1 DEF Shells, Flushes, Writing
<1>4. Submitting'
  BY <1>1, NothingSubmitted DEF row, saves
<1>5. Acknowledging'
  BY <1>1 DEF Acknowledging, Screen, Writing, EditorReadOnly
<1> QED
  BY <1>2, <1>3, <1>4, <1>5

LEMMA StutterKeeps == ASSUME IInv, UNCHANGED vars PROVE IInv'
<1> USE DEF IInv
<1>1. UNCHANGED <<kind, timed, stored, sealed, locked, clock, mirror, cache, shot, seed, live,
                  view, online, readOnly, foreign, commitDue, dirty, armed, indicator, chain,
                  wire, fin, fired, strays, edits, troubles, committed, fate, since,
                  overtaken, cleared>>
  BY DEF vars
<1>2. TypeOK'
  BY <1>1 DEF TypeOK, Pending
<1>3. Shells'
  BY <1>1 DEF Shells, Flushes, Writing
<1>4. Submitting'
  BY <1>1, NothingSubmitted DEF row, saves
<1>5. Acknowledging'
  BY <1>1, AcknowledgingKept DEF attempt, EditorReadOnly
<1> QED
  BY <1>2, <1>3, <1>4, <1>5

LEMMA StepKeeps == IInv /\ [Next]_vars => IInv'
<1> SUFFICES ASSUME IInv, [Next]_vars PROVE IInv'
  OBVIOUS
<1>1. CASE Load \/ Remount \/ BootstrapRefused \/ BootstrapFails \/ Leave \/ Reload \/ Collect
  BY <1>1, LoadKeeps, RemountKeeps, RefetchedKeeps, LeaveKeeps, ReloadKeeps,
      CollectKeeps
<1>2. CASE Commit \/ \E f \in Fields : Type(f) \/ Answer(f)
  BY <1>2, TypeKeeps, CommitKeeps, AnswerKeeps
<1>3. CASE TimerFires \/ Issue \/ Saved \/ SaveSettles
  BY <1>3, TimerFiresKeeps, IssueKeeps, SavedKeeps, SaveSettlesKeeps
<1>4. CASE Confirm \/ Expire \/ ExpireTwice \/ ServeSubmit \/ SubmitBreaks \/ Submitted
  BY <1>4, FinalizeKeeps, ExpireTwiceKeeps, PostedKeeps, SubmittedKeeps
<1>5. CASE \E q \in strays : StraySaved(q) \/ StraySubmitted(q) \/ StrayLost(q)
  BY <1>5, StraySavedKeeps, StraySubmittedKeeps, StrayLostKeeps
<1>6. CASE GoOffline \/ GoOnline \/ Lock \/ DeadlineSeen \/ TimePasses \/ ForeignSubmit
           \/ ForeignHeard
  BY <1>6, NetworkKeeps, AroundStep, DeadlineSeenKeeps, ForeignSubmitKeeps
<1>7. CASE UNCHANGED vars
  BY <1>7, StutterKeeps
<1> QED
  BY <1>1, <1>2, <1>3, <1>4, <1>5, <1>6, <1>7 DEF Next

-----------------------------------------------------------------------------
(* What the copies of the work hold.                                       *)

LEMMA CopiesNat ==
    ASSUME TypeOK, NEW f \in Fields
    PROVE  /\ edits \in Nat /\ committed[f] \in Nat /\ live[f] \in Nat /\ shot[f] \in Nat
           /\ stored[f] \in Nat
           /\ mirror # Nothing => mirror[f] \in Nat
           /\ cache # Nothing => cache[f] \in Nat
           /\ seed # Nothing => seed[f] \in Nat
           /\ fate[f] \in {"kept", "hidden", "lost"}
  BY DEF TypeOK, Content

LEMMA InitSurvives == Init => Surviving
<1> SUFFICES ASSUME Init PROVE Surviving
  OBVIOUS
<1>1. Untouched /\ live = Empty /\ edits = 0 /\ view # "shell" /\ mirror = Nothing
  BY DEF Init, Untouched
<1>2. cache = Nothing /\ seed = Nothing /\ committed = Empty
  BY <1>1 DEF Untouched
<1>3. \A f \in Fields : Has(mirror, f) /\ Has(cache, f) /\ Grows(f)
  BY <1>1, <1>2, EmptyContent DEF Grows, Has, Older
<1> QED
  BY <1>1, <1>3 DEF Surviving

\* The steps that leave the copies alone, and those that take a shell or a slot
\* away.
LEMMA CopiesKept ==
    ASSUME IInv, Surviving, UNCHANGED <<kind, mirror, committed, fate, edits, cleared>>,
           cache' \in {cache, Nothing}, seed' \in {seed, Nothing},
           UNCHANGED <<shot, live, view>> \/ (view' # "shell" /\ live' \in {live, Empty}),
           mirror = Nothing /\ ~cleared => stored' = stored /\ strays' = strays
    PROVE  Surviving'
<1> SUFFICES ASSUME ~cleared PROVE Surviving'
  BY DEF Surviving
<1>1. mirror' = Nothing => Untouched'
  BY DEF Surviving, Untouched
<1>2. ASSUME NEW f \in Fields
      PROVE  /\ fate'[f] # "lost" => Has(mirror, f)' /\ Has(cache, f)'
             /\ view' = "shell" /\ fate'[f] = "kept" => Holds(Screen, f)'
             /\ Writing' => Grows(f)'
  <2>1. Writing' = Writing
    BY DEF Writing
  <2>2. (Has(mirror, f) => Has(mirror, f)') /\ (Has(cache, f) => Has(cache, f)')
    BY DEF Has, Holds, Writing
  <2>3. ASSUME view' = "shell" PROVE view = "shell" /\ (Holds(Screen, f) => Holds(Screen, f)')
    BY <2>3 DEF Holds, Screen, Writing
  <2>4. Grows(f) => Grows(f)'
    BY EmptyContent, CopiesNat DEF IInv, Grows, Older
  <2> QED
    BY <2>1, <2>2, <2>3, <2>4 DEF Surviving
<1> QED
  BY <1>1, <1>2 DEF Surviving

\* A page that loads or mounts has the draft, or where it is gone the mirror.
LEMMA LoadSurvives == ASSUME IInv, Surviving, Load PROVE Surviving'
<1> DEFINE draft == Reconciled
<1> SUFFICES ASSUME ~cleared PROVE Surviving'
  BY DEF Surviving, Load
<1>1. draft \in Content /\ draft # Nothing
  BY ReconciledContent, NotContent DEF IInv
<1>2. ASSUME NEW f \in Fields
      PROVE  /\ fate[f] # "lost" => Holds(draft, f)
             /\ Writing => draft[f] <= committed[f]
  <2>1. CASE cache # Nothing
    BY <1>2, <2>1 DEF Surviving, Reconciled, Has, Grows, Older
  <2>2. CASE cache = Nothing /\ mirror # Nothing
    <3>1. draft = Merge(mirror, stored)
      BY <2>2 DEF Reconciled
    <3>2. mirror \in Content \cup {Nothing} /\ stored \in Content
      BY DEF IInv, TypeOK
    <3>3. CASE Writing
      BY <1>2, <2>2, <3>1, <3>2, <3>3, MergeContent DEF Surviving, Has, Grows, Older
    <3>4. CASE ~Writing
      <4>1. mirror[f] # 0 => draft[f] # 0
        BY <1>2, <2>2, <3>1, <3>2, <3>4, MergeContent
      <4> QED
        BY <1>2, <2>2, <3>4, <4>1 DEF Surviving, Has, Holds
    <3> QED
      BY <3>3, <3>4
  <2>3. CASE cache = Nothing /\ mirror = Nothing
    <3>1. draft = Empty /\ committed = Empty
      BY <2>3, MergeContent DEF Surviving, Untouched, Reconciled, IInv, TypeOK
    <3> QED
      BY <1>2, <3>1, EmptyContent DEF Holds
  <2> QED
    BY <2>1, <2>2, <2>3
<1> HIDE DEF draft
<1>3. /\ view' = "shell" /\ live' = draft /\ cache' = draft /\ shot' = draft /\ mirror' = draft
      /\ seed' = draft /\ kind' = kind /\ committed' = committed /\ edits' = edits
      /\ fate' = [f \in Fields |-> IF fate[f] = "hidden" THEN "kept" ELSE fate[f]]
  BY <1>1 DEF Load, Mount, attempt, bounds, draft
<1>4. ASSUME NEW f \in Fields
      PROVE  /\ fate'[f] # "lost" => Has(mirror, f)' /\ Has(cache, f)'
             /\ view' = "shell" /\ fate'[f] = "kept" => Holds(Screen, f)'
             /\ Writing' => Grows(f)'
  <2>1. Writing' = Writing /\ (fate'[f] # "lost" => fate[f] # "lost")
    BY <1>3, <1>4 DEF Writing
  <2>2. Holds(draft, f) => Has(mirror, f)' /\ Has(cache, f)' /\ Holds(Screen, f)'
    BY <1>3 DEF Has, Holds, Screen, Writing
  <2>3. ASSUME Writing PROVE Grows(f)'
    <3>1. draft[f] <= committed[f] /\ committed[f] <= edits
      BY <1>2, <1>4, <2>3 DEF Surviving, Grows
    <3>2. draft[f] \in Nat /\ committed[f] \in Nat /\ edits \in Nat
      BY <1>1, <1>4, CopiesNat DEF Content, IInv
    <3> QED
      BY <1>3, <3>1, <3>2 DEF Grows, Older
  <2> QED
    BY <1>2, <1>4, <2>1, <2>2, <2>3
<1>5. mirror' # Nothing
  BY <1>1, <1>3
<1> QED
  BY <1>4, <1>5 DEF Surviving

LEMMA RemountSurvives == ASSUME IInv, Surviving, Remount PROVE Surviving'
<1> SUFFICES ASSUME ~cleared PROVE Surviving'
  BY DEF Surviving, Remount
<1>1. /\ view' = "shell" /\ seed # Nothing /\ seed' = seed /\ live' = seed /\ cache' = cache
      /\ shot' = (IF cache = Nothing THEN Empty ELSE cache)
      /\ mirror' = (IF cache = Nothing THEN mirror ELSE cache)
      /\ kind' = kind /\ committed' = committed /\ edits' = edits
      /\ fate' = [f \in Fields |-> IF fate[f] = "kept" /\ Hidden(f) THEN "hidden" ELSE fate[f]]
  BY DEF Remount, Mount, attempt, bounds
<1>2. mirror # Nothing
  BY <1>1 DEF Surviving, Untouched
<1>3. ASSUME NEW f \in Fields
      PROVE  /\ fate'[f] # "lost" => Has(mirror, f)' /\ Has(cache, f)'
             /\ view' = "shell" /\ fate'[f] = "kept" => Holds(Screen, f)'
             /\ Writing' => Grows(f)'
  <2>1. /\ Writing' = Writing /\ (fate'[f] # "lost" => fate[f] # "lost")
        /\ fate'[f] = "kept" => fate[f] = "kept" /\ ~Hidden(f)
    BY <1>1, <1>3 DEF Writing
  <2>2. Has(mirror, f) /\ Has(cache, f) => Has(mirror, f)' /\ Has(cache, f)'
    BY <1>1 DEF Has, Holds, Writing
  <2>3. ASSUME Writing, Grows(f) PROVE Grows(f)'
    BY <1>1, <1>3, <2>3, CopiesNat DEF Grows, Older, IInv
  <2>4. ASSUME ~Hidden(f), Has(cache, f) PROVE Holds(Screen, f)'
    <3>1. CASE Writing
      BY <1>1, <1>3, <2>4, <3>1, CopiesNat DEF Hidden, Holds, Screen, Writing, IInv
    <3>2. CASE ~Writing
      BY <1>1, <2>4, <3>2 DEF Hidden, Has, Holds, Screen, Writing
    <3> QED
      BY <3>1, <3>2
  <2> QED
    BY <1>3, <2>1, <2>2, <2>3, <2>4 DEF Surviving
<1>4. mirror' # Nothing
  BY <1>1, <1>2
<1> QED
  BY <1>3, <1>4 DEF Surviving

LEMMA TypeSurvives == ASSUME IInv, Surviving, NEW g \in Fields, Type(g) PROVE Surviving'
<1> SUFFICES ASSUME ~cleared PROVE Surviving'
  BY DEF Surviving, Type
<1>1. /\ view = "shell" /\ live' = [live EXCEPT ![g] = edits + 1] /\ edits' = edits + 1 /\ Writing
      /\ UNCHANGED <<kind, stored, mirror, cache, seed, view, strays, committed, fate>>
  BY DEF Type, attempt, row, work
<1>2. mirror' = Nothing => Untouched'
  BY <1>1 DEF Surviving, Untouched
<1>3. ASSUME NEW f \in Fields
      PROVE  /\ fate'[f] # "lost" => Has(mirror, f)' /\ Has(cache, f)'
             /\ view' = "shell" /\ fate'[f] = "kept" => Holds(Screen, f)'
             /\ Writing' => Grows(f)'
  <2>1. Has(mirror, f)' = Has(mirror, f) /\ Has(cache, f)' = Has(cache, f)
    BY <1>1 DEF Has, Holds, Writing
  <2>2. Grows(f)
    BY <1>1, <1>3 DEF Surviving
  <2>3. live'[f] = IF f = g THEN edits + 1 ELSE live[f]
    BY <1>1, <1>3 DEF IInv, TypeOK, Content
  <2>4. Grows(f)'
    BY <1>1, <1>3, <2>2, <2>3, CopiesNat DEF Grows, Older, IInv
  <2>5. Holds(Screen, f) => Holds(Screen, f)'
    BY <1>1, <1>3, <2>2, <2>3, CopiesNat DEF Holds, Screen, Writing, Grows, IInv
  <2> QED
    BY <1>1, <1>3, <2>1, <2>4, <2>5 DEF Surviving
<1> QED
  BY <1>2, <1>3 DEF Surviving

LEMMA CommitSurvives == ASSUME IInv, Surviving, Commit PROVE Surviving'
<1> SUFFICES ASSUME ~cleared PROVE Surviving'
  BY DEF Surviving, Commit
<1>1. view = "shell" /\ Writing
  BY DEF Commit, IInv, TypeOK, Shells
<1>2. CASE EditorReadOnly
  BY <1>2, CopiesKept DEF Commit, attempt, row, bounds, work
<1>3. CASE ~EditorReadOnly
  <2>1. /\ cache' = live /\ mirror' = live /\ live' = live /\ kind' = kind /\ seed' = seed
        /\ edits' = edits
        /\ committed' = [f \in Fields |-> IF Newer(f) THEN live[f] ELSE committed[f]]
        /\ fate' = [f \in Fields |-> IF Newer(f) THEN "kept"
                                    ELSE IF fate[f] = "hidden" THEN "lost" ELSE fate[f]]
    BY <1>3 DEF Commit, Store, attempt, bounds
  <2>2. live # Nothing
    BY NotContent DEF IInv, TypeOK
  <2>3. ASSUME NEW f \in Fields
        PROVE  /\ fate'[f] # "lost" => Has(mirror, f)' /\ Has(cache, f)'
               /\ view' = "shell" /\ fate'[f] = "kept" => Holds(Screen, f)'
               /\ Writing' => Grows(f)'
    <3>1. Grows(f) /\ (fate[f] = "kept" => live[f] >= committed[f])
      BY <1>1, <2>3 DEF Surviving, Holds, Screen
    <3>2. /\ fate'[f] # "lost" => live[f] >= committed'[f]
          /\ live[f] <= committed'[f] /\ committed[f] <= committed'[f] /\ committed'[f] <= edits
          /\ committed'[f] \in Nat
      BY <2>1, <2>3, <3>1, CopiesNat DEF Newer, Grows, IInv
    <3>3. fate'[f] # "lost" => Has(mirror, f)' /\ Has(cache, f)' /\ Holds(Screen, f)'
      BY <1>1, <2>1, <3>2 DEF Has, Holds, Screen, Writing
    <3>4. Grows(f)'
      BY <2>1, <2>3, <3>1, <3>2, CopiesNat DEF Grows, Older, IInv
    <3> QED
      BY <3>3, <3>4
  <2> QED
    BY <2>1, <2>2, <2>3 DEF Surviving
<1> QED
  BY <1>2, <1>3

LEMMA AnswerSurvives == ASSUME IInv, Surviving, NEW g \in Fields, Answer(g) PROVE Surviving'
<1> DEFINE c == [Draft EXCEPT ![g] = edits + 1]
<1> SUFFICES ASSUME ~cleared PROVE Surviving'
  BY DEF Surviving, Answer
<1>1. /\ ~Writing /\ kind' = kind /\ cache' = c /\ shot' = c /\ mirror' = c
      /\ committed' = [committed EXCEPT ![g] = edits + 1]
      /\ fate' = [f \in Fields |-> IF f = g THEN "kept"
                                  ELSE IF cache = Nothing /\ committed[f] # 0 THEN "lost"
                                  ELSE fate[f]]
  BY DEF Answer, Store, attempt
<1>2. Draft \in Content /\ edits + 1 # 0 /\ edits + 1 \in Nat
  BY ShownContent DEF IInv, TypeOK
<1>3. c \in Content /\ c[g] # 0 /\ \A f \in Fields \ {g} : c[f] = Draft[f]
  BY <1>2 DEF Content
<1>4. c # Nothing
  BY <1>3, NotContent
<1> HIDE DEF c
<1>5. ASSUME NEW f \in Fields, fate'[f] # "lost" PROVE committed'[f] # 0 => c[f] # 0
  <2>1. CASE f = g
    BY <1>3, <2>1
  <2>2. CASE f # g
    <3>1. committed'[f] = committed[f] /\ c[f] = Draft[f]
      BY <1>1, <1>3, <1>5, <2>2 DEF IInv, TypeOK, Content
    <3>2. fate[f] # "lost" /\ ~(cache = Nothing /\ committed[f] # 0)
      BY <1>1, <1>5, <2>2
    <3>3. cache # Nothing => (committed[f] # 0 => cache[f] # 0)
      BY <1>1, <1>5, <3>2 DEF Surviving, Has, Holds
    <3> QED
      BY <3>1, <3>2, <3>3 DEF Draft
  <2> QED
    BY <2>1, <2>2
<1>6. \A f \in Fields : fate'[f] # "lost" =>
          Has(mirror, f)' /\ Has(cache, f)' /\ Holds(Screen, f)'
  BY <1>1, <1>5 DEF Has, Holds, Screen, Writing
<1>7. ~Writing'
  BY <1>1 DEF Writing
<1> QED
  BY <1>1, <1>4, <1>6, <1>7 DEF Surviving

\* A shell only is where something has been done.
LEMMA UntouchedNoShell ==
    ASSUME IInv, Surviving, mirror = Nothing, ~cleared
    PROVE  view # "shell" /\ wire = Nothing /\ fin = "none" /\ strays = {}
<1>1. seed = Nothing /\ strays = {}
  BY DEF Surviving, Untouched
<1>2. view # "shell"
  BY <1>1 DEF IInv, TypeOK
<1> QED
  BY <1>1, <1>2, NoShellNoSave DEF IInv

LEMMA GoneSurvives ==
    ASSUME IInv, Surviving,
           BootstrapRefused \/ BootstrapFails \/ Leave \/ Reload \/ Collect
    PROVE  Surviving'
<1>1. CASE BootstrapRefused \/ BootstrapFails \/ Leave
  <2>1. /\ view' # "shell" /\ seed' \in {seed, Nothing}
        /\ UNCHANGED <<kind, stored, mirror, cache, committed, fate, edits, cleared>>
    BY <1>1 DEF BootstrapRefused, BootstrapFails, Leave, Refetched, attempt, row, work
  <2>2. IF view = "shell" THEN Unmount ELSE UNCHANGED <<live, strays>>
    BY <1>1 DEF BootstrapRefused, BootstrapFails, Leave, Refetched
  <2>3. live' \in {live, Empty}
    BY <2>2 DEF Unmount, Quiet
  <2>4. mirror = Nothing /\ ~cleared => strays' = strays
    BY <2>2, UntouchedNoShell
  <2> QED
    BY <2>1, <2>3, <2>4, CopiesKept
<1>2. CASE Reload
  <2>1. /\ view' # "shell" /\ seed' = Nothing /\ cache' = Nothing /\ live' = Empty
        /\ UNCHANGED <<kind, stored, mirror, committed, fate, edits, cleared>>
    BY <1>2 DEF Reload, Quiet, attempt, row, work
  <2>2. mirror = Nothing /\ ~cleared => strays' = strays
    BY <1>2, UntouchedNoShell DEF Reload
  <2> QED
    BY <2>1, <2>2, CopiesKept
<1>3. CASE Collect
  BY <1>3, CopiesKept DEF Collect, attempt, row, bounds, work
<1> QED
  BY <1>1, <1>2, <1>3

LEMMA SavesSurvive ==
    ASSUME IInv, Surviving,
           TimerFires \/ Issue \/ Saved \/ SaveSettles \/ Confirm \/ Expire \/ ExpireTwice
           \/ ServeSubmit \/ SubmitBreaks \/ Submitted
    PROVE  Surviving'
<1>1. CASE TimerFires \/ Issue \/ SaveSettles \/ Confirm \/ Expire
  <2>1. UNCHANGED <<kind, stored, mirror, cache, shot, seed, live, view, strays, committed,
                    fate, edits, cleared>>
    BY <1>1 DEF TimerFires, Issue, SaveSettles, Confirm, Expire, attempt, row, copies, bounds,
                work
  <2> QED
    BY <2>1, CopiesKept
<1>2. CASE ServeSubmit \/ SubmitBreaks
  <2>1. UNCHANGED <<kind, stored, mirror, cache, shot, seed, live, view, strays, committed,
                    fate, edits, cleared>>
    BY <1>2 DEF ServeSubmit, SubmitBreaks, attempt, copies, bounds, work
  <2> QED
    BY <2>1, CopiesKept
<1>3. CASE Saved
  <2>1. /\ wire # Nothing
        /\ UNCHANGED <<kind, mirror, cache, shot, seed, live, view, strays, committed, fate,
                       edits, cleared>>
    BY <1>3 DEF Saved, ServeSave, SaveBreaks, attempt, copies, bounds, work
  <2> QED
    BY <2>1, UntouchedNoShell, CopiesKept
<1>4. CASE ExpireTwice \/ Submitted
  BY <1>4 DEF ExpireTwice, Submitted, Surviving
<1> QED
  BY <1>1, <1>2, <1>3, <1>4

LEMMA StraysSurvive ==
    ASSUME IInv, Surviving, NEW q \in strays, StraySaved(q) \/ StraySubmitted(q) \/ StrayLost(q)
    PROVE  Surviving'
<1>1. mirror = Nothing => cleared
  BY DEF Surviving, Untouched
<1>2. /\ cleared => cleared'
      /\ ~cleared' => mirror' = mirror /\ cleared' = cleared
      /\ UNCHANGED <<kind, cache, shot, seed, live, view, committed, fate, edits>>
  <2>1. CASE StraySaved(q) \/ StrayLost(q)
    BY <2>1 DEF StraySaved, StrayLost, attempt, row, copies, bounds, work
  <2>2. CASE StraySubmitted(q)
    <3>1. /\ UNCHANGED <<kind, cache, shot, seed, live, view, committed, fate, edits>>
          /\ cleared' = (cleared \/ Head(q).do = "submit")
          /\ mirror' = IF Head(q).do = "submit" THEN Nothing ELSE mirror
      BY <2>2, Zenon DEF StraySubmitted, attempt, bounds, work
    <3>2. cleared \in BOOLEAN
      BY DEF IInv, TypeOK
    <3> QED
      BY <3>1, <3>2
  <2> QED
    BY <2>1, <2>2
<1>3. CASE cleared'
  BY <1>3 DEF Surviving
<1>4. CASE ~cleared'
  BY <1>1, <1>2, <1>4, CopiesKept
<1> QED
  BY <1>3, <1>4

LEMMA AroundSurvives ==
    ASSUME IInv, Surviving,
           GoOffline \/ GoOnline \/ Lock \/ DeadlineSeen \/ TimePasses \/ ForeignSubmit
           \/ ForeignHeard \/ UNCHANGED vars
    PROVE  Surviving'
<1>1. UNCHANGED <<kind, stored, mirror, cache, shot, seed, live, view, strays, committed, fate,
                  edits, cleared>>
  BY DEF GoOffline, GoOnline, Lock, DeadlineSeen, TimePasses, ForeignSubmit, ForeignHeard, vars,
         attempt, row, copies, bounds, work
<1> QED
  BY <1>1, CopiesKept

LEMMA StepSurvives == IInv /\ Surviving /\ [Next]_vars => Surviving'
<1> SUFFICES ASSUME IInv, Surviving, [Next]_vars PROVE Surviving'
  OBVIOUS
<1>1. CASE Load \/ Remount \/ BootstrapRefused \/ BootstrapFails \/ Leave \/ Reload \/ Collect
  BY <1>1, LoadSurvives, RemountSurvives, GoneSurvives
<1>2. CASE Commit \/ \E f \in Fields : Type(f) \/ Answer(f)
  BY <1>2, TypeSurvives, CommitSurvives, AnswerSurvives
<1>3. CASE TimerFires \/ Issue \/ Saved \/ SaveSettles \/ Confirm \/ Expire \/ ExpireTwice
           \/ ServeSubmit \/ SubmitBreaks \/ Submitted
  BY <1>3, SavesSurvive
<1>4. CASE \E q \in strays : StraySaved(q) \/ StraySubmitted(q) \/ StrayLost(q)
  BY <1>4, StraysSurvive
<1>5. CASE GoOffline \/ GoOnline \/ Lock \/ DeadlineSeen \/ TimePasses \/ ForeignSubmit
           \/ ForeignHeard \/ UNCHANGED vars
  BY <1>5, AroundSurvives
<1> QED
  BY <1>1, <1>2, <1>3, <1>4, <1>5 DEF Next

-----------------------------------------------------------------------------
THEOREM Inductive == Spec => [](IInv /\ Surviving)
  BY InitKeeps, InitSurvives, StepKeeps, StepSurvives, PTL DEF Spec

-----------------------------------------------------------------------------
(* What holds of every instance.                                           *)

\* The tab stays in its states: a request in flight is the head of a chain, and
\* a page without a shell has no chain, no finalizer and nothing dirty.
THEOREM TypeCorrect == Spec => []TypeOK
<1>1. IInv => TypeOK
  BY DEF IInv
<1> QED
  BY <1>1, Inductive, PTL

\* No lossy submit, whatever fails, is retried, or goes on behind a page that is
\* gone: what the student's submit seals is what the final flush read or newer,
\* but for a save that came late and a time that was over (finalizeAttempt).
THEOREM SubmitNotLossy == Spec => []NoLossySubmit
<1>1. IInv => NoLossySubmit
  BY DEF IInv, Submitting
<1> QED
  BY <1>1, Inductive, PTL

\* What was committed stays in the mirror, the draft and the page through any
\* number of reloads, crashes, visits and collected slots, but for what a shell
\* that mounted in the place of an error hides, and what was hidden or collected
\* when the next edit was made (useAttemptDraftPersistence, useAttemptDraft).
THEOREM WorkSurvives == Spec => []CommittedSurvives
<1>1. ASSUME IInv, Surviving PROVE CommittedSurvives
  <2> SUFFICES ASSUME view = "shell", ~cleared, NEW f \in Fields
               PROVE  /\ fate[f] # "lost" =>
                             Holds(mirror, f) /\ (cache # Nothing => Holds(cache, f))
                      /\ fate[f] = "kept" => Holds(Screen, f)
    BY DEF CommittedSurvives
  <2>1. mirror # Nothing
    BY UntouchedNoShell, <1>1
  <2> QED
    BY <1>1, <2>1 DEF Surviving, Has
<1> QED
  BY <1>1, Inductive, PTL

\* "Saved" is not shown for a text that has moved on while the save was on its
\* way (useAttemptAutosave's generation guard).
THEOREM SavedIsShown == Spec => AckedIsShown
<1> DEFINE Shows == indicator' = "saved" /\ indicator # "saved" /\ online /\ ~EditorReadOnly
                      => \/ wire.body = Screen' \/ commitDue'
                         \/ cache' = Nothing /\ wire.body = Empty
<1>1. ASSUME IInv, Next, indicator' = "saved", indicator # "saved", online, ~EditorReadOnly
      PROVE  \/ wire.body = Screen' \/ commitDue'
             \/ cache' = Nothing /\ wire.body = Empty
  <2>1. SaveSettles
    <3>1. ~(Commit \/ \E f \in Fields : Answer(f))
      BY <1>1, ScheduleStep DEF Commit, Answer, autosave, IInv
    <3>2. ~(Load \/ Issue \/ GoOffline)
      BY <1>1 DEF Load, Issue, GoOffline
    <3>3. ~(Remount \/ BootstrapRefused \/ BootstrapFails \/ Leave \/ Reload \/ Collect
            \/ \E f \in Fields : Type(f))
      BY <1>1 DEF Remount, BootstrapRefused, BootstrapFails, Refetched, Leave, Reload, Collect,
                  Type, autosave
    <3>4. ~(TimerFires \/ Saved \/ Confirm \/ Expire \/ ExpireTwice \/ ServeSubmit
            \/ SubmitBreaks \/ Submitted)
      BY <1>1 DEF TimerFires, Saved, ServeSave, SaveBreaks, Confirm, Expire, ExpireTwice,
                  ServeSubmit, SubmitBreaks, Submitted, autosave
    <3>5. ~(\E q \in strays : StraySaved(q) \/ StraySubmitted(q) \/ StrayLost(q))
      BY <1>1 DEF StraySaved, StraySubmitted, StrayLost, autosave
    <3>6. ~(GoOnline \/ Lock \/ DeadlineSeen \/ TimePasses \/ ForeignSubmit \/ ForeignHeard)
      BY <1>1 DEF GoOnline, Lock, DeadlineSeen, TimePasses, ForeignSubmit, ForeignHeard,
                  autosave
    <3> QED
      BY <1>1, <3>1, <3>2, <3>3, <3>4, <3>5, <3>6 DEF Next
  <2>2. wire # Nothing /\ wire.fresh /\ Len(chain) = 1
    BY <1>1, <2>1 DEF SaveSettles
  <2>3. \/ wire.body = Screen \/ commitDue
        \/ cache = Nothing /\ wire.body = Empty
    BY <1>1, <2>2 DEF IInv, Acknowledging
  <2>4. Screen' = Screen /\ commitDue' = commitDue /\ cache' = cache
    BY <2>1 DEF SaveSettles, attempt, copies, Screen, Writing
  <2> QED
    BY <2>3, <2>4
<1>2. ASSUME IInv, [Next]_vars PROVE [Shows]_vars
  BY <1>1, <1>2
<1> QED
  BY <1>2, Inductive, PTL DEF Spec, AckedIsShown
=============================================================================
