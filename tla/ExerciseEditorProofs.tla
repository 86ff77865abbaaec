------------------------ MODULE ExerciseEditorProofs ------------------------
(***************************************************************************)
(* Theorems about the exercise editor, for any number of edits, writers,   *)
(* remounts and faults.                                                    *)
(*                                                                         *)
(* A document covers a stamp when it contains what the row contained at    *)
(* that stamp.  The argument for the precondition: outside the windows     *)
(* every document about to be sent covers the stamp it will carry, because *)
(* the saves of an editor form a line in which each document contains the  *)
(* one before, up to the document on screen.                               *)
(***************************************************************************)
EXTENDS ExerciseEditor, SequenceTheorems, TLAPS

Covers(r, d, s) == s <= r.stamp /\ (s = r.stamp => r.doc.edits \subseteq d.edits)

\* d contains every document of the chain with queue q and save f.
Follows(q, f, d) ==
    /\ \A i \in 1 .. Len(q) : q[i].edits \subseteq d.edits
    /\ f # None => f.doc.edits \subseteq d.edits

\* A chain with queue q, save f and precondition p, at the row r.
Line(r, q, f, p) ==
    /\ p <= r.stamp
    /\ \A i \in 1 .. Len(q) : Covers(r, q[i], p)
    /\ \A i, j \in 1 .. Len(q) : i <= j => q[i].edits \subseteq q[j].edits
    /\ f # None => /\ f.answer = "none" => Covers(r, f.doc, f.stamp)
                   /\ f.answer = "ok" => Covers(r, f.doc, f.back)
                   /\ \A i \in 1 .. Len(q) : f.doc.edits \subseteq q[i].edits

Places ==
    /\ view = "editor" => mount <= MaxLeaves + 1 + troubles
    /\ view = "away" => mount <= MaxLeaves
    /\ view = "error" => mount <= MaxLeaves + troubles
    /\ view # "editor" => pending = None /\ last = None /\ reload = "none" /\ status # "error"
    /\ \A m \in Mounts : m > mount => queue[m] = <<>> /\ flying[m] = None

Held ==
    /\ view = "editor" /\ flying[mount] # None => last = flying[mount].doc
    /\ status = "error" => last # None

Told ==
    ~elsewhere =>
        /\ ~Conflict
        /\ view = "editor" =>
            /\ flying[mount] = None \/ flying[mount].answer # "ok" => pre[mount] = row.stamp
            /\ flying[mount] # None =>
                /\ flying[mount].answer = "none" => flying[mount].stamp = row.stamp
                /\ flying[mount].answer = "ok" => flying[mount].back = row.stamp
                /\ flying[mount].answer # "conflict"

OnScreen ==
    view = "editor" =>
        /\ Covers(row, doc, pre[mount]) /\ Follows(queue[mount], flying[mount], doc)
        /\ pending # None => /\ Covers(row, pending, pre[mount])
                             /\ Follows(queue[mount], flying[mount], pending)
                             /\ pending.edits \subseteq doc.edits
        /\ last # None => Covers(row, last, pre[mount]) /\ last.edits \subseteq doc.edits

Sound ==
    /\ Kept /\ row.doc.edits \subseteq accepted
    /\ Covers(row, cache.doc, cache.stamp)
    /\ \A b \in beacons : Covers(row, b.doc, b.stamp)
    /\ \A m \in Mounts : Line(row, queue[m], flying[m], pre[m])
    /\ OnScreen

IInv ==
    /\ TypeOK
    /\ Places /\ Held /\ Told
    /\ reloaded \/ behind \/ restamped \/ Sound

\* Fields that carry the row's own stamp are the row's.
FormOK ==
    form # None =>
        /\ form.stamp <= row.stamp
        /\ form.stamp = row.stamp => row.doc.edits \cap MetaEdits \subseteq form.meta

-----------------------------------------------------------------------------
(* Documents and chains.                                                   *)

LEMMA DocParts ==
    ASSUME NEW d \in Docs PROVE d.edits \subseteq EditIds /\ d.titled \in BOOLEAN /\ d # None
  BY EditorAssumption DEF Docs

LEMMA SentParts ==
    ASSUME NEW f \in Sent
    PROVE  f.doc \in Docs /\ f.stamp \in Nat /\ f.answer \in Answers /\ f.back \in Nat /\ f # None
  BY EditorAssumption DEF Sent

LEMMA MountsNat == /\ Mounts \subseteq Nat /\ 1 \in Mounts
                   /\ \A m \in Nat : 1 <= m /\ m <= MaxLeaves + MaxTroubles + 1 => m \in Mounts
  BY EditorAssumption DEF Mounts

\* Once the row has moved on, a stamp that was not ahead is behind.
LEMMA CoversLater ==
    ASSUME NEW r \in Rows, NEW r2 \in Rows, NEW d, NEW s \in Nat,
           Covers(r, d, s), r2.stamp = r.stamp + 1
    PROVE  Covers(r2, d, s)
  BY DEF Covers, Rows

LEMMA LineLater ==
    ASSUME NEW r \in Rows, NEW r2 \in Rows, NEW q \in Seq(Titled), NEW f \in Sent \cup {None},
           NEW p \in Nat, Line(r, q, f, p), r2.stamp = r.stamp + 1
    PROVE  Line(r2, q, f, p)
<1>1. p <= r2.stamp
  BY DEF Line, Rows
<1>2. \A i \in 1 .. Len(q) : Covers(r2, q[i], p)
  BY CoversLater DEF Line
<1>3. ASSUME f # None
      PROVE  /\ f.answer = "none" => Covers(r2, f.doc, f.stamp)
             /\ f.answer = "ok" => Covers(r2, f.doc, f.back)
  BY <1>3, CoversLater, SentParts DEF Line
<1> QED
  BY <1>1, <1>2, <1>3 DEF Line

LEMMA LineSame ==
    ASSUME NEW r, NEW r2, NEW q, NEW f, NEW p, Line(r, q, f, p),
           r2.stamp = r.stamp, r2.doc = r.doc
    PROVE  Line(r2, q, f, p)
  BY DEF Line, Covers

LEMMA LineAppend ==
    ASSUME NEW r, NEW q \in Seq(Titled), NEW f, NEW p, NEW d \in Titled,
           Line(r, q, f, p), Follows(q, f, d), Covers(r, d, p)
    PROVE  /\ Append(q, d) \in Seq(Titled)
           /\ Line(r, Append(q, d), f, p)
           /\ \A e : Follows(q, f, e) /\ d.edits \subseteq e.edits => Follows(Append(q, d), f, e)
<1>1. /\ Append(q, d) \in Seq(Titled) /\ Len(Append(q, d)) = Len(q) + 1
      /\ \A i \in 1 .. Len(q) + 1 : Append(q, d)[i] = IF i <= Len(q) THEN q[i] ELSE d
  BY AppendProperties
<1>2. Len(q) \in Nat
  OBVIOUS
<1>3. \A i \in 1 .. Len(q) + 1 : i \in 1 .. Len(q) \/ i = Len(q) + 1
  BY <1>2
<1>4. \A i \in 1 .. Len(Append(q, d)) : Append(q, d)[i] = d \/ (i \in 1 .. Len(q) /\ Append(q, d)[i] = q[i])
  BY <1>1, <1>2, <1>3
<1>5. \A i, j \in 1 .. Len(Append(q, d)) :
          i <= j => Append(q, d)[i].edits \subseteq Append(q, d)[j].edits
  <2> TAKE i, j \in 1 .. Len(Append(q, d))
  <2> HAVE i <= j
  <2>1. CASE j \in 1 .. Len(q)
    <3>1. i \in 1 .. Len(q)
      BY <2>1, <1>2, <1>1
    <3> QED
      BY <2>1, <3>1, <1>1, <1>2 DEF Line
  <2>2. CASE j \notin 1 .. Len(q)
    <3>1. Append(q, d)[j] = d
      BY <2>2, <1>4
    <3> QED
      BY <3>1, <1>4 DEF Follows
  <2> QED
    BY <2>1, <2>2
<1> QED
  BY <1>1, <1>4, <1>5 DEF Line, Follows

LEMMA LineIssue ==
    ASSUME NEW r, NEW q \in Seq(Titled), NEW p \in Nat, q # <<>>, Line(r, q, None, p),
           NEW f, f = [doc |-> Head(q), stamp |-> p, answer |-> "none", back |-> 0]
    PROVE  /\ Line(r, Tail(q), f, p)
           /\ Covers(r, Head(q), p)
           /\ \A e : Follows(q, None, e) => Follows(Tail(q), f, e) /\ Head(q).edits \subseteq e.edits
<1>1. /\ Head(q) = q[1] /\ Head(q) \in Titled
      /\ Tail(q) \in Seq(Titled) /\ Len(Tail(q)) = Len(q) - 1
      /\ \A i \in 1 .. Len(Tail(q)) : Tail(q)[i] = q[i + 1]
  BY HeadTailProperties
<1>2. Len(q) \in Nat /\ 1 \in 1 .. Len(q)
  OBVIOUS
<1>3. \A i \in 1 .. Len(Tail(q)) : i + 1 \in 1 .. Len(q) /\ 1 <= i + 1
  BY <1>1, <1>2
<1>4. \A i \in 1 .. Len(Tail(q)) : Covers(r, Tail(q)[i], p)
  BY <1>1, <1>3 DEF Line
<1>5. \A i, j \in 1 .. Len(Tail(q)) : i <= j => Tail(q)[i].edits \subseteq Tail(q)[j].edits
  BY <1>1, <1>2, <1>3 DEF Line
<1>6. \A i \in 1 .. Len(Tail(q)) : Head(q).edits \subseteq Tail(q)[i].edits
  BY <1>1, <1>2, <1>3 DEF Line
<1>7. Covers(r, Head(q), p)
  BY <1>1, <1>2 DEF Line
<1>8. ASSUME NEW e, Follows(q, None, e)
      PROVE  Follows(Tail(q), f, e) /\ Head(q).edits \subseteq e.edits
  BY <1>1, <1>2, <1>3, <1>8 DEF Follows
<1> QED
  BY <1>1, <1>4, <1>5, <1>6, <1>7, <1>8 DEF Line

LEMMA LineServed ==
    ASSUME NEW r \in Rows, NEW r2 \in Rows, NEW q \in Seq(Titled), NEW f \in Sent, NEW p \in Nat,
           Line(r, q, f, p), NEW a \in Answers,
           a # "none",
           a = "ok" => r2.stamp = r.stamp + 1 /\ r2.doc = f.doc,
           a # "ok" => r2 = r,
           NEW g, g = [f EXCEPT !.answer = a, !.back = r2.stamp]
    PROVE  Line(r2, q, g, p)
<1>1. g.doc = f.doc /\ g.answer = a /\ g.back = r2.stamp
  BY DEF Sent
<1>2. CASE a = "ok"
  <2>1. Line(r2, q, f, p)
    BY <1>2, LineLater
  <2>2. Covers(r2, g.doc, g.back)
    BY <1>1, <1>2 DEF Covers, Rows
  <2> QED
    BY <2>1, <2>2, <1>1, <1>2, SentParts DEF Line
<1>3. CASE a # "ok"
  BY <1>1, <1>3, SentParts DEF Line
<1> QED
  BY <1>2, <1>3

LEMMA LineSaved ==
    ASSUME NEW r, NEW q, NEW f \in Sent, NEW p, Line(r, q, f, p), f.answer = "ok"
    PROVE  /\ Line(r, q, None, f.back)
           /\ Covers(r, f.doc, f.back)
           /\ \A e : Follows(q, f, e) => Follows(q, None, e) /\ Covers(r, e, f.back)
<1>1. f # None /\ Covers(r, f.doc, f.back)
  BY SentParts DEF Line
<1>2. \A e : f.doc.edits \subseteq e.edits => Covers(r, e, f.back)
  BY <1>1 DEF Covers
<1> QED
  BY <1>1, <1>2 DEF Line, Follows, Covers

LEMMA LineDropped ==
    ASSUME NEW r, NEW q, NEW f, NEW p, Line(r, q, f, p)
    PROVE  Line(r, q, None, p) /\ \A e : Follows(q, f, e) => Follows(q, None, e)
  BY DEF Line, Follows

LEMMA LineBroken ==
    ASSUME NEW r, NEW q, NEW f \in Sent, NEW p, Line(r, q, f, p),
           NEW g, g = [f EXCEPT !.answer = "failed"]
    PROVE  Line(r, q, g, p) /\ \A e : Follows(q, f, e) => Follows(q, g, e)
<1>1. g.doc = f.doc /\ g.answer = "failed" /\ f # None
  BY SentParts DEF Sent
<1> QED
  BY <1>1 DEF Line, Follows

-----------------------------------------------------------------------------
(* The initial states.                                                     *)

LEMMA InitKeeps == Init => IInv
<1> SUFFICES ASSUME Init
             PROVE  IInv
  OBVIOUS
<1>1. row.doc \in Docs /\ row.stamp = 0 /\ row.doc.edits = {} /\ row.doc.titled
  BY DEF Init, Docs
<1>2. row \in Rows
  BY <1>1 DEF Init, Rows
<1>3. <<>> \in Seq(Titled)
  BY EmptySeq
<1>4. /\ edits \in 0 .. MaxEdits /\ foreigns \in 0 .. MaxForeign
      /\ presses \in 0 .. MaxPresses /\ troubles \in 0 .. MaxTroubles
  BY EditorAssumption DEF Init
<1>5. /\ queue \in [Mounts -> Seq(Titled)] /\ flying \in [Mounts -> Sent \cup {None}]
      /\ pre \in [Mounts -> Nat] /\ beacons \subseteq Requests /\ accepted \subseteq EditIds
      /\ mount \in Mounts
  BY <1>3, MountsNat DEF Init
<1>6. /\ invalid \in BOOLEAN /\ timer \in BOOLEAN /\ reloaded \in BOOLEAN /\ behind \in BOOLEAN
      /\ elsewhere \in BOOLEAN /\ ~timer
  BY Zenon DEF Init
<1>7. TypeOK
  BY <1>1, <1>2, <1>4, <1>5, <1>6 DEF Init, TypeOK
<1>8. Places
  BY <1>5, EditorAssumption DEF Init, Places
<1>9. Held /\ Told
  BY <1>1, <1>5 DEF Init, Held, Told, Conflict
<1>10. Sound
  <2>1. \A m \in Mounts : Line(row, queue[m], flying[m], pre[m])
    BY <1>1, EmptySeq DEF Init, Line
  <2>2. Covers(row, cache.doc, cache.stamp) /\ Covers(row, doc, pre[mount])
    BY <1>1, <1>5 DEF Init, Covers
  <2>3. Follows(queue[mount], flying[mount], doc)
    BY <1>5, EmptySeq DEF Init, Follows
  <2> QED
    BY <2>1, <2>2, <2>3, <1>1 DEF Init, Sound, Kept, OnScreen
<1> QED
  BY <1>7, <1>8, <1>9, <1>10 DEF IInv

-----------------------------------------------------------------------------
(* The editor.                                                             *)

LEMMA NewEditId ==
    ASSUME TypeOK, NEW d \in Docs, NEW t \in BOOLEAN,
           edits < MaxEdits \/ foreigns < MaxForeign
    PROVE  /\ With(d, t) \in Docs /\ d.edits \subseteq With(d, t).edits
           /\ With(d, t).titled = t
<1>1. NewEdit \in EditIds
  BY EditorAssumption DEF TypeOK, NewEdit, EditIds
<1>2. With(d, t).edits = d.edits \cup {NewEdit} /\ With(d, t).titled = t
  BY DEF With
<1>3. With(d, t) \in Docs
  BY <1>1, DocParts DEF With, Docs
<1> QED
  BY <1>2, <1>3

LEMMA CoversMore ==
    ASSUME NEW r, NEW d, NEW e, NEW s, Covers(r, d, s), d.edits \subseteq e.edits
    PROVE  Covers(r, e, s)
  BY DEF Covers

LEMMA FollowsMore ==
    ASSUME NEW q, NEW f, NEW d, NEW e, Follows(q, f, d), d.edits \subseteq e.edits
    PROVE  Follows(q, f, e)
  BY DEF Follows

LEMMA EditKeeps == ASSUME IInv, Edit PROVE IInv'
<1> PICK t \in BOOLEAN : doc' = With(doc, t)
  BY DEF Edit
<1>1. TypeOK /\ view = "editor" /\ doc \in Docs
  BY DEF IInv, TypeOK, Edit
<1>2. doc' \in Docs /\ doc.edits \subseteq doc'.edits /\ doc'.titled \in BOOLEAN
  BY <1>1, NewEditId DEF Edit
<1>3. \/ UNCHANGED <<pending, timer, status>>
      \/ pending' = doc' /\ doc'.titled /\ timer' = TRUE /\ UNCHANGED status
      \/ pending' = None /\ timer' = FALSE /\ status' = "unsaved"
  BY DEF Edit, Schedule
<1>4. /\ UNCHANGED <<row, cache, invalid, view, mount, last, reload, queue, flying, pre,
                     beacons, form, foreigns, presses, troubles, accepted, reloaded, behind,
                     restamped, elsewhere>>
      /\ edits < MaxEdits /\ edits' = edits + 1
  BY DEF Edit, chain, history
<1>5. TypeOK'
  <2>1. edits' \in 0 .. MaxEdits
    BY <1>1, <1>4, EditorAssumption DEF TypeOK
  <2>2. pending' \in Titled \cup {None} /\ timer' \in BOOLEAN /\ (timer' => pending' # None)
    <3>1. CASE UNCHANGED <<pending, timer, status>>
      BY <1>1, <3>1 DEF TypeOK
    <3>2. CASE pending' = doc' /\ doc'.titled /\ timer' = TRUE
      <4>1. doc' # None
        BY <1>2, DocParts
      <4> QED
        BY <1>2, <3>2, <4>1, Zenon DEF Titled
    <3>3. CASE pending' = None /\ timer' = FALSE
      BY <3>3, Zenon
    <3> QED
      BY <1>3, <3>1, <3>2, <3>3
  <2>3. status' \in {"idle", "saving", "saved", "unsaved", "error"}
    BY <1>1, <1>3 DEF TypeOK
  <2> QED
    BY <1>1, <1>2, <1>4, <2>1, <2>2, <2>3 DEF TypeOK
<1>6. Places'
  BY <1>1, <1>4 DEF IInv, Places
<1>7. Held'
  BY <1>1, <1>3, <1>4 DEF IInv, Held
<1>8. Told'
  BY <1>4 DEF IInv, Told, Conflict
<1>9. ASSUME Sound PROVE Sound'
  <2>1. Covers(row, doc', pre[mount]) /\ Follows(queue[mount], flying[mount], doc')
    BY <1>1, <1>2, <1>9, CoversMore, FollowsMore DEF Sound, OnScreen
  <2>2. OnScreen'
    BY <1>1, <1>2, <1>3, <1>4, <1>9, <2>1 DEF Sound, OnScreen
  <2> QED
    BY <1>4, <1>9, <2>2 DEF Sound, Kept
<1> QED
  BY <1>4, <1>5, <1>6, <1>7, <1>8, <1>9 DEF IInv

\* A titled document that follows its chain is queued behind it.
LEMMA QueueGrows ==
    ASSUME IInv, view = "editor", NEW d \in Titled,
           queue' = [queue EXCEPT ![mount] = Append(@, d)],
           UNCHANGED <<row, cache, view, mount, doc, last, flying, pre, beacons, accepted>>,
           pending' = None,
           Sound => \/ /\ Covers(row, d, pre[mount]) /\ Follows(queue[mount], flying[mount], d)
                       /\ d.edits \subseteq doc.edits
    PROVE  /\ queue' \in [Mounts -> Seq(Titled)]
           /\ \A m \in Mounts : m > mount => queue'[m] = queue[m]
           /\ Sound => Sound'
<1>1. mount \in Mounts /\ queue \in [Mounts -> Seq(Titled)]
  BY DEF IInv, TypeOK
<1>2. queue[mount] \in Seq(Titled) /\ Append(queue[mount], d) \in Seq(Titled)
  BY <1>1, AppendProperties
<1>3. queue'[mount] = Append(queue[mount], d) /\ \A m \in Mounts : m # mount => queue'[m] = queue[m]
  BY <1>1
<1>4. queue' \in [Mounts -> Seq(Titled)]
  BY <1>1, <1>2
<1>5. ASSUME Sound PROVE Sound'
  <2>1. /\ Line(row, queue[mount], flying[mount], pre[mount])
        /\ Covers(row, d, pre[mount]) /\ Follows(queue[mount], flying[mount], d)
        /\ d.edits \subseteq doc.edits /\ Follows(queue[mount], flying[mount], doc)
    BY <1>1, <1>5 DEF Sound, OnScreen
  <2>2. /\ Line(row, queue'[mount], flying[mount], pre[mount])
        /\ Follows(queue'[mount], flying[mount], doc)
    <3>1. /\ Line(row, Append(queue[mount], d), flying[mount], pre[mount])
          /\ \A e : Follows(queue[mount], flying[mount], e) /\ d.edits \subseteq e.edits
                   => Follows(Append(queue[mount], d), flying[mount], e)
      BY <1>2, <2>1, LineAppend, Zenon
    <3> QED
      BY <1>3, <2>1, <3>1
  <2>3. \A m \in Mounts : Line(row, queue'[m], flying[m], pre[m])
    BY <1>3, <1>5, <2>2 DEF Sound
  <2>4. OnScreen'
    BY <1>5, <2>2 DEF Sound, OnScreen
  <2> QED
    BY <1>5, <2>3, <2>4 DEF Sound, Kept
<1> QED
  BY <1>3, <1>4, <1>5, MountsNat DEF IInv, TypeOK

LEMMA TimerFiresKeeps == ASSUME IInv, TimerFires PROVE IInv'
<1>1. TypeOK /\ pending \in Titled /\ pending # None /\ view = "editor"
  BY DEF IInv, TypeOK, TimerFires, Places
<1>2. /\ queue' = [queue EXCEPT ![mount] = Append(@, pending)]
      /\ pending' = None /\ timer' = FALSE
      /\ UNCHANGED <<row, cache, invalid, view, mount, doc, last, status, reload, flying, pre,
                     beacons, form, edits, foreigns, presses, troubles, accepted, reloaded,
                     behind, restamped, elsewhere>>
  BY DEF TimerFires, Enqueue, bounds, history
<1>3. /\ queue' \in [Mounts -> Seq(Titled)] /\ \A m \in Mounts : m > mount => queue'[m] = queue[m]
      /\ Sound => Sound'
  BY <1>1, <1>2, QueueGrows DEF Sound, OnScreen
<1>4. TypeOK'
  BY <1>1, <1>2, <1>3 DEF TypeOK
<1>5. Places'
  BY <1>1, <1>2, <1>3 DEF IInv, Places
<1>6. Held' /\ Told'
  BY <1>1, <1>2 DEF IInv, Held, Told, Conflict
<1> QED
  BY <1>2, <1>3, <1>4, <1>5, <1>6 DEF IInv

LEMMA PressKeeps == ASSUME IInv, Press PROVE IInv'
<1>1. TypeOK /\ view = "editor" /\ pending \in Titled \cup {None} /\ last \in Titled \cup {None}
      /\ mount \in Mounts
  BY DEF IInv, TypeOK, Press
<1>2. /\ UNCHANGED <<row, cache, invalid, view, mount, doc, last, reload, flying, pre, beacons,
                     form, edits, foreigns, troubles, accepted, reloaded, restamped, elsewhere>>
      /\ presses < MaxPresses /\ presses' = presses + 1 /\ timer' = FALSE
  BY DEF Press
<1>3. presses' \in 0 .. MaxPresses
  BY <1>1, <1>2, EditorAssumption DEF TypeOK
<1>4. CASE Conflict \/ Replayed = None
  <2>1. UNCHANGED <<pending, status, queue, behind>>
    BY <1>4 DEF Press
  <2>2. TypeOK'
    <3>1. /\ (timer' => pending' # None) /\ timer' \in BOOLEAN /\ behind' \in BOOLEAN
          /\ pending' \in Titled \cup {None}
      BY <1>1, <1>2, <2>1 DEF TypeOK
    <3> QED
      BY <1>1, <1>2, <1>3, <2>1, <3>1 DEF TypeOK
  <2>3. Places' /\ Held' /\ Told'
    BY <1>1, <1>2, <2>1 DEF IInv, Places, Held, Told, Conflict
  <2>4. Sound => Sound'
    BY <1>2, <2>1 DEF Sound, Kept, OnScreen
  <2> QED
    BY <1>2, <2>1, <2>2, <2>3, <2>4 DEF IInv
<1>5. CASE ~(Conflict \/ Replayed = None)
  <2>1. /\ Replayed \in Titled /\ Replayed.titled /\ Replayed \in Docs
    BY <1>1, <1>5 DEF Replayed, Titled
  <2>2. /\ queue' = [queue EXCEPT ![mount] = Append(@, Replayed)]
        /\ pending' = None /\ UNCHANGED status
        /\ behind' = (behind \/ (pending = None /\ queue[mount] # <<>>))
    BY <1>5, <2>1 DEF Press, Enqueue
  <2>3. behind' \in BOOLEAN
    BY <2>2, Zenon
  <2>4. ASSUME ~behind', Sound
        PROVE  /\ Covers(row, Replayed, pre[mount])
               /\ Follows(queue[mount], flying[mount], Replayed)
               /\ Replayed.edits \subseteq doc.edits
    <3>1. CASE pending # None
      BY <1>1, <2>4, <3>1 DEF Replayed, Sound, OnScreen
    <3>2. CASE pending = None
      <4>1. queue[mount] = <<>> /\ Replayed = last /\ last # None
        BY <2>2, <2>4, <3>2, <1>5 DEF Replayed
      <4>2. Follows(queue[mount], flying[mount], last)
        BY <1>1, <4>1, EmptySeq DEF IInv, Held, Follows
      <4> QED
        BY <1>1, <2>4, <4>1, <4>2 DEF Sound, OnScreen
    <3> QED
      BY <3>1, <3>2
  <2>5. queue \in [Mounts -> Seq(Titled)] /\ queue[mount] \in Seq(Titled)
    BY <1>1 DEF TypeOK
  <2>6. queue' \in [Mounts -> Seq(Titled)] /\ \A m \in Mounts : m > mount => queue'[m] = queue[m]
    <3>1. Append(queue[mount], Replayed) \in Seq(Titled)
      BY <2>1, <2>5, AppendProperties
    <3>2. \A m \in Mounts : m > mount => m # mount
      BY <1>1, MountsNat
    <3> QED
      BY <2>2, <2>5, <3>1, <3>2
  <2>7. ~behind' /\ Sound => Sound'
    <3> SUFFICES ASSUME ~behind', Sound PROVE Sound'
      OBVIOUS
    <3> QED
      BY <1>1, <1>2, <2>1, <2>2, <2>4, QueueGrows
  <2>8. TypeOK'
    BY <1>1, <1>2, <1>3, <2>2, <2>3, <2>6 DEF TypeOK
  <2>9. Places'
    BY <1>1, <1>2, <2>2, <2>6 DEF IInv, Places
  <2>10. Held' /\ Told'
    BY <1>1, <1>2, <2>2 DEF IInv, Held, Told, Conflict
  <2>11. reloaded \/ behind' \/ restamped \/ Sound'
    <3>1. ~behind' => ~behind
      BY <2>2
    <3> QED
      BY <2>7, <3>1 DEF IInv
  <2> QED
    BY <1>2, <2>8, <2>9, <2>10, <2>11 DEF IInv
<1> QED
  BY <1>4, <1>5

-----------------------------------------------------------------------------
(* The saves of a chain.                                                   *)

LEMMA IssueKeeps == ASSUME IInv, NEW m \in Mounts, Issue(m) PROVE IInv'
<1> DEFINE f == [doc |-> Head(queue[m]), stamp |-> pre[m], answer |-> "none", back |-> 0]
<1>1. /\ TypeOK /\ queue[m] \in Seq(Titled) /\ queue[m] # <<>> /\ flying[m] = None
      /\ pre[m] \in Nat /\ mount \in Mounts
  BY DEF IInv, TypeOK, Issue, Ready
<1>2. Head(queue[m]) \in Titled /\ Tail(queue[m]) \in Seq(Titled)
  BY <1>1, HeadTailProperties
<1>3. /\ queue' = [queue EXCEPT ![m] = Tail(@)] /\ flying' = [flying EXCEPT ![m] = f]
      /\ last' = (IF Mounted(m) THEN Head(queue[m]) ELSE last)
      /\ status' = "saving"
      /\ UNCHANGED <<row, cache, invalid, view, mount, doc, pending, timer, reload, pre,
                     beacons, form, edits, foreigns, presses, troubles, accepted, reloaded,
                     behind, restamped, elsewhere>>
  BY DEF Issue, Attempted, bounds, history
<1>4. f \in Sent /\ f # None /\ f.doc = Head(queue[m]) /\ f.answer = "none" /\ f.stamp = pre[m]
  <2>1. f \in Sent
    BY <1>1, <1>2 DEF Sent, Answers, Titled
  <2> QED
    BY <2>1, SentParts
<1>5. /\ queue'[m] = Tail(queue[m]) /\ flying'[m] = f
      /\ \A k \in Mounts : k # m => queue'[k] = queue[k] /\ flying'[k] = flying[k]
  BY <1>1, <1>3 DEF TypeOK
<1>6. TypeOK'
  <2>1. queue' \in [Mounts -> Seq(Titled)] /\ flying' \in [Mounts -> Sent \cup {None}]
    <3> HIDE DEF f
    <3> QED
      BY <1>1, <1>2, <1>3, <1>4 DEF TypeOK
  <2>2. last' \in Titled \cup {None}
    BY <1>1, <1>2, <1>3 DEF TypeOK
  <2> QED
    BY <1>1, <1>3, <2>1, <2>2 DEF TypeOK
<1> HIDE DEF f
<1>7. m <= mount
  BY <1>1, MountsNat DEF IInv, Places
<1>8. Places'
  BY <1>1, <1>3, <1>5, <1>7, MountsNat DEF IInv, Places, Mounted
<1>9. Held'
  BY <1>1, <1>3, <1>4, <1>5 DEF IInv, Held, Mounted
<1>10. Told'
  BY <1>1, <1>3, <1>4, <1>5 DEF IInv, Told, Conflict
<1>11. ASSUME Sound PROVE Sound'
  <2>1. /\ Line(row, Tail(queue[m]), f, pre[m]) /\ Covers(row, Head(queue[m]), pre[m])
        /\ \A e : Follows(queue[m], None, e)
                  => Follows(Tail(queue[m]), f, e) /\ Head(queue[m]).edits \subseteq e.edits
    <3>1. Line(row, queue[m], None, pre[m])
      BY <1>1, <1>11 DEF Sound
    <3> QED
      BY <1>1, <3>1, LineIssue DEF f
  <2>2. \A k \in Mounts : Line(row, queue'[k], flying'[k], pre[k])
    BY <1>5, <1>11, <2>1 DEF Sound
  <2>3. OnScreen'
    <3>1. CASE m = mount
      BY <1>1, <1>3, <1>5, <1>11, <2>1, <3>1 DEF Sound, OnScreen, Mounted
    <3>2. CASE m # mount
      BY <1>1, <1>3, <1>5, <1>11, <3>2 DEF Sound, OnScreen, Mounted
    <3> QED
      BY <3>1, <3>2
  <2> QED
    BY <1>3, <1>11, <2>2, <2>3 DEF Sound, Kept
<1> QED
  BY <1>3, <1>6, <1>8, <1>9, <1>10, <1>11 DEF IInv

\* What a PATCH that carries a stamp its document covers does to the row.
LEMMA PatchStep ==
    ASSUME TypeOK, NEW d \in Docs, NEW s \in Nat, Patch(d, s)
    PROVE  /\ row' \in Rows /\ accepted' \subseteq EditIds
           /\ Verdict(s) = "ok" => /\ s = row.stamp /\ row'.stamp = row.stamp + 1
                                   /\ row'.doc = d /\ accepted' = accepted \cup d.edits
           /\ Verdict(s) # "ok" => row' = row /\ accepted' = accepted
           /\ Verdict(s) \in Answers \ {"none", "failed"}
<1>1. CASE Verdict(s) = "ok"
  <2>1. /\ row' = [doc |-> d, stamp |-> row.stamp + 1, locked |-> FALSE]
        /\ accepted' = accepted \cup d.edits
    BY <1>1 DEF Patch, Write
  <2>2. s = row.stamp
    BY <1>1 DEF Verdict
  <2>3. row' \in Rows /\ accepted' \subseteq EditIds
    BY <2>1, DocParts DEF TypeOK, Rows
  <2> QED
    BY <1>1, <2>1, <2>2, <2>3 DEF Answers
<1>2. CASE Verdict(s) # "ok"
  BY <1>2 DEF Patch, TypeOK, Verdict, Answers
<1> QED
  BY <1>1, <1>2

LEMMA PatchKept ==
    ASSUME TypeOK, Sound, NEW d \in Docs, NEW s \in Nat, Patch(d, s), Covers(row, d, s)
    PROVE  /\ Kept' /\ row'.doc.edits \subseteq accepted'
           /\ \A e : \A t \in Nat : Covers(row, e, t) => Covers(row', e, t)
           /\ \A q \in Seq(Titled), f \in Sent \cup {None}, p \in Nat :
                  Line(row, q, f, p) => Line(row', q, f, p)
<1>1. row \in Rows
  BY DEF TypeOK
<1>2. CASE Verdict(s) = "ok"
  <2>1. /\ row' \in Rows /\ s = row.stamp /\ row'.stamp = row.stamp + 1
        /\ row'.doc = d /\ accepted' = accepted \cup d.edits
    BY <1>2, PatchStep
  <2>2. accepted \subseteq d.edits
    BY <2>1 DEF Covers, Sound, Kept
  <2> QED
    BY <1>1, <2>1, <2>2, CoversLater, LineLater DEF Kept
<1>3. CASE Verdict(s) # "ok"
  BY <1>3, PatchStep DEF Sound, Kept
<1> QED
  BY <1>2, <1>3

LEMMA ServeKeeps == ASSUME IInv, NEW m \in Mounts, Serve(m) PROVE IInv'
<1> DEFINE f == flying[m]
           g == [f EXCEPT !.answer = Verdict(f.stamp), !.back = row'.stamp]
<1>1. TypeOK /\ f \in Sent /\ f.answer = "none" /\ f # None /\ mount \in Mounts
      /\ row \in Rows /\ flying \in [Mounts -> Sent \cup {None}]
  BY DEF IInv, TypeOK, Serve
<1>2. f.doc \in Docs /\ f.stamp \in Nat /\ f.back \in Nat
  BY <1>1, SentParts
<1>3. /\ Patch(f.doc, f.stamp) /\ flying' = [flying EXCEPT ![m] = g]
      /\ elsewhere' = (elsewhere \/ (Verdict(f.stamp) = "ok" /\ m # mount))
      /\ UNCHANGED <<cache, invalid, view, mount, doc, pending, timer, last, reload, status,
                     queue, pre, beacons, form, edits, foreigns, presses, troubles, reloaded,
                     behind, restamped>>
  BY DEF Serve, page, bounds
<1>4. /\ row' \in Rows /\ accepted' \subseteq EditIds
      /\ Verdict(f.stamp) = "ok" => /\ f.stamp = row.stamp /\ row'.stamp = row.stamp + 1
                                    /\ row'.doc = f.doc
      /\ Verdict(f.stamp) # "ok" => row' = row
      /\ Verdict(f.stamp) \in Answers \ {"none", "failed"}
  BY <1>1, <1>2, <1>3, PatchStep
<1>5. /\ g \in Sent /\ g # None /\ g.doc = f.doc /\ g.answer = Verdict(f.stamp)
      /\ g.back = row'.stamp
  <2>1. row'.stamp \in Nat
    BY <1>4 DEF Rows
  <2>2. g \in Sent /\ g.doc = f.doc /\ g.answer = Verdict(f.stamp) /\ g.back = row'.stamp
    BY <1>1, <1>4, <2>1 DEF Sent
  <2> QED
    BY <2>2, SentParts
<1>6. flying'[m] = g /\ \A k \in Mounts : k # m => flying'[k] = flying[k]
  BY <1>1, <1>3
<1> HIDE DEF g
<1>7. TypeOK'
  <2>1. flying' \in [Mounts -> Sent \cup {None}]
    BY <1>1, <1>3, <1>5
  <2>2. elsewhere' \in BOOLEAN
    BY <1>3, Zenon
  <2> QED
    BY <1>1, <1>3, <1>4, <2>1, <2>2 DEF TypeOK
<1>8. m <= mount
  BY <1>1, MountsNat DEF IInv, Places
<1>9. Places'
  BY <1>1, <1>3, <1>6, <1>8, MountsNat DEF IInv, Places
<1>10. Held'
  BY <1>1, <1>3, <1>5, <1>6 DEF IInv, Held
<1>11. Told'
  <2> SUFFICES ASSUME ~elsewhere' PROVE Told'
    BY DEF Told
  <2>1. ~elsewhere /\ (m # mount => Verdict(f.stamp) # "ok")
    BY <1>3
  <2>2. CASE m = mount
    <3>1. view = "editor" => f.stamp = row.stamp
      BY <1>1, <2>1, <2>2 DEF IInv, Told
    <3>2. view = "editor" => Verdict(f.stamp) # "conflict"
      BY <3>1 DEF Verdict
    <3> QED
      BY <1>1, <1>3, <1>4, <1>5, <1>6, <2>1, <2>2, <3>1, <3>2 DEF IInv, Told, Conflict
  <2>3. CASE m # mount
    BY <1>3, <1>4, <1>6, <2>1, <2>3, <1>1 DEF IInv, Told, Conflict
  <2> QED
    BY <2>2, <2>3
<1>12. ASSUME Sound PROVE Sound'
  <2>1. /\ Kept' /\ row'.doc.edits \subseteq accepted'
        /\ \A e : \A t \in Nat : Covers(row, e, t) => Covers(row', e, t)
        /\ \A q \in Seq(Titled), h \in Sent \cup {None}, p \in Nat :
                  Line(row, q, h, p) => Line(row', q, h, p)
    <3>1. Covers(row, f.doc, f.stamp)
      BY <1>1, <1>12 DEF Sound, Line
    <3> HIDE DEF f
    <3> QED
      BY <1>1, <1>2, <1>3, <1>12, <3>1, PatchKept
  <2>2. Covers(row', cache.doc, cache.stamp)
    BY <1>1, <1>12, <2>1 DEF Sound, TypeOK, Rows
  <2>3. \A b \in beacons : Covers(row', b.doc, b.stamp)
    BY <1>1, <1>12, <2>1 DEF Sound, TypeOK, Requests
  <2>4. Line(row', queue[m], g, pre[m])
    <3>1. queue[m] \in Seq(Titled) /\ pre[m] \in Nat /\ Line(row, queue[m], f, pre[m])
      BY <1>1, <1>12 DEF Sound, TypeOK
    <3> HIDE DEF f
    <3> QED
      BY <1>1, <1>4, <3>1, LineServed DEF g
  <2>5. \A k \in Mounts : Line(row', queue[k], flying'[k], pre[k])
    BY <1>1, <1>6, <1>12, <2>1, <2>4 DEF Sound, TypeOK
  <2>6. OnScreen'
    <3> SUFFICES ASSUME view = "editor" PROVE OnScreen'
      BY <1>3 DEF OnScreen
    <3>1. pre[mount] \in Nat
      BY <1>1 DEF TypeOK
    <3>2. /\ Covers(row', doc, pre[mount])
          /\ pending # None => Covers(row', pending, pre[mount])
          /\ last # None => Covers(row', last, pre[mount])
      BY <1>12, <2>1, <3>1 DEF Sound, OnScreen
    <3>3. /\ Follows(queue[mount], flying'[mount], doc)
          /\ pending # None => Follows(queue[mount], flying'[mount], pending)
      <4>1. CASE m = mount
        BY <1>1, <1>5, <1>6, <1>12, <4>1 DEF Sound, OnScreen, Follows
      <4>2. CASE m # mount
        BY <1>1, <1>6, <1>12, <4>2 DEF Sound, OnScreen
      <4> QED
        BY <4>1, <4>2
    <3> QED
      BY <1>3, <1>12, <3>2, <3>3 DEF Sound, OnScreen
  <2> QED
    BY <1>3, <2>1, <2>2, <2>3, <2>5, <2>6 DEF Sound
<1> QED
  BY <1>3, <1>7, <1>9, <1>10, <1>11, <1>12 DEF IInv

LEMMA BreaksKeeps == ASSUME IInv, NEW m \in Mounts, Breaks(m) PROVE IInv'
<1> DEFINE f == flying[m]
           g == [f EXCEPT !.answer = "failed"]
<1>1. TypeOK /\ f \in Sent /\ f # None /\ mount \in Mounts
      /\ flying \in [Mounts -> Sent \cup {None}]
  BY DEF IInv, TypeOK, Breaks
<1>2. g \in Sent /\ g # None /\ g.doc = f.doc /\ g.answer = "failed"
  <2>1. g \in Sent /\ g.doc = f.doc /\ g.answer = "failed"
    BY <1>1 DEF Sent, Answers
  <2> QED
    BY <2>1, SentParts
<1>3. /\ flying' = [flying EXCEPT ![m] = g]
      /\ troubles < MaxTroubles /\ troubles' = troubles + 1
      /\ elsewhere' = (elsewhere \/ f.answer = "ok")
      /\ UNCHANGED <<row, cache, invalid, view, mount, doc, pending, timer, last, reload,
                     status, queue, pre, beacons, form, edits, foreigns, presses, accepted,
                     reloaded, behind, restamped>>
  BY DEF Breaks, Trouble, page
<1>4. flying'[m] = g /\ \A k \in Mounts : k # m => flying'[k] = flying[k]
  BY <1>1, <1>3
<1> HIDE DEF g
<1>5. troubles' \in 0 .. MaxTroubles /\ troubles \in Nat
  BY <1>1, <1>3, EditorAssumption DEF TypeOK
<1>6. TypeOK'
  <2>1. flying' \in [Mounts -> Sent \cup {None}]
    BY <1>1, <1>2, <1>3
  <2>2. elsewhere' \in BOOLEAN
    BY <1>3, Zenon
  <2> QED
    BY <1>1, <1>3, <1>5, <2>1, <2>2 DEF TypeOK
<1>7. m <= mount
  BY <1>1, MountsNat DEF IInv, Places
<1>8. Places'
  BY <1>1, <1>3, <1>4, <1>5, <1>7, MountsNat, EditorAssumption DEF IInv, Places
<1>9. Held'
  BY <1>1, <1>2, <1>3, <1>4 DEF IInv, Held
<1>10. Told'
  <2> SUFFICES ASSUME ~elsewhere' PROVE Told'
    BY DEF Told
  <2>1. ~elsewhere /\ f.answer # "ok"
    BY <1>3
  <2> QED
    BY <1>1, <1>2, <1>3, <1>4, <2>1 DEF IInv, Told, Conflict
<1>11. ASSUME Sound PROVE Sound'
  <2>1. Line(row, queue[m], g, pre[m])
        /\ \A e : Follows(queue[m], f, e) => Follows(queue[m], g, e)
    <3>1. Line(row, queue[m], f, pre[m])
      BY <1>11 DEF Sound
    <3> HIDE DEF f
    <3> QED
      BY <1>1, <3>1, LineBroken DEF g
  <2>2. \A k \in Mounts : Line(row, queue[k], flying'[k], pre[k])
    BY <1>4, <1>11, <2>1 DEF Sound
  <2>3. OnScreen'
    BY <1>1, <1>3, <1>4, <1>11, <2>1 DEF Sound, OnScreen
  <2> QED
    BY <1>3, <1>11, <2>2, <2>3 DEF Sound, Kept
<1> QED
  BY <1>3, <1>6, <1>8, <1>9, <1>10, <1>11 DEF IInv

LEMMA SavedKeeps == ASSUME IInv, NEW m \in Mounts, Saved(m) PROVE IInv'
<1> DEFINE f == flying[m]
<1>1. TypeOK /\ f \in Sent /\ f # None /\ f.answer = "ok" /\ mount \in Mounts
      /\ flying \in [Mounts -> Sent \cup {None}] /\ pre \in [Mounts -> Nat]
  BY DEF IInv, TypeOK, Saved, Landed
<1>2. f.doc \in Docs /\ f.back \in Nat
  BY <1>1, SentParts
<1>3. /\ flying' = [flying EXCEPT ![m] = None] /\ pre' = [pre EXCEPT ![m] = f.back]
      /\ UNCHANGED <<row, view, mount, doc, pending, timer, reload, queue, beacons, form, edits,
                     foreigns, presses, troubles, accepted, reloaded, behind, restamped,
                     elsewhere>>
  BY DEF Saved, Done, Advance, bounds, history
<1>4. \/ /\ Mounted(m) /\ cache' = [doc |-> f.doc, stamp |-> f.back, locked |-> FALSE]
         /\ invalid' = FALSE /\ last' = None /\ status' = "saved"
      \/ ~Mounted(m) /\ UNCHANGED <<cache, invalid, last, status>>
  BY DEF Saved
<1>5. /\ flying'[m] = None /\ pre'[m] = f.back
      /\ \A k \in Mounts : k # m => flying'[k] = flying[k] /\ pre'[k] = pre[k]
  BY <1>1, <1>3
<1>6. TypeOK'
  <2>1. flying' \in [Mounts -> Sent \cup {None}] /\ pre' \in [Mounts -> Nat]
    BY <1>1, <1>2, <1>3
  <2>2. cache' \in Rows
    <3>1. CASE Mounted(m)
      <4>1. [doc |-> f.doc, stamp |-> f.back, locked |-> FALSE] \in Rows
        BY <1>2 DEF Rows
      <4> QED
        BY <1>4, <3>1, <4>1
    <3>2. CASE ~Mounted(m)
      BY <1>1, <1>4, <3>2 DEF TypeOK
    <3> QED
      BY <3>1, <3>2
  <2>3. invalid' \in BOOLEAN
    BY <1>1, <1>4 DEF TypeOK
  <2>4. last' \in Titled \cup {None} /\ status' \in {"idle", "saving", "saved", "unsaved", "error"}
    BY <1>1, <1>4 DEF TypeOK
  <2> QED
    BY <1>1, <1>3, <2>1, <2>2, <2>3, <2>4 DEF TypeOK
<1>7. Places'
  BY <1>1, <1>3, <1>4, <1>5 DEF IInv, Places, Mounted
<1>8. Held'
  BY <1>1, <1>3, <1>4, <1>5 DEF IInv, Held, Mounted
<1>9. Told'
  BY <1>1, <1>3, <1>5 DEF IInv, Told, Conflict
<1>10. ASSUME Sound PROVE Sound'
  <2>1. /\ Line(row, queue[m], None, f.back) /\ Covers(row, f.doc, f.back)
        /\ \A e : Follows(queue[m], f, e) => Follows(queue[m], None, e) /\ Covers(row, e, f.back)
    <3>1. Line(row, queue[m], f, pre[m])
      BY <1>10 DEF Sound
    <3> HIDE DEF f
    <3> QED
      BY <1>1, <3>1, LineSaved
  <2>2. \A k \in Mounts : Line(row, queue[k], flying'[k], pre'[k])
    BY <1>5, <1>10, <2>1 DEF Sound
  <2>3. Covers(row, cache'.doc, cache'.stamp)
    BY <1>4, <1>10, <2>1 DEF Sound
  <2>4. OnScreen'
    <3>1. CASE Mounted(m)
      BY <1>1, <1>3, <1>4, <1>5, <1>10, <2>1, <3>1 DEF Sound, OnScreen, Mounted
    <3>2. CASE ~Mounted(m)
      BY <1>1, <1>3, <1>4, <1>5, <1>10, <3>2 DEF Sound, OnScreen, Mounted
    <3> QED
      BY <3>1, <3>2
  <2> QED
    BY <1>3, <1>10, <2>2, <2>3, <2>4 DEF Sound, Kept
<1> QED
  BY <1>3, <1>6, <1>7, <1>8, <1>9, <1>10 DEF IInv

LEMMA RefusedKeeps == ASSUME IInv, NEW m \in Mounts, Refused(m) PROVE IInv'
<1> DEFINE f == flying[m]
<1>1. TypeOK /\ f \in Sent /\ f # None /\ f.answer # "ok" /\ f.answer # "none" /\ mount \in Mounts
      /\ flying \in [Mounts -> Sent \cup {None}]
  BY DEF IInv, TypeOK, Refused, Landed
<1>2. /\ flying' = [flying EXCEPT ![m] = None]
      /\ UNCHANGED <<row, cache, view, mount, doc, pending, timer, last, queue, pre, beacons,
                     form, edits, foreigns, presses, troubles, accepted, reloaded, behind,
                     restamped, elsewhere>>
  BY DEF Refused, Done, bounds, history
<1>3. \/ /\ Mounted(m) /\ invalid' = (invalid \/ f.answer = "locked")
         /\ reload' = (IF f.answer = "conflict" /\ ~Conflict THEN "asked" ELSE reload)
         /\ status' = (IF f.answer = "locked" THEN "idle" ELSE "error")
      \/ ~Mounted(m) /\ UNCHANGED <<invalid, reload, status>>
  BY DEF Refused
<1>4. flying'[m] = None /\ \A k \in Mounts : k # m => flying'[k] = flying[k]
  BY <1>1, <1>2
<1>5. TypeOK'
  <2>1. flying' \in [Mounts -> Sent \cup {None}]
    BY <1>1, <1>2
  <2>2. invalid' \in BOOLEAN
    <3>1. CASE Mounted(m)
      BY <1>3, <3>1, Zenon
    <3>2. CASE ~Mounted(m)
      BY <1>1, <1>3, <3>2 DEF TypeOK
    <3> QED
      BY <3>1, <3>2
  <2>3. /\ reload' \in {"none", "asked", "failed"}
        /\ status' \in {"idle", "saving", "saved", "unsaved", "error"}
    BY <1>1, <1>3 DEF TypeOK
  <2> QED
    BY <1>1, <1>2, <2>1, <2>2, <2>3 DEF TypeOK
<1>6. Places'
  BY <1>1, <1>2, <1>3, <1>4 DEF IInv, Places, Mounted
<1>7. Held'
  <2>1. Mounted(m) => last # None
    BY <1>1, DocParts, SentParts DEF IInv, Held, Mounted
  <2> QED
    BY <1>1, <1>2, <1>3, <1>4, <2>1 DEF IInv, Held, Mounted
<1>8. Told'
  <2>1. ~elsewhere /\ Mounted(m) => f.answer # "conflict"
    BY <1>1 DEF IInv, Told, Mounted
  <2>2. ~elsewhere => reload' = reload
    BY <1>3, <2>1
  <2> QED
    BY <1>1, <1>2, <1>4, <2>2 DEF IInv, Told, Conflict
<1>9. ASSUME Sound PROVE Sound'
  <2>1. Line(row, queue[m], None, pre[m])
        /\ \A e : Follows(queue[m], f, e) => Follows(queue[m], None, e)
    BY <1>9, LineDropped DEF Sound
  <2>2. \A k \in Mounts : Line(row, queue[k], flying'[k], pre[k])
    BY <1>4, <1>9, <2>1 DEF Sound
  <2>3. OnScreen'
    BY <1>1, <1>2, <1>4, <1>9, <2>1 DEF Sound, OnScreen
  <2> QED
    BY <1>2, <1>9, <2>2, <2>3 DEF Sound, Kept
<1> QED
  BY <1>2, <1>5, <1>6, <1>7, <1>8, <1>9 DEF IInv

-----------------------------------------------------------------------------
(* Mounting and unmounting.                                                *)

LEMMA UnmountStep ==
    ASSUME IInv, view = "editor", Unmount
    PROVE  /\ beacons' \subseteq Requests /\ pending' = None /\ ~timer' /\ timer' \in BOOLEAN
           /\ last' = None /\ status' = "idle" /\ reload' = "none"
           /\ Sound => \A b \in beacons' : Covers(row, b.doc, b.stamp)
<1>1. TypeOK /\ mount \in Mounts /\ pre[mount] \in Nat
  BY DEF IInv, TypeOK
<1>2. pending' = None /\ timer' = FALSE /\ last' = None /\ status' = "idle" /\ reload' = "none"
  BY DEF Unmount
<1>3. CASE pending = None
  BY <1>1, <1>2, <1>3 DEF Unmount, TypeOK, Sound
<1>4. CASE pending # None
  <2> DEFINE b == [doc |-> pending, stamp |-> pre[mount]]
  <2>1. beacons' = beacons \cup {b}
    BY <1>4 DEF Unmount
  <2>2. b \in Requests
    BY <1>1, <1>4 DEF TypeOK, Requests, Titled
  <2>3. Sound => Covers(row, b.doc, b.stamp)
    BY <1>4 DEF Sound, OnScreen
  <2> HIDE DEF b
  <2> QED
    BY <1>1, <1>2, <2>1, <2>2, <2>3 DEF TypeOK, Sound
<1> QED
  BY <1>3, <1>4

\* The page swaps from the editor to something else.
LEMMA Swapped ==
    ASSUME IInv, view = "editor", Unmount,
           view' = "locked" \/ (view' = "away" /\ mount <= MaxLeaves)
               \/ (view' = "error" /\ troubles' = troubles + 1),
           cache' \in {cache, row}, invalid' \in BOOLEAN, troubles' \in 0 .. MaxTroubles,
           UNCHANGED <<row, mount, doc, queue, flying, pre, form, edits, foreigns, presses,
                       accepted, reloaded, behind, restamped, elsewhere>>
    PROVE  IInv'
<1>1. /\ beacons' \subseteq Requests /\ pending' = None /\ ~timer' /\ timer' \in BOOLEAN
      /\ last' = None /\ status' = "idle" /\ reload' = "none"
      /\ Sound => \A b \in beacons' : Covers(row, b.doc, b.stamp)
  BY UnmountStep
<1>2. TypeOK' 
  BY <1>1 DEF IInv, TypeOK
<1>3. Places'
  <2>1. mount \in Nat /\ troubles \in Nat
    BY MountsNat DEF IInv, TypeOK
  <2> QED
    BY <1>1, <2>1, EditorAssumption DEF IInv, Places
<1>4. Held' /\ Told'
  BY <1>1 DEF IInv, Held, Told, Conflict
<1>5. Sound => Sound'
  <2>1. row \in Rows
    BY DEF IInv, TypeOK
  <2>2. Covers(row, row.doc, row.stamp)
    BY <2>1 DEF Covers, Rows
  <2> QED
    BY <1>1, <2>2 DEF Sound, Kept, OnScreen
<1> QED
  BY <1>2, <1>3, <1>4, <1>5 DEF IInv

\* An editor mounts on what the detail query holds, or on the row.
LEMMA MountKeeps ==
    ASSUME IInv, view \in {"away", "error"}, NEW snapshot \in {cache, row}, Mount(snapshot),
           cache' \in {cache, row}, invalid' \in BOOLEAN,
           UNCHANGED <<row, pending, timer, last, status, reload, queue, flying, beacons,
                       form, edits, foreigns, presses, troubles, accepted, reloaded, behind,
                       restamped>>
    PROVE  IInv'
<1>1. TypeOK /\ mount \in Mounts /\ mount \in Nat /\ troubles \in 0 .. MaxTroubles
      /\ row \in Rows /\ snapshot \in Rows
  BY MountsNat DEF IInv, TypeOK
<1>2. snapshot.doc \in Docs /\ snapshot.stamp \in Nat
  BY <1>1 DEF Rows
<1>3. mount + 1 \in Mounts /\ mount + 1 <= MaxLeaves + 1 + troubles
  BY <1>1, EditorAssumption DEF IInv, Places, Mounts
<1>4. /\ view' = "editor" /\ mount' = mount + 1 /\ doc' = snapshot.doc
      /\ pre' = [pre EXCEPT ![mount + 1] = snapshot.stamp]
      /\ elsewhere' = (elsewhere \/ snapshot.stamp # row.stamp)
  BY DEF Mount
<1>5. queue[mount'] = <<>> /\ flying[mount'] = None
  BY <1>1, <1>3, <1>4 DEF IInv, Places
<1>6. pre' \in [Mounts -> Nat] /\ pre'[mount'] = snapshot.stamp
      /\ \A m \in Mounts : m # mount' => pre'[m] = pre[m]
  BY <1>1, <1>2, <1>3, <1>4 DEF TypeOK
<1>7. TypeOK'
  <2>1. elsewhere' \in BOOLEAN
    BY <1>4, Zenon
  <2> QED
    BY <1>1, <1>2, <1>3, <1>4, <1>6, <2>1 DEF TypeOK
<1>8. pending = None /\ last = None /\ reload = "none" /\ status # "error"
  BY DEF IInv, Places
<1>9. Places'
  <2>1. \A m \in Mounts : m > mount' => queue[m] = <<>> /\ flying[m] = None
    <3>1. \A m \in Mounts : m > mount' => m > mount
      BY <1>1, <1>4, MountsNat
    <3> QED
      BY <3>1 DEF IInv, Places
  <2>2. mount' <= MaxLeaves + 1 + troubles'
    BY <1>3, <1>4
  <2> QED
    BY <1>4, <2>1, <2>2 DEF Places
<1>10. Held'
  BY <1>5, <1>8 DEF Held
<1>11. Told'
  BY <1>4, <1>5, <1>6, <1>8 DEF Told, Conflict
<1>12. ASSUME Sound PROVE Sound'
  <2>1. Covers(row, row.doc, row.stamp)
    BY <1>1 DEF Covers, Rows
  <2>2. Covers(row, snapshot.doc, snapshot.stamp)
    BY <1>12, <2>1 DEF Sound
  <2>3. \A m \in Mounts : Line(row, queue[m], flying[m], pre'[m])
    <3>1. Line(row, queue[mount'], flying[mount'], pre'[mount'])
      BY <1>5, <1>6, <2>2, EmptySeq DEF Line, Covers
    <3> QED
      BY <1>6, <1>12, <3>1 DEF Sound
  <2>4. OnScreen'
    <3>1. Follows(queue[mount'], flying[mount'], doc')
      BY <1>5, EmptySeq DEF Follows
    <3> QED
      BY <1>4, <1>6, <1>8, <2>2, <3>1 DEF OnScreen
  <2> QED
    BY <1>12, <2>1, <2>3, <2>4 DEF Sound, Kept
<1> QED
  BY <1>7, <1>9, <1>10, <1>11, <1>12 DEF IInv

LEMMA ReloadWorksKeeps == ASSUME IInv, ReloadWorks PROVE IInv'
<1>1. TypeOK /\ row \in Rows /\ mount \in Mounts /\ view = "editor"
  BY DEF IInv, TypeOK, ReloadWorks
<1>2. /\ cache' = row /\ invalid' = FALSE
      /\ UNCHANGED <<row, mount, queue, flying, form, edits, foreigns, presses, troubles,
                     accepted, behind, restamped, elsewhere>>
  BY DEF ReloadWorks, bounds
<1>3. CASE row.locked
  <2>1. view' = "locked" /\ Unmount /\ UNCHANGED <<doc, pre, reloaded>>
    BY <1>3 DEF ReloadWorks
  <2>2. troubles' \in 0 .. MaxTroubles
    BY <1>1, <1>2 DEF TypeOK
  <2> QED
    BY <1>1, <1>2, <2>1, <2>2, Swapped
<1>4. CASE ~row.locked
  <2>1. /\ doc' = row.doc /\ pre' = [pre EXCEPT ![mount] = row.stamp]
        /\ reload' = "none" /\ status' = "idle" /\ reloaded' = TRUE
        /\ UNCHANGED <<view, pending, timer, last, beacons>>
    BY <1>4 DEF ReloadWorks
  <2>2. TypeOK'
    <3>1. row.doc \in Docs /\ row.stamp \in Nat
      BY <1>1 DEF Rows
    <3>2. pre' \in [Mounts -> Nat]
      BY <1>1, <2>1, <3>1 DEF TypeOK
    <3> QED
      BY <1>1, <1>2, <2>1, <3>1, <3>2 DEF TypeOK
  <2>3. Places' /\ Held'
    BY <1>1, <1>2, <2>1 DEF IInv, Places, Held
  <2>4. Told'
    BY <1>2 DEF IInv, Told, Conflict, ReloadWorks
  <2> QED
    BY <2>1, <2>2, <2>3, <2>4 DEF IInv
<1> QED
  BY <1>3, <1>4

LEMMA ReloadFailsKeeps == ASSUME IInv, ReloadFails PROVE IInv'
<1>1. /\ reload = "asked" /\ reload' = "failed"
      /\ troubles < MaxTroubles /\ troubles' = troubles + 1
      /\ UNCHANGED <<row, cache, invalid, view, mount, doc, pending, timer, last, status, queue,
                     flying, pre, beacons, form, edits, foreigns, presses, accepted, reloaded,
                     behind, restamped, elsewhere>>
  BY DEF ReloadFails, Trouble, chain, history
<1>2. TypeOK /\ troubles' \in 0 .. MaxTroubles /\ troubles \in Nat /\ mount \in Nat
  BY <1>1, EditorAssumption, MountsNat DEF IInv, TypeOK
<1>3. TypeOK'
  BY <1>1, <1>2 DEF TypeOK
<1>4. Places' /\ Held' /\ Told'
  BY <1>1, <1>2, EditorAssumption DEF IInv, Places, Held, Told, Conflict
<1>5. Sound => Sound'
  BY <1>1 DEF Sound, Kept, OnScreen
<1> QED
  BY <1>1, <1>3, <1>4, <1>5 DEF IInv

LEMMA RetryReloadKeeps == ASSUME IInv, RetryReload PROVE IInv'
<1>1. /\ reload = "failed" /\ reload' = "asked"
      /\ UNCHANGED <<row, cache, invalid, view, mount, doc, pending, timer, last, status, queue,
                     flying, pre, beacons, form, edits, foreigns, presses, troubles, accepted,
                     reloaded, behind, restamped, elsewhere>>
  BY DEF RetryReload, chain, bounds, history
<1>2. TypeOK'
  BY <1>1 DEF IInv, TypeOK
<1>3. Places' /\ Held' /\ Told'
  BY <1>1 DEF IInv, Places, Held, Told, Conflict
<1>4. Sound => Sound'
  BY <1>1 DEF Sound, Kept, OnScreen
<1> QED
  BY <1>1, <1>2, <1>3, <1>4 DEF IInv

LEMMA LeaveKeeps == ASSUME IInv, Leave PROVE IInv'
<1>1. /\ view = "editor" /\ mount <= MaxLeaves /\ view' = "away" /\ Unmount
      /\ UNCHANGED <<row, cache, invalid, mount, doc, queue, flying, pre, form, edits, foreigns,
                     presses, troubles, accepted, reloaded, behind, restamped, elsewhere>>
  BY DEF Leave, chain, bounds, history
<1>2. invalid' \in BOOLEAN /\ troubles' \in 0 .. MaxTroubles
  BY <1>1 DEF IInv, TypeOK
<1> QED
  BY <1>1, <1>2, Swapped

LEMMA RefetchFailsKeeps == ASSUME IInv, RefetchFails PROVE IInv'
<1>1. /\ view = "editor" /\ view' = "error" /\ Unmount
      /\ troubles < MaxTroubles /\ troubles' = troubles + 1
      /\ UNCHANGED <<row, cache, invalid, mount, doc, queue, flying, pre, form, edits, foreigns,
                     presses, accepted, reloaded, behind, restamped, elsewhere>>
  BY DEF RefetchFails, Trouble, chain, history
<1>2. invalid' \in BOOLEAN /\ troubles' \in 0 .. MaxTroubles
  BY <1>1, EditorAssumption DEF IInv, TypeOK
<1> QED
  BY <1>1, <1>2, Swapped

\* The page goes from something else to the locked view, or only the detail
\* query changes.
LEMMA OnlyCache ==
    ASSUME IInv, view' = view \/ (view' = "locked" /\ view # "editor"),
           cache' \in {cache, row}, invalid' \in BOOLEAN,
           UNCHANGED <<row, mount, doc, pending, timer, last, status, reload, queue, flying,
                       pre, beacons, form, edits, foreigns, presses, troubles, accepted,
                       reloaded, behind, restamped, elsewhere>>
    PROVE  IInv'
<1>1. TypeOK'
  BY DEF IInv, TypeOK
<1>2. Places' /\ Held' /\ Told'
  BY DEF IInv, Places, Held, Told, Conflict
<1>3. Sound => Sound'
  <2>1. Covers(row, row.doc, row.stamp)
    BY DEF IInv, TypeOK, Covers, Rows
  <2> QED
    BY <2>1 DEF Sound, Kept, OnScreen
<1> QED
  BY <1>1, <1>2, <1>3 DEF IInv

LEMMA ReturnKeeps == ASSUME IInv, Return PROVE IInv'
<1> PICK snapshot \in {cache, row} :
        /\ cache' = snapshot
        /\ IF snapshot.locked
           THEN view' = "locked" /\ UNCHANGED <<mount, doc, pre, elsewhere>>
           ELSE Mount(snapshot)
  BY DEF Return
<1>1. /\ view = "away"
      /\ UNCHANGED <<row, invalid, pending, timer, last, status, reload, queue, flying, beacons,
                     form, edits, foreigns, presses, troubles, accepted, reloaded, behind,
                     restamped>>
  BY DEF Return, bounds
<1>2. invalid' \in BOOLEAN
  BY <1>1 DEF IInv, TypeOK
<1>3. CASE snapshot.locked
  BY <1>1, <1>2, <1>3, OnlyCache
<1>4. CASE ~snapshot.locked
  BY <1>1, <1>2, <1>4, MountKeeps
<1> QED
  BY <1>3, <1>4

LEMMA RefetchKeeps == ASSUME IInv, Refetch PROVE IInv'
<1>1. /\ view \in {"editor", "error"} /\ cache' = row /\ invalid' = FALSE
      /\ UNCHANGED <<row, queue, flying, form, edits, foreigns, presses, troubles, accepted,
                     reloaded, behind, restamped>>
  BY DEF Refetch, bounds
<1>2. troubles' \in 0 .. MaxTroubles
  BY <1>1 DEF IInv, TypeOK
<1>3. CASE row.locked
  <2>1. /\ view' = "locked" /\ UNCHANGED <<mount, doc, pre, elsewhere>>
        /\ IF view = "editor" THEN Unmount
           ELSE UNCHANGED <<pending, timer, last, status, reload, beacons>>
    BY <1>3 DEF Refetch
  <2>2. CASE view = "editor"
    BY <1>1, <1>2, <2>1, <2>2, Swapped
  <2>3. CASE view # "editor"
    BY <1>1, <2>1, <2>3, OnlyCache
  <2> QED
    BY <2>2, <2>3
<1>4. CASE ~row.locked /\ view = "error"
  <2>1. Mount(row) /\ UNCHANGED <<pending, timer, last, status, reload, beacons>>
    BY <1>4 DEF Refetch
  <2> QED
    BY <1>1, <1>4, <2>1, MountKeeps
<1>5. CASE ~row.locked /\ view # "error"
  <2>1. UNCHANGED <<view, mount, doc, pending, timer, last, status, reload, pre, beacons,
                    elsewhere>>
    BY <1>5 DEF Refetch
  <2> QED
    BY <1>1, <2>1, OnlyCache
<1> QED
  BY <1>3, <1>4, <1>5

-----------------------------------------------------------------------------
(* What else writes the row.                                               *)

\* The row moves to a document that covers it; the page is not told.
LEMMA RowMoves ==
    ASSUME IInv,
           row' \in Rows, accepted' \subseteq EditIds,
           form' \in Forms \cup {None},
           \/ restamped' = TRUE
           \/ /\ restamped' = restamped
              /\ Sound => Kept' /\ row'.doc.edits \subseteq accepted',
           \/ row'.stamp = row.stamp + 1 /\ elsewhere' = TRUE
           \/ row'.stamp = row.stamp /\ row'.doc = row.doc /\ elsewhere' = elsewhere,
           beacons' \subseteq beacons, foreigns' \in 0 .. MaxForeign,
           troubles' \in 0 .. MaxTroubles, troubles <= troubles',
           UNCHANGED <<cache, invalid, view, mount, doc, pending, timer, last, reload, status,
                       queue, flying, pre, edits, presses, reloaded, behind>>
    PROVE  IInv'
<1>1. TypeOK'
  <2>1. elsewhere' \in BOOLEAN /\ restamped' \in BOOLEAN
    BY DEF IInv, TypeOK
  <2> QED
    BY <2>1 DEF IInv, TypeOK
<1>2. Places' /\ Held'
  <2>1. mount \in Nat /\ troubles \in Nat /\ troubles' \in Nat
    BY EditorAssumption, MountsNat DEF IInv, TypeOK
  <2> QED
    BY <2>1, EditorAssumption DEF IInv, Places, Held
<1>3. Told'
  <2>1. CASE elsewhere' = TRUE
    BY <2>1 DEF Told
  <2>2. CASE row'.stamp = row.stamp /\ elsewhere' = elsewhere
    BY <2>2 DEF IInv, Told, Conflict
  <2> QED
    BY <2>1, <2>2
<1>4. ASSUME Sound, restamped' = restamped, Kept', row'.doc.edits \subseteq accepted' PROVE Sound'
  <2>1. \A e : \A t \in Nat : Covers(row, e, t) => Covers(row', e, t)
    <3>1. CASE row'.stamp = row.stamp + 1
      BY <3>1, CoversLater DEF IInv, TypeOK
    <3>2. CASE row'.stamp = row.stamp /\ row'.doc = row.doc
      BY <3>2 DEF Covers
    <3> QED
      BY <3>1, <3>2
  <2>2. \A m \in Mounts : Line(row', queue[m], flying[m], pre[m])
    <3> TAKE m \in Mounts
    <3>1. /\ row \in Rows /\ queue[m] \in Seq(Titled) /\ flying[m] \in Sent \cup {None}
          /\ pre[m] \in Nat /\ Line(row, queue[m], flying[m], pre[m])
      BY <1>4 DEF IInv, TypeOK, Sound
    <3>2. CASE row'.stamp = row.stamp + 1
      BY <3>1, <3>2, LineLater
    <3>3. CASE row'.stamp = row.stamp /\ row'.doc = row.doc
      BY <3>1, <3>3, LineSame
    <3> QED
      BY <3>2, <3>3
  <2>3. Covers(row', cache.doc, cache.stamp)
    BY <1>4, <2>1 DEF IInv, TypeOK, Sound, Rows
  <2>4. \A b \in beacons' : Covers(row', b.doc, b.stamp)
    BY <1>4, <2>1 DEF IInv, TypeOK, Sound, Requests
  <2>5. OnScreen'
    <3>1. pre[mount] \in Nat
      BY DEF IInv, TypeOK
    <3> QED
      BY <1>4, <2>1, <3>1 DEF Sound, OnScreen
  <2> QED
    BY <1>4, <2>2, <2>3, <2>4, <2>5 DEF Sound
<1> QED
  BY <1>1, <1>2, <1>3, <1>4 DEF IInv

LEMMA NoTrouble ==
    ASSUME TypeOK, UNCHANGED <<form, troubles, restamped>>
    PROVE  /\ troubles' \in 0 .. MaxTroubles /\ troubles <= troubles'
           /\ form' \in Forms \cup {None} /\ restamped' = restamped
  BY EditorAssumption DEF TypeOK

LEMMA BeaconServedKeeps == ASSUME IInv, BeaconServed PROVE IInv'
<1> PICK b \in beacons : /\ beacons' = beacons \ {b} /\ Patch(b.doc, b.stamp)
                         /\ elsewhere' = (elsewhere \/ Verdict(b.stamp) = "ok")
  BY DEF BeaconServed
<1>1. UNCHANGED <<cache, invalid, view, mount, doc, pending, timer, last, reload, status, queue,
                  flying, pre, form, edits, foreigns, presses, troubles, reloaded, behind,
                  restamped>>
  BY DEF BeaconServed, page, chain, bounds
<1>2. TypeOK /\ b.doc \in Docs /\ b.stamp \in Nat /\ foreigns' \in 0 .. MaxForeign
  BY <1>1 DEF IInv, TypeOK, Requests
<1>3. /\ row' \in Rows /\ accepted' \subseteq EditIds
      /\ Verdict(b.stamp) = "ok" => row'.stamp = row.stamp + 1
      /\ Verdict(b.stamp) # "ok" => row' = row
  BY <1>2, PatchStep
<1>4. Sound => Kept' /\ row'.doc.edits \subseteq accepted'
  <2>1. Sound => Covers(row, b.doc, b.stamp)
    BY DEF Sound
  <2> QED
    BY <1>2, <2>1, PatchKept
<1>5. \/ row'.stamp = row.stamp + 1 /\ elsewhere' = TRUE
      \/ row'.stamp = row.stamp /\ row'.doc = row.doc /\ elsewhere' = elsewhere
  <2>1. elsewhere \in BOOLEAN
    BY <1>2 DEF TypeOK
  <2> QED
    BY <1>3, <2>1
<1> QED
  BY <1>1, <1>2, <1>3, <1>4, <1>5, NoTrouble, RowMoves

LEMMA BeaconLostKeeps == ASSUME IInv, BeaconLost PROVE IInv'
<1>1. /\ beacons' \subseteq beacons
      /\ troubles < MaxTroubles /\ troubles' = troubles + 1
      /\ UNCHANGED <<row, cache, invalid, view, mount, doc, pending, timer, last, reload,
                     status, queue, flying, pre, form, edits, foreigns, presses, accepted,
                     reloaded, behind, restamped, elsewhere>>
  BY DEF BeaconLost, Trouble, page, chain, history
<1>2. TypeOK /\ troubles' \in 0 .. MaxTroubles /\ troubles \in Nat /\ mount \in Nat
  BY <1>1, EditorAssumption, MountsNat DEF IInv, TypeOK
<1>3. TypeOK'
  BY <1>1, <1>2 DEF TypeOK
<1>4. Places' /\ Held' /\ Told'
  BY <1>1, <1>2, EditorAssumption DEF IInv, Places, Held, Told, Conflict
<1>5. Sound => Sound'
  BY <1>1 DEF Sound, Kept, OnScreen
<1> QED
  BY <1>1, <1>3, <1>4, <1>5 DEF IInv

LEMMA ForeignSaveKeeps == ASSUME IInv, ForeignSave PROVE IInv'
<1> DEFINE d == With(row.doc, TRUE)
<1>1. /\ foreigns < MaxForeign /\ foreigns' = foreigns + 1 /\ elsewhere' = TRUE
      /\ row' = [doc |-> d, stamp |-> row.stamp + 1, locked |-> FALSE]
      /\ accepted' = accepted \cup d.edits
      /\ UNCHANGED <<cache, invalid, view, mount, doc, pending, timer, last, reload, status,
                     queue, flying, pre, beacons, form, edits, presses, troubles, reloaded,
                     behind, restamped>>
  BY DEF ForeignSave, Write, page, chain
<1>2. TypeOK /\ row \in Rows /\ row.doc \in Docs /\ row.stamp \in Nat
  BY DEF IInv, TypeOK, Rows
<1>3. d \in Docs /\ row.doc.edits \subseteq d.edits
  BY <1>1, <1>2, NewEditId
<1> HIDE DEF d
<1>4. row' \in Rows /\ row'.stamp = row.stamp + 1 /\ row'.doc = d /\ accepted' \subseteq EditIds
  BY <1>1, <1>2, <1>3, DocParts DEF TypeOK, Rows
<1>5. foreigns' \in 0 .. MaxForeign
  BY <1>1, <1>2, EditorAssumption DEF TypeOK
<1>6. Sound => Kept' /\ row'.doc.edits \subseteq accepted'
  BY <1>1, <1>3, <1>4 DEF Sound, Kept
<1> QED
  BY <1>1, <1>2, <1>4, <1>5, <1>6, NoTrouble, RowMoves

LEMMA LockKeeps == ASSUME IInv, Lock PROVE IInv'
<1>1. /\ row' = [row EXCEPT !.locked = TRUE]
      /\ UNCHANGED <<cache, invalid, view, mount, doc, pending, timer, last, reload, status,
                     queue, flying, pre, beacons, form, edits, foreigns, presses, troubles,
                     accepted, reloaded, behind, restamped, elsewhere>>
  BY DEF Lock, page, chain, bounds, history
<1>2. TypeOK /\ row \in Rows /\ foreigns' \in 0 .. MaxForeign /\ accepted' \subseteq EditIds
  BY <1>1 DEF IInv, TypeOK
<1>3. row' \in Rows /\ row'.stamp = row.stamp /\ row'.doc = row.doc
  BY <1>1, <1>2 DEF Rows
<1>4. Sound => Kept' /\ row'.doc.edits \subseteq accepted'
  BY <1>1, <1>3 DEF Sound, Kept
<1> QED
  BY <1>1, <1>2, <1>3, <1>4, NoTrouble, RowMoves

-----------------------------------------------------------------------------
(* The theorems.                                                           *)

LEMMA FormOpensKeeps == ASSUME IInv, FormOpens PROVE IInv'
<1>1. /\ form' = [meta |-> row.doc.edits \cap MetaEdits, stamp |-> row.stamp]
      /\ UNCHANGED <<row, cache, invalid, view, mount, doc, pending, timer, last, reload,
                     status, queue, flying, pre, beacons, edits, foreigns, presses, troubles,
                     accepted, reloaded, behind, restamped, elsewhere>>
  BY DEF FormOpens, page, chain, bounds, history
<1>2. form' \in Forms
  BY <1>1 DEF IInv, TypeOK, Rows, Forms
<1>3. TypeOK'
  BY <1>1, <1>2 DEF IInv, TypeOK
<1>4. Places' /\ Held' /\ Told'
  BY <1>1 DEF IInv, Places, Held, Told, Conflict
<1>5. Sound => Sound'
  BY <1>1 DEF Sound, Kept, OnScreen
<1> QED
  BY <1>1, <1>3, <1>4, <1>5 DEF IInv

\* Fields of the row's own stamp take nothing away.
LEMMA FormSavesKeeps == ASSUME IInv, FormOK, FormSaves PROVE IInv'
<1> DEFINE d == [edits |-> (row.doc.edits \ MetaEdits) \cup form.meta \cup {NewEdit},
                 titled |-> TRUE]
<1>1. /\ form # None /\ NewEdit \in MetaEdits
      /\ foreigns < MaxForeign /\ foreigns' = foreigns + 1 /\ elsewhere' = TRUE
      /\ row' = [doc |-> d, stamp |-> row.stamp + 1, locked |-> FALSE]
      /\ accepted' = accepted \cup d.edits
      /\ \/ form' = None /\ UNCHANGED troubles
         \/ /\ form' = [form EXCEPT !.meta = @ \cup {NewEdit}]
            /\ troubles < MaxTroubles /\ troubles' = troubles + 1
      /\ restamped' = (restamped \/ form.stamp # row.stamp)
      /\ UNCHANGED <<cache, invalid, view, mount, doc, pending, timer, last, reload, status,
                     queue, flying, pre, beacons, edits, presses, reloaded, behind>>
  BY DEF FormSaves, Write, Trouble, page, chain
<1>2. TypeOK /\ row \in Rows /\ row.doc \in Docs /\ row.stamp \in Nat /\ form \in Forms
  BY <1>1 DEF IInv, TypeOK, Rows
<1>3. d \in Docs
  BY <1>1, <1>2, EditorAssumption DEF Docs, Forms
<1> HIDE DEF d
<1>4. row' \in Rows /\ row'.stamp = row.stamp + 1 /\ row'.doc = d /\ accepted' \subseteq EditIds
  BY <1>1, <1>2, <1>3, DocParts DEF TypeOK, Rows
<1>5. foreigns' \in 0 .. MaxForeign /\ troubles' \in 0 .. MaxTroubles /\ troubles <= troubles'
  BY <1>1, <1>2, EditorAssumption DEF TypeOK
<1>6. form' \in Forms \cup {None} /\ restamped' \in BOOLEAN
  <2>1. form' = [form EXCEPT !.meta = @ \cup {NewEdit}] => form' \in Forms
    BY <1>1, <1>2 DEF Forms
  <2> QED
    BY <1>1, <1>2, <2>1 DEF TypeOK
<1>7. Sound /\ form.stamp = row.stamp => Kept' /\ row'.doc.edits \subseteq accepted'
  <2> SUFFICES ASSUME Sound, form.stamp = row.stamp
               PROVE  Kept' /\ row'.doc.edits \subseteq accepted'
    OBVIOUS
  <2>1. row.doc.edits \subseteq d.edits
    BY <1>1 DEF FormOK, d
  <2> QED
    BY <1>1, <1>4, <2>1 DEF Sound, Kept
<1>8. restamped' \/ (form.stamp = row.stamp /\ restamped' = restamped)
  BY <1>1, <1>2 DEF TypeOK
<1> QED
  BY <1>1, <1>4, <1>5, <1>6, <1>7, <1>8, RowMoves

LEMMA StutterKeeps == ASSUME IInv, UNCHANGED vars PROVE IInv'
  BY DEF vars, IInv, TypeOK, Places, Held, Told, Conflict, Sound, Kept, OnScreen

LEMMA StepKeeps == IInv /\ FormOK /\ [Next]_vars => IInv'
<1> SUFFICES ASSUME IInv, FormOK, [Next]_vars
             PROVE  IInv'
  OBVIOUS
<1>1. CASE Edit \/ TimerFires \/ Press
  BY <1>1, EditKeeps, TimerFiresKeeps, PressKeeps
<1>2. CASE \E m \in Mounts : Issue(m) \/ Serve(m) \/ Breaks(m) \/ Saved(m) \/ Refused(m)
  BY <1>2, IssueKeeps, ServeKeeps, BreaksKeeps, SavedKeeps, RefusedKeeps
<1>3. CASE ReloadWorks \/ ReloadFails \/ RetryReload
  BY <1>3, ReloadWorksKeeps, ReloadFailsKeeps, RetryReloadKeeps
<1>4. CASE Leave \/ Return \/ Refetch \/ RefetchFails
  BY <1>4, LeaveKeeps, ReturnKeeps, RefetchKeeps, RefetchFailsKeeps
<1>5. CASE BeaconServed \/ BeaconLost \/ ForeignSave \/ Lock
  BY <1>5, BeaconServedKeeps, BeaconLostKeeps, ForeignSaveKeeps, LockKeeps
<1>6. CASE FormOpens \/ FormSaves
  BY <1>6, FormOpensKeeps, FormSavesKeeps
<1>7. CASE UNCHANGED vars
  BY <1>7, StutterKeeps
<1> QED
  BY <1>1, <1>2, <1>3, <1>4, <1>5, <1>6, <1>7 DEF Next

\* The row only moves on, and its stamp with it.
LEMMA RowStep ==
    ASSUME TypeOK, [Next]_vars, ~FormOpens, ~FormSaves
    PROVE  /\ form' = form
           /\ \/ row'.stamp = row.stamp + 1
              \/ row'.stamp = row.stamp /\ row'.doc = row.doc
<1>1. row \in Rows
  BY DEF TypeOK
<1>2. CASE Edit \/ TimerFires \/ Press
  BY <1>2 DEF Edit, TimerFires, Press
<1>3. ASSUME NEW m \in Mounts, Issue(m) \/ Breaks(m) \/ Saved(m) \/ Refused(m)
      PROVE  UNCHANGED <<form, row>>
  BY <1>3 DEF Issue, Breaks, Saved, Refused
<1>4. ASSUME NEW m \in Mounts, Serve(m)
      PROVE  form' = form /\ (row'.stamp = row.stamp + 1 \/ row' = row)
  BY <1>4 DEF Serve, Patch, Write
<1>5. CASE ReloadWorks \/ ReloadFails \/ RetryReload
  BY <1>5 DEF ReloadWorks, ReloadFails, RetryReload
<1>6. CASE Leave \/ Return \/ Refetch \/ RefetchFails
  BY <1>6 DEF Leave, Return, Refetch, RefetchFails
<1>7. CASE BeaconServed
  BY <1>7 DEF BeaconServed, Patch, Write
<1>8. CASE BeaconLost
  BY <1>8 DEF BeaconLost
<1>9. CASE ForeignSave
  BY <1>9 DEF ForeignSave, Write
<1>10. CASE Lock
  BY <1>1, <1>10 DEF Lock, Rows
<1>11. CASE UNCHANGED vars
  BY <1>11 DEF vars
<1> QED
  BY <1>2, <1>3, <1>4, <1>5, <1>6, <1>7, <1>8, <1>9, <1>10, <1>11 DEF Next

LEMMA FormStep == ASSUME TypeOK, FormOK, [Next]_vars PROVE FormOK'
<1>1. row \in Rows /\ row.stamp \in Nat /\ form \in Forms \cup {None}
  BY DEF TypeOK, Rows
<1>2. CASE FormOpens
  BY <1>1, <1>2 DEF FormOpens, FormOK
<1>3. CASE FormSaves
  <2>1. row'.stamp = row.stamp + 1 /\ form # None /\ form \in Forms
    BY <1>1, <1>3 DEF FormSaves, Write
  <2>2. form' = None \/ form'.stamp = form.stamp
    BY <2>1, <1>3 DEF FormSaves, Forms
  <2>3. form.stamp <= row.stamp /\ form.stamp \in Nat
    BY <2>1 DEF FormOK, Forms
  <2> QED
    BY <1>1, <2>1, <2>2, <2>3 DEF FormOK
<1>4. CASE ~FormOpens /\ ~FormSaves
  <2>1. form # None => form.stamp \in Nat
    BY <1>1 DEF Forms
  <2> QED
    BY <1>1, <1>4, <2>1, RowStep DEF FormOK
<1> QED
  BY <1>2, <1>3, <1>4

LEMMA Inductive == Spec => [](IInv /\ FormOK)
<1>1. Init => FormOK
  BY DEF Init, FormOK
<1>2. IInv /\ FormOK /\ [Next]_vars => IInv' /\ FormOK'
  BY StepKeeps, FormStep DEF IInv
<1> QED
  BY <1>1, <1>2, InitKeeps, PTL DEF Spec

\* Every reachable state of the editor is well-formed: in particular only
\* documents with a title wait for the debounce or are sent.
THEOREM TypeCorrect == Spec => []TypeOK
<1>1. IInv => TypeOK
  BY DEF IInv
<1> QED
  BY <1>1, Inductive, PTL

\* Outside the three windows (a resolved conflict, "Save" pressed while a save
\* waits behind another, the metadata dialog over a newer row) no edit the server
\* took is ever lost from the row.
THEOREM LossExplained == Spec => []LostOnlyInAWindow
<1>1. IInv => LostOnlyInAWindow
  BY DEF IInv, Sound, LostOnlyInAWindow, InAWindow
<1> QED
  BY <1>1, Inductive, PTL

\* An editor never conflicts with its own earlier save.
THEOREM SavesSerialized == Spec => []ConflictIsWithAnother
<1>1. IInv => ConflictIsWithAnother
  BY DEF IInv, Told, ConflictIsWithAnother
<1> QED
  BY <1>1, Inductive, PTL

\* After a failed save "Retry" has a document to send.
THEOREM RetryNeverDead == Spec => []RetryHasADocument
<1>1. IInv => RetryHasADocument
  BY DEF IInv, Held, RetryHasADocument, Replayed
<1> QED
  BY <1>1, Inductive, PTL
=============================================================================
