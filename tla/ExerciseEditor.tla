--------------------------- MODULE ExerciseEditor ---------------------------
(* The exercise editor of a teacher's tab and its autosave                   *)
(* (features/exercises: ExerciseEditorPage, useExerciseAutosave), with the   *)
(* optimistic precondition of PATCH /api/exercises/{id} and the other        *)
(* writers of the row.                                                       *)
(*                                                                           *)
(* A document is what was done to it: the set of the edits it contains, and  *)
(* whether it has a title.  updated_at is a stamp that every write advances. *)
EXTENDS Naturals, Sequences

CONSTANTS
    None,         \* no document, no request
    MaxEdits,     \* of the teacher
    MaxForeign,   \* edits another writer saves
    MetaEdits,    \* the edits that are to the title, the skill, the tags, ...
    MaxPresses,   \* of "Save exercise" and "Retry"
    MaxLeaves,
    MaxTroubles   \* requests or answers that are lost

EditIds == 1 .. MaxEdits + MaxForeign
Docs == [edits : SUBSET EditIds, titled : BOOLEAN]
Titled == {d \in Docs : d.titled}
Rows == [doc : Docs, stamp : Nat, locked : BOOLEAN]
Requests == [doc : Docs, stamp : Nat]
Answers == {"none", "ok", "conflict", "locked", "failed"}
Sent == [doc : Docs, stamp : Nat, answer : Answers, back : Nat]
Forms == [meta : SUBSET MetaEdits, stamp : Nat]

ASSUME EditorAssumption ==
    /\ None \notin Docs /\ None \notin Sent /\ None \notin Forms
    /\ MetaEdits \subseteq EditIds
    /\ MaxEdits \in Nat /\ MaxForeign \in Nat /\ MaxPresses \in Nat
    /\ MaxLeaves \in Nat /\ MaxTroubles \in Nat

Mounts == 1 .. MaxLeaves + MaxTroubles + 1

VARIABLES
    row,      \* the exercise in the database
    cache,    \* the detail query's data
    invalid,  \* the detail query was invalidated
    view,     \* what the page renders: "editor", "error", "locked", "away"
    mount,    \* the number of the editor last mounted
    doc,      \* the document on screen (docRef)
    pending, timer,     \* pendingRef; the debounce is running
    last,     \* lastAttemptedRef
    status,   \* saveStatus of the editor store
    reload,   \* of a conflict: "none", "asked", "failed"
    queue,    \* the saves of a mount that wait for the one before (inFlightRef)
    flying,   \* the PATCH of a mount that has not settled
    pre,      \* preconditionRef of a mount
    beacons,  \* last saves sent while unmounting
    form,     \* the metadata dialog of the library, in whichever tab it is open
    edits, foreigns, presses, troubles,
    accepted, \* edits in documents the server took
    reloaded, \* a conflict was resolved
    behind,   \* "Save" queued an attempted document behind another
    restamped, \* the dialog sent metadata older than its precondition
    elsewhere \* the row moved, and the editor's saves were not told

page  == <<doc, pending, timer, last, reload>>
chain == <<queue, flying, pre>>
bounds == <<edits, foreigns, presses, troubles>>
history == <<accepted, reloaded, behind, restamped, elsewhere>>
vars == <<row, cache, invalid, view, mount, doc, pending, timer, last, status, reload, queue,
          flying, pre, beacons, form, edits, foreigns, presses, troubles, accepted,
          reloaded, behind, restamped, elsewhere>>

Conflict == reload # "none"
Trouble == troubles < MaxTroubles /\ troubles' = troubles + 1

\* The edits of both writers are numbered in the order they were made.
NewEdit == edits + foreigns + 1
With(d, titled) == [edits |-> d.edits \cup {NewEdit}, titled |-> titled]

-----------------------------------------------------------------------------
(* The server (ExerciseService.Update).                                      *)

\* The lock is checked before the precondition.
Verdict(stamp) ==
    IF row.locked THEN "locked" ELSE IF stamp # row.stamp THEN "conflict" ELSE "ok"

Write(d) ==
    /\ row' = [doc |-> d, stamp |-> row.stamp + 1, locked |-> FALSE]
    /\ accepted' = accepted \cup d.edits

Patch(d, stamp) ==
    IF Verdict(stamp) = "ok" THEN Write(d) ELSE UNCHANGED <<row, accepted>>

-----------------------------------------------------------------------------
(* The editor.                                                               *)

\* An editor mounts on a snapshot of the row; its refs are new.
MountFresh(snapshot) ==  \* mutant: the document of the cache, the stamp of the row
    /\ view' = "editor"
    /\ mount' = mount + 1
    /\ doc' = snapshot.doc
    /\ pre' = [pre EXCEPT ![mount + 1] = row.stamp]
    /\ elsewhere' = (elsewhere \/ snapshot.stamp # row.stamp)
Mount(snapshot) ==
    /\ view' = "editor"
    /\ mount' = mount + 1
    /\ doc' = snapshot.doc
    /\ pre' = [pre EXCEPT ![mount + 1] = snapshot.stamp]
    /\ elsewhere' = (elsewhere \/ snapshot.stamp # row.stamp)

\* An editor unmounts: a pending edit goes out at once, past the queue.
Unmount ==
    /\ beacons' = IF pending = None THEN beacons
                  ELSE beacons \cup {[doc |-> pending, stamp |-> pre[mount]]}
    /\ pending' = None /\ timer' = FALSE /\ last' = None
    /\ status' = "idle" /\ reload' = "none"

\* doSave: behind the saves of the same editor.
Enqueue(d) == queue' = [queue EXCEPT ![mount] = Append(@, d)]

ScheduleUngated(d) == pending' = d /\ timer' = TRUE /\ UNCHANGED status  \* mutant: no gate
ScheduleWhenIdle(d) ==  \* mutant: an edit made during a save is not saved
    IF d.titled
    THEN IF status = "saving" THEN UNCHANGED <<pending, timer, status>>
         ELSE pending' = d /\ timer' = TRUE /\ UNCHANGED status
    ELSE pending' = None /\ timer' = FALSE /\ status' = "unsaved"
Schedule(d) ==
    IF d.titled
    THEN pending' = d /\ timer' = TRUE /\ UNCHANGED status
    ELSE pending' = None /\ timer' = FALSE /\ status' = "unsaved"

\* applyEdit: the metadata, the sections, an accepted AI fragment.
Edit ==
    /\ view = "editor" /\ edits < MaxEdits
    /\ edits' = edits + 1
    /\ \E titled \in BOOLEAN : doc' = With(doc, titled)
    /\ IF Conflict THEN UNCHANGED <<pending, timer, status>> ELSE Schedule(doc')
    /\ UNCHANGED <<row, cache, invalid, view, mount, last, reload, chain, beacons, foreigns,
                   form, presses, troubles, history>>

TimerFires ==
    /\ timer
    /\ Enqueue(pending)
    /\ pending' = None /\ timer' = FALSE
    /\ UNCHANGED <<row, cache, invalid, view, mount, doc, last, status, reload, flying, pre,
                   beacons, form, bounds, history>>

\* flush: the pending document, or else the last one attempted.
Replayed == IF pending # None THEN pending ELSE last

Press ==
    /\ view = "editor" /\ presses < MaxPresses
    /\ presses' = presses + 1
    /\ timer' = FALSE
    /\ IF Conflict \/ Replayed = None
       THEN UNCHANGED <<pending, status, queue, behind>>
       ELSE /\ pending' = None
            /\ IF Replayed.titled
               THEN Enqueue(Replayed) /\ UNCHANGED status
               ELSE status' = "unsaved" /\ UNCHANGED queue
            /\ behind' = (behind \/ (pending = None /\ queue[mount] # <<>>))
    /\ UNCHANGED <<row, cache, invalid, view, mount, doc, last, reload, flying, pre, beacons,
                   form, edits, foreigns, troubles, accepted, reloaded, restamped, elsewhere>>

\* The editor of chain m is on screen (isMountedRef).
Mounted(m) == m = mount /\ view = "editor"

\* runSave, up to the request.  It also runs for an editor that is gone, and
\* then writes the status of whichever editor is on screen.
Ready(m) == queue[m] # <<>> /\ flying[m] = None

\* The document of a failed save is kept for "Retry".
Attempted(m) == last' = IF Mounted(m) THEN Head(queue[m]) ELSE last

Issue(m) ==
    /\ Ready(m)
    /\ queue' = [queue EXCEPT ![m] = Tail(@)]
    /\ flying' = [flying EXCEPT ![m] = [doc |-> Head(queue[m]), stamp |-> pre[m],
                                        answer |-> "none", back |-> 0]]
    /\ Attempted(m)
    /\ status' = "saving"
    /\ UNCHANGED <<row, cache, invalid, view, mount, doc, pending, timer, reload, pre,
                   beacons, form, bounds, history>>

Serve(m) ==
    /\ flying[m] # None /\ flying[m].answer = "none"
    /\ Patch(flying[m].doc, flying[m].stamp)
    /\ flying' = [flying EXCEPT ![m].answer = Verdict(flying[m].stamp), ![m].back = row'.stamp]
    /\ elsewhere' = (elsewhere \/ (Verdict(flying[m].stamp) = "ok" /\ m # mount))
    /\ UNCHANGED <<cache, invalid, view, mount, page, status, queue, pre, beacons, form,
                   bounds, reloaded, behind, restamped>>

\* The request does not arrive, or its answer does not come back.
Breaks(m) ==
    /\ flying[m] # None /\ flying[m].answer # "failed"
    /\ Trouble
    /\ flying' = [flying EXCEPT ![m].answer = "failed"]
    /\ elsewhere' = (elsewhere \/ flying[m].answer = "ok")
    /\ UNCHANGED <<row, cache, invalid, view, mount, page, status, queue, pre, beacons, form,
                   edits, foreigns, presses, accepted, reloaded, behind, restamped>>

\* runSave, from the answer on; an editor that is gone takes only the stamp.
Landed(m) == flying[m] # None /\ flying[m].answer # "none"
Done(m) == flying' = [flying EXCEPT ![m] = None]

\* The next save of the chain carries the stamp of this one.
AdvanceNot(m) == UNCHANGED pre  \* mutant: the stamp read at mounting
Advance(m) == pre' = [pre EXCEPT ![m] = flying[m].back]

Saved(m) ==
    /\ Landed(m) /\ flying[m].answer = "ok" /\ Done(m)
    /\ Advance(m)
    /\ IF Mounted(m)
       THEN /\ cache' = [doc |-> flying[m].doc, stamp |-> flying[m].back, locked |-> FALSE]
            /\ invalid' = FALSE
            /\ last' = None /\ status' = "saved"
       ELSE UNCHANGED <<cache, invalid, last, status>>
    /\ UNCHANGED <<row, view, mount, doc, pending, timer, reload, queue, beacons, form,
                   bounds, history>>

\* EXERCISE_LOCKED, the other 409, and every other failure.
Refused(m) ==
    /\ Landed(m) /\ flying[m].answer # "ok" /\ Done(m)
    /\ IF Mounted(m)
       THEN /\ invalid' = (invalid \/ flying[m].answer = "locked")
            /\ reload' = IF flying[m].answer = "conflict" /\ ~Conflict THEN "asked" ELSE reload
            /\ status' = IF flying[m].answer = "locked" THEN "idle" ELSE "error"
       ELSE UNCHANGED <<invalid, reload, status>>
    /\ UNCHANGED <<row, cache, view, mount, doc, pending, timer, last, queue, pre, beacons,
                   form, bounds, history>>

\* The reload of a conflict seeds the document anew; if the exercise is locked
\* by now the page swaps instead.
ReloadWorks ==
    /\ reload = "asked" /\ view = "editor"
    /\ cache' = row /\ invalid' = FALSE
    /\ IF row.locked
       THEN /\ view' = "locked" /\ Unmount
            /\ UNCHANGED <<doc, pre, reloaded>>
       ELSE /\ doc' = row.doc
            /\ pre' = [pre EXCEPT ![mount] = row.stamp]
            /\ reload' = "none" /\ status' = "idle"
            /\ reloaded' = TRUE
            /\ UNCHANGED <<view, pending, timer, last, beacons>>
    /\ UNCHANGED <<row, mount, queue, flying, form, bounds, accepted, behind, restamped,
                   elsewhere>>

ReloadFails ==
    /\ reload = "asked" /\ Trouble
    /\ reload' = "failed"
    /\ UNCHANGED <<row, cache, invalid, view, mount, doc, pending, timer, last, status, chain,
                   beacons, form, edits, foreigns, presses, history>>

RetryReload ==
    /\ reload = "failed"
    /\ reload' = "asked"
    /\ UNCHANGED <<row, cache, invalid, view, mount, doc, pending, timer, last, status, chain,
                   beacons, form, bounds, history>>

\* The teacher leaves the page and comes back, to what the detail query holds
\* or, when that was collected, to the row.
Leave ==
    /\ view = "editor" /\ mount <= MaxLeaves
    /\ view' = "away" /\ Unmount
    /\ UNCHANGED <<row, cache, invalid, mount, doc, chain, form, bounds, history>>

Return ==
    /\ view = "away"
    /\ \E snapshot \in {cache, row} :
        /\ cache' = snapshot
        /\ IF snapshot.locked
           THEN view' = "locked" /\ UNCHANGED <<mount, doc, pre, elsewhere>>
           ELSE Mount(snapshot)
    /\ UNCHANGED <<row, invalid, pending, timer, last, status, reload, queue, flying, beacons,
                   form, bounds, accepted, reloaded, behind, restamped>>

\* The detail query is fetched again: invalidated, on focus, by "Retry" on the
\* error page.
Refetch ==
    /\ view \in {"editor", "error"}
    /\ cache' = row /\ invalid' = FALSE
    /\ CASE row.locked ->
            /\ view' = "locked"
            /\ IF view = "editor" THEN Unmount
               ELSE UNCHANGED <<pending, timer, last, status, reload, beacons>>
            /\ UNCHANGED <<mount, doc, pre, elsewhere>>
         [] ~row.locked /\ view = "error" ->
            Mount(row) /\ UNCHANGED <<pending, timer, last, status, reload, beacons>>
         [] OTHER ->
            UNCHANGED <<view, mount, doc, pending, timer, last, status, reload, pre, beacons,
                        elsewhere>>
    /\ UNCHANGED <<row, queue, flying, form, bounds, accepted, reloaded, behind, restamped>>

RefetchFails ==
    /\ view = "editor" /\ Trouble
    /\ view' = "error" /\ Unmount
    /\ UNCHANGED <<row, cache, invalid, mount, doc, chain, form, edits, foreigns, presses,
                   history>>

-----------------------------------------------------------------------------
(* What else writes the row.                                                 *)

BeaconServed ==
    /\ \E b \in beacons :
        /\ beacons' = beacons \ {b}
        /\ Patch(b.doc, b.stamp)
        /\ elsewhere' = (elsewhere \/ Verdict(b.stamp) = "ok")
    /\ UNCHANGED <<cache, invalid, view, mount, page, status, chain, form, bounds, reloaded,
                   behind, restamped>>

BeaconLost ==
    /\ Trouble
    /\ \E b \in beacons : beacons' = beacons \ {b}
    /\ UNCHANGED <<row, cache, invalid, view, mount, page, status, chain, form, edits,
                   foreigns, presses, history>>

\* Another teacher's or tab's editor saves, in none of the windows below.
ForeignSave ==
    /\ foreigns < MaxForeign /\ ~row.locked
    /\ foreigns' = foreigns + 1
    /\ Write(With(row.doc, TRUE))
    /\ elsewhere' = TRUE
    /\ UNCHANGED <<cache, invalid, view, mount, page, status, chain, beacons, form, edits,
                   presses, troubles, reloaded, behind, restamped>>

\* ExerciseFormDialog: its fields are what the library's list held of the row.
FormOpens ==
    /\ form = None /\ foreigns < MaxForeign
    /\ form' = [meta |-> row.doc.edits \cap MetaEdits, stamp |-> row.stamp]
    /\ UNCHANGED <<row, cache, invalid, view, mount, page, status, chain, beacons, bounds,
                   history>>

\* All of the metadata is sent, and none of the sections, with the updated_at of
\* the detail query, which is fetched when the dialog opens and again after each
\* 409: the fields may be older than the precondition that lets them in.  The
\* dialog closes unless the answer is lost.
FormSaves ==
    /\ form # None /\ foreigns < MaxForeign /\ NewEdit \in MetaEdits
    /\ ~row.locked
    /\ foreigns' = foreigns + 1
    /\ Write([edits |-> (row.doc.edits \ MetaEdits) \cup form.meta \cup {NewEdit}, titled |-> TRUE])
    /\ \/ form' = None /\ UNCHANGED troubles
       \/ form' = [form EXCEPT !.meta = @ \cup {NewEdit}] /\ Trouble
    /\ restamped' = (restamped \/ form.stamp # row.stamp)
    /\ elsewhere' = TRUE
    /\ UNCHANGED <<cache, invalid, view, mount, page, status, chain, beacons, edits, presses,
                   reloaded, behind>>

\* The first student starts an attempt on an assignment of the exercise.
Lock ==
    /\ ~row.locked
    /\ row' = [row EXCEPT !.locked = TRUE]
    /\ UNCHANGED <<cache, invalid, view, mount, page, status, chain, beacons, form, bounds,
                   history>>

-----------------------------------------------------------------------------
Init ==
    /\ row = [doc |-> [edits |-> {}, titled |-> TRUE], stamp |-> 0, locked |-> FALSE]
    /\ cache = row /\ invalid = FALSE
    /\ view = "editor" /\ mount = 1 /\ doc = row.doc
    /\ pending = None /\ timer = FALSE /\ last = None /\ status = "idle" /\ reload = "none"
    /\ queue = [m \in Mounts |-> <<>>]
    /\ flying = [m \in Mounts |-> None]
    /\ pre = [m \in Mounts |-> 0]
    /\ beacons = {} /\ form = None
    /\ edits = 0 /\ foreigns = 0 /\ presses = 0 /\ troubles = 0
    /\ accepted = {} /\ reloaded = FALSE /\ behind = FALSE /\ restamped = FALSE
    /\ elsewhere = FALSE

Next ==
    \/ Edit \/ TimerFires \/ Press
    \/ \E m \in Mounts : Issue(m) \/ Serve(m) \/ Breaks(m) \/ Saved(m) \/ Refused(m)
    \/ ReloadWorks \/ ReloadFails \/ RetryReload
    \/ Leave \/ Return \/ Refetch \/ RefetchFails
    \/ BeaconServed \/ BeaconLost \/ ForeignSave \/ Lock
    \/ FormOpens \/ FormSaves

Spec == Init /\ [][Next]_vars

\* Timers fire, promises run, requests are served and answered; the teacher,
\* the other writers and the network are free.
FairSpec ==
    /\ Spec
    /\ WF_vars(TimerFires)
    /\ \A m \in Mounts : /\ WF_vars(Issue(m)) /\ WF_vars(Serve(m))
                         /\ WF_vars(Saved(m)) /\ WF_vars(Refused(m))
    /\ WF_vars(ReloadWorks)
    /\ WF_vars(invalid /\ Refetch)
    /\ WF_vars(BeaconServed)

-----------------------------------------------------------------------------
\* What the variables hold.  In particular a document that waits for the
\* debounce or was attempted has a title: the gate lets no other through.
TypeOK ==
    /\ row \in Rows /\ cache \in Rows /\ invalid \in BOOLEAN
    /\ view \in {"editor", "error", "locked", "away"} /\ mount \in Mounts
    /\ doc \in Docs
    /\ pending \in Titled \cup {None} /\ timer \in BOOLEAN
    /\ (timer => pending # None)
    /\ last \in Titled \cup {None}
    /\ status \in {"idle", "saving", "saved", "unsaved", "error"}
    /\ reload \in {"none", "asked", "failed"}
    /\ queue \in [Mounts -> Seq(Titled)]
    /\ flying \in [Mounts -> Sent \cup {None}]
    /\ pre \in [Mounts -> Nat]
    /\ beacons \subseteq Requests
    /\ form \in Forms \cup {None}
    /\ edits \in 0 .. MaxEdits /\ foreigns \in 0 .. MaxForeign
    /\ presses \in 0 .. MaxPresses /\ troubles \in 0 .. MaxTroubles
    /\ accepted \subseteq EditIds
    /\ reloaded \in BOOLEAN /\ behind \in BOOLEAN /\ restamped \in BOOLEAN
    /\ elsewhere \in BOOLEAN

\* No silent clobber, whatever the interleaving with other writers, lost
\* answers, last saves and remounts: an edit the server took, from anyone,
\* stays in the row, but for three windows: after a conflict was resolved, when
\* "Save" queued an attempted document behind another, and when the metadata
\* dialog was saved over a row newer than the one its fields are from.
Kept == accepted \subseteq row.doc.edits
InAWindow == reloaded \/ behind \/ restamped
LostOnlyInAWindow == Kept \/ InAWindow

\* The editor's saves are serialized: a conflict is never with the editor's
\* own earlier save, unless its answer was lost.
ConflictIsWithAnother == Conflict => elsewhere

\* "Retry" is never dead: a failed save left a document to send again.
RetryHasADocument == status = "error" /\ ~Conflict => Replayed # None

\* What is on screen reaches the row in the end, unless it has no title, the
\* page reports a conflict, or "Retry" still holds a document; outside the
\* windows above.
EditsSettle ==
    <>[](view = "editor" /\ doc.titled /\ ~Conflict /\ last = None /\ ~InAWindow
         => doc.edits \subseteq row.doc.edits)

\* "A stale precondition is a loud 409, not a silent clobber": an edit the
\* server took stays in the row.
NoSilentClobber == Kept
=============================================================================
