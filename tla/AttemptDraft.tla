---------------------------- MODULE AttemptDraft ----------------------------
(* A student's work on an attempt in one browser tab, from the keystroke to  *)
(* the submitted row (features/attempts, writing-attempt, quiz-attempt,      *)
(* service/submission_service.go).  The work is held four times over: on     *)
(* screen, as a draft in the query cache, as a mirror in localStorage and as *)
(* the content of the submission; a serialized chain of full-replace PUTs    *)
(* carries it to the server and the finalizer posts the submit behind them.  *)
(*                                                                           *)
(* A content gives each field, a paragraph of an essay or a question of a    *)
(* quiz, the number of the edit it shows, 0 for none.                        *)
EXTENDS Naturals, Sequences

CONSTANTS
    Attempts,   \* <<kind, timed>>: an essay ("writing") or a "quiz"
    Fields,
    Nothing,    \* an empty cache slot, no mirror, no request
    MaxEdits,   \* of an attempt without a time budget, and of a timed one
    MaxTroubles \* requests that fail, the network going away, the student
                \* leaving or reloading the page

Content == [Fields -> Nat]
Empty == [f \in Fields |-> 0]
Request == [body : Content, fresh : BOOLEAN, at : {"sent", "ok", "net", "refused"}]
Errand == [do : {"save", "flush", "submit", "post"}, body : Content]

ASSUME DraftAssumption ==
    /\ Attempts \subseteq {"writing", "quiz"} \X BOOLEAN
    /\ Nothing \notin Content /\ Nothing \notin Request
    /\ MaxEdits \in [BOOLEAN -> Nat] /\ MaxTroubles \in Nat

VARIABLES
    kind, timed,
    stored,     \* the content of the submission
    sealed,     \* "no", or who submitted it: "own", "foreign"
    locked,     \* the assignment is closed, or past its hard deadline
    clock,      \* of a timed attempt: "running", "zero", "over" with the grace
    mirror,     \* localStorage
    cache,      \* the draft in the query cache
    shot,       \* the last draft its hook has seen there (snapshotRef)
    seed,       \* the initialText the page keeps
    live,       \* the live text of an essay
    view,       \* what the page renders
    online,
    readOnly,   \* the read-only override, or the deadline has ticked over
    foreign,    \* a sibling tab said it submitted
    commitDue,  \* typed, and the debounce is running
    dirty, armed, indicator,  \* autosave: dirtyRef, timerRef, saveStatus
    chain,      \* saves not settled, the first in flight: "auto" or "final"
    wire,       \* the save in flight
    fin,        \* where the finalizer stands
    fired,      \* the expiry of this shell
    strays,     \* what goes on in the background after its shell is gone
    edits, troubles,
    committed,  \* the last edit of each field that reached the draft
    fate,       \* what became of it: "kept", "hidden" from the page, "lost"
    since,      \* while saves are taken: bodies sent since the last final flush
    overtaken,  \* the last write the server took was not one of them
    cleared     \* the mirror was removed

attempt == <<kind, timed>>
row     == <<stored, sealed>>
gates   == <<locked, clock>>
copies  == <<mirror, cache, shot, seed, live>>
autosave == <<dirty, armed, indicator>>
saves   == <<chain, wire>>
bounds  == <<edits, troubles>>
work    == <<committed, fate>>
vars == <<kind, timed, stored, sealed, locked, clock, mirror, cache, shot, seed, live,
          view, online, readOnly, foreign, commitDue, dirty, armed, indicator, chain, wire,
          fin, fired, strays, edits, troubles, committed, fate, since, overtaken, cleared>>

Writing == kind = "writing"

\* The slot of the draft has no observer, so the cache drops it in the end; what
\* is read there is then the empty draft.
Draft == IF cache = Nothing THEN Empty ELSE cache

\* What getContent reads: the live store of an essay, the cache of a quiz.
Shown == IF Writing THEN live ELSE Draft

\* What the student sees: the hook of a quiz goes on showing a draft that is gone.
Screen == IF Writing THEN live ELSE shot

EditorReadOnly == readOnly \/ foreign
Enabled == ~EditorReadOnly /\ (Writing => online)
Pending == {"unsaved", "saving", "error", "offline"}

\* A save that can start has started before anything else happens.
Drained == chain # <<>> => wire # Nothing

Trouble == troubles < MaxTroubles /\ troubles' = troubles + 1
\* A request fails for nothing without the network.
Breaks == IF online THEN Trouble ELSE UNCHANGED troubles

-----------------------------------------------------------------------------
(* The server (SaveProgress, Submit).                                        *)

AcceptsSubmit == sealed = "no" /\ ~locked
AcceptsSave == AcceptsSubmit /\ clock # "over"

Apply(body) ==
    IF AcceptsSave
    THEN stored' = body /\ overtaken' = (body \notin since)
    ELSE UNCHANGED <<stored, overtaken>>

-----------------------------------------------------------------------------
(* The page.                                                                 *)

\* A shell mounts: its refs are new (Quiet), the save status is that of the store.
\* The mirror is written through only from a slot that holds a draft.
MountUnguarded(text, draft) ==  \* mutant: the mirror takes what the hook shows
    /\ view' = "shell"
    /\ live' = text /\ cache' = draft
    /\ shot' = IF draft = Nothing THEN Empty ELSE draft
    /\ mirror' = shot'
    /\ UNCHANGED <<readOnly, foreign, fired>>
Mount(text, draft) ==
    /\ view' = "shell"
    /\ live' = text /\ cache' = draft
    /\ shot' = IF draft = Nothing THEN Empty ELSE draft
    /\ mirror' = IF draft = Nothing THEN mirror ELSE draft
    /\ UNCHANGED <<readOnly, foreign, fired>>

\* What is left to do in the background: to save a body, or to save it for the
\* finalizer and submit ("flush"), to submit and handle the answer, or, when the
\* document is gone, just a submit on its way ("post").
Put(what, body) == [do |-> what, body |-> body]
Task(what) == Put(what, Empty)

\* What outlives a shell that unmounts: the chain goes on with what it shows,
\* the finalizer with it, and a last save is sent if there is something to save.
Purpose(save) == IF save = "final" THEN "flush" ELSE "save"
Waiting == IF wire = Nothing THEN chain ELSE Tail(chain)
Background ==
    (IF wire # Nothing /\ wire.at = "sent" THEN <<Put(Purpose(Head(chain)), wire.body)>>
     ELSE <<>>)
    \o [i \in DOMAIN Waiting |-> Put(Purpose(Waiting[i]), Shown)]
Flushed == wire # Nothing /\ Head(chain) = "final" /\ wire.at \in {"ok", "refused"}
Posting == IF fin = "posted" \/ Flushed THEN <<Task("submit")>> ELSE <<>>
Beacon == IF dirty /\ Enabled THEN <<Put("save", Shown)>> ELSE <<>>
FinalWaiting == \E i \in DOMAIN Waiting : Waiting[i] = "final"

Quiet ==
    /\ commitDue' = FALSE /\ dirty' = FALSE /\ armed' = FALSE
    /\ chain' = <<>> /\ wire' = Nothing /\ fin' = "none"
    /\ shot' = Empty /\ live' = Empty
    /\ readOnly' = FALSE /\ foreign' = FALSE /\ fired' = FALSE

Unmount ==
    /\ strays' = strays \cup ({Background, Posting, Beacon} \ {<<>>})
    /\ since' = IF FinalWaiting /\ AcceptsSave THEN since \cup {Shown} ELSE since
    /\ Quiet

\* reconcileStoredDraftIntoCache: an essay keeps the local text, a quiz takes
\* the server's answers and adds those the server never saw.
MergeNoNull(local, server) ==  \* mutant: no case for a missing mirror
    IF Writing THEN local
    ELSE [f \in Fields |-> IF server[f] # 0 THEN server[f] ELSE 0]
Merge(local, server) ==
    IF local = Nothing THEN server
    ELSE IF Writing THEN local
    ELSE [f \in Fields |-> IF server[f] # 0 THEN server[f] ELSE local[f]]

Reconciled == IF cache # Nothing THEN cache ELSE Merge(mirror, stored)

\* The bootstrap answers for a page that has nothing yet.
Load ==
    /\ view \in {"away", "error"} /\ seed = Nothing /\ online /\ AcceptsSubmit
    /\ Mount(Reconciled, Reconciled)
    /\ seed' = Reconciled
    /\ indicator' = "idle"
    /\ fate' = [f \in Fields |-> IF fate[f] = "hidden" THEN "kept" ELSE fate[f]]
    /\ UNCHANGED <<attempt, row, gates, online, commitDue, dirty, armed, saves, fin, strays,
                   bounds, committed, since, overtaken, cleared>>

\* It is asked again on focus, on reconnect and by Retry: after an error the
\* shell mounts anew.  The page reconciles once: an essay has the initialText of
\* then, a quiz what the slot holds.
Hidden(f) ==
    IF Writing THEN seed[f] # committed[f] ELSE cache = Nothing /\ committed[f] # 0

Remount ==
    /\ view = "error" /\ seed # Nothing /\ online /\ AcceptsSubmit
    /\ Mount(seed, cache)
    /\ fate' = [f \in Fields |-> IF fate[f] = "kept" /\ Hidden(f) THEN "hidden" ELSE fate[f]]
    /\ UNCHANGED <<attempt, row, gates, seed, online, commitDue, autosave, saves, fin, strays,
                   bounds, committed, since, overtaken, cleared>>

\* The bootstrap is refused, or fails: the page renders something else.
Refetched(to) ==
    /\ view' = to
    /\ IF view = "shell" THEN Unmount
       ELSE UNCHANGED <<commitDue, dirty, armed, saves, fin, strays, since, shot, live,
                      readOnly, foreign, fired>>
    /\ UNCHANGED <<attempt, row, gates, mirror, cache, seed, online, indicator, edits, work,
                   overtaken, cleared>>

BootstrapRefused ==
    /\ Drained /\ online /\ view \in {"away", "error", "shell"} /\ ~AcceptsSubmit
    /\ Refetched(IF locked THEN "error" ELSE "confirmed")
    /\ UNCHANGED troubles

BootstrapFails ==
    /\ Drained /\ online /\ view \in {"away", "shell"} /\ Trouble
    /\ Refetched("error")

\* The student navigates inside the app: the query cache stays.
Leave ==
    /\ Drained /\ view \in {"error", "shell", "confirmed"} /\ Trouble
    /\ view' = "away" /\ seed' = Nothing
    /\ IF view = "shell" THEN Unmount
       ELSE UNCHANGED <<commitDue, dirty, armed, saves, fin, strays, since, shot, live,
                      readOnly, foreign, fired>>
    /\ UNCHANGED <<attempt, row, gates, mirror, cache, online, indicator, edits, work,
                   overtaken, cleared>>

\* The document is reloaded, or crashes: only requests on their way are left.
InFlight(q) == <<[Head(q) EXCEPT !.do = CASE @ = "submit" -> "post"
                                          [] @ = "flush" -> "save"
                                          [] OTHER -> @]>>
Reload ==
    /\ Drained /\ view # "away" /\ Trouble
    /\ view' = "away" /\ seed' = Nothing /\ cache' = Nothing
    /\ strays' = {InFlight(q) : q \in strays}
                 \cup (IF wire # Nothing /\ wire.at = "sent" THEN {<<Put("save", wire.body)>>}
                       ELSE {})
                 \cup (IF fin = "posted" THEN {<<Task("post")>>} ELSE {})
    /\ Quiet
    /\ UNCHANGED <<attempt, row, gates, mirror, online, indicator, edits, work, since,
                   overtaken, cleared>>

\* The query cache collects the slot five minutes after it was written first: it
\* was set and is never observed, so neither an edit nor an open page keeps it.
Collect ==
    /\ Drained /\ cache # Nothing
    /\ cache' = Nothing
    /\ UNCHANGED <<attempt, row, gates, mirror, shot, seed, live, view, online, readOnly,
                   foreign, commitDue, autosave, saves, fin, fired, strays, bounds, work,
                   since, overtaken, cleared>>

-----------------------------------------------------------------------------
(* Editing and the autosave (useAttemptAutosave).                            *)

\* scheduleSave: nothing at all while autosave is off.
ScheduleKeepsGen ==  \* mutant: editGenRef is not bumped
    IF Enabled
    THEN dirty' = TRUE /\ armed' = TRUE /\ indicator' = "unsaved" /\ UNCHANGED wire
    ELSE UNCHANGED <<autosave, wire>>
ScheduleSave ==
    IF Enabled
    THEN /\ dirty' = TRUE /\ armed' = TRUE /\ indicator' = "unsaved"
         /\ wire' = IF wire = Nothing THEN wire ELSE [wire EXCEPT !.fresh = FALSE]
    ELSE UNCHANGED <<autosave, wire>>

\* The draft, and through it the hook and the mirror, takes a content.
Store(c) == cache' = c /\ shot' = c /\ mirror' = c

Type(f) ==
    /\ Drained /\ Writing /\ view = "shell" /\ ~EditorReadOnly /\ edits < MaxEdits[timed]
    /\ edits' = edits + 1
    /\ live' = [live EXCEPT ![f] = edits + 1]
    /\ commitDue' = TRUE
    /\ UNCHANGED <<attempt, row, gates, mirror, cache, shot, seed, view, online, readOnly,
                   foreign, autosave, saves, fin, fired, strays, troubles, work, since,
                   overtaken, cleared>>

\* 600 ms after the last keystroke.  A text that was typed over an old one takes
\* its place.
Newer(f) == live[f] > committed[f]

Commit ==
    /\ Drained /\ commitDue
    /\ commitDue' = FALSE
    /\ IF EditorReadOnly THEN UNCHANGED <<cache, shot, mirror, work, autosave, wire>>
       ELSE /\ Store(live) /\ ScheduleSave
            /\ committed' = [f \in Fields |-> IF Newer(f) THEN live[f] ELSE committed[f]]
            /\ fate' = [f \in Fields |-> IF Newer(f) THEN "kept"
                                        ELSE IF fate[f] = "hidden" THEN "lost" ELSE fate[f]]
    /\ UNCHANGED <<attempt, row, gates, seed, live, view, online, readOnly, foreign, chain,
                   fin, fired, strays, bounds, since, overtaken, cleared>>

Answer(f) ==
    /\ Drained /\ ~Writing /\ view = "shell" /\ ~readOnly /\ edits < MaxEdits[timed]
    /\ edits' = edits + 1
    /\ Store([Draft EXCEPT ![f] = edits + 1]) /\ ScheduleSave
    /\ committed' = [committed EXCEPT ![f] = edits + 1]
    /\ fate' = [g \in Fields |-> IF g = f THEN "kept"
                                ELSE IF cache = Nothing /\ committed[g] # 0 THEN "lost"
                                ELSE fate[g]]
    /\ UNCHANGED <<attempt, row, gates, seed, live, view, online, readOnly, foreign,
                   commitDue, chain, fin, fired, strays, troubles, since, overtaken,
                   cleared>>

\* The 30 s timer: autosave may have been switched off since it was armed.
DueWhenIdle == Enabled /\ dirty /\ wire = Nothing  \* mutant: not while one is in flight
Due == Enabled /\ dirty

TimerFires ==
    /\ Drained /\ armed
    /\ armed' = FALSE
    /\ chain' = IF Due THEN Append(chain, "auto") ELSE chain
    /\ UNCHANGED <<attempt, row, gates, copies, view, online, readOnly, foreign, commitDue,
                   dirty, indicator, wire, fin, fired, strays, bounds, work, since,
                   overtaken, cleared>>

\* The finalizer of a shell that is gone is at work.
SubmittingBehind == \E q \in strays : \E i \in DOMAIN q : q[i].do # "save"

\* runSave reads the content when its turn has come.
Issue ==
    /\ ~Drained
    /\ wire' = [body |-> Shown, fresh |-> TRUE, at |-> "sent"]
    /\ since' = IF ~AcceptsSave THEN since
                ELSE IF Head(chain) = "final" /\ ~SubmittingBehind THEN {Shown}
                ELSE since \cup {Shown}
    /\ indicator' = "saving"
    /\ UNCHANGED <<attempt, row, gates, copies, view, online, readOnly, foreign, commitDue,
                   dirty, armed, chain, fin, fired, strays, bounds, work, overtaken,
                   cleared>>

ServeSave ==
    /\ wire # Nothing /\ wire.at = "sent"
    /\ Apply(wire.body)
    /\ wire' = [wire EXCEPT !.at = IF AcceptsSave THEN "ok" ELSE "refused"]
    /\ UNCHANGED <<attempt, sealed, gates, copies, view, online, readOnly, foreign, commitDue,
                   autosave, chain, fin, fired, strays, bounds, work, since, cleared>>

\* The request or its answer is lost.
SaveBreaks ==
    /\ wire # Nothing /\ wire.at = "sent" /\ Breaks
    /\ Apply(wire.body) \/ UNCHANGED <<stored, overtaken>>
    /\ wire' = [wire EXCEPT !.at = "net"]
    /\ UNCHANGED <<attempt, sealed, gates, copies, view, online, readOnly, foreign, commitDue,
                   autosave, chain, fin, fired, strays, edits, work, since,
                   cleared>>

\* The end of runSave.  Only the newest save speaks for the page; a terminal
\* 409 locks it, and what is unsaved then is sent one last time.  The finalizer
\* posts the submit after an acknowledged flush, or one refused for good.
PostsRegardless(at) == "posted"  \* mutant: any answer will do
AfterFlush(at) == IF at = "net" THEN "none" ELSE "posted"

SaveSettles ==
    /\ wire # Nothing /\ wire.at # "sent"
    /\ LET newest == Len(chain) = 1
           ok == wire.at = "ok"
           locks == newest /\ wire.at = "refused"
           boundary == locks /\ ~readOnly /\ Writing
       IN  /\ chain' = IF boundary THEN Append(Tail(chain), "auto") ELSE Tail(chain)
           /\ armed' = (armed /\ ~boundary)
           /\ dirty' = (dirty /\ ~(newest /\ ok /\ wire.fresh))
           /\ indicator' = IF ~newest THEN indicator
                           ELSE IF ~ok THEN "error"
                           ELSE IF wire.fresh THEN "saved" ELSE "unsaved"
           /\ readOnly' = (readOnly \/ locks)
    /\ fin' = IF Head(chain) = "final" THEN AfterFlush(wire.at) ELSE fin
    /\ wire' = Nothing
    /\ UNCHANGED <<attempt, row, gates, copies, view, online, foreign, commitDue, fired,
                   strays, bounds, work, since, overtaken, cleared>>

-----------------------------------------------------------------------------
(* finalizeAttempt: by the student, who may have opened the dialog before    *)
(* the page was locked, or by the timer.                                     *)

Finalize ==
    /\ fin' = "flushing"
    /\ armed' = FALSE
    /\ chain' = Append(chain, "final")

Confirm ==
    /\ Drained /\ view = "shell" /\ fin = "none"
    /\ Finalize
    /\ UNCHANGED <<attempt, row, gates, copies, view, online, readOnly, foreign, commitDue,
                   dirty, indicator, wire, fired, strays, bounds, work, since,
                   overtaken, cleared>>

Expire ==
    /\ Drained /\ view = "shell" /\ clock # "running" /\ ~fired /\ ~EditorReadOnly
    /\ fin = "none"
    /\ fired' = TRUE
    /\ Finalize
    /\ UNCHANGED <<attempt, row, gates, copies, view, online, readOnly, foreign, commitDue,
                   dirty, indicator, wire, strays, bounds, work, since, overtaken,
                   cleared>>

\* The latch is engaged: the second finalizer has nothing to do and is done.
ExpireTwice ==
    /\ Drained /\ view = "shell" /\ clock # "running" /\ ~fired /\ ~EditorReadOnly
    /\ fin # "none"
    /\ view' = "confirmed"
    /\ mirror' = Nothing /\ cleared' = TRUE
    /\ Unmount
    /\ UNCHANGED <<attempt, row, gates, cache, seed, online, indicator, bounds, work,
                   overtaken>>

ServeSubmit ==
    /\ fin = "posted"
    /\ sealed' = IF AcceptsSubmit THEN "own" ELSE sealed
    /\ fin' = "answered"
    /\ UNCHANGED <<attempt, stored, gates, copies, view, online, readOnly, foreign, commitDue,
                   autosave, saves, fired, strays, bounds, work, since, overtaken,
                   cleared>>

\* The latch opens again, the dialog offers a retry.
SubmitBreaks ==
    /\ fin = "posted" /\ Breaks
    /\ sealed' \in {sealed, IF AcceptsSubmit THEN "own" ELSE sealed}
    /\ fin' = "none"
    /\ UNCHANGED <<attempt, stored, gates, copies, view, online, readOnly, foreign, commitDue,
                   autosave, saves, fired, strays, edits, work, since, overtaken, cleared>>

\* 200, or a 409 that counts as one: the mirror goes, the page confirms.  The
\* server takes no more saves.
Submitted ==
    /\ Drained /\ fin = "answered"
    /\ view' = "confirmed"
    /\ mirror' = Nothing /\ cleared' = TRUE
    /\ Quiet
    /\ UNCHANGED <<attempt, row, gates, cache, seed, online, indicator, strays, bounds, work,
                   since, overtaken>>

-----------------------------------------------------------------------------
(* In the background.                                                        *)

\* The next save of a chain reads the content when its turn has come: an essay
\* that of its shell, a quiz what is in the cache by then.
Ready(q) ==
    IF q # <<>> /\ ~Writing /\ Head(q).do \in {"save", "flush"}
    THEN [q EXCEPT ![1].body = Draft] ELSE q
Rest(q) == (strays \ {q}) \cup ({Ready(Tail(q))} \ {<<>>})
Heard(q) ==
    since' = IF AcceptsSave /\ Len(q) > 1 /\ q[2].do = "flush"
             THEN since \cup {Ready(Tail(q))[1].body} ELSE since

\* The finalizer posts the submit while later saves of its chain go on.
StraySaved(q) ==
    /\ q \in strays /\ Head(q).do \in {"save", "flush"}
    /\ Apply(Head(q).body)
    /\ strays' = Rest(q) \cup (IF Head(q).do = "flush" THEN {<<Task("submit")>>} ELSE {})
    /\ Heard(q)
    /\ UNCHANGED <<attempt, sealed, gates, copies, view, online, readOnly, foreign, commitDue,
                   autosave, saves, fin, fired, bounds, work, cleared>>

StraySubmitted(q) ==
    /\ q \in strays /\ Head(q).do \in {"submit", "post"}
    /\ strays' = Rest(q)
    /\ sealed' = IF AcceptsSubmit THEN "own" ELSE sealed
    /\ mirror' = IF Head(q).do = "submit" THEN Nothing ELSE mirror
    /\ cleared' = (cleared \/ Head(q).do = "submit")
    /\ UNCHANGED <<attempt, stored, gates, cache, shot, seed, live, view, online, readOnly,
                   foreign, commitDue, autosave, saves, fin, fired, bounds, work, since,
                   overtaken>>

\* One is lost: the finalizer goes no further, later saves do.
StrayLost(q) ==
    /\ q \in strays /\ Breaks
    /\ strays' = Rest(q)
    /\ Heard(q)
    /\ UNCHANGED <<attempt, row, gates, copies, view, online, readOnly, foreign, commitDue,
                   autosave, saves, fin, fired, edits, work, overtaken, cleared>>

-----------------------------------------------------------------------------
(* Around the page.                                                          *)

\* useOnlineStatus.  An essay says so, and pushes its text on the way back.
GoOffline ==
    /\ Drained /\ online /\ Trouble
    /\ online' = FALSE
    /\ indicator' = IF Writing /\ view = "shell" /\ ~EditorReadOnly THEN "offline" ELSE indicator
    /\ UNCHANGED <<attempt, row, gates, copies, view, readOnly, foreign, commitDue, dirty,
                   armed, saves, fin, fired, strays, edits, work, since,
                   overtaken, cleared>>

GoOnline ==
    /\ Drained /\ ~online
    /\ online' = TRUE
    /\ IF Writing /\ view = "shell" /\ ~EditorReadOnly
       THEN armed' = FALSE /\ chain' = Append(chain, "auto")
       ELSE UNCHANGED <<armed, chain>>
    /\ UNCHANGED <<attempt, row, gates, copies, view, readOnly, foreign, commitDue, dirty,
                   indicator, wire, fin, fired, strays, bounds, work, since, overtaken,
                   cleared>>

\* The hard deadline passes, or a teacher closes the assignment; once the attempt
\* is submitted it makes no difference.
Lock ==
    /\ AcceptsSubmit
    /\ locked' = TRUE
    /\ since' = {} /\ overtaken' = FALSE
    /\ UNCHANGED <<attempt, row, clock, copies, view, online, readOnly, foreign, commitDue,
                   autosave, saves, fin, fired, strays, bounds, work, cleared>>

\* useAttemptReadOnly ticks past the deadline (it does not see an assignment that
\* was closed): the surface of an essay locks, with a last flush.
DeadlineSeen ==
    /\ Drained /\ Writing /\ view = "shell" /\ locked /\ ~readOnly
    /\ readOnly' = TRUE
    /\ IF indicator \in Pending \/ live # shot
       THEN armed' = FALSE /\ chain' = Append(chain, "auto")
       ELSE UNCHANGED <<armed, chain>>
    /\ UNCHANGED <<attempt, row, gates, copies, view, online, foreign, commitDue, dirty,
                   indicator, wire, fin, fired, strays, bounds, work, since, overtaken,
                   cleared>>

TimePasses ==
    /\ timed /\ clock # "over"
    /\ clock' = IF clock = "running" THEN "zero" ELSE "over"
    /\ IF clock = "zero" THEN since' = {} /\ overtaken' = FALSE
       ELSE UNCHANGED <<since, overtaken>>
    /\ UNCHANGED <<attempt, row, locked, copies, view, online, readOnly, foreign, commitDue,
                   autosave, saves, fin, fired, strays, bounds, work, cleared>>

\* Another tab submits, and says so on the channel of an essay.
ForeignSubmit ==
    /\ AcceptsSubmit
    /\ sealed' = "foreign"
    /\ since' = {} /\ overtaken' = FALSE
    /\ UNCHANGED <<attempt, stored, gates, copies, view, online, readOnly, foreign, commitDue,
                   autosave, saves, fin, fired, strays, bounds, work, cleared>>

ForeignHeard ==
    /\ Drained /\ Writing /\ view = "shell" /\ sealed = "foreign" /\ ~foreign
    /\ foreign' = TRUE
    /\ UNCHANGED <<attempt, row, gates, copies, view, online, readOnly, commitDue, autosave,
                   saves, fin, fired, strays, bounds, work, since, overtaken, cleared>>

-----------------------------------------------------------------------------
Init ==
    /\ \E a \in Attempts : kind = a[1] /\ timed = a[2]
    /\ stored = Empty /\ sealed = "no" /\ locked = FALSE /\ clock = "running"
    /\ mirror = Nothing /\ cache = Nothing /\ shot = Empty /\ seed = Nothing /\ live = Empty
    /\ view = "away" /\ online = TRUE
    /\ readOnly = FALSE /\ foreign = FALSE /\ commitDue = FALSE
    /\ dirty = FALSE /\ armed = FALSE /\ indicator = "idle"
    /\ chain = <<>> /\ wire = Nothing
    /\ fin = "none" /\ fired = FALSE
    /\ strays = {}
    /\ edits = 0 /\ troubles = 0
    /\ committed = Empty /\ fate = [f \in Fields |-> "kept"]
    /\ since = {} /\ overtaken = FALSE /\ cleared = FALSE

Saved == ServeSave \/ SaveBreaks

Next ==
    \/ Load \/ Remount \/ BootstrapRefused \/ BootstrapFails \/ Leave \/ Reload \/ Collect
    \/ Commit \/ \E f \in Fields : Type(f) \/ Answer(f)
    \/ TimerFires \/ Issue \/ Saved \/ SaveSettles
    \/ Confirm \/ Expire \/ ExpireTwice \/ ServeSubmit \/ SubmitBreaks \/ Submitted
    \/ \E q \in strays : StraySaved(q) \/ StraySubmitted(q) \/ StrayLost(q)
    \/ GoOffline \/ GoOnline
    \/ Lock \/ DeadlineSeen \/ TimePasses \/ ForeignSubmit \/ ForeignHeard

Spec == Init /\ [][Next]_vars

\* Timers fire, promises run on and requests are answered or fail.
Fairness ==
    /\ WF_vars(TimerFires) /\ WF_vars(Issue)
    /\ WF_vars(Saved) /\ WF_vars(SaveSettles)

FairSpec == Spec /\ Fairness

-----------------------------------------------------------------------------
(* Properties.                                                               *)

\* A request is the head of the chain, and without a shell there is neither.
TypeOK ==
    /\ <<kind, timed>> \in Attempts
    /\ stored \in Content /\ sealed \in {"no", "own", "foreign"}
    /\ locked \in BOOLEAN /\ clock \in {"running", "zero", "over"}
    /\ mirror \in Content \cup {Nothing} /\ cache \in Content \cup {Nothing}
    /\ shot \in Content /\ seed \in Content \cup {Nothing} /\ live \in Content
    /\ view \in {"away", "shell", "error", "confirmed"}
    /\ online \in BOOLEAN /\ readOnly \in BOOLEAN /\ foreign \in BOOLEAN /\ fired \in BOOLEAN
    /\ commitDue \in BOOLEAN /\ dirty \in BOOLEAN /\ armed \in BOOLEAN
    /\ indicator \in Pending \cup {"idle", "saved"}
    /\ chain \in Seq({"auto", "final"}) /\ wire \in Request \cup {Nothing}
    /\ fin \in {"none", "flushing", "posted", "answered"}
    /\ strays \subseteq Seq(Errand)
    /\ edits \in 0 .. MaxEdits[timed] /\ troubles \in 0 .. MaxTroubles
    /\ committed \in Content /\ fate \in [Fields -> {"kept", "hidden", "lost"}]
    /\ since \in SUBSET Content
    /\ overtaken \in BOOLEAN /\ cleared \in BOOLEAN
    /\ wire # Nothing => chain # <<>>
    /\ view # "shell" => chain = <<>> /\ fin = "none" /\ ~dirty /\ ~commitDue
    /\ view = "shell" => seed # Nothing /\ (cache # Nothing => shot = cache)

\* "Never a silent lossy submit": when the student's own submit has sealed the
\* row, it holds what the final flush read or something sent after that, unless
\* the time was over, or a save from before overtook it in the background.
NoLossySubmit ==
    sealed = "own" => stored \in since \/ overtaken \/ clock = "over"

\* While the student can write, "saved" is shown for what is on screen, whatever
\* was typed while the save was on its way and whichever saves came in between;
\* or for the empty draft that stands for a collected one.
AckedIsShown ==
    [][indicator' = "saved" /\ indicator # "saved" /\ online /\ ~EditorReadOnly
          => \/ wire.body = Screen' \/ commitDue'
             \/ cache' = Nothing /\ wire.body = Empty]_vars

\* A copy has the paragraph as it was committed or typed since, or an answer to
\* the question if there was one.
Holds(copy, f) ==
    IF Writing THEN copy[f] >= committed[f] ELSE committed[f] # 0 => copy[f] # 0

\* "It survives remount": a reload, a crash, a page left and entered again, a
\* collected slot take nothing committed from the mirror, the draft and the page,
\* but for two things.  A shell that mounts in the place of an error hides what
\* the essay committed since the page was entered, or all of a quiz whose slot
\* was collected; and what is hidden, or collected, when the next edit is made
\* is overwritten.
CommittedSurvives ==
    view = "shell" /\ ~cleared =>
        \A f \in Fields :
            /\ fate[f] # "lost" =>
                   Holds(mirror, f) /\ (cache # Nothing => Holds(cache, f))
            /\ fate[f] = "kept" => Holds(Screen, f)

\* An edit does not stay in the page: it is saved, or the student is told.
DirtyIsSent ==
    dirty ~> ~dirty \/ indicator = "error" \/ EditorReadOnly \/ ~online
=============================================================================
