--------------------------- MODULE SpeakingAttempt --------------------------
(* A spoken attempt in one browser tab (features/speaking-attempt): the      *)
(* microphone, the takes it records, the uploads that turn a take into a key *)
(* minted by the server, and the submit that must carry the key of the take  *)
(* the student confirmed.  Saves and the finalizer are those of AttemptDraft *)
(* (features/attempts), over a draft that only a finished upload changes.    *)
(*                                                                           *)
(* Takes are numbered as they are recorded; a content is the number of the   *)
(* take whose key it holds, 0 for none.                                      *)
EXTENDS Naturals, Sequences

CONSTANTS
    Nothing,    \* an unseeded cache slot, no mirror, no request
    Clocks,     \* of an attempt without a time budget "none", else "running"
    MaxTakes,
    MaxTroubles \* requests that fail, the network or the microphone going
                \* away, the student leaving or reloading the page

Content == 0 .. MaxTakes
Request == [body : Content, at : {"sent", "ok", "net", "refused"}]
Upload == [take : 1 .. MaxTakes, by : {"background", "submit"}]
Errand == [do : {"save", "flush", "submit", "post"}, body : Content]

ASSUME SpeakingAssumption ==
    /\ Clocks \subseteq {"none", "running"}
    /\ Nothing \notin Nat /\ Nothing \notin Request
    /\ MaxTakes \in Nat \ {0} /\ MaxTroubles \in Nat

VARIABLES
    stored,     \* the content of the submission
    sealed,     \* "no", or who submitted it: "own", "foreign"
    locked,     \* the assignment is closed, or past its hard deadline
    clock,      \* "none", "running", "zero", "over" with the grace
    mirror, cache,  \* the draft: in localStorage, in the query cache
    shot,       \* the last draft its hook has seen there (snapshotRef)
    seeded,     \* this page has reconciled the draft (seededFor)
    view,       \* what the page renders
    online,
    readOnly,   \* the read-only override, or the deadline has ticked over
    foreign,    \* a sibling tab said it submitted
    status,     \* what the recorder shows
    rec,        \* the MediaRecorder: "stopping" until its stop event
    live,       \* microphone streams that are open
    busy, interrupted,  \* busyRef, interruptedRef
    asked, ghosts,  \* getUserMedia prompts of this shell, of those gone
    take, takes,    \* the take at hand, the takes there have been
    uploaded,   \* the last take whose key was persisted
    uploads,    \* the uploads on their way
    uploading,  \* uploadInFlightRef
    failed,     \* the upload status is 'failed'
    unsaved,    \* the save status is a pending one
    chain, wire,    \* saves not settled, the one in flight
    fin,        \* where the finalizer stands
    fired,      \* the expiry of this shell
    strays,     \* what goes on in the background after its shell is gone
    troubles,
    promised,   \* what the student was shown when the submit was asked for
    committed,  \* the last key the mirror took
    overtaken,  \* a save of a shell that is gone took a newer key back
    blanked,    \* a save since the last final flush found the slot collected
    hidden      \* the shell mounted over a slot that was collected

server    == <<stored, sealed, locked, clock>>
keys      == <<mirror, cache, shot>>
page      == <<view, seeded, online, readOnly, foreign>>
recorder  == <<status, rec, live, busy, interrupted, asked, ghosts, take, takes>>
transfer  == <<uploaded, uploads, uploading, failed>>
autosave  == <<unsaved, chain, wire>>
finalizer == <<fin, fired>>
history   == <<promised, committed, overtaken, blanked, hidden>>
vars == <<stored, sealed, locked, clock, mirror, cache, shot, view, seeded, online, readOnly,
          foreign, status, rec, live, busy, interrupted, asked, ghosts, take, takes, uploaded,
          uploads, uploading, failed, unsaved, chain, wire, fin, fired, strays, troubles,
          promised, committed, overtaken, blanked, hidden>>

EditorReadOnly == readOnly \/ foreign

\* getContent: the slot of the draft has no observer, so the cache drops it in the
\* end; what is read there is then the empty draft.
Draft == IF cache = Nothing THEN 0 ELSE cache

\* heldBlob: a take is at hand whose key is not in the draft.
Held == take # 0 /\ take # uploaded

Idle == fin \in {"none", "retry"}

\* A save that can start has started before anything else happens.
Drained == chain # <<>> => wire # Nothing

Trouble == troubles < MaxTroubles /\ troubles' = troubles + 1
\* A request fails for nothing without the network.
Breaks == IF online THEN Trouble ELSE UNCHANGED troubles

-----------------------------------------------------------------------------
(* The server (SaveProgress, Submit).                                        *)

AcceptsSubmit == sealed = "no" /\ ~locked
AcceptsSave == AcceptsSubmit /\ clock # "over"

\* A body arrives, of the page's chain or of a shell that is gone.
Apply(body, stray) ==
    IF AcceptsSave
    THEN stored' = body /\ overtaken' = (stray /\ (overtaken \/ body < stored))
    ELSE UNCHANGED <<stored, overtaken>>

Seal == sealed' = IF AcceptsSubmit THEN "own" ELSE sealed

-----------------------------------------------------------------------------
(* The page.                                                                 *)

\* The asymmetric merge: a key of this device wins over another one, an empty
\* mirror never blanks a key of the server.
MergeLocal(local, server_) ==  \* mutant: the local draft always wins
    IF local = Nothing THEN server_ ELSE local
Merge(local, server_) ==
    IF local \in {Nothing, 0} THEN server_ ELSE local

\* What is left to do in the background: to save a body, or to save it for the
\* finalizer and submit ("flush"), to submit and handle the answer, or, when the
\* document is gone, just a submit on its way ("post").
Put(what, body) == [do |-> what, body |-> body]
Purpose(save) == IF save = "final" THEN "flush" ELSE "save"
Waiting == IF wire = Nothing THEN chain ELSE Tail(chain)
Background ==
    (IF wire # Nothing /\ wire.at = "sent" THEN <<Put(Purpose(Head(chain)), wire.body)>>
     ELSE <<>>)
    \o [i \in DOMAIN Waiting |-> Put(Purpose(Waiting[i]), Draft)]
Flushed == wire # Nothing /\ Head(chain) = "final" /\ wire.at \in {"ok", "refused"}
Posting == IF fin = "posted" \/ Flushed THEN <<Put("submit", 0)>> ELSE <<>>

\* A save that is sent now carries the empty draft of a collected slot.
Blank == AcceptsSave /\ cache = Nothing

\* A finalizer whose shell is gone is at work.
SubmittingBehind == \E q \in strays : \E i \in DOMAIN q : q[i].do # "save"

\* The leaf unmounts: it closes its stream and drops the take; a prompt that is
\* still open stays open.
Dismantle ==
    /\ live' = IF rec = "none" THEN live ELSE live - 1
    /\ ghosts' = ghosts + asked /\ asked' = 0
    /\ status' = "idle" /\ rec' = "none" /\ busy' = FALSE /\ interrupted' = FALSE
    /\ take' = 0
    /\ UNCHANGED takes

\* The shell goes with its refs; its upload is aborted, and a submit that waited
\* for it goes no further.
Quiet ==
    /\ Dismantle
    /\ uploaded' = 0 /\ uploads' = {} /\ uploading' = FALSE /\ failed' = FALSE
    /\ chain' = <<>> /\ wire' = Nothing /\ fin' = "none" /\ fired' = FALSE
    /\ shot' = 0 /\ readOnly' = FALSE /\ foreign' = FALSE /\ hidden' = FALSE

\* The first save that waits behind an answer is sent at once.
Unmount ==
    /\ strays' = strays \cup ({Background, Posting} \ {<<>>})
    /\ blanked' = (blanked \/ (wire # Nothing /\ wire.at # "sent" /\ Waiting # <<>> /\ Blank))
    /\ Quiet

\* The bootstrap answers, and the page reconciles its draft once.
Load ==
    /\ view \in {"away", "error"} /\ ~seeded /\ online /\ AcceptsSubmit
    /\ view' = "shell" /\ seeded' = TRUE
    /\ cache' = IF cache # Nothing THEN cache ELSE Merge(mirror, stored)
    /\ mirror' = cache' /\ shot' = cache'
    /\ unsaved' = FALSE
    /\ UNCHANGED <<server, online, readOnly, foreign, recorder, transfer, chain, wire,
                   finalizer, strays, troubles, history>>

\* It answers again after an error: the shell mounts with what the slot holds, and
\* the mirror is written through only if that is something.
Remount ==
    /\ view = "error" /\ seeded /\ online /\ AcceptsSubmit
    /\ view' = "shell"
    /\ shot' = Draft
    /\ mirror' = IF cache = Nothing THEN mirror ELSE cache
    /\ hidden' = (cache = Nothing)
    /\ UNCHANGED <<server, cache, seeded, online, readOnly, foreign, recorder, transfer,
                   autosave, finalizer, strays, troubles, promised, committed, overtaken,
                   blanked>>

\* The bootstrap is asked again on focus, on reconnect and by Retry: it is refused,
\* or fails, and the page renders something else.
Swap(to) ==
    /\ view' = to /\ seeded' = (seeded /\ to = "error")
    /\ IF view = "shell" THEN Unmount
       ELSE UNCHANGED <<recorder, transfer, chain, wire, finalizer, strays, shot, readOnly,
                      foreign, blanked, hidden>>
    /\ UNCHANGED <<server, mirror, cache, online, unsaved, promised, committed, overtaken>>

BootstrapRefused ==
    /\ Drained /\ online /\ view \in {"away", "error", "shell"} /\ ~AcceptsSubmit
    /\ Swap(IF locked THEN "error" ELSE "confirmed")
    /\ UNCHANGED troubles

BootstrapFails ==
    /\ Drained /\ online /\ view \in {"away", "shell"} /\ Trouble
    /\ Swap("error")

\* The student navigates inside the app, over the warning when a take is held.
Leave ==
    /\ Drained /\ view \in {"error", "shell", "confirmed"} /\ Trouble
    /\ Swap("away")

\* The document is reloaded, or crashes: only requests on their way are left.
InFlight(q) == <<[Head(q) EXCEPT !.do = CASE @ = "submit" -> "post"
                                          [] @ = "flush" -> "save"
                                          [] OTHER -> @]>>
Reload ==
    /\ Drained /\ view # "away" /\ Trouble
    /\ view' = "away" /\ seeded' = FALSE /\ cache' = Nothing /\ unsaved' = FALSE
    /\ strays' = {InFlight(q) : q \in strays}
                 \cup (IF wire # Nothing /\ wire.at = "sent" THEN {<<Put("save", wire.body)>>}
                       ELSE {})
                 \cup (IF fin = "posted" THEN {<<Put("post", 0)>>} ELSE {})
    /\ live' = 0 /\ ghosts' = 0 /\ asked' = 0
    /\ status' = "idle" /\ rec' = "none" /\ busy' = FALSE /\ interrupted' = FALSE /\ take' = 0
    /\ uploaded' = 0 /\ uploads' = {} /\ uploading' = FALSE /\ failed' = FALSE
    /\ chain' = <<>> /\ wire' = Nothing /\ fin' = "none" /\ fired' = FALSE
    /\ shot' = 0 /\ readOnly' = FALSE /\ foreign' = FALSE /\ hidden' = FALSE
    /\ UNCHANGED <<server, mirror, online, takes, promised, committed, overtaken, blanked>>

\* The query cache collects the slot five minutes after it was written first: it
\* was set and is never observed, so neither an upload nor an open page keeps it.
Collect ==
    /\ Drained /\ cache # Nothing
    /\ cache' = Nothing
    /\ UNCHANGED <<server, mirror, shot, page, recorder, transfer, autosave, finalizer, strays,
                   troubles, history>>

-----------------------------------------------------------------------------
(* The recorder (useMediaRecorder, SpeakingRecorderLeaf).                    *)

\* start(): a second tap finds busyRef set.
MayStartAlways == TRUE  \* mutant: no re-entrancy guard
MayStart == ~busy

Start ==
    /\ Drained /\ view = "shell" /\ ~EditorReadOnly /\ takes < MaxTakes
    /\ status \in {"idle", "refused", "requesting"} /\ MayStart
    /\ status' = "requesting" /\ busy' = TRUE /\ interrupted' = FALSE
    /\ asked' = asked + 1
    /\ take' = 0
    /\ UNCHANGED <<server, keys, page, rec, live, ghosts, takes, transfer, autosave,
                   finalizer, strays, troubles, history>>

\* The prompt is granted.  A leaf that was disabled meanwhile stops at once.
Granted ==
    /\ Drained /\ asked > 0
    /\ asked' = asked - 1
    /\ live' = live + 1
    /\ status' = "recording" /\ rec' = IF EditorReadOnly THEN "stopping" ELSE "recording"
    /\ UNCHANGED <<server, keys, page, busy, interrupted, ghosts, take, takes, transfer,
                   autosave, finalizer, strays, troubles, history>>

\* It is denied, there is no device, or no recorder for it.
Denied ==
    /\ Drained /\ asked > 0
    /\ asked' = asked - 1
    /\ busy' = FALSE /\ status' = "refused"
    /\ UNCHANGED <<server, keys, page, rec, live, interrupted, ghosts, take, takes, transfer,
                   autosave, finalizer, strays, troubles, history>>

\* The stream of a prompt that outlived its shell is closed as it opens.
KeptAnyway == 1  \* mutant: no mountedRef
Kept == 0

GhostGranted ==
    /\ Drained /\ ghosts > 0
    /\ ghosts' = ghosts - 1
    /\ live' = live + Kept
    /\ UNCHANGED <<server, keys, page, status, rec, busy, interrupted, asked, take, takes,
                   transfer, autosave, finalizer, strays, troubles, history>>

\* By the student, or at the maximum duration.
Stop ==
    /\ Drained /\ rec = "recording"
    /\ rec' = "stopping"
    /\ UNCHANGED <<server, keys, page, status, live, busy, interrupted, asked, ghosts, take,
                   takes, transfer, autosave, finalizer, strays, troubles, history>>

\* The leaf stops a recording when the page is locked.
Silenced == IF rec = "recording" THEN "stopping" ELSE rec

\* An incoming call, another app: the track ends, or the recorder fails.
Seized ==
    /\ Drained /\ rec # "none" /\ ~interrupted /\ Trouble
    /\ interrupted' = TRUE /\ rec' = "stopping"
    /\ UNCHANGED <<server, keys, page, status, live, busy, asked, ghosts, take, takes,
                   transfer, autosave, finalizer, strays, history>>

\* onstop: the stream is closed; what was interrupted, or empty, is no take.
Dropped ==
    /\ Drained /\ rec = "stopping"
    /\ status' = "interrupted"
    /\ rec' = "none" /\ live' = live - 1 /\ busy' = FALSE
    /\ UNCHANGED <<server, keys, page, interrupted, asked, ghosts, take, takes, transfer,
                   autosave, finalizer, strays, troubles, history>>

Settled ==
    /\ Drained /\ rec = "stopping" /\ ~interrupted
    /\ take' = takes + 1 /\ takes' = takes + 1
    /\ status' = "recorded"
    /\ rec' = "none" /\ live' = live - 1 /\ busy' = FALSE
    /\ UNCHANGED <<server, keys, page, interrupted, asked, ghosts, transfer, autosave,
                   finalizer, strays, troubles, history>>

ReRecord ==
    /\ Drained /\ status \in {"recorded", "interrupted"} /\ ~EditorReadOnly
    /\ take' = 0 /\ status' = "idle" /\ busy' = FALSE
    /\ UNCHANGED <<server, keys, page, rec, live, interrupted, asked, ghosts, takes, transfer,
                   autosave, finalizer, strays, troubles, history>>

-----------------------------------------------------------------------------
(* Uploads (useSpeakingUpload, uploadSpeakingAudio): presign, PUT and        *)
(* confirm, with retries, are one upload that ends well or badly.            *)

\* upload() aborts the one before.
SurvivorsAll == uploads  \* mutant: no abort
Survivors == {}
Aborted == uploads \ Survivors

\* The caller of the aborted upload runs its `finally` behind the start of the new
\* one; an upload that was in the first or last leg of its last attempt "fails".
StartUpload(by) ==
    /\ uploads' = Survivors \cup {[take |-> take, by |-> by]}
    /\ uploading' = (Aborted = {})
    /\ failed' \in {FALSE, Aborted # {}}
    /\ UNCHANGED uploaded

\* A submit whose upload fails or is aborted opens the retry dialog.
StaysOpen(gone) == fin  \* mutant: submitInFlightRef is not reset
Reopened(gone) == IF \E u \in gone : u.by = "submit" THEN "retry" ELSE fin

\* persistUploadedKey, for whatever take it was.
Persist(n) ==
    /\ cache' = n /\ shot' = n /\ uploaded' = n /\ hidden' = FALSE
    /\ IF EditorReadOnly THEN UNCHANGED <<mirror, committed>> ELSE mirror' = n /\ committed' = n

UploadDone(u) ==
    /\ Drained /\ u \in uploads /\ online
    /\ Persist(u.take)
    /\ uploads' = uploads \ {u} /\ uploading' = FALSE /\ failed' = FALSE
    /\ IF u.by = "submit"
       THEN chain' = Append(chain, "final") /\ fin' = "flushing"
       ELSE chain' = Append(chain, "auto") /\ UNCHANGED fin
    /\ UNCHANGED <<server, page, recorder, unsaved, wire, fired, strays, troubles, promised,
                   overtaken, blanked>>

UploadFails(u) ==
    /\ Drained /\ u \in uploads /\ Breaks
    /\ uploads' = uploads \ {u} /\ uploading' = FALSE /\ failed' = TRUE
    /\ fin' = Reopened({u})
    /\ UNCHANGED <<server, keys, page, recorder, uploaded, autosave, fired, strays, history>>

RetryUpload ==
    /\ Drained /\ view = "shell" /\ failed /\ Held /\ ~EditorReadOnly /\ ~uploading
    /\ StartUpload("background")
    /\ fin' = Reopened(Aborted)
    /\ UNCHANGED <<server, keys, page, recorder, autosave, fired, strays, troubles, history>>

-----------------------------------------------------------------------------
(* Saves (useAttemptAutosave): only flushes, for nothing is ever scheduled.  *)

Issue ==
    /\ ~Drained
    /\ wire' = [body |-> Draft, at |-> "sent"]
    /\ unsaved' = TRUE
    /\ blanked' = IF Head(chain) = "final" /\ AcceptsSave /\ ~SubmittingBehind
                  THEN Blank ELSE blanked \/ Blank
    /\ UNCHANGED <<server, keys, page, recorder, transfer, chain, finalizer, strays, troubles,
                   promised, committed, overtaken, hidden>>

ServeSave ==
    /\ wire # Nothing /\ wire.at = "sent"
    /\ Apply(wire.body, FALSE)
    /\ wire' = [wire EXCEPT !.at = IF AcceptsSave THEN "ok" ELSE "refused"]
    /\ UNCHANGED <<sealed, locked, clock, keys, page, recorder, transfer, unsaved, chain,
                   finalizer, strays, troubles, promised, committed, blanked, hidden>>

\* The request or its answer is lost.
SaveBreaks ==
    /\ wire # Nothing /\ wire.at = "sent" /\ Breaks
    /\ Apply(wire.body, FALSE) \/ UNCHANGED <<stored, overtaken>>
    /\ wire' = [wire EXCEPT !.at = "net"]
    /\ UNCHANGED <<sealed, locked, clock, keys, page, recorder, transfer, unsaved, chain,
                   finalizer, strays, promised, committed, blanked, hidden>>

\* A page that locks sends a key that is not saved once more, unless a take is held.
Boundary(pending) == ~readOnly /\ ~Held /\ Draft # 0 /\ pending

\* The end of runSave: the newest save speaks for the page, a terminal 409 locks
\* it.  The finalizer posts after an acknowledged flush, or one refused for good.
SaveSettles ==
    /\ wire # Nothing /\ wire.at # "sent"
    /\ LET newest == Len(chain) = 1
           locks == newest /\ wire.at = "refused"
       IN  /\ unsaved' = IF newest THEN wire.at # "ok" ELSE unsaved
           /\ readOnly' = (readOnly \/ locks)
           /\ rec' = IF locks THEN Silenced ELSE rec
           /\ chain' = IF locks /\ Boundary(TRUE) THEN Append(Tail(chain), "auto")
                       ELSE Tail(chain)
    /\ fin' = IF Head(chain) # "final" THEN fin
              ELSE IF wire.at = "net" THEN "retry" ELSE "posted"
    /\ wire' = Nothing
    /\ UNCHANGED <<server, keys, view, seeded, online, foreign, status, live, busy,
                   interrupted, asked, ghosts, take, takes, transfer, fired, strays, troubles,
                   history>>

-----------------------------------------------------------------------------
(* runFinalize: by the student, who may have opened the dialog before the    *)
(* page was locked, or by the timer.                                         *)

\* What the dialog shows: the take at hand, else the draft the page shows.
Shown == IF take # 0 THEN take ELSE shot
Promise(what) ==
    promised' = IF sealed = "no" /\ ~SubmittingBehind THEN what ELSE promised

\* ensureLatestTakeUploaded, then finalizeAttempt.
Finalize ==
    /\ IF Held
       THEN fin' = "uploading" /\ StartUpload("submit") /\ UNCHANGED chain
       ELSE fin' = "flushing" /\ chain' = Append(chain, "final") /\ UNCHANGED transfer
    /\ Promise(Shown)

Confirm ==
    /\ Drained /\ view = "shell" /\ Idle
    /\ Finalize
    /\ UNCHANGED <<server, keys, page, recorder, unsaved, wire, fired, strays, troubles,
                   committed, overtaken, blanked, hidden>>

\* While a submit is on its way the expiry has nothing to do.
Expire ==
    /\ Drained /\ view = "shell" /\ clock \in {"zero", "over"} /\ ~fired /\ ~EditorReadOnly
    /\ fired' = TRUE
    /\ IF Idle THEN Finalize ELSE UNCHANGED <<fin, chain, transfer, promised>>
    /\ UNCHANGED <<server, keys, page, recorder, unsaved, wire, strays, troubles, committed,
                   overtaken, blanked, hidden>>

\* The escape from an upload that keeps failing: whatever key the draft holds.
SubmitWithoutAudio ==
    /\ Drained /\ view = "shell" /\ fin = "retry" /\ Held
    /\ fin' = "flushing" /\ chain' = Append(chain, "final")
    /\ Promise(Draft)
    /\ UNCHANGED <<server, keys, page, recorder, transfer, unsaved, wire, fired, strays,
                   troubles, committed, overtaken, blanked, hidden>>

ServeSubmit ==
    /\ fin = "posted"
    /\ Seal
    /\ fin' = "answered"
    /\ UNCHANGED <<stored, locked, clock, keys, page, recorder, transfer, autosave, fired,
                   strays, troubles, history>>

\* The latch opens again, the dialog offers a retry.
SubmitBreaks ==
    /\ fin = "posted" /\ Breaks
    /\ Seal \/ UNCHANGED sealed
    /\ fin' = "retry"
    /\ UNCHANGED <<stored, locked, clock, keys, page, recorder, transfer, autosave, fired,
                   strays, history>>

\* 200, or a 409 that counts as one: the mirror goes, the page confirms.  The
\* server takes no more saves.
Submitted ==
    /\ Drained /\ fin = "answered"
    /\ view' = "confirmed" /\ seeded' = FALSE /\ mirror' = Nothing
    /\ Quiet
    /\ UNCHANGED <<server, cache, online, unsaved, strays, troubles, promised, committed,
                   overtaken, blanked>>

-----------------------------------------------------------------------------
(* In the background.                                                        *)

\* The next save of a chain reads the draft when its turn has come.
Saves(q) == q # <<>> /\ Head(q).do \in {"save", "flush"}
Ready(q) == IF Saves(q) THEN [q EXCEPT ![1].body = Draft] ELSE q
Rest(q) == (strays \ {q}) \cup ({Ready(Tail(q))} \ {<<>>})
Heard(q) == blanked' = (blanked \/ (Saves(Tail(q)) /\ Blank))

StraySaved(q) ==
    /\ q \in strays /\ Saves(q)
    /\ Apply(Head(q).body, TRUE)
    /\ strays' = Rest(q) \cup (IF Head(q).do = "flush" THEN {<<Put("submit", 0)>>} ELSE {})
    /\ Heard(q)
    /\ UNCHANGED <<sealed, locked, clock, keys, page, recorder, transfer, autosave, finalizer,
                   troubles, promised, committed, hidden>>

StraySubmitted(q) ==
    /\ q \in strays /\ Head(q).do \in {"submit", "post"}
    /\ Seal
    /\ strays' = Rest(q)
    /\ mirror' = IF Head(q).do = "submit" THEN Nothing ELSE mirror
    /\ UNCHANGED <<stored, locked, clock, cache, shot, page, recorder, transfer, autosave,
                   finalizer, troubles, history>>

StrayLost(q) ==
    /\ q \in strays /\ Breaks
    /\ strays' = Rest(q)
    /\ Heard(q)
    /\ UNCHANGED <<server, keys, page, recorder, transfer, autosave, finalizer, promised,
                   committed, overtaken, hidden>>

-----------------------------------------------------------------------------
(* Around the page.                                                          *)

GoOffline ==
    /\ Drained /\ online /\ Trouble
    /\ online' = FALSE
    /\ unsaved' = (unsaved \/ (view = "shell" /\ ~EditorReadOnly))
    /\ UNCHANGED <<server, keys, view, seeded, readOnly, foreign, recorder, transfer, chain,
                   wire, finalizer, strays, history>>

\* Back again: a take that is held is uploaded, else a key not saved is sent.
Reconnects == view = "shell" /\ ~EditorReadOnly
GoOnline ==
    /\ Drained /\ ~online
    /\ online' = TRUE
    /\ IF Reconnects /\ Held /\ ~uploading
       THEN StartUpload("background") /\ fin' = Reopened(Aborted)
       ELSE UNCHANGED <<transfer, fin>>
    /\ chain' = IF Reconnects /\ ~Held /\ Draft # 0 /\ unsaved THEN Append(chain, "auto")
                ELSE chain
    /\ UNCHANGED <<server, keys, view, seeded, readOnly, foreign, recorder, unsaved, wire,
                   fired, strays, troubles, history>>

\* The hard deadline passes, or a teacher closes the assignment; once the attempt
\* is submitted it makes no difference.
Lock ==
    /\ AcceptsSubmit
    /\ locked' = TRUE
    /\ UNCHANGED <<stored, sealed, clock, keys, page, recorder, transfer, autosave, finalizer,
                   strays, troubles, history>>

\* useAttemptReadOnly ticks past the deadline: an upload on its way goes on.
DeadlineSeen ==
    /\ Drained /\ view = "shell" /\ locked /\ ~readOnly
    /\ readOnly' = TRUE
    /\ rec' = Silenced
    /\ chain' = IF Boundary(unsaved) THEN Append(chain, "auto") ELSE chain
    /\ UNCHANGED <<server, keys, view, seeded, online, foreign, status, live, busy,
                   interrupted, asked, ghosts, take, takes, transfer, unsaved, wire,
                   finalizer, strays, troubles, history>>

TimePasses ==
    /\ clock \in {"running", "zero"}
    /\ clock' = IF clock = "running" THEN "zero" ELSE "over"
    /\ UNCHANGED <<stored, sealed, locked, keys, page, recorder, transfer, autosave, finalizer,
                   strays, troubles, history>>

\* Another tab submits, and says so.
ForeignSubmit ==
    /\ AcceptsSubmit
    /\ sealed' = "foreign"
    /\ UNCHANGED <<stored, locked, clock, keys, page, recorder, transfer, autosave, finalizer,
                   strays, troubles, history>>

ForeignHeard ==
    /\ Drained /\ view = "shell" /\ sealed = "foreign" /\ ~foreign
    /\ foreign' = TRUE
    /\ rec' = Silenced
    /\ UNCHANGED <<server, keys, view, seeded, online, readOnly, status, live, busy,
                   interrupted, asked, ghosts, take, takes, transfer, autosave, finalizer,
                   strays, troubles, history>>

-----------------------------------------------------------------------------
\* The attempt is new, or was begun on another device, which recorded take 1.
Init ==
    /\ stored \in {0, 1} /\ sealed = "no" /\ locked = FALSE /\ clock \in Clocks
    /\ mirror \in {Nothing, 0} /\ cache = Nothing /\ shot = 0
    /\ view = "away" /\ seeded = FALSE /\ online = TRUE /\ readOnly = FALSE /\ foreign = FALSE
    /\ status = "idle" /\ rec = "none" /\ live = 0 /\ busy = FALSE /\ interrupted = FALSE
    /\ asked = 0 /\ ghosts = 0 /\ take = 0 /\ takes = stored
    /\ uploaded = 0 /\ uploads = {} /\ uploading = FALSE /\ failed = FALSE
    /\ unsaved = FALSE /\ chain = <<>> /\ wire = Nothing
    /\ fin = "none" /\ fired = FALSE
    /\ strays = {} /\ troubles = 0
    /\ promised = 0 /\ committed = stored
    /\ overtaken = FALSE /\ blanked = FALSE /\ hidden = FALSE

Uploaded == \E u \in uploads : UploadDone(u) \/ UploadFails(u)
Saved == ServeSave \/ SaveBreaks
Answered == ServeSubmit \/ SubmitBreaks

Next ==
    \/ Load \/ Remount \/ BootstrapRefused \/ BootstrapFails \/ Leave \/ Reload \/ Collect
    \/ Start \/ Granted \/ Denied \/ GhostGranted \/ Stop \/ Seized \/ Dropped \/ Settled
    \/ ReRecord
    \/ Uploaded \/ RetryUpload
    \/ Issue \/ Saved \/ SaveSettles
    \/ Confirm \/ Expire \/ SubmitWithoutAudio \/ Answered \/ Submitted
    \/ \E q \in strays : StraySaved(q) \/ StraySubmitted(q) \/ StrayLost(q)
    \/ GoOffline \/ GoOnline
    \/ Lock \/ DeadlineSeen \/ TimePasses \/ ForeignSubmit \/ ForeignHeard

Spec == Init /\ [][Next]_vars

\* Promises run on, requests are answered or fail, uploads time out.
Fairness ==
    /\ WF_vars(Uploaded) /\ WF_vars(Issue) /\ WF_vars(Saved) /\ WF_vars(SaveSettles)
    /\ WF_vars(Answered) /\ WF_vars(Submitted)

FairSpec == Spec /\ Fairness

-----------------------------------------------------------------------------
(* Properties.                                                               *)

\* A shell that is gone has no take, upload, save or finalizer left; the one
\* there is shows the draft, if it is still there, and records as long as it is
\* busy.
TypeOK ==
    /\ stored \in Content /\ sealed \in {"no", "own", "foreign"}
    /\ locked \in BOOLEAN /\ clock \in {"none", "running", "zero", "over"}
    /\ mirror \in Content \cup {Nothing} /\ cache \in Content \cup {Nothing}
    /\ shot \in Content
    /\ view \in {"away", "shell", "error", "confirmed"} /\ seeded \in BOOLEAN
    /\ online \in BOOLEAN /\ readOnly \in BOOLEAN /\ foreign \in BOOLEAN
    /\ status \in {"idle", "requesting", "recording", "recorded", "refused", "interrupted"}
    /\ rec \in {"none", "recording", "stopping"}
    /\ live \in Nat /\ busy \in BOOLEAN /\ interrupted \in BOOLEAN
    /\ asked \in Nat /\ ghosts \in Nat /\ take \in Content /\ takes \in Content
    /\ uploaded \in Content /\ uploads \subseteq Upload
    /\ uploading \in BOOLEAN /\ failed \in BOOLEAN /\ unsaved \in BOOLEAN
    /\ chain \in Seq({"auto", "final"}) /\ wire \in Request \cup {Nothing}
    /\ fin \in {"none", "retry", "uploading", "flushing", "posted", "answered"}
    /\ fired \in BOOLEAN
    /\ strays \subseteq Seq(Errand) /\ troubles \in 0 .. MaxTroubles
    /\ promised \in Content /\ committed \in Content
    /\ overtaken \in BOOLEAN /\ blanked \in BOOLEAN /\ hidden \in BOOLEAN
    /\ wire # Nothing => chain # <<>>
    /\ view # "shell" =>
           chain = <<>> /\ fin = "none" /\ uploads = {} /\ take = 0 /\ ~busy /\ asked = 0
    /\ view = "shell" => seeded /\ (cache # Nothing => shot = cache)
    /\ busy <=> asked > 0 \/ rec # "none"

\* "The mic must never stay live": at most one stream is open, and only while the
\* page says that it records, whatever happens to the page during a prompt.
MicIsShown ==
    live <= 1 /\ (live = 1 => view = "shell" /\ status = "recording")

\* What the student's own submit seals holds the take the student was shown when
\* asking for it, or a later one, whatever reconnects, re-records, retries and
\* aborts came in between; unless the time was over, a save of a shell that is gone
\* brought an older key back, or the draft was collected when the final flush, or a
\* save sent after it, read it.
SubmittedAsConfirmed ==
    sealed = "own" => stored >= promised \/ overtaken \/ blanked \/ clock = "over"

\* A key that reached the mirror, or was on the server at first, is in every copy
\* the open page has, and shown: neither a reload, an empty mirror nor a collected
\* draft blanks it; only a shell that mounts over a collected draft does not show
\* it until the next upload.
KeySurvives ==
    view = "shell" =>
        /\ \A copy \in {mirror, cache} \ {Nothing} : copy >= committed
        /\ hidden \/ shot >= committed

\* A submit ends, with a confirmation or the retry dialog: no upload that is
\* aborted or fails keeps the attempt between the two.
SubmitEnds == ~Idle ~> Idle
=============================================================================
