------------------------ MODULE SpeakingAttemptProofs -----------------------
(* Theorems about a spoken attempt, for any number of takes and troubles.    *)
EXTENDS SpeakingAttempt, SequenceTheorems, TLAPS

Flushes(c) == \E i \in 1 .. Len(c) : c[i] = "final"
OneFlush(c) == \A i, j \in 1 .. Len(c) : c[i] = "final" /\ c[j] = "final" => i = j

Gone == view # "shell"

Flags ==
    /\ locked \in BOOLEAN /\ online \in BOOLEAN /\ readOnly \in BOOLEAN
    /\ foreign \in BOOLEAN /\ busy \in BOOLEAN /\ interrupted \in BOOLEAN
    /\ uploading \in BOOLEAN /\ failed \in BOOLEAN /\ unsaved \in BOOLEAN
    /\ fired \in BOOLEAN /\ overtaken \in BOOLEAN

Marks == seeded \in BOOLEAN /\ blanked \in BOOLEAN /\ hidden \in BOOLEAN

ServerInv ==
    /\ stored \in Content /\ sealed \in {"no", "own", "foreign"}
    /\ clock \in {"none", "running", "zero", "over"}
    /\ EditorReadOnly => ~AcceptsSave

DraftInv ==
    /\ mirror \in Content \cup {Nothing} /\ cache \in Content \cup {Nothing}
    /\ view \in {"away", "shell", "error", "confirmed"}
    /\ shot \in Content /\ (Gone => shot = 0)
    /\ ~Gone => seeded /\ (cache # Nothing => shot = cache)
    /\ troubles \in 0 .. MaxTroubles /\ promised \in Content /\ committed \in Content

RecorderInv ==
    /\ status \in {"idle", "requesting", "recording", "recorded", "refused", "interrupted"}
    /\ rec \in {"none", "recording", "stopping"}
    /\ live \in Nat /\ asked \in Nat /\ ghosts \in Nat /\ take \in Content /\ takes \in Content
    /\ Gone => take = 0 /\ ~busy /\ asked = 0
    /\ busy <=> asked > 0 \/ rec # "none"
    /\ asked <= 1 /\ (asked > 0 => rec = "none" /\ status = "requesting")
    /\ rec # "none" => status = "recording"
    /\ live = IF rec = "none" THEN 0 ELSE 1
    /\ asked > 0 \/ rec # "none" => takes < MaxTakes

TransferInv ==
    /\ uploaded \in Content /\ uploads \subseteq Upload
    /\ \A u, v \in uploads : u = v
    /\ \A u \in uploads : u.by = "submit" => fin = "uploading"
    /\ Gone => uploads = {}

SavesInv ==
    /\ chain \in Seq({"auto", "final"}) /\ wire \in Request \cup {Nothing}
    /\ fin \in {"none", "retry", "uploading", "flushing", "posted", "answered"}
    /\ wire # Nothing => chain # <<>>
    /\ Gone => chain = <<>> /\ fin = "none"
    /\ fin = "flushing" <=> Flushes(chain)
    /\ OneFlush(chain)
    /\ wire # Nothing /\ wire.at = "refused" => ~AcceptsSave

StraysInv ==
    /\ strays \subseteq Seq(Errand)
    /\ \A q \in strays : q # <<>>

Shells ==
    /\ Flags /\ Marks /\ ServerInv /\ DraftInv /\ RecorderInv /\ TransferInv /\ SavesInv
    /\ StraysInv

-----------------------------------------------------------------------------
(* Contents, requests, errands and chains.                                   *)

LEMMA NotContent == \A c \in Content : c # Nothing /\ c \in Nat
  BY SpeakingAssumption DEF Content

LEMMA NotRequest == \A r \in Request : r # Nothing
  BY SpeakingAssumption

LEMMA NoTake == 0 \in Content
  BY SpeakingAssumption DEF Content

LEMMA DraftContent == DraftInv => Draft \in Content /\ Draft \in Nat
  BY NoTake, NotContent DEF DraftInv, Draft

LEMMA ErrandParts ==
    ASSUME NEW what \in {"save", "flush", "submit", "post"}, NEW body \in Content
    PROVE  Put(what, body) \in Errand /\ Put(what, body).do = what /\ Put(what, body).body = body
  BY DEF Put, Errand

LEMMA Singleton ==
    ASSUME NEW S, NEW x \in S
    PROVE  /\ <<x>> \in Seq(S) /\ <<x>> # <<>> /\ Len(<<x>>) = 1 /\ <<x>>[1] = x
           /\ Head(<<x>>) = x
  OBVIOUS

LEMMA ErrandsOf ==
    ASSUME NEW q \in Seq(Errand), q # <<>>
    PROVE  /\ Head(q) \in Errand /\ Head(q) = q[1] /\ 1 \in 1 .. Len(q)
           /\ Head(q).body \in Content /\ Head(q).do \in {"save", "flush", "submit", "post"}
           /\ Tail(q) \in Seq(Errand)
           /\ \A i \in 1 .. Len(Tail(q)) : i + 1 \in 1 .. Len(q) /\ Tail(q)[i] = q[i + 1]
<1>1. /\ Head(q) \in Errand /\ Head(q) = q[1] /\ 1 \in 1 .. Len(q) /\ Len(q) \in Nat
      /\ Tail(q) \in Seq(Errand) /\ Len(Tail(q)) = Len(q) - 1
      /\ \A i \in 1 .. Len(Tail(q)) : Tail(q)[i] = q[i + 1]
  BY HeadTailProperties
<1>2. Head(q).body \in Content /\ Head(q).do \in {"save", "flush", "submit", "post"}
  BY <1>1 DEF Errand
<1> QED
  BY <1>1, <1>2

\* A chain grows by a save at its end.
LEMMA ChainGrows ==
    ASSUME NEW c \in Seq({"auto", "final"}), NEW x \in {"auto", "final"}
    PROVE  /\ Append(c, x) \in Seq({"auto", "final"}) /\ Append(c, x) # <<>>
           /\ c # <<>> => Head(Append(c, x)) = Head(c) /\ Tail(Append(c, x)) = Append(Tail(c), x)
           /\ Flushes(Append(c, x)) <=> Flushes(c) \/ x = "final"
           /\ OneFlush(c) /\ (x = "auto" \/ ~Flushes(c)) => OneFlush(Append(c, x))
<1>1. /\ Append(c, x) \in Seq({"auto", "final"}) /\ Len(Append(c, x)) = Len(c) + 1
      /\ \A i \in 1 .. Len(c) + 1 : Append(c, x)[i] = IF i <= Len(c) THEN c[i] ELSE x
  BY AppendProperties
<1>2. Len(c) \in Nat /\ Len(c) + 1 \in 1 .. Len(Append(c, x))
  BY <1>1
<1>3. c # <<>> => Head(Append(c, x)) = Head(c) /\ Tail(Append(c, x)) = Append(Tail(c), x)
  BY <1>1, <1>2
<1>4. ASSUME Flushes(c) PROVE Flushes(Append(c, x))
  BY <1>1, <1>2, <1>4 DEF Flushes
<1>5. ASSUME x = "final" PROVE Flushes(Append(c, x))
  BY <1>1, <1>2, <1>5 DEF Flushes
<1>6. ASSUME Flushes(Append(c, x)), x # "final" PROVE Flushes(c)
  BY <1>1, <1>2, <1>6 DEF Flushes
<1>7. ASSUME OneFlush(c), x = "auto" PROVE OneFlush(Append(c, x))
  BY <1>1, <1>2, <1>7 DEF OneFlush
<1>8. ASSUME OneFlush(c), ~Flushes(c) PROVE OneFlush(Append(c, x))
  BY <1>1, <1>2, <1>8 DEF OneFlush, Flushes
<1> QED
  BY <1>1, <1>3, <1>4, <1>5, <1>6, <1>7, <1>8

\* A chain shrinks by the save at its head.
LEMMA ChainShrinks ==
    ASSUME NEW c \in Seq({"auto", "final"}), c # <<>>, OneFlush(c)
    PROVE  /\ Tail(c) \in Seq({"auto", "final"}) /\ Head(c) \in {"auto", "final"}
           /\ Head(c) = "final" => Flushes(c) /\ ~Flushes(Tail(c))
           /\ Head(c) # "final" => (Flushes(Tail(c)) <=> Flushes(c))
           /\ OneFlush(Tail(c))
<1>1. /\ Head(c) = c[1] /\ Head(c) \in {"auto", "final"}
      /\ Tail(c) \in Seq({"auto", "final"}) /\ Len(Tail(c)) = Len(c) - 1
      /\ \A i \in 1 .. Len(Tail(c)) : Tail(c)[i] = c[i + 1]
  BY HeadTailProperties
<1>2. Len(c) \in Nat /\ 1 \in 1 .. Len(c)
  OBVIOUS
<1>3. \A i \in 1 .. Len(Tail(c)) : i + 1 \in 1 .. Len(c) /\ i + 1 # 1 /\ i \in Nat
  BY <1>1, <1>2
<1>4. Head(c) = "final" => Flushes(c) /\ ~Flushes(Tail(c))
  BY <1>1, <1>2, <1>3 DEF Flushes, OneFlush
<1>5. ASSUME Head(c) # "final", Flushes(c) PROVE Flushes(Tail(c))
  <2>1. PICK i \in 1 .. Len(c) : c[i] = "final"
    BY <1>5 DEF Flushes
  <2>2. i # 1 /\ i - 1 \in 1 .. Len(Tail(c)) /\ (i - 1) + 1 = i
    BY <1>1, <1>2, <1>5, <2>1
  <2>3. Tail(c)[i - 1] = "final"
    BY <1>1, <2>1, <2>2
  <2> QED
    BY <2>2, <2>3 DEF Flushes
<1>6. ASSUME Flushes(Tail(c)) PROVE Flushes(c)
  BY <1>1, <1>3, <1>6 DEF Flushes
<1>7. OneFlush(Tail(c))
  <2> SUFFICES ASSUME NEW i \in 1 .. Len(Tail(c)), NEW j \in 1 .. Len(Tail(c)),
                      Tail(c)[i] = "final", Tail(c)[j] = "final"
               PROVE  i = j
    BY DEF OneFlush
  <2>1. i + 1 = j + 1
    BY <1>1, <1>3 DEF OneFlush
  <2> QED
    BY <1>3, <2>1
<1> QED
  BY <1>1, <1>4, <1>5, <1>6, <1>7

-----------------------------------------------------------------------------
(* What the steps leave alone.                                               *)

\* The document goes, a shell unmounts, or a page without one changes.
Goes ==
    \/ Reload \/ Submitted
    \/ Drained /\ \E to \in {"away", "error", "confirmed"} : Swap(to)

LEMMA WhoGoes ==
    ASSUME BootstrapRefused \/ BootstrapFails \/ Leave PROVE Goes
  BY DEF Goes, BootstrapRefused, BootstrapFails, Leave

LEMMA Recorders ==
    ASSUME Next
    PROVE  \/ view' = view /\ UNCHANGED recorder
           \/ Load \/ Remount \/ Goes
           \/ Start \/ Granted \/ Denied \/ GhostGranted \/ Stop \/ Seized \/ Dropped \/ Settled
           \/ ReRecord \/ SaveSettles \/ DeadlineSeen \/ ForeignHeard
<1>1. CASE Uploaded \/ RetryUpload \/ Issue \/ Saved \/ Confirm \/ Expire
           \/ SubmitWithoutAudio \/ Answered \/ Collect
  BY <1>1 DEF Collect, Uploaded, UploadDone, UploadFails, RetryUpload, Issue, Saved, ServeSave,
     SaveBreaks, Confirm, Expire, SubmitWithoutAudio, Answered, ServeSubmit, SubmitBreaks, page
<1>2. CASE (\E q \in strays : StraySaved(q) \/ StraySubmitted(q) \/ StrayLost(q))
           \/ GoOffline \/ GoOnline \/ Lock \/ TimePasses \/ ForeignSubmit
  BY <1>2 DEF StraySaved, StraySubmitted, StrayLost, GoOffline, GoOnline, Lock, TimePasses,
     ForeignSubmit, page
<1>3. CASE Submitted
  BY <1>3 DEF Goes
<1>4. CASE Reload
  BY <1>4 DEF Goes
<1> QED
  BY <1>1, <1>2, <1>3, <1>4, WhoGoes DEF Next

LEMMA Transfers ==
    ASSUME Next
    PROVE  \/ view' = view /\ UNCHANGED <<transfer, fin>>
           \/ Load \/ Remount \/ Goes \/ Uploaded \/ RetryUpload \/ SaveSettles \/ Confirm \/ Expire
           \/ SubmitWithoutAudio \/ Answered \/ GoOnline
<1>1. CASE \/ Start \/ Granted \/ Denied \/ GhostGranted \/ Stop \/ Seized \/ Dropped
           \/ Settled \/ ReRecord \/ Issue \/ Saved \/ Collect
  BY <1>1 DEF Collect, Start, Granted, Denied, GhostGranted, Stop, Seized, Dropped, Settled,
     ReRecord, Issue, Saved, ServeSave, SaveBreaks, page, finalizer
<1>2. CASE (\E q \in strays : StraySaved(q) \/ StraySubmitted(q) \/ StrayLost(q))
           \/ GoOffline \/ Lock \/ DeadlineSeen \/ TimePasses \/ ForeignSubmit \/ ForeignHeard
  BY <1>2 DEF StraySaved, StraySubmitted, StrayLost, GoOffline, Lock, DeadlineSeen, TimePasses,
     ForeignSubmit, ForeignHeard, page, finalizer
<1>3. CASE Submitted
  BY <1>3 DEF Goes
<1>4. CASE Reload
  BY <1>4 DEF Goes
<1> QED
  BY <1>1, <1>2, <1>3, <1>4, WhoGoes DEF Next

LEMMA Savers ==
    ASSUME Next
    PROVE  \/ view' = view /\ UNCHANGED <<chain, wire, fin>>
           \/ Load \/ Remount \/ Goes \/ Uploaded \/ RetryUpload \/ Issue \/ Saved \/ SaveSettles
           \/ Confirm \/ Expire \/ SubmitWithoutAudio \/ Answered \/ GoOnline \/ DeadlineSeen
<1>1. CASE \/ Start \/ Granted \/ Denied \/ GhostGranted \/ Stop \/ Seized \/ Dropped
           \/ Settled \/ ReRecord \/ Collect
  BY <1>1 DEF Collect, Start, Granted, Denied, GhostGranted, Stop, Seized, Dropped, Settled,
     ReRecord, page, finalizer, autosave
<1>2. CASE (\E q \in strays : StraySaved(q) \/ StraySubmitted(q) \/ StrayLost(q))
           \/ GoOffline \/ Lock \/ TimePasses \/ ForeignSubmit \/ ForeignHeard
  BY <1>2 DEF StraySaved, StraySubmitted, StrayLost, GoOffline, Lock, TimePasses,
     ForeignSubmit, ForeignHeard, page, finalizer, autosave
<1>3. CASE Submitted
  BY <1>3 DEF Goes
<1>4. CASE Reload
  BY <1>4 DEF Goes
<1> QED
  BY <1>1, <1>2, <1>3, <1>4, WhoGoes DEF Next

LEMMA Servers ==
    ASSUME Next
    PROVE  \/ UNCHANGED <<server, overtaken, readOnly, foreign>>
           \/ UNCHANGED <<server, overtaken>> /\ (SaveSettles \/ DeadlineSeen \/ ForeignHeard)
           \/ UNCHANGED <<server, overtaken>> /\ Goes
           \/ UNCHANGED <<readOnly, foreign>> /\
                 \/ Saved \/ Answered \/ Lock \/ TimePasses \/ ForeignSubmit
                 \/ \E q \in strays : StraySaved(q) \/ StraySubmitted(q)
<1>1. CASE \/ Start \/ Granted \/ Denied \/ GhostGranted \/ Stop \/ Seized \/ Dropped
           \/ Settled \/ ReRecord \/ Load \/ Remount \/ Collect
           \/ RetryUpload \/ Issue \/ SubmitWithoutAudio
  BY <1>1 DEF Start, Granted, Denied, GhostGranted, Stop, Seized, Dropped, Settled, ReRecord,
     Load, Remount, Collect, RetryUpload, Issue, SubmitWithoutAudio, page, history
<1>2. CASE (\E q \in strays : StrayLost(q)) \/ GoOffline \/ GoOnline \/ Uploaded
           \/ Confirm \/ Expire
  BY <1>2 DEF StrayLost, GoOffline, GoOnline, Uploaded, UploadDone, UploadFails, Confirm,
     Expire, page, history
<1>3. CASE (\E q \in strays : StraySaved(q) \/ StraySubmitted(q)) \/ Saved \/ Answered
           \/ Lock \/ TimePasses \/ ForeignSubmit
  BY <1>3 DEF StraySaved, StraySubmitted, Saved, ServeSave, SaveBreaks, Answered, ServeSubmit,
     SubmitBreaks, Lock, TimePasses, ForeignSubmit, page
<1>4. CASE SaveSettles \/ DeadlineSeen \/ ForeignHeard
  BY <1>4 DEF SaveSettles, DeadlineSeen, ForeignHeard, history
<1>5. CASE Goes
  BY <1>5 DEF Goes, Swap, Reload, Submitted, history
<1>6. CASE Submitted \/ Reload
  BY <1>5, <1>6 DEF Goes
<1> QED
  BY <1>1, <1>2, <1>3, <1>4, <1>5, <1>6, WhoGoes DEF Next

-----------------------------------------------------------------------------
(* The recorder.                                                             *)

LEMMA RecorderKept == ASSUME Shells, Next PROVE RecorderInv'
<1> USE SpeakingAssumption DEF RecorderInv, Content, Gone
<1>0. RecorderInv /\ busy \in BOOLEAN
  BY DEF Shells, Flags
<1>1. CASE view' = view /\ UNCHANGED recorder
  BY <1>0, <1>1 DEF recorder
<1>2. CASE Load \/ Remount
  BY <1>0, <1>2 DEF Load, Remount, recorder
<1>3. CASE Goes
  <2>1. CASE Reload \/ Submitted
    BY <1>0, <2>1 DEF Reload, Submitted, Quiet, Dismantle
  <2>2. ASSUME NEW to \in {"away", "error", "confirmed"}, Swap(to) PROVE RecorderInv'
    BY <1>0, <2>2 DEF Swap, Unmount, Quiet, Dismantle, recorder
  <2> QED
    BY <1>3, <2>1, <2>2 DEF Goes
<1>4. CASE Start
  BY <1>0, <1>4 DEF Start, MayStart, page
<1>5. CASE Granted \/ Denied
  BY <1>0, <1>5 DEF Granted, Denied, page
<1>6. CASE GhostGranted
  BY <1>0, <1>6 DEF GhostGranted, Kept, page
<1>7. CASE Stop \/ Seized
  BY <1>0, <1>7 DEF Stop, Seized, page
<1>8. CASE Dropped
  BY <1>0, <1>8 DEF Dropped, page
<1>9. CASE Settled
  BY <1>0, <1>9 DEF Settled, page
<1>10. CASE ReRecord
  <2>1. rec = "none" /\ asked = 0
    BY <1>0, <1>10 DEF ReRecord
  <2> QED
    BY <1>0, <1>10, <2>1 DEF ReRecord, page
<1>11. CASE SaveSettles \/ DeadlineSeen \/ ForeignHeard
  <2>1. /\ view' = view /\ rec' \in {rec, Silenced}
        /\ UNCHANGED <<status, live, busy, interrupted, asked, ghosts, take, takes>>
    BY <1>11 DEF SaveSettles, DeadlineSeen, ForeignHeard
  <2> QED
    BY <1>0, <2>1 DEF Silenced
<1> HIDE DEF RecorderInv
<1> QED
  BY <1>1, <1>2, <1>3, <1>4, <1>5, <1>6, <1>7, <1>8, <1>9, <1>10, <1>11, Recorders

-----------------------------------------------------------------------------
(* Uploads.                                                                  *)

\* An upload that starts takes the place of the one there was; a submit that
\* waited for that one ends.
LEMMA StartUploadStep ==
    ASSUME TransferInv, Held, take \in Content, NEW by \in {"background", "submit"},
           StartUpload(by), view = "shell", view' = view,
           by = "submit" => fin' = "uploading"
    PROVE  TransferInv'
<1>1. uploads' = {[take |-> take, by |-> by]} /\ uploaded' = uploaded
  BY DEF StartUpload, Survivors
<1>2. [take |-> take, by |-> by] \in Upload /\ [take |-> take, by |-> by].by = by
  BY SpeakingAssumption DEF Upload, Held, Content
<1> QED
  BY <1>1, <1>2 DEF TransferInv, Gone

LEMMA TransfersKept == ASSUME Shells, Next PROVE TransferInv'
<1>0. TransferInv /\ SavesInv /\ take \in Content
  BY DEF Shells, RecorderInv
<1>1. CASE view' = view /\ UNCHANGED <<transfer, fin>>
  BY <1>0, <1>1 DEF transfer, TransferInv, Gone
<1>2. CASE Load \/ Remount
  BY <1>0, <1>2 DEF Load, Remount, transfer, finalizer, TransferInv, Gone
<1>3. CASE Goes
  <2>1. CASE Reload \/ Submitted
    BY <2>1, NoTake DEF Reload, Submitted, Quiet, TransferInv
  <2>2. ASSUME NEW to \in {"away", "error", "confirmed"}, Swap(to) PROVE TransferInv'
    <3>1. CASE view = "shell"
      BY <2>2, <3>1, NoTake DEF Swap, Unmount, Quiet, TransferInv
    <3>2. CASE view # "shell"
      BY <1>0, <2>2, <3>2 DEF Swap, transfer, finalizer, TransferInv, Gone
    <3> QED
      BY <3>1, <3>2
  <2> QED
    BY <1>3, <2>1, <2>2 DEF Goes
<1>4. ASSUME NEW u \in uploads, UploadDone(u) PROVE TransferInv'
  <2>1. /\ uploads' = uploads \ {u} /\ uploaded' = u.take /\ view' = view
    BY <1>4 DEF UploadDone, Persist, page
  <2>2. uploads' = {} /\ u.take \in Content
    BY <1>0, <2>1, SpeakingAssumption DEF TransferInv, Upload, Content
  <2> QED
    BY <2>1, <2>2 DEF TransferInv
<1>5. ASSUME NEW u \in uploads, UploadFails(u) PROVE TransferInv'
  <2>1. uploads' = uploads \ {u} /\ uploaded' = uploaded /\ view' = view
    BY <1>5 DEF UploadFails, page
  <2>2. uploads' = {}
    BY <1>0, <2>1 DEF TransferInv
  <2> QED
    BY <1>0, <2>1, <2>2 DEF TransferInv
<1>6. CASE RetryUpload
  BY <1>0, <1>6, StartUploadStep DEF RetryUpload, page
<1>7. CASE SaveSettles
  <2>1. chain \in Seq({"auto", "final"}) /\ chain # <<>>
    BY <1>0, <1>7 DEF SaveSettles, SavesInv
  <2>2. fin' # fin => fin = "flushing"
    BY <1>0, <1>7, <2>1, ChainShrinks DEF SaveSettles, SavesInv
  <2> QED
    BY <1>0, <1>7, <2>2 DEF SaveSettles, transfer, TransferInv, Gone
<1>8. ASSUME Finalize, Idle, view = "shell", view' = view PROVE TransferInv'
  <2>1. CASE Held
    BY <1>0, <1>8, <2>1, StartUploadStep DEF Finalize
  <2>2. CASE ~Held
    BY <1>0, <1>8, <2>2 DEF Finalize, transfer, TransferInv, Idle, Gone
  <2> QED
    BY <2>1, <2>2
<1>9. CASE Confirm
  BY <1>8, <1>9 DEF Confirm, page
<1>10. CASE Expire
  <2>1. CASE Idle
    BY <1>8, <1>10, <2>1 DEF Expire, page
  <2>2. CASE ~Idle
    BY <1>0, <1>10, <2>2 DEF Expire, page, transfer, TransferInv, Gone
  <2> QED
    BY <2>1, <2>2
<1>11. CASE SubmitWithoutAudio
  BY <1>0, <1>11 DEF SubmitWithoutAudio, page, transfer, TransferInv, Gone
<1>12. CASE Answered
  BY <1>0, <1>12 DEF Answered, ServeSubmit, SubmitBreaks, page, transfer, TransferInv, Gone
<1>13. CASE GoOnline
  <2>1. CASE Reconnects /\ Held /\ ~uploading
    BY <1>0, <1>13, <2>1, StartUploadStep DEF GoOnline, Reconnects
  <2>2. CASE ~(Reconnects /\ Held /\ ~uploading)
    BY <1>0, <1>13, <2>2 DEF GoOnline, transfer, TransferInv, Gone
  <2> QED
    BY <2>1, <2>2
<1> QED
  BY <1>1, <1>2, <1>3, <1>4, <1>5, <1>6, <1>7, <1>9, <1>10, <1>11, <1>12, <1>13, Transfers
     DEF Uploaded

-----------------------------------------------------------------------------
(* Saves and the finalizer.                                                  *)

\* A save joins the chain.
LEMMA SaveJoins ==
    ASSUME SavesInv, view = "shell", view' = view, UNCHANGED wire, AcceptsSave' = AcceptsSave,
           \/ chain' = Append(chain, "auto") /\ fin' \in {fin, "retry"} /\ (fin' # fin => fin = "uploading")
           \/ chain' = Append(chain, "final") /\ fin' = "flushing" /\ fin # "flushing"
    PROVE  SavesInv'
<1>1. CASE chain' = Append(chain, "auto")
  BY <1>1, ChainGrows DEF SavesInv, Gone
<1>2. CASE chain' = Append(chain, "final")
  BY <1>2, ChainGrows DEF SavesInv, Gone
<1> QED
  BY <1>1, <1>2

LEMMA DoneAccepting ==
    ASSUME Next, ~AcceptsSave PROVE ~AcceptsSave'
<1>1. CASE UNCHANGED server
  BY <1>1 DEF server, AcceptsSave, AcceptsSubmit
<1>2. CASE Saved
  BY <1>2 DEF Saved, ServeSave, SaveBreaks, AcceptsSave, AcceptsSubmit
<1>3. CASE Answered
  BY <1>3 DEF Answered, ServeSubmit, SubmitBreaks, Seal, AcceptsSave, AcceptsSubmit
<1>4. CASE Lock \/ TimePasses \/ ForeignSubmit
  BY <1>4 DEF Lock, TimePasses, ForeignSubmit, AcceptsSave, AcceptsSubmit
<1>5. CASE \E q \in strays : StraySaved(q)
  BY <1>5 DEF StraySaved, AcceptsSave, AcceptsSubmit
<1>6. CASE \E q \in strays : StraySubmitted(q)
  BY <1>6 DEF StraySubmitted, Seal, AcceptsSave, AcceptsSubmit
<1> QED
  BY <1>1, <1>2, <1>3, <1>4, <1>5, <1>6, Servers

LEMMA SavesLeftAlone ==
    ASSUME SavesInv, Next, view' = view \/ view = "shell" \/ view' = "shell",
           UNCHANGED <<chain, wire>>,
           fin' = fin \/ (view = "shell" /\ view' = view /\ fin # "flushing" /\ fin' # "flushing"),
           fin' \in {"none", "retry", "uploading", "flushing", "posted", "answered"},
           view' # "shell" => view # "shell"
    PROVE  SavesInv'
  BY DoneAccepting DEF SavesInv, Gone

LEMMA SavesKept == ASSUME Shells, Next PROVE SavesInv'
<1>0. SavesInv /\ TransferInv
  BY DEF Shells
<1>1. CASE view' = view /\ UNCHANGED <<chain, wire, fin>>
  BY <1>0, <1>1, SavesLeftAlone DEF SavesInv
<1>2. CASE Load \/ Remount
  BY <1>0, <1>2, SavesLeftAlone DEF Load, Remount, finalizer, autosave, SavesInv
<1>3. CASE Goes
  <2>1. ASSUME chain' = <<>>, wire' = Nothing, fin' = "none" PROVE SavesInv'
    BY <2>1 DEF SavesInv, Flushes, OneFlush
  <2>2. CASE Reload \/ Submitted
    BY <2>1, <2>2 DEF Reload, Submitted, Quiet
  <2>3. ASSUME NEW to \in {"away", "error", "confirmed"}, Swap(to) PROVE SavesInv'
    <3>1. CASE view = "shell"
      BY <2>1, <2>3, <3>1 DEF Swap, Unmount, Quiet
    <3>2. CASE view # "shell"
      <4>1. chain = <<>> /\ wire = Nothing /\ fin = "none"
        BY <1>0, <3>2 DEF SavesInv, Gone
      <4> QED
        BY <2>1, <2>3, <3>2, <4>1 DEF Swap, finalizer
    <3> QED
      BY <3>1, <3>2
  <2> QED
    BY <1>3, <2>2, <2>3 DEF Goes
<1>4. ASSUME NEW u \in uploads, UploadDone(u) PROVE SavesInv'
  <2>1. view = "shell" /\ view' = view /\ wire' = wire /\ AcceptsSave' = AcceptsSave
    BY <1>0, <1>4 DEF UploadDone, TransferInv, Gone, page, server, AcceptsSave, AcceptsSubmit
  <2>2. CASE u.by = "submit"
    BY <1>0, <1>4, <2>1, <2>2, SaveJoins DEF UploadDone, TransferInv
  <2>3. CASE u.by # "submit"
    BY <1>0, <1>4, <2>1, <2>3, SaveJoins DEF UploadDone
  <2> QED
    BY <2>2, <2>3
<1>5. \A gone \in SUBSET uploads : Reopened(gone) \in {fin, "retry"}
                                   /\ (Reopened(gone) # fin => fin = "uploading")
  BY <1>0 DEF Reopened, TransferInv
<1>6. ASSUME NEW u \in uploads, UploadFails(u) PROVE SavesInv'
  <2>1. view = "shell" /\ view' = view /\ UNCHANGED <<chain, wire>> /\ fin' = Reopened({u})
    BY <1>0, <1>6 DEF UploadFails, TransferInv, Gone, page, autosave
  <2> QED
    BY <1>0, <1>5, <1>6, <2>1, SavesLeftAlone DEF SavesInv
<1>7. CASE RetryUpload
  <2>1. Aborted \in SUBSET uploads
    BY DEF Aborted
  <2>2. view = "shell" /\ view' = view /\ UNCHANGED <<chain, wire>> /\ fin' = Reopened(Aborted)
    BY <1>7 DEF RetryUpload, page, autosave
  <2> QED
    BY <1>0, <1>5, <1>7, <2>1, <2>2, SavesLeftAlone DEF SavesInv
<1>8. CASE Issue
  <2>1. /\ wire' = [body |-> Draft, at |-> "sent"] /\ chain # <<>> /\ view' = view
        /\ UNCHANGED <<chain, fin>>
    BY <1>8 DEF Issue, Drained, page, finalizer
  <2>2. view = "shell"
    BY <1>0, <2>1 DEF SavesInv, Gone
  <2>3. wire' \in Request /\ wire'.at = "sent"
    BY <2>1, DraftContent DEF Shells, Request
  <2> QED
    BY <1>0, <2>1, <2>2, <2>3 DEF SavesInv, Gone
<1>9. CASE Saved
  <2>1. /\ wire # Nothing /\ wire \in Request /\ UNCHANGED <<chain, view, fin>>
        /\ wire' \in {[wire EXCEPT !.at = at] : at \in {"ok", "net"}}
             \/ (wire' = [wire EXCEPT !.at = "refused"] /\ ~AcceptsSave)
    <3>1. CASE ServeSave
      BY <1>0, <3>1 DEF ServeSave, SavesInv, page, finalizer
    <3>2. CASE SaveBreaks
      BY <1>0, <3>2 DEF SaveBreaks, SavesInv, page, finalizer
    <3> QED
      BY <1>9, <3>1, <3>2 DEF Saved
  <2>2. wire' \in Request /\ (wire'.at = "refused" => ~AcceptsSave)
    BY <2>1 DEF Request
  <2> QED
    BY <1>0, <2>1, <2>2, DoneAccepting DEF SavesInv, Gone
<1>10. CASE SaveSettles
  <2> DEFINE t == Tail(chain)
  <2>1. wire # Nothing /\ chain # <<>> /\ wire' = Nothing /\ view' = view
    BY <1>0, <1>10 DEF SaveSettles, SavesInv
  <2>2. chain' \in {t, Append(t, "auto")}
    BY <1>10 DEF SaveSettles
  <2>3. /\ t \in Seq({"auto", "final"}) /\ Head(chain) \in {"auto", "final"} /\ OneFlush(t)
        /\ Head(chain) = "final" => Flushes(chain) /\ ~Flushes(t)
        /\ Head(chain) # "final" => (Flushes(t) <=> Flushes(chain))
    BY <1>0, <2>1, ChainShrinks DEF SavesInv
  <2>4. fin' = IF Head(chain) # "final" THEN fin
               ELSE IF wire.at = "net" THEN "retry" ELSE "posted"
    BY <1>10 DEF SaveSettles
  <2>5. view = "shell"
    BY <1>0, <2>1 DEF SavesInv, Gone
  <2> HIDE DEF t
  <2>6. /\ chain' \in Seq({"auto", "final"}) /\ OneFlush(chain')
        /\ Flushes(chain') <=> Flushes(t)
    <3>1. CASE chain' = t
      BY <2>3, <3>1
    <3>2. CASE chain' = Append(t, "auto")
      BY <2>3, <3>2, ChainGrows
    <3> QED
      BY <2>2, <3>1, <3>2
  <2>7. fin' = "flushing" <=> Flushes(chain')
    BY <1>0, <2>3, <2>4, <2>6 DEF SavesInv
  <2>8. fin' \in {"none", "retry", "uploading", "flushing", "posted", "answered"}
    BY <1>0, <2>4 DEF SavesInv
  <2> QED
    BY <2>1, <2>5, <2>6, <2>7, <2>8 DEF SavesInv, Gone
<1>11. ASSUME Finalize, Idle, view = "shell", view' = view, UNCHANGED <<server, wire>>
       PROVE  SavesInv'
  <2>1. AcceptsSave' = AcceptsSave
    BY <1>11 DEF server, AcceptsSave, AcceptsSubmit
  <2>2. CASE Held
    <3>1. fin' = "uploading" /\ chain' = chain
      BY <1>11, <2>2 DEF Finalize
    <3> QED
      BY <1>0, <1>11, <2>1, <3>1 DEF SavesInv, Idle, Gone
  <2>3. CASE ~Held
    BY <1>0, <1>11, <2>1, <2>3, SaveJoins DEF Finalize, Idle
  <2> QED
    BY <2>2, <2>3
<1>12. CASE Confirm
  BY <1>11, <1>12 DEF Confirm, page
<1>13. CASE Expire
  <2>1. CASE Idle
    BY <1>11, <1>13, <2>1 DEF Expire, page
  <2>2. CASE ~Idle
    BY <1>0, <1>13, <2>2, SavesLeftAlone DEF Expire, page, SavesInv
  <2> QED
    BY <2>1, <2>2
<1>14. CASE SubmitWithoutAudio
  <2>1. AcceptsSave' = AcceptsSave
    BY <1>14 DEF SubmitWithoutAudio, server, AcceptsSave, AcceptsSubmit
  <2> QED
    BY <1>0, <1>14, <2>1, SaveJoins DEF SubmitWithoutAudio, page
<1>15. CASE Answered
  <2>1. /\ fin = "posted" /\ fin' \in {"answered", "retry"} /\ view' = view
        /\ UNCHANGED <<chain, wire>>
    BY <1>15 DEF Answered, ServeSubmit, SubmitBreaks, page, autosave
  <2>2. view = "shell"
    BY <1>0, <2>1 DEF SavesInv, Gone
  <2> QED
    BY <1>0, <2>1, <2>2, SavesLeftAlone
<1>16. CASE GoOnline
  <2>1. /\ view' = view /\ wire' = wire /\ AcceptsSave' = AcceptsSave
        /\ chain' \in {chain, Append(chain, "auto")} /\ (chain' # chain => view = "shell")
        /\ fin' \in {fin, Reopened(Aborted)}
    BY <1>16 DEF GoOnline, Reconnects, server, AcceptsSave, AcceptsSubmit
  <2>2. Aborted \in SUBSET uploads /\ (view # "shell" => uploads = {})
    BY <1>0 DEF Aborted, TransferInv, Gone
  <2>3. fin' \in {fin, "retry"} /\ (fin' # fin => fin = "uploading" /\ view = "shell")
    BY <1>0, <1>5, <2>1, <2>2 DEF SavesInv, Gone
  <2>4. CASE chain' = chain
    BY <1>0, <2>1, <2>3, <2>4, SavesLeftAlone DEF SavesInv
  <2>5. CASE chain' # chain
    BY <1>0, <2>1, <2>3, <2>5, SaveJoins
  <2> QED
    BY <2>4, <2>5
<1>17. CASE DeadlineSeen
  <2>1. /\ view = "shell" /\ view' = view /\ UNCHANGED <<wire, fin>>
        /\ AcceptsSave' = AcceptsSave /\ chain' \in {chain, Append(chain, "auto")}
    BY <1>17 DEF DeadlineSeen, server, finalizer, AcceptsSave, AcceptsSubmit
  <2>2. CASE chain' = chain
    BY <1>0, <2>1, <2>2, SavesLeftAlone DEF SavesInv
  <2>3. CASE chain' # chain
    BY <1>0, <2>1, <2>3, SaveJoins
  <2> QED
    BY <2>2, <2>3
<1> QED
  BY <1>1, <1>2, <1>3, <1>4, <1>6, <1>7, <1>8, <1>9, <1>10, <1>12, <1>13, <1>14, <1>15, <1>16,
     <1>17, Savers DEF Uploaded

-----------------------------------------------------------------------------
(* The server, the draft, and what runs in the background.                   *)

LEMMA ServerKept == ASSUME Shells, Next PROVE ServerInv'
<1>0. ServerInv /\ SavesInv /\ DraftInv
  BY DEF Shells
<1>1. ASSUME UNCHANGED <<stored, sealed, clock>>, EditorReadOnly' => EditorReadOnly \/ ~AcceptsSave
      PROVE  ServerInv'
  BY <1>0, <1>1, DoneAccepting DEF ServerInv
<1>2. CASE UNCHANGED <<server, readOnly, foreign>>
  BY <1>1, <1>2 DEF server, EditorReadOnly
<1>3. CASE Goes /\ UNCHANGED server
  <2>1. CASE Reload \/ Submitted
    BY <1>1, <1>3, <2>1 DEF Reload, Submitted, Quiet, EditorReadOnly, server
  <2>2. ASSUME NEW to \in {"away", "error", "confirmed"}, Swap(to) PROVE ServerInv'
    <3>1. CASE view = "shell"
      BY <1>1, <1>3, <2>2, <3>1 DEF Swap, Unmount, Quiet, EditorReadOnly, server
    <3>2. CASE view # "shell"
      BY <1>1, <1>3, <2>2, <3>2 DEF Swap, EditorReadOnly, server
    <3> QED
      BY <3>1, <3>2
  <2> QED
    BY <1>3, <2>1, <2>2 DEF Goes
<1>4. CASE SaveSettles
  BY <1>0, <1>1, <1>4 DEF SaveSettles, server, EditorReadOnly, SavesInv
<1>5. CASE DeadlineSeen
  BY <1>1, <1>5 DEF DeadlineSeen, server, EditorReadOnly, AcceptsSave, AcceptsSubmit
<1>6. CASE ForeignHeard
  BY <1>1, <1>6 DEF ForeignHeard, server, EditorReadOnly, AcceptsSave, AcceptsSubmit
<1>7. ASSUME NEW body \in Content, NEW stray \in BOOLEAN,
             Apply(body, stray) \/ stored' = stored,
             sealed' \in {sealed, "own", "foreign"}, clock' \in {clock, "zero", "over"},
             UNCHANGED <<readOnly, foreign>>
      PROVE  ServerInv'
  <2>1. stored' \in Content
    BY <1>0, <1>7 DEF Apply, ServerInv
  <2> QED
    BY <1>0, <1>7, <2>1, DoneAccepting DEF ServerInv, EditorReadOnly
<1>8. CASE Saved /\ UNCHANGED <<readOnly, foreign>>
  <2>1. wire.body \in Content
    BY <1>0, <1>8 DEF Saved, ServeSave, SaveBreaks, SavesInv, Request
  <2> QED
    BY <1>7, <1>8, <2>1 DEF Saved, ServeSave, SaveBreaks
<1>9. CASE UNCHANGED <<readOnly, foreign>> /\ (Answered \/ Lock \/ TimePasses \/ ForeignSubmit)
  BY <1>7, <1>9, NoTake DEF Answered, ServeSubmit, SubmitBreaks, Seal, Lock, TimePasses,
     ForeignSubmit
<1>10. ASSUME NEW q \in strays, StraySaved(q), UNCHANGED <<readOnly, foreign>> PROVE ServerInv'
  <2>1. q \in Seq(Errand) /\ q # <<>>
    BY DEF Shells, StraysInv
  <2>2. Head(q).body \in Content
    BY <2>1, ErrandsOf
  <2> QED
    BY <1>7, <1>10, <2>2 DEF StraySaved
<1>11. ASSUME NEW q \in strays, StraySubmitted(q), UNCHANGED <<readOnly, foreign>> PROVE ServerInv'
  BY <1>7, <1>11, NoTake DEF StraySubmitted, Seal
<1> QED
  BY <1>2, <1>3, <1>4, <1>5, <1>6, <1>8, <1>9, <1>10, <1>11, Servers DEF server

LEMMA TroubleCounts ==
    ASSUME troubles \in 0 .. MaxTroubles, Trouble \/ Breaks
    PROVE  troubles' \in 0 .. MaxTroubles
  BY SpeakingAssumption DEF Trouble, Breaks

LEMMA Pages ==
    ASSUME Next
    PROVE  \/ UNCHANGED <<keys, view, seeded, promised, committed, hidden>>
           \/ Load \/ Remount \/ Goes
           \/ Collect \/ (\E u \in uploads : UploadDone(u))
           \/ Confirm \/ Expire \/ SubmitWithoutAudio
           \/ \E q \in strays : StraySubmitted(q)
<1>1. CASE \/ Start \/ Granted \/ Denied \/ GhostGranted \/ Stop \/ Seized \/ Dropped
           \/ Settled \/ ReRecord \/ RetryUpload \/ Issue
  BY <1>1 DEF Start, Granted, Denied, GhostGranted, Stop, Seized, Dropped, Settled, ReRecord,
     RetryUpload, Issue, page, history
<1>2. CASE (\E u \in uploads : UploadFails(u)) \/ Saved \/ SaveSettles \/ Answered
           \/ (\E q \in strays : StraySaved(q) \/ StrayLost(q))
  BY <1>2 DEF UploadFails, Saved, ServeSave, SaveBreaks, SaveSettles, Answered, ServeSubmit,
     SubmitBreaks, StraySaved, StrayLost, page, history
<1>3. CASE GoOffline \/ GoOnline \/ Lock \/ DeadlineSeen \/ TimePasses \/ ForeignSubmit
           \/ ForeignHeard
  BY <1>3 DEF GoOffline, GoOnline, Lock, DeadlineSeen, TimePasses, ForeignSubmit,
     ForeignHeard, page, history
<1>4. CASE Submitted \/ Reload
  BY <1>4 DEF Goes
<1> QED
  BY <1>1, <1>2, <1>3, <1>4, WhoGoes DEF Next, Uploaded

LEMMA TroublesKept ==
    ASSUME troubles \in 0 .. MaxTroubles, Next PROVE troubles' \in 0 .. MaxTroubles
<1>1. CASE Trouble \/ Breaks
  BY <1>1, TroubleCounts
<1>2. CASE UNCHANGED troubles
  BY <1>2
<1>3. CASE Load \/ Remount \/ Collect \/ BootstrapRefused \/ BootstrapFails \/ Leave
           \/ Reload \/ Start \/ Granted
           \/ Denied \/ GhostGranted \/ Stop \/ Seized \/ Dropped \/ Settled \/ ReRecord
  BY <1>1, <1>2, <1>3 DEF Load, Remount, Collect, BootstrapRefused, BootstrapFails, Leave,
     Reload, Start, Granted, Denied, GhostGranted, Stop, Seized, Dropped, Settled, ReRecord
<1>4. CASE Uploaded \/ RetryUpload \/ Issue \/ Saved \/ SaveSettles \/ Confirm \/ Expire
           \/ SubmitWithoutAudio \/ Answered \/ Submitted
  BY <1>1, <1>2, <1>4 DEF Uploaded, UploadDone, UploadFails, RetryUpload, Issue, Saved,
     ServeSave, SaveBreaks, SaveSettles, Confirm, Expire, SubmitWithoutAudio, Answered,
     ServeSubmit, SubmitBreaks, Submitted
<1>5. CASE (\E q \in strays : StraySaved(q) \/ StraySubmitted(q) \/ StrayLost(q))
           \/ GoOffline \/ GoOnline \/ Lock \/ DeadlineSeen \/ TimePasses \/ ForeignSubmit
           \/ ForeignHeard
  BY <1>1, <1>2, <1>5 DEF StraySaved, StraySubmitted, StrayLost, GoOffline, GoOnline, Lock,
     DeadlineSeen, TimePasses, ForeignSubmit, ForeignHeard
<1> QED
  BY <1>3, <1>4, <1>5 DEF Next

\* What a page that loads, and a finished upload, put into the draft.
LEMMA LoadedDraft ==
    ASSUME Shells, Load
    PROVE  /\ cache' \in Content /\ mirror' = cache'
           /\ cache # Nothing => cache' = cache
           /\ cache = Nothing /\ mirror \in {Nothing, 0} => cache' = stored
           /\ cache = Nothing /\ mirror \notin {Nothing, 0} => cache' = mirror
<1>1. /\ cache' = (IF cache # Nothing THEN cache ELSE Merge(mirror, stored))
      /\ mirror' = cache'
  BY DEF Load
<1>2. /\ mirror \in Content \cup {Nothing} /\ cache \in Content \cup {Nothing}
      /\ stored \in Content
  BY DEF Shells, DraftInv, ServerInv
<1>3. CASE cache # Nothing
  BY <1>1, <1>2, <1>3
<1>4. CASE cache = Nothing
  BY <1>1, <1>2, <1>4 DEF Merge
<1> QED
  BY <1>3, <1>4

LEMMA ShownContent ==
    ASSUME Shells PROVE Shown \in Content /\ Draft \in Content
<1>1. DraftInv /\ take \in Content
  BY DEF Shells, RecorderInv
<1> QED
  BY <1>1, DraftContent DEF DraftInv, Shown

LEMMA DraftKept == ASSUME Shells, Next PROVE DraftInv'
<1>0. DraftInv /\ troubles' \in 0 .. MaxTroubles
  BY TroublesKept DEF Shells, DraftInv
<1>1. CASE UNCHANGED <<keys, view, seeded, promised, committed>>
  BY <1>0, <1>1 DEF DraftInv, keys, Gone
<1>2. CASE Load
  BY <1>0, <1>2, LoadedDraft, NotContent DEF Load, DraftInv, history, Gone
<1>3. CASE Remount
  BY <1>0, <1>3, DraftContent DEF Remount, DraftInv, Draft, Gone
<1>4. CASE Goes
  <2>1. CASE Reload
    BY <1>0, <2>1, NoTake DEF Reload, DraftInv, Gone
  <2>2. CASE Submitted
    BY <1>0, <2>2, NoTake DEF Submitted, Quiet, DraftInv, Gone
  <2>3. ASSUME NEW to \in {"away", "error", "confirmed"}, Swap(to) PROVE DraftInv'
    <3>1. shot' = 0
      BY <1>0, <2>3 DEF Swap, Unmount, Quiet, DraftInv, Gone
    <3>2. view' = to /\ UNCHANGED <<mirror, cache, promised, committed>>
      BY <2>3 DEF Swap
    <3> QED
      BY <1>0, <3>1, <3>2, NoTake DEF DraftInv, Gone
  <2> QED
    BY <1>4, <2>1, <2>2, <2>3 DEF Goes
<1>5. CASE Collect
  BY <1>0, <1>5 DEF Collect, DraftInv, page, history, Gone
<1>6. ASSUME NEW u \in uploads, UploadDone(u) PROVE DraftInv'
  <2>1. u.take \in Content /\ u.take # Nothing
    <3>1. u.take \in Content
      BY SpeakingAssumption DEF Shells, TransferInv, Upload, Content
    <3> QED
      BY <3>1, NotContent
  <2>2. ~Gone
    BY DEF Shells, TransferInv
  <2>3. /\ cache' = u.take /\ shot' = u.take /\ mirror' \in {mirror, u.take}
        /\ committed' \in {committed, u.take} /\ UNCHANGED <<view, seeded, promised>>
    BY <1>6 DEF UploadDone, Persist, page
  <2> QED
    BY <1>0, <2>1, <2>2, <2>3 DEF DraftInv, Gone
<1>7. ASSUME NEW what \in Content, Promise(what), UNCHANGED <<keys, view, seeded, committed>>
      PROVE  DraftInv'
  BY <1>0, <1>7 DEF Promise, DraftInv, keys, Gone
<1>8. CASE Confirm
  BY <1>7, <1>8, ShownContent DEF Confirm, Finalize, page
<1>9. CASE Expire
  <2>1. CASE Idle
    BY <1>7, <1>9, <2>1, ShownContent DEF Expire, Finalize, page
  <2>2. CASE ~Idle
    BY <1>1, <1>9, <2>2 DEF Expire, page
  <2> QED
    BY <2>1, <2>2
<1>10. CASE SubmitWithoutAudio
  BY <1>7, <1>10, ShownContent DEF SubmitWithoutAudio, page
<1>11. ASSUME NEW q \in strays, StraySubmitted(q) PROVE DraftInv'
  BY <1>0, <1>11 DEF StraySubmitted, DraftInv, page, history, Gone
<1> QED
  BY <1>1, <1>2, <1>3, <1>4, <1>5, <1>6, <1>8, <1>9, <1>10, <1>11, Pages

\* Who marks a page that has reconciled its draft, one that shows none, and a save
\* that found the slot collected.
LEMMA MarksKept == ASSUME Shells, Next PROVE Marks'
<1>0. seeded \in BOOLEAN /\ blanked \in BOOLEAN /\ hidden \in BOOLEAN
  BY DEF Shells, Marks
<1>1. CASE UNCHANGED <<seeded, blanked, hidden>>
  BY <1>0, <1>1 DEF Marks
<1>2. CASE Load \/ Remount
  <2>1. UNCHANGED blanked /\ seeded' \in {seeded, TRUE} /\ hidden' \in BOOLEAN
    BY <1>0, <1>2, Zenon DEF Load, Remount, history
  <2> QED
    BY <1>0, <2>1, Zenon DEF Marks
<1>3. CASE Goes
  <2>1. CASE Reload \/ Submitted
    BY <1>0, <2>1 DEF Reload, Submitted, Quiet, Marks
  <2>2. ASSUME NEW to \in {"away", "error", "confirmed"}, Swap(to) PROVE Marks'
    <3>1. seeded' \in BOOLEAN
      BY <2>2, Zenon DEF Swap
    <3>2. blanked' \in BOOLEAN
      BY <1>0, <2>2, Zenon DEF Swap, Unmount
    <3>3. hidden' \in BOOLEAN
      BY <1>0, <2>2 DEF Swap, Unmount, Quiet
    <3> QED
      BY <3>1, <3>2, <3>3 DEF Marks
  <2> QED
    BY <1>3, <2>1, <2>2 DEF Goes
<1>4. CASE Issue
  <2>1. blanked' \in BOOLEAN
    <3>1. blanked' = Blank \/ blanked' = (blanked \/ Blank)
      BY <1>4 DEF Issue
    <3> QED
      BY <1>0, <3>1, Zenon DEF Blank
  <2> QED
    BY <1>0, <1>4, <2>1 DEF Issue, page, Marks
<1>5. ASSUME NEW q \in strays, StraySaved(q) \/ StrayLost(q) PROVE Marks'
  <2>1. blanked' \in BOOLEAN
    BY <1>5, Zenon DEF StraySaved, StrayLost, Heard
  <2> QED
    BY <1>0, <1>5, <2>1 DEF StraySaved, StrayLost, page, Marks
<1>6. ASSUME NEW u \in uploads, UploadDone(u) PROVE Marks'
  BY <1>0, <1>6 DEF UploadDone, Persist, page, Marks
<1>7. CASE \/ Start \/ Granted \/ Denied \/ GhostGranted \/ Stop \/ Seized \/ Dropped
           \/ Settled \/ ReRecord \/ RetryUpload \/ Collect
  BY <1>1, <1>7 DEF Start, Granted, Denied, GhostGranted, Stop, Seized, Dropped, Settled,
     ReRecord, RetryUpload, Collect, page, history
<1>8. CASE (\E u \in uploads : UploadFails(u)) \/ Saved \/ SaveSettles \/ Answered
           \/ \E q \in strays : StraySubmitted(q)
  BY <1>1, <1>8 DEF UploadFails, Saved, ServeSave, SaveBreaks, SaveSettles, Answered,
     ServeSubmit, SubmitBreaks, StraySubmitted, page, history
<1>9. CASE GoOffline \/ GoOnline \/ Lock \/ DeadlineSeen \/ TimePasses \/ ForeignSubmit
           \/ ForeignHeard \/ Confirm \/ Expire \/ SubmitWithoutAudio
  BY <1>1, <1>9 DEF GoOffline, GoOnline, Lock, DeadlineSeen, TimePasses, ForeignSubmit,
     ForeignHeard, Confirm, Expire, SubmitWithoutAudio, page, history
<1>10. CASE Submitted \/ Reload
  BY <1>3, <1>10 DEF Goes
<1> QED
  BY <1>2, <1>3, <1>4, <1>5, <1>6, <1>7, <1>8, <1>9, <1>10, WhoGoes DEF Next, Uploaded

-----------------------------------------------------------------------------
(* What goes on in the background.                                           *)

LEMMA WaitingTypes ==
    ASSUME Shells, view = "shell"
    PROVE  /\ Waiting \in Seq({"auto", "final"})
           /\ Flushes(Waiting) => Flushes(chain)
           /\ wire # Nothing => Head(chain) \in {"auto", "final"} /\ wire.body \in Content
                                /\ (Head(chain) = "final" => Flushes(chain))
<1>1. chain \in Seq({"auto", "final"}) /\ OneFlush(chain)
  BY DEF Shells, SavesInv
<1>2. ASSUME wire # Nothing PROVE chain # <<>> /\ wire \in Request
  BY <1>2 DEF Shells, SavesInv
<1>3. ASSUME wire # Nothing PROVE wire.body \in Content
  BY <1>2, <1>3 DEF Request
<1> QED
  BY <1>1, <1>2, <1>3, ChainShrinks DEF Waiting

\* The saves a shell leaves behind.
LEMMA BackgroundErrands ==
    ASSUME Shells, view = "shell"
    PROVE  /\ Background \in Seq(Errand)
           /\ \A i \in 1 .. Len(Background) :
                  /\ Background[i].do \in {"save", "flush"}
                  /\ Background[i].do = "flush" => Flushes(chain)
                  /\ IF i = 1 /\ wire # Nothing /\ wire.at = "sent"
                     THEN Background[i] = Put(Purpose(Head(chain)), wire.body)
                     ELSE Background[i].body = Draft
           /\ ~(wire # Nothing /\ wire.at = "sent") => Len(Background) = Len(Waiting)
<1> DEFINE S == {"auto", "final"}
           head == Put(Purpose(Head(chain)), wire.body)
           Errands == IF wire # Nothing /\ wire.at = "sent" THEN <<head>> ELSE <<>>
           later == [i \in DOMAIN Waiting |-> Put(Purpose(Waiting[i]), Draft)]
<1>1. Draft \in Content /\ \A x \in S : Purpose(x) = IF x = "final" THEN "flush" ELSE "save"
  BY ShownContent DEF Purpose
<1>2. /\ Waiting \in Seq(S) /\ DOMAIN Waiting = 1 .. Len(Waiting) /\ Len(Waiting) \in Nat
      /\ \A i \in 1 .. Len(Waiting) : Waiting[i] \in S
  BY WaitingTypes, ElementOfSeq
<1>3. \A i \in 1 .. Len(Waiting) :
          /\ Put(Purpose(Waiting[i]), Draft) \in Errand
          /\ Put(Purpose(Waiting[i]), Draft).do \in {"save", "flush"}
          /\ Put(Purpose(Waiting[i]), Draft).do = "flush" => Flushes(chain)
          /\ Put(Purpose(Waiting[i]), Draft).body = Draft
  <2> TAKE i \in 1 .. Len(Waiting)
  <2>1. Waiting[i] = "final" => Flushes(chain)
    BY <1>2, WaitingTypes DEF Flushes
  <2>2. Purpose(Waiting[i]) \in {"save", "flush"} /\ (Purpose(Waiting[i]) = "flush" => Flushes(chain))
    BY <1>1, <1>2, <2>1
  <2> QED
    BY <1>1, <2>2, ErrandParts
<1>4. later \in Seq(Errand) /\ Len(later) = Len(Waiting)
      /\ \A i \in 1 .. Len(Waiting) : later[i] = Put(Purpose(Waiting[i]), Draft)
  <2>1. later \in [1 .. Len(Waiting) -> Errand]
    BY <1>2, <1>3
  <2> QED
    BY <1>2, <2>1, SeqDef, LenProperties
<1>5. ASSUME wire # Nothing
      PROVE  /\ head \in Errand /\ head.do \in {"save", "flush"}
             /\ head.do = "flush" => Flushes(chain)
  <2>1. /\ Purpose(Head(chain)) \in {"save", "flush"} /\ wire.body \in Content
        /\ Purpose(Head(chain)) = "flush" => Flushes(chain)
    BY <1>1, <1>5, WaitingTypes
  <2> QED
    BY <2>1, ErrandParts
<1>6. Background = Errands \o later
  BY DEF Background
<1> HIDE DEF head, later
<1>7. CASE wire # Nothing /\ wire.at = "sent"
  <2>1. Errands = <<head>> /\ <<head>> \in Seq(Errand) /\ Len(<<head>>) = 1 /\ <<head>>[1] = head
    BY <1>5, <1>7, Singleton
  <2>2. /\ Background \in Seq(Errand) /\ Len(Background) = 1 + Len(Waiting)
        /\ \A i \in 1 .. Len(Background) : Background[i] = IF i <= 1 THEN head ELSE later[i - 1]
    BY <1>2, <1>4, <1>6, <2>1, ConcatProperties
  <2>3. \A i \in 1 .. Len(Background) : i = 1 \/ i - 1 \in 1 .. Len(Waiting)
    BY <1>2, <2>2
  <2> SUFFICES ASSUME NEW i \in 1 .. Len(Background)
               PROVE  /\ Background[i].do \in {"save", "flush"}
                      /\ Background[i].do = "flush" => Flushes(chain)
                      /\ IF i = 1 /\ wire # Nothing /\ wire.at = "sent"
                         THEN Background[i] = Put(Purpose(Head(chain)), wire.body)
                         ELSE Background[i].body = Draft
    BY <1>7, <2>2
  <2>4. CASE i = 1
    BY <1>5, <1>7, <2>2, <2>4 DEF head
  <2>5. CASE i # 1
    <3>1. Background[i] = later[i - 1] /\ i - 1 \in 1 .. Len(Waiting)
      BY <2>2, <2>3, <2>5
    <3> QED
      BY <1>3, <1>4, <3>1
  <2> QED
    BY <2>4, <2>5
<1>8. CASE ~(wire # Nothing /\ wire.at = "sent")
  <2>1. Background = later
    BY <1>4, <1>6, <1>8
  <2> QED
    BY <1>3, <1>4, <1>8, <2>1
<1> QED
  BY <1>7, <1>8

LEMMA InFlightErrand ==
    ASSUME NEW q \in Seq(Errand), q # <<>>
    PROVE  /\ InFlight(q) \in Seq(Errand) /\ InFlight(q) # <<>> /\ Len(InFlight(q)) = 1
           /\ InFlight(q)[1].body = Head(q).body /\ InFlight(q)[1].do \in {"save", "post"}
           /\ InFlight(q)[1].do = "post" => Head(q).do \in {"submit", "post"}
<1> DEFINE e == Head(q)
           what == CASE e.do = "submit" -> "post" [] e.do = "flush" -> "save" [] OTHER -> e.do
           f == [e EXCEPT !.do = what]
<1>1. e \in Errand
  BY ErrandsOf
<1> HIDE DEF e
<1>2. what \in {"save", "post"} /\ (what = "post" => e.do \in {"submit", "post"})
  BY <1>1 DEF Errand
<1> HIDE DEF what
<1>3. f \in Errand /\ f.do = what /\ f.body = e.body
  BY <1>1, <1>2 DEF Errand
<1>4. InFlight(q) = <<f>>
  BY DEF InFlight, f, what, e
<1> HIDE DEF f
<1>5. InFlight(q) \in Seq(Errand) /\ InFlight(q) # <<>> /\ Len(InFlight(q)) = 1 /\ InFlight(q)[1] = f
  BY <1>3, <1>4, Singleton
<1> QED
  BY <1>2, <1>3, <1>5 DEF e

\* The background of a page that goes.
LEMMA WhoStays ==
    ASSUME Shells, Goes
    PROVE  \/ strays' = strays
           \/ view = "shell" /\ strays' = strays \cup ({Background, Posting} \ {<<>>})
           \/ Reload
  BY DEF Goes, Submitted, Swap, Unmount

LEMMA Backgrounds ==
    ASSUME Next
    PROVE  \/ strays' = strays \/ Goes
           \/ \E q \in strays : StraySaved(q) \/ StraySubmitted(q) \/ StrayLost(q)
<1>1. CASE \/ Start \/ Granted \/ Denied \/ GhostGranted \/ Stop \/ Seized \/ Dropped
           \/ Settled \/ ReRecord \/ Load \/ Remount \/ Collect \/ RetryUpload \/ Issue \/ Uploaded
  BY <1>1 DEF Start, Granted, Denied, GhostGranted, Stop, Seized, Dropped, Settled, ReRecord,
     Load, Remount, Collect, RetryUpload, Issue, Uploaded, UploadDone, UploadFails
<1>2. CASE Saved \/ SaveSettles \/ Confirm \/ Expire \/ SubmitWithoutAudio \/ Answered
           \/ GoOffline \/ GoOnline \/ Lock \/ DeadlineSeen \/ TimePasses \/ ForeignSubmit
           \/ ForeignHeard
  BY <1>2 DEF Saved, ServeSave, SaveBreaks, SaveSettles, Confirm, Expire, SubmitWithoutAudio,
     Answered, ServeSubmit, SubmitBreaks, GoOffline, GoOnline, Lock, DeadlineSeen, TimePasses,
     ForeignSubmit, ForeignHeard
<1>3. CASE Submitted \/ Reload
  BY <1>3 DEF Goes
<1> QED
  BY <1>1, <1>2, <1>3, WhoGoes DEF Next

LEMMA PostingErrand ==
    /\ Posting \in Seq(Errand)
    /\ Posting # <<>> => /\ fin = "posted" \/ Flushed
                         /\ Len(Posting) = 1 /\ Posting[1] = Put("submit", 0)
<1>1. Put("submit", 0) \in Errand
  BY NoTake, ErrandParts
<1>2. <<Put("submit", 0)>> \in Seq(Errand) /\ Len(<<Put("submit", 0)>>) = 1
      /\ <<Put("submit", 0)>>[1] = Put("submit", 0)
  BY <1>1, Singleton
<1> QED
  BY <1>2 DEF Posting

\* The next errand of a chain, when its turn comes.
LEMMA ReadyErrand ==
    ASSUME Shells, NEW q \in Seq(Errand)
    PROVE  /\ Ready(q) \in Seq(Errand) /\ Len(Ready(q)) = Len(q)
           /\ \A i \in 1 .. Len(q) :
                  /\ Ready(q)[i].do = q[i].do
                  /\ Ready(q)[i].body = q[i].body \/ Ready(q)[i].body = Draft
           /\ Saves(q) => Ready(q)[1].body = Draft
           /\ q # <<>> => Ready(q) # <<>>
<1>1. Draft \in Content
  BY ShownContent
<1>2. CASE Saves(q)
  <2>1. 1 \in 1 .. Len(q) /\ Len(q) \in Nat /\ q[1] \in Errand
    BY <1>2, ErrandsOf DEF Saves
  <2>2. Ready(q) = [q EXCEPT ![1].body = Draft]
    BY <1>2 DEF Ready
  <2>3. [q[1] EXCEPT !.body = Draft] \in Errand
    BY <1>1, <2>1 DEF Errand
  <2>4. q \in [1 .. Len(q) -> Errand]
    OBVIOUS
  <2>5. Ready(q) \in [1 .. Len(q) -> Errand]
    BY <2>1, <2>2, <2>3, <2>4
  <2>6. Ready(q) \in Seq(Errand) /\ Len(Ready(q)) = Len(q)
    BY <2>1, <2>5, SeqDef, LenProperties
  <2>7. ASSUME NEW i \in 1 .. Len(q)
        PROVE  /\ Ready(q)[i].do = q[i].do
               /\ Ready(q)[i].body = q[i].body \/ Ready(q)[i].body = Draft
    <3>1. CASE i = 1
      BY <2>1, <2>2, <2>4, <3>1 DEF Errand
    <3>2. CASE i # 1
      BY <2>2, <2>4, <3>2
    <3> QED
      BY <3>1, <3>2
  <2>8. Ready(q)[1].body = Draft
    BY <2>1, <2>2, <2>4 DEF Errand
  <2>9. Ready(q) # <<>>
    BY <2>1, <2>6
  <2> QED
    BY <2>6, <2>7, <2>8, <2>9
<1>3. CASE ~Saves(q)
  BY <1>3 DEF Ready
<1> QED
  BY <1>2, <1>3

LEMMA RestErrands ==
    ASSUME Shells, NEW q \in strays, NEW r \in Rest(q)
    PROVE  r \in strays \/ (Tail(q) \in Seq(Errand) /\ Tail(q) # <<>> /\ r = Ready(Tail(q)))
<1>1. q \in Seq(Errand) /\ q # <<>>
  BY DEF Shells, StraysInv
<1>2. Tail(q) \in Seq(Errand)
  BY <1>1, ErrandsOf
<1>3. r \in strays \/ (r = Ready(Tail(q)) /\ r # <<>>)
  BY DEF Rest
<1>4. Tail(q) = <<>> => Ready(Tail(q)) = <<>>
  BY DEF Ready, Saves
<1> QED
  BY <1>2, <1>3, <1>4

LEMMA StraysKept == ASSUME Shells, Next PROVE StraysInv'
<1>0. /\ strays \subseteq Seq(Errand)
      /\ \A q \in strays : q # <<>>
  BY DEF Shells, StraysInv
<1>1. CASE strays' = strays
  BY <1>0, <1>1 DEF StraysInv
<1>2. CASE view = "shell" /\ strays' = strays \cup ({Background, Posting} \ {<<>>})
  BY <1>0, <1>2, BackgroundErrands, PostingErrand DEF StraysInv
<1>3. CASE Reload
  <2>1. ASSUME wire # Nothing
        PROVE  <<Put("save", wire.body)>> \in Seq(Errand) /\ <<Put("save", wire.body)>> # <<>>
    <3>1. wire \in Request
      BY <2>1 DEF Shells, SavesInv
    <3>2. Put("save", wire.body) \in Errand
      BY <3>1, ErrandParts DEF Request
    <3> QED
      BY <3>2, Singleton
  <2>2. <<Put("post", 0)>> \in Seq(Errand) /\ <<Put("post", 0)>> # <<>>
    <3>1. Put("post", 0) \in Errand
      BY NoTake, ErrandParts
    <3> QED
      BY <3>1, Singleton
  <2>3. \A q \in strays : InFlight(q) \in Seq(Errand) /\ InFlight(q) # <<>>
    BY <1>0, InFlightErrand
  <2>4. strays' \subseteq {InFlight(q) : q \in strays}
                  \cup (IF wire # Nothing THEN {<<Put("save", wire.body)>>} ELSE {})
                  \cup {<<Put("post", 0)>>}
    BY <1>3 DEF Reload
  <2> QED
    BY <2>1, <2>2, <2>3, <2>4 DEF StraysInv
<1>4. ASSUME NEW q \in strays, StraySaved(q) \/ StraySubmitted(q) \/ StrayLost(q)
      PROVE  StraysInv'
  <2>1. strays' \subseteq Rest(q) \cup {<<Put("submit", 0)>>}
    BY <1>4 DEF StraySaved, StraySubmitted, StrayLost
  <2>2. Rest(q) \subseteq Seq(Errand) /\ \A r \in Rest(q) : r # <<>>
    <3> SUFFICES ASSUME NEW r \in Rest(q) PROVE r \in Seq(Errand) /\ r # <<>>
      OBVIOUS
    <3>1. CASE r \in strays
      BY <1>0, <3>1
    <3>2. CASE Tail(q) \in Seq(Errand) /\ Tail(q) # <<>> /\ r = Ready(Tail(q))
      <4>1. Ready(Tail(q)) \in Seq(Errand) /\ Ready(Tail(q)) # <<>>
        BY <3>2, ReadyErrand
      <4> QED
        BY <3>2, <4>1
    <3> QED
      BY <3>1, <3>2, RestErrands
  <2>3. <<Put("submit", 0)>> \in Seq(Errand) /\ <<Put("submit", 0)>> # <<>>
    <3>1. Put("submit", 0) \in Errand
      BY NoTake, ErrandParts
    <3> QED
      BY <3>1, Singleton
  <2> QED
    BY <2>1, <2>2, <2>3 DEF StraysInv
<1> QED
  BY <1>1, <1>2, <1>3, <1>4, Backgrounds, WhoStays

-----------------------------------------------------------------------------
(* The flags.                                                                *)

LEMMA FlagsKept == ASSUME Shells, Next PROVE Flags'
<1>0. Flags
  BY DEF Shells
<1>1. ASSUME UNCHANGED <<readOnly, foreign, locked>>,
             online' \in {online, TRUE, FALSE}, busy' \in {busy, TRUE, FALSE},
             interrupted' \in {interrupted, TRUE, FALSE}, uploading' \in {uploading, TRUE, FALSE},
             failed' \in {failed, TRUE, FALSE}, unsaved' \in BOOLEAN,
             fired' \in {fired, TRUE, FALSE}, overtaken' \in BOOLEAN
      PROVE  Flags'
  <2>1. online' \in BOOLEAN /\ busy' \in BOOLEAN
    BY <1>0, <1>1, Zenon DEF Flags
  <2>2. interrupted' \in BOOLEAN /\ uploading' \in BOOLEAN
    BY <1>0, <1>1, Zenon DEF Flags
  <2>3. failed' \in BOOLEAN /\ fired' \in BOOLEAN
    BY <1>0, <1>1, Zenon DEF Flags
  <2> QED
    BY <1>0, <1>1, <2>1, <2>2, <2>3, Zenon DEF Flags
<1>2. unsaved \in BOOLEAN /\ overtaken \in BOOLEAN
  BY <1>0 DEF Flags
<1>3. CASE \/ Start \/ Granted \/ Denied \/ GhostGranted \/ Stop \/ Seized \/ Dropped
           \/ Settled \/ ReRecord
  BY <1>1, <1>2, <1>3 DEF Start, Granted, Denied, GhostGranted, Stop, Seized, Dropped, Settled,
     ReRecord, server, page, transfer, autosave, finalizer, history
<1>4. ASSUME NEW by \in {"background", "submit"}, StartUpload(by)
      PROVE  uploading' \in {uploading, TRUE, FALSE} /\ failed' \in {failed, TRUE, FALSE}
  <2>1. uploading' \in {TRUE, FALSE} /\ failed' \in {TRUE, FALSE}
    BY <1>4, Zenon DEF StartUpload
  <2> QED
    BY <2>1
<1>5. CASE Issue \/ RetryUpload \/ Uploaded
  <2>1. CASE Issue
    BY <1>1, <1>2, <2>1 DEF Issue, server, page, recorder, transfer, finalizer, history
  <2>2. CASE RetryUpload
    BY <1>1, <1>2, <1>4, <2>2 DEF RetryUpload, server, page, recorder, autosave, history
  <2>3. ASSUME NEW u \in uploads, UploadDone(u) PROVE Flags'
    BY <1>1, <1>2, <2>3 DEF UploadDone, server, page, recorder
  <2>4. ASSUME NEW u \in uploads, UploadFails(u) PROVE Flags'
    BY <1>1, <1>2, <2>4 DEF UploadFails, server, page, recorder, autosave, history
  <2> QED
    BY <1>5, <2>1, <2>2, <2>3, <2>4 DEF Uploaded
<1>6. CASE Confirm \/ SubmitWithoutAudio \/ Answered \/ Expire
  <2>1. CASE Confirm
    BY <1>1, <1>2, <1>4, <2>1 DEF Confirm, Finalize, server, page, recorder, transfer
  <2>2. CASE SubmitWithoutAudio \/ Answered
    BY <1>1, <1>2, <2>2 DEF SubmitWithoutAudio, Answered, ServeSubmit, SubmitBreaks, server, page,
       recorder, transfer, autosave, history
  <2>3. CASE Expire
    BY <1>1, <1>2, <1>4, <2>3 DEF Expire, Finalize, server, page, recorder, transfer
  <2> QED
    BY <1>6, <2>1, <2>2, <2>3
<1>7. ASSUME NEW body, NEW stray \in BOOLEAN, Apply(body, stray) PROVE overtaken' \in BOOLEAN
  BY <1>2, <1>7, Zenon DEF Apply
<1>8. CASE Saved
  <2>1. overtaken' \in BOOLEAN
    BY <1>2, <1>7, <1>8 DEF Saved, ServeSave, SaveBreaks
  <2> QED
    BY <1>1, <1>2, <1>8, <2>1 DEF Saved, ServeSave, SaveBreaks, page, recorder, transfer,
       finalizer
<1>9. CASE \E q \in strays : StraySaved(q) \/ StraySubmitted(q) \/ StrayLost(q)
  <2>1. PICK q \in strays : StraySaved(q) \/ StraySubmitted(q) \/ StrayLost(q)
    BY <1>9
  <2>2. overtaken' \in BOOLEAN
    BY <1>2, <1>7, <2>1 DEF StraySaved, StraySubmitted, StrayLost, history
  <2> QED
    BY <1>1, <1>2, <2>1, <2>2 DEF StraySaved, StraySubmitted, StrayLost, server, page, recorder,
       transfer, autosave, finalizer
<1>10. CASE GoOnline \/ TimePasses \/ ForeignSubmit
  <2>1. CASE GoOnline
    BY <1>1, <1>2, <1>4, <2>1 DEF GoOnline, server, recorder, transfer, history
  <2>2. CASE TimePasses \/ ForeignSubmit
    BY <1>1, <1>2, <2>2 DEF TimePasses, ForeignSubmit, page, recorder, transfer, autosave,
       finalizer, history
  <2> QED
    BY <1>10, <2>1, <2>2
<1>11. CASE GoOffline
  <2>1. unsaved' \in BOOLEAN
    BY <1>11, Zenon DEF GoOffline
  <2> QED
    BY <1>1, <1>2, <1>11, <2>1 DEF GoOffline, server, recorder, transfer, finalizer, history
<1>12. CASE Load \/ Remount
  BY <1>1, <1>2, <1>12 DEF Load, Remount, server, recorder, transfer, autosave, finalizer, history
<1>13. CASE SaveSettles
  <2>1. unsaved' \in BOOLEAN
    <3>1. unsaved' = unsaved \/ unsaved' = (wire.at # "ok")
      BY <1>13 DEF SaveSettles
    <3> QED
      BY <1>2, <3>1, Zenon
  <2>2. readOnly' \in BOOLEAN
    BY <1>13, Zenon DEF SaveSettles
  <2>3. UNCHANGED <<locked, online, foreign, busy, interrupted, uploading, failed, fired,
                    overtaken>>
    BY <1>13 DEF SaveSettles, server, transfer, history
  <2> QED
    BY <1>0, <2>1, <2>2, <2>3, Zenon DEF Flags
<1>14. CASE DeadlineSeen \/ ForeignHeard \/ Lock
  <2>1. /\ locked' \in {locked, TRUE} /\ readOnly' \in {readOnly, TRUE} /\ foreign' \in {foreign, TRUE}
        /\ UNCHANGED <<online, busy, interrupted, uploading, failed, unsaved, fired, overtaken>>
    BY <1>14 DEF DeadlineSeen, ForeignHeard, Lock, server, page, recorder, transfer, autosave,
       finalizer, history
  <2> QED
    BY <1>0, <2>1, Zenon DEF Flags
<1>15. CASE Goes
  <2>1. ASSUME UNCHANGED <<locked, online, overtaken>>, unsaved' \in {unsaved, FALSE},
               readOnly' \in {readOnly, FALSE}, foreign' \in {foreign, FALSE},
               busy' \in {busy, FALSE}, interrupted' \in {interrupted, FALSE},
               uploading' \in {uploading, FALSE}, failed' \in {failed, FALSE},
               fired' \in {fired, FALSE}
        PROVE  Flags'
    <3>1. unsaved' \in BOOLEAN /\ readOnly' \in BOOLEAN /\ foreign' \in BOOLEAN
      BY <1>0, <2>1, Zenon DEF Flags
    <3>2. busy' \in BOOLEAN /\ interrupted' \in BOOLEAN /\ uploading' \in BOOLEAN
      BY <1>0, <2>1, Zenon DEF Flags
    <3>3. failed' \in BOOLEAN /\ fired' \in BOOLEAN
      BY <1>0, <2>1, Zenon DEF Flags
    <3> QED
      BY <1>0, <2>1, <3>1, <3>2, <3>3, Zenon DEF Flags
  <2>2. CASE Reload \/ Submitted
    BY <2>1, <2>2 DEF Reload, Submitted, Quiet, Dismantle, server, history
  <2>3. ASSUME NEW to \in {"away", "error", "confirmed"}, Swap(to) PROVE Flags'
    BY <2>1, <2>3 DEF Swap, Unmount, Quiet, Dismantle, server, history, recorder, transfer,
       finalizer
  <2> QED
    BY <1>15, <2>2, <2>3 DEF Goes
<1>16. CASE Reload \/ Submitted
  BY <1>15, <1>16 DEF Goes
<1>17. CASE Collect
  BY <1>1, <1>2, <1>17 DEF Collect, server, page, recorder, transfer, autosave, finalizer, history
<1> QED
  BY <1>3, <1>5, <1>6, <1>8, <1>9, <1>10, <1>11, <1>12, <1>13, <1>14, <1>15, <1>16, <1>17, WhoGoes
     DEF Next

-----------------------------------------------------------------------------
(* The type invariant, and the microphone.                                   *)

LEMMA ShellsInitially == Init => Shells
<1> SUFFICES ASSUME Init PROVE Shells
  OBVIOUS
<1>1. 0 \in 0 .. MaxTroubles /\ 0 \in Content /\ 1 \in Content /\ stored \in Content /\ 0 < MaxTakes
      /\ stored < MaxTakes + 1
  BY SpeakingAssumption DEF Content, Init
<1>2. Flags /\ Marks
  BY Zenon DEF Init, Flags, Marks
<1>3. ServerInv
  BY <1>1, SpeakingAssumption DEF Init, ServerInv, EditorReadOnly
<1>4. DraftInv
  BY <1>1 DEF Init, DraftInv, Gone
<1>5. RecorderInv
  BY <1>1 DEF Init, RecorderInv, Gone
<1>6. TransferInv
  BY <1>1 DEF Init, TransferInv, Gone
<1>7. SavesInv
  BY DEF Init, SavesInv, Gone, Flushes, OneFlush
<1>8. StraysInv
  BY DEF Init, StraysInv
<1> QED
  BY <1>2, <1>3, <1>4, <1>5, <1>6, <1>7, <1>8 DEF Shells

LEMMA ShellsKept == Shells /\ [Next]_vars => Shells'
<1>1. ASSUME Shells, Next PROVE Shells'
  BY <1>1, FlagsKept, MarksKept, ServerKept, DraftKept, RecorderKept, TransfersKept, SavesKept,
     StraysKept
     DEF Shells
<1>2. ASSUME Shells, UNCHANGED vars PROVE Shells'
  <2>1. Flags' /\ Marks' /\ ServerInv'
    BY <1>2 DEF vars, Shells, Flags, Marks, ServerInv, EditorReadOnly, AcceptsSave, AcceptsSubmit
  <2>2. DraftInv' /\ RecorderInv'
    BY <1>2 DEF vars, Shells, DraftInv, RecorderInv, Gone
  <2>3. TransferInv' /\ SavesInv' /\ StraysInv'
    BY <1>2 DEF vars, Shells, TransferInv, SavesInv, StraysInv, Gone, AcceptsSave, AcceptsSubmit
  <2> QED
    BY <2>1, <2>2, <2>3 DEF Shells
<1> QED
  BY <1>1, <1>2

LEMMA ShellsTyped == Shells => TypeOK
<1> SUFFICES ASSUME Shells PROVE TypeOK
  OBVIOUS
<1>1. /\ locked \in BOOLEAN /\ online \in BOOLEAN /\ readOnly \in BOOLEAN /\ foreign \in BOOLEAN
      /\ busy \in BOOLEAN /\ interrupted \in BOOLEAN /\ uploading \in BOOLEAN
      /\ failed \in BOOLEAN /\ unsaved \in BOOLEAN /\ fired \in BOOLEAN /\ overtaken \in BOOLEAN
      /\ seeded \in BOOLEAN /\ blanked \in BOOLEAN /\ hidden \in BOOLEAN
  BY Zenon DEF Shells, Flags, Marks
<1>2. /\ stored \in Content /\ sealed \in {"no", "own", "foreign"}
      /\ clock \in {"none", "running", "zero", "over"}
      /\ mirror \in Content \cup {Nothing} /\ cache \in Content \cup {Nothing}
      /\ view \in {"away", "shell", "error", "confirmed"}
      /\ troubles \in 0 .. MaxTroubles /\ promised \in Content /\ committed \in Content
      /\ shot \in Content
      /\ view = "shell" => seeded /\ (cache # Nothing => shot = cache)
  BY DEF Shells, ServerInv, DraftInv, Gone
<1>3. /\ status \in {"idle", "requesting", "recording", "recorded", "refused", "interrupted"}
      /\ rec \in {"none", "recording", "stopping"}
      /\ live \in Nat /\ asked \in Nat /\ ghosts \in Nat /\ take \in Content /\ takes \in Content
      /\ busy <=> asked > 0 \/ rec # "none"
      /\ view # "shell" => take = 0 /\ ~busy /\ asked = 0
  BY DEF Shells, RecorderInv, Gone
<1>4. /\ uploaded \in Content /\ uploads \subseteq Upload
      /\ chain \in Seq({"auto", "final"}) /\ wire \in Request \cup {Nothing}
      /\ fin \in {"none", "retry", "uploading", "flushing", "posted", "answered"}
      /\ strays \subseteq Seq(Errand)
      /\ wire # Nothing => chain # <<>>
      /\ view # "shell" => chain = <<>> /\ fin = "none" /\ uploads = {}
  BY DEF Shells, TransferInv, SavesInv, StraysInv, Gone
<1> QED
  BY <1>1, <1>2, <1>3, <1>4 DEF TypeOK

LEMMA ShellsShowTheMic == Shells => MicIsShown
  BY DEF Shells, RecorderInv, Gone, MicIsShown

\* A request in flight is always the head of the chain of saves, no page without a
\* shell has a take, an upload, a save or a finalizer, and the recorder is busy
\* exactly while a prompt or a recording is open (useMediaRecorder, the shell's
\* refs, useAttemptAutosave).
THEOREM TypeCorrect == Spec => []TypeOK
<1>1. Init => Shells
  BY ShellsInitially
<1>2. Shells /\ [Next]_vars => Shells'
  BY ShellsKept
<1>3. Shells => TypeOK
  BY ShellsTyped
<1> QED
  BY <1>1, <1>2, <1>3, PTL DEF Spec

\* At most one stream is open, and only while the page says that it records,
\* whatever happens to the page during a prompt (useMediaRecorder).
THEOREM MicShown == Spec => []MicIsShown
<1>1. Init => Shells
  BY ShellsInitially
<1>2. Shells /\ [Next]_vars => Shells'
  BY ShellsKept
<1>3. Shells => MicIsShown
  BY ShellsShowTheMic
<1> QED
  BY <1>1, <1>2, <1>3, PTL DEF Spec

-----------------------------------------------------------------------------
(* The order of the takes.                                                   *)

TakesInv ==
    /\ take <= takes /\ shot <= takes /\ committed <= takes
    /\ mirror # Nothing => mirror <= takes
    /\ cache # Nothing => cache <= takes
    /\ take # 0 => shot <= take /\ committed <= take
    /\ uploaded # 0 => uploaded <= shot /\ ~Gone
    /\ \A u \in uploads : /\ shot <= u.take /\ committed <= u.take /\ u.take <= takes
                          /\ take # 0 => u.take <= take

\* As long as the server takes saves there is nothing newer than the mirror has had.
Level ==
    /\ shot <= committed
    /\ cache # Nothing => cache <= committed
    /\ mirror # Nothing => mirror <= committed
    /\ wire # Nothing => wire.body <= committed
    /\ \A q \in strays : \A i \in 1 .. Len(q) : q[i].body <= committed

BodiesInv == stored <= committed /\ (AcceptsSave => Level)

Order == TakesInv /\ BodiesInv

LEMMA Numbers ==
    ASSUME Shells
    PROVE  /\ take \in Nat /\ takes \in Nat /\ uploaded \in Nat /\ committed \in Nat
           /\ stored \in Nat /\ promised \in Nat /\ shot \in Nat /\ Draft \in Nat
           /\ cache # Nothing => cache \in Nat /\ Draft = cache
           /\ cache = Nothing => Draft = 0
           /\ mirror # Nothing => mirror \in Nat
           /\ 0 # Nothing
           /\ \A u \in uploads : ~Gone /\ u.take \in Nat /\ u.take # 0 /\ u.take # Nothing
           /\ wire # Nothing => ~Gone /\ wire.body \in Nat
<1>1. /\ take \in Nat /\ takes \in Nat /\ uploaded \in Nat /\ committed \in Nat
      /\ stored \in Nat /\ promised \in Nat /\ shot \in Nat
      /\ cache # Nothing => cache \in Nat
      /\ mirror # Nothing => mirror \in Nat
      /\ 0 # Nothing
  BY NoTake, NotContent DEF Shells, RecorderInv, TransferInv, DraftInv, ServerInv
<1>2. \A u \in uploads : ~Gone /\ u.take \in Nat /\ u.take # 0 /\ u.take # Nothing
  BY SpeakingAssumption DEF Shells, TransferInv, Upload
<1>3. wire # Nothing => ~Gone /\ wire.body \in Nat
  BY NotContent DEF Shells, SavesInv, Request
<1> QED
  BY <1>1, <1>2, <1>3 DEF Draft

LEMMA TakesGrow ==
    ASSUME Shells, Next
    PROVE  takes' \in {takes, takes + 1} /\ takes' >= takes /\ takes' \in Nat
<1>1. takes \in Nat
  BY Numbers
<1>2. takes' \in {takes, takes + 1}
  <2>1. CASE UNCHANGED recorder
    BY <2>1 DEF recorder
  <2>2. CASE Load \/ Remount
    BY <2>2 DEF Load, Remount, recorder
  <2>3. CASE Goes
    <3>1. CASE Reload \/ Submitted
      BY <3>1 DEF Reload, Submitted, Quiet, Dismantle
    <3>2. ASSUME NEW to \in {"away", "error", "confirmed"}, Swap(to) PROVE takes' = takes
      BY <3>2 DEF Swap, Unmount, Quiet, Dismantle, recorder
    <3> QED
      BY <2>3, <3>1, <3>2 DEF Goes
  <2>4. CASE \/ Start \/ Granted \/ Denied \/ GhostGranted \/ Stop \/ Seized \/ Dropped
             \/ Settled \/ ReRecord
    BY <2>4 DEF Start, Granted, Denied, GhostGranted, Stop, Seized, Dropped, Settled, ReRecord
  <2>5. CASE SaveSettles \/ DeadlineSeen \/ ForeignHeard
    BY <2>5 DEF SaveSettles, DeadlineSeen, ForeignHeard
  <2> QED
    BY <2>1, <2>2, <2>3, <2>4, <2>5, Recorders
<1> QED
  BY <1>1, <1>2

\* Steps that move neither takes, keys nor uploads.
LEMMA TakesStay ==
    ASSUME TakesInv, UNCHANGED <<take, takes, keys, uploaded, uploads, committed>>,
           Gone' => Gone
    PROVE  TakesInv'
  BY DEF TakesInv, keys

LEMMA StartUploadOrdered ==
    ASSUME Shells, TakesInv, NEW by \in {"background", "submit"}, StartUpload(by), Held,
           view = "shell", view' = view, UNCHANGED <<take, takes, keys, committed>>
    PROVE  TakesInv'
<1>1. uploads' = {[take |-> take, by |-> by]} /\ uploaded' = uploaded /\ take # 0
  BY DEF StartUpload, Survivors, Held
<1>2. /\ take \in Nat /\ takes \in Nat /\ take <= takes /\ shot <= take /\ committed <= take
  BY <1>1, Numbers DEF TakesInv
<1>3. \A u \in uploads' : u.take = take
  BY <1>1
<1> QED
  BY <1>1, <1>2, <1>3 DEF TakesInv, Gone, keys

LEMMA NoShellNoTake ==
    ASSUME Shells, TakesInv, Gone PROVE take = 0 /\ uploads = {} /\ uploaded = 0 /\ shot = 0
  BY DEF Shells, RecorderInv, TransferInv, DraftInv, TakesInv

LEMMA TakesKept == ASSUME Shells, Order, Next PROVE TakesInv'
<1>0. TakesInv /\ BodiesInv
  BY DEF Order
<1>1. CASE UNCHANGED <<view, recorder, transfer, keys, committed>>
  BY <1>0, <1>1, TakesStay DEF recorder, transfer, Gone
<1>2. ASSUME Gone, cache' \in {cache, Nothing} \/ (cache' \in Nat /\ cache' <= takes),
             mirror' \in {mirror, cache, Nothing} \/ mirror' = cache',
             shot' \in {0, Draft} \/ (shot' = cache' /\ cache' # Nothing),
             UNCHANGED <<recorder, transfer, committed>>
      PROVE  TakesInv'
  <2>1. /\ UNCHANGED <<take, takes, uploaded, uploads>>
        /\ take = 0 /\ uploads = {} /\ uploaded = 0
    BY <1>0, <1>2, NoShellNoTake DEF recorder, transfer
  <2>2. /\ cache' # Nothing => cache' <= takes
        /\ Draft <= takes /\ (mirror' # Nothing => mirror' <= takes)
    BY <1>0, <1>2, Numbers DEF TakesInv
  <2>3. shot' <= takes
    BY <1>0, <1>2, <2>2, Numbers DEF TakesInv
  <2> QED
    BY <1>0, <1>2, <2>1, <2>2, <2>3 DEF TakesInv
<1>3. CASE Load
  <2>1. cache' \in Nat /\ cache' # Nothing /\ mirror' = cache' /\ cache' <= takes
    BY <1>0, <1>3, LoadedDraft, NotContent, Numbers DEF TakesInv, BodiesInv
  <2> QED
    BY <1>2, <1>3, <2>1 DEF Load, Gone, history
<1>4. CASE Remount
  BY <1>2, <1>4 DEF Remount, Gone
<1>5. CASE Goes
  <2>1. ASSUME take' = 0, takes' = takes, uploaded' = 0, uploads' = {}, shot' = 0,
               mirror' \in {mirror, Nothing}, cache' \in {cache, Nothing}, committed' = committed
        PROVE  TakesInv'
    BY <1>0, <2>1, Numbers DEF TakesInv
  <2>2. CASE Reload \/ Submitted
    BY <2>1, <2>2 DEF Reload, Submitted, Quiet, Dismantle
  <2>3. ASSUME NEW to \in {"away", "error", "confirmed"}, Swap(to) PROVE TakesInv'
    <3>1. CASE view = "shell"
      BY <2>1, <2>3, <3>1 DEF Swap, Unmount, Quiet, Dismantle
    <3>2. CASE view # "shell"
      <4>1. take = 0 /\ uploads = {} /\ uploaded = 0 /\ shot = 0
        BY <1>0, <3>2, NoShellNoTake DEF Gone
      <4> QED
        BY <2>1, <2>3, <3>2, <4>1 DEF Swap, recorder, transfer
    <3> QED
      BY <3>1, <3>2
  <2> QED
    BY <1>5, <2>2, <2>3 DEF Goes
<1>6. CASE Collect
  BY <1>0, <1>6 DEF Collect, page, recorder, transfer, history, TakesInv, Gone
<1>7. CASE Start \/ ReRecord
  <2>1. /\ take' = 0 /\ view' = view
        /\ UNCHANGED <<takes, mirror, cache, shot, uploaded, uploads, committed>>
    BY <1>7 DEF Start, ReRecord, keys, page, transfer, history
  <2> QED
    BY <1>0, <2>1, Numbers DEF TakesInv, Gone
<1>8. CASE Settled
  <2>1. /\ take' = takes + 1 /\ takes' = takes + 1 /\ view' = view
        /\ UNCHANGED <<mirror, cache, shot, uploaded, uploads, committed>>
    BY <1>8 DEF Settled, keys, page, transfer, history
  <2>2. \A u \in uploads : u.take <= takes + 1
    BY <1>0, Numbers DEF TakesInv
  <2>3. /\ mirror # Nothing => mirror <= takes + 1
        /\ cache # Nothing => cache <= takes + 1
        /\ shot <= takes + 1 /\ committed <= takes + 1
    BY <1>0, Numbers DEF TakesInv
  <2> QED
    BY <1>0, <2>1, <2>2, <2>3, Numbers DEF TakesInv, Gone
<1>9. CASE \/ Granted \/ Denied \/ GhostGranted \/ Stop \/ Seized \/ Dropped
           \/ SaveSettles \/ DeadlineSeen \/ ForeignHeard
  BY <1>0, <1>9, TakesStay DEF Granted, Denied, GhostGranted, Stop, Seized, Dropped, SaveSettles,
     DeadlineSeen, ForeignHeard, page, transfer, history, Gone
<1>10. ASSUME NEW u \in uploads, UploadDone(u) PROVE TakesInv'
  <2>1. /\ uploads' = uploads \ {u} /\ cache' = u.take /\ uploaded' = u.take /\ shot' = u.take
        /\ mirror' \in {mirror, u.take} /\ committed' \in {committed, u.take}
        /\ view' = view /\ UNCHANGED <<take, takes>>
    BY <1>10 DEF UploadDone, Persist, page, recorder
  <2>2. /\ uploads' = {} /\ u.take <= takes /\ u.take \in Nat /\ committed <= u.take
        /\ (take # 0 => u.take <= take) /\ ~Gone
    BY <1>0, <2>1, Numbers DEF Shells, TransferInv, TakesInv
  <2> QED
    BY <1>0, <2>1, <2>2, Numbers DEF TakesInv, Gone
<1>11. ASSUME NEW u \in uploads, UploadFails(u) PROVE TakesInv'
  <2>1. /\ uploads' \subseteq uploads /\ view' = view
        /\ UNCHANGED <<take, takes, mirror, cache, shot, uploaded, committed>>
    BY <1>11 DEF UploadFails, page, recorder, keys, history
  <2> QED
    BY <1>0, <2>1 DEF TakesInv, Gone
<1>12. CASE RetryUpload
  BY <1>0, <1>12, StartUploadOrdered DEF RetryUpload, page, recorder, history
<1>13. ASSUME Finalize, view = "shell", view' = view, UNCHANGED <<keys, recorder, committed>>
       PROVE  TakesInv'
  <2>1. CASE Held
    BY <1>0, <1>13, <2>1, StartUploadOrdered DEF Finalize, recorder
  <2>2. CASE ~Held
    BY <1>0, <1>13, <2>2, TakesStay DEF Finalize, transfer, recorder, Gone
  <2> QED
    BY <2>1, <2>2
<1>14. CASE Confirm
  BY <1>13, <1>14 DEF Confirm, page
<1>15. CASE Expire
  <2>1. CASE Idle
    BY <1>13, <1>15, <2>1 DEF Expire, page
  <2>2. CASE ~Idle
    BY <1>0, <1>15, <2>2, TakesStay DEF Expire, page, transfer, recorder, Gone
  <2> QED
    BY <2>1, <2>2
<1>16. CASE SubmitWithoutAudio \/ Answered
  BY <1>0, <1>16, TakesStay DEF SubmitWithoutAudio, Answered, ServeSubmit, SubmitBreaks, page,
     transfer, recorder, history, Gone
<1>17. CASE GoOnline
  <2>1. CASE Reconnects /\ Held /\ ~uploading
    BY <1>0, <1>17, <2>1, StartUploadOrdered DEF GoOnline, Reconnects, recorder, history
  <2>2. CASE ~(Reconnects /\ Held /\ ~uploading)
    BY <1>0, <1>17, <2>2, TakesStay DEF GoOnline, transfer, recorder, history, Gone
  <2> QED
    BY <2>1, <2>2
<1>18. ASSUME NEW q \in strays, StraySubmitted(q) PROVE TakesInv'
  <2>1. /\ mirror' \in {mirror, Nothing} /\ view' = view
        /\ UNCHANGED <<take, takes, cache, shot, uploaded, uploads, committed>>
    BY <1>18 DEF StraySubmitted, page, recorder, transfer, history
  <2> QED
    BY <1>0, <2>1 DEF TakesInv, Gone
<1> QED
  BY <1>1, <1>3, <1>4, <1>5, <1>6, <1>7, <1>8, <1>9, <1>10, <1>11, <1>12, <1>14, <1>15, <1>16,
     <1>17, <1>18, Recorders, Transfers, Pages DEF Uploaded

\* The mirror only takes newer keys.
LEMMA CommittedGrows ==
    ASSUME Shells, Order, Next
    PROVE  committed' \in Nat /\ committed' >= committed
<1>1. committed \in Nat
  BY Numbers
<1>2. CASE committed' = committed
  BY <1>1, <1>2
<1>3. ASSUME NEW u \in uploads, UploadDone(u) PROVE committed' \in Nat /\ committed' >= committed
  <2>1. committed' \in {committed, u.take} /\ u.take \in Nat /\ u.take >= committed
    BY <1>3, Numbers DEF UploadDone, Persist, Order, TakesInv
  <2> QED
    BY <1>1, <2>1
<1>4. CASE Load \/ Remount \/ Goes \/ Collect \/ Confirm \/ Expire \/ SubmitWithoutAudio
           \/ \E q \in strays : StraySubmitted(q)
  BY <1>2, <1>4 DEF Load, Remount, Goes, Reload, Submitted, Swap, Collect, Confirm, Expire,
     SubmitWithoutAudio, StraySubmitted, history
<1> QED
  BY <1>2, <1>3, <1>4, Pages

-----------------------------------------------------------------------------
(* The bodies of the saves.                                                  *)

LEMMA StrayTypes ==
    ASSUME Shells, NEW q \in strays
    PROVE  /\ q \in Seq(Errand) /\ q # <<>> /\ Head(q) = q[1] /\ 1 \in 1 .. Len(q)
           /\ \A i \in 1 .. Len(q) : q[i].body \in Content /\ q[i].body \in Nat
<1>1. q \in Seq(Errand) /\ q # <<>>
  BY DEF Shells, StraysInv
<1>2. \A i \in 1 .. Len(q) : q[i] \in Errand
  BY <1>1, ElementOfSeq
<1> QED
  BY <1>1, <1>2, ErrandsOf, NotContent DEF Errand

LEMMA StoredLow == ASSUME Shells, Order, Next PROVE stored' <= committed'
<1>0. /\ stored <= committed /\ stored \in Nat /\ committed \in Nat
      /\ committed' \in Nat /\ committed' >= committed
  BY CommittedGrows, Numbers DEF Order, BodiesInv
<1>1. CASE stored' = stored
  BY <1>0, <1>1
<1>2. CASE Saved
  <2>1. CASE AcceptsSave
    <3>1. wire # Nothing /\ stored' \in {stored, wire.body}
      BY <1>2 DEF Saved, ServeSave, SaveBreaks, Apply
    <3>2. wire.body \in Nat /\ wire.body <= committed
      BY <2>1, <3>1, Numbers DEF Order, BodiesInv, Level
    <3> QED
      BY <1>0, <3>1, <3>2
  <2>2. CASE ~AcceptsSave
    BY <1>1, <1>2, <2>2 DEF Saved, ServeSave, SaveBreaks, Apply
  <2> QED
    BY <2>1, <2>2
<1>3. ASSUME NEW q \in strays, StraySaved(q) PROVE stored' <= committed'
  <2>1. CASE AcceptsSave
    <3>1. stored' \in {stored, Head(q).body}
      BY <1>3 DEF StraySaved, Apply
    <3>2. Head(q).body \in Nat /\ Head(q).body <= committed
      BY <2>1, StrayTypes DEF Order, BodiesInv, Level
    <3> QED
      BY <1>0, <3>1, <3>2
  <2>2. CASE ~AcceptsSave
    BY <1>1, <1>3, <2>2 DEF StraySaved, Apply
  <2> QED
    BY <2>1, <2>2
<1>4. CASE Answered \/ Lock \/ TimePasses \/ ForeignSubmit \/ \E q \in strays : StraySubmitted(q)
  BY <1>1, <1>4 DEF Answered, ServeSubmit, SubmitBreaks, Lock, TimePasses, ForeignSubmit,
     StraySubmitted
<1> QED
  BY <1>1, <1>2, <1>3, <1>4, Servers DEF server

LEMMA KeysLow ==
    ASSUME Shells, Order, Next, AcceptsSave, Level
    PROVE  \/ EditorReadOnly
           \/ /\ shot' <= committed'
              /\ cache' # Nothing => cache' <= committed'
              /\ mirror' # Nothing => mirror' <= committed'
<1>0. /\ committed \in Nat /\ committed' \in Nat /\ committed' >= committed /\ stored <= committed
      /\ 0 <= committed
  BY CommittedGrows, Numbers DEF Order, BodiesInv
<1> DEFINE Low(n) == n # Nothing => n <= committed'
<1>1. /\ \A n \in {shot, Draft, mirror, cache, stored, Nothing, 0} : Low(n)
      /\ shot # Nothing /\ Draft # Nothing
  BY <1>0, Numbers, NotContent, ShownContent DEF Level, Shells, DraftInv
<1> SUFFICES EditorReadOnly \/ (shot' # Nothing /\ Low(shot') /\ Low(cache') /\ Low(mirror'))
  OBVIOUS
<1>2. ASSUME shot' \in {shot, Draft, 0}, mirror' \in {mirror, cache, Nothing},
             cache' \in {cache, Nothing}
      PROVE  shot' # Nothing /\ Low(shot') /\ Low(cache') /\ Low(mirror')
  BY <1>1, <1>2, Numbers
<1> HIDE DEF Low
<1>3. CASE UNCHANGED keys
  BY <1>2, <1>3 DEF keys
<1>4. CASE Load
  <2>1. cache' \in {cache, mirror, stored} /\ shot' = cache' /\ mirror' = cache' /\ cache' # Nothing
    BY <1>4, LoadedDraft, NotContent DEF Load, Merge
  <2> QED
    BY <1>1, <2>1
<1>5. CASE Remount \/ Collect
  BY <1>2, <1>5 DEF Remount, Collect
<1>6. CASE Goes
  <2>1. CASE Reload \/ Submitted
    BY <1>2, <2>1 DEF Reload, Submitted, Quiet
  <2>2. ASSUME NEW to \in {"away", "error", "confirmed"}, Swap(to)
        PROVE  shot' # Nothing /\ Low(shot') /\ Low(cache') /\ Low(mirror')
    BY <1>2, <2>2 DEF Swap, Unmount, Quiet
  <2> QED
    BY <1>6, <2>1, <2>2 DEF Goes
<1>7. ASSUME NEW u \in uploads, UploadDone(u), ~EditorReadOnly
      PROVE  shot' # Nothing /\ Low(shot') /\ Low(cache') /\ Low(mirror')
  <2>1. cache' = u.take /\ shot' = u.take /\ mirror' = u.take /\ committed' = u.take
    BY <1>7 DEF UploadDone, Persist
  <2> QED
    BY <2>1, Numbers DEF Low
<1>8. ASSUME NEW q \in strays, StraySubmitted(q)
      PROVE  shot' # Nothing /\ Low(shot') /\ Low(cache') /\ Low(mirror')
  BY <1>2, <1>8 DEF StraySubmitted
<1>9. CASE Confirm \/ Expire \/ SubmitWithoutAudio
  BY <1>3, <1>9 DEF Confirm, Expire, SubmitWithoutAudio
<1> QED
  BY <1>3, <1>4, <1>5, <1>6, <1>7, <1>8, <1>9, Pages

\* What becomes of a save on its way.
LEMMA WireBodies ==
    ASSUME Shells, Next
    PROVE  \/ wire' = Nothing
           \/ Issue /\ wire'.body = Draft
           \/ /\ wire # Nothing /\ wire' # Nothing /\ wire'.body = wire.body
              /\ wire' = wire \/ Saved
<1>1. wire # Nothing => view = "shell" /\ wire \in Request
  BY DEF Shells, SavesInv, Gone
<1>2. CASE UNCHANGED wire
  BY <1>2
<1>3. CASE Goes
  <2>1. ASSUME NEW to \in {"away", "error", "confirmed"}, Swap(to) PROVE wire' = Nothing
    BY <1>1, <2>1 DEF Swap, Unmount, Quiet
  <2> QED
    BY <1>3, <2>1 DEF Goes, Reload, Submitted, Quiet
<1>4. CASE Issue
  BY <1>4 DEF Issue
<1>5. CASE Saved
  <2>1. wire # Nothing /\ wire \in Request
    BY <1>1, <1>5 DEF Saved, ServeSave, SaveBreaks
  <2>2. wire' \in Request /\ wire'.body = wire.body
    BY <1>5, <2>1 DEF Saved, ServeSave, SaveBreaks, Request
  <2> QED
    BY <1>5, <2>1, <2>2, NotRequest
<1>6. CASE SaveSettles
  BY <1>6 DEF SaveSettles
<1>7. CASE Load \/ Remount \/ Uploaded \/ RetryUpload \/ Confirm \/ Expire \/ SubmitWithoutAudio
           \/ Answered \/ GoOnline \/ DeadlineSeen
  BY <1>2, <1>7 DEF Load, Remount, Uploaded, UploadDone, UploadFails, RetryUpload, Confirm,
     Expire,
     SubmitWithoutAudio, Answered, ServeSubmit, SubmitBreaks, GoOnline, DeadlineSeen, autosave
<1> QED
  BY <1>2, <1>3, <1>4, <1>5, <1>6, <1>7, Savers

\* What is new in the background.
LEMMA Newcomers ==
    ASSUME Shells, Next, NEW q \in strays'
    PROVE  \/ q \in strays
           \/ Goes /\ view = "shell" /\ q = Background /\ q # <<>> /\ ~Reload
           \/ Goes /\ view = "shell" /\ q = Posting /\ q # <<>>
           \/ Reload /\ \E r \in strays : q = InFlight(r)
           \/ Reload /\ wire # Nothing /\ q = <<Put("save", wire.body)>>
           \/ Reload /\ fin = "posted" /\ q = <<Put("post", 0)>>
           \/ \E r \in strays : /\ StraySaved(r) \/ StraySubmitted(r) \/ StrayLost(r)
                               /\ Tail(r) \in Seq(Errand) /\ Tail(r) # <<>> /\ q = Ready(Tail(r))
           \/ \E r \in strays : StraySaved(r) /\ Head(r).do = "flush" /\ q = <<Put("submit", 0)>>
<1>1. CASE Goes
  <2>1. CASE Reload
    BY <2>1 DEF Reload
  <2> QED
    BY <1>1, <2>1, WhoStays
<1>2. ASSUME NEW r \in strays, StraySaved(r) \/ StraySubmitted(r) \/ StrayLost(r)
      PROVE  \/ q \in Rest(r)
             \/ StraySaved(r) /\ Head(r).do = "flush" /\ q = <<Put("submit", 0)>>
  <2>1. CASE StrayLost(r) \/ StraySubmitted(r)
    BY <2>1 DEF StrayLost, StraySubmitted
  <2>2. CASE StraySaved(r)
    <3>1. CASE Head(r).do = "flush"
      BY <2>2, <3>1 DEF StraySaved
    <3>2. CASE Head(r).do # "flush"
      BY <2>2, <3>2 DEF StraySaved
    <3> QED
      BY <3>1, <3>2
  <2> QED
    BY <1>2, <2>1, <2>2
<1> QED
  BY <1>1, <1>2, Backgrounds, RestErrands

LEMMA StraysLow ==
    ASSUME Shells, Order, Next, AcceptsSave, Level, NEW q \in strays', NEW i \in 1 .. Len(q)
    PROVE  q[i].body <= committed'
<1>0. /\ committed \in Nat /\ committed' \in Nat /\ committed' >= committed
      /\ Draft \in Nat /\ Draft <= committed
      /\ wire # Nothing => wire.body \in Nat /\ wire.body <= committed
  BY CommittedGrows, Numbers DEF Level
<1> DEFINE Low(n) == n \in Nat /\ n <= committed
<1> SUFFICES Low(q[i].body)
  BY <1>0
<1>1. \A r \in strays : \A k \in 1 .. Len(r) : Low(r[k].body)
  BY StrayTypes DEF Level
<1>2. Low(0) /\ Low(Draft) /\ (wire # Nothing => Low(wire.body))
  BY <1>0
<1> HIDE DEF Low
<1>3. CASE q \in strays
  BY <1>1, <1>3
<1>4. CASE view = "shell" /\ q = Background
  <2>1. \/ q[i].body = Draft
        \/ wire # Nothing /\ q[i] = Put(Purpose(Head(chain)), wire.body)
    BY <1>4, BackgroundErrands
  <2> QED
    BY <1>2, <2>1 DEF Put
<1>5. ASSUME NEW what, NEW body, q = <<Put(what, body)>>, Low(body) PROVE Low(q[i].body)
  BY <1>5 DEF Put
<1>6. CASE q = Posting
  BY <1>2, <1>5, <1>6 DEF Posting
<1>7. ASSUME NEW r \in strays, q = InFlight(r) PROVE Low(q[i].body)
  <2>1. Len(q) = 1 /\ q[1].body = Head(r).body
    BY <1>7, StrayTypes, InFlightErrand
  <2> QED
    BY <1>1, <2>1, StrayTypes
<1>8. CASE (wire # Nothing /\ q = <<Put("save", wire.body)>>) \/ q = <<Put("post", 0)>>
           \/ q = <<Put("submit", 0)>>
  BY <1>2, <1>5, <1>8
<1>9. ASSUME NEW r \in strays, Tail(r) \in Seq(Errand), q = Ready(Tail(r)) PROVE Low(q[i].body)
  <2>1. i \in 1 .. Len(Tail(r)) /\ (q[i].body = Tail(r)[i].body \/ q[i].body = Draft)
    BY <1>9, ReadyErrand
  <2>2. i + 1 \in 1 .. Len(r) /\ Tail(r)[i] = r[i + 1]
    BY <2>1, StrayTypes, ErrandsOf
  <2> QED
    BY <1>1, <1>2, <2>1, <2>2
<1> QED
  BY <1>3, <1>4, <1>6, <1>7, <1>8, <1>9, Newcomers

LEMMA BodiesKept == ASSUME Shells, Order, Next PROVE BodiesInv'
<1>1. stored' <= committed'
  BY StoredLow
<1>2. ASSUME AcceptsSave' PROVE Level'
  <2>1. AcceptsSave /\ Level /\ ~EditorReadOnly
    BY <1>2, DoneAccepting DEF Order, BodiesInv, Shells, ServerInv
  <2>2. /\ shot' <= committed' /\ (cache' # Nothing => cache' <= committed')
        /\ (mirror' # Nothing => mirror' <= committed')
    BY <2>1, KeysLow
  <2>3. wire' # Nothing => wire'.body <= committed'
    <3>1. /\ committed \in Nat /\ committed' \in Nat /\ committed' >= committed
          /\ Draft \in Nat /\ Draft <= committed
          /\ wire # Nothing => wire.body \in Nat /\ wire.body <= committed
      BY <2>1, CommittedGrows, Numbers DEF Level
    <3> QED
      BY <3>1, WireBodies
  <2>4. \A q \in strays' : \A i \in 1 .. Len(q) : q[i].body <= committed'
    BY <2>1, StraysLow
  <2> QED
    BY <2>2, <2>3, <2>4 DEF Level
<1> QED
  BY <1>1, <1>2 DEF BodiesInv

-----------------------------------------------------------------------------
(* A key that reached the mirror stays.                                      *)

Fresh == strays = {} /\ cache = Nothing /\ ~seeded /\ stored >= committed

SurvivesInv ==
    /\ cache # Nothing => cache >= committed
    /\ mirror # Nothing /\ mirror # 0 => mirror >= committed
    /\ mirror \in {Nothing, 0} /\ AcceptsSubmit => committed = 0 \/ Fresh
    /\ seeded => mirror = Nothing \/ mirror >= committed
    /\ ~Gone => hidden \/ shot >= committed
    /\ fin = "answered" => ~AcceptsSubmit

LEMMA DoneSubmitting ==
    ASSUME Next, ~AcceptsSubmit PROVE ~AcceptsSubmit'
<1>1. CASE UNCHANGED server
  BY <1>1 DEF server, AcceptsSubmit
<1>2. CASE Saved
  BY <1>2 DEF Saved, ServeSave, SaveBreaks, AcceptsSubmit
<1>3. CASE Answered
  BY <1>3 DEF Answered, ServeSubmit, SubmitBreaks, Seal, AcceptsSubmit
<1>4. CASE Lock \/ TimePasses \/ ForeignSubmit
  BY <1>4 DEF Lock, TimePasses, ForeignSubmit, AcceptsSubmit
<1>5. CASE \E q \in strays : StraySaved(q)
  BY <1>5 DEF StraySaved, AcceptsSubmit
<1>6. CASE \E q \in strays : StraySubmitted(q)
  BY <1>6 DEF StraySubmitted, Seal, AcceptsSubmit
<1> QED
  BY <1>1, <1>2, <1>3, <1>4, <1>5, <1>6, Servers

\* Without a shell and its leavings nothing reaches the server.
LEMMA FreshKept ==
    ASSUME Shells, Next, Fresh, UNCHANGED <<cache, seeded, committed>> \/ Goes
    PROVE  Fresh'
<1>1. Gone /\ wire = Nothing /\ fin = "none"
  BY DEF Fresh, Shells, DraftInv, SavesInv, Gone
<1>2. cache' = Nothing /\ committed' = committed /\ ~seeded'
  <2>1. CASE Reload \/ Submitted
    BY <2>1 DEF Fresh, Reload, Submitted
  <2>2. ASSUME NEW to \in {"away", "error", "confirmed"}, Swap(to)
        PROVE  UNCHANGED <<cache, committed>> /\ ~seeded'
    BY <2>2, Zenon DEF Fresh, Swap
  <2> QED
    BY <2>1, <2>2 DEF Fresh, Goes
<1>3. stored' = stored
  <2>1. CASE UNCHANGED server
    BY <2>1 DEF server
  <2>2. ~Saved /\ ~Answered
    BY <1>1 DEF Saved, ServeSave, SaveBreaks, Answered, ServeSubmit, SubmitBreaks
  <2>3. CASE Lock \/ TimePasses \/ ForeignSubmit
    BY <2>3 DEF Lock, TimePasses, ForeignSubmit
  <2> QED
    BY <2>1, <2>2, <2>3, Servers DEF Fresh
<1>4. strays' = {}
  <2>1. CASE strays' = strays
    BY <2>1 DEF Fresh
  <2>2. CASE Reload
    BY <1>1, <2>2 DEF Reload, Fresh
  <2> QED
    BY <1>1, <2>1, <2>2, Backgrounds, WhoStays DEF Fresh, Gone
<1> QED
  BY <1>2, <1>3, <1>4 DEF Fresh

LEMMA AnsweredLate ==
    ASSUME Shells, SurvivesInv, Next PROVE fin' = "answered" => ~AcceptsSubmit'
<1>1. CASE fin' = fin
  BY <1>1, DoneSubmitting DEF SurvivesInv
<1>2. CASE Goes
  <2>1. CASE Reload \/ Submitted
    BY <2>1 DEF Reload, Submitted, Quiet
  <2>2. ASSUME NEW to \in {"away", "error", "confirmed"}, Swap(to)
        PROVE  fin' = fin \/ fin' = "none"
    BY <2>2 DEF Swap, Unmount, Quiet, finalizer
  <2> QED
    BY <1>1, <1>2, <2>1, <2>2 DEF Goes
<1>3. CASE Answered
  BY <1>3 DEF Answered, ServeSubmit, SubmitBreaks, Seal, AcceptsSubmit
<1>4. CASE Load \/ Remount
  BY <1>1, <1>4 DEF Load, Remount, finalizer
<1>5. CASE Uploaded \/ RetryUpload \/ GoOnline
  BY <1>1, <1>5 DEF Uploaded, UploadDone, UploadFails, RetryUpload, GoOnline, Reopened
<1>6. CASE SaveSettles \/ Confirm \/ Expire \/ SubmitWithoutAudio
  BY <1>1, <1>6 DEF SaveSettles, Confirm, Expire, Finalize, SubmitWithoutAudio
<1> QED
  BY <1>1, <1>2, <1>3, <1>4, <1>5, <1>6, Transfers

LEMMA SurvivesKept == ASSUME Shells, Order, SurvivesInv, Next PROVE SurvivesInv'
<1>0. /\ committed \in Nat /\ stored \in Nat /\ shot \in Nat
      /\ (cache # Nothing => cache \in Nat) /\ (mirror # Nothing => mirror \in Nat)
      /\ 0 # Nothing
  BY Numbers
<1> DEFINE Below == /\ cache' # Nothing => cache' >= committed'
                    /\ mirror' # Nothing /\ mirror' # 0 => mirror' >= committed'
                    /\ seeded' => mirror' = Nothing \/ mirror' >= committed'
           Seen == ~Gone' => hidden' \/ shot' >= committed'
           Empty == mirror' \in {Nothing, 0} /\ AcceptsSubmit' => committed' = 0 \/ Fresh'
<1> SUFFICES Below /\ Seen /\ Empty
  BY AnsweredLate DEF SurvivesInv
<1>1. CASE UNCHANGED <<keys, view, seeded, committed, hidden>>
  <2>1. mirror' = mirror /\ UNCHANGED <<cache, shot, seeded, committed>>
    BY <1>1 DEF keys
  <2>2. Below /\ Seen
    BY <1>1, <2>1 DEF SurvivesInv, Gone
  <2>3. Empty
    BY <2>1, FreshKept, DoneSubmitting DEF SurvivesInv
  <2> QED
    BY <2>2, <2>3
<1>2. CASE Load
  <2>1. /\ AcceptsSubmit /\ mirror' = cache' /\ shot' = cache' /\ committed' = committed
        /\ cache' = IF cache # Nothing THEN cache ELSE Merge(mirror, stored)
    BY <1>2 DEF Load, history
  <2>2. cache' \in Nat /\ cache' # Nothing /\ cache' >= committed
    <3>1. CASE cache # Nothing
      BY <1>0, <2>1, <3>1 DEF SurvivesInv
    <3>2. CASE cache = Nothing /\ mirror \notin {Nothing, 0}
      BY <1>0, <2>1, <3>2 DEF SurvivesInv, Merge
    <3>3. CASE cache = Nothing /\ mirror \in {Nothing, 0}
      <4>1. cache' = stored /\ stored # Nothing
        BY <2>1, <3>3, NotContent DEF Merge, Shells, ServerInv
      <4>2. stored >= committed
        BY <1>0, <2>1, <3>3 DEF SurvivesInv, Fresh
      <4> QED
        BY <1>0, <4>1, <4>2
    <3> QED
      BY <3>1, <3>2, <3>3
  <2>3. Below /\ Seen
    BY <2>1, <2>2
  <2>4. mirror' = 0 \/ mirror' = Nothing => committed' = 0
    BY <1>0, <2>1, <2>2
  <2> QED
    BY <2>3, <2>4
<1>3. CASE Remount
  <2>1. /\ seeded /\ shot' = Draft /\ mirror' = (IF cache = Nothing THEN mirror ELSE cache)
        /\ hidden' = (cache = Nothing) /\ UNCHANGED <<server, cache, seeded, strays, committed>>
    BY <1>3 DEF Remount, page
  <2>2. Below /\ Seen
    BY <1>0, <2>1, Numbers DEF SurvivesInv
  <2>3. mirror' \in {Nothing, 0} => committed = 0 \/ mirror \in {Nothing, 0}
    BY <1>0, <2>1 DEF SurvivesInv
  <2>4. Empty
    BY <2>1, <2>3, DoneSubmitting DEF SurvivesInv, Fresh
  <2> QED
    BY <2>2, <2>4
<1>4. CASE Goes
  <2>1. ASSUME cache' \in {cache, Nothing}, mirror' = mirror, committed' = committed, Gone',
               seeded' => seeded
        PROVE  Below /\ Seen /\ Empty
    <3>1. Below /\ Seen
      BY <2>1 DEF SurvivesInv
    <3>2. Empty
      BY <1>4, <2>1, FreshKept, DoneSubmitting DEF SurvivesInv
    <3> QED
      BY <3>1, <3>2
  <2>2. CASE Reload
    BY <2>1, <2>2 DEF Reload, Gone
  <2>3. CASE Submitted
    <3>1. cache' = cache /\ mirror' = Nothing /\ committed' = committed /\ ~AcceptsSubmit /\ Gone'
      BY <2>3 DEF Submitted, SurvivesInv, Gone
    <3> QED
      BY <3>1, DoneSubmitting DEF SurvivesInv
  <2>4. ASSUME NEW to \in {"away", "error", "confirmed"}, Swap(to) PROVE Below /\ Seen /\ Empty
    BY <2>1, <2>4 DEF Swap, Gone
  <2> QED
    BY <1>4, <2>2, <2>3, <2>4 DEF Goes
<1>5. CASE Collect
  <2>1. /\ cache' = Nothing /\ cache # Nothing
        /\ UNCHANGED <<mirror, shot, view, seeded, committed, hidden>>
    BY <1>5 DEF Collect, page, history
  <2> QED
    BY <2>1, DoneSubmitting DEF SurvivesInv, Fresh, Gone
<1>6. ASSUME NEW u \in uploads, UploadDone(u) PROVE Below /\ Seen /\ Empty
  <2>1. /\ cache' = u.take /\ shot' = u.take /\ u.take \in Nat /\ u.take # 0 /\ u.take # Nothing
        /\ committed <= u.take /\ ~Gone /\ seeded' = seeded
    BY <1>6, Numbers DEF UploadDone, Persist, Order, TakesInv, page
  <2>2. CASE EditorReadOnly
    <3>1. mirror' = mirror /\ committed' = committed
      BY <1>6, <2>2 DEF UploadDone, Persist
    <3>2. Below /\ Seen
      BY <1>0, <2>1, <3>1 DEF SurvivesInv
    <3>3. Empty
      BY <2>1, <3>1, DoneSubmitting DEF SurvivesInv, Fresh, Shells, DraftInv
    <3> QED
      BY <3>2, <3>3
  <2>3. CASE ~EditorReadOnly
    <3>1. mirror' = u.take /\ committed' = u.take
      BY <1>6, <2>3 DEF UploadDone, Persist
    <3> QED
      BY <2>1, <3>1
  <2> QED
    BY <2>2, <2>3
<1>7. ASSUME NEW q \in strays, StraySubmitted(q) PROVE Below /\ Seen /\ Empty
  <2>1. /\ UNCHANGED <<cache, shot, view, seeded, committed, hidden>>
        /\ mirror' \in {mirror, Nothing} /\ ~AcceptsSubmit'
    BY <1>7 DEF StraySubmitted, page, history, Seal, AcceptsSubmit
  <2> QED
    BY <2>1 DEF SurvivesInv, Gone
<1>8. CASE Confirm \/ Expire \/ SubmitWithoutAudio
  <2>1. UNCHANGED <<keys, view, seeded, committed, hidden>>
    BY <1>8 DEF Confirm, Expire, SubmitWithoutAudio, page
  <2> QED
    BY <1>1, <2>1
<1>9. CASE UNCHANGED <<keys, view, seeded, promised, committed, hidden>>
  BY <1>1, <1>9
<1> QED
  BY <1>2, <1>3, <1>4, <1>5, <1>6, <1>7, <1>8, <1>9, Pages

LEMMA SurvivesInitially == Init => Order /\ SurvivesInv
<1> SUFFICES ASSUME Init PROVE Order /\ SurvivesInv
  OBVIOUS
<1>1. TakesInv
  BY SpeakingAssumption DEF Init, TakesInv
<1>2. BodiesInv
  BY SpeakingAssumption DEF Init, BodiesInv, Level
<1>3. SurvivesInv
  BY DEF Init, SurvivesInv, Fresh, Gone
<1> QED
  BY <1>1, <1>2, <1>3 DEF Order

LEMMA SurvivesAlways ==
    Shells /\ Order /\ SurvivesInv /\ [Next]_vars => Order' /\ SurvivesInv'
<1>1. ASSUME Shells, Order, SurvivesInv, Next PROVE Order' /\ SurvivesInv'
  BY <1>1, TakesKept, BodiesKept, SurvivesKept DEF Order
<1>2. ASSUME Order, SurvivesInv, UNCHANGED vars PROVE Order' /\ SurvivesInv'
  <2>1. TakesInv' /\ BodiesInv'
    BY <1>2 DEF vars, Order, TakesInv, BodiesInv, Level, AcceptsSave, AcceptsSubmit, Gone
  <2>2. SurvivesInv'
    BY <1>2 DEF vars, SurvivesInv, Fresh, AcceptsSubmit, Gone
  <2> QED
    BY <2>1, <2>2 DEF Order
<1> QED
  BY <1>1, <1>2

LEMMA SurvivingKeys == Shells /\ SurvivesInv => KeySurvives
  BY DEF Shells, DraftInv, SurvivesInv, Gone, KeySurvives

\* A key that an upload brought to the mirror, or that the server had at first, is in
\* every copy an open page has, and on it: no reload, no empty mirror and no collected
\* slot brings an older one back (makeSpeakingMerge, persistUploadedKey).  A shell that
\* mounts over a collected slot does not show it (useSpeakingDraft), until an upload.
THEOREM KeysSurvive == Spec => []KeySurvives
<1>1. Init => Shells /\ Order /\ SurvivesInv
  BY ShellsInitially, SurvivesInitially
<1>2. Shells /\ Order /\ SurvivesInv /\ [Next]_vars => (Shells /\ Order /\ SurvivesInv)'
  BY ShellsKept, SurvivesAlways
<1>3. Shells /\ Order /\ SurvivesInv => KeySurvives
  BY SurvivingKeys
<1> QED
  BY <1>1, <1>2, <1>3, PTL DEF Spec


-----------------------------------------------------------------------------
(* What is submitted is what was confirmed.  As long as the server accepts   *)
(* saves, every way to the submit carries the take that was promised, or one *)
(* of its saves has found the slot of the draft collected.                   *)

Lossless == stored >= promised \/ overtaken \/ blanked
OnItsWay == fin \in {"flushing", "posted"}
Submits(q) == \E i \in 1 .. Len(q) : q[i].do # "save"
Behind == \E q \in strays : Submits(q)

PostsLossless == fin = "posted" \/ Flushed => Lossless
HoldsPromise == OnItsWay \/ Behind => promised <= committed
UploadsPromise == \A u \in uploads : u.by = "submit" => u.take >= promised
WirePromise ==
    wire # Nothing /\ (Behind \/ (OnItsWay /\ ~Flushes(Tail(chain))))
        => wire.body >= promised \/ blanked
Posted(q) == \A i \in 1 .. Len(q) : q[i].do \in {"submit", "post"} => Lossless
Leads(q) == q[1].do = "flush" => q[1].body >= promised \/ blanked
KeepsPromise == \A q \in strays : Posted(q) /\ Leads(q)

Faithful == PostsLossless /\ HoldsPromise /\ UploadsPromise /\ WirePromise /\ KeepsPromise

SubmitInv == SubmittedAsConfirmed /\ (AcceptsSave => Faithful)

LEMMA BehindIsSubmitting == Shells => (SubmittingBehind <=> Behind)
<1> SUFFICES ASSUME Shells PROVE SubmittingBehind <=> Behind
  OBVIOUS
<1>1. \A q \in strays : DOMAIN q = 1 .. Len(q)
  BY StrayTypes
<1> QED
  BY <1>1 DEF SubmittingBehind, Behind, Submits

\* While saves are accepted nothing has been submitted or locked.
LEMMA Accepting ==
    ASSUME Shells, SurvivesInv, Next, AcceptsSave'
    PROVE  /\ AcceptsSave /\ AcceptsSubmit /\ ~EditorReadOnly /\ sealed = "no" /\ fin # "answered"
           /\ ~Submitted /\ \A q \in strays : ~StraySubmitted(q)
           /\ wire # Nothing => wire.at # "refused"
<1>1. AcceptsSave
  BY DoneAccepting
<1>2. AcceptsSubmit /\ sealed = "no" /\ fin # "answered" /\ ~EditorReadOnly
      /\ (wire # Nothing => wire.at # "refused")
  BY <1>1 DEF AcceptsSave, AcceptsSubmit, SurvivesInv, Shells, ServerInv, SavesInv
<1>3. ~Submitted
  BY <1>2 DEF Submitted
<1>4. \A q \in strays : ~StraySubmitted(q)
  BY <1>2 DEF StraySubmitted, Seal, AcceptsSave, AcceptsSubmit
<1> QED
  BY <1>1, <1>2, <1>3, <1>4

\* Then the draft, where it is not collected, is the last key that was persisted.
LEMMA DraftIsLatest ==
    ASSUME Shells, Order, SurvivesInv, AcceptsSave
    PROVE  /\ shot <= committed /\ Draft <= committed /\ committed \in Nat
           /\ cache # Nothing => Draft = committed
           /\ Blank <=> cache = Nothing
<1>1. committed \in Nat /\ (cache # Nothing => cache \in Nat) /\ shot \in Nat
  BY Numbers
<1>2. shot <= committed /\ (cache # Nothing => cache <= committed /\ cache >= committed)
  BY DEF Order, BodiesInv, Level, SurvivesInv
<1> QED
  BY <1>1, <1>2 DEF Draft, Blank

LEMMA PromiseStays ==
    ASSUME Next
    PROVE  \/ promised' = promised
           \/ Idle /\ view = "shell" /\ (Confirm \/ Expire \/ SubmitWithoutAudio)
<1>1. CASE Load \/ Remount \/ Goes \/ Collect \/ (\E u \in uploads : UploadDone(u))
           \/ \E q \in strays : StraySubmitted(q)
  BY <1>1 DEF Load, Remount, Goes, Reload, Submitted, Swap, Collect, UploadDone, StraySubmitted,
     history
<1>2. CASE Confirm \/ Expire \/ SubmitWithoutAudio
  BY <1>2 DEF Confirm, Expire, SubmitWithoutAudio, Idle
<1> QED
  BY <1>1, <1>2, Pages

LEMMA BehindFixesPromise ==
    ASSUME Shells, Next, Behind PROVE promised' = promised
<1>1. SubmittingBehind
  BY BehindIsSubmitting
<1>2. CASE Idle /\ (Confirm \/ Expire \/ SubmitWithoutAudio)
  BY <1>1, <1>2 DEF Confirm, Expire, SubmitWithoutAudio, Finalize, Promise
<1> QED
  BY <1>2, PromiseStays

\* Only the final flush forgets that a save was blank.
LEMMA BlankedStays ==
    ASSUME Next, blanked
    PROVE  blanked' \/ (Issue /\ AcceptsSave /\ Head(chain) = "final" /\ ~SubmittingBehind)
<1>1. CASE UNCHANGED blanked
  BY <1>1
<1>2. CASE \/ Start \/ Granted \/ Denied \/ GhostGranted \/ Stop \/ Seized \/ Dropped
           \/ Settled \/ ReRecord \/ RetryUpload \/ Load \/ Remount \/ Collect
  BY <1>1, <1>2 DEF Start, Granted, Denied, GhostGranted, Stop, Seized, Dropped, Settled,
     ReRecord, RetryUpload, Load, Remount, Collect, history
<1>3. CASE Uploaded \/ Saved \/ SaveSettles \/ Answered \/ Confirm \/ Expire
           \/ SubmitWithoutAudio
  BY <1>1, <1>3 DEF Uploaded, UploadDone, UploadFails, Saved, ServeSave, SaveBreaks, SaveSettles,
     Answered, ServeSubmit, SubmitBreaks, Confirm, Expire, SubmitWithoutAudio, history
<1>4. CASE GoOffline \/ GoOnline \/ Lock \/ DeadlineSeen \/ TimePasses \/ ForeignSubmit
           \/ ForeignHeard
  BY <1>1, <1>4 DEF GoOffline, GoOnline, Lock, DeadlineSeen, TimePasses, ForeignSubmit,
     ForeignHeard, history
<1>5. ASSUME NEW q \in strays, StraySaved(q) \/ StraySubmitted(q) \/ StrayLost(q) PROVE blanked'
  <2>1. CASE StraySubmitted(q)
    BY <1>1, <2>1 DEF StraySubmitted, history
  <2>2. CASE Heard(q)
    BY <2>2, Zenon DEF Heard
  <2> QED
    BY <1>5, <2>1, <2>2 DEF StraySaved, StrayLost
<1>6. CASE Goes
  <2>1. CASE Reload \/ Submitted
    BY <1>1, <2>1 DEF Reload, Submitted
  <2>2. ASSUME NEW to \in {"away", "error", "confirmed"}, Swap(to) PROVE blanked'
    <3>1. CASE Unmount
      BY <3>1, Zenon DEF Unmount
    <3> QED
      BY <1>1, <2>2, <3>1 DEF Swap
  <2> QED
    BY <1>6, <2>1, <2>2 DEF Goes
<1>7. CASE Issue
  <2>1. CASE Head(chain) = "final" /\ AcceptsSave /\ ~SubmittingBehind
    BY <1>7, <2>1
  <2>2. CASE ~(Head(chain) = "final" /\ AcceptsSave /\ ~SubmittingBehind)
    BY <1>7, <2>2, Zenon DEF Issue
  <2> QED
    BY <2>1, <2>2
<1>8. CASE Reload \/ Submitted
  BY <1>6, <1>8 DEF Goes
<1> QED
  BY <1>2, <1>3, <1>4, <1>5, <1>6, <1>7, <1>8, WhoGoes DEF Next

-----------------------------------------------------------------------------
(* The shells that are gone: who submits among them.                         *)

LEMMA OnePut ==
    ASSUME NEW what \in {"save", "flush", "submit", "post"}, NEW body \in Content
    PROVE  /\ Submits(<<Put(what, body)>>) <=> what # "save"
           /\ what \in {"submit", "post"} /\ Lossless
                  => Posted(<<Put(what, body)>>) /\ Leads(<<Put(what, body)>>)
           /\ what = "save" => Posted(<<Put(what, body)>>) /\ Leads(<<Put(what, body)>>)
<1> DEFINE e == Put(what, body)
<1>1. e \in Errand /\ e.do = what
  BY ErrandParts
<1> HIDE DEF e
<1>2. Len(<<e>>) = 1 /\ <<e>>[1] = e
  BY <1>1, Singleton
<1>3. \A i \in 1 .. Len(<<e>>) : <<e>>[i].do = what
  BY <1>1, <1>2
<1>4. 1 \in 1 .. Len(<<e>>)
  BY <1>2
<1> QED
  BY <1>3, <1>4 DEF e, Submits, Posted, Leads

LEMMA TailSubmits ==
    ASSUME Shells, NEW q \in strays
    PROVE  /\ Submits(Ready(Tail(q))) => Submits(q)
           /\ q[1].do # "save" => Submits(q)
<1>1. q \in Seq(Errand) /\ q # <<>> /\ 1 \in 1 .. Len(q)
  BY StrayTypes
<1>2. /\ Tail(q) \in Seq(Errand)
      /\ \A i \in 1 .. Len(Tail(q)) : i + 1 \in 1 .. Len(q) /\ Tail(q)[i] = q[i + 1]
  BY <1>1, ErrandsOf
<1>3. /\ Len(Ready(Tail(q))) = Len(Tail(q))
      /\ \A i \in 1 .. Len(Tail(q)) : Ready(Tail(q))[i].do = Tail(q)[i].do
  BY <1>2, ReadyErrand
<1> QED
  BY <1>1, <1>2, <1>3 DEF Submits

LEMMA InFlightSubmits ==
    ASSUME Shells, NEW q \in strays, Submits(InFlight(q)) PROVE Submits(q)
<1>1. q \in Seq(Errand) /\ q # <<>> /\ Head(q) = q[1] /\ 1 \in 1 .. Len(q)
  BY StrayTypes
<1>2. Len(InFlight(q)) = 1 /\ InFlight(q)[1].do \in {"save", "post"}
      /\ (InFlight(q)[1].do = "post" => Head(q).do \in {"submit", "post"})
  BY <1>1, InFlightErrand
<1> QED
  BY <1>1, <1>2 DEF Submits

LEMMA BackgroundSubmits ==
    ASSUME Shells, view = "shell", Submits(Background) \/ Posting # <<>> PROVE OnItsWay
<1>1. Flushes(chain) => OnItsWay
  BY DEF Shells, SavesInv, OnItsWay
<1>2. Submits(Background) => OnItsWay
  BY <1>1, BackgroundErrands DEF Submits
<1>3. Flushed => Flushes(chain)
  BY ChainShrinks DEF Flushed, Shells, SavesInv
<1> QED
  BY <1>1, <1>2, <1>3 DEF Posting, OnItsWay

LEMMA BehindComes ==
    ASSUME Shells, Next, Behind'
    PROVE  Behind \/ (Goes /\ view = "shell" /\ OnItsWay)
<1>1. PICK q \in strays' : Submits(q)
  BY DEF Behind, Submits
<1>2. CASE q \in strays
  BY <1>1, <1>2 DEF Behind
<1>3. CASE Goes /\ view = "shell" /\ q = Background
  BY <1>1, <1>3, BackgroundSubmits
<1>4. CASE Goes /\ view = "shell" /\ q = Posting /\ q # <<>>
  BY <1>4, BackgroundSubmits
<1>5. ASSUME NEW r \in strays, q = InFlight(r) PROVE Behind
  BY <1>1, <1>5, InFlightSubmits DEF Behind
<1>6. CASE wire # Nothing /\ q = <<Put("save", wire.body)>>
  <2>1. wire.body \in Content
    BY <1>6 DEF Shells, SavesInv, Request
  <2> QED
    BY <1>1, <1>6, <2>1, OnePut
<1>7. CASE Reload /\ fin = "posted"
  BY <1>7 DEF Goes, OnItsWay, Shells, SavesInv, Gone
<1>8. ASSUME NEW r \in strays, q = Ready(Tail(r)) PROVE Behind
  BY <1>1, <1>8, TailSubmits DEF Behind
<1>9. ASSUME NEW r \in strays, Head(r).do = "flush" PROVE Behind
  BY <1>9, StrayTypes, TailSubmits DEF Behind
<1> QED
  BY <1>2, <1>3, <1>4, <1>5, <1>6, <1>7, <1>8, <1>9, Newcomers

-----------------------------------------------------------------------------
(* The promise, and the saves and uploads of the shell that made it.         *)

\* A submit that is asked for and needs no upload, or goes without.
LEMMA FlushHolds ==
    ASSUME Shells, Order, SurvivesInv, Faithful, AcceptsSave, sealed = "no",
           (Finalize /\ ~Held) \/ SubmitWithoutAudio
    PROVE  promised' <= committed
<1>1. /\ committed \in Nat /\ take \in Nat /\ uploaded \in Nat /\ shot \in Nat /\ promised \in Nat
      /\ shot <= committed /\ Draft <= committed
  BY Numbers, DraftIsLatest
<1>2. ASSUME NEW what, what <= committed, Promise(what) PROVE promised' <= committed
  <2>1. CASE promised' = what
    BY <1>2, <2>1
  <2>2. CASE promised' = promised /\ SubmittingBehind
    BY <2>2, BehindIsSubmitting DEF Faithful, HoldsPromise
  <2> QED
    BY <1>2, <2>1, <2>2 DEF Promise
<1>3. CASE SubmitWithoutAudio
  BY <1>1, <1>2, <1>3 DEF SubmitWithoutAudio
<1>4. CASE Finalize /\ ~Held
  <2>1. take # 0 => take <= shot
    BY <1>4 DEF Held, Order, TakesInv
  <2>2. Shown <= committed
    BY <1>1, <2>1 DEF Shown
  <2> QED
    BY <1>2, <1>4, <2>2 DEF Finalize
<1> QED
  BY <1>3, <1>4

LEMMA HoldsKept ==
    ASSUME Shells, Order, SurvivesInv, Faithful, Next, AcceptsSave' PROVE HoldsPromise'
<1>0. /\ committed \in Nat /\ committed' \in Nat /\ committed' >= committed
      /\ promised \in Nat /\ sealed = "no" /\ AcceptsSave /\ ~EditorReadOnly
  BY CommittedGrows, Numbers, Accepting
<1> SUFFICES ASSUME OnItsWay' \/ Behind' PROVE promised' <= committed'
  BY DEF HoldsPromise
<1>1. CASE Behind
  <2>1. promised' = promised /\ promised <= committed
    BY <1>1, BehindFixesPromise DEF Faithful, HoldsPromise
  <2> QED
    BY <1>0, <2>1
<1>2. CASE OnItsWay
  <2>1. promised' = promised /\ promised <= committed
    BY <1>2, PromiseStays DEF OnItsWay, Idle, Faithful, HoldsPromise
  <2> QED
    BY <1>0, <2>1
<1>3. CASE OnItsWay' /\ ~OnItsWay
  <2>1. CASE fin' = fin
    BY <1>3, <2>1 DEF OnItsWay
  <2>2. CASE Goes
    <3>1. view' # "shell"
      BY <2>2 DEF Goes, Reload, Submitted, Swap
    <3> QED
      BY <1>3, <3>1, SavesKept DEF SavesInv, Gone, OnItsWay
  <2>3. ASSUME NEW u \in uploads, UploadDone(u) PROVE promised' <= committed'
    <3>1. CASE u.by = "submit"
      <4>1. promised' = promised /\ committed' = u.take
        BY <1>0, <2>3 DEF UploadDone, Persist
      <4> QED
        BY <3>1, <4>1, Numbers DEF Faithful, UploadsPromise
    <3>2. CASE u.by # "submit"
      BY <2>1, <2>3, <3>2 DEF UploadDone
    <3> QED
      BY <3>1, <3>2
  <2>4. ASSUME (Finalize /\ committed' = committed) \/ SubmitWithoutAudio
        PROVE  promised' <= committed'
    <3>1. CASE Held /\ Finalize
      BY <1>3, <3>1 DEF Finalize, OnItsWay
    <3> QED
      BY <1>0, <2>4, <3>1, FlushHolds DEF SubmitWithoutAudio
  <2>5. CASE Confirm \/ SubmitWithoutAudio
    BY <2>4, <2>5 DEF Confirm
  <2>6. CASE Expire
    BY <2>1, <2>4, <2>6 DEF Expire
  <2>7. CASE Answered
    BY <1>3, <2>7 DEF Answered, ServeSubmit, SubmitBreaks, OnItsWay
  <2>8. CASE SaveSettles
    BY <1>3, <2>1, <2>8, ChainShrinks DEF SaveSettles, OnItsWay, Shells, SavesInv
  <2>9. CASE RetryUpload \/ GoOnline \/ \E u \in uploads : UploadFails(u)
    BY <1>3, <2>1, <2>9 DEF RetryUpload, GoOnline, UploadFails, Reopened, OnItsWay
  <2>10. CASE Load \/ Remount
    BY <2>1, <2>10 DEF Load, Remount, finalizer
  <2> QED
    BY <2>1, <2>2, <2>3, <2>5, <2>6, <2>7, <2>8, <2>9, <2>10, Transfers DEF Uploaded
<1> QED
  BY <1>1, <1>2, <1>3, BehindComes

LEMMA UploadsChange ==
    ASSUME Shells, Next
    PROVE  \/ uploads' \subseteq uploads
           \/ uploads' = {[take |-> take, by |-> "background"]}
           \/ /\ uploads' = {[take |-> take, by |-> "submit"]} /\ fin' = "uploading"
              /\ Held /\ view = "shell" /\ Promise(Shown)
<1>1. ASSUME NEW by \in {"background", "submit"}, StartUpload(by)
      PROVE  uploads' = {[take |-> take, by |-> by]}
  BY <1>1 DEF StartUpload, Survivors
<1>2. CASE UNCHANGED transfer
  BY <1>2 DEF transfer
<1>3. CASE Goes
  BY <1>3 DEF Goes, Reload, Submitted, Swap, Unmount, Quiet, transfer
<1>4. CASE Uploaded
  BY <1>4 DEF Uploaded, UploadDone, UploadFails
<1>5. CASE RetryUpload \/ GoOnline
  BY <1>1, <1>2, <1>5 DEF RetryUpload, GoOnline
<1>6. ASSUME Finalize, view = "shell"
      PROVE  \/ UNCHANGED transfer
             \/ /\ uploads' = {[take |-> take, by |-> "submit"]} /\ fin' = "uploading"
                /\ Held /\ view = "shell" /\ Promise(Shown)
  BY <1>1, <1>6 DEF Finalize
<1>7. CASE Confirm
  BY <1>2, <1>6, <1>7 DEF Confirm
<1>8. CASE Expire
  BY <1>2, <1>6, <1>8 DEF Expire
<1>9. CASE Load \/ Remount \/ SaveSettles \/ SubmitWithoutAudio \/ Answered
  BY <1>2, <1>9 DEF Load, Remount, SaveSettles, SubmitWithoutAudio, Answered, ServeSubmit,
     SubmitBreaks
<1> QED
  BY <1>2, <1>3, <1>4, <1>5, <1>7, <1>8, <1>9, Transfers

LEMMA UploadsPromised ==
    ASSUME Shells, Order, SurvivesInv, Faithful, Next, AcceptsSave' PROVE UploadsPromise'
<1> SUFFICES ASSUME NEW u \in uploads', u.by = "submit" PROVE u.take >= promised'
  BY DEF UploadsPromise
<1>1. CASE uploads' \subseteq uploads
  <2>1. promised' = promised
    BY <1>1, PromiseStays DEF Shells, TransferInv, Idle
  <2> QED
    BY <1>1, <2>1 DEF Faithful, UploadsPromise
<1>2. CASE uploads' = {[take |-> take, by |-> "background"]}
  BY <1>2
<1>3. CASE /\ uploads' = {[take |-> take, by |-> "submit"]} /\ Held /\ Promise(Shown)
  <2>1. /\ u.take = take /\ Shown = take /\ take \in Nat /\ promised \in Nat /\ committed \in Nat
        /\ committed <= take
    BY <1>3, Numbers DEF Held, Shown, Order, TakesInv
  <2>2. CASE promised' = take
    BY <2>1, <2>2
  <2>3. CASE promised' = promised /\ SubmittingBehind
    <3>1. promised <= committed
      BY <2>3, BehindIsSubmitting DEF Faithful, HoldsPromise
    <3> QED
      BY <2>1, <2>3, <3>1
  <2> QED
    BY <1>3, <2>1, <2>2, <2>3, Accepting DEF Promise
<1> QED
  BY <1>1, <1>2, <1>3, UploadsChange

\* What becomes of a save on its way.
LEMMA WireSteps ==
    ASSUME Shells, Next
    PROVE  \/ wire' = Nothing
           \/ Issue
           \/ /\ wire # Nothing /\ wire' # Nothing /\ wire'.body = wire.body
              /\ view = "shell" /\ chain # <<>>
              /\ wire' = wire \/ Saved
              /\ \/ chain' = chain /\ (fin' = fin \/ ~OnItsWay')
                 \/ chain' = Append(chain, "auto") /\ (fin' = fin \/ ~OnItsWay')
                 \/ /\ chain' = Append(chain, "final") /\ fin' = "flushing"
                    /\ fin \in {"none", "retry", "uploading"}
<1>1. wire # Nothing => view = "shell" /\ chain # <<>> /\ wire \in Request
  BY DEF Shells, SavesInv, Gone
<1> DEFINE Step == \/ chain' = chain /\ (fin' = fin \/ ~OnItsWay')
                   \/ chain' = Append(chain, "auto") /\ (fin' = fin \/ ~OnItsWay')
                   \/ /\ chain' = Append(chain, "final") /\ fin' = "flushing"
                      /\ fin \in {"none", "retry", "uploading"}
<1>2. ASSUME wire' = wire, Step
      PROVE  wire' = Nothing \/ (/\ wire # Nothing /\ wire' # Nothing /\ wire'.body = wire.body
                                 /\ view = "shell" /\ chain # <<>> /\ wire' = wire /\ Step)
  BY <1>1, <1>2
<1>3. CASE UNCHANGED <<chain, wire, fin>>
  BY <1>2, <1>3
<1>4. CASE Goes
  <2>1. ASSUME NEW to \in {"away", "error", "confirmed"}, Swap(to) PROVE wire' = Nothing
    BY <1>1, <2>1 DEF Swap, Unmount, Quiet
  <2> QED
    BY <1>4, <2>1 DEF Goes, Reload, Submitted, Quiet
<1>5. CASE Saved
  <2>1. wire # Nothing /\ wire \in Request /\ UNCHANGED <<chain, fin>>
    BY <1>1, <1>5 DEF Saved, ServeSave, SaveBreaks, finalizer
  <2>2. wire' \in Request /\ wire'.body = wire.body
    BY <1>5, <2>1 DEF Saved, ServeSave, SaveBreaks, Request
  <2> QED
    BY <1>1, <1>5, <2>1, <2>2, NotRequest
<1>6. CASE SaveSettles
  BY <1>6 DEF SaveSettles
<1>7. ASSUME NEW u \in uploads, UploadDone(u) PROVE wire' = wire /\ Step
  BY <1>7 DEF UploadDone, Shells, TransferInv
<1>8. ASSUME NEW u \in uploads, UploadFails(u) PROVE wire' = wire /\ Step
  BY <1>8 DEF UploadFails, autosave, Reopened, OnItsWay
<1>9. CASE RetryUpload
  BY <1>2, <1>9 DEF RetryUpload, autosave, Reopened, OnItsWay
<1>10. CASE GoOnline \/ DeadlineSeen
  BY <1>2, <1>10 DEF GoOnline, DeadlineSeen, finalizer, Reopened, OnItsWay
<1>11. CASE Load \/ Remount
  BY <1>3, <1>11 DEF Load, Remount, autosave, finalizer
<1>12. ASSUME Finalize, wire' = wire, Idle PROVE wire' = wire /\ Step
  BY <1>12 DEF Finalize, OnItsWay, Idle
<1>13. CASE Confirm
  BY <1>2, <1>12, <1>13 DEF Confirm
<1>14. CASE Expire
  <2>1. CASE Idle
    BY <1>2, <1>12, <1>14, <2>1 DEF Expire
  <2>2. CASE ~Idle
    BY <1>2, <1>14, <2>2 DEF Expire
  <2> QED
    BY <2>1, <2>2
<1>15. CASE SubmitWithoutAudio
  BY <1>2, <1>15 DEF SubmitWithoutAudio
<1>16. CASE Answered
  BY <1>2, <1>16 DEF Answered, ServeSubmit, SubmitBreaks, autosave, OnItsWay
<1>17. CASE Uploaded
  <2>1. PICK u \in uploads : UploadDone(u) \/ UploadFails(u)
    BY <1>17 DEF Uploaded
  <2>2. wire' = wire /\ Step
    BY <1>7, <1>8, <2>1
  <2> QED
    BY <1>2, <2>2
<1> QED
  BY <1>2, <1>3, <1>4, <1>5, <1>6, <1>9, <1>10, <1>11, <1>13, <1>14, <1>15, <1>16, <1>17, Savers

LEMMA WirePromised ==
    ASSUME Shells, Order, SurvivesInv, Faithful, Next, AcceptsSave' PROVE WirePromise'
<1> SUFFICES ASSUME wire' # Nothing, Behind' \/ (OnItsWay' /\ ~Flushes(Tail(chain')))
             PROVE  wire'.body >= promised' \/ blanked'
  BY DEF WirePromise
<1>1. ASSUME fin' = fin, OnItsWay' PROVE OnItsWay /\ promised' = promised
  BY <1>1, PromiseStays DEF OnItsWay, Idle
<1>2. CASE Issue
  <2>1. fin' = fin /\ wire'.body = Draft /\ promised' = promised /\ strays' = strays
    BY <1>2 DEF Issue, finalizer
  <2>2. (Behind' <=> Behind) /\ (OnItsWay' <=> OnItsWay)
    BY <2>1 DEF Behind, OnItsWay
  <2>3. promised <= committed /\ promised \in Nat /\ committed \in Nat
    BY <2>2, Numbers DEF Faithful, HoldsPromise
  <2>4. CASE cache # Nothing
    BY <2>1, <2>3, <2>4, DraftIsLatest, Accepting
  <2>5. CASE cache = Nothing
    <3>1. Blank
      BY <2>5, DraftIsLatest, Accepting
    <3> QED
      BY <1>2, <3>1, Zenon DEF Issue
  <2> QED
    BY <2>4, <2>5
<1>3. ASSUME ~Issue PROVE /\ wire # Nothing /\ wire'.body = wire.body /\ view = "shell" /\ ~Goes
                          /\ blanked => blanked'
  <2>1. wire # Nothing /\ wire'.body = wire.body /\ view = "shell" /\ (wire' = wire \/ Saved)
    BY <1>3, WireSteps
  <2>2. ~Goes
    <3>1. ASSUME NEW to \in {"away", "error", "confirmed"}, Swap(to) PROVE wire' = Nothing
      BY <2>1, <3>1 DEF Swap, Unmount, Quiet
    <3> QED
      BY <3>1 DEF Goes, Reload, Submitted, Quiet
  <2> QED
    BY <1>3, <2>1, <2>2, BlankedStays
<1>4. ASSUME ~Issue, Behind' PROVE wire'.body >= promised' \/ blanked'
  <2>1. Behind /\ promised' = promised
    BY <1>3, <1>4, BehindComes, BehindFixesPromise
  <2> QED
    BY <1>3, <1>4, <2>1 DEF Faithful, WirePromise
<1>5. CASE wire # Nothing /\ ~Issue /\ OnItsWay' /\ chain' = chain /\ fin' = fin
  BY <1>1, <1>3, <1>4, <1>5 DEF Faithful, WirePromise
<1>6. ASSUME NEW x \in {"auto", "final"}, wire # Nothing, ~Issue, OnItsWay', chain # <<>>,
             chain' = Append(chain, x), x = "final" \/ fin' = fin
      PROVE  wire'.body >= promised' \/ blanked'
  <2>1. Tail(chain') = Append(Tail(chain), x) /\ Tail(chain) \in Seq({"auto", "final"})
    BY <1>6, ChainGrows, ChainShrinks DEF Shells, SavesInv
  <2>2. Flushes(Append(Tail(chain), x)) <=> Flushes(Tail(chain)) \/ x = "final"
    BY <2>1, ChainGrows
  <2>3. ~Flushes(Tail(chain')) => ~Flushes(Tail(chain)) /\ x # "final"
    BY <2>1, <2>2
  <2> QED
    BY <1>1, <1>3, <1>4, <1>6, <2>3 DEF Faithful, WirePromise
<1> QED
  BY <1>2, <1>4, <1>5, <1>6, WireSteps

\* What has reached the server is not undone by a save that carries the promise,
\* nor, unnoticed, by one of a shell that is gone.
LEMMA LosslessStays ==
    ASSUME Shells, SurvivesInv, Next, AcceptsSave', promised' = promised, Lossless,
           blanked => blanked',
           wire # Nothing /\ wire.at = "sent" => wire.body >= promised \/ blanked
    PROVE  Lossless'
<1>0. promised \in Nat /\ stored \in Nat
  BY Numbers
<1>1. CASE UNCHANGED <<stored, overtaken>>
  BY <1>1 DEF Lossless
<1>2. CASE Saved
  BY <1>1, <1>2 DEF Saved, ServeSave, SaveBreaks, Apply, Lossless
<1>3. ASSUME NEW q \in strays, StraySaved(q) PROVE Lossless'
  <2>1. q \in Seq(Errand) /\ q # <<>>
    BY DEF Shells, StraysInv
  <2>2. Head(q).body \in Nat
    BY <2>1, ErrandsOf, NotContent
  <2>3. CASE stored' = Head(q).body /\ overtaken' = (TRUE /\ (overtaken \/ Head(q).body < stored))
    <3>1. CASE overtaken
      BY <2>3, <3>1, Zenon DEF Lossless
    <3>2. CASE Head(q).body < stored
      BY <2>3, <3>2, Zenon DEF Lossless
    <3>3. CASE blanked
      BY <3>3 DEF Lossless
    <3>4. CASE ~overtaken /\ ~blanked /\ ~(Head(q).body < stored)
      <4>1. stored >= promised
        BY <3>4, Zenon DEF Lossless
      <4>2. stored' >= promised'
        BY <1>0, <2>2, <2>3, <3>4, <4>1
      <4> QED
        BY <4>2 DEF Lossless
    <3> QED
      BY <3>1, <3>2, <3>3, <3>4
  <2> QED
    BY <1>1, <1>3, <2>3 DEF StraySaved, Apply
<1>4. CASE Answered \/ Lock \/ TimePasses \/ ForeignSubmit
  BY <1>1, <1>4 DEF Answered, ServeSubmit, SubmitBreaks, Lock, TimePasses, ForeignSubmit, history
<1>5. CASE UNCHANGED <<server, overtaken>>
  BY <1>1, <1>5 DEF server
<1> QED
  BY <1>2, <1>3, <1>4, <1>5, Accepting, Servers

\* The answer to a flush.
LEMMA FlushedLossless ==
    ASSUME Shells, SurvivesInv, Faithful, Next, AcceptsSave', blanked => blanked',
           wire # Nothing, Head(chain) = "final", wire' # Nothing, wire'.at \in {"ok", "refused"},
           promised' = promised, wire' = wire \/ Saved
    PROVE  Lossless'
<1>1. wire.body >= promised \/ blanked
  <2>1. OnItsWay /\ ~Flushes(Tail(chain))
    BY ChainShrinks DEF Shells, SavesInv, OnItsWay
  <2> QED
    BY <2>1 DEF Faithful, WirePromise
<1>2. CASE wire' = wire
  <2>1. Flushed
    BY <1>2 DEF Flushed
  <2> QED
    BY <1>1, <2>1, LosslessStays DEF Faithful, PostsLossless
<1>3. CASE Saved
  <2>1. wire \in Request /\ ServeSave
    BY <1>3 DEF Saved, SaveBreaks, ServeSave, Shells, SavesInv, Request
  <2>2. stored' = wire.body
    BY <2>1, Accepting DEF ServeSave, Apply
  <2> QED
    BY <1>1, <2>2 DEF Lossless
<1> QED
  BY <1>2, <1>3

LEMMA PostsKept ==
    ASSUME Shells, Order, SurvivesInv, Faithful, Next, AcceptsSave' PROVE PostsLossless'
<1>0. wire # Nothing => chain # <<>> /\ chain \in Seq({"auto", "final"})
  BY DEF Shells, SavesInv
<1>1. ASSUME fin' = "posted" PROVE Lossless'
  <2>1. CASE fin = "posted"
    <3>1. promised' = promised
      BY <2>1, PromiseStays DEF Idle
    <3>2. ~Flushes(chain)
      BY <2>1 DEF Shells, SavesInv
    <3>3. wire # Nothing => ~Flushes(Tail(chain))
      BY <1>0, <3>2, ChainShrinks DEF Shells, SavesInv
    <3>4. wire # Nothing => wire.body >= promised \/ blanked
      BY <2>1, <3>3 DEF Faithful, WirePromise, OnItsWay
    <3>5. ~(Issue /\ Head(chain) = "final")
      BY <3>2, ChainShrinks DEF Issue, Drained, Shells, SavesInv
    <3>6. blanked => blanked'
      BY <3>5, BlankedStays
    <3> QED
      BY <2>1, <3>1, <3>4, <3>6, LosslessStays DEF Faithful, PostsLossless
  <2>2. CASE fin # "posted"
    <3>1. ~Goes
      <4>1. view' # "shell" => fin' # "posted"
        BY SavesKept DEF SavesInv, Gone
      <4> QED
        BY <1>1, <4>1 DEF Goes, Reload, Submitted, Swap
    <3>2. SaveSettles
      BY <1>1, <2>2, <3>1, Transfers DEF Load, Remount, Uploaded, UploadDone, UploadFails,
         RetryUpload, Confirm, Expire, Finalize, SubmitWithoutAudio, Answered, ServeSubmit,
         SubmitBreaks, GoOnline, Reopened, finalizer
    <3>3. wire # Nothing /\ Head(chain) = "final" /\ wire.at # "sent" /\ wire.at # "net"
      BY <1>1, <2>2, <3>2 DEF SaveSettles
    <3>4. Flushed
      BY <3>3 DEF Flushed, Shells, SavesInv, Request
    <3>5. promised' = promised /\ UNCHANGED <<stored, overtaken, blanked>>
      BY <3>2 DEF SaveSettles, history, server
    <3> QED
      BY <3>4, <3>5 DEF Faithful, PostsLossless, Lossless
  <2> QED
    BY <2>1, <2>2
<1>2. ASSUME Flushed' PROVE Lossless'
  <2>1. ~Issue /\ wire' # Nothing /\ Head(chain') = "final" /\ wire'.at \in {"ok", "refused"}
    BY <1>2 DEF Flushed, Issue
  <2>2. /\ wire # Nothing /\ (wire' = wire \/ Saved)
        /\ \E x \in {"auto", "final"} : chain' = chain \/ chain' = Append(chain, x)
    BY <2>1, WireSteps
  <2>3. Head(chain) = "final"
    BY <1>0, <2>1, <2>2, ChainGrows
  <2>4. fin = "flushing"
    BY <1>0, <2>2, <2>3, ChainShrinks DEF Shells, SavesInv
  <2>5. promised' = promised /\ (blanked => blanked')
    BY <2>1, <2>4, PromiseStays, BlankedStays DEF Idle
  <2> QED
    BY <2>1, <2>2, <2>3, <2>5, FlushedLossless
<1> QED
  BY <1>1, <1>2 DEF PostsLossless

-----------------------------------------------------------------------------
(* The shells that are gone: what they carry.                                *)

LEMMA BehindStays ==
    ASSUME Shells, SurvivesInv, Faithful, Next, AcceptsSave', Behind
    PROVE  promised' = promised /\ (blanked => blanked') /\ (Lossless => Lossless')
<1>1. promised' = promised
  BY BehindFixesPromise
<1>2. blanked => blanked'
  BY BehindIsSubmitting, BlankedStays
<1>3. wire # Nothing => wire.body >= promised \/ blanked
  BY DEF Faithful, WirePromise
<1> QED
  BY <1>1, <1>2, <1>3, LosslessStays

LEMMA StraysStay ==
    ASSUME Shells, SurvivesInv, Faithful, Next, AcceptsSave', NEW q \in strays
    PROVE  (Posted(q) /\ Leads(q))'
<1>1. Posted(q) /\ Leads(q) /\ 1 \in 1 .. Len(q)
  BY StrayTypes DEF Faithful, KeepsPromise
<1>2. CASE Submits(q)
  <2>1. Behind
    BY <1>2 DEF Behind
  <2>2. promised' = promised /\ (blanked => blanked') /\ (Lossless => Lossless')
    BY <2>1, BehindStays
  <2> QED
    BY <1>1, <2>2 DEF Posted, Leads
<1>3. CASE ~Submits(q)
  BY <1>1, <1>3 DEF Submits, Posted, Leads
<1> QED
  BY <1>2, <1>3

\* The background of a page that goes carries its promise.
LEMMA BackgroundKeeps ==
    ASSUME Shells, Order, SurvivesInv, Faithful, AcceptsSave, view = "shell", Drained,
           NEW to \in {"away", "error", "confirmed"}, Swap(to), NEW q, q = Background, q # <<>>
    PROVE  (Posted(q) /\ Leads(q))'
<1>1. /\ q \in Seq(Errand) /\ 1 \in 1 .. Len(q)
      /\ \A i \in 1 .. Len(q) :
             /\ q[i].do \in {"save", "flush"}
             /\ q[i].do = "flush" => Flushes(chain)
             /\ IF i = 1 /\ wire # Nothing /\ wire.at = "sent"
                THEN q[i] = Put(Purpose(Head(chain)), wire.body)
                ELSE q[i].body = Draft
      /\ ~(wire # Nothing /\ wire.at = "sent") => Len(q) = Len(Waiting)
  BY BackgroundErrands, ErrandsOf
<1>2. /\ promised' = promised
      /\ blanked' = (blanked \/ (wire # Nothing /\ wire.at # "sent" /\ Waiting # <<>> /\ Blank))
  BY DEF Swap, Unmount
<1>3. blanked => blanked'
  BY <1>2, Zenon
<1>4. Posted(q)'
  BY <1>1 DEF Posted
<1> SUFFICES ASSUME q[1].do = "flush" PROVE q[1].body >= promised \/ blanked'
  BY <1>2, <1>4 DEF Leads
<1>5. Flushes(chain) /\ OnItsWay
  BY <1>1 DEF Shells, SavesInv, OnItsWay
<1>6. wire # Nothing
  BY <1>5 DEF Drained, Flushes
<1>7. CASE wire.at = "sent"
  <2>1. q[1].do = Purpose(Head(chain)) /\ q[1].body = wire.body
    BY <1>1, <1>6, <1>7 DEF Put
  <2>2. Head(chain) = "final"
    BY <2>1 DEF Purpose
  <2>3. ~Flushes(Tail(chain))
    BY <1>6, <2>2, ChainShrinks DEF Shells, SavesInv
  <2> QED
    BY <1>3, <1>5, <1>6, <2>1, <2>3 DEF Faithful, WirePromise
<1>8. CASE wire.at # "sent"
  <2>1. q[1].body = Draft /\ Len(q) = Len(Waiting)
    BY <1>1, <1>8
  <2>2. Waiting # <<>>
    BY <1>1, <2>1
  <2>3. CASE cache = Nothing
    <3>1. Blank
      BY <2>3, DraftIsLatest
    <3> QED
      BY <1>2, <1>6, <1>8, <2>2, <3>1, Zenon
  <2>4. CASE cache # Nothing
    <3>1. promised <= committed /\ Draft = committed /\ promised \in Nat /\ committed \in Nat
      BY <1>5, <2>4, DraftIsLatest, Numbers DEF Faithful, HoldsPromise
    <3> QED
      BY <2>1, <3>1
  <2> QED
    BY <2>3, <2>4
<1> QED
  BY <1>7, <1>8

LEMMA PostingKeeps ==
    ASSUME Next, Faithful, Goes, fin = "posted" \/ Flushed, NEW what \in {"submit", "post"}
    PROVE  (Posted(<<Put(what, 0)>>) /\ Leads(<<Put(what, 0)>>))'
<1>1. Lossless'
  <2>1. Lossless
    BY DEF Faithful, PostsLossless
  <2>2. promised' = promised /\ UNCHANGED <<stored, overtaken>>
    BY DEF Goes, Reload, Submitted, Swap, server
  <2>3. blanked => blanked'
    BY BlankedStays DEF Goes, Reload, Submitted, Issue
  <2> QED
    BY <2>1, <2>2, <2>3 DEF Lossless
<1> DEFINE e == Put(what, 0)
<1>2. e.do = what
  BY NoTake, ErrandParts
<1> HIDE DEF e
<1>3. Len(<<e>>) = 1 /\ <<e>>[1] = e
  OBVIOUS
<1> QED
  BY <1>1, <1>2, <1>3 DEF e, Posted, Leads

\* A chain in the background goes on with its next errand.
LEMMA ReadyKeeps ==
    ASSUME Shells, Order, SurvivesInv, Faithful, Next, AcceptsSave', NEW r \in strays,
           StraySaved(r) \/ StrayLost(r), Tail(r) # <<>>, NEW q, q = Ready(Tail(r))
    PROVE  (Posted(q) /\ Leads(q))'
<1>1. r \in Seq(Errand) /\ r # <<>> /\ Posted(r)
  BY StrayTypes DEF Faithful, KeepsPromise
<1>2. /\ Tail(r) \in Seq(Errand) /\ 1 \in 1 .. Len(Tail(r)) /\ Head(Tail(r)) = Tail(r)[1]
      /\ \A i \in 1 .. Len(Tail(r)) : i + 1 \in 1 .. Len(r) /\ Tail(r)[i] = r[i + 1]
  BY <1>1, ErrandsOf
<1>3. /\ Len(q) = Len(Tail(r))
      /\ \A i \in 1 .. Len(Tail(r)) : q[i].do = Tail(r)[i].do
      /\ Saves(Tail(r)) => q[1].body = Draft
  BY <1>2, ReadyErrand
<1>4. CASE Submits(q)
  <2>1. Behind
    BY <1>4, TailSubmits DEF Behind
  <2>2. promised' = promised /\ (blanked => blanked') /\ (Lossless => Lossless')
    BY <2>1, BehindStays
  <2>3. Posted(q)'
    BY <1>1, <1>2, <1>3, <2>2 DEF Posted
  <2>4. ASSUME q[1].do = "flush" PROVE q[1].body >= promised \/ blanked'
    <3>1. Saves(Tail(r)) /\ q[1].body = Draft
      BY <1>2, <1>3, <2>4 DEF Saves
    <3>2. CASE cache = Nothing
      <4>1. Blank
        BY <3>2, DraftIsLatest, Accepting
      <4>2. Heard(r)
        BY DEF StraySaved, StrayLost
      <4> QED
        BY <3>1, <4>1, <4>2, Zenon DEF Heard
    <3>3. CASE cache # Nothing
      <4>1. promised <= committed /\ Draft = committed /\ promised \in Nat /\ committed \in Nat
        BY <2>1, <3>3, DraftIsLatest, Accepting, Numbers DEF Faithful, HoldsPromise
      <4> QED
        BY <3>1, <4>1
    <3> QED
      BY <3>2, <3>3
  <2> QED
    BY <2>2, <2>3, <2>4 DEF Leads
<1>5. CASE ~Submits(q)
  BY <1>2, <1>3, <1>5 DEF Submits, Posted, Leads
<1> QED
  BY <1>4, <1>5

LEMMA KeepsKept ==
    ASSUME Shells, Order, SurvivesInv, Faithful, Next, AcceptsSave' PROVE KeepsPromise'
<1> SUFFICES ASSUME NEW q \in strays' PROVE (Posted(q) /\ Leads(q))'
  BY DEF KeepsPromise
<1>0. AcceptsSave /\ ~Submitted /\ \A r \in strays : ~StraySubmitted(r)
  BY Accepting
<1>1. CASE q \in strays
  BY <1>1, StraysStay
<1>2. CASE Goes /\ view = "shell" /\ q = Background /\ q # <<>> /\ ~Reload
  <2>1. PICK to \in {"away", "error", "confirmed"} : Drained /\ Swap(to)
    BY <1>0, <1>2 DEF Goes
  <2> QED
    BY <1>0, <1>2, <2>1, BackgroundKeeps
<1>3. CASE Goes /\ view = "shell" /\ q = Posting /\ q # <<>>
  <2>1. q = <<Put("submit", 0)>> /\ (fin = "posted" \/ Flushed)
    BY <1>3 DEF Posting
  <2> QED
    BY <1>3, <2>1, PostingKeeps
<1>4. ASSUME Reload, NEW r \in strays, q = InFlight(r) PROVE (Posted(q) /\ Leads(q))'
  <2>1. /\ Len(q) = 1 /\ q[1].do \in {"save", "post"}
        /\ q[1].do = "post" => r[1].do \in {"submit", "post"}
        /\ 1 \in 1 .. Len(r) /\ Posted(r)
    BY <1>4, StrayTypes, InFlightErrand DEF Faithful, KeepsPromise
  <2>2. q[1].do = "post" => Lossless
    BY <2>1 DEF Posted
  <2>3. promised' = promised /\ UNCHANGED <<stored, overtaken, blanked>>
    BY <1>4 DEF Reload, server
  <2> QED
    BY <2>1, <2>2, <2>3 DEF Posted, Leads, Lossless
<1>5. CASE wire # Nothing /\ q = <<Put("save", wire.body)>>
  <2>1. wire.body \in Content
    BY <1>5 DEF Shells, SavesInv, Request
  <2>2. Submits(q) <=> FALSE
    BY <1>5, <2>1, OnePut
  <2>3. Len(q) = 1
    BY <1>5
  <2> QED
    BY <2>2, <2>3 DEF Submits, Posted, Leads
<1>6. CASE Reload /\ fin = "posted" /\ q = <<Put("post", 0)>>
  <2>1. Goes
    BY <1>6 DEF Goes
  <2> QED
    BY <1>6, <2>1, PostingKeeps
<1>7. ASSUME NEW r \in strays, StraySaved(r) \/ StrayLost(r), Tail(r) # <<>>, q = Ready(Tail(r))
      PROVE  (Posted(q) /\ Leads(q))'
  BY <1>7, ReadyKeeps
<1>8. ASSUME NEW r \in strays, StraySaved(r), Head(r).do = "flush", q = <<Put("submit", 0)>>
      PROVE  (Posted(q) /\ Leads(q))'
  <2>1. Leads(r) /\ Head(r) = r[1] /\ r[1].body \in Nat /\ promised \in Nat /\ 1 \in 1 .. Len(r)
    BY StrayTypes, Numbers DEF Faithful, KeepsPromise
  <2>2. Behind
    BY <1>8, <2>1, TailSubmits DEF Behind
  <2>3. stored' = r[1].body /\ promised' = promised /\ (blanked => blanked')
    BY <1>0, <1>8, <2>1, <2>2, BehindStays DEF StraySaved, Apply
  <2>4. Lossless'
    BY <1>8, <2>1, <2>3 DEF Leads, Lossless
  <2>5. Len(q) = 1 /\ q[1].do = "submit"
    BY <1>8 DEF Put
  <2> QED
    BY <2>4, <2>5 DEF Posted, Leads
<1> QED
  BY <1>0, <1>1, <1>2, <1>3, <1>4, <1>5, <1>6, <1>7, <1>8, Newcomers

-----------------------------------------------------------------------------
(* The submit.                                                               *)

LEMMA FaithfulKept ==
    ASSUME Shells, Order, SurvivesInv, Faithful, Next, AcceptsSave' PROVE Faithful'
<1>1. PostsLossless' /\ HoldsPromise' /\ UploadsPromise'
  BY PostsKept, HoldsKept, UploadsPromised
<1>2. WirePromise' /\ KeepsPromise'
  BY WirePromised, KeepsKept
<1> QED
  BY <1>1, <1>2 DEF Faithful

LEMMA SubmittedKept ==
    ASSUME Shells, SubmitInv, Next PROVE SubmittedAsConfirmed'
<1>1. ASSUME ~AcceptsSubmit, sealed = "own", sealed' = "own" PROVE SubmittedAsConfirmed'
  <2>1. stored >= promised \/ overtaken \/ blanked \/ clock = "over"
    BY <1>1 DEF SubmitInv, SubmittedAsConfirmed
  <2>2. promised' = promised
    <3>1. CASE Confirm \/ Expire \/ SubmitWithoutAudio
      BY <1>1, <3>1 DEF Confirm, Expire, SubmitWithoutAudio, Finalize, Promise
    <3> QED
      BY <3>1, PromiseStays
  <2>3. UNCHANGED <<stored, overtaken>> /\ (clock = "over" => clock' = "over")
    <3>1. CASE UNCHANGED <<server, overtaken>>
      BY <3>1 DEF server
    <3>2. CASE Saved \/ \E q \in strays : StraySaved(q)
      BY <1>1, <3>2 DEF Saved, ServeSave, SaveBreaks, StraySaved, Apply, AcceptsSave
    <3>3. CASE Answered \/ \E q \in strays : StraySubmitted(q)
      BY <3>3 DEF Answered, ServeSubmit, SubmitBreaks, StraySubmitted, history
    <3>4. CASE Lock \/ TimePasses \/ ForeignSubmit
      BY <3>4 DEF Lock, TimePasses, ForeignSubmit, history
    <3> QED
      BY <3>1, <3>2, <3>3, <3>4, Servers
  <2>4. blanked => blanked'
    BY <1>1, BlankedStays DEF AcceptsSave
  <2> QED
    BY <2>1, <2>2, <2>3, <2>4 DEF SubmittedAsConfirmed
<1>2. ASSUME sealed # "own", sealed' = "own" PROVE SubmittedAsConfirmed'
  <2>1. AcceptsSubmit /\ (\/ Answered /\ fin = "posted"
                          \/ \E q \in strays : StraySubmitted(q) /\ Head(q).do \in {"submit", "post"})
    <3>1. ~UNCHANGED server /\ ~Saved /\ ~Lock /\ ~TimePasses /\ ~ForeignSubmit
          /\ ~\E q \in strays : StraySaved(q)
      BY <1>2 DEF server, Saved, ServeSave, SaveBreaks, Lock, TimePasses, ForeignSubmit,
         StraySaved
    <3>2. CASE Answered
      BY <1>2, <3>2 DEF Answered, ServeSubmit, SubmitBreaks, Seal
    <3>3. CASE \E q \in strays : StraySubmitted(q)
      BY <1>2, <3>3 DEF StraySubmitted, Seal
    <3> QED
      BY <3>1, <3>2, <3>3, Servers
  <2>2. UNCHANGED <<stored, clock, promised, overtaken, blanked>>
    BY <2>1 DEF Answered, ServeSubmit, SubmitBreaks, StraySubmitted, history
  <2>3. CASE clock = "over"
    BY <2>2, <2>3 DEF SubmittedAsConfirmed
  <2>4. CASE clock # "over"
    <3>1. Faithful
      BY <2>1, <2>4 DEF SubmitInv, AcceptsSave
    <3>2. Lossless
      <4>1. CASE fin = "posted"
        BY <3>1, <4>1 DEF Faithful, PostsLossless
      <4>2. ASSUME NEW q \in strays, Head(q).do \in {"submit", "post"} PROVE Lossless
        <5>1. Posted(q) /\ Head(q) = q[1] /\ 1 \in 1 .. Len(q)
          BY <3>1, StrayTypes DEF Faithful, KeepsPromise
        <5> QED
          BY <4>2, <5>1 DEF Posted
      <4> QED
        BY <2>1, <4>1, <4>2
    <3> QED
      BY <2>2, <3>2 DEF Lossless, SubmittedAsConfirmed
  <2> QED
    BY <2>3, <2>4
<1> QED
  BY <1>1, <1>2 DEF SubmittedAsConfirmed, AcceptsSubmit

LEMMA SubmitInitially == Init => SubmitInv
<1> SUFFICES ASSUME Init PROVE SubmitInv
  OBVIOUS
<1>1. SubmittedAsConfirmed
  BY DEF Init, SubmittedAsConfirmed
<1>2. PostsLossless /\ HoldsPromise
  BY DEF Init, PostsLossless, Flushed, HoldsPromise, OnItsWay, Behind
<1>3. UploadsPromise /\ WirePromise /\ KeepsPromise
  BY DEF Init, UploadsPromise, WirePromise, KeepsPromise
<1> QED
  BY <1>1, <1>2, <1>3 DEF SubmitInv, Faithful

LEMMA SubmitStays ==
    Shells /\ Order /\ SurvivesInv /\ SubmitInv /\ [Next]_vars => SubmitInv'
<1>1. ASSUME Shells, Order, SurvivesInv, SubmitInv, Next PROVE SubmitInv'
  <2>1. SubmittedAsConfirmed'
    BY <1>1, SubmittedKept
  <2>2. ASSUME AcceptsSave' PROVE Faithful'
    <3>1. Faithful
      BY <1>1, <2>2, Accepting DEF SubmitInv
    <3> QED
      BY <1>1, <2>2, <3>1, FaithfulKept
  <2> QED
    BY <2>1, <2>2 DEF SubmitInv
<1>2. ASSUME SubmitInv, UNCHANGED vars PROVE SubmitInv'
  <2>1. SubmittedAsConfirmed'
    BY <1>2 DEF vars, SubmitInv, SubmittedAsConfirmed
  <2>2. AcceptsSave' => AcceptsSave
    BY <1>2 DEF vars, AcceptsSave, AcceptsSubmit
  <2>3. ASSUME Faithful PROVE Faithful'
    <3>1. PostsLossless' /\ HoldsPromise'
      BY <1>2, <2>3 DEF vars, Faithful, PostsLossless, Lossless, Flushed, HoldsPromise, OnItsWay,
         Behind
    <3>2. UploadsPromise' /\ WirePromise'
      BY <1>2, <2>3 DEF vars, Faithful, UploadsPromise, WirePromise, OnItsWay, Behind
    <3>3. KeepsPromise'
      BY <1>2, <2>3 DEF vars, Faithful, KeepsPromise, Posted, Leads, Lossless
    <3> QED
      BY <3>1, <3>2, <3>3 DEF Faithful
  <2> QED
    BY <1>2, <2>1, <2>2, <2>3 DEF SubmitInv
<1> QED
  BY <1>1, <1>2

\* What the student's own submit seals holds the take the student was shown when
\* asking for it, or a later one, whatever uploads, reconnects, re-recordings, retries,
\* reloads and lost answers came in between; unless the time was over, a save of a
\* shell that is gone brought an older key back, or the final flush, or a save sent
\* after it, found the slot of the draft collected (ensureLatestTakeUploaded,
\* runFinalize, getContent).
THEOREM ConfirmedIsSubmitted == Spec => []SubmittedAsConfirmed
<1>1. Init => Shells /\ Order /\ SurvivesInv /\ SubmitInv
  BY ShellsInitially, SurvivesInitially, SubmitInitially
<1>2. Shells /\ Order /\ SurvivesInv /\ SubmitInv /\ [Next]_vars
          => (Shells /\ Order /\ SurvivesInv /\ SubmitInv)'
  BY ShellsKept, SurvivesAlways, SubmitStays
<1>3. Shells /\ Order /\ SurvivesInv /\ SubmitInv => SubmittedAsConfirmed
  BY DEF SubmitInv
<1> QED
  BY <1>1, <1>2, <1>3, PTL DEF Spec
=============================================================================
