------------------------------- MODULE Attempt -------------------------------
(***************************************************************************)
(* Student attempts and their grades in classlite-api: start, autosave and *)
(* submit (internal/service/submission_service.go), close and reopen       *)
(* (assignment_service.go), edit and deletion of exercises                 *)
(* (exercise_service.go), grades and revisions (grading_service.go),       *)
(* overrides and release of objective results (auto_grade_service.go).     *)
(*                                                                         *)
(* One class of one center.  A request is a database transaction at READ   *)
(* COMMITTED: it reads committed rows as it goes, keeps the locks it took  *)
(* until it ends, and its writes, which come last, appear when it does.    *)
(* Callers are authorised.                                                 *)
(***************************************************************************)
EXTENDS Integers, Sequences, FiniteSetsExt

CONSTANTS
    Students,
    Assignments,
    Exercises,
    ExerciseOf,   \* assignments.exercise_id
    Requests,     \* transactions that may be open at a time
    Contents,     \* what a student may write; the empty shell is one of them
    Shell,
    Questions,    \* references of the questions of an objective exercise
    MaxEdits,     \* bound on the edits of an exercise
    MaxGrades,    \* bound on the versions of a grade
    None

Subs == Assignments \X Students

ASSUME AttemptAssumption ==
    /\ ExerciseOf \in [Assignments -> Exercises]
    /\ Shell \in Contents
    /\ MaxEdits \in Nat /\ MaxGrades \in Nat \ {0}
    /\ None \notin Subs \cup Exercises /\ \A Q \in SUBSET Questions : Q # None

VARIABLES
    status,    \* assignments.status, "absent" before the row is inserted
    version,   \* exercises.updated_at, counted
    kind,      \* how an exercise can be graded: "scored" by its skill (writing or
               \* speaking), "marked" by its content (it has questions), or both
    deleted,   \* exercises with a deleted_at
    sub,       \* the submissions row of an assignment and a student
    grades,    \* the grades rows of a submission, in the order of insertion
    marks,     \* auto_grade_results: the questions overridden, None without a row
    tx,        \* what each request has read; its pc tells the locks it holds
    applied    \* history: the overrides that were answered with success

library  == <<version, kind, deleted>>
results  == <<grades, marks, applied>>
vars     == <<status, library, sub, results, tx>>

NoTx == [pc |-> "idle", x |-> None, e |-> None, content |-> Shell,
         base |-> 0, marks |-> {}]

Kinds == SUBSET {"scored", "marked"}

Init ==
    /\ status = [a \in Assignments |-> "absent"]
    /\ version = [e \in Exercises |-> 0]
    /\ kind \in [Exercises -> Kinds]
    /\ deleted = {}
    /\ sub = [x \in Subs |-> [status |-> "none", content |-> Shell]]
    /\ grades = [x \in Subs |-> <<>>]
    /\ marks = [x \in Subs |-> None]
    /\ tx = [r \in Requests |-> NoTx]
    /\ applied = [x \in Subs |-> {}]

-----------------------------------------------------------------------------
(* Locks.                                                                  *)

\* mutant: an override reads the working row without LockSubmissionForGrading
HeldByGrades(t) ==
    CASE t.pc \in {"insert", "flip"}   -> {<<"assignment", t.x[1]>>}
      [] t.pc = "rewrite"              -> {<<"exercise", t.e>>}
      [] t.pc \in {"grade", "release"} -> {<<"submission", t.x>>}
      [] OTHER                         -> {}

\* The locks an open transaction holds: a row of assignments (FOR UPDATE), the
\* advisory lock of an exercise, a row of submissions.
Held(t) ==
    CASE t.pc \in {"insert", "flip"}               -> {<<"assignment", t.x[1]>>}
      [] t.pc = "rewrite"                          -> {<<"exercise", t.e>>}
      [] t.pc \in {"grade", "override", "release"} -> {<<"submission", t.x>>}
      [] OTHER                                     -> {}

\* mutant: Start does not take the exercise's lock
NeededByStart(t) ==
    CASE t.pc \in {"start", "submit"} -> {<<"assignment", t.x[1]>>}
      [] t.pc = "edit"                -> {<<"exercise", t.e>>}
      [] t.pc \in {"write", "flip"}   -> {<<"submission", t.x>>}
      [] OTHER                        -> {}

\* mutant: a grade locks the assignment too, after the submission
NeededByGrade(t) ==
    CASE t.pc \in {"start", "submit", "grade"} -> {<<"assignment", t.x[1]>>}
      [] t.pc = "insert"              -> {<<"exercise", ExerciseOf[t.x[1]]>>}
      [] t.pc = "edit"                -> {<<"exercise", t.e>>}
      [] t.pc \in {"write", "flip"}   -> {<<"submission", t.x>>}
      [] OTHER                        -> {}

\* The lock the next statement of an open transaction takes.
Needed(t) ==
    CASE t.pc \in {"start", "submit"} -> {<<"assignment", t.x[1]>>}
      [] t.pc = "insert"              -> {<<"exercise", ExerciseOf[t.x[1]]>>}
      [] t.pc = "edit"                -> {<<"exercise", t.e>>}
      [] t.pc \in {"write", "flip"}   -> {<<"submission", t.x>>}
      [] OTHER                        -> {}

Free(r, l) == \A q \in Requests \ {r} : l \notin Held(tx[q])

Granted(r) == \A l \in Needed(tx[r]) : Free(r, l)

Goto(r, t) == tx' = [tx EXCEPT ![r] = t]
End(r)     == Goto(r, NoTx)

Attempted(e) == \E x \in Subs : ExerciseOf[x[1]] = e /\ sub[x].status # "none"
KindOf(x) == kind[ExerciseOf[x[1]]]

-----------------------------------------------------------------------------
(* Students.                                                               *)

Begin(r, pc, x, c) ==
    /\ tx[r] = NoTx
    /\ Goto(r, [NoTx EXCEPT !.pc = pc, !.x = x, !.content = c])
    /\ UNCHANGED <<status, library, sub, results>>

Ask(r, x) ==
    \/ status[x[1]] # "absent" /\ Begin(r, "start", x, Shell)
    \/ /\ sub[x].status # "none"
       /\ \/ \E c \in Contents : Begin(r, "save", x, c)
          \/ Begin(r, "submit", x, Shell)

\* assignmentLocked.  What else may refuse a request, the deadline, the time limit
\* and the enrollment, is read without a lock and can be anything: then it Aborts.
MayWrite(r) == status[tx[r].x[1]] = "open"

\* Start and Submit: GetAssignmentForUpdate and the checks.
LockAssignment(r) ==
    /\ tx[r].pc \in {"start", "submit"}
    /\ Granted(r)
    /\ MayWrite(r)
    /\ Goto(r, [tx[r] EXCEPT !.pc = IF @ = "start" THEN "insert" ELSE "flip"])
    /\ UNCHANGED <<status, library, sub, results>>

\* Start: the exercise's lock, the probe, StartSubmission.  An attempt that is in
\* progress is resumed and a later one refused, both without a write.
StartSubmission(r) ==
    /\ tx[r].pc = "insert"
    /\ Granted(r)
    /\ sub[tx[r].x].status = "none"
    /\ sub' = [sub EXCEPT ![tx[r].x] = [status |-> "in_progress", content |-> Shell]]
    /\ End(r)
    /\ UNCHANGED <<status, library, results>>

\* SaveProgress reads the assignment without a lock ...
CheckProgress(r) ==
    /\ tx[r].pc = "save"
    /\ MayWrite(r)
    /\ Goto(r, [tx[r] EXCEPT !.pc = "write"])
    /\ UNCHANGED <<status, library, sub, results>>

NotGraded(x)  == sub[x].status # "graded"  \* mutant: only the trigger guards
Begun(x)      == sub[x].status # "none"    \* mutant: nothing guards
InProgress(x) == sub[x].status = "in_progress"

\* ... and replaces the content of a row that is in progress.
SaveProgress(r) ==
    /\ tx[r].pc = "write"
    /\ Granted(r)
    /\ InProgress(tx[r].x)
    /\ sub' = [sub EXCEPT ![tx[r].x].content = tx[r].content]
    /\ End(r)
    /\ UNCHANGED <<status, library, results>>

\* Submit: the guarded flip, and behind a savepoint the auto-grader, which marks an
\* objective attempt or fails without a trace.
SubmitSubmission(r) ==
    LET x == tx[r].x IN
    /\ tx[r].pc = "flip"
    /\ Granted(r)
    /\ InProgress(x)
    /\ sub' = [sub EXCEPT ![x].status = "submitted"]
    /\ \/ marks' = marks
       \/ "marked" \in KindOf(x) /\ marks' = [marks EXCEPT ![x] = {}]
    /\ End(r)
    /\ UNCHANGED <<status, library, grades, applied>>

-----------------------------------------------------------------------------
(* Teachers: assignments and exercises.                                    *)

\* Create, for an exercise that is not deleted (when it is deleted between the look
\* and the insert, the rows are as if it had been deleted after).
CreateAssignment(a) ==
    /\ status[a] = "absent"
    /\ ExerciseOf[a] \notin deleted
    /\ status' = [status EXCEPT ![a] = "open"]
    /\ UNCHANGED <<library, sub, results, tx>>

Unlocked(l) == TRUE  \* mutant: GetAssignmentForUpdate without FOR UPDATE
RowFree(l) == \A q \in Requests : l \notin Held(tx[q])

\* UpdateStatus: a compare-and-swap, which waits for whoever has the row.
UpdateStatus(a) ==
    /\ status[a] # "absent"
    /\ RowFree(<<"assignment", a>>)
    /\ status' = [status EXCEPT ![a] = IF @ = "open" THEN "closed" ELSE "open"]
    /\ UNCHANGED <<library, sub, results, tx>>

\* Update and SoftDelete read the row first, ...
GetExercise(r, e) ==
    /\ tx[r] = NoTx
    /\ e \notin deleted
    /\ Goto(r, [NoTx EXCEPT !.pc = "edit", !.e = e, !.base = version[e]])
    /\ UNCHANGED <<status, library, sub, results>>

\* ... take the lock and look for attempts (ExerciseIsLocked), ...
ExerciseIsLocked(r) ==
    /\ tx[r].pc = "edit"
    /\ Granted(r)
    /\ ~Attempted(tx[r].e)
    /\ Goto(r, [tx[r] EXCEPT !.pc = "rewrite"])
    /\ UNCHANGED <<status, library, sub, results>>

\* ... and write, the former only over the version it has read.
UpdateExercise(r) ==
    LET e == tx[r].e IN
    /\ tx[r].pc = "rewrite"
    /\ e \notin deleted
    /\ version[e] = tx[r].base
    /\ version[e] < MaxEdits
    /\ version' = [version EXCEPT ![e] = @ + 1]
    /\ \E k \in Kinds : kind' = [kind EXCEPT ![e] = k]
    /\ End(r)
    /\ UNCHANGED <<status, deleted, sub, results>>

SoftDeleteExercise(r) ==
    /\ tx[r].pc = "rewrite"
    /\ tx[r].e \notin deleted
    /\ deleted' = deleted \cup {tx[r].e}
    /\ End(r)
    /\ UNCHANGED <<status, version, kind, sub, results>>

-----------------------------------------------------------------------------
(* Teachers: grades.                                                       *)

\* The row that a request inserts: by whom, and what it was made from.
Row(r) == [n |-> tx[r].base + 1, by |-> tx[r].pc, content |-> tx[r].content,
           marks |-> tx[r].marks]

Released(x) == grades[x] # <<>>

\* UNIQUE(submission_id, version).
NoIndex(x, n) == FALSE  \* mutant: it is missing
Taken(x, n) == \E i \in DOMAIN grades[x] : grades[x][i].n = n

\* mutant: counts from the version to come
NextGradeVersion(x) == IF grades[x] = <<>> THEN 0 ELSE Len(grades[x]) + 1
MaxGradeVersion(x)  == Max({0} \cup {grades[x][i].n : i \in DOMAIN grades[x]})

\* GradeWriting and its twin GradeSpeaking: LockSubmissionForGrading, the checks.
LockForGrade(r, x) ==
    /\ tx[r] = NoTx
    /\ Free(r, <<"submission", x>>)
    /\ sub[x].status = "submitted" /\ "scored" \in KindOf(x)
    /\ Goto(r, [NoTx EXCEPT !.pc = "grade", !.x = x, !.content = sub[x].content])
    /\ UNCHANGED <<status, library, sub, results>>

\* loadObjectiveContext and assertUnreleased, for Override and Release.
LockObjective(r, x, pc) ==
    /\ tx[r] = NoTx
    /\ Free(r, <<"submission", x>>)
    /\ "marked" \in KindOf(x)
    /\ marks[x] # None
    /\ ~Released(x)
    /\ Goto(r, [NoTx EXCEPT !.pc = pc, !.x = x, !.content = sub[x].content,
                            !.base = MaxGradeVersion(x), !.marks = marks[x]])
    /\ UNCHANGED <<status, library, sub, results>>

\* InsertGrade, the guarded flip to graded, the outbox job.
ReleaseGrade(r) ==
    LET x == tx[r].x IN
    /\ tx[r].pc \in {"grade", "release"}
    /\ ~Taken(x, tx[r].base + 1)
    /\ sub[x].status = "submitted"
    /\ grades' = [grades EXCEPT ![x] = Append(@, Row(r))]
    /\ sub' = [sub EXCEPT ![x].status = "graded"]
    /\ End(r)
    /\ UNCHANGED <<status, library, marks, applied>>

\* Override: one answer's mark in the working row, which a trigger freezes once
\* the grade is released.
UpdateAutoGradeResult(r) ==
    LET x == tx[r].x IN
    /\ tx[r].pc = "override"
    /\ ~Released(x)
    /\ \E q \in Questions :
           /\ marks' = [marks EXCEPT ![x] = tx[r].marks \cup {q}]
           /\ applied' = [applied EXCEPT ![x] = @ \cup {q}]
    /\ End(r)
    /\ UNCHANGED <<status, library, sub, grades>>

\* ReviseGrade reads the newest version, without a lock ...
ReadVersion(r, x) ==
    /\ tx[r] = NoTx
    /\ "scored" \in KindOf(x)
    /\ MaxGradeVersion(x) # 0
    /\ Len(grades[x]) < MaxGrades
    /\ Goto(r, [NoTx EXCEPT !.pc = "revise", !.x = x, !.content = sub[x].content,
                            !.base = MaxGradeVersion(x)])
    /\ UNCHANGED <<status, library, sub, results>>

\* ... and inserts the next one, unless the unique index has it.
ReviseGrade(r) ==
    LET x == tx[r].x IN
    /\ tx[r].pc = "revise"
    /\ ~Taken(x, tx[r].base + 1)
    /\ grades' = [grades EXCEPT ![x] = Append(@, Row(r))]
    /\ End(r)
    /\ UNCHANGED <<status, library, sub, marks, applied>>

-----------------------------------------------------------------------------
(* The end of a request that is refused, fails or loses its connection.    *)

Abort(r) ==
    /\ tx[r] # NoTx
    /\ End(r)
    /\ UNCHANGED <<status, library, sub, results>>

Student(r) ==
    \/ \E x \in Subs : Ask(r, x)
    \/ LockAssignment(r)
    \/ StartSubmission(r)
    \/ CheckProgress(r)
    \/ SaveProgress(r)
    \/ SubmitSubmission(r)

Editor(r) ==
    \/ \E e \in Exercises : GetExercise(r, e)
    \/ ExerciseIsLocked(r)
    \/ UpdateExercise(r)
    \/ SoftDeleteExercise(r)

Grader(r) ==
    \/ \E x \in Subs : LockForGrade(r, x)
    \/ \E x \in Subs, pc \in {"override", "release"} : LockObjective(r, x, pc)
    \/ ReleaseGrade(r)
    \/ UpdateAutoGradeResult(r)
    \/ \E x \in Subs : ReadVersion(r, x)
    \/ ReviseGrade(r)

Next ==
    \/ \E r \in Requests : Student(r) \/ Editor(r) \/ Grader(r) \/ Abort(r)
    \/ \E a \in Assignments : CreateAssignment(a) \/ UpdateStatus(a)

Spec == Init /\ [][Next]_vars

-----------------------------------------------------------------------------
(* Properties.                                                             *)

SubStatus == {"none", "in_progress", "submitted", "graded"}

GradeRows == [n : 1 .. MaxGrades, by : {"grade", "release", "revise"},
              content : Contents, marks : SUBSET Questions]

Txs == [pc : {"idle", "start", "insert", "save", "write", "submit", "flip", "edit",
              "rewrite", "grade", "override", "release", "revise"},
        x : Subs \cup {None}, e : Exercises \cup {None}, content : Contents,
        base : Nat, marks : SUBSET Questions]

TypeOK ==
    /\ status \in [Assignments -> {"absent", "open", "closed"}]
    /\ version \in [Exercises -> 0 .. MaxEdits]
    /\ kind \in [Exercises -> Kinds]
    /\ deleted \subseteq Exercises
    /\ sub \in [Subs -> [status : SubStatus, content : Contents]]
    /\ grades \in [Subs -> Seq(GradeRows)]
    /\ marks \in [Subs -> {None} \cup SUBSET Questions]
    /\ applied \in [Subs -> SUBSET Questions]
    /\ tx \in [Requests -> Txs]

\* FR-23: the exercise a student has begun is never changed or deleted, although
\* the editor's look for attempts and the student's insert are both check-then-act
\* (takeExerciseEditLock), on whichever assignment the attempt is.
FrozenOnceAttempted ==
    [][\A e \in Exercises :
           version'[e] # version[e] \/ e \in deleted' \ deleted => ~Attempted(e)']_vars

\* D10, AC13: no attempt begins and none is submitted under a closed assignment,
\* whenever the close commits (GetAssignmentForUpdate).
OpenWhenWritten ==
    [][\A x \in Subs : sub'[x].status # sub[x].status /\ sub'[x].status # "graded"
                       => status[x[1]] = "open" /\ status'[x[1]] = "open"]_vars

\* What was submitted is what is graded: every version of the grade, whenever its
\* teacher had read the attempt, is for the content that the attempt has now.
GradedAsSubmitted ==
    \A x \in Subs : \A i \in DOMAIN grades[x] : grades[x][i].content = sub[x].content

\* A late autosave, a second submit or a second start changes nothing of an attempt
\* that was submitted (the guards on in_progress, the lock of Submit).
SubmittedIsFinal ==
    [][\A x \in Subs : sub[x].status \in {"submitted", "graded"} =>
           /\ sub'[x].content = sub[x].content
           /\ sub'[x].status \in {sub[x].status, "graded"}]_vars

\* The ledger of grades: versions 1, 2, ... without a gap or a double whoever revises
\* at once, and a submission is graded exactly when it has a released one.
GradesInOrder ==
    \A x \in Subs : /\ \A i \in DOMAIN grades[x] : grades[x][i].n = i
                    /\ sub[x].status = "graded" <=> grades[x] # <<>>

\* Two teachers override at once, a third releases: no override that was answered
\* with success is lost, and the definitive grade is the working row as it stands
\* (LockSubmissionForGrading, auto_grade_results_immutable_after_release).
OverridesCount ==
    \A x \in Subs :
        /\ marks[x] = None => applied[x] = {}
        /\ marks[x] # None => applied[x] = marks[x]
        /\ \A i \in DOMAIN grades[x] :
               grades[x][i].by = "release" => grades[x][i].marks = marks[x]

\* The handlers as they interleave, against the same handlers one at a time: what a
\* request has read still holds when it writes, by a lock, a guard or an index.
Serial == INSTANCE Coursework

ImplementsCoursework == Serial!Spec

\* The three kinds of locks are taken in one order: of the requests that are open,
\* one can go on.
LocksAcyclic ==
    (\E r \in Requests : tx[r] # NoTx) => \E r \in Requests : tx[r] # NoTx /\ Granted(r)
=============================================================================
