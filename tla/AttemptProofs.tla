--------------------------- MODULE AttemptProofs ---------------------------
(***************************************************************************)
(* Proofs about Attempt for every set of students, assignments, exercises, *)
(* open requests and questions.                                            *)
(*                                                                         *)
(* The inductive invariant says what a request may still rely on: no two   *)
(* requests hold one lock (OneHolder), and what a request has read under   *)
(* its lock, or of a row that no longer changes, is still so (Reliable).   *)
(* RowsOK is the part of it about the rows alone.                          *)
(***************************************************************************)
EXTENDS Attempt, TLAPS

\* A request names the row it works on.
Targeted(r) ==
    /\ tx[r].pc \in {"start", "insert", "save", "write", "submit", "flip", "grade",
                     "override", "release", "revise"} => tx[r].x \in Subs
    /\ tx[r].pc \in {"edit", "rewrite"} => tx[r].e \in Exercises

OneHolder == \A r, q \in Requests : r # q => Held(tx[r]) \cap Held(tx[q]) = {}

Reliable(r) ==
    LET x == tx[r].x IN
    /\ tx[r].pc \in {"insert", "flip"} => status[x[1]] = "open"
    /\ tx[r].pc = "rewrite" => ~Attempted(tx[r].e)
    /\ tx[r].pc = "grade" => sub[x].status = "submitted"
    /\ tx[r].pc \in {"override", "release"} => marks[x] # None /\ tx[r].marks = marks[x]
    /\ tx[r].pc \in {"grade", "override", "release"} =>
           grades[x] = <<>> /\ tx[r].base = 0 /\ tx[r].content = sub[x].content
    /\ tx[r].pc = "revise" => /\ sub[x].status = "graded"
                              /\ tx[r].content = sub[x].content
                              /\ tx[r].base \in 1 .. Len(grades[x])
                              /\ tx[r].base < MaxGrades

\* What GradesInOrder, GradedAsSubmitted and OverridesCount say of one attempt.
Ledger(x) ==
    /\ \A i \in DOMAIN grades[x] :
           grades[x][i].n = i /\ grades[x][i].content = sub[x].content
    /\ sub[x].status = "graded" <=> grades[x] # <<>>

Counted(x) ==
    /\ marks[x] = None => applied[x] = {}
    /\ marks[x] # None => applied[x] = marks[x]
    /\ \A i \in DOMAIN grades[x] :
           grades[x][i].by = "release" => grades[x][i].marks = marks[x]

RowsOK ==
    /\ \A x \in Subs : marks[x] # None => sub[x].status \in {"submitted", "graded"}
    /\ GradesInOrder
    /\ GradedAsSubmitted
    /\ OverridesCount

IInv ==
    /\ TypeOK
    /\ OneHolder
    /\ \A r \in Requests : Targeted(r) /\ Reliable(r)
    /\ RowsOK

-----------------------------------------------------------------------------
(* Lemmas on the operators of the model.                                   *)

\* A request that is not open.
LEMMA Idle == NoTx \in Txs /\ NoTx.pc = "idle"
  BY AttemptAssumption DEF NoTx, Txs

\* Versions in order: the newest one is the number of rows (MaxGradeVersion).
LEMMA Newest ==
  ASSUME TypeOK, GradesInOrder, NEW x \in Subs
  PROVE  MaxGradeVersion(x) = Len(grades[x])
  <1> DEFINE S == {0} \cup {grades[x][i].n : i \in DOMAIN grades[x]}
  <1>1. grades[x] \in Seq(GradeRows)
    BY DEF TypeOK
  <1>2. Len(grades[x]) \in Nat /\ DOMAIN grades[x] = 1 .. Len(grades[x])
    BY <1>1
  <1>3. \A i \in DOMAIN grades[x] : grades[x][i].n = i
    BY DEF GradesInOrder
  <1>4. S = 0 .. Len(grades[x])
    BY <1>2, <1>3
  <1> HIDE DEF S
  <1>5. Max(S) = Len(grades[x])
    <2>1. Len(grades[x]) \in S /\ \A y \in S : Len(grades[x]) >= y
      BY <1>2, <1>4
    <2>2. ASSUME NEW m \in S, \A y \in S : m >= y PROVE m = Len(grades[x])
      BY <1>2, <1>4, <2>1, <2>2
    <2> QED
      BY <2>1, <2>2 DEF Max
  <1> QED
    BY <1>5 DEF MaxGradeVersion, S

\* The unique index lets in the next version only (Taken).
LEMMA NextVersion ==
  ASSUME TypeOK, GradesInOrder, NEW x \in Subs, NEW n \in 0 .. Len(grades[x]),
         ~Taken(x, n + 1)
  PROVE  n = Len(grades[x])
  <1>1. grades[x] \in Seq(GradeRows)
    BY DEF TypeOK
  <1>2. Len(grades[x]) \in Nat /\ DOMAIN grades[x] = 1 .. Len(grades[x])
    BY <1>1
  <1>3. n + 1 \notin DOMAIN grades[x]
    BY DEF GradesInOrder, Taken
  <1> QED
    BY <1>2, <1>3

\* The locks of a transaction, case by case.
LEMMA HeldCases ==
  ASSUME NEW t
  PROVE  /\ t.pc \in {"insert", "flip"} => Held(t) = {<<"assignment", t.x[1]>>}
         /\ t.pc = "rewrite" => Held(t) = {<<"exercise", t.e>>}
         /\ t.pc \in {"grade", "override", "release"} => Held(t) = {<<"submission", t.x>>}
         /\ t.pc \notin {"insert", "flip", "rewrite", "grade", "override", "release"}
              => Held(t) = {}
  BY DEF Held

\* The locks a transaction asks for, case by case.
LEMMA NeededCases ==
  ASSUME NEW t
  PROVE  /\ t.pc \in {"start", "submit"} => Needed(t) = {<<"assignment", t.x[1]>>}
         /\ t.pc = "insert" => Needed(t) = {<<"exercise", ExerciseOf[t.x[1]]>>}
         /\ t.pc = "edit" => Needed(t) = {<<"exercise", t.e>>}
         /\ t.pc \in {"write", "flip"} => Needed(t) = {<<"submission", t.x>>}
         /\ t.pc \notin {"start", "submit", "insert", "edit", "write", "flip"}
              => Needed(t) = {}
  BY DEF Needed

\* The initial state: nothing is open, nothing begun.
LEMMA InitOK == Init => IInv
  <1> SUFFICES ASSUME Init PROVE IInv
    OBVIOUS
  <1>1. TypeOK
    BY AttemptAssumption, Idle DEF Init, TypeOK, SubStatus, Kinds
  <1>2. \A r \in Requests : tx[r].pc = "idle"
    BY Idle DEF Init
  <1>3. OneHolder
    BY <1>2 DEF OneHolder, Held
  <1>4. \A r \in Requests : Targeted(r) /\ Reliable(r)
    BY <1>2 DEF Targeted, Reliable
  <1>5. RowsOK
    BY DEF Init, RowsOK, GradesInOrder, GradedAsSubmitted, OverridesCount
  <1> QED
    BY <1>1, <1>3, <1>4, <1>5 DEF IInv

-----------------------------------------------------------------------------
(* Steps that read: only the request's own record changes.                 *)

\* A request goes on, with locks nobody else has and what it has just read.
LEMMA Reads ==
  ASSUME IInv, NEW r \in Requests, NEW t \in Txs, Goto(r, t),
         UNCHANGED <<status, library, sub, results>>,
         \A q \in Requests \ {r} : Held(t) \cap Held(tx[q]) = {},
         Targeted(r)', Reliable(r)'
  PROVE  IInv'
  <1>1. tx' \in [Requests -> Txs] /\ tx'[r] = t /\ \A q \in Requests \ {r} : tx'[q] = tx[q]
    BY DEF IInv, TypeOK, Goto
  <1>2. TypeOK'
    BY <1>1 DEF IInv, TypeOK, library, results
  <1>3. OneHolder'
    BY <1>1 DEF IInv, OneHolder
  <1>4. ASSUME NEW q \in Requests PROVE Targeted(q)' /\ Reliable(q)'
    <2>1. CASE q = r
      BY <2>1
    <2>2. CASE q # r
      <3>1. tx'[q] = tx[q]
        BY <1>1, <2>2
      <3>2. Targeted(q) /\ Reliable(q)
        BY DEF IInv
      <3> QED
        BY <3>1, <3>2 DEF Targeted, Reliable, Attempted, results
    <2> QED
      BY <2>1, <2>2
  <1>5. RowsOK'
    BY DEF IInv, RowsOK, GradesInOrder, GradedAsSubmitted, OverridesCount, results
  <1> QED
    BY <1>2, <1>3, <1>4, <1>5 DEF IInv

\* A request without a lock relies on nobody: the case of most reads.
LEMMA ReadsUnlocked ==
  ASSUME IInv, NEW r \in Requests, NEW t \in Txs, Goto(r, t),
         UNCHANGED <<status, library, sub, results>>,
         t.pc \in {"idle", "start", "save", "write", "submit", "edit"},
         t.pc \in {"start", "save", "write", "submit"} => t.x \in Subs,
         t.pc = "edit" => t.e \in Exercises
  PROVE  IInv'
  <1>1. tx'[r] = t
    BY DEF IInv, TypeOK, Goto
  <1>2. Held(t) = {}
    BY HeldCases
  <1>3. Targeted(r)' /\ Reliable(r)'
    BY <1>1 DEF Targeted, Reliable
  <1> QED
    BY <1>2, <1>3, Reads

\* A student asks: nothing is locked yet.
LEMMA AskOK ==
  ASSUME IInv, NEW r \in Requests, NEW x \in Subs, Ask(r, x)
  PROVE  IInv'
  <1>1. PICK pc \in {"start", "save", "submit"}, c \in Contents : Begin(r, pc, x, c)
    BY AttemptAssumption DEF Ask
  <1> DEFINE t == [NoTx EXCEPT !.pc = pc, !.x = x, !.content = c]
  <1>2. t \in Txs /\ t.pc = pc /\ t.x = x
    BY Idle DEF Txs
  <1> QED
    BY <1>1, <1>2, ReadsUnlocked DEF Begin

\* Free locks are not held by others: Granted, for the single lock l.
LEMMA GrantedDisjoint ==
  ASSUME NEW r \in Requests, NEW l, Free(r, l)
  PROVE  \A q \in Requests \ {r} : {l} \cap Held(tx[q]) = {}
  BY DEF Free

\* Start and Submit get the assignment's row, and find it open.
LEMMA LockAssignmentOK ==
  ASSUME IInv, NEW r \in Requests, LockAssignment(r)
  PROVE  IInv'
  <1> DEFINE t == [tx[r] EXCEPT !.pc = IF @ = "start" THEN "insert" ELSE "flip"]
             l == <<"assignment", tx[r].x[1]>>
  <1>1. tx[r] \in Txs /\ tx[r].x \in Subs
    BY DEF IInv, TypeOK, Targeted, LockAssignment
  <1>2. t \in Txs /\ t.pc \in {"insert", "flip"} /\ t.x = tx[r].x
    BY <1>1 DEF Txs
  <1>3. tx'[r] = t
    BY DEF IInv, TypeOK, LockAssignment, Goto
  <1>4. \A q \in Requests \ {r} : Held(t) \cap Held(tx[q]) = {}
    <2>1. Needed(tx[r]) = {l} /\ Held(t) = {l}
      BY <1>2, NeededCases, HeldCases DEF LockAssignment
    <2>2. Free(r, l)
      BY <2>1 DEF LockAssignment, Granted
    <2> QED
      BY <2>1, <2>2, GrantedDisjoint
  <1>5. Targeted(r)' /\ Reliable(r)'
    BY <1>1, <1>2, <1>3 DEF Targeted, Reliable, LockAssignment, MayWrite
  <1> QED
    BY <1>2, <1>4, <1>5, Reads DEF LockAssignment

\* An autosave that has found the assignment open, without a lock.
LEMMA CheckProgressOK ==
  ASSUME IInv, NEW r \in Requests, CheckProgress(r)
  PROVE  IInv'
  <1>1. tx[r] \in Txs /\ tx[r].x \in Subs
    BY DEF IInv, TypeOK, Targeted, CheckProgress
  <1> DEFINE t == [tx[r] EXCEPT !.pc = "write"]
  <1>2. t \in Txs /\ t.pc = "write" /\ t.x = tx[r].x
    BY <1>1 DEF Txs
  <1> QED
    BY <1>1, <1>2, ReadsUnlocked DEF CheckProgress

\* An editor has read the exercise, without a lock.
LEMMA GetExerciseOK ==
  ASSUME IInv, NEW r \in Requests, NEW e \in Exercises, GetExercise(r, e)
  PROVE  IInv'
  <1> DEFINE t == [NoTx EXCEPT !.pc = "edit", !.e = e, !.base = version[e]]
  <1>1. version[e] \in Nat
    BY AttemptAssumption DEF IInv, TypeOK
  <1>2. t \in Txs /\ t.pc = "edit" /\ t.e = e
    BY <1>1, Idle DEF Txs
  <1> QED
    BY <1>2, ReadsUnlocked DEF GetExercise

\* An editor has the exercise's lock and has seen no attempt.
LEMMA ExerciseIsLockedOK ==
  ASSUME IInv, NEW r \in Requests, ExerciseIsLocked(r)
  PROVE  IInv'
  <1> DEFINE t == [tx[r] EXCEPT !.pc = "rewrite"]
             l == <<"exercise", tx[r].e>>
  <1>1. tx[r] \in Txs /\ tx[r].e \in Exercises
    BY DEF IInv, TypeOK, Targeted, ExerciseIsLocked
  <1>2. t \in Txs /\ t.pc = "rewrite" /\ t.e = tx[r].e
    BY <1>1 DEF Txs
  <1>3. tx'[r] = t
    BY DEF IInv, TypeOK, ExerciseIsLocked, Goto
  <1>4. \A q \in Requests \ {r} : Held(t) \cap Held(tx[q]) = {}
    <2>1. Needed(tx[r]) = {l} /\ Held(t) = {l}
      BY <1>2, NeededCases, HeldCases DEF ExerciseIsLocked
    <2>2. Free(r, l)
      BY <2>1 DEF ExerciseIsLocked, Granted
    <2> QED
      BY <2>1, <2>2, GrantedDisjoint
  <1>5. Targeted(r)' /\ Reliable(r)'
    BY <1>1, <1>2, <1>3 DEF Targeted, Reliable, ExerciseIsLocked, Attempted
  <1> QED
    BY <1>2, <1>4, <1>5, Reads DEF ExerciseIsLocked

\* A teacher has the row of an attempt that is submitted, so ungraded.
LEMMA LockForGradeOK ==
  ASSUME IInv, NEW r \in Requests, NEW x \in Subs, LockForGrade(r, x)
  PROVE  IInv'
  <1> DEFINE t == [NoTx EXCEPT !.pc = "grade", !.x = x, !.content = sub[x].content]
             l == <<"submission", x>>
  <1>1. sub[x].content \in Contents /\ sub[x].status = "submitted"
    BY DEF IInv, TypeOK, LockForGrade
  <1>2. t \in Txs /\ t.pc = "grade" /\ t.x = x /\ t.content = sub[x].content /\ t.base = 0
    BY <1>1, Idle DEF Txs, NoTx
  <1>3. tx'[r] = t
    BY DEF IInv, TypeOK, LockForGrade, Goto
  <1>4. \A q \in Requests \ {r} : Held(t) \cap Held(tx[q]) = {}
    <2>1. Held(t) = {l}
      BY <1>2, HeldCases
    <2> QED
      BY <2>1, GrantedDisjoint DEF LockForGrade
  <1>5. grades[x] = <<>>
    BY <1>1 DEF IInv, RowsOK, GradesInOrder
  <1>6. Targeted(r)' /\ Reliable(r)'
    BY <1>1, <1>2, <1>3, <1>5 DEF Targeted, Reliable, LockForGrade, results
  <1> QED
    BY <1>2, <1>4, <1>6, Reads DEF LockForGrade

\* A teacher has the row of an objective result that is not released.
LEMMA LockObjectiveOK ==
  ASSUME IInv, NEW r \in Requests, NEW x \in Subs, NEW pc \in {"override", "release"},
         LockObjective(r, x, pc)
  PROVE  IInv'
  <1> DEFINE t == [NoTx EXCEPT !.pc = pc, !.x = x, !.content = sub[x].content,
                               !.base = MaxGradeVersion(x), !.marks = marks[x]]
             l == <<"submission", x>>
  <1>1. /\ sub[x].content \in Contents
        /\ marks[x] # None /\ marks[x] \in SUBSET Questions
        /\ grades[x] = <<>>
    BY DEF IInv, TypeOK, LockObjective, Released
  <1>2. MaxGradeVersion(x) = 0
    BY <1>1, Newest DEF IInv, RowsOK
  <1>3. /\ t \in Txs /\ t.pc = pc /\ t.x = x /\ t.content = sub[x].content /\ t.base = 0
        /\ t.marks = marks[x]
    BY <1>1, <1>2, Idle DEF Txs, NoTx
  <1>4. tx'[r] = t
    BY DEF IInv, TypeOK, LockObjective, Goto
  <1>5. \A q \in Requests \ {r} : Held(t) \cap Held(tx[q]) = {}
    <2>1. Held(t) = {l}
      BY <1>3, HeldCases
    <2> QED
      BY <2>1, GrantedDisjoint DEF LockObjective
  <1>6. Targeted(r)' /\ Reliable(r)'
    BY <1>1, <1>3, <1>4 DEF Targeted, Reliable, LockObjective, results
  <1> QED
    BY <1>3, <1>5, <1>6, Reads DEF LockObjective

\* A revision relies on the row's being graded, which is final.
LEMMA ReadVersionOK ==
  ASSUME IInv, NEW r \in Requests, NEW x \in Subs, ReadVersion(r, x)
  PROVE  IInv'
  <1> DEFINE t == [NoTx EXCEPT !.pc = "revise", !.x = x, !.content = sub[x].content,
                               !.base = MaxGradeVersion(x)]
  <1>1. /\ sub[x].content \in Contents
        /\ Len(grades[x]) \in Nat
        /\ MaxGradeVersion(x) = Len(grades[x])
    BY Newest DEF IInv, TypeOK, RowsOK
  <1>2. /\ t \in Txs /\ t.pc = "revise" /\ t.x = x /\ t.content = sub[x].content
        /\ t.base = Len(grades[x])
    BY <1>1, Idle DEF Txs, NoTx
  <1>3. tx'[r] = t
    BY DEF IInv, TypeOK, ReadVersion, Goto
  <1>4. Len(grades[x]) \in 1 .. MaxGrades - 1
    BY <1>1, AttemptAssumption DEF ReadVersion
  <1>5. sub[x].status = "graded"
    BY <1>4 DEF IInv, RowsOK, GradesInOrder
  <1>6. Held(t) = {}
    BY <1>2, HeldCases
  <1>7. Targeted(r)' /\ Reliable(r)'
    BY <1>2, <1>3, <1>4, <1>5, AttemptAssumption DEF Targeted, Reliable, ReadVersion, results
  <1> QED
    BY <1>2, <1>6, <1>7, Reads DEF ReadVersion

\* A request that ends without a write only lets go.
LEMMA AbortOK ==
  ASSUME IInv, NEW r \in Requests, Abort(r)
  PROVE  IInv'
  BY Idle, ReadsUnlocked DEF Abort, End

\* GradesInOrder and GradedAsSubmitted, when the rows of one attempt change.
LEMMA LedgerElsewhere ==
  ASSUME IInv, NEW x \in Subs, Ledger(x)',
         \A y \in Subs \ {x} : grades'[y] = grades[y] /\ sub'[y] = sub[y]
  PROVE  GradesInOrder' /\ GradedAsSubmitted'
  <1>1. ASSUME NEW y \in Subs PROVE Ledger(y)'
    <2>1. CASE y = x
      BY <2>1
    <2>2. CASE y # x
      <3>1. Ledger(y)
        BY DEF IInv, RowsOK, GradesInOrder, GradedAsSubmitted, Ledger
      <3> QED
        BY <2>2, <3>1 DEF Ledger
    <2> QED
      BY <2>1, <2>2
  <1> QED
    BY <1>1 DEF GradesInOrder, GradedAsSubmitted, Ledger

\* OverridesCount, when the rows of one attempt change.
LEMMA CountedElsewhere ==
  ASSUME IInv, NEW x \in Subs, Counted(x)',
         \A y \in Subs \ {x} : /\ grades'[y] = grades[y] /\ marks'[y] = marks[y]
                               /\ applied'[y] = applied[y]
  PROVE  OverridesCount'
  <1>1. ASSUME NEW y \in Subs PROVE Counted(y)'
    <2>1. CASE y = x
      BY <2>1
    <2>2. CASE y # x
      <3>1. Counted(y)
        BY DEF IInv, RowsOK, OverridesCount, Counted
      <3> QED
        BY <2>2, <3>1 DEF Counted
    <2> QED
      BY <2>1, <2>2
  <1> QED
    BY <1>1 DEF OverridesCount, Counted

-----------------------------------------------------------------------------
(* Steps that write: the request's row changes, and the request ends.      *)

\* The request that ends gives up its locks; what is left is what the others rely on.
LEMMA Writes ==
  ASSUME IInv, NEW r \in Requests, End(r), TypeOK', RowsOK',
         \A q \in Requests \ {r} : Reliable(q)'
  PROVE  IInv'
  <1>1. tx'[r] = NoTx /\ \A q \in Requests \ {r} : tx'[q] = tx[q]
    BY DEF IInv, TypeOK, End, Goto
  <1>2. Held(NoTx) = {}
    BY Idle, HeldCases
  <1>3. OneHolder'
    BY <1>1, <1>2 DEF IInv, OneHolder
  <1>4. ASSUME NEW q \in Requests PROVE Targeted(q)' /\ Reliable(q)'
    <2>1. CASE q = r
      BY <1>1, <2>1, Idle DEF Targeted, Reliable
    <2>2. CASE q # r
      BY <1>1, <2>2 DEF IInv, Targeted
    <2> QED
      BY <2>1, <2>2
  <1> QED
    BY <1>3, <1>4 DEF IInv

\* The others, when one attempt's rows change: those who work on another one, and
\* those who read the row in a state it had not got.
LEMMA Elsewhere ==
  ASSUME IInv, NEW r \in Requests, End(r), UNCHANGED status, NEW x \in Subs,
         \A y \in Subs \ {x} : /\ sub'[y] = sub[y] /\ grades'[y] = grades[y]
                               /\ marks'[y] = marks[y],
         NEW q \in Requests \ {r},
         tx[q].pc \in {"grade", "override", "release", "revise"} => tx[q].x # x,
         tx[q].pc = "rewrite" => (Attempted(tx[q].e)' => Attempted(tx[q].e))
  PROVE  Reliable(q)'
  <1>1. tx'[q] = tx[q]
    BY DEF IInv, TypeOK, End, Goto
  <1>2. Reliable(q) /\ Targeted(q)
    BY DEF IInv
  <1>3. tx[q].pc = "rewrite" => ~Attempted(tx[q].e)'
    BY <1>2 DEF Reliable
  <1>4. tx[q].pc \in {"grade", "override", "release", "revise"} =>
            /\ tx[q].x \in Subs \ {x}
            /\ sub'[tx[q].x] = sub[tx[q].x] /\ grades'[tx[q].x] = grades[tx[q].x]
            /\ marks'[tx[q].x] = marks[tx[q].x]
    BY <1>2 DEF Targeted
  <1> QED
    BY <1>1, <1>2, <1>3, <1>4 DEF Reliable

\* A request that has read a row in a graded or submitted state cannot be on a row
\* that has not been submitted.
LEMMA NotUnderWay ==
  ASSUME IInv, NEW q \in Requests, NEW x \in Subs,
         sub[x].status \in {"none", "in_progress"},
         tx[q].pc \in {"grade", "override", "release", "revise"}
  PROVE  tx[q].x # x
  BY DEF IInv, Reliable, RowsOK

\* Two requests do not hold the row of one submission.
LEMMA OneGrader ==
  ASSUME IInv, NEW r \in Requests, NEW q \in Requests \ {r},
         tx[r].pc \in {"grade", "override", "release"},
         tx[q].pc \in {"grade", "override", "release"}
  PROVE  tx[q].x # tx[r].x
  <1>1. Held(tx[r]) = {<<"submission", tx[r].x>>} /\ Held(tx[q]) = {<<"submission", tx[q].x>>}
    BY HeldCases
  <1> QED
    BY <1>1 DEF IInv, OneHolder

\* An attempt begins: no editor who has seen none holds the exercise's lock.
LEMMA StartSubmissionOK ==
  ASSUME IInv, NEW r \in Requests, StartSubmission(r)
  PROVE  IInv'
  <1> DEFINE x == tx[r].x
  <1>1. x \in Subs /\ tx[r].pc = "insert" /\ sub[x].status = "none"
    BY DEF IInv, Targeted, StartSubmission
  <1>2. marks[x] = None /\ grades[x] = <<>>
    BY <1>1 DEF IInv, RowsOK, GradesInOrder
  <1>3. TypeOK'
    BY <1>1, Idle, AttemptAssumption
    DEF IInv, TypeOK, StartSubmission, End, Goto, SubStatus, library, results
  <1>4. sub' = [sub EXCEPT ![x] = [status |-> "in_progress", content |-> Shell]]
    BY DEF StartSubmission
  <1>5. RowsOK'
    <2>1. /\ sub'[x] = [status |-> "in_progress", content |-> Shell]
          /\ \A y \in Subs \ {x} : sub'[y] = sub[y]
      BY <1>1, <1>4 DEF IInv, TypeOK
    <2>2. UNCHANGED <<grades, marks, applied>>
      BY DEF StartSubmission, results
    <2> QED
      BY <1>1, <1>2, <2>1, <2>2
      DEF IInv, RowsOK, GradesInOrder, GradedAsSubmitted, OverridesCount
  <1>6. ASSUME NEW q \in Requests \ {r} PROVE Reliable(q)'
    <2>1. tx[q].pc \in {"grade", "override", "release", "revise"} => tx[q].x # x
      BY <1>1, NotUnderWay
    <2>2. tx[q].pc = "rewrite" => tx[q].e # ExerciseOf[x[1]]
      <3>1. Needed(tx[r]) = {<<"exercise", ExerciseOf[x[1]]>>}
        BY <1>1, NeededCases
      <3>2. <<"exercise", ExerciseOf[x[1]]>> \notin Held(tx[q])
        BY <3>1 DEF StartSubmission, Granted, Free
      <3> QED
        BY <3>2, HeldCases
    <2>3. tx[q].pc = "rewrite" => (Attempted(tx[q].e)' => Attempted(tx[q].e))
      <3>1. \A y \in Subs \ {x} : sub'[y] = sub[y]
        BY <1>1, <1>4 DEF IInv, TypeOK
      <3>2. ASSUME tx[q].pc = "rewrite", Attempted(tx[q].e)' PROVE Attempted(tx[q].e)
        <4>1. tx'[q] = tx[q]
          BY DEF IInv, TypeOK, StartSubmission, End, Goto
        <4> QED
          BY <2>2, <3>1, <3>2, <4>1 DEF Attempted
      <3> QED
        BY <3>2
    <2>4. \A y \in Subs \ {x} : /\ sub'[y] = sub[y] /\ grades'[y] = grades[y]
                                /\ marks'[y] = marks[y]
      BY <1>1, <1>4 DEF IInv, TypeOK, StartSubmission, results
    <2> QED
      BY <1>1, <2>1, <2>3, <2>4, Elsewhere DEF StartSubmission
  <1> QED
    BY <1>3, <1>5, <1>6, Writes DEF StartSubmission

\* Nobody has begun an attempt who had not, so an exercise is frozen as before.
LEMMA SameAttempts ==
  ASSUME IInv, NEW r \in Requests, End(r), NEW q \in Requests \ {r},
         \A y \in Subs : sub'[y].status # "none" => sub[y].status # "none"
  PROVE  Attempted(tx[q].e)' => Attempted(tx[q].e)
  <1>1. tx'[q] = tx[q]
    BY DEF IInv, TypeOK, End, Goto
  <1> QED
    BY <1>1 DEF Attempted

\* An attempt that is in progress is changed (SaveProgress) or submitted.
LEMMA SaveProgressOK ==
  ASSUME IInv, NEW r \in Requests, SaveProgress(r)
  PROVE  IInv'
  <1> DEFINE x == tx[r].x
  <1>1. x \in Subs /\ tx[r].pc = "write" /\ sub[x].status = "in_progress"
    BY DEF IInv, Targeted, SaveProgress, InProgress
  <1>2. marks[x] = None /\ grades[x] = <<>>
    BY <1>1 DEF IInv, RowsOK, GradesInOrder
  <1>3. tx[r] \in Txs /\ tx[r].content \in Contents
    BY DEF IInv, TypeOK, Txs
  <1>4. /\ sub'[x].status = "in_progress"
        /\ \A y \in Subs \ {x} : sub'[y] = sub[y]
        /\ sub' \in [Subs -> [status : SubStatus, content : Contents]]
    BY <1>1, <1>3 DEF IInv, TypeOK, SaveProgress, SubStatus
  <1>5. UNCHANGED <<grades, marks, applied>>
    BY DEF SaveProgress, results
  <1>6. TypeOK'
    BY <1>4, Idle DEF IInv, TypeOK, SaveProgress, End, Goto, library, results
  <1>7. RowsOK'
    BY <1>1, <1>2, <1>4, <1>5
    DEF IInv, RowsOK, GradesInOrder, GradedAsSubmitted, OverridesCount
  <1>8. ASSUME NEW q \in Requests \ {r} PROVE Reliable(q)'
    <2>1. tx[q].pc \in {"grade", "override", "release", "revise"} => tx[q].x # x
      BY <1>1, NotUnderWay
    <2>2. Attempted(tx[q].e)' => Attempted(tx[q].e)
      BY <1>1, <1>4, SameAttempts DEF SaveProgress
    <2> QED
      BY <1>1, <1>4, <1>5, <2>1, <2>2, Elsewhere DEF SaveProgress
  <1> QED
    BY <1>6, <1>7, <1>8, Writes DEF SaveProgress

\* The attempt is submitted, and marked or not.
LEMMA SubmitSubmissionOK ==
  ASSUME IInv, NEW r \in Requests, SubmitSubmission(r)
  PROVE  IInv'
  <1>0. PICK x \in Subs : x = tx[r].x
    BY DEF IInv, Targeted, SubmitSubmission
  <1>1. x = tx[r].x /\ tx[r].pc = "flip" /\ sub[x].status = "in_progress"
    BY <1>0 DEF IInv, Targeted, SubmitSubmission, InProgress
  <1>2. marks[x] = None /\ grades[x] = <<>> /\ applied[x] = {}
    BY <1>1 DEF IInv, RowsOK, GradesInOrder, OverridesCount
  <1>3. /\ sub'[x].status = "submitted" /\ sub'[x].content = sub[x].content
        /\ \A y \in Subs \ {x} : sub'[y] = sub[y]
        /\ sub' \in [Subs -> [status : SubStatus, content : Contents]]
    BY <1>1 DEF IInv, TypeOK, SubmitSubmission, SubStatus
  <1>4. /\ marks'[x] \in {None, {}}
        /\ \A y \in Subs \ {x} : marks'[y] = marks[y]
        /\ marks' \in [Subs -> {None} \cup SUBSET Questions]
    BY <1>1, <1>2 DEF IInv, TypeOK, SubmitSubmission
  <1>5. UNCHANGED <<grades, applied>>
    BY DEF SubmitSubmission
  <1>6. TypeOK'
    BY <1>3, <1>4, Idle DEF IInv, TypeOK, SubmitSubmission, End, Goto, library
  <1>7. RowsOK'
    <2>1. \A y \in Subs : marks'[y] # None => sub'[y].status \in {"submitted", "graded"}
      BY <1>3, <1>4 DEF IInv, RowsOK
    <2>2. GradesInOrder' /\ GradedAsSubmitted'
      BY <1>1, <1>2, <1>3, <1>5 DEF IInv, RowsOK, GradesInOrder, GradedAsSubmitted
    <2>3. Counted(x)'
      <3>1. grades'[x] = <<>> /\ applied'[x] = {} /\ marks'[x] \in {None, {}}
        BY <1>2, <1>4, <1>5
      <3> QED
        BY <3>1 DEF Counted
    <2>4. OverridesCount'
      BY <1>1, <1>4, <1>5, <2>3, CountedElsewhere
    <2> QED
      BY <2>1, <2>2, <2>4 DEF RowsOK
  <1>8. ASSUME NEW q \in Requests \ {r} PROVE Reliable(q)'
    <2>1. tx[q].pc \in {"grade", "override", "release", "revise"} => tx[q].x # x
      BY <1>1, NotUnderWay
    <2>2. Attempted(tx[q].e)' => Attempted(tx[q].e)
      BY <1>1, <1>3, SameAttempts DEF SubmitSubmission
    <2> QED
      BY <1>1, <1>3, <1>4, <1>5, <2>1, <2>2, Elsewhere DEF SubmitSubmission
  <1> QED
    BY <1>6, <1>7, <1>8, Writes DEF SubmitSubmission

\* The editor's writes are to rows that no request relies on.
LEMMA EditorWrites ==
  ASSUME IInv, NEW r \in Requests, End(r), UNCHANGED <<status, sub, results>>, TypeOK'
  PROVE  IInv'
  <1>1. RowsOK'
    BY DEF IInv, RowsOK, GradesInOrder, GradedAsSubmitted, OverridesCount, results
  <1>2. ASSUME NEW q \in Requests \ {r} PROVE Reliable(q)'
    <2>1. tx'[q] = tx[q] /\ Reliable(q)
      BY DEF IInv, TypeOK, End, Goto
    <2> QED
      BY <2>1 DEF Reliable, Attempted, results
  <1> QED
    BY <1>1, <1>2, Writes

\* The edit of an exercise.
LEMMA UpdateExerciseOK ==
  ASSUME IInv, NEW r \in Requests, UpdateExercise(r)
  PROVE  IInv'
  <1>1. tx[r].e \in Exercises
    BY DEF IInv, Targeted, UpdateExercise
  <1>2. version' \in [Exercises -> 0 .. MaxEdits]
    BY <1>1, AttemptAssumption DEF IInv, TypeOK, UpdateExercise
  <1>3. kind' \in [Exercises -> Kinds]
    BY <1>1 DEF IInv, TypeOK, UpdateExercise
  <1>4. TypeOK'
    BY <1>2, <1>3, Idle DEF IInv, TypeOK, UpdateExercise, End, Goto, results
  <1> QED
    BY <1>4, EditorWrites DEF UpdateExercise

\* The deletion of an exercise.
LEMMA SoftDeleteExerciseOK ==
  ASSUME IInv, NEW r \in Requests, SoftDeleteExercise(r)
  PROVE  IInv'
  <1>1. tx[r].e \in Exercises
    BY DEF IInv, Targeted, SoftDeleteExercise
  <1>2. TypeOK'
    BY <1>1, Idle DEF IInv, TypeOK, SoftDeleteExercise, End, Goto, results
  <1> QED
    BY <1>2, EditorWrites DEF SoftDeleteExercise

\* The grade of a writing, or the release of an objective result: version 1, over a
\* row that was locked when the request read it.
LEMMA ReleaseGradeOK ==
  ASSUME IInv, NEW r \in Requests, ReleaseGrade(r)
  PROVE  IInv'
  <1>0. PICK x \in Subs : x = tx[r].x
    BY DEF IInv, Targeted, ReleaseGrade
  <1>1. /\ x = tx[r].x /\ tx[r].pc \in {"grade", "release"}
        /\ sub[x].status = "submitted" /\ grades[x] = <<>>
        /\ tx[r].base = 0 /\ tx[r].content = sub[x].content
        /\ tx[r].pc = "release" => tx[r].marks = marks[x]
    BY <1>0 DEF IInv, Targeted, Reliable, ReleaseGrade
  <1>2. Row(r) \in GradeRows
    BY <1>1, AttemptAssumption DEF IInv, TypeOK, Txs, Row, GradeRows
  <1>3. /\ sub'[x].status = "graded" /\ sub'[x].content = sub[x].content
        /\ \A y \in Subs \ {x} : sub'[y] = sub[y]
        /\ sub' \in [Subs -> [status : SubStatus, content : Contents]]
    BY <1>1 DEF IInv, TypeOK, ReleaseGrade, SubStatus
  <1>4. /\ grades'[x] = <<Row(r)>>
        /\ \A y \in Subs \ {x} : grades'[y] = grades[y]
        /\ grades' \in [Subs -> Seq(GradeRows)]
    BY <1>1, <1>2 DEF IInv, TypeOK, ReleaseGrade
  <1>5. UNCHANGED <<marks, applied>>
    BY DEF ReleaseGrade
  <1>6. TypeOK'
    BY <1>3, <1>4, Idle DEF IInv, TypeOK, ReleaseGrade, End, Goto, library
  <1>7. RowsOK'
    <2>1. /\ DOMAIN grades'[x] = {1}
          /\ grades'[x][1].n = 1 /\ grades'[x][1].content = sub[x].content
          /\ grades'[x][1].by = "release" => grades'[x][1].marks = marks[x]
          /\ grades'[x] # <<>>
      BY <1>1, <1>4 DEF Row
    <2>2. \A y \in Subs : marks'[y] # None => sub'[y].status \in {"submitted", "graded"}
      BY <1>3, <1>5 DEF IInv, RowsOK
    <2>3. GradesInOrder' /\ GradedAsSubmitted'
      <3>1. Ledger(x)'
        BY <1>3, <2>1 DEF Ledger
      <3> QED
        BY <1>3, <1>4, <3>1, LedgerElsewhere
    <2>4. Counted(x)'
      <3>1. Counted(x)
        BY <1>1 DEF IInv, RowsOK, OverridesCount, Counted
      <3> QED
        BY <1>5, <2>1, <3>1 DEF Counted
    <2>5. OverridesCount'
      BY <1>1, <1>4, <1>5, <2>4, CountedElsewhere
    <2> QED
      BY <2>2, <2>3, <2>5 DEF RowsOK
  <1>8. ASSUME NEW q \in Requests \ {r} PROVE Reliable(q)'
    <2>1. tx[q].pc \in {"grade", "override", "release"} => tx[q].x # x
      BY <1>1, OneGrader
    <2>2. tx[q].pc = "revise" => tx[q].x # x
      BY <1>1 DEF IInv, Reliable
    <2>3. Attempted(tx[q].e)' => Attempted(tx[q].e)
      BY <1>1, <1>3, SameAttempts DEF ReleaseGrade
    <2> QED
      BY <1>1, <1>3, <1>4, <1>5, <2>1, <2>2, <2>3, Elsewhere DEF ReleaseGrade
  <1> QED
    BY <1>6, <1>7, <1>8, Writes DEF ReleaseGrade

\* An override, over the marks that the request read under its lock.
LEMMA UpdateAutoGradeResultOK ==
  ASSUME IInv, NEW r \in Requests, UpdateAutoGradeResult(r)
  PROVE  IInv'
  <1>0. PICK x \in Subs : x = tx[r].x
    BY DEF IInv, Targeted, UpdateAutoGradeResult
  <1>1. /\ x = tx[r].x /\ tx[r].pc = "override"
        /\ grades[x] = <<>>
        /\ marks[x] # None /\ tx[r].marks = marks[x]
    BY <1>0 DEF IInv, Targeted, Reliable, UpdateAutoGradeResult
  <1>2. applied[x] = marks[x] /\ marks[x] \in SUBSET Questions
    BY <1>1 DEF IInv, TypeOK, RowsOK, OverridesCount
  <1>3. PICK o \in Questions : /\ marks' = [marks EXCEPT ![x] = tx[r].marks \cup {o}]
                               /\ applied' = [applied EXCEPT ![x] = @ \cup {o}]
    BY <1>1 DEF UpdateAutoGradeResult
  <1>4. /\ marks'[x] = marks[x] \cup {o} /\ applied'[x] = marks[x] \cup {o}
        /\ \A y \in Subs \ {x} : marks'[y] = marks[y] /\ applied'[y] = applied[y]
        /\ marks' \in [Subs -> {None} \cup SUBSET Questions]
        /\ applied' \in [Subs -> SUBSET Questions]
    BY <1>1, <1>2, <1>3 DEF IInv, TypeOK
  <1>5. marks'[x] # None
    BY <1>2, <1>4, AttemptAssumption
  <1>6. UNCHANGED <<sub, grades>>
    BY DEF UpdateAutoGradeResult
  <1>7. TypeOK'
    BY <1>4, Idle DEF IInv, TypeOK, UpdateAutoGradeResult, End, Goto, library
  <1>8. RowsOK'
    <2>1. \A y \in Subs : marks'[y] # None => sub'[y].status \in {"submitted", "graded"}
      BY <1>1, <1>4, <1>6 DEF IInv, RowsOK
    <2>2. GradesInOrder' /\ GradedAsSubmitted'
      BY <1>6 DEF IInv, RowsOK, GradesInOrder, GradedAsSubmitted
    <2>3. Counted(x)'
      <3>1. grades'[x] = <<>> /\ marks'[x] # None /\ applied'[x] = marks'[x]
        BY <1>1, <1>4, <1>5, <1>6
      <3> QED
        BY <3>1 DEF Counted
    <2>4. OverridesCount'
      BY <1>1, <1>4, <1>6, <2>3, CountedElsewhere
    <2> QED
      BY <2>1, <2>2, <2>4 DEF RowsOK
  <1>9. ASSUME NEW q \in Requests \ {r} PROVE Reliable(q)'
    <2>1. tx[q].pc \in {"grade", "override", "release"} => tx[q].x # x
      BY <1>1, OneGrader
    <2>2. tx[q].pc = "revise" => tx[q].x # x
      BY <1>1 DEF IInv, Reliable
    <2>3. Attempted(tx[q].e)' => Attempted(tx[q].e)
      BY <1>6, SameAttempts DEF UpdateAutoGradeResult
    <2> QED
      BY <1>1, <1>4, <1>6, <2>1, <2>2, <2>3, Elsewhere DEF UpdateAutoGradeResult
  <1> QED
    BY <1>7, <1>8, <1>9, Writes DEF UpdateAutoGradeResult

\* A revision: the version after the one it has read, or the index refuses it.
LEMMA ReviseGradeOK ==
  ASSUME IInv, NEW r \in Requests, ReviseGrade(r)
  PROVE  IInv'
  <1>0. PICK x \in Subs : x = tx[r].x
    BY DEF IInv, Targeted, ReviseGrade
  <1> DEFINE len == Len(grades[x])
  <1>1. /\ x = tx[r].x /\ sub[x].status = "graded" /\ tx[r].pc = "revise"
        /\ tx[r].base \in 1 .. len /\ tx[r].base < MaxGrades
        /\ tx[r].content = sub[x].content
        /\ grades[x] \in Seq(GradeRows) /\ len \in Nat
    BY <1>0 DEF IInv, TypeOK, Targeted, Reliable, ReviseGrade
  <1>2. tx[r].base = len
    <2>1. tx[r].base \in 0 .. len
      BY <1>1
    <2> QED
      BY <1>1, <2>1, NextVersion DEF IInv, RowsOK, ReviseGrade
  <1>3. Row(r) \in GradeRows
    BY <1>1, AttemptAssumption DEF IInv, TypeOK, Txs, Row, GradeRows
  <1>4. /\ grades'[x] = Append(grades[x], Row(r))
        /\ \A y \in Subs \ {x} : grades'[y] = grades[y]
        /\ grades' \in [Subs -> Seq(GradeRows)]
    BY <1>1, <1>3 DEF IInv, TypeOK, ReviseGrade
  <1>5. UNCHANGED <<status, sub, marks, applied>>
    BY DEF ReviseGrade
  <1>6. TypeOK'
    BY <1>4, Idle DEF IInv, TypeOK, ReviseGrade, End, Goto, library
  <1>7. /\ Len(grades'[x]) = len + 1 /\ DOMAIN grades'[x] = 1 .. len + 1
        /\ DOMAIN grades[x] = 1 .. len
        /\ \A i \in 1 .. len : grades'[x][i] = grades[x][i]
        /\ grades'[x][len + 1] = Row(r)
    BY <1>1, <1>3, <1>4
  <1>8. RowsOK'
    <2>1. \A y \in Subs : marks'[y] # None => sub'[y].status \in {"submitted", "graded"}
      BY <1>5 DEF IInv, RowsOK
    <2>2. /\ Row(r).n = len + 1 /\ Row(r).content = sub[x].content
          /\ Row(r).by = "revise"
      BY <1>1, <1>2 DEF Row
    <2>3. /\ \A i \in DOMAIN grades'[x] : grades'[x][i].n = i
          /\ \A i \in DOMAIN grades'[x] : grades'[x][i].content = sub[x].content
          /\ grades'[x] # <<>>
      <3>1. \A i \in 1 .. len : grades[x][i].n = i /\ grades[x][i].content = sub[x].content
        BY <1>1, <1>7 DEF IInv, RowsOK, GradesInOrder, GradedAsSubmitted
      <3>2. ASSUME NEW i \in 1 .. len + 1
            PROVE  grades'[x][i].n = i /\ grades'[x][i].content = sub[x].content
        <4>1. CASE i = len + 1
          BY <1>7, <2>2, <4>1
        <4>2. CASE i # len + 1
          <5>1. i \in 1 .. len
            BY <1>1, <4>2
          <5> QED
            BY <1>7, <3>1, <5>1
        <4> QED
          BY <4>1, <4>2
      <3>3. grades'[x] # <<>>
        BY <1>1, <1>7
      <3> QED
        BY <1>7, <3>2, <3>3
    <2>4. GradesInOrder' /\ GradedAsSubmitted'
      <3>1. Ledger(x)'
        BY <1>1, <1>5, <2>3 DEF Ledger
      <3> QED
        BY <1>4, <1>5, <3>1, LedgerElsewhere
    <2>5. Counted(x)'
      <3>1. Counted(x)
        BY <1>1 DEF IInv, RowsOK, OverridesCount, Counted
      <3>2. ASSUME NEW i \in 1 .. len + 1, grades'[x][i].by = "release"
            PROVE  grades'[x][i].marks = marks[x]
        <4>1. i # len + 1
          BY <1>7, <2>2, <3>2
        <4>2. i \in 1 .. len
          BY <1>1, <4>1
        <4> QED
          BY <1>7, <3>1, <3>2, <4>2 DEF Counted
      <3> QED
        BY <1>5, <1>7, <3>1, <3>2 DEF Counted
    <2>6. OverridesCount'
      BY <1>1, <1>4, <1>5, <2>5, CountedElsewhere
    <2> QED
      BY <2>1, <2>4, <2>6 DEF RowsOK
  <1>9. ASSUME NEW q \in Requests \ {r} PROVE Reliable(q)'
    <2>1. CASE tx[q].pc = "revise" /\ tx[q].x = x
      <3>1. tx'[q] = tx[q] /\ Reliable(q)
        BY DEF IInv, TypeOK, ReviseGrade, End, Goto
      <3>2. tx[q].base \in 1 .. len + 1
        BY <1>1, <2>1, <3>1 DEF Reliable
      <3> QED
        BY <1>5, <1>7, <2>1, <3>1, <3>2 DEF Reliable
    <2>2. CASE ~(tx[q].pc = "revise" /\ tx[q].x = x)
      <3>1. tx[q].pc \in {"grade", "override", "release"} => tx[q].x # x
        BY <1>1 DEF IInv, Reliable
      <3>2. Attempted(tx[q].e)' => Attempted(tx[q].e)
        BY <1>5, SameAttempts DEF ReviseGrade
      <3> QED
        BY <1>1, <1>4, <1>5, <2>2, <3>1, <3>2, Elsewhere DEF ReviseGrade
    <2> QED
      BY <2>1, <2>2
  <1> QED
    BY <1>6, <1>8, <1>9, Writes DEF ReviseGrade

-----------------------------------------------------------------------------
(* Assignments, and the invariant.                                         *)

\* An assignment opens, closes or opens again: no request that has found it open
\* holds its row.
LEMMA AssignmentWrites ==
  ASSUME IInv, NEW a \in Assignments, NEW s \in {"open", "closed"},
         status' = [status EXCEPT ![a] = s], UNCHANGED <<library, sub, results, tx>>,
         status[a] = "absent" \/ RowFree(<<"assignment", a>>)
  PROVE  IInv'
  <1>1. TypeOK'
    BY DEF IInv, TypeOK, library, results
  <1>2. OneHolder'
    BY DEF IInv, OneHolder
  <1>3. RowsOK'
    BY DEF IInv, RowsOK, GradesInOrder, GradedAsSubmitted, OverridesCount, results
  <1>4. ASSUME NEW r \in Requests PROVE Targeted(r)' /\ Reliable(r)'
    <2>1. Targeted(r) /\ Reliable(r)
      BY DEF IInv
    <2>2. tx[r].pc \in {"insert", "flip"} => tx[r].x[1] # a
      BY <2>1, HeldCases DEF RowFree, Reliable
    <2>3. tx[r].pc \in {"insert", "flip"} => status'[tx[r].x[1]] = "open"
      <3>1. tx[r].pc \in {"insert", "flip"} => tx[r].x[1] \in Assignments
        BY <2>1 DEF Targeted, Subs
      <3> QED
        BY <2>1, <2>2, <3>1 DEF IInv, TypeOK, Reliable
    <2> QED
      BY <2>1, <2>3 DEF Targeted, Reliable, Attempted, results
  <1> QED
    BY <1>1, <1>2, <1>3, <1>4 DEF IInv

\* Every step keeps the invariant.
LEMMA NextOK == IInv /\ [Next]_vars => IInv'
  <1> SUFFICES ASSUME IInv, [Next]_vars PROVE IInv'
    OBVIOUS
  <1>1. ASSUME NEW r \in Requests, Student(r) PROVE IInv'
    BY <1>1, AskOK, LockAssignmentOK, StartSubmissionOK, CheckProgressOK,
       SaveProgressOK, SubmitSubmissionOK DEF Student
  <1>2. ASSUME NEW r \in Requests, Editor(r) PROVE IInv'
    BY <1>2, GetExerciseOK, ExerciseIsLockedOK, UpdateExerciseOK, SoftDeleteExerciseOK
    DEF Editor
  <1>3. ASSUME NEW r \in Requests, Grader(r) PROVE IInv'
    BY <1>3, LockForGradeOK, LockObjectiveOK, ReleaseGradeOK, UpdateAutoGradeResultOK,
       ReadVersionOK, ReviseGradeOK DEF Grader
  <1>4. ASSUME NEW r \in Requests, Abort(r) PROVE IInv'
    BY <1>4, AbortOK
  <1>5. ASSUME NEW a \in Assignments, CreateAssignment(a) PROVE IInv'
    BY <1>5, AssignmentWrites DEF CreateAssignment
  <1>6. ASSUME NEW a \in Assignments, UpdateStatus(a) PROVE IInv'
    BY <1>6, AssignmentWrites DEF UpdateStatus
  <1>7. CASE UNCHANGED vars
    BY <1>7 DEF vars, library, results, IInv, TypeOK, OneHolder, Targeted, Reliable,
       Attempted, RowsOK, GradesInOrder, GradedAsSubmitted, OverridesCount
  <1> QED
    BY <1>1, <1>2, <1>3, <1>4, <1>5, <1>6, <1>7 DEF Next

\* The invariant of the specification.
THEOREM Invariant == Spec => []IInv
  BY InitOK, NextOK, PTL DEF Spec

\* The rows and the requests keep their types: no grade goes beyond the bound, which
\* only the first read of a revision tests.
THEOREM TypeCorrect == Spec => []TypeOK
  <1>1. IInv => TypeOK
    BY DEF IInv
  <1> QED
    BY <1>1, Invariant, PTL

\* Versions without a gap or a double, and graded means that one is released, with
\* any number of teachers who revise at once.
THEOREM GradesKeepOrder == Spec => []GradesInOrder
  <1>1. IInv => GradesInOrder
    BY DEF IInv, RowsOK
  <1> QED
    BY <1>1, Invariant, PTL

\* Every version of a grade is for the content that the attempt has.
THEOREM GradesMatchContent == Spec => []GradedAsSubmitted
  <1>1. IInv => GradedAsSubmitted
    BY DEF IInv, RowsOK
  <1> QED
    BY <1>1, Invariant, PTL

\* No override that was answered with success is lost, and the grade released is the
\* working row.
THEOREM NoOverrideLost == Spec => []OverridesCount
  <1>1. IInv => OverridesCount
    BY DEF IInv, RowsOK
  <1> QED
    BY <1>1, Invariant, PTL

-----------------------------------------------------------------------------
(* What a step may do, and who waits for whom.                             *)

\* Who writes the library: an editor that has the exercise's lock.
LEMMA LibrarySteps ==
  ASSUME [Next]_vars
  PROVE  \/ UNCHANGED <<version, deleted>>
         \/ \E r \in Requests : UpdateExercise(r) \/ SoftDeleteExercise(r)
  <1>1. ASSUME NEW r \in Requests, Student(r) PROVE UNCHANGED library
    BY <1>1 DEF Student, Ask, Begin, LockAssignment, StartSubmission, CheckProgress,
       SaveProgress, SubmitSubmission
  <1>2. ASSUME NEW r \in Requests, Editor(r)
        PROVE  UNCHANGED library \/ UpdateExercise(r) \/ SoftDeleteExercise(r)
    BY <1>2 DEF Editor, GetExercise, ExerciseIsLocked
  <1>3. ASSUME NEW r \in Requests, Grader(r) PROVE UNCHANGED library
    BY <1>3 DEF Grader, LockForGrade, LockObjective, ReleaseGrade,
       UpdateAutoGradeResult, ReadVersion, ReviseGrade
  <1>4. ASSUME NEW r \in Requests, Abort(r) PROVE UNCHANGED library
    BY <1>4 DEF Abort
  <1>5. ASSUME NEW a \in Assignments, CreateAssignment(a) \/ UpdateStatus(a)
        PROVE  UNCHANGED library
    BY <1>5 DEF CreateAssignment, UpdateStatus
  <1>6. UNCHANGED vars => UNCHANGED library
    BY DEF vars
  <1> QED
    BY <1>1, <1>2, <1>3, <1>4, <1>5, <1>6 DEF Next, library

\* Who writes an attempt: its student, and the teacher who grades it first.
LEMMA SubSteps ==
  ASSUME [Next]_vars
  PROVE  \/ UNCHANGED sub
         \/ \E r \in Requests : \/ StartSubmission(r) \/ SaveProgress(r)
                                \/ SubmitSubmission(r) \/ ReleaseGrade(r)
  <1>1. ASSUME NEW r \in Requests, Student(r)
        PROVE  UNCHANGED sub \/ StartSubmission(r) \/ SaveProgress(r) \/ SubmitSubmission(r)
    BY <1>1 DEF Student, Ask, Begin, LockAssignment, CheckProgress
  <1>2. ASSUME NEW r \in Requests, Editor(r) PROVE UNCHANGED sub
    BY <1>2 DEF Editor, GetExercise, ExerciseIsLocked, UpdateExercise, SoftDeleteExercise
  <1>3. ASSUME NEW r \in Requests, Grader(r) PROVE UNCHANGED sub \/ ReleaseGrade(r)
    BY <1>3 DEF Grader, LockForGrade, LockObjective, UpdateAutoGradeResult, ReadVersion,
       ReviseGrade
  <1>4. ASSUME NEW r \in Requests, Abort(r) PROVE UNCHANGED sub
    BY <1>4 DEF Abort
  <1>5. ASSUME NEW a \in Assignments, CreateAssignment(a) \/ UpdateStatus(a)
        PROVE  UNCHANGED sub
    BY <1>5 DEF CreateAssignment, UpdateStatus
  <1>6. UNCHANGED vars => UNCHANGED sub
    BY DEF vars
  <1> QED
    BY <1>1, <1>2, <1>3, <1>4, <1>5, <1>6 DEF Next

\* FR-23: no step edits or deletes an exercise that a student has begun, on any
\* assignment of it.
THEOREM AttemptFreezes == Spec => FrozenOnceAttempted
  <1>1. ASSUME IInv, [Next]_vars, NEW e \in Exercises,
               version'[e] # version[e] \/ e \in deleted' \ deleted
        PROVE  ~Attempted(e)'
    <2>1. PICK r \in Requests : UpdateExercise(r) \/ SoftDeleteExercise(r)
      BY <1>1, LibrarySteps
    <2>2. tx[r].pc = "rewrite" /\ UNCHANGED sub
      BY <2>1 DEF UpdateExercise, SoftDeleteExercise
    <2>3. tx[r].e = e
      BY <1>1, <2>1 DEF IInv, TypeOK, UpdateExercise, SoftDeleteExercise
    <2> QED
      BY <1>1, <2>2, <2>3 DEF IInv, Reliable, Attempted
  <1>2. IInv /\ [Next]_vars =>
          \A e \in Exercises :
             version'[e] # version[e] \/ e \in deleted' \ deleted => ~Attempted(e)'
    BY <1>1
  <1> QED
    BY <1>2, Invariant, PTL DEF Spec, FrozenOnceAttempted

\* D10: an attempt begins and is submitted under an assignment that is open when the
\* transaction commits.
THEOREM WrittenUnderOpen == Spec => OpenWhenWritten
  <1>1. ASSUME IInv, [Next]_vars, NEW x \in Subs, sub'[x].status # sub[x].status,
               sub'[x].status # "graded"
        PROVE  status[x[1]] = "open" /\ status'[x[1]] = "open"
    <2>1. PICK r \in Requests : \/ StartSubmission(r) \/ SaveProgress(r)
                                \/ SubmitSubmission(r) \/ ReleaseGrade(r)
      BY <1>1, SubSteps
    <2>2. CASE StartSubmission(r) \/ SubmitSubmission(r)
      <3>1. tx[r].pc \in {"insert", "flip"} /\ UNCHANGED status
        BY <2>2 DEF StartSubmission, SubmitSubmission
      <3>2. tx[r].x = x
        BY <1>1, <2>2 DEF IInv, TypeOK, StartSubmission, SubmitSubmission
      <3> QED
        BY <1>1, <3>1, <3>2 DEF IInv, Reliable
    <2>3. CASE SaveProgress(r)
      BY <1>1, <2>3 DEF IInv, TypeOK, SaveProgress
    <2>4. CASE ReleaseGrade(r)
      BY <1>1, <2>4 DEF IInv, TypeOK, ReleaseGrade
    <2> QED
      BY <2>1, <2>2, <2>3, <2>4
  <1>2. IInv /\ [Next]_vars =>
          \A x \in Subs : sub'[x].status # sub[x].status /\ sub'[x].status # "graded"
                          => status[x[1]] = "open" /\ status'[x[1]] = "open"
    BY <1>1
  <1> QED
    BY <1>2, Invariant, PTL DEF Spec, OpenWhenWritten

\* A submitted attempt keeps its content, and only a grade changes its status.
THEOREM SubmittedStays == Spec => SubmittedIsFinal
  <1>1. ASSUME IInv, [Next]_vars, NEW x \in Subs, sub[x].status \in {"submitted", "graded"}
        PROVE  /\ sub'[x].content = sub[x].content
               /\ sub'[x].status \in {sub[x].status, "graded"}
    <2>1. CASE UNCHANGED sub
      BY <2>1
    <2>2. ASSUME NEW r \in Requests,
                 \/ StartSubmission(r) \/ SaveProgress(r) \/ SubmitSubmission(r)
          PROVE  sub'[x] = sub[x]
      <3>1. tx[r].x # x
        BY <1>1, <2>2 DEF StartSubmission, SaveProgress, SubmitSubmission, InProgress
      <3> QED
        BY <1>1, <2>2, <3>1
        DEF IInv, TypeOK, StartSubmission, SaveProgress, SubmitSubmission
    <2>3. ASSUME NEW r \in Requests, ReleaseGrade(r)
          PROVE  /\ sub'[x].content = sub[x].content
                 /\ sub'[x].status \in {sub[x].status, "graded"}
      BY <1>1, <2>3 DEF IInv, TypeOK, ReleaseGrade
    <2> QED
      BY <1>1, <2>1, <2>2, <2>3, SubSteps
  <1>2. IInv /\ [Next]_vars =>
          \A x \in Subs : sub[x].status \in {"submitted", "graded"} =>
             /\ sub'[x].content = sub[x].content
             /\ sub'[x].status \in {sub[x].status, "graded"}
    BY <1>1
  <1> QED
    BY <1>2, Invariant, PTL DEF Spec, SubmittedIsFinal

\* A request that waits and holds a lock holds an assignment's; one that it waits for
\* has a lock of another kind, and then waits for nobody.
LEMMA ShortChains ==
  ASSUME NEW r \in Requests, NEW q \in Requests, NEW l \in Needed(tx[r]),
         Held(tx[r]) # {}, l \in Held(tx[q])
  PROVE  tx[q].pc # "idle" /\ Granted(q)
  <1>1. tx[r].pc \in {"insert", "flip"}
    BY HeldCases, NeededCases
  <1>2. \/ l = <<"exercise", ExerciseOf[tx[r].x[1]]>>
        \/ l = <<"submission", tx[r].x>>
    BY <1>1, NeededCases
  <1>3. tx[q].pc \in {"rewrite", "grade", "override", "release"}
    BY <1>2, HeldCases
  <1>4. Needed(tx[q]) = {}
    BY <1>3, NeededCases
  <1> QED
    BY <1>3, <1>4 DEF Granted

\* No set of requests, however many are open, waits for one another.
THEOREM NoLockCycle == Spec => []LocksAcyclic
  <1>1. ASSUME NEW r \in Requests, tx[r] # NoTx
        PROVE  \E q \in Requests : tx[q] # NoTx /\ Granted(q)
    <2>1. CASE Granted(r)
      BY <1>1, <2>1
    <2>2. CASE ~Granted(r)
      <3>1. PICK l \in Needed(tx[r]), q \in Requests : l \in Held(tx[q])
        BY <2>2 DEF Granted, Free
      <3>2. tx[q] # NoTx
        BY <3>1, Idle, HeldCases
      <3>3. CASE Granted(q)
        BY <3>2, <3>3
      <3>4. CASE ~Granted(q)
        <4>1. PICK m \in Needed(tx[q]), p \in Requests : m \in Held(tx[p])
          BY <3>4 DEF Granted, Free
        <4>2. tx[p].pc # "idle" /\ Granted(p)
          BY <3>1, <4>1, ShortChains
        <4> QED
          BY <4>2, Idle
      <3> QED
        BY <3>3, <3>4
    <2> QED
      BY <2>1, <2>2
  <1>2. LocksAcyclic
    BY <1>1 DEF LocksAcyclic
  <1> QED
    BY <1>2, PTL

-----------------------------------------------------------------------------
(* Attempt implements Coursework.                                          *)

\* What a grader has read of the exercise and keeps of it.
Justified(r) ==
    /\ tx[r].pc \in {"grade", "revise"} =>
           "scored" \in KindOf(tx[r].x) /\ tx[r].marks = {}
    /\ tx[r].pc \in {"override", "release"} => "marked" \in KindOf(tx[r].x)

AllJustified == \A r \in Requests : Justified(r)

Graders == {"grade", "override", "release", "revise"}

\* What a grader works on was begun, so its exercise is not edited.
LEMMA GradersWorkOnAttempts ==
  ASSUME IInv, NEW r \in Requests, tx[r].pc \in Graders
  PROVE  tx[r].x \in Subs /\ Attempted(ExerciseOf[tx[r].x[1]])
  <1>1. tx[r].x \in Subs
    BY DEF IInv, Targeted, Graders
  <1>2. sub[tx[r].x].status # "none"
    BY <1>1 DEF IInv, Reliable, RowsOK, Graders
  <1> QED
    BY <1>1, <1>2 DEF Attempted

\* The kind of an exercise changes only with an edit.
LEMMA KindSteps ==
  ASSUME [Next]_vars
  PROVE  UNCHANGED kind \/ \E r \in Requests : UpdateExercise(r)
  <1>1. ASSUME NEW r \in Requests, Student(r) PROVE UNCHANGED kind
    BY <1>1 DEF Student, Ask, Begin, LockAssignment, StartSubmission, CheckProgress,
       SaveProgress, SubmitSubmission, library
  <1>2. ASSUME NEW r \in Requests, Editor(r) PROVE UNCHANGED kind \/ UpdateExercise(r)
    BY <1>2 DEF Editor, GetExercise, ExerciseIsLocked, SoftDeleteExercise, library
  <1>3. ASSUME NEW r \in Requests, Grader(r) PROVE UNCHANGED kind
    BY <1>3 DEF Grader, LockForGrade, LockObjective, ReleaseGrade,
       UpdateAutoGradeResult, ReadVersion, ReviseGrade, library
  <1>4. ASSUME NEW r \in Requests, Abort(r) PROVE UNCHANGED kind
    BY <1>4 DEF Abort, library
  <1>5. ASSUME NEW a \in Assignments, CreateAssignment(a) \/ UpdateStatus(a)
        PROVE  UNCHANGED kind
    BY <1>5 DEF CreateAssignment, UpdateStatus, library
  <1>6. UNCHANGED vars => UNCHANGED kind
    BY DEF vars, library
  <1> QED
    BY <1>1, <1>2, <1>3, <1>4, <1>5, <1>6 DEF Next

\* What a grader begins with.
Opens(r) ==
    \E x \in Subs : \/ LockForGrade(r, x)
                    \/ ReadVersion(r, x)
                    \/ \E pc \in {"override", "release"} : LockObjective(r, x, pc)

\* A request becomes a grader's when it reads.
LEMMA GraderSteps ==
  ASSUME IInv, [Next]_vars, NEW q \in Requests
  PROVE  tx'[q] = tx[q] \/ tx'[q].pc \notin Graders \/ Opens(q)
  <1> DEFINE Same == tx'[q] = tx[q]
             Other == tx'[q].pc \notin Graders
  <1>0. tx \in [Requests -> Txs] /\ NoTx.pc \notin Graders
    BY Idle DEF IInv, TypeOK, Graders
  <1>1. ASSUME NEW r \in Requests, NEW t, Goto(r, t), t.pc \notin Graders
        PROVE  Same \/ Other
    BY <1>0, <1>1 DEF Goto
  <1>2. ASSUME NEW r \in Requests, End(r) PROVE Same \/ Other
    BY <1>0, <1>1, <1>2 DEF End
  <1>3. ASSUME NEW r \in Requests, NEW t, Goto(r, t), Opens(r)
        PROVE  Same \/ Opens(q)
    <2>1. CASE r = q
      BY <1>3, <2>1
    <2>2. CASE r # q
      BY <1>0, <1>3, <2>2 DEF Goto
    <2> QED
      BY <2>1, <2>2
  <1>4. ASSUME NEW r \in Requests, Student(r) PROVE Same \/ Other
    <2>1. ASSUME NEW x \in Subs, Ask(r, x) PROVE Same \/ Other
      <3>1. PICK pc \in {"start", "save", "submit"}, c \in Contents : Begin(r, pc, x, c)
        BY <2>1, AttemptAssumption DEF Ask
      <3>2. [NoTx EXCEPT !.pc = pc, !.x = x, !.content = c].pc \notin Graders
        BY DEF NoTx, Graders
      <3> QED
        BY <1>1, <3>1, <3>2 DEF Begin
    <2>2. CASE LockAssignment(r)
      <3>1. tx[r] \in Txs /\ tx[r].pc \in {"start", "submit"}
        BY <1>0, <2>2 DEF LockAssignment
      <3>2. [tx[r] EXCEPT !.pc = IF @ = "start" THEN "insert" ELSE "flip"].pc \notin Graders
        BY <3>1 DEF Txs, Graders
      <3> QED
        BY <1>1, <2>2, <3>2 DEF LockAssignment
    <2>3. CASE CheckProgress(r)
      <3>1. tx[r] \in Txs
        BY <1>0
      <3>2. [tx[r] EXCEPT !.pc = "write"].pc \notin Graders
        BY <3>1 DEF Txs, Graders
      <3> QED
        BY <1>1, <2>3, <3>2 DEF CheckProgress
    <2>4. CASE StartSubmission(r) \/ SaveProgress(r) \/ SubmitSubmission(r)
      BY <1>2, <2>4 DEF StartSubmission, SaveProgress, SubmitSubmission
    <2> QED
      BY <1>4, <2>1, <2>2, <2>3, <2>4 DEF Student
  <1>5. ASSUME NEW r \in Requests, Editor(r) PROVE Same \/ Other
    <2>1. ASSUME NEW e \in Exercises, GetExercise(r, e) PROVE Same \/ Other
      <3>1. [NoTx EXCEPT !.pc = "edit", !.e = e, !.base = version[e]].pc \notin Graders
        BY DEF NoTx, Graders
      <3> QED
        BY <1>1, <2>1, <3>1 DEF GetExercise
    <2>2. CASE ExerciseIsLocked(r)
      <3>1. tx[r] \in Txs
        BY <1>0
      <3>2. [tx[r] EXCEPT !.pc = "rewrite"].pc \notin Graders
        BY <3>1 DEF Txs, Graders
      <3> QED
        BY <1>1, <2>2, <3>2 DEF ExerciseIsLocked
    <2>3. CASE UpdateExercise(r) \/ SoftDeleteExercise(r)
      BY <1>2, <2>3 DEF UpdateExercise, SoftDeleteExercise
    <2> QED
      BY <1>5, <2>1, <2>2, <2>3 DEF Editor
  <1>6. ASSUME NEW r \in Requests, Grader(r) PROVE Same \/ Other \/ Opens(q)
    <2>1. CASE ReleaseGrade(r) \/ UpdateAutoGradeResult(r) \/ ReviseGrade(r)
      BY <1>2, <2>1 DEF ReleaseGrade, UpdateAutoGradeResult, ReviseGrade
    <2>2. CASE Opens(r)
      <3>1. \E t : Goto(r, t)
        BY <2>2 DEF Opens, LockForGrade, LockObjective, ReadVersion
      <3> QED
        BY <1>3, <2>2, <3>1
    <2> QED
      BY <1>6, <2>1, <2>2 DEF Grader, Opens
  <1>7. ASSUME NEW r \in Requests, Abort(r) PROVE Same \/ Other
    BY <1>2, <1>7 DEF Abort
  <1>8. ASSUME NEW a \in Assignments, CreateAssignment(a) \/ UpdateStatus(a) PROVE Same
    BY <1>8 DEF CreateAssignment, UpdateStatus
  <1>9. UNCHANGED vars => Same
    BY DEF vars
  <1> QED
    BY <1>4, <1>5, <1>6, <1>7, <1>8, <1>9 DEF Next

\* The kind of an exercise stays what its graders have read.
LEMMA JustifiedStep ==
  ASSUME IInv, AllJustified, [Next]_vars
  PROVE  AllJustified'
  <1> SUFFICES ASSUME NEW q \in Requests PROVE Justified(q)'
    BY DEF AllJustified
  <1>1. CASE tx'[q] = tx[q]
    <2>1. CASE tx[q].pc \notin Graders
      BY <1>1, <2>1 DEF Justified, Graders
    <2>2. CASE tx[q].pc \in Graders
      <3> DEFINE e == ExerciseOf[tx[q].x[1]]
      <3>1. tx[q].x \in Subs /\ Attempted(e)
        BY <2>2, GradersWorkOnAttempts
      <3>2. ASSUME NEW r \in Requests, UpdateExercise(r) PROVE kind'[e] = kind[e]
        <4>1. tx[r].e # e
          BY <3>1, <3>2 DEF UpdateExercise, IInv, Reliable
        <4>2. kind \in [Exercises -> Kinds] /\ e \in Exercises
          BY <3>1, AttemptAssumption DEF IInv, TypeOK, Subs
        <4> QED
          BY <3>2, <4>1, <4>2 DEF UpdateExercise
      <3>3. kind'[e] = kind[e]
        BY <3>2, KindSteps
      <3> QED
        BY <1>1, <3>3 DEF AllJustified, Justified, KindOf
    <2> QED
      BY <2>1, <2>2
  <1>2. CASE tx'[q].pc \notin Graders
    BY <1>2 DEF Justified, Graders
  <1>3. ASSUME NEW x \in Subs, LockForGrade(q, x) PROVE Justified(q)'
    <2>1. tx'[q] = [NoTx EXCEPT !.pc = "grade", !.x = x, !.content = sub[x].content]
      BY <1>3 DEF LockForGrade, Goto, IInv, TypeOK
    <2>2. tx'[q].pc = "grade" /\ tx'[q].x = x /\ tx'[q].marks = {}
      BY <2>1 DEF NoTx
    <2> QED
      BY <1>3, <2>2 DEF LockForGrade, Justified, KindOf, library
  <1>4. ASSUME NEW x \in Subs, ReadVersion(q, x) PROVE Justified(q)'
    <2>1. tx'[q] = [NoTx EXCEPT !.pc = "revise", !.x = x, !.content = sub[x].content,
                                !.base = MaxGradeVersion(x)]
      BY <1>4 DEF ReadVersion, Goto, IInv, TypeOK
    <2>2. tx'[q].pc = "revise" /\ tx'[q].x = x /\ tx'[q].marks = {}
      BY <2>1 DEF NoTx
    <2> QED
      BY <1>4, <2>2 DEF ReadVersion, Justified, KindOf, library
  <1>5. ASSUME NEW x \in Subs, NEW pc \in {"override", "release"}, LockObjective(q, x, pc)
        PROVE  Justified(q)'
    <2>1. tx'[q] = [NoTx EXCEPT !.pc = pc, !.x = x, !.content = sub[x].content,
                                !.base = MaxGradeVersion(x), !.marks = marks[x]]
      BY <1>5 DEF LockObjective, Goto, IInv, TypeOK
    <2>2. tx'[q].pc = pc /\ tx'[q].x = x
      BY <2>1 DEF NoTx
    <2> QED
      BY <1>5, <2>2 DEF LockObjective, Justified, KindOf, library
  <1> QED
    BY <1>1, <1>2, <1>3, <1>4, <1>5, GraderSteps DEF Opens

LEMMA AlwaysJustified == Spec => []AllJustified
  <1>1. Init => AllJustified
    BY Idle DEF Init, AllJustified, Justified
  <1> QED
    BY <1>1, JustifiedStep, Invariant, PTL DEF Spec

\* The operations of Coursework, each by the write it stands for.
LEMMA SerialStudent ==
  ASSUME IInv, NEW r \in Requests,
         StartSubmission(r) \/ SaveProgress(r) \/ SubmitSubmission(r)
  PROVE  Serial!Student
  <1>0. PICK x \in Subs : x = tx[r].x
    BY DEF IInv, Targeted, StartSubmission, SaveProgress, SubmitSubmission
  <1>1. CASE StartSubmission(r)
    <2>1. status[x[1]] = "open"
      BY <1>0, <1>1 DEF IInv, Reliable, StartSubmission
    <2>2. Serial!Start(x)
      BY <1>0, <1>1, <2>1 DEF StartSubmission, Serial!Start, library, results
    <2> QED
      BY <2>2 DEF Serial!Student
  <1>2. CASE SaveProgress(r)
    <2>1. tx[r].content \in Contents
      BY DEF IInv, TypeOK, Txs
    <2>2. Serial!Save(x, tx[r].content)
      BY <1>0, <1>2 DEF SaveProgress, InProgress, Serial!Save, library, results
    <2> QED
      BY <2>1, <2>2 DEF Serial!Student
  <1>3. CASE SubmitSubmission(r)
    <2>1. status[x[1]] = "open"
      BY <1>0, <1>3 DEF IInv, Reliable, SubmitSubmission
    <2>2. Serial!Submit(x)
      BY <1>0, <1>3, <2>1
      DEF SubmitSubmission, InProgress, KindOf, Serial!Submit, Serial!KindOf, library
    <2> QED
      BY <2>2 DEF Serial!Student
  <1> QED
    BY <1>1, <1>2, <1>3

\* An editor writes while no attempt has been begun.
LEMMA SerialEditor ==
  ASSUME IInv, NEW r \in Requests, UpdateExercise(r) \/ SoftDeleteExercise(r)
  PROVE  Serial!Editor
  <1>0. PICK e \in Exercises : e = tx[r].e
    BY DEF IInv, Targeted, UpdateExercise, SoftDeleteExercise
  <1>1. ~Serial!Attempted(e)
    BY <1>0 DEF IInv, Reliable, UpdateExercise, SoftDeleteExercise, Attempted,
       Serial!Attempted
  <1>2. CASE UpdateExercise(r)
    <2>1. Serial!Edit(e)
      BY <1>0, <1>1, <1>2 DEF UpdateExercise, Serial!Edit, Kinds, results
    <2> QED
      BY <2>1 DEF Serial!Editor
  <1>3. CASE SoftDeleteExercise(r)
    <2>1. Serial!Delete(e)
      BY <1>0, <1>1, <1>3 DEF SoftDeleteExercise, Serial!Delete, results
    <2> QED
      BY <2>1 DEF Serial!Editor
  <1> QED
    BY <1>2, <1>3

\* A grade, an override and a release are made from the rows as they are, a revision
\* from content that no longer changes, with the version after the newest.
LEMMA SerialGrader ==
  ASSUME IInv, AllJustified, NEW r \in Requests,
         ReleaseGrade(r) \/ UpdateAutoGradeResult(r) \/ ReviseGrade(r)
  PROVE  Serial!Grader
  <1>0. PICK x \in Subs : x = tx[r].x
    BY DEF IInv, Targeted, ReleaseGrade, UpdateAutoGradeResult, ReviseGrade
  <1>1. CASE ReleaseGrade(r)
    <2>1. /\ tx[r].pc \in {"grade", "release"} /\ grades[x] = <<>> /\ tx[r].base = 0
          /\ tx[r].content = sub[x].content
      BY <1>0, <1>1 DEF IInv, Reliable, ReleaseGrade
    <2>2. /\ sub[x].status = "submitted"
          /\ grades' = [grades EXCEPT ![x] = Append(@, Row(r))]
          /\ sub' = [sub EXCEPT ![x].status = "graded"]
          /\ UNCHANGED <<status, version, kind, deleted, marks>>
      BY <1>0, <1>1 DEF ReleaseGrade, library
    <2>3. Row(r) = [n |-> Len(grades[x]) + 1, by |-> tx[r].pc,
                    content |-> sub[x].content, marks |-> tx[r].marks]
      BY <2>1 DEF Row
    <2>4. Serial!Enter(x, tx[r].pc, tx[r].marks)
      BY <2>2, <2>3 DEF Serial!Enter
    <2>5. CASE tx[r].pc = "grade"
      <3>1. "scored" \in KindOf(x) /\ tx[r].marks = {}
        BY <1>0, <2>5 DEF AllJustified, Justified
      <3>2. Serial!Grade(x)
        BY <2>2, <2>4, <2>5, <3>1 DEF Serial!Grade, KindOf, Serial!KindOf
      <3> QED
        BY <3>2 DEF Serial!Grader
    <2>6. CASE tx[r].pc = "release"
      <3>1. "marked" \in KindOf(x) /\ marks[x] # None /\ tx[r].marks = marks[x]
        BY <1>0, <2>6 DEF AllJustified, Justified, IInv, Reliable
      <3>2. Serial!Release(x)
        BY <2>2, <2>4, <2>6, <3>1 DEF Serial!Release, KindOf, Serial!KindOf
      <3> QED
        BY <3>2 DEF Serial!Grader
    <2> QED
      BY <2>1, <2>5, <2>6
  <1>2. CASE UpdateAutoGradeResult(r)
    <2>1. /\ tx[r].pc = "override" /\ grades[x] = <<>>
          /\ marks[x] # None /\ tx[r].marks = marks[x]
      BY <1>0, <1>2 DEF IInv, Reliable, UpdateAutoGradeResult
    <2>2. sub[x].status = "submitted"
      BY <2>1 DEF IInv, RowsOK, GradesInOrder
    <2>3. "marked" \in KindOf(x)
      BY <1>0, <2>1 DEF AllJustified, Justified
    <2>4. PICK q \in Questions : marks' = [marks EXCEPT ![x] = tx[r].marks \cup {q}]
      BY <1>0, <1>2 DEF UpdateAutoGradeResult
    <2>5. Serial!Override(x, q)
      BY <1>2, <2>1, <2>2, <2>3, <2>4
      DEF UpdateAutoGradeResult, Serial!Override, KindOf, Serial!KindOf, library
    <2> QED
      BY <2>5 DEF Serial!Grader
  <1>3. CASE ReviseGrade(r)
    <2>1. /\ tx[r].pc = "revise" /\ sub[x].status = "graded"
          /\ tx[r].content = sub[x].content
          /\ tx[r].base \in 1 .. Len(grades[x])
          /\ grades[x] \in Seq(GradeRows) /\ Len(grades[x]) \in Nat
      BY <1>0, <1>3 DEF IInv, TypeOK, Reliable, ReviseGrade
    <2>2. tx[r].base = Len(grades[x])
      <3>1. tx[r].base \in 0 .. Len(grades[x]) /\ ~Taken(x, tx[r].base + 1)
        BY <1>0, <1>3, <2>1 DEF ReviseGrade
      <3> QED
        BY <3>1, NextVersion DEF IInv, RowsOK
    <2>3. "scored" \in KindOf(x) /\ tx[r].marks = {}
      BY <1>0, <2>1 DEF AllJustified, Justified
    <2>4. Row(r) = [n |-> Len(grades[x]) + 1, by |-> "revise",
                    content |-> sub[x].content, marks |-> {}]
      BY <2>1, <2>2, <2>3 DEF Row
    <2>5. /\ grades' = [grades EXCEPT ![x] = Append(@, Row(r))]
          /\ UNCHANGED <<status, version, kind, deleted, sub, marks>>
      BY <1>0, <1>3 DEF ReviseGrade, library
    <2>6. Serial!Enter(x, "revise", {})
      BY <2>4, <2>5 DEF Serial!Enter
    <2>7. Serial!Revise(x)
      BY <2>1, <2>3, <2>5, <2>6 DEF Serial!Revise, KindOf, Serial!KindOf
    <2> QED
      BY <2>7 DEF Serial!Grader
  <1> QED
    BY <1>1, <1>2, <1>3

\* Everything else a request does is to read, or to end, and leaves no trace.
LEMMA SerialStep ==
  ASSUME IInv, AllJustified, [Next]_vars
  PROVE  [Serial!Next]_(Serial!vars)
  <1> DEFINE Quiet == UNCHANGED <<status, library, sub, grades, marks>>
  <1>1. ASSUME NEW r \in Requests, Student(r) PROVE Serial!Student \/ Quiet
    BY <1>1, SerialStudent
    DEF Student, Ask, Begin, LockAssignment, CheckProgress, results
  <1>2. ASSUME NEW r \in Requests, Editor(r) PROVE Serial!Editor \/ Quiet
    BY <1>2, SerialEditor DEF Editor, GetExercise, ExerciseIsLocked, results
  <1>3. ASSUME NEW r \in Requests, Grader(r) PROVE Serial!Grader \/ Quiet
    BY <1>3, SerialGrader DEF Grader, LockForGrade, LockObjective, ReadVersion, results
  <1>4. ASSUME NEW r \in Requests, Abort(r) PROVE Quiet
    BY <1>4 DEF Abort, results
  <1>5. ASSUME NEW a \in Assignments, CreateAssignment(a) PROVE Serial!Editor
    <2>1. Serial!Assign(a)
      BY <1>5 DEF CreateAssignment, Serial!Assign, library, results
    <2> QED
      BY <2>1 DEF Serial!Editor
  <1>6. ASSUME NEW a \in Assignments, UpdateStatus(a) PROVE Serial!Editor
    <2>1. Serial!CloseOrReopen(a)
      BY <1>6 DEF UpdateStatus, Serial!CloseOrReopen, library, results
    <2> QED
      BY <2>1 DEF Serial!Editor
  <1>7. UNCHANGED vars => Quiet
    BY DEF vars, results
  <1>8. Serial!Student \/ Serial!Editor \/ Serial!Grader \/ Quiet
    BY <1>1, <1>2, <1>3, <1>4, <1>5, <1>6, <1>7 DEF Next
  <1>9. Quiet => UNCHANGED Serial!vars
    BY DEF Serial!vars, library
  <1> QED
    BY <1>8, <1>9 DEF Serial!Next

\* The handlers, with all their reads and writes interleaved, do what the same
\* operations do one at a time: the locks, guards and the unique index make every
\* transaction serialize at its write, but for an autosave's look at the assignment.
THEOREM Implements == Spec => ImplementsCoursework
  <1>1. Init => Serial!Init
    BY DEF Init, Kinds, Serial!Init
  <1>2. IInv /\ AllJustified /\ [Next]_vars => [Serial!Next]_(Serial!vars)
    BY SerialStep
  <1> QED
    BY <1>1, <1>2, Invariant, AlwaysJustified, PTL
    DEF Spec, ImplementsCoursework, Serial!Spec
=============================================================================
