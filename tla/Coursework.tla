----------------------------- MODULE Coursework -----------------------------
(***************************************************************************)
(* What the requests of students and teachers amount to: the same          *)
(* operations one after the other, each looking at what is there when it   *)
(* writes.  Attempt, where their reads and writes interleave, implements   *)
(* it: nobody ever acts on what is no longer so, with one exception that   *)
(* Save names.                                                             *)
(***************************************************************************)
EXTENDS Integers, Sequences

CONSTANTS
    Assignments,
    Exercises,
    ExerciseOf,
    Subs,         \* assignment and student
    Contents,
    Shell,        \* what an attempt begins with
    Questions,
    MaxEdits,
    None

VARIABLES
    status,    \* of an assignment: "absent", "open" or "closed"
    version,   \* edits of an exercise
    kind,      \* who can grade the exercise
    deleted,   \* exercises
    sub,       \* status and content of an attempt
    grades,    \* the versions of its grade
    marks      \* questions overridden in its objective result, None without one

vars == <<status, version, kind, deleted, sub, grades, marks>>

Init ==
    /\ status = [a \in Assignments |-> "absent"]
    /\ version = [e \in Exercises |-> 0]
    /\ kind \in [Exercises -> SUBSET {"scored", "marked"}]
    /\ deleted = {}
    /\ sub = [x \in Subs |-> [status |-> "none", content |-> Shell]]
    /\ grades = [x \in Subs |-> <<>>]
    /\ marks = [x \in Subs |-> None]

Attempted(e) == \E x \in Subs : ExerciseOf[x[1]] = e /\ sub[x].status # "none"
KindOf(x) == kind[ExerciseOf[x[1]]]

-----------------------------------------------------------------------------
(* A student.                                                              *)

Start(x) ==
    /\ status[x[1]] = "open"
    /\ sub[x].status = "none"
    /\ sub' = [sub EXCEPT ![x] = [status |-> "in_progress", content |-> Shell]]
    /\ UNCHANGED <<status, version, kind, deleted, grades, marks>>

\* The assignment may have been closed since the student was told that it is open.
Save(x, c) ==
    /\ sub[x].status = "in_progress"
    /\ sub' = [sub EXCEPT ![x].content = c]
    /\ UNCHANGED <<status, version, kind, deleted, grades, marks>>

\* With, or without, the marks of an exercise that can be marked.
Submit(x) ==
    /\ status[x[1]] = "open"
    /\ sub[x].status = "in_progress"
    /\ sub' = [sub EXCEPT ![x].status = "submitted"]
    /\ \/ marks' = marks
       \/ "marked" \in KindOf(x) /\ marks' = [marks EXCEPT ![x] = {}]
    /\ UNCHANGED <<status, version, kind, deleted, grades>>

-----------------------------------------------------------------------------
(* Teachers.                                                               *)

Assign(a) ==
    /\ status[a] = "absent"
    /\ ExerciseOf[a] \notin deleted
    /\ status' = [status EXCEPT ![a] = "open"]
    /\ UNCHANGED <<version, kind, deleted, sub, grades, marks>>

CloseOrReopen(a) ==
    /\ status[a] # "absent"
    /\ status' = [status EXCEPT ![a] = IF @ = "open" THEN "closed" ELSE "open"]
    /\ UNCHANGED <<version, kind, deleted, sub, grades, marks>>

Edit(e) ==
    /\ e \notin deleted /\ ~Attempted(e)
    /\ version[e] < MaxEdits
    /\ version' = [version EXCEPT ![e] = @ + 1]
    /\ \E k \in SUBSET {"scored", "marked"} : kind' = [kind EXCEPT ![e] = k]
    /\ UNCHANGED <<status, deleted, sub, grades, marks>>

Delete(e) ==
    /\ e \notin deleted /\ ~Attempted(e)
    /\ deleted' = deleted \cup {e}
    /\ UNCHANGED <<status, version, kind, sub, grades, marks>>

\* The next version of a grade, for the attempt as it stands.
Enter(x, by, m) ==
    grades' = [grades EXCEPT ![x] =
                  Append(@, [n |-> Len(@) + 1, by |-> by,
                             content |-> sub[x].content, marks |-> m])]

Grade(x) ==
    /\ sub[x].status = "submitted" /\ "scored" \in KindOf(x)
    /\ Enter(x, "grade", {})
    /\ sub' = [sub EXCEPT ![x].status = "graded"]
    /\ UNCHANGED <<status, version, kind, deleted, marks>>

Revise(x) ==
    /\ sub[x].status = "graded" /\ "scored" \in KindOf(x)
    /\ Enter(x, "revise", {})
    /\ UNCHANGED <<status, version, kind, deleted, sub, marks>>

Override(x, q) ==
    /\ sub[x].status = "submitted" /\ "marked" \in KindOf(x)
    /\ marks[x] # None
    /\ marks' = [marks EXCEPT ![x] = @ \cup {q}]
    /\ UNCHANGED <<status, version, kind, deleted, sub, grades>>

Release(x) ==
    /\ sub[x].status = "submitted" /\ "marked" \in KindOf(x)
    /\ marks[x] # None
    /\ Enter(x, "release", marks[x])
    /\ sub' = [sub EXCEPT ![x].status = "graded"]
    /\ UNCHANGED <<status, version, kind, deleted, marks>>

Student == \E x \in Subs : Start(x) \/ Submit(x) \/ \E c \in Contents : Save(x, c)

Editor ==
    \/ \E a \in Assignments : Assign(a) \/ CloseOrReopen(a)
    \/ \E e \in Exercises : Edit(e) \/ Delete(e)

Grader ==
    \E x \in Subs : Grade(x) \/ Revise(x) \/ Release(x) \/ \E q \in Questions : Override(x, q)

\* One operation, and one that leaves a trace.
Next == vars' # vars /\ (Student \/ Editor \/ Grader)

Spec == Init /\ [][Next]_vars
=============================================================================
