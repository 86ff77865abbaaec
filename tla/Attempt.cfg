CONSTANTS
    Students = {s1}
    Assignments = {a1, a2}
    Exercises = {e1}
    ExerciseOf <- MCExerciseOf
    Requests = {r1, r2}
    Contents = {Shell, essay}
    Shell = Shell
    Questions = {q1, q2}
    MaxEdits = 1
    MaxGrades = 2
    None = None
    a1 = a1
    a2 = a2
    e1 = e1
SPECIFICATION Spec
SYMMETRY Symmetry
INVARIANTS TypeOK GradedAsSubmitted GradesInOrder OverridesCount LocksAcyclic
PROPERTIES FrozenOnceAttempted ImplementsCoursework
\* The one exercise may be deleted before it is assigned: nothing is left to do.
CHECK_DEADLOCK FALSE
