-------------------------- MODULE MCCourseVersions --------------------------
(* Two requests on a course with one module, one unit and a lesson with    *)
(* text; a unit, a quiz and a question may be added.                       *)
EXTENDS CourseVersions, TLC

CONSTANTS e1, e2, m1, u1, u2, r1, k1, x1

MCEditors == {e1, e2}
MCIds == {m1, u1, u2, r1, k1, x1}
MCKind == m1 :> "module" @@ u1 :> "unit" @@ u2 :> "unit" @@ r1 :> "text"
          @@ k1 :> "quiz" @@ x1 :> "question"
Row(p, n) == [parent |-> p, position |-> n, visible |-> TRUE, required |-> TRUE,
              body |-> Blank, revision |-> 0]
MCTree == m1 :> Row(Top, 1) @@ u1 :> Row(m1, 1)
          @@ r1 :> [Row(u1, 1) EXCEPT !.body = Written]
MCBodies == {[options |-> 2, correct |-> 1, multiple |-> FALSE],
             [options |-> 3, correct |-> 2, multiple |-> FALSE]}
EditorSymmetry == Permutations(MCEditors)
=============================================================================
