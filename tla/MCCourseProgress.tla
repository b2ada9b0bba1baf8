-------------------------- MODULE MCCourseProgress --------------------------
(* One student with two requests at a time; the second version of the      *)
(* course drops the lesson and requires the quiz, optional in the first.   *)
EXTENDS CourseProgress, TLC

CONSTANTS e1, c1, c2, lesson, quiz

MCEnrollments == {e1}
MCRequests == {c1, c2}
MCResources == {lesson, quiz}
MCQuizzes == {quiz}
MCVisible == <<MCResources, {quiz}>>
MCRequired == <<{lesson}, {quiz}>>
MCRequiredPct == <<100, 100>>
RequestSymmetry == Permutations(MCRequests)
=============================================================================
