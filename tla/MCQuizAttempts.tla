--------------------------- MODULE MCQuizAttempts ---------------------------
(* Two requests at a quiz of one question that may be tried once: with one *)
(* of two keys or with none, and with bodies that differ in their answer   *)
(* or name a question outside the quiz, which is refused.                  *)
EXTENDS QuizAttempts, TLC

CONSTANTS c1, c2, q1, q2, a, b, k1, k2

MCRequests == {c1, c2}
MCQuestions == {q1}
MCOptions == {a, b}
MCMultiple == {q1}
MCPoints == (q1 :> 1)
MCKeys == {(q1 :> {a}), (q1 :> {b})}
MCBodies == {q1 :> <<a, a>>, q1 :> <<b, b>>, q2 :> <<>>}
MCClientKeys == {k1, k2}
MCKeyAttempt == (k1 :> 1 @@ k2 :> 1)
AllSymmetry == Permutations(MCRequests) \cup Permutations(MCOptions)
               \cup Permutations(MCClientKeys)
=============================================================================
