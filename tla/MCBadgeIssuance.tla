-------------------------- MODULE MCBadgeIssuance --------------------------
(* One student with one request at a time, two workers.  The second        *)
(* version of the course requires one more lesson.                         *)
EXTENDS BadgeIssuance, TLC

CONSTANTS e1, c1, w1, w2, r1, r2, lesson, extra

MCEnrollments == {e1}
MCRequests == {c1}
MCWorkers == {w1, w2}
OneWorker == {w1}
MCReapers == {r1, r2}
OneReaper == {r1}
MCResources == {lesson, extra}
TwoVersions == <<{lesson}, {lesson, extra}>>
TwoPcts == <<100, 100>>
AllFaults == {"crash", "error", "loss"}
WorkerSymmetry == Permutations(MCWorkers) \cup Permutations(MCReapers)
=============================================================================
