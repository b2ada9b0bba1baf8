-------------------------- MODULE MCUploadSession --------------------------
(* One upload of two parts, as planParts cuts its file, and three requests *)
(* on it at a time: enough for two concurrent completions with an abort,   *)
(* all racing two overlapping maintenance jobs. The plan is checked for    *)
(* every size around the one where parts start to grow (MinPart * MaxParts)*)
EXTENDS UploadSession, PartPlan, TLC

CONSTANTS a1, c1, c2, c3, r1, r2,
          FileSize  \* bytes of the uploaded file

MCAssets == {a1}
MCCallers == {c1, c2, c3}
MCReapers == {r1, r2}
MCTotalParts == TotalPartsOf(FileSize)
MCSizes == 1 .. 40
CallerSymmetry == Permutations(MCCallers) \cup Permutations(MCReapers)
=============================================================================
