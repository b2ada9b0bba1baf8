-------------------------- MODULE MCMediaPipeline --------------------------
(* One asset of each kind of content, one or two workers, one request.     *)
EXTENDS MediaPipeline, TLC

CONSTANTS a1, c1, w1, w2, r1

MCAssets == {a1}
MCCallers == {c1}
MCWorkers == {w1, w2}
OneWorker == {w1}
MCReapers == {r1}
WorkerSymmetry == Permutations(MCWorkers)

(* A clean document and video, a video ffmpeg cannot process, an infected  *)
(* video, and an infected document whose declared checksum is wrong.       *)
Good == [av |-> FALSE, checksumOk |-> TRUE, mimeOk |-> TRUE, infected |-> FALSE,
         transcodable |-> TRUE]
MCFiles == {Good, [Good EXCEPT !.av = TRUE],
            [Good EXCEPT !.av = TRUE, !.transcodable = FALSE],
            [Good EXCEPT !.av = TRUE, !.infected = TRUE],
            [Good EXCEPT !.infected = TRUE, !.checksumOk = FALSE]}

(* A document, a film and a damaged file.                                  *)
FewFiles == {Good, [Good EXCEPT !.av = TRUE], [Good EXCEPT !.checksumOk = FALSE]}

AllFaults == {"crash", "error", "tool", "loss"}
=============================================================================
