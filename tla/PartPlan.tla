------------------------------ MODULE PartPlan ------------------------------
(***************************************************************************)
(* planParts (handlers_media.go): how a file is cut into parts. The client *)
(* is told part_size and gets the presigned URLs of parts 1 .. total_parts, *)
(* and handleCompleteUpload compares what the storage holds with           *)
(* total_parts; nothing else says where a part begins.                     *)
(***************************************************************************)
EXTENDS Integers

CONSTANTS
    MinPart,   \* minPartSize
    MaxParts,  \* maxPartsPerFile
    Sizes      \* declared sizes; handleInitUpload refuses those below one byte

ASSUME PartAssumption == /\ MinPart \in Nat \ {0}
                         /\ MaxParts \in Nat \ {0}
                         /\ Sizes \subseteq Nat \ {0}

(* planParts: the threshold lets one part too many through.                *)
PartSizeLate(size) ==
    IF size \div MinPart > MaxParts THEN size \div MaxParts + 1 ELSE MinPart

PartSize(size) ==
    IF size \div MinPart + 1 > MaxParts THEN size \div MaxParts + 1 ELSE MinPart

TotalPartsOf(size) ==
    LET whole == size \div PartSize(size)
        parts == IF size % PartSize(size) = 0 THEN whole ELSE whole + 1
    IN  IF parts = 0 THEN 1 ELSE parts

(* Cut in parts of part_size, the file fills exactly the announced ones:   *)
(* none is empty and no byte is left after the last one. There are never   *)
(* more than maxPartsPerFile, and only the last may be shorter than the    *)
(* minimum the storage accepts. In integer arithmetic all of it hangs on   *)
(* how planParts rounds at the size where parts start to grow.             *)
Covers(size) ==
    /\ TotalPartsOf(size) \in 1 .. MaxParts
    /\ PartSize(size) >= MinPart
    /\ (TotalPartsOf(size) - 1) * PartSize(size) < size
    /\ size <= TotalPartsOf(size) * PartSize(size)

PlanCovers == \A size \in Sizes : Covers(size)
=============================================================================
