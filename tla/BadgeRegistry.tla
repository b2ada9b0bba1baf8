--------------------------- MODULE BadgeRegistry ---------------------------
(***************************************************************************)
(* What the platform promises about badges, seen from the public           *)
(* verification page: who has deserved one, and which public codes answer  *)
(* "valid".  Nothing is said of queues, workers or retries.                *)
(***************************************************************************)
CONSTANTS Enrollments, Codes

VARIABLES
    deserved,   \* enrolments that reached 'approved' some time
    issued,     \* codes of each enrolment that exist
    valid       \* codes of each enrolment that answer "valid"

registryVars == <<deserved, issued, valid>>

RegistryInit ==
    /\ deserved = {}
    /\ issued = [e \in Enrollments |-> {}]
    /\ valid = [e \in Enrollments |-> {}]

Deserve(e) ==
    /\ deserved' = deserved \cup {e}
    /\ UNCHANGED <<issued, valid>>

(* A new code, for a student who deserves it and has no valid one.         *)
Issue(e, n) ==
    /\ e \in deserved
    /\ valid[e] = {}
    /\ n \notin issued[e]
    /\ issued' = [issued EXCEPT ![e] = @ \cup {n}]
    /\ valid' = [valid EXCEPT ![e] = {n}]
    /\ UNCHANGED deserved

(* A revoked code keeps answering, and never becomes valid again.          *)
Revoke(e, n) ==
    /\ n \in valid[e]
    /\ valid' = [valid EXCEPT ![e] = @ \ {n}]
    /\ UNCHANGED <<deserved, issued>>

RegistryNext ==
    \E e \in Enrollments :
        Deserve(e) \/ \E n \in Codes : Issue(e, n) \/ Revoke(e, n)

RegistrySpec == RegistryInit /\ [][RegistryNext]_registryVars
=============================================================================
