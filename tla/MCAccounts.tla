----------------------------- MODULE MCAccounts -----------------------------
(* The administrator of the bootstrap and one more account, two requests,  *)
(* a token, and a session each: only then can one close, suspend or demote *)
(* the other's.                                                            *)
EXTENDS Accounts, TLC

CONSTANTS admin, u1, s1, s2, t1, c1, c2

MCUsers == {admin, u1}
OneUser == {u1}
TwoSessions == {s1, s2}
AnySession == [u \in MCUsers |-> TwoSessions]
OneSessionEach == [u \in MCUsers |-> IF u = admin THEN {s1} ELSE {s2}]
MCTokens == {t1}
MCRequests == {c1, c2}
RequestSymmetry == Permutations(MCRequests)
=============================================================================
