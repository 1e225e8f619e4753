---------------------------- MODULE MCSubmissions ----------------------------
(***************************************************************************)
(* Submissions for TLC.  Requests with the same inputs are interchangeable, *)
(* and the invariants treat them alike.                                    *)
(***************************************************************************)
EXTENDS Submissions, TLC

RequestSymmetry == Permutations(Submissions)

=============================================================================
