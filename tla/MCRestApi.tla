----------------------------- MODULE MCRestApi -----------------------------
(* RestApi with two uploads and a run or two of each. *)
EXTENDS RestApi

CONSTANTS u1, u2, r1, r2, r3

MCSubmissionOf == r1 :> u1 @@ r2 :> u1 @@ r3 :> u2
=============================================================================
