------------------------------ MODULE MCListing ------------------------------
(* Small instances of CronListing for TLC. *)
EXTENDS CronListing

CONSTANTS c1, c2, c3, c4, u1, u2

\* All crons but one belong to the same user.
CronOwner == [c \in {c1, c2, c3, c4} |-> IF c = c4 THEN u2 ELSE u1]

\* A size below and one above the range, and the small ones.
AskedSizes == {-1, 1, 2, 5}
=============================================================================
