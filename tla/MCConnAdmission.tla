-------------------------- MODULE MCConnAdmission --------------------------
(* Three connections, two of them from one address; and two from one. *)
EXTENDS ConnAdmission
TwoAndOne == [c \in 1..3 |-> IF c = 3 THEN "b" ELSE "a"]
TwoSame == [c \in 1..2 |-> "a"]
=============================================================================
