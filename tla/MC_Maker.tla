------------------------------ MODULE MC_Maker ------------------------------
(* A post and a page that show the same image; for the uploads a second post,
   without one.                                                              *)
EXTENDS Maker

CONSTANTS a, b, p, image

OnePost == {a}
TwoPosts == {a, b}
OnePage == {p}
Shown == [f \in {a, b, p} |-> IF f = b THEN {} ELSE {image}]
=============================================================================
