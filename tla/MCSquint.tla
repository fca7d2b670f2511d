------------------------------- MODULE MCSquint -------------------------------
(* An instance of Squint whose selects list one communication, or two: on two *)
(* channels, both ways on one channel, or the same one twice.                 *)
EXTENDS Squint

CONSTANTS interp, p1, p2, p3, c, d

Symmetry == Permutations({p1, p2, p3})

Lists2 == {<<<<c, TRUE>>, <<d, TRUE>>>>, <<<<d, FALSE>>, <<c, FALSE>>>>,
           <<<<c, TRUE>>, <<d, FALSE>>>>, <<<<c, TRUE>>, <<c, FALSE>>>>,
           <<<<c, FALSE>>, <<c, FALSE>>>>}
MCLists == {<<<<x, s>>>> : x \in {c, d}, s \in BOOLEAN} \cup Lists2
=============================================================================
