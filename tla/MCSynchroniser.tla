--------------------------- MODULE MCSynchroniser ---------------------------
(* Instances of Synchroniser.                                                  *)
EXTENDS Synchroniser

(* Own chain: genesis in slice 2 and one main block in slice 5. In the first      *)
(* instance the peer has that block on its own main chain, and the samples hit it   *)
(* while its MainTail has number 3 and pass over it once the number is 4; in the    *)
(* second the two chains share the genesis only.                                   *)
ShortOwn == [n \in 0 .. 1 |-> IF n = 0 THEN [hash |-> "g", slice |-> 2] ELSE [hash |-> "m", slice |-> 5]]
ForkedOwn == [n \in 0 .. 1 |-> IF n = 0 THEN ShortOwn[0] ELSE [hash |-> "w", slice |-> 5]]

(* The main chain of the peer reaches slice 9, then slice 10.                      *)
GrowingMain ==
  [p1 |-> [n \in 0 .. 4 |-> CASE n < 2 -> ShortOwn[n]
                              [] n = 2 -> [hash |-> "x", slice |-> 6]
                              [] n = 3 -> [hash |-> "y", slice |-> 9]
                              [] n = 4 -> [hash |-> "z", slice |-> 10]]]
ShortTail == [p1 |-> 9]

(* With two blocks to a batch, slices 6 and 7 are cut, or slice 6 alone.            *)
TwoCuts == [p1 |-> [s \in 2 .. 10 |-> CASE s \in {6, 7} -> 3 [] s \in {5, 9, 10} -> 1 [] OTHER -> 0]]
OneCut == [p1 |-> [s \in 2 .. 10 |-> CASE s = 6 -> 3 [] s = 9 -> 1 [] OTHER -> 0]]
=============================================================================
