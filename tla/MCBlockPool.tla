----------------------------- MODULE MCBlockPool -----------------------------
(* Instances of BlockPool.                                                     *)
EXTENDS BlockPool, TLC

Msg(x, k) == [blk |-> x, kind |-> k]
WorkerSymmetry == Permutations(Workers)

(* a block and its parent, in either order *)
PairBlocks == {"g", "a", "b"}
PairLinks == [g |-> << >>, a |-> <<"g">>, b |-> <<"g", "a">>]
PairTime == [g |-> 0, a |-> 1, b |-> 3]
PairArrivals == {Msg("b", "sync"), Msg("a", "local")}

(* d and c wait for b, and d for c. c comes when announced and again when d asks  *)
(* for it. n was left by a crash without its MutableInfo, so c is given up when   *)
(* its turn comes, and d that waits for it is not released.                      *)
LayerBlocks == {"g", "b", "c", "d", "n"}
LayerLinks == [g |-> << >>, b |-> <<"g">>, c |-> <<"n", "b">>, d |-> <<"c", "b">>, n |-> <<"g">>]
LayerTime == [g |-> 0, b |-> 3, c |-> 5, d |-> 5, n |-> 1]
LayerArrivals == {Msg("c", "announce"), Msg("d", "local")}
==============================================================================
