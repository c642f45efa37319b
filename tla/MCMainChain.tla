----------------------------- MODULE MCMainChain -----------------------------
(* Small instances of MainChain. A block's hash is a string, its content is   *)
(* the record field of that name.                                             *)
EXTENDS MainChainLedger, TLC

(* Two branches over three slices above the genesis block g. a and x are in   *)
(* slice 1. In slice 2, b and c lead their branches, d follows b without      *)
(* replacing it. In slice 3, e extends the branch of b through d, the heavier *)
(* f the branch of c, so that Tail can move to f after b was confirmed.       *)
ForkBlocks == {"g", "a", "x", "b", "c", "d", "e", "f"}
ForkLinks == [g |-> << >>, a |-> <<"g">>, x |-> <<"g">>, b |-> <<"a", "x">>,
              c |-> <<"x">>, d |-> <<"b">>, e |-> <<"d">>, f |-> <<"c">>]
ForkSlice == [g |-> 0, a |-> 1, x |-> 1, b |-> 2, c |-> 2, d |-> 2, e |-> 3, f |-> 3]
ForkTime  == [g |-> 0, a |-> 10, x |-> 11, b |-> 21, c |-> 21, d |-> 22, e |-> 30,
              f |-> 31]
ForkDiff  == [g |-> 1, a |-> 2, x |-> 1, b |-> 1, c |-> 1, d |-> 1, e |-> 1, f |-> 4]

(* Three transfers out of one account that holds 4: b and f spend 2, c 3.     *)
ForkAmount == [g |-> 0, a |-> 0, x |-> 0, b |-> 2, c |-> 3, d |-> 0, e |-> 0, f |-> 2]
ForkAccepts(b, S) == SumFunctionOnSet(ForkAmount, S) + ForkAmount[b] <= 4

(* One branch, crowded in slice 1: b leads it, d follows b, h links to both   *)
(* and replaces b; in slice 2, e reaches b through d. With MinerWork, b is a  *)
(* miner block: its difficulty is taken without the signature and differs     *)
(* from the work of its hash, taken with it.                                  *)
SliceBlocks == {"g", "b", "d", "h", "e"}
SliceLinks == [g |-> << >>, b |-> <<"g">>, d |-> <<"b", "g">>, h |-> <<"b", "d">>,
               e |-> <<"d">>]
SliceSlice == [g |-> 0, b |-> 1, d |-> 1, h |-> 1, e |-> 2]
SliceTime  == [g |-> 0, b |-> 10, d |-> 11, h |-> 12, e |-> 20]
SliceDiff  == [g |-> 1, b |-> 2, d |-> 1, h |-> 4, e |-> 1]
MinerWork  == [SliceDiff EXCEPT !["b"] = 1]
SliceAccepts(b, S) == TRUE
WorkerSymmetry == Permutations(Workers)
==============================================================================
