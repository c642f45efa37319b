----------------------------- MODULE MCAccounts ------------------------------
(* Small instances of Accounts: gas and prices of a few units, so that fees,   *)
(* shares and balances meet at their roundings and limits.                      *)
EXTENDS Accounts, TLC

(* m reaches a twice, through x and y; n is a second main block above m *)
DagBlocks == {"g", "a", "x", "y", "m", "n"}
DagLinks == [g |-> << >>, a |-> <<"g">>, x |-> <<"a">>, y |-> <<"a", "g">>,
             m |-> <<"x", "y">>, n |-> <<"m">>]

DagAlloc == [u |-> 16, v |-> 3, w |-> 0]

Out(to, amount) == [to |-> to, amount |-> amount]
Content(kind, from, outs, limit, price) ==
  [kind |-> kind, from |-> from, outs |-> outs, limit |-> limit, price |-> price]

(* miner blocks of a poor and of a rich sender, transfers with one and two        *)
(* outputs, one with a gas limit below what it uses, a call without a value        *)
PlainBodies ==
  {Content("miner", "v", << >>, 4, 3),
   Content("miner", "w", << >>, 2, 4),
   Content("tx", "u", <<Out("v", 6)>>, 3, 7),
   Content("tx", "v", <<Out("u", 1), Out("w", 2)>>, 1, 1),
   Content("contract", "u", << >>, 2, 5)}

(* a contract call that carries a value *)
ValueBodies ==
  {Content("miner", "w", << >>, 2, 1),
   Content("contract", "u", <<Out("v", 16)>>, 2, 1)}
==============================================================================
