-------------------------- MODULE MainChainLedger --------------------------
(* The main chain implements the abstract ledger.                               *)
EXTENDS MainChain

(* the number up to which the main-block index counts: CommitMain has written an   *)
(* entry before MoveMainTail moves MainTail                                      *)
MainSoFar == IF conf.step = "tail" THEN conf.number ELSE mainTail.number

Abstract == INSTANCE AbstractLedger WITH main <- [i \in 1 .. MainSoFar + 1 |-> mainBlock[i - 1]]

(* Seen through the main-block index, every step of Confirm adds one main block to a  *)
(* prefix of the chain, and lets only blocks take effect that were not settled in the  *)
(* state of the block below, whatever was rolled back before (main_chain.go:469-571).  *)
ImplementsLedger == Abstract!Spec
=============================================================================
