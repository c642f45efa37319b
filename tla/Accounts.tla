------------------------------ MODULE Accounts ------------------------------
(***************************************************************************)
(* The accounts (sdag/mainchain/bestir.go): what confirming a main block     *)
(* does to the balances. singleBlockConfirm walks the blocks the main block   *)
(* reaches in post-order. Each pays a fee, of which a fifth is handed up to   *)
(* the sender of the block that links to it and the rest to the miner of the  *)
(* main block; the main block's miner gets a newly created reward on top.     *)
(*                                                                         *)
(* The walk and the StateDB belong to one goroutine, so an action is a turn   *)
(* of the recursion. MainChain decides which block is confirmed when, here     *)
(* any block that is not yet settled can be the next main block. The EVM is    *)
(* external: a contract call fails, or uses some gas of its pool and does or   *)
(* does not move its value; what contracts pay one another is left out.        *)
(***************************************************************************)
EXTENDS Integers, Sequences, FiniteSets, Functions

CONSTANTS
  Blocks,       \* hashes of the blocks
  Genesis,      \* settled from the start
  Links,        \* block.GetLinks()
  Addresses,    \* accounts
  Alloc,        \* balances of the genesis state
  Bodies,       \* what a block can hold, see Body
  TxGas,        \* params.TxGas
  MiningGasUsed, \* params.MiningGasUsed
  UserRate,     \* params.ConfirmUserRewardRate, in percent
  InitialReward, \* params.InitialRewardMiner in units of OneTos
  OneTos,       \* params.OneTos
  HalfLife,     \* params.HalfLifeRewardMiner
  WordSize,     \* values of a uint64: gas limits are converted to int64
  MaxMains      \* bound: main blocks

(* A block's content, as far as TxBlock.Validation lets it pass: a transfer   *)
(* pays positive amounts to others, a contract call has at most one output.    *)
Output == [to : Addresses, amount : Nat]
Body == [kind : {"miner", "tx", "contract"}, from : Addresses, outs : Seq(Output),
         limit : 1 .. WordSize - 1, price : Nat \ {0}]

ASSUME AccountsAssumption ==
  /\ Genesis \in Blocks
  /\ Links \in [Blocks -> Seq(Blocks)]
  /\ IsFiniteSet(Addresses) /\ Alloc \in [Addresses -> Nat]
  /\ \A c \in Bodies :
       /\ c \in Body
       /\ \A i \in DOMAIN c.outs : c.outs[i].to # c.from
       /\ c.kind = "tx" => /\ Len(c.outs) \in 1 .. 3
                           /\ \A i \in DOMAIN c.outs : c.outs[i].amount > 0
       /\ c.kind = "contract" => Len(c.outs) <= 1
  /\ TxGas \in Nat \ {0} /\ MiningGasUsed \in Nat \ {0}
  /\ UserRate \in 0 .. 100
  /\ InitialReward \in Nat /\ OneTos \in Nat \ {0} /\ HalfLife \in Nat \ {0}
  /\ WordSize \in Nat \ {0} /\ MaxMains \in Nat

(* a fact of arithmetic, for the provers, which do not know exponentiation *)
ASSUME PowerAssumption == \A n \in 0 .. MaxMains : 2 ^ (n \div HalfLife) \in Nat \ {0}

VARIABLES
  balance,  \* StateDB: balance of every account
  settled,  \* blocks with BlockConfirm or BlockMain
  number,   \* number of the last main block
  minted,   \* sum of the rewards created so far
  stack     \* recursion of singleBlockConfirm: block, next link, rewards collected

vars == <<balance, settled, number, minted, stack>>

(* slip: links counted from zero *)
FrameFromZero(b) == [blk |-> b, next |-> 0, user |-> 0, miner |-> 0]

Frame(b) == [blk |-> b, next |-> 1, user |-> 0, miner |-> 0]

Init ==
  /\ balance = Alloc
  /\ settled = {Genesis}
  /\ number = 0 /\ minted = 0
  /\ stack = << >>
------------------------------------------------------------------------------
(* Arithmetic of bestir.go *)

(* big.NewInt(int64(x)) *)
Signed(x) == IF 2 * x >= WordSize THEN x - WordSize ELSE x

ComputeTransactionCost(gas, price) == Signed(gas) * price

(* the gas that the balance can pay for, at most the limit *)
GasPool(c, bal) ==
  IF Signed(c.limit) * c.price > bal THEN bal \div c.price ELSE c.limit

(* what a block with fee user hands up *)
ComputeConfirmReward(user, miner) ==
  LET share == (user * UserRate) \div 100
  IN  [user |-> share, miner |-> miner + user - share]

RewardMiner(n) == (InitialReward \div 2 ^ (n \div HalfLife)) * OneTos
------------------------------------------------------------------------------
(* ExecutionTransaction: the possible outcomes for content c, balances bal and *)
(* gas pool pool, as the new balances and the gas that is charged              *)

(* MaxTransNum outputs at most *)
Amount(outs, i, to) ==
  IF i \in DOMAIN outs /\ outs[i].to \in to THEN outs[i].amount ELSE 0
Paid(outs, to) == Amount(outs, 1, to) + Amount(outs, 2, to) + Amount(outs, 3, to)

(* SubBalance of the sender and AddBalance of the receiver, output by output *)
Transfer(bal, c) ==
  [a \in Addresses |-> IF a = c.from THEN bal[a] - Paid(c.outs, Addresses)
                                     ELSE bal[a] + Paid(c.outs, {a})]

(* slip: the fee is not counted *)
CheckAmountOnly(bal, c, cost) == Paid(c.outs, Addresses) <= bal[c.from]

(* the balance covers the outputs and the fee; the amounts are positive, so     *)
(* no partial sum exceeds it either                                           *)
CheckTransactionAmount(bal, c, cost) == Paid(c.outs, Addresses) + cost <= bal[c.from]

(* a plain transfer: not made when the balance does not cover it, made even     *)
(* when it needs more gas than its limit, and charged in full in both cases     *)
PlainTransfer(c, bal, isMain) ==
  LET gas == IF isMain THEN 0 ELSE TxGas * Len(c.outs)
  IN  {[bal |-> IF CheckTransactionAmount(bal, c, ComputeTransactionCost(gas, c.price))
                THEN Transfer(bal, c) ELSE bal,
        gas |-> gas]}

(* a contract call or creation: an error (too little gas for the payload, not    *)
(* enough for the value) costs nothing, a failed one only its gas               *)
ApplyTransaction(c, bal, pool) ==
  {[bal |-> bal, gas |-> 0]}
    \cup {[bal |-> bal, gas |-> g] : g \in 0 .. pool}
    \cup {[bal |-> Transfer(bal, c), gas |-> g] :
            g \in IF Paid(c.outs, Addresses) <= bal[c.from] THEN 0 .. pool ELSE {}}

TransferAccounts(c, bal, pool, isMain) ==
  CASE c.kind = "tx"       -> PlainTransfer(c, bal, isMain)
    [] c.kind = "contract" -> ApplyTransaction(c, bal, pool)
    [] c.kind = "miner"    -> {[bal |-> bal, gas |-> MiningGasUsed]}

(* ... and the main block itself pays no fee *)
ExecutionTransaction(c, bal, pool, isMain) ==
  {IF isMain THEN [r EXCEPT !.gas = 0] ELSE r :
     r \in TransferAccounts(c, bal, pool, isMain)}

(* slip: the fee is returned in full, also when the balance was too small *)
DeductCostInFull(bal, from, before, cost) ==
  IF before < cost
  THEN [bal |-> [bal EXCEPT ![from] = 0], paid |-> cost]
  ELSE [bal |-> [bal EXCEPT ![from] = @ - cost], paid |-> cost]

(* deductCost looks at the balance before the execution, not at the present one *)
DeductCost(bal, from, before, cost) ==
  IF before < cost
  THEN [bal |-> [bal EXCEPT ![from] = 0], paid |-> before]
  ELSE [bal |-> [bal EXCEPT ![from] = @ - cost], paid |-> cost]

(* CalculatingAccounts: the outcomes of settling content c with confirmation     *)
(* reward user                                                                 *)
CalculatingAccounts(c, bal, user, isMain) ==
  LET start  == [bal EXCEPT ![c.from] = @ + user]
      before == start[c.from]
  IN  {DeductCost(r.bal, c.from, before, ComputeTransactionCost(r.gas, c.price)) :
         r \in ExecutionTransaction(c, start, GasPool(c, before), isMain)}
------------------------------------------------------------------------------
(* singleBlockConfirm and Confirm *)

Top == stack[Len(stack)]
Pop == SubSeq(stack, 1, Len(stack) - 1)

ConfirmMain(b) ==
  /\ stack = << >>
  /\ b \notin settled
  /\ number < MaxMains
  /\ number' = number + 1
  /\ stack' = <<Frame(b)>>
  /\ UNCHANGED <<balance, settled, minted>>

(* the next link of the block on top: settled ones are skipped *)
VisitLink ==
  /\ stack # << >>
  /\ Top.next <= Len(Links[Top.blk])
  /\ LET h    == Links[Top.blk][Top.next]
         rest == [stack EXCEPT ![Len(stack)].next = @ + 1]
     IN  stack' = IF h \in settled THEN rest ELSE Append(rest, Frame(h))
  /\ UNCHANGED <<balance, settled, number, minted>>

(* a block below the main block, all of whose links are settled: its share goes  *)
(* to the block that linked to it                                              *)
SettleBlock(c) ==
  /\ Len(stack) > 1
  /\ Top.next > Len(Links[Top.blk])
  /\ \E r \in CalculatingAccounts(c, balance, Top.user, FALSE) :
       LET up == ComputeConfirmReward(r.paid, Top.miner)
       IN  /\ balance' = r.bal
           /\ stack' = [Pop EXCEPT ![Len(Pop)].user = @ + up.user,
                                   ![Len(Pop)].miner = @ + up.miner]
  /\ settled' = settled \cup {Top.blk}
  /\ UNCHANGED <<number, minted>>

(* the main block itself: CalculatingMinerReward pays its sender what the walk    *)
(* collected and the reward for the number                                      *)
SettleMain(c) ==
  /\ Len(stack) = 1
  /\ Top.next > Len(Links[Top.blk])
  /\ \E r \in CalculatingAccounts(c, balance, Top.user, TRUE) :
       LET up == ComputeConfirmReward(r.paid, Top.miner)
       IN  balance' = [r.bal EXCEPT ![c.from] =
                         @ + up.user + up.miner + RewardMiner(number)]
  /\ minted' = minted + RewardMiner(number)
  /\ settled' = settled \cup {Top.blk}
  /\ stack' = << >>
  /\ UNCHANGED number

Next ==
  \/ \E b \in Blocks : ConfirmMain(b)
  \/ VisitLink
  \/ \E c \in Bodies : SettleBlock(c) \/ SettleMain(c)

Spec == Init /\ [][Next]_vars
------------------------------------------------------------------------------
(* Properties *)

(* Balances, rewards and the recursion keep their types; the walk returns to      *)
(* frames of blocks that are not settled yet.                                   *)
TypeOK ==
  /\ balance \in [Addresses -> Int]
  /\ settled \in SUBSET Blocks
  /\ number \in Nat /\ minted \in Nat
  /\ stack \in Seq([blk : Blocks, next : Nat \ {0}, user : Int, miner : Int])

(* fees taken from a sender and not yet given to anybody *)
InFlight ==
  SumFunction([i \in DOMAIN stack |-> stack[i].user + stack[i].miner])

(* No money is made or lost: at every point of the walk, the balances and the      *)
(* fees handed up make the genesis balances and the rewards of the main blocks,     *)
(* through every rounding of the shares (bestir.go:181) and every fee that a         *)
(* balance could not cover (bestir.go:155).                                       *)
Conserved == SumFunction(balance) + InFlight = SumFunction(Alloc) + minted

(* the conversion of gas to int64 loses nothing *)
GasFits ==
  /\ \A c \in Bodies : 2 * c.limit < WordSize
  /\ 2 * (3 * TxGas) < WordSize /\ 2 * MiningGasUsed < WordSize

(* ... and calls carry no value *)
PlainUse == GasFits /\ \A c \in Bodies : c.kind = "contract" => c.outs = << >>

(* No balance is negative: StateDB cannot encode a negative one and panics on       *)
(* "can't encode object at" (statedb.go:377) when the main block is committed.      *)
Solvent == \A a \in Addresses : balance[a] >= 0
==============================================================================
