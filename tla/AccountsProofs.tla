--------------------------- MODULE AccountsProofs ----------------------------
(***************************************************************************)
(* No balance becomes negative, for any graph, any contents and any amounts,  *)
(* as long as contract calls carry no value; and without that condition money   *)
(* is neither made nor lost.                                                    *)
(*                                                                         *)
(* For the first, the inductive invariant IInv says that balances and the       *)
(* rewards on the stack are natural numbers: a negative share handed up would   *)
(* be taken from the sender of the block above. For the second, TInv is         *)
(* TypeOK with the bound on the number of main blocks, and the step of a block  *)
(* rests on TransferCovered: what an execution takes from the balances is what   *)
(* it adds to them and what it collects.                                       *)
(***************************************************************************)
EXTENDS Accounts, Sums, SequenceTheorems, TLAPS

Bounded == number \in 0 .. MaxMains
Frames == [blk : Blocks, next : Nat \ {0}, user : Nat, miner : Nat]
Balances == [Addresses -> Nat]

IInv ==
  /\ balance \in Balances
  /\ settled \in SUBSET Blocks
  /\ Bounded /\ minted \in Nat
  /\ stack \in Seq(Frames)

------------------------------------------------------------------------------
(* What bestir.go's arithmetic returns *)

(* Outputs add up to a natural number. *)
LEMMA PaidNat ==
  ASSUME NEW c \in Bodies, NEW to
  PROVE  Paid(c.outs, to) \in Nat
<1>1. c.outs \in Seq(Output)
  BY AccountsAssumption DEF Body
<1>2. ASSUME NEW i \in DOMAIN c.outs PROVE c.outs[i].amount \in Nat
  <2>1. c.outs[i] \in Output
    BY <1>1
  <2>2. QED
    BY <2>1 DEF Output
<1>3. \A i \in 1 .. 3 : Amount(c.outs, i, to) \in Nat
  BY <1>2 DEF Amount
<1>4. QED
  BY <1>3 DEF Paid

(* A call without outputs pays nothing. *)
LEMMA NoOutsNoPay ==
  ASSUME NEW c, c.outs = << >>, NEW to
  PROVE  Paid(c.outs, to) = 0
<1>1. DOMAIN c.outs = {}
  OBVIOUS
<1>2. QED
  BY <1>1 DEF Paid, Amount

(* The conversion to int64 does not change the gas of an execution, so that a    *)
(* cost is a natural number.                                                   *)
LEMMA CostNat ==
  ASSUME NEW gas \in Nat, 2 * gas < WordSize, NEW price \in Nat \ {0}
  PROVE  /\ ComputeTransactionCost(gas, price) \in Nat
         /\ ComputeTransactionCost(gas, price) = gas * price
<1>1. Signed(gas) = gas
  BY AccountsAssumption DEF Signed
<1>2. gas * price \in Nat
  OBVIOUS
<1>3. QED
  BY <1>1, <1>2 DEF ComputeTransactionCost

(* The gas pool is within the limit and the balance pays for it. *)
LEMMA PoolPaid ==
  ASSUME GasFits, NEW c \in Bodies, NEW bal \in Nat
  PROVE  /\ GasPool(c, bal) \in Nat
         /\ 2 * GasPool(c, bal) < WordSize
         /\ GasPool(c, bal) * c.price <= bal
<1>1. c.limit \in Nat /\ c.price \in Nat \ {0} /\ 2 * c.limit < WordSize
  BY AccountsAssumption DEF Body, GasFits
<1>2. Signed(c.limit) = c.limit
  BY <1>1, AccountsAssumption DEF Signed
<1>3. CASE c.limit * c.price > bal
  <2>1. GasPool(c, bal) = bal \div c.price
    BY <1>2, <1>3 DEF GasPool
  <2>2. PICK q \in Nat, p \in Nat \ {0} : q = bal \div c.price /\ p = c.price
    BY <1>1
  <2>3. q * p <= bal
    BY <2>2
  <2>4. q < c.limit
    BY <1>1, <1>3, <2>2, <2>3
  <2>5. QED
    BY <1>1, <2>1, <2>2, <2>3, <2>4, AccountsAssumption
<1>4. CASE ~(c.limit * c.price > bal)
  <2>1. GasPool(c, bal) = c.limit
    BY <1>2, <1>4 DEF GasPool
  <2>2. c.limit * c.price \in Int
    BY <1>1
  <2>3. QED
    BY <1>1, <1>4, <2>1, <2>2
<1>5. QED
  BY <1>3, <1>4

(* A transfer leaves natural balances when the sender can pay for it. *)
LEMMA TransferNat ==
  ASSUME NEW c \in Bodies, NEW bal \in Balances,
         Paid(c.outs, Addresses) <= bal[c.from]
  PROVE  /\ Transfer(bal, c) \in Balances
         /\ Transfer(bal, c)[c.from] = bal[c.from] - Paid(c.outs, Addresses)
<1>1. c.from \in Addresses
  BY AccountsAssumption DEF Body
<1>2. Paid(c.outs, Addresses) \in Nat /\ \A a : Paid(c.outs, {a}) \in Nat
  BY PaidNat
<1>3. ASSUME NEW a \in Addresses
      PROVE  (IF a = c.from THEN bal[a] - Paid(c.outs, Addresses)
                            ELSE bal[a] + Paid(c.outs, {a})) \in Nat
  <2>1. bal[a] \in Nat
    BY DEF Balances
  <2>2. CASE a = c.from
    BY <1>2, <2>1, <2>2
  <2>3. CASE a # c.from
    <3>1. Paid(c.outs, {a}) \in Nat
      BY <1>2
    <3>2. bal[a] + Paid(c.outs, {a}) \in Nat
      BY <2>1, <3>1
    <3>3. QED
      BY <2>3, <3>2
  <2>4. QED
    BY <2>2, <2>3
<1>4. Transfer(bal, c) \in Balances
  BY <1>3, Zenon DEF Transfer, Balances
<1>5. QED
  BY <1>1, <1>4 DEF Transfer

(* What TransferAccounts returns: natural balances, and a cost that the sender    *)
(* can still pay after the execution if it could before.                        *)
Charged(c, bal, r) ==
  LET cost == ComputeTransactionCost(r.gas, c.price)
  IN  /\ r.bal \in Balances
      /\ cost \in Nat
      /\ cost <= bal[c.from] => cost <= r.bal[c.from]

LEMMA TransferAccountsCharged ==
  ASSUME PlainUse, NEW c \in Bodies, NEW bal \in Balances, NEW isMain \in BOOLEAN,
         NEW r \in TransferAccounts(c, bal, GasPool(c, bal[c.from]), isMain)
  PROVE  Charged(c, bal, r)
<1> DEFINE pool == GasPool(c, bal[c.from])
<1>1. /\ c.from \in Addresses /\ c.price \in Nat \ {0}
      /\ c.kind \in {"miner", "tx", "contract"}
  BY AccountsAssumption DEF Body
<1>2. bal[c.from] \in Nat
  BY <1>1 DEF Balances
<1>3. CASE c.kind = "tx"
  <2> DEFINE gas == IF isMain THEN 0 ELSE TxGas * Len(c.outs)
             cost == ComputeTransactionCost(gas, c.price)
  <2>1. Len(c.outs) \in 1 .. 3
    BY <1>3, AccountsAssumption
  <2>2. gas \in Nat /\ 2 * gas < WordSize
    <3>1. TxGas \in Nat /\ 2 * (3 * TxGas) < WordSize /\ WordSize \in Nat \ {0}
      BY AccountsAssumption DEF PlainUse, GasFits
    <3>2. Len(c.outs) = 1 \/ Len(c.outs) = 2 \/ Len(c.outs) = 3
      BY <2>1
    <3>3. TxGas * Len(c.outs) \in Nat /\ 2 * (TxGas * Len(c.outs)) < WordSize
      <4>1. PICK l \in {1, 2, 3} : l = Len(c.outs)
        BY <3>2
      <4>2. TxGas * l \in Nat /\ 2 * (TxGas * l) < WordSize
        BY <3>1
      <4>3. QED
        BY <4>1, <4>2
    <3>4. QED
      BY <3>1, <3>3
  <2>3. cost \in Nat
    BY <1>1, <2>2, CostNat
  <2>4. r = [bal |-> IF CheckTransactionAmount(bal, c, cost) THEN Transfer(bal, c) ELSE bal,
             gas |-> gas]
    BY <1>3 DEF TransferAccounts, PlainTransfer
  <2>5. CASE CheckTransactionAmount(bal, c, cost)
    <3>1. Paid(c.outs, Addresses) \in Nat
      BY PaidNat
    <3>2. Paid(c.outs, Addresses) + cost <= bal[c.from]
      BY <2>5 DEF CheckTransactionAmount
    <3>3. Paid(c.outs, Addresses) <= bal[c.from]
      BY <1>2, <2>3, <3>1, <3>2
    <3>4. r.bal \in Balances /\ r.bal[c.from] = bal[c.from] - Paid(c.outs, Addresses)
      BY <2>4, <2>5, <3>3, TransferNat
    <3>5. r.gas = gas
      BY <2>4
    <3>6. cost <= r.bal[c.from]
      BY <1>2, <2>3, <3>1, <3>2, <3>4
    <3>7. QED
      BY <2>3, <3>4, <3>5, <3>6 DEF Charged
  <2>6. CASE ~CheckTransactionAmount(bal, c, cost)
    <3>1. r.bal = bal /\ r.gas = gas
      BY <2>4, <2>6
    <3>2. QED
      BY <2>3, <3>1 DEF Charged
  <2>7. QED
    BY <2>5, <2>6
<1>4. CASE c.kind = "contract"
  <2>1. c.outs = << >>
    BY <1>4 DEF PlainUse
  <2>2. Paid(c.outs, Addresses) = 0 /\ \A a : Paid(c.outs, {a}) = 0
    BY <2>1, NoOutsNoPay
  <2>3. Transfer(bal, c) = bal
    <3>1. ASSUME NEW a \in Addresses
          PROVE  (IF a = c.from THEN bal[a] - Paid(c.outs, Addresses)
                                ELSE bal[a] + Paid(c.outs, {a})) = bal[a]
      <4>1. bal[a] \in Nat /\ Paid(c.outs, {a}) = 0
        BY <2>2 DEF Balances
      <4>2. bal[a] - 0 = bal[a] /\ bal[a] + 0 = bal[a]
        BY <4>1
      <4>3. QED
        BY <2>2, <4>1, <4>2
    <3>2. Transfer(bal, c) = [a \in Addresses |-> bal[a]]
      BY <3>1, Zenon DEF Transfer
    <3>3. QED
      BY <3>2 DEF Balances
  <2>4. pool \in Nat /\ 2 * pool < WordSize
    BY <1>2, PoolPaid DEF PlainUse
  <2>5. r.bal = bal /\ r.gas \in 0 .. pool
    BY <1>4, <2>3, <2>4 DEF TransferAccounts, ApplyTransaction
  <2>6. r.gas \in Nat /\ 2 * r.gas < WordSize
    BY <2>4, <2>5, AccountsAssumption
  <2>7. ComputeTransactionCost(r.gas, c.price) \in Nat
    BY <1>1, <2>6, CostNat
  <2>8. QED
    BY <2>5, <2>7 DEF Charged
<1>5. CASE c.kind = "miner"
  <2>1. r.bal = bal /\ r.gas = MiningGasUsed
    BY <1>5 DEF TransferAccounts
  <2>2. ComputeTransactionCost(r.gas, c.price) \in Nat
    BY <1>1, <2>1, CostNat, AccountsAssumption DEF PlainUse, GasFits
  <2>3. QED
    BY <2>1, <2>2 DEF Charged
<1>6. QED
  BY <1>1, <1>3, <1>4, <1>5

(* Settling a block leaves natural balances and collects a natural fee. *)
LEMMA SettledNat ==
  ASSUME PlainUse, NEW c \in Bodies, NEW bal \in Balances, NEW user \in Nat,
         NEW isMain \in BOOLEAN, NEW s \in CalculatingAccounts(c, bal, user, isMain)
  PROVE  s.bal \in Balances /\ s.paid \in Nat
<1> DEFINE start == [bal EXCEPT ![c.from] = @ + user]
           before == start[c.from]
           pool == GasPool(c, before)
<1>1. c.from \in Addresses /\ c.price \in Nat \ {0}
  BY AccountsAssumption DEF Body
<1>2. start \in Balances /\ before \in Nat
  BY <1>1 DEF Balances
<1>3. PICK x \in ExecutionTransaction(c, start, pool, isMain) :
        s = DeductCost(x.bal, c.from, before, ComputeTransactionCost(x.gas, c.price))
  BY DEF CalculatingAccounts
<1>4. PICK r \in TransferAccounts(c, start, pool, isMain) :
        x = IF isMain THEN [r EXCEPT !.gas = 0] ELSE r
  BY <1>3 DEF ExecutionTransaction
<1>5. Charged(c, start, r)
  BY <1>2, <1>4, TransferAccountsCharged
<1>6. Charged(c, start, x)
  <2>1. CASE isMain
    <3>1. x.bal = r.bal /\ x.gas = 0
      BY <1>4, <2>1, <1>5 DEF TransferAccounts, PlainTransfer, ApplyTransaction
    <3>2. ComputeTransactionCost(0, c.price) = 0
      BY <1>1, CostNat, AccountsAssumption
    <3>3. r.bal[c.from] \in Nat
      BY <1>1, <1>5 DEF Charged, Balances
    <3>4. QED
      BY <1>5, <3>1, <3>2, <3>3 DEF Charged
  <2>2. QED
    BY <1>4, <1>5, <2>1
<1> DEFINE cost == ComputeTransactionCost(x.gas, c.price)
<1>7. /\ x.bal \in Balances /\ cost \in Nat /\ x.bal[c.from] \in Nat
      /\ cost <= before => cost <= x.bal[c.from]
  BY <1>1, <1>6 DEF Charged, Balances
<1>8. CASE before < cost
  <2>1. s = [bal |-> [x.bal EXCEPT ![c.from] = 0], paid |-> before]
    BY <1>3, <1>8 DEF DeductCost
  <2>2. QED
    BY <1>2, <1>7, <2>1 DEF Balances
<1>9. CASE ~(before < cost)
  <2>1. s = [bal |-> [x.bal EXCEPT ![c.from] = @ - cost], paid |-> cost]
    BY <1>3, <1>9 DEF DeductCost
  <2>2. x.bal[c.from] - cost \in Nat
    BY <1>2, <1>7, <1>9
  <2>3. QED
    BY <1>7, <2>1, <2>2 DEF Balances
<1>10. QED
  BY <1>8, <1>9

(* The shares of a fee are natural numbers. *)
LEMMA SharesNat ==
  ASSUME NEW user \in Nat, NEW miner \in Nat
  PROVE  /\ ComputeConfirmReward(user, miner).user \in Nat
         /\ ComputeConfirmReward(user, miner).miner \in Nat
<1>1. UserRate \in 0 .. 100
  BY AccountsAssumption
<1>2. user * UserRate \in Nat /\ user * UserRate <= user * 100
  BY <1>1
<1>3. (user * UserRate) \div 100 \in Nat /\ (user * UserRate) \div 100 <= user
  BY <1>2
<1>4. QED
  BY <1>3 DEF ComputeConfirmReward

LEMMA RewardNat ==
  ASSUME NEW n \in 0 .. MaxMains
  PROVE  RewardMiner(n) \in Nat
<1>1. 2 ^ (n \div HalfLife) \in Nat \ {0}
  BY PowerAssumption
<1>2. ASSUME NEW d \in Nat \ {0} PROVE InitialReward \div d \in Nat
  <2>1. InitialReward \in Nat
    BY AccountsAssumption
  <2>2. QED
    BY <2>1
<1>3. QED
  <2>1. InitialReward \div (2 ^ (n \div HalfLife)) \in Nat
    BY <1>1, <1>2, Zenon
  <2>2. QED
    BY <2>1, AccountsAssumption DEF RewardMiner

------------------------------------------------------------------------------
(* The invariant *)

LEMMA InitIInv == Init => IInv
<1> SUFFICES ASSUME Init PROVE IInv
  OBVIOUS
<1>1. balance \in Balances
  BY AccountsAssumption DEF Init, Balances
<1>2. settled \in SUBSET Blocks /\ Bounded /\ minted \in Nat
  BY AccountsAssumption DEF Init, Bounded
<1>3. stack \in Seq(Frames)
  BY DEF Init
<1>4. QED
  BY <1>1, <1>2, <1>3 DEF IInv

LEMMA NextIInv == PlainUse /\ IInv /\ [Next]_vars => IInv'
<1> SUFFICES ASSUME PlainUse, IInv, [Next]_vars PROVE IInv'
  OBVIOUS
<1>0. /\ balance \in Balances /\ settled \in SUBSET Blocks /\ number \in 0 .. MaxMains
      /\ minted \in Nat /\ stack \in Seq(Frames) /\ MaxMains \in Nat
      /\ Links \in [Blocks -> Seq(Blocks)]
  BY AccountsAssumption DEF IInv, Bounded
<1>1. ASSUME stack # << >> PROVE Len(stack) \in Nat \ {0} /\ Top \in Frames
  BY <1>0, <1>1 DEF Top
<1>2. ASSUME NEW b \in Blocks, ConfirmMain(b) PROVE IInv'
  <2>1. number' \in 0 .. MaxMains
    BY <1>0, <1>2 DEF ConfirmMain
  <2>2. Frame(b) \in Frames
    BY DEF Frame, Frames
  <2>3. stack' \in Seq(Frames)
    BY <1>2, <2>2 DEF ConfirmMain
  <2>4. QED
    BY <1>0, <1>2, <2>1, <2>3 DEF IInv, Bounded, ConfirmMain
<1>3. CASE VisitLink
  <2>1. stack # << >> /\ Top.next <= Len(Links[Top.blk])
    BY <1>3 DEF VisitLink
  <2>2. Len(stack) \in Nat \ {0} /\ Top \in Frames
    BY <1>1, <2>1
  <2> DEFINE h == Links[Top.blk][Top.next]
             rest == [stack EXCEPT ![Len(stack)].next = @ + 1]
  <2>3. h \in Blocks
    BY <1>0, <2>1, <2>2 DEF Frames
  <2>4. Frame(h) \in Frames
    BY <2>3 DEF Frame, Frames
  <2>5. rest \in Seq(Frames)
    <3>1. [stack[Len(stack)] EXCEPT !.next = @ + 1] \in Frames
      BY <2>2 DEF Top, Frames
    <3>2. QED
      BY <1>0, <2>2, <3>1
  <2>6. stack' \in Seq(Frames)
    BY <1>3, <2>4, <2>5 DEF VisitLink
  <2>7. QED
    BY <1>0, <1>3, <2>6 DEF IInv, Bounded, VisitLink
<1>4. ASSUME NEW c \in Bodies, SettleBlock(c) PROVE IInv'
  <2>1. Len(stack) > 1 /\ stack # << >>
    BY <1>4 DEF SettleBlock
  <2>2. Len(stack) \in Nat \ {0} /\ Top \in Frames
    BY <1>1, <2>1
  <2>3. Top.user \in Nat /\ Top.miner \in Nat /\ Top.blk \in Blocks
    BY <2>2 DEF Frames
  <2>4. PICK r \in CalculatingAccounts(c, balance, Top.user, FALSE) :
          LET up == ComputeConfirmReward(r.paid, Top.miner)
          IN  /\ balance' = r.bal
              /\ stack' = [Pop EXCEPT ![Len(Pop)].user = @ + up.user,
                                      ![Len(Pop)].miner = @ + up.miner]
    BY <1>4 DEF SettleBlock
  <2>5. r.bal \in Balances /\ r.paid \in Nat
    BY <1>0, <2>3, SettledNat
  <2> DEFINE up == ComputeConfirmReward(r.paid, Top.miner)
  <2>6. up.user \in Nat /\ up.miner \in Nat
    BY <2>3, <2>5, SharesNat
  <2>7. Pop \in Seq(Frames) /\ Len(Pop) = Len(stack) - 1 /\ Len(Pop) \in Nat \ {0}
    <3>1. Len(stack) - 1 \in 1 .. Len(stack)
      BY <2>1, <2>2
    <3>2. \A i \in 1 .. Len(stack) - 1 : stack[i] \in Frames
      BY <1>0, <2>2
    <3>3. SubSeq(stack, 1, Len(stack) - 1) \in Seq(Frames)
      BY <1>0, <2>2, <3>1, SubSeqProperties
    <3>4. Len(SubSeq(stack, 1, Len(stack) - 1)) = Len(stack) - 1
      BY <1>0, <2>2, <3>1, SubSeqProperties
    <3>5. QED
      BY <3>1, <3>3, <3>4, <2>2 DEF Pop
  <2>8. stack' \in Seq(Frames)
    <3> DEFINE p == Pop
               n == Len(p)
               one == [p EXCEPT ![n].user = @ + up.user]
               two == [one EXCEPT ![n].miner = @ + up.miner]
    <3>1. p[n] \in Frames
      BY <2>7
    <3>2. one \in Seq(Frames) /\ Len(one) = n
      <4>1. [p[n] EXCEPT !.user = @ + up.user] \in Frames
        BY <2>6, <3>1 DEF Frames
      <4> HIDE DEF p, up
      <4>2. QED
        BY <2>7, <4>1 DEF p
    <3>3. two \in Seq(Frames)
      <4>1. one[n] \in Frames
        BY <2>7, <3>2
      <4>2. [one[n] EXCEPT !.miner = @ + up.miner] \in Frames
        BY <2>6, <4>1 DEF Frames
      <4> HIDE DEF one, up
      <4>3. QED
        BY <2>7, <3>2, <4>2
    <3>4. stack' = two
      BY <2>4
    <3>5. QED
      BY <3>3, <3>4
  <2>9. settled' \in SUBSET Blocks
    BY <1>0, <1>4, <2>3 DEF SettleBlock
  <2>10. QED
    BY <1>0, <1>4, <2>4, <2>5, <2>8, <2>9 DEF IInv, Bounded, SettleBlock
<1>5. ASSUME NEW c \in Bodies, SettleMain(c) PROVE IInv'
  <2>1. stack # << >>
    BY <1>5 DEF SettleMain
  <2>2. Top \in Frames
    BY <1>1, <2>1
  <2>3. Top.user \in Nat /\ Top.miner \in Nat /\ Top.blk \in Blocks
    BY <2>2 DEF Frames
  <2>4. PICK r \in CalculatingAccounts(c, balance, Top.user, TRUE) :
          LET up == ComputeConfirmReward(r.paid, Top.miner)
          IN  balance' = [r.bal EXCEPT ![c.from] =
                            @ + up.user + up.miner + RewardMiner(number)]
    BY <1>5 DEF SettleMain
  <2>5. r.bal \in Balances /\ r.paid \in Nat
    BY <1>0, <2>3, SettledNat
  <2>6. /\ ComputeConfirmReward(r.paid, Top.miner).user \in Nat
        /\ ComputeConfirmReward(r.paid, Top.miner).miner \in Nat
    BY <2>3, <2>5, SharesNat
  <2>7. RewardMiner(number) \in Nat
    BY <1>0, RewardNat
  <2>8. balance' \in Balances
    <3> DEFINE up == ComputeConfirmReward(r.paid, Top.miner)
    <3>1. c.from \in Addresses
      BY AccountsAssumption DEF Body
    <3>2. r.bal[c.from] \in Nat
      BY <2>5, <3>1 DEF Balances
    <3>3. r.bal[c.from] + up.user + up.miner + RewardMiner(number) \in Nat
      BY <2>6, <2>7, <3>2
    <3>4. balance' = [r.bal EXCEPT ![c.from] =
                        r.bal[c.from] + up.user + up.miner + RewardMiner(number)]
      BY <2>4
    <3>5. QED
      BY <2>5, <3>3, <3>4 DEF Balances
  <2>9. minted' \in Nat /\ settled' \in SUBSET Blocks /\ stack' \in Seq(Frames)
    BY <1>0, <1>5, <2>3, <2>7 DEF SettleMain
  <2>10. QED
    BY <1>0, <1>5, <2>8, <2>9 DEF IInv, Bounded, SettleMain
<1>6. CASE UNCHANGED vars
  BY <1>0, <1>6 DEF IInv, Bounded, vars
<1>7. QED
  BY <1>2, <1>3, <1>4, <1>5, <1>6 DEF Next

(* Without value-carrying calls, no balance is ever negative, whatever the graph,  *)
(* the contents, the fees and the allocation of the genesis block: a fee is never   *)
(* taken from more than what the sender has left (bestir.go:155).                 *)
THEOREM SolventHolds == PlainUse => (Spec => []Solvent)
<1>1. PlainUse /\ Init => IInv
  BY InitIInv
<1>2. PlainUse /\ IInv /\ [Next]_vars => IInv'
  BY NextIInv
<1>3. IInv => Solvent
  BY DEF IInv, Balances, Solvent
<1>4. PlainUse => (Spec => []IInv)
  <2> SUFFICES ASSUME PlainUse PROVE Spec => []IInv
    OBVIOUS
  <2>1. Init => IInv
    BY <1>1
  <2>2. IInv /\ [Next]_vars => IInv'
    BY <1>2
  <2>3. QED
    BY <2>1, <2>2, PTL DEF Spec
<1>5. QED
  BY <1>3, <1>4, PTL
------------------------------------------------------------------------------
(* No money is made or lost: what the operations do to the sum of the balances   *)

Accts == [Addresses -> Int]
Total(bal) == Sum(bal, Addresses)

(* gas limits of contract calls survive the conversion to int64 *)
CallLimitsFit == \A c \in Bodies : c.kind = "contract" => 2 * c.limit < WordSize

(* Outputs add up, and an output is paid in whole to one account. *)
LEMMA OutputTyped ==
  ASSUME NEW c \in Bodies, NEW i \in DOMAIN c.outs
  PROVE  c.outs[i].amount \in Nat /\ c.outs[i].to \in Addresses \ {c.from}
<1>1. c.outs \in Seq(Output) /\ c.outs[i].to # c.from
  BY AccountsAssumption DEF Body
<1>2. c.outs[i] \in Output
  BY <1>1
<1>3. QED
  BY <1>1, <1>2 DEF Output

LEMMA AmountNat ==
  ASSUME NEW c \in Bodies, NEW i, NEW to
  PROVE  Amount(c.outs, i, to) \in Nat
BY OutputTyped DEF Amount

(* g is f after output i of c *)
PaysOutput(c, i, f, g) ==
  \A a \in Addresses : g[a] = IF a = c.from THEN f[a] - Amount(c.outs, i, Addresses)
                                            ELSE f[a] + Amount(c.outs, i, {a})

LEMMA OutputConserves ==
  ASSUME NEW c \in Bodies, NEW f \in Accts, NEW g \in Accts, NEW i, PaysOutput(c, i, f, g)
  PROVE  Total(g) = Total(f)
<1>0. \A a \in Addresses : g[a] = IF a = c.from THEN f[a] - Amount(c.outs, i, Addresses)
                                                ELSE f[a] + Amount(c.outs, i, {a})
  BY DEF PaysOutput
<1>1. IsFiniteSet(Addresses) /\ c.from \in Addresses
  BY AccountsAssumption DEF Body
<1>2. \A a \in Addresses : f[a] \in Int /\ g[a] \in Int
  BY DEF Accts
<1>3. CASE i \notin DOMAIN c.outs
  <2>1. \A a \in Addresses : g[a] = f[a]
    BY <1>0, <1>2, <1>3 DEF Amount
  <2>2. QED
    BY <1>1, <2>1, SumEqual DEF Total
<1>4. CASE i \in DOMAIN c.outs
  <2> DEFINE t == c.outs[i].to
             m == c.outs[i].amount
             mid == [f EXCEPT ![c.from] = @ - m]
  <2>1. m \in Nat /\ t \in Addresses /\ t # c.from
    BY <1>4, OutputTyped
  <2>2. /\ Amount(c.outs, i, Addresses) = m
        /\ \A a : Amount(c.outs, i, {a}) = IF a = t THEN m ELSE 0
    BY <1>4, <2>1 DEF Amount
  <2> HIDE DEF t, m
  <2>3. mid \in Accts /\ \A a \in Addresses : mid[a] = IF a = c.from THEN f[a] - m ELSE f[a]
    BY <1>1, <1>2, <2>1 DEF Accts
  <2>4. \A a \in Addresses : mid[a] \in Int
    BY <2>3 DEF Accts
  <2> HIDE DEF mid
  <2>5. Total(mid) = Total(f) + (mid[c.from] - f[c.from])
    BY <1>1, <1>2, <2>3, <2>4, SumUpdate DEF Total
  <2>6. Total(g) = Total(mid) + (g[t] - mid[t])
    <3>1. ASSUME NEW a \in Addresses \ {t} PROVE g[a] = mid[a]
      <4>1. g[a] = IF a = c.from THEN f[a] - m ELSE f[a] + Amount(c.outs, i, {a})
        BY <1>0, <2>2
      <4>2. Amount(c.outs, i, {a}) = 0
        BY <2>2
      <4>3. QED
        BY <1>2, <2>3, <4>1, <4>2
    <3>2. QED
      BY <1>1, <1>2, <2>1, <2>4, <3>1, SumUpdate DEF Total
  <2>7. Total(f) \in Int
    BY <1>1, <1>2, SumTyped DEF Total
  <2>8. mid[c.from] - f[c.from] = 0 - m /\ g[t] - mid[t] = m
    <3>1. Amount(c.outs, i, {t}) = m
      BY <2>2
    <3>2. g[t] = f[t] + m
      BY <1>0, <2>1, <3>1
    <3>3. QED
      BY <1>1, <1>2, <2>1, <2>3, <3>2
  <2>9. QED
    BY <2>1, <2>5, <2>6, <2>7, <2>8
<1>5. QED
  BY <1>3, <1>4

(* A transfer conserves the sum and keeps integers, whatever the sender has. *)
LEMMA TransferConserves ==
  ASSUME NEW c \in Bodies, NEW bal \in Accts
  PROVE  /\ Transfer(bal, c) \in Accts
         /\ Total(Transfer(bal, c)) = Total(bal)
<1> DEFINE A(i, to) == Amount(c.outs, i, to)
           step(f, i) == [a \in Addresses |-> IF a = c.from THEN f[a] - A(i, Addresses)
                                                            ELSE f[a] + A(i, {a})]
<1>1. \A i, to : A(i, to) \in Nat
  BY AmountNat
<1> HIDE DEF A
<1>2. ASSUME NEW f \in Accts, NEW i PROVE step(f, i) \in Accts
  <2>1. ASSUME NEW a \in Addresses
        PROVE  (IF a = c.from THEN f[a] - A(i, Addresses) ELSE f[a] + A(i, {a})) \in Int
    <3>1. f[a] \in Int /\ A(i, Addresses) \in Nat /\ A(i, {a}) \in Nat
      BY <1>1 DEF Accts
    <3>2. f[a] - A(i, Addresses) \in Int /\ f[a] + A(i, {a}) \in Int
      BY <3>1
    <3>3. QED
      BY <3>2
  <2>2. QED
    BY <2>1, Zenon DEF Accts
<1>3. ASSUME NEW f \in Accts, NEW i PROVE Total(step(f, i)) = Total(f)
  <2> DEFINE g == step(f, i)
  <2>1. PaysOutput(c, i, f, g)
    BY DEF A, PaysOutput
  <2>2. g \in Accts
    BY <1>2
  <2> HIDE DEF g
  <2>3. Total(g) = Total(f)
    BY <2>1, <2>2, OutputConserves
  <2>4. QED
    BY <2>3 DEF g
<1> DEFINE one == step(bal, 1)
           two == step(one, 2)
           three == step(two, 3)
<1>4. one \in Accts /\ Total(one) = Total(bal)
  BY <1>2, <1>3
<1>5. two \in Accts /\ Total(two) = Total(one)
  <2> HIDE DEF one
  <2>1. QED
    BY <1>2, <1>3, <1>4
<1>6. three \in Accts /\ Total(three) = Total(two)
  <2> HIDE DEF two
  <2>1. QED
    BY <1>2, <1>3, <1>5
<1>7. Transfer(bal, c) = three
  <2>1. ASSUME NEW a \in Addresses
        PROVE  three[a] = IF a = c.from THEN bal[a] - Paid(c.outs, Addresses)
                                        ELSE bal[a] + Paid(c.outs, {a})
    <3>1. /\ bal[a] \in Int
          /\ A(1, Addresses) \in Nat /\ A(2, Addresses) \in Nat /\ A(3, Addresses) \in Nat
          /\ A(1, {a}) \in Nat /\ A(2, {a}) \in Nat /\ A(3, {a}) \in Nat
      BY <1>1 DEF Accts
    <3>2. /\ Paid(c.outs, Addresses) = A(1, Addresses) + A(2, Addresses) + A(3, Addresses)
          /\ Paid(c.outs, {a}) = A(1, {a}) + A(2, {a}) + A(3, {a})
      BY DEF Paid, A
    <3>3. three[a] = IF a = c.from
                     THEN ((bal[a] - A(1, Addresses)) - A(2, Addresses)) - A(3, Addresses)
                     ELSE ((bal[a] + A(1, {a})) + A(2, {a})) + A(3, {a})
      OBVIOUS
    <3> HIDE DEF three
    <3>4. QED
      BY <3>1, <3>2, <3>3
  <2>2. three = [a \in Addresses |-> three[a]]
    OBVIOUS
  <2> HIDE DEF three
  <2>3. QED
    BY <2>1, <2>2, Zenon DEF Transfer
<1> HIDE DEF one, two, three
<1>8. QED
  BY <1>4, <1>5, <1>6, <1>7

LEMMA CostInt ==
  ASSUME NEW gas \in Int, NEW c \in Bodies
  PROVE  ComputeTransactionCost(gas, c.price) \in Int
<1>1. c.price \in Nat
  BY AccountsAssumption DEF Body
<1>2. Signed(gas) \in Int
  BY AccountsAssumption DEF Signed
<1>3. QED
  BY <1>1, <1>2 DEF ComputeTransactionCost

LEMMA PoolInt ==
  ASSUME NEW c \in Bodies, NEW bal \in Int
  PROVE  GasPool(c, bal) \in Int
<1>1. c.price \in Nat \ {0} /\ c.limit \in Nat
  BY AccountsAssumption DEF Body
<1>2. bal \div c.price \in Int
  BY <1>1
<1>3. QED
  BY <1>1, <1>2 DEF GasPool

(* Executing a block conserves the sum. *)
LEMMA ExecutionConserves ==
  ASSUME NEW c \in Bodies, NEW bal \in Accts, NEW isMain \in BOOLEAN,
         NEW r \in TransferAccounts(c, bal, GasPool(c, bal[c.from]), isMain)
  PROVE  /\ r = [bal |-> r.bal, gas |-> r.gas] /\ r.bal \in Accts /\ r.gas \in Int
         /\ r.bal \in {bal, Transfer(bal, c)}
         /\ Total(r.bal) = Total(bal)
<1> DEFINE pool == GasPool(c, bal[c.from])
<1>1. c.from \in Addresses /\ c.kind \in {"miner", "tx", "contract"} /\ c.outs \in Seq(Output)
  BY AccountsAssumption DEF Body
<1>2. bal[c.from] \in Int
  BY <1>1 DEF Accts
<1>3. pool \in Int
  BY <1>2, PoolInt
<1> HIDE DEF pool
<1>4. r = [bal |-> r.bal, gas |-> r.gas] /\ r.gas \in Int /\ r.bal \in {bal, Transfer(bal, c)}
  <2>1. CASE c.kind = "tx"
    <3>1. TxGas * Len(c.outs) \in Int
      <4>1. Len(c.outs) \in Nat /\ TxGas \in Nat
        BY <1>1, AccountsAssumption
      <4>2. QED
        BY <4>1
    <3>2. QED
      BY <2>1, <3>1 DEF TransferAccounts, PlainTransfer
  <2>2. CASE c.kind = "contract"
    BY <1>3, <2>2 DEF TransferAccounts, ApplyTransaction, pool
  <2>3. CASE c.kind = "miner"
    BY <2>3, AccountsAssumption DEF TransferAccounts
  <2>4. QED
    BY <1>1, <2>1, <2>2, <2>3
<1>5. QED
  BY <1>4, TransferConserves

(* A transfer is only made when the balance also covers the fee: deductCost looks  *)
(* at the balance before it, and would otherwise set to zero what is left of it.    *)
LEMMA TransferCovered ==
  ASSUME CallLimitsFit, NEW c \in Bodies, NEW bal \in Accts, NEW isMain \in BOOLEAN,
         NEW r \in TransferAccounts(c, bal, GasPool(c, bal[c.from]), isMain), r.bal # bal
  PROVE  /\ ComputeTransactionCost(r.gas, c.price) <= bal[c.from]
         /\ isMain => 0 <= bal[c.from]
<1> DEFINE before == bal[c.from]
           pool == GasPool(c, before)
<1>1. /\ c.from \in Addresses /\ c.kind \in {"miner", "tx", "contract"}
      /\ c.price \in Nat \ {0} /\ c.limit \in Nat
  BY AccountsAssumption DEF Body
<1>2. before \in Int /\ Paid(c.outs, Addresses) \in Nat
  BY <1>1, PaidNat DEF Accts
<1>3. r.gas \in Int
  BY ExecutionConserves
<1>4. ComputeTransactionCost(r.gas, c.price) \in Int
  BY <1>3, CostInt
<1>5. CASE c.kind = "tx"
  <2> DEFINE gas == IF isMain THEN 0 ELSE TxGas * Len(c.outs)
             cost == ComputeTransactionCost(gas, c.price)
  <2>1. r = [bal |-> IF CheckTransactionAmount(bal, c, cost) THEN Transfer(bal, c) ELSE bal,
             gas |-> gas]
    BY <1>5 DEF TransferAccounts, PlainTransfer
  <2>2. r.gas = gas /\ CheckTransactionAmount(bal, c, cost)
    BY <2>1
  <2>3. Paid(c.outs, Addresses) + cost <= before
    BY <2>2 DEF CheckTransactionAmount
  <2>4. cost = ComputeTransactionCost(r.gas, c.price)
    BY <2>2
  <2>5. isMain => cost = 0
    <3>1. ComputeTransactionCost(0, c.price) = 0
      BY <1>1, CostNat, AccountsAssumption
    <3>2. QED
      BY <3>1
  <2> HIDE DEF cost
  <2>6. QED
    BY <1>2, <1>4, <2>3, <2>4, <2>5
<1>6. CASE c.kind = "contract"
  <2>1. before \in Nat /\ r.gas \in 0 .. pool
    <3>1. Paid(c.outs, Addresses) <= before /\ r.gas \in 0 .. pool
      BY <1>6 DEF TransferAccounts, ApplyTransaction
    <3>2. QED
      BY <1>2, <3>1
  <2> DEFINE g == r.gas
             p == c.price
  <2>2. g \in Nat /\ p \in Nat \ {0}
    BY <1>1, <1>3, <2>1
  <2>3. 2 * c.limit < WordSize /\ Signed(c.limit) = c.limit
    BY <1>1, <1>6, AccountsAssumption DEF CallLimitsFit, Signed
  <2>4. g * p <= before /\ 2 * g < WordSize
    <3>1. CASE c.limit * p > before
      <4>1. pool = before \div p
        BY <2>3, <3>1 DEF GasPool
      <4>2. PICK q \in Nat : q = before \div p
        BY <2>1, <2>2
      <4>3. q * p <= before
        BY <2>1, <2>2, <4>2
      <4>4. g <= q
        BY <2>1, <4>1, <4>2
      <4> HIDE DEF g, p, before
      <4>5. g * p <= q * p /\ q * p \in Int /\ g * p \in Int
        BY <2>2, <4>4
      <4>6. q < c.limit
        <5>1. PICK l \in Nat : l = c.limit
          BY <1>1
        <5>2. l * p > before /\ l * p \in Int
          BY <2>2, <3>1, <5>1
        <5>3. ~(l <= q)
          BY <1>2, <2>2, <4>3, <4>5, <5>2
        <5>4. QED
          BY <5>1, <5>3
      <4>7. g * p <= before
        BY <1>2, <4>3, <4>5
      <4>8. 2 * g < WordSize
        BY <1>1, <2>2, <2>3, <4>4, <4>6, AccountsAssumption
      <4>9. QED
        BY <4>7, <4>8
    <3>2. CASE ~(c.limit * p > before)
      <4>1. pool = c.limit
        BY <2>3, <3>2 DEF GasPool
      <4>2. g <= c.limit
        BY <2>1, <4>1
      <4> HIDE DEF g, p
      <4>3. g * p <= c.limit * p /\ c.limit * p \in Int /\ g * p \in Int
        BY <1>1, <2>2, <4>2
      <4>4. QED
        BY <1>1, <1>2, <2>2, <2>3, <3>2, <4>2, <4>3, AccountsAssumption
    <3>3. QED
      BY <3>1, <3>2
  <2>5. ComputeTransactionCost(g, p) = g * p
    BY <2>2, <2>4, CostNat
  <2>6. QED
    BY <2>1, <2>4, <2>5
<1>7. CASE c.kind = "miner"
  BY <1>7 DEF TransferAccounts
<1>8. QED
  BY <1>1, <1>5, <1>6, <1>7

(* Settling a block keeps integers. *)
LEMMA SettledInt ==
  ASSUME NEW c \in Bodies, NEW bal \in Accts, NEW user \in Int, NEW isMain \in BOOLEAN,
         NEW s \in CalculatingAccounts(c, bal, user, isMain)
  PROVE  s.bal \in Accts /\ s.paid \in Int
<1> DEFINE start == [bal EXCEPT ![c.from] = @ + user]
           before == start[c.from]
           pool == GasPool(c, before)
<1>1. c.from \in Addresses
  BY AccountsAssumption DEF Body
<1>2. start \in Accts /\ before \in Int
  BY <1>1 DEF Accts
<1>3. PICK x \in ExecutionTransaction(c, start, pool, isMain) :
        s = DeductCost(x.bal, c.from, before, ComputeTransactionCost(x.gas, c.price))
  BY DEF CalculatingAccounts
<1>4. PICK r \in TransferAccounts(c, start, pool, isMain) :
        x = IF isMain THEN [r EXCEPT !.gas = 0] ELSE r
  BY <1>3 DEF ExecutionTransaction
<1> HIDE DEF start
<1>5. r = [bal |-> r.bal, gas |-> r.gas] /\ r.bal \in Accts /\ r.gas \in Int
  BY <1>2, <1>4, ExecutionConserves
<1>6. x.bal = r.bal /\ x.gas \in Int
  BY <1>4, <1>5
<1> DEFINE cost == ComputeTransactionCost(x.gas, c.price)
<1>7. x.bal \in Accts /\ cost \in Int /\ x.bal[c.from] \in Int
  BY <1>1, <1>5, <1>6, CostInt DEF Accts
<1> HIDE DEF before, cost
<1>8. \/ s = [bal |-> [x.bal EXCEPT ![c.from] = 0], paid |-> before]
      \/ s = [bal |-> [x.bal EXCEPT ![c.from] = x.bal[c.from] - cost], paid |-> cost]
  BY <1>3 DEF DeductCost, cost
<1>9. x.bal[c.from] - cost \in Int
  BY <1>7
<1>10. QED
  BY <1>2, <1>7, <1>8, <1>9 DEF Accts

(* Settling a block takes from the balances what it hands up. *)
LEMMA SettledConserves ==
  ASSUME CallLimitsFit, NEW c \in Bodies, NEW bal \in Accts, NEW user \in Int,
         NEW isMain \in BOOLEAN, NEW s \in CalculatingAccounts(c, bal, user, isMain)
  PROVE  Total(s.bal) = Total(bal) + user - s.paid
<1> DEFINE start == [bal EXCEPT ![c.from] = @ + user]
           before == start[c.from]
           pool == GasPool(c, before)
<1>1. c.from \in Addresses /\ IsFiniteSet(Addresses) /\ c.price \in Nat \ {0}
  BY AccountsAssumption DEF Body
<1>2. /\ start \in Accts /\ before \in Int /\ bal[c.from] \in Int
      /\ before = bal[c.from] + user
      /\ \A a \in Addresses \ {c.from} : start[a] = bal[a]
  BY <1>1 DEF Accts
<1>3. PICK x \in ExecutionTransaction(c, start, pool, isMain) :
        s = DeductCost(x.bal, c.from, before, ComputeTransactionCost(x.gas, c.price))
  BY DEF CalculatingAccounts
<1>4. PICK r \in TransferAccounts(c, start, pool, isMain) :
        x = IF isMain THEN [r EXCEPT !.gas = 0] ELSE r
  BY <1>3 DEF ExecutionTransaction
<1> HIDE DEF start
<1>5. /\ r = [bal |-> r.bal, gas |-> r.gas] /\ r.bal \in Accts /\ r.gas \in Int
      /\ Total(r.bal) = Total(start)
  BY <1>2, <1>4, ExecutionConserves
<1>6. x.bal = r.bal /\ x.gas = IF isMain THEN 0 ELSE r.gas
  BY <1>4, <1>5
<1> DEFINE cost == ComputeTransactionCost(x.gas, c.price)
<1>7. x.bal \in Accts /\ cost \in Int /\ x.bal[c.from] \in Int
  BY <1>1, <1>5, <1>6, CostInt DEF Accts
<1>8. before < cost => x.bal = start
  <2> SUFFICES ASSUME before < cost, x.bal # start PROVE FALSE
    OBVIOUS
  <2>1. /\ ComputeTransactionCost(r.gas, c.price) <= before
        /\ isMain => 0 <= before
    BY <1>2, <1>4, <1>6, TransferCovered
  <2>2. ComputeTransactionCost(0, c.price) = 0
    BY <1>1, CostNat, AccountsAssumption
  <2>3. cost = IF isMain THEN 0 ELSE ComputeTransactionCost(r.gas, c.price)
    BY <1>6, <2>2
  <2> HIDE DEF cost, before
  <2>4. QED
    BY <1>2, <1>7, <2>1, <2>3
<1>9. Total(bal) \in Int /\ Total(start) = Total(bal) + user
  <2>1. \A a \in Addresses : bal[a] \in Int /\ start[a] \in Int
    BY <1>2 DEF Accts
  <2>2. Total(bal) \in Int
    BY <1>1, <2>1, SumTyped DEF Total
  <2>3. Total(start) = Total(bal) + (start[c.from] - bal[c.from])
    BY <1>1, <1>2, <2>1, SumUpdate DEF Total
  <2>4. QED
    BY <1>2, <2>2, <2>3
<1>10. \A a \in Addresses : x.bal[a] \in Int
  BY <1>7 DEF Accts
<1>11. Total(x.bal) = Total(bal) + user /\ Total(x.bal) \in Int
  BY <1>5, <1>6, <1>9
<1>12. ASSUME NEW v \in Int
       PROVE  Total([x.bal EXCEPT ![c.from] = v]) = Total(x.bal) + (v - x.bal[c.from])
  <2> DEFINE y == [x.bal EXCEPT ![c.from] = v]
  <2>1. y[c.from] = v /\ \A a \in Addresses : y[a] \in Int /\ (a # c.from => y[a] = x.bal[a])
    BY <1>1, <1>7, <1>10 DEF Accts
  <2> HIDE DEF y
  <2>2. Total(y) = Total(x.bal) + (y[c.from] - x.bal[c.from])
    BY <1>1, <1>10, <2>1, SumUpdate DEF Total
  <2>3. QED
    BY <2>1, <2>2 DEF y
<1>13. CASE before < cost
  <2>1. s = [bal |-> [x.bal EXCEPT ![c.from] = 0], paid |-> before]
    BY <1>3, <1>13 DEF DeductCost
  <2>2. x.bal[c.from] = before
    BY <1>8, <1>13
  <2>3. Total(s.bal) = Total(x.bal) + (0 - before) /\ s.paid = before
    BY <1>12, <2>1, <2>2
  <2> HIDE DEF before
  <2>4. QED
    BY <1>2, <1>9, <1>11, <2>3
<1>14. CASE ~(before < cost)
  <2>1. s = [bal |-> [x.bal EXCEPT ![c.from] = x.bal[c.from] - cost], paid |-> cost]
    BY <1>3, <1>14 DEF DeductCost
  <2>2. x.bal[c.from] - cost \in Int
    BY <1>7
  <2>3. Total(s.bal) = Total(x.bal) + ((x.bal[c.from] - cost) - x.bal[c.from]) /\ s.paid = cost
    BY <1>12, <2>1, <2>2
  <2> HIDE DEF cost
  <2>4. QED
    BY <1>7, <1>9, <1>11, <2>3
<1>15. QED
  BY <1>13, <1>14

(* Nothing is lost when a fee is split. *)
LEMMA SharesConserve ==
  ASSUME NEW user \in Int, NEW miner \in Int
  PROVE  LET up == ComputeConfirmReward(user, miner)
         IN  up.user \in Int /\ up.miner \in Int /\ up.user + up.miner = user + miner
<1>1. user * UserRate \in Int
  BY AccountsAssumption
<1>2. (user * UserRate) \div 100 \in Int
  BY <1>1
<1>3. QED
  BY <1>2 DEF ComputeConfirmReward
------------------------------------------------------------------------------
(* The fees on the way up *)

Walk == [blk : Blocks, next : Nat \ {0}, user : Int, miner : Int]

Fees(st) == [i \in DOMAIN st |-> st[i].user + st[i].miner]
Flow(st) == Sum(Fees(st), DOMAIN st)

LEMMA FlowTyped ==
  ASSUME NEW st \in Seq(Walk)
  PROVE  /\ IsFiniteSet(DOMAIN st)
         /\ \A i \in DOMAIN st : Fees(st)[i] = st[i].user + st[i].miner /\ Fees(st)[i] \in Int
         /\ Flow(st) \in Int
<1>1. DOMAIN st = 1 .. Len(st) /\ Len(st) \in Nat
  OBVIOUS
<1>2. IsFiniteSet(DOMAIN st)
  BY <1>1, FS_Interval
<1>3. ASSUME NEW i \in DOMAIN st
      PROVE  Fees(st)[i] = st[i].user + st[i].miner /\ Fees(st)[i] \in Int
  <2>1. st[i] \in Walk
    OBVIOUS
  <2>2. st[i].user \in Int /\ st[i].miner \in Int
    BY <2>1 DEF Walk
  <2>3. QED
    BY <2>2 DEF Fees
<1>4. Flow(st) \in Int
  BY <1>2, <1>3, SumTyped DEF Flow
<1>5. QED
  BY <1>2, <1>3, <1>4

LEMMA FlowEmpty == Flow(<< >>) = 0
<1>1. DOMAIN << >> = {}
  OBVIOUS
<1>2. QED
  BY <1>1, SumEmpty DEF Flow

(* One frame changes. *)
LEMMA FlowUpdate ==
  ASSUME NEW st \in Seq(Walk), NEW new \in Seq(Walk), Len(new) = Len(st),
         NEW k \in 1 .. Len(st), \A i \in 1 .. Len(st) : i # k => new[i] = st[i]
  PROVE  Flow(new) = Flow(st) + ((new[k].user + new[k].miner) - (st[k].user + st[k].miner))
<1>1. DOMAIN st = 1 .. Len(st) /\ DOMAIN new = 1 .. Len(st)
  OBVIOUS
<1>2. /\ IsFiniteSet(DOMAIN st)
      /\ \A i \in DOMAIN st : Fees(st)[i] = st[i].user + st[i].miner /\ Fees(st)[i] \in Int
      /\ \A i \in DOMAIN new : Fees(new)[i] = new[i].user + new[i].miner /\ Fees(new)[i] \in Int
  BY FlowTyped
<1>3. \A i \in DOMAIN st \ {k} : Fees(new)[i] = Fees(st)[i]
  BY <1>1, <1>2
<1>4. Flow(new) = Flow(st) + (Fees(new)[k] - Fees(st)[k])
  <2> DEFINE D == DOMAIN st
             f == Fees(st)
             g == Fees(new)
  <2>1. /\ IsFiniteSet(D) /\ k \in D /\ \A i \in D : f[i] \in Int /\ g[i] \in Int
        /\ \A i \in D \ {k} : g[i] = f[i]
    BY <1>1, <1>2, <1>3
  <2>2. Flow(st) = Sum(f, D) /\ Flow(new) = Sum(g, D)
    BY <1>1 DEF Flow
  <2> HIDE DEF D, f, g
  <2>3. Sum(g, D) = Sum(f, D) + (g[k] - f[k])
    BY <2>1, SumUpdate
  <2>4. QED
    BY <2>2, <2>3 DEF f, g
<1>5. QED
  BY <1>1, <1>2, <1>4

(* A frame is pushed or popped. *)
LEMMA FlowPush ==
  ASSUME NEW st \in Seq(Walk), NEW new \in Seq(Walk), Len(new) = Len(st) + 1,
         \A i \in 1 .. Len(st) : new[i] = st[i]
  PROVE  Flow(new) = Flow(st) + (new[Len(new)].user + new[Len(new)].miner)
<1> DEFINE k == Len(new)
<1>1. Len(st) \in Nat /\ k = Len(st) + 1 /\ DOMAIN st = 1 .. Len(st) /\ DOMAIN new = 1 .. k
  OBVIOUS
<1>2. DOMAIN new = DOMAIN st \cup {k} /\ k \notin DOMAIN st
  BY <1>1
<1>3. /\ IsFiniteSet(DOMAIN st) /\ Flow(st) \in Int
      /\ \A i \in DOMAIN st : Fees(st)[i] = st[i].user + st[i].miner
      /\ \A i \in DOMAIN new : Fees(new)[i] = new[i].user + new[i].miner /\ Fees(new)[i] \in Int
  BY FlowTyped
<1> HIDE DEF k
<1>4. Flow(new) = Fees(new)[k] + Sum(Fees(new), DOMAIN st)
  <2>1. Sum(Fees(new), DOMAIN st \cup {k}) = Fees(new)[k] + Sum(Fees(new), DOMAIN st)
    BY <1>2, <1>3, SumAdd
  <2>2. QED
    BY <1>2, <2>1 DEF Flow
<1>5. Sum(Fees(new), DOMAIN st) = Flow(st)
  <2>1. \A i \in DOMAIN st : Fees(new)[i] = Fees(st)[i]
    BY <1>1, <1>2, <1>3
  <2>2. QED
    BY <1>3, <2>1, SumEqual DEF Flow
<1>6. Fees(new)[k] = new[k].user + new[k].miner /\ Fees(new)[k] \in Int
  BY <1>2, <1>3
<1>7. QED
  BY <1>3, <1>4, <1>5, <1>6 DEF k
------------------------------------------------------------------------------
(* Types and conservation of money *)

TInv == TypeOK /\ Bounded

LEMMA TypesOpen ==
  TInv => /\ balance \in Accts /\ settled \in SUBSET Blocks
          /\ number \in 0 .. MaxMains /\ minted \in Nat /\ stack \in Seq(Walk)
BY DEF TInv, TypeOK, Bounded, Accts, Walk

LEMMA TypesClose ==
  ASSUME balance' \in Accts, settled' \in SUBSET Blocks, number' \in 0 .. MaxMains,
         minted' \in Nat, stack' \in Seq(Walk)
  PROVE  TInv'
BY AccountsAssumption DEF TInv, TypeOK, Bounded, Accts, Walk

(* the money of a state: balances and fees on the way up *)
LEMMA Money ==
  /\ balance \in Accts => (Conserved <=> Total(balance) + Flow(stack) = Total(Alloc) + minted)
  /\ balance' \in Accts =>
       (Conserved' <=> Total(balance') + Flow(stack') = Total(Alloc) + minted')
<1>1. DOMAIN Alloc = Addresses
  BY AccountsAssumption
<1>2. SumFunction(Alloc) = Total(Alloc)
  BY <1>1 DEF SumFunction, Total, Sum
<1>3. InFlight = Flow(stack) /\ InFlight' = Flow(stack')
  <2>1. ASSUME NEW st PROVE SumFunction(Fees(st)) = Flow(st)
    <3>1. DOMAIN Fees(st) = DOMAIN st
      BY DEF Fees
    <3>2. QED
      BY <3>1 DEF SumFunction, Flow, Sum
  <2>2. InFlight = SumFunction(Fees(stack)) /\ InFlight' = SumFunction(Fees(stack'))
    BY DEF InFlight, Fees
  <2>3. QED
    BY <2>1, <2>2
<1>4. ASSUME NEW b \in Accts PROVE SumFunction(b) = Total(b)
  <2>1. DOMAIN b = Addresses
    BY DEF Accts
  <2>2. QED
    BY <2>1 DEF SumFunction, Total, Sum
<1>5. QED
  BY <1>2, <1>3, <1>4 DEF Conserved

LEMMA TopInWalk ==
  ASSUME stack \in Seq(Walk), stack # << >>
  PROVE  /\ Len(stack) \in Nat \ {0} /\ Top \in Walk /\ Top = stack[Len(stack)]
         /\ Top.user \in Int /\ Top.miner \in Int /\ Top.blk \in Blocks /\ Top.next \in Nat \ {0}
<1>1. Len(stack) \in Nat \ {0} /\ Top \in Walk /\ Top = stack[Len(stack)]
  BY DEF Top
<1>2. QED
  BY <1>1 DEF Walk

(* What each step does to the stack, the types and the money. *)
LEMMA ConfirmMainStep ==
  ASSUME TInv, NEW b \in Blocks, ConfirmMain(b)
  PROVE  TInv' /\ (Conserved => Conserved')
<1>0. /\ balance \in Accts /\ settled \in SUBSET Blocks /\ number \in 0 .. MaxMains
      /\ minted \in Nat /\ stack \in Seq(Walk)
  BY TypesOpen
<1>1. /\ stack = << >> /\ stack' = <<Frame(b)>> /\ number' = number + 1 /\ number < MaxMains
      /\ balance' = balance /\ settled' = settled /\ minted' = minted
  BY DEF ConfirmMain
<1>2. Frame(b) \in Walk /\ Frame(b).user = 0 /\ Frame(b).miner = 0
  BY DEF Frame, Walk
<1>3. stack' \in Seq(Walk) /\ number' \in 0 .. MaxMains
  BY <1>0, <1>1, <1>2, AccountsAssumption
<1>4. TInv'
  BY <1>0, <1>1, <1>3, TypesClose
<1>5. Flow(stack') = Flow(stack)
  <2>1. /\ Len(stack') = Len(stack) + 1 /\ \A i \in 1 .. Len(stack) : stack'[i] = stack[i]
        /\ stack'[Len(stack')] = Frame(b)
    BY <1>1
  <2>2. Flow(stack') = Flow(stack) + (0 + 0) /\ Flow(stack) \in Int
    BY <1>0, <1>2, <1>3, <2>1, FlowPush, FlowTyped
  <2>3. QED
    BY <2>2
<1>6. QED
  BY <1>0, <1>1, <1>4, <1>5, Money

LEMMA VisitLinkStep ==
  ASSUME TInv, VisitLink
  PROVE  TInv' /\ (Conserved => Conserved')
<1>0. /\ balance \in Accts /\ settled \in SUBSET Blocks /\ number \in 0 .. MaxMains
      /\ minted \in Nat /\ stack \in Seq(Walk)
  BY TypesOpen
<1> DEFINE n == Len(stack)
           h == Links[Top.blk][Top.next]
           rest == [stack EXCEPT ![n].next = @ + 1]
<1>1. /\ stack # << >> /\ Top.next <= Len(Links[Top.blk])
      /\ stack' = IF h \in settled THEN rest ELSE Append(rest, Frame(h))
      /\ balance' = balance /\ settled' = settled /\ minted' = minted /\ number' = number
  BY DEF VisitLink
<1>2. n \in Nat \ {0} /\ Top \in Walk /\ Top = stack[n] /\ Top.blk \in Blocks /\ Top.next \in Nat \ {0}
  BY <1>0, <1>1, TopInWalk
<1>3. h \in Blocks
  BY <1>1, <1>2, AccountsAssumption
<1>4. /\ rest \in Seq(Walk) /\ Len(rest) = n
      /\ rest[n] = [stack[n] EXCEPT !.next = @ + 1]
      /\ \A i \in 1 .. n : i # n => rest[i] = stack[i]
  <2>1. [stack[n] EXCEPT !.next = @ + 1] \in Walk
    BY <1>2 DEF Walk
  <2>2. QED
    BY <1>0, <1>2, <2>1
<1>5. Flow(rest) = Flow(stack) /\ Flow(stack) \in Int
  <2>1. /\ rest[n].user = stack[n].user /\ rest[n].miner = stack[n].miner
        /\ stack[n].user \in Int /\ stack[n].miner \in Int
    BY <1>2, <1>4 DEF Walk
  <2> HIDE DEF rest
  <2>2. Flow(stack) \in Int
    BY <1>0, FlowTyped
  <2>3. Flow(rest) = Flow(stack)
          + ((rest[n].user + rest[n].miner) - (stack[n].user + stack[n].miner))
    <3>1. n \in 1 .. Len(stack) /\ Len(rest) = Len(stack)
      BY <1>2, <1>4
    <3> HIDE DEF n
    <3>2. \A i \in 1 .. Len(stack) : i # n => rest[i] = stack[i]
      BY <1>4 DEF n
    <3>3. rest \in Seq(Walk)
      BY <1>4
    <3>4. QED
      BY <1>0, <3>1, <3>2, <3>3, FlowUpdate, Zenon
  <2>4. QED
    BY <2>1, <2>2, <2>3
<1> HIDE DEF rest, h
<1>6. /\ Frame(h) \in Walk /\ Frame(h).user = 0 /\ Frame(h).miner = 0
  BY <1>3 DEF Frame, Walk
<1>7. stack' \in Seq(Walk) /\ Flow(stack') = Flow(stack)
  <2>1. CASE h \in settled
    BY <1>1, <1>4, <1>5, <2>1
  <2>2. CASE h \notin settled
    <3> DEFINE new == Append(rest, Frame(h))
    <3>1. /\ new \in Seq(Walk) /\ Len(new) = Len(rest) + 1
          /\ \A i \in 1 .. Len(rest) : new[i] = rest[i]
          /\ new[Len(new)] = Frame(h)
      BY <1>4, <1>6
    <3> HIDE DEF new
    <3>2. Flow(new) = Flow(rest) + (0 + 0)
      BY <1>4, <1>6, <3>1, FlowPush
    <3>3. QED
      BY <1>1, <1>5, <2>2, <3>1, <3>2 DEF new
  <2>3. QED
    BY <2>1, <2>2
<1>8. TInv'
  BY <1>0, <1>1, <1>7, TypesClose
<1>9. QED
  BY <1>0, <1>1, <1>7, <1>8, Money

LEMMA FrameReplaced ==
  ASSUME NEW st \in Seq(Walk), NEW k \in 1 .. Len(st), NEW w \in Walk
  PROVE  /\ [st EXCEPT ![k] = w] \in Seq(Walk) /\ Len([st EXCEPT ![k] = w]) = Len(st)
         /\ [st EXCEPT ![k] = w][k] = w
         /\ \A i \in 1 .. Len(st) : i # k => [st EXCEPT ![k] = w][i] = st[i]
OBVIOUS

LEMMA SettleBlockStep ==
  ASSUME TInv, NEW c \in Bodies, SettleBlock(c)
  PROVE  TInv' /\ (CallLimitsFit /\ Conserved => Conserved')
<1>0. /\ balance \in Accts /\ settled \in SUBSET Blocks /\ number \in 0 .. MaxMains
      /\ minted \in Nat /\ stack \in Seq(Walk)
  BY TypesOpen
<1>1. /\ Len(stack) > 1 /\ stack # << >>
      /\ settled' = settled \cup {Top.blk} /\ number' = number /\ minted' = minted
  BY DEF SettleBlock
<1>2. PICK r \in CalculatingAccounts(c, balance, Top.user, FALSE) :
        LET up == ComputeConfirmReward(r.paid, Top.miner)
        IN  /\ balance' = r.bal
            /\ stack' = [Pop EXCEPT ![Len(Pop)].user = @ + up.user,
                                    ![Len(Pop)].miner = @ + up.miner]
  BY DEF SettleBlock
<1> DEFINE up == ComputeConfirmReward(r.paid, Top.miner)
           p == Pop
           n == Len(p)
<1>3. /\ Len(stack) \in Nat \ {0} /\ Top = stack[Len(stack)]
      /\ Top.user \in Int /\ Top.miner \in Int /\ Top.blk \in Blocks
  BY <1>0, <1>1, TopInWalk
<1>4. r.bal \in Accts /\ r.paid \in Int
  BY <1>0, <1>3, SettledInt
<1>5. up.user \in Int /\ up.miner \in Int /\ up.user + up.miner = r.paid + Top.miner
  BY <1>3, <1>4, SharesConserve
<1>6. /\ p \in Seq(Walk) /\ n = Len(stack) - 1 /\ n \in Nat \ {0}
      /\ \A i \in 1 .. n : p[i] = stack[i]
  <2>1. Len(stack) - 1 \in 1 .. Len(stack)
    BY <1>1, <1>3
  <2>2. \A i \in 1 .. Len(stack) - 1 : stack[i] \in Walk
    BY <1>0, <1>3
  <2>3. SubSeq(stack, 1, Len(stack) - 1) \in Seq(Walk)
    BY <1>0, <1>3, <2>1, SubSeqProperties
  <2>4. /\ Len(SubSeq(stack, 1, Len(stack) - 1)) = Len(stack) - 1
        /\ \A i \in 1 .. Len(stack) - 1 : SubSeq(stack, 1, Len(stack) - 1)[i] = stack[i]
    BY <1>0, <1>3, <2>1, SubSeqProperties
  <2>5. QED
    BY <1>3, <2>1, <2>3, <2>4 DEF Pop
<1> DEFINE one == [p EXCEPT ![n].user = @ + up.user]
           two == [one EXCEPT ![n].miner = @ + up.miner]
<1>7. stack' = two
  BY <1>2
<1>8. p[n] \in Walk /\ p[n].user \in Int /\ p[n].miner \in Int
  <2>1. p[n] \in Walk
    BY <1>6
  <2>2. QED
    BY <2>1 DEF Walk
<1>9. /\ one \in Seq(Walk) /\ Len(one) = n
      /\ one[n] \in Walk /\ one[n].user = p[n].user + up.user /\ one[n].miner = p[n].miner
      /\ \A i \in 1 .. n : i # n => one[i] = p[i]
  <2> DEFINE w == [p[n] EXCEPT !.user = @ + up.user]
  <2>1. w \in Walk /\ w.user = p[n].user + up.user /\ w.miner = p[n].miner
    BY <1>5, <1>8 DEF Walk
  <2>2. one = [p EXCEPT ![n] = w]
    OBVIOUS
  <2> HIDE DEF p, up, w
  <2>3. n \in 1 .. Len(p)
    BY <1>6
  <2>4. /\ [p EXCEPT ![n] = w] \in Seq(Walk) /\ Len([p EXCEPT ![n] = w]) = Len(p)
        /\ [p EXCEPT ![n] = w][n] = w
        /\ \A i \in 1 .. Len(p) : i # n => [p EXCEPT ![n] = w][i] = p[i]
    BY <1>6, <2>1, <2>3, FrameReplaced
  <2> HIDE DEF one
  <2>5. QED
    BY <2>1, <2>2, <2>4
<1> HIDE DEF one
<1>10. /\ two \in Seq(Walk) /\ Len(two) = n
       /\ two[n].user = p[n].user + up.user /\ two[n].miner = p[n].miner + up.miner
       /\ \A i \in 1 .. n : i # n => two[i] = p[i]
  <2> DEFINE w == [one[n] EXCEPT !.miner = @ + up.miner]
  <2>1. w \in Walk /\ w.user = one[n].user /\ w.miner = one[n].miner + up.miner
    BY <1>5, <1>9 DEF Walk
  <2>2. two = [one EXCEPT ![n] = w]
    OBVIOUS
  <2> HIDE DEF up, w, n
  <2>3. n \in 1 .. Len(one)
    BY <1>6, <1>9
  <2>4. /\ [one EXCEPT ![n] = w] \in Seq(Walk) /\ Len([one EXCEPT ![n] = w]) = Len(one)
        /\ [one EXCEPT ![n] = w][n] = w
        /\ \A i \in 1 .. Len(one) : i # n => [one EXCEPT ![n] = w][i] = one[i]
    BY <1>9, <2>1, <2>3, FrameReplaced
  <2> HIDE DEF two
  <2>5. QED
    BY <1>9, <2>1, <2>2, <2>4
<1>11. TInv'
  <2>1. settled' \in SUBSET Blocks
    BY <1>0, <1>1, <1>3
  <2>2. balance' \in Accts
    BY <1>2, <1>4
  <2>3. stack' \in Seq(Walk)
    BY <1>7, <1>10
  <2>4. QED
    BY <1>0, <1>1, <2>1, <2>2, <2>3, TypesClose
<1>12. ASSUME CallLimitsFit, Conserved PROVE Conserved'
  <2> HIDE DEF two, up, p, n
  <2>1. Flow(stack) = Flow(p) + (Top.user + Top.miner)
    <3>1. Len(stack) = Len(p) + 1 /\ \A i \in 1 .. Len(p) : stack[i] = p[i]
      BY <1>3, <1>6 DEF n
    <3>2. QED
      BY <1>0, <1>3, <1>6, <3>1, FlowPush
  <2>2. Flow(two) = Flow(p) + ((two[n].user + two[n].miner) - (p[n].user + p[n].miner))
    <3>1. n \in 1 .. Len(p) /\ Len(two) = Len(p) /\ n = Len(p)
      BY <1>6, <1>10 DEF n
    <3>2. QED
      BY <1>6, <1>10, <3>1, FlowUpdate
  <2>3. Total(r.bal) = Total(balance) + Top.user - r.paid
    BY <1>0, <1>3, <1>12, SettledConserves
  <2>4. Total(balance) \in Int /\ Flow(p) \in Int
    <3>1. \A a \in Addresses : balance[a] \in Int
      BY <1>0 DEF Accts
    <3>2. Total(balance) \in Int
      BY <3>1, SumTyped, AccountsAssumption DEF Total
    <3>3. QED
      BY <1>6, <3>2, FlowTyped
  <2>5. Flow(two) = Flow(p) + (r.paid + Top.miner)
    <3>1. (two[n].user + two[n].miner) - (p[n].user + p[n].miner) = up.user + up.miner
      BY <1>5, <1>8, <1>10
    <3>2. QED
      BY <1>5, <2>2, <3>1
  <2>6. Total(r.bal) + Flow(two) = Total(balance) + Flow(stack)
    BY <1>3, <1>4, <2>1, <2>3, <2>4, <2>5
  <2>7. Total(balance) + Flow(stack) = Total(Alloc) + minted
    BY <1>0, <1>12, Money
  <2>8. QED
    BY <1>1, <1>2, <1>4, <1>7, <2>6, <2>7, Money
<1>13. QED
  BY <1>11, <1>12

LEMMA SettleMainStep ==
  ASSUME TInv, NEW c \in Bodies, SettleMain(c)
  PROVE  TInv' /\ (CallLimitsFit /\ Conserved => Conserved')
<1>0. /\ balance \in Accts /\ settled \in SUBSET Blocks /\ number \in 0 .. MaxMains
      /\ minted \in Nat /\ stack \in Seq(Walk)
  BY TypesOpen
<1> DEFINE reward == RewardMiner(number)
<1>1. /\ Len(stack) = 1 /\ stack # << >> /\ stack' = << >>
      /\ settled' = settled \cup {Top.blk} /\ number' = number /\ minted' = minted + reward
  <2>1. /\ Len(stack) = 1 /\ stack' = << >>
        /\ settled' = settled \cup {Top.blk} /\ number' = number /\ minted' = minted + reward
    BY Zenon DEF SettleMain
  <2>2. stack # << >>
    BY <2>1
  <2>3. QED
    BY <2>1, <2>2
<1>2. PICK r \in CalculatingAccounts(c, balance, Top.user, TRUE) :
        LET up == ComputeConfirmReward(r.paid, Top.miner)
        IN  balance' = [r.bal EXCEPT ![c.from] = @ + up.user + up.miner + reward]
  BY DEF SettleMain
<1> DEFINE up == ComputeConfirmReward(r.paid, Top.miner)
<1>3. /\ Len(stack) \in Nat \ {0} /\ Top = stack[Len(stack)]
      /\ Top.user \in Int /\ Top.miner \in Int /\ Top.blk \in Blocks
  BY <1>0, <1>1, TopInWalk
<1>4. r.bal \in Accts /\ r.paid \in Int
  BY <1>0, <1>3, SettledInt
<1>5. up.user \in Int /\ up.miner \in Int /\ up.user + up.miner = r.paid + Top.miner
  BY <1>3, <1>4, SharesConserve
<1>6. reward \in Nat
  BY <1>0, RewardNat
<1>7. c.from \in Addresses /\ IsFiniteSet(Addresses)
  BY AccountsAssumption DEF Body
<1> DEFINE v == r.bal[c.from] + up.user + up.miner + reward
<1>8. balance' = [r.bal EXCEPT ![c.from] = v]
  BY <1>2
<1> HIDE DEF up, reward
<1>9. r.bal[c.from] \in Int /\ v \in Int
  <2>1. r.bal[c.from] \in Int
    BY <1>4, <1>7 DEF Accts
  <2>2. QED
    BY <1>5, <1>6, <2>1
<1>10. v = r.bal[c.from] + (r.paid + Top.miner + reward)
  BY <1>3, <1>4, <1>5, <1>6, <1>9
<1> HIDE DEF v
<1>11. /\ balance' \in Accts /\ balance'[c.from] = v
       /\ \A a \in Addresses : a # c.from => balance'[a] = r.bal[a]
  BY <1>4, <1>7, <1>8, <1>9 DEF Accts
<1>12. TInv'
  <2>1. settled' \in SUBSET Blocks /\ minted' \in Nat /\ stack' \in Seq(Walk)
    BY <1>0, <1>1, <1>3, <1>6
  <2>2. QED
    BY <1>0, <1>1, <1>11, <2>1, TypesClose
<1>13. ASSUME CallLimitsFit, Conserved PROVE Conserved'
  <2>1. Flow(stack) = Top.user + Top.miner /\ Flow(stack') = 0
    <3> DEFINE none == << >>
    <3>1. none \in Seq(Walk) /\ Len(none) = 0 /\ Flow(none) = 0
      BY FlowEmpty
    <3>2. Len(stack) = Len(none) + 1 /\ \A i \in 1 .. Len(none) : stack[i] = none[i]
      BY <1>1, <3>1
    <3> HIDE DEF none
    <3>3. Flow(stack) = 0 + (Top.user + Top.miner)
      BY <1>0, <1>3, <3>1, <3>2, FlowPush
    <3>4. QED
      BY <1>1, <1>3, <3>3, FlowEmpty
  <2>2. Total(r.bal) = Total(balance) + Top.user - r.paid
    BY <1>0, <1>3, <1>13, SettledConserves
  <2>3. Total(balance) \in Int
    <3>1. \A a \in Addresses : balance[a] \in Int
      BY <1>0 DEF Accts
    <3>2. QED
      BY <1>7, <3>1, SumTyped DEF Total
  <2>4. Total(balance') = Total(r.bal) + (v - r.bal[c.from])
    <3> DEFINE g == balance'
    <3>1. /\ \A a \in Addresses : r.bal[a] \in Int /\ g[a] \in Int
          /\ \A a \in Addresses \ {c.from} : g[a] = r.bal[a]
          /\ g[c.from] = v
      BY <1>4, <1>11 DEF Accts
    <3> HIDE DEF g
    <3>2. Total(g) = Total(r.bal) + (g[c.from] - r.bal[c.from])
      BY <1>7, <3>1, SumUpdate DEF Total
    <3>3. QED
      BY <3>1, <3>2 DEF g
  <2>5. Total(balance) + Flow(stack) = Total(Alloc) + minted
    BY <1>0, <1>13, Money
  <2>6. Total(Alloc) \in Int
    <3>1. \A a \in Addresses : Alloc[a] \in Int
      BY AccountsAssumption
    <3>2. QED
      BY <1>7, <3>1, SumTyped DEF Total
  <2>7. Total(balance') = Total(balance) + Top.user + Top.miner + reward
    <3>1. v - r.bal[c.from] = r.paid + Top.miner + reward
      BY <1>3, <1>4, <1>6, <1>9, <1>10
    <3>2. QED
      BY <1>3, <1>4, <1>6, <2>2, <2>3, <2>4, <3>1
  <2>8. Total(balance') + Flow(stack') = Total(Alloc) + minted'
    BY <1>0, <1>1, <1>3, <1>6, <2>1, <2>3, <2>5, <2>6, <2>7
  <2>9. QED
    BY <1>11, <2>8, Money
<1>14. QED
  BY <1>12, <1>13

LEMMA InitMoney == Init => TInv /\ Conserved
<1> SUFFICES ASSUME Init PROVE TInv /\ Conserved
  OBVIOUS
<1>1. balance = Alloc /\ stack = << >> /\ minted = 0 /\ number = 0 /\ settled = {Genesis}
  BY DEF Init
<1>2. balance \in Accts
  BY <1>1, AccountsAssumption DEF Accts
<1>3. TInv
  BY <1>1, <1>2, AccountsAssumption DEF TInv, TypeOK, Bounded, Accts
<1>4. Flow(stack) = 0
  BY <1>1, FlowEmpty
<1>5. QED
  BY <1>1, <1>2, <1>3, <1>4, Money

LEMMA NextMoney ==
  ASSUME TInv, [Next]_vars
  PROVE  TInv' /\ (CallLimitsFit /\ Conserved => Conserved')
<1>1. CASE UNCHANGED vars
  <2>1. /\ balance' = balance /\ settled' = settled /\ number' = number
        /\ minted' = minted /\ stack' = stack
    BY <1>1 DEF vars
  <2>2. TInv'
    BY <2>1, TypesOpen, TypesClose
  <2>3. QED
    BY <2>1, <2>2, TypesOpen, Money
<1>2. CASE Next
  BY <1>2, ConfirmMainStep, VisitLinkStep, SettleBlockStep, SettleMainStep DEF Next
<1>3. QED
  BY <1>1, <1>2

(* Balances, rewards and the recursion keep their types, whatever the contents       *)
(* and the gas amounts.                                                            *)
THEOREM TypeCorrect == Spec => []TypeOK
<1>1. Init => TInv
  BY InitMoney
<1>2. TInv /\ [Next]_vars => TInv'
  BY NextMoney
<1>3. TInv => TypeOK
  BY DEF TInv
<1>4. QED
  BY <1>1, <1>2, <1>3, PTL DEF Spec

(* No money is made or lost, for any graph, contents, rates and allocation, also      *)
(* where balances are overdrawn and where the cost of a transfer is negative after      *)
(* its conversion to int64; the limit of a contract call alone has to survive the       *)
(* conversion (bestir.go:39), or a call could be charged more than it was checked for.   *)
THEOREM ConservedHolds == CallLimitsFit => (Spec => []Conserved)
<1> SUFFICES ASSUME CallLimitsFit PROVE Spec => []Conserved
  OBVIOUS
<1> DEFINE I == TInv /\ Conserved
<1>1. Init => I
  BY InitMoney
<1>2. I /\ [Next]_vars => I'
  BY NextMoney
<1>3. I => Conserved
  OBVIOUS
<1>4. QED
  BY <1>1, <1>2, <1>3, PTL DEF Spec
==============================================================================
