------------------------------ MODULE MainChain ------------------------------
(***************************************************************************)
(* The main chain of the SDAG ledger (sdag/mainchain/main_chain.go) with    *)
(* the part of the block pool that feeds it (sdag/manager/block_pool.go).   *)
(*                                                                         *)
(* Three kinds of goroutines share the database:                           *)
(*   - the pool's workers store a block under addBlockLock                  *)
(*     (ComputeCumulativeDiff, saveBlock) and then, outside that lock,      *)
(*     offer it to UpdateTail, which tests under a read lock and writes     *)
(*     under a write lock it takes afterwards;                              *)
(*   - one goroutine calls Confirm periodically: it walks back from Tail    *)
(*     to the last main block it still agrees with, rolls back what lies    *)
(*     above it on the old main chain, and confirms the new main blocks     *)
(*     with everything they reach through their links;                      *)
(*   - the environment: the clock, and a crash with a restart from the      *)
(*     database.                                                           *)
(* A block's content is a function of its hash, so links, time, time slice  *)
(* and difficulty are constants; the ledger state under a root is           *)
(* abstracted to the set of blocks whose accounts were settled in it.       *)
(***************************************************************************)
EXTENDS Integers, Sequences, FiniteSets, Functions

CONSTANTS
  Blocks,        \* hashes of the blocks that exist in the network
  Genesis,       \* the genesis block, stored before anything starts
  None,          \* the zero hash: MaxLinkHash of the genesis block
  Links,         \* block.GetLinks()
  Time,          \* block.GetTime()
  Slice,         \* utils.GetMainTime(block.GetTime()), the time slice
  Diff,          \* block.GetDiff()
  Work,          \* utils.CalculateWork(hash)
  Accepts(_, _), \* Accepts(b, S): CalculatingAccounts returns no error for b
                 \* in the state where the blocks of S took effect
  Workers,       \* the goroutines of BlockProcessing
  ConfirmBlock,  \* params.ConfirmBlock
  WordSize,      \* number of values of the unsigned word slices are kept in
  Skew,          \* how many slices a block may be ahead of this node's clock
  Copies,        \* bound: how often the pool takes up the same block
  MaxNow,        \* bound: last time slice of the clock
  MaxCrashes     \* bound: crashes of the process

MaxLinksNum == 3

(* What GetLinks, GetTime and GetDiff of blocks satisfy: Validation demands one  *)
(* to MaxLinksNum links, and CalculateWork is positive.                          *)
ASSUME BlocksAssumption ==
  /\ Genesis \in Blocks /\ None \notin Blocks
  /\ Links \in [Blocks -> Seq(Blocks)]
  /\ Time \in [Blocks -> Nat] /\ Slice \in [Blocks -> Nat]
  /\ Diff \in [Blocks -> Nat \ {0}] /\ Work \in [Blocks -> Nat \ {0}]
  /\ Links[Genesis] = << >>
  /\ \A b \in Blocks \ {Genesis} : Len(Links[b]) \in 1 .. MaxLinksNum
  /\ \A a, b \in Blocks : Time[a] <= Time[b] => Slice[a] <= Slice[b]

(* The graphs on which the chain's properties rest. They are those that honest   *)
(* nodes build, but the code does not hold every block to them: linkCheckAndSave *)
(* refuses a link later than the block only if the link is stored when it looks, *)
(* not when deleteIsolatedBlock releases the block, and Validation admits a      *)
(* block in the slice of the genesis block, which Genesis() waits to leave.      *)
LinksInOrder ==
  \A b \in Blocks \ {Genesis} :
    /\ Slice[Genesis] < Slice[b]
    /\ \A i \in DOMAIN Links[b] : Time[Links[b][i]] <= Time[b]

ASSUME NumbersAssumption ==
  /\ ConfirmBlock \in Nat /\ WordSize \in Nat \ {0} /\ Skew \in Nat
  /\ Copies \in Nat /\ MaxNow \in Nat /\ MaxCrashes \in Nat

ASSUME AcceptsAssumption ==
  \A b \in Blocks, S \in SUBSET Blocks : Accepts(b, S) \in BOOLEAN

VARIABLES
  now,        \* current time slice of the wall clock
  rlp,        \* blocks whose RLP is in the database
  info,       \* MutableInfo records in the database (NoInfo: none written)
  tail,       \* MainChain.Tail and its database record
  pervTail,   \* MainChain.PervTail
  mainTail,   \* MainChain.MainTail and its database record
  mainBlock,  \* MainBlockInfo by number
  pc,         \* per worker: where in linkCheckAndSave it is
  blk,        \* per worker: the block it handles
  taken,      \* how often each block was taken up by the pool
  conf,       \* the Confirm goroutine's local state
  crashes     \* crashes so far

vars == <<now, rlp, info, tail, pervTail, mainTail, mainBlock, pc, blk, taken,
          conf, crashes>>
------------------------------------------------------------------------------
(* State *)

Info == [tmpMax : BOOLEAN, confirm : BOOLEAN, apply : BOOLEAN, main : BOOLEAN,
         number : Nat, cum : Nat, maxLink : Blocks \cup {None}]

NoInfo == [tmpMax |-> FALSE, confirm |-> FALSE, apply |-> FALSE, main |-> FALSE,
           number |-> 0, cum |-> 0, maxLink |-> None]

HasInfo(b) == info[b] # NoInfo
Stored(b) == b \in rlp /\ HasInfo(b)

GenesisInfo == [tmpMax |-> TRUE, confirm |-> TRUE, apply |-> TRUE, main |-> TRUE,
                number |-> 0, cum |-> Diff[Genesis], maxLink |-> None]

(* A ledger state: the blocks settled in it, and those that took effect.     *)
Ledger == [done : SUBSET Blocks, ok : SUBSET Blocks]

GenesisLedger == [done |-> {Genesis}, ok |-> {Genesis}]

Frame == [blk : Blocks, next : Nat \ {0}]

IdleConf == [step |-> "idle", now |-> 0, at |-> None, can |-> FALSE, list |-> << >>,
             applied |-> {}, locator |-> Genesis, number |-> 0, stack |-> << >>,
             state |-> GenesisLedger]

(* core.Genesis.Genesis and initTail on an empty database *)
Init ==
  /\ now = Slice[Genesis] + 1
  /\ rlp = {Genesis}
  /\ info = [b \in Blocks |-> IF b = Genesis THEN GenesisInfo ELSE NoInfo]
  /\ tail = Genesis /\ pervTail = Genesis
  /\ mainTail = [hash |-> Genesis, number |-> 0]
  /\ mainBlock = [n \in {0} |-> [hash |-> Genesis, state |-> GenesisLedger]]
  /\ pc = [w \in Workers |-> "idle"] /\ blk = [w \in Workers |-> Genesis]
  /\ taken = [b \in Blocks |-> 0]
  /\ conf = IdleConf
  /\ crashes = 0
------------------------------------------------------------------------------
(* ComputeCumulativeDiff *)

(* what one link h offers to block b: SingleChainLinkInfo *)
ChainLink(b, h) ==
  LET same == Slice[b] = Slice[h]
      m    == info[h].maxLink
  IN  IF info[h].tmpMax
      THEN IF ~same
           THEN [update |-> TRUE, maxLink |-> h, cum |-> info[h].cum + Diff[b]]
           ELSE IF Diff[h] < Diff[b]
                THEN [update |-> TRUE, maxLink |-> m,
                      cum |-> info[h].cum - Diff[h] + Diff[b]]
                ELSE [update |-> FALSE, maxLink |-> h, cum |-> info[h].cum]
      ELSE IF ~same
           THEN [update |-> TRUE, maxLink |-> m, cum |-> info[h].cum + Diff[b]]
           ELSE IF Work[m] < Diff[b]
                THEN [update |-> TRUE, maxLink |-> info[m].maxLink,
                      cum |-> info[h].cum - Work[m] + Diff[b]]
                ELSE [update |-> FALSE, maxLink |-> m, cum |-> info[h].cum]

(* the first link whose cumulative difficulty no other link exceeds *)
LinkCum(b, i) == ChainLink(b, Links[b][i]).cum
(* slip: the comparison turned round *)
IsWorstLink(b, i) ==
  /\ i \in DOMAIN Links[b]
  /\ \A j \in DOMAIN Links[b] : /\ LinkCum(b, j) >= LinkCum(b, i)
                                /\ j < i => LinkCum(b, j) > LinkCum(b, i)

IsBestLink(b, i) ==
  /\ i \in DOMAIN Links[b]
  /\ \A j \in DOMAIN Links[b] : /\ LinkCum(b, j) <= LinkCum(b, i)
                                /\ j < i => LinkCum(b, j) < LinkCum(b, i)

(* slip: the difficulty of the leader that b replaces is not taken off *)
ReplacedStillCounts(b) ==
  LET h == Links[b][CHOOSE i \in DOMAIN Links[b] : IsBestLink(b, i)]
      c == ChainLink(b, h)
  IN  [NoInfo EXCEPT !.tmpMax = c.update, !.maxLink = c.maxLink,
                     !.cum = IF c.update THEN info[h].cum + Diff[b] ELSE c.cum]

(* slip: MaxLinkHash is the chosen link, not the leader it stands for *)
HangsOnLink(b) ==
  LET h == Links[b][CHOOSE i \in DOMAIN Links[b] : IsBestLink(b, i)]
      c == ChainLink(b, h)
  IN  [NoInfo EXCEPT !.tmpMax = c.update, !.cum = c.cum, !.maxLink = h]

ComputeCumulativeDiff(b) ==
  LET c == ChainLink(b, Links[b][CHOOSE i \in DOMAIN Links[b] : IsBestLink(b, i)])
  IN  [NoInfo EXCEPT !.tmpMax = c.update, !.cum = c.cum, !.maxLink = c.maxLink]
------------------------------------------------------------------------------
(* The pool's workers *)

(* AddBlock's HasBlock test and linkCheckAndSave's link check have passed, or *)
(* deleteIsolatedBlock releases the block because its last link was stored.   *)
AddBlock(w, b) ==
  /\ pc[w] = "idle"
  /\ b \notin rlp
  /\ Slice[b] <= now + Skew
  /\ taken[b] < Copies
  /\ Range(Links[b]) \subseteq rlp
  /\ taken' = [taken EXCEPT ![b] = @ + 1]
  /\ pc' = [pc EXCEPT ![w] = "save"]
  /\ blk' = [blk EXCEPT ![w] = b]
  /\ UNCHANGED <<now, rlp, info, tail, pervTail, mainTail, mainBlock, conf, crashes>>

(* addBlockLock is held from SaveRlp to SaveInfo *)
AddBlockLockFree == \A w \in Workers : pc[w] # "info"

(* Under addBlockLock: ComputeCumulativeDiff, which fails when a link has no  *)
(* MutableInfo, and the first of WriteBlock's two writes.                     *)
SaveRlp(w) ==
  /\ pc[w] = "save"
  /\ AddBlockLockFree
  /\ IF \A h \in Range(Links[blk[w]]) : HasInfo(h)
     THEN rlp' = rlp \cup {blk[w]} /\ pc' = [pc EXCEPT ![w] = "info"]
     ELSE UNCHANGED rlp /\ pc' = [pc EXCEPT ![w] = "idle"]
  /\ UNCHANGED <<now, info, tail, pervTail, mainTail, mainBlock, blk, taken, conf,
                 crashes>>

(* slip: every stored block is offered to UpdateTail, leader or not *)
SaveInfoOffersAll(w) ==
  /\ pc[w] = "info"
  /\ info' = [info EXCEPT ![blk[w]] = ComputeCumulativeDiff(blk[w])]
  /\ pc' = [pc EXCEPT ![w] = "tail"]
  /\ UNCHANGED <<now, rlp, tail, pervTail, mainTail, mainBlock, blk, taken, conf,
                 crashes>>

(* WriteBlock's second write, the release of addBlockLock *)
SaveInfo(w) ==
  /\ pc[w] = "info"
  /\ info' = [info EXCEPT ![blk[w]] = ComputeCumulativeDiff(blk[w])]
  /\ pc' = [pc EXCEPT ![w] = IF info'[blk[w]].tmpMax THEN "tail" ELSE "idle"]
  /\ UNCHANGED <<now, rlp, tail, pervTail, mainTail, mainBlock, blk, taken, conf,
                 crashes>>

(* UpdateTail, the comparison under the read lock *)
UpdateTailCheck(w) ==
  /\ pc[w] = "tail"
  /\ pc' = [pc EXCEPT ![w] = IF info[tail].cum < info[blk[w]].cum THEN "write"
                                                                  ELSE "idle"]
  /\ UNCHANGED <<now, rlp, info, tail, pervTail, mainTail, mainBlock, blk, taken, conf,
                 crashes>>

(* UpdateTail, the assignments and WriteTailBlockInfo under the write lock *)
UpdateTailWrite(w) ==
  /\ pc[w] = "write"
  /\ tail' = blk[w]
  /\ pervTail' = IF Slice[tail] = Slice[blk[w]] THEN pervTail ELSE tail
  /\ pc' = [pc EXCEPT ![w] = "idle"]
  /\ UNCHANGED <<now, rlp, info, mainTail, mainBlock, blk, taken, conf, crashes>>
------------------------------------------------------------------------------
(* The Confirm goroutine *)

(* slip: both ends counted *)
InclusiveDifference(s, t) == (s - t + 1) % WordSize

TimeSliceDifference(s, t) == (s - t) % WordSize

ConfUnchanged ==
  UNCHANGED <<now, rlp, tail, pervTail, pc, blk, taken, crashes>>

(* slip: the walk starts from PervTail *)
ConfirmFromPervTail ==
  /\ conf.step = "idle"
  /\ conf' = [IdleConf EXCEPT !.step = "find", !.at = pervTail, !.now = now,
                              !.number = mainTail.number]
  /\ UNCHANGED <<info, mainTail, mainBlock>> /\ ConfUnchanged

(* Confirm starts: MainTail, Tail and the clock are read once *)
ConfirmBegin ==
  /\ conf.step = "idle"
  /\ conf' = [IdleConf EXCEPT !.step = "find", !.at = tail, !.now = now,
                              !.number = mainTail.number]
  /\ UNCHANGED <<info, mainTail, mainBlock>> /\ ConfUnchanged

(* after the walk: roll back, confirm, or nothing to do *)
AfterRollback(c) ==
  IF c.list = << >> THEN IdleConf ELSE [c EXCEPT !.step = "load", !.at = None]

(* slip: any old block is taken for the locator, main block or not *)
IsAnyOld(b) == Time[b] <= Time[mainTail.hash]

(* the walk meets the old main chain at or below MainTail *)
IsLocator(b) == info[b].main /\ Time[b] <= Time[mainTail.hash]

(* one turn of findTheMainBlockThatCanConfirmOtherBlocks; a missing block     *)
(* makes Confirm return the error                                            *)
FindStep ==
  /\ conf.step = "find"
  /\ LET b   == conf.at
         can == conf.can \/ TimeSliceDifference(conf.now, Slice[b]) > ConfirmBlock
     IN  conf' = IF b = None \/ ~Stored(b) THEN IdleConf
                 ELSE IF can /\ IsLocator(b)
                 THEN IF Time[b] < Time[mainTail.hash]
                      THEN [conf EXCEPT !.step = "rollback", !.locator = b,
                                        !.at = mainTail.hash]
                      ELSE AfterRollback([conf EXCEPT !.locator = b])
                 ELSE [conf EXCEPT
                         !.can = can,
                         !.list = IF can THEN <<b>> \o @ ELSE @,
                         !.applied = IF can /\ info[b].apply THEN @ \cup {b} ELSE @,
                         !.at = info[b].maxLink]
  /\ UNCHANGED <<info, mainTail, mainBlock>> /\ ConfUnchanged

(* Confirm's rollback loop: stop at the locator, or call RollBackStatus *)
RollbackNext ==
  /\ conf.step = "rollback"
  /\ conf' = IF conf.at = None \/ ~Stored(conf.at) THEN IdleConf
             ELSE IF Time[conf.locator] >= Time[conf.at] THEN AfterRollback(conf)
             ELSE [conf EXCEPT !.step = "unwind",
                               !.stack = <<[blk |-> conf.at, next |-> 1]>>]
  /\ UNCHANGED <<info, mainTail, mainBlock>> /\ ConfUnchanged

Top == conf.stack[Len(conf.stack)]
Pop(s) == SubSeq(s, 1, Len(s) - 1)
Descend(h) == Append([conf.stack EXCEPT ![Len(conf.stack)].next = @ + 1],
                     [blk |-> h, next |-> 1])
Advance == [conf.stack EXCEPT ![Len(conf.stack)].next = @ + 1]

(* slip: blocks that the main block itself confirmed are left alone too *)
UnwindLinkUpTo ==
  /\ conf.step = "unwind"
  /\ Top.next <= Len(Links[Top.blk])
  /\ LET h == Links[Top.blk][Top.next]
     IN  conf' = [conf EXCEPT !.stack = IF info[h].number <= conf.number
                                        THEN Advance ELSE Descend(h)]
  /\ UNCHANGED <<info, mainTail, mainBlock>> /\ ConfUnchanged

(* RollBackStatus (the bottom frame) and singleRollBackStatus look at the     *)
(* next link: one that a main block below number confirmed is left alone      *)
UnwindLink ==
  /\ conf.step = "unwind"
  /\ Top.next <= Len(Links[Top.blk])
  /\ LET h == Links[Top.blk][Top.next]
     IN  conf' = [conf EXCEPT !.stack = IF info[h].number < conf.number
                                        THEN Advance ELSE Descend(h)]
  /\ UNCHANGED <<info, mainTail, mainBlock>> /\ ConfUnchanged

(* slip: the Main bit survives *)
RolledBackKeepsMain(i, isMain) ==
  [i EXCEPT !.confirm = FALSE, !.apply = FALSE, !.number = 0]

RolledBack(i, isMain) ==
  [i EXCEPT !.confirm = FALSE, !.apply = FALSE, !.number = 0,
            !.main = IF isMain THEN FALSE ELSE @]

(* ... and, all links done, clear the block's own status *)
UnwindBlock ==
  /\ conf.step = "unwind"
  /\ Top.next > Len(Links[Top.blk])
  /\ LET isMain == Len(conf.stack) = 1
     IN  /\ info' = [info EXCEPT ![Top.blk] = RolledBack(@, isMain)]
         /\ conf' = IF isMain
                    THEN [conf EXCEPT !.step = "rollback", !.number = (@ - 1) % WordSize,
                                      !.at = info[Top.blk].maxLink, !.stack = << >>]
                    ELSE [conf EXCEPT !.stack = Pop(@)]
  /\ UNCHANGED <<mainTail, mainBlock>> /\ ConfUnchanged

(* slip: the state of MainTail, not of the block the rollback stopped at *)
LoadMainTailState ==
  /\ conf.step = "load"
  /\ conf' = IF mainTail.number \notin DOMAIN mainBlock THEN IdleConf
             ELSE [conf EXCEPT !.step = "main",
                               !.state = mainBlock[mainTail.number].state]
  /\ UNCHANGED <<info, mainTail, mainBlock>> /\ ConfUnchanged

(* ReadMainBlock(number) and state.New on its root *)
LoadState ==
  /\ conf.step = "load"
  /\ conf' = IF conf.number \notin DOMAIN mainBlock THEN IdleConf
             ELSE [conf EXCEPT !.step = "main",
                               !.state = mainBlock[conf.number].state]
  /\ UNCHANGED <<info, mainTail, mainBlock>> /\ ConfUnchanged

(* slip: links counted from zero *)
NextMainFromZero ==
  /\ conf.step = "main"
  /\ conf' = [conf EXCEPT !.step = "visit", !.number = (@ + 1) % WordSize,
                          !.stack = <<[blk |-> Head(conf.list), next |-> 0]>>]
  /\ UNCHANGED <<info, mainTail, mainBlock>> /\ ConfUnchanged

(* Confirm takes the next main block and calls singleBlockConfirm *)
NextMain ==
  /\ conf.step = "main"
  /\ conf' = [conf EXCEPT !.step = "visit", !.number = (@ + 1) % WordSize,
                          !.stack = <<[blk |-> Head(conf.list), next |-> 1]>>]
  /\ UNCHANGED <<info, mainTail, mainBlock>> /\ ConfUnchanged

(* singleBlockConfirm looks at the next link: confirmed ones are skipped *)
VisitLink ==
  /\ conf.step = "visit"
  /\ Top.next <= Len(Links[Top.blk])
  /\ LET h == Links[Top.blk][Top.next]
     IN  conf' = [conf EXCEPT !.stack = IF info[h].confirm \/ info[h].main
                                        THEN Advance ELSE Descend(h)]
  /\ UNCHANGED <<info, mainTail, mainBlock>> /\ ConfUnchanged

(* slip: the record is written afresh, without the fields not confirmed here *)
ConfirmedAfresh(i, isMain, applied) ==
  [NoInfo EXCEPT !.confirm = TRUE, !.number = conf.number, !.apply = applied,
                 !.main = IF isMain THEN TRUE ELSE i.main, !.maxLink = i.maxLink]

(* the status singleBlockConfirm writes: a main block carries the status that *)
(* the walk read before the rollback                                         *)
Confirmed(i, isMain, applied) ==
  [i EXCEPT !.confirm = TRUE, !.number = conf.number, !.apply = applied,
            !.main = IF isMain THEN TRUE ELSE @]

(* ... and, all links done, settles the block's accounts and writes its status *)
VisitBlock ==
  /\ conf.step = "visit"
  /\ Top.next > Len(Links[Top.blk])
  /\ LET b      == Top.blk
         isMain == Len(conf.stack) = 1
         ok     == Accepts(b, conf.state.ok)
     IN  /\ info' = [info EXCEPT ![b] = Confirmed(@, isMain,
                                          ok \/ (isMain /\ b \in conf.applied))]
         /\ conf' = [conf EXCEPT
                       !.stack = Pop(@),
                       !.step = IF isMain THEN "commit" ELSE @,
                       !.state = [done |-> @.done \cup {b},
                                  ok |-> IF ok THEN @.ok \cup {b} ELSE @.ok]]
  /\ UNCHANGED <<mainTail, mainBlock>> /\ ConfUnchanged

(* the state is committed and its root written with WriteMainBlock *)
CommitMain ==
  /\ conf.step = "commit"
  /\ mainBlock' = [n \in DOMAIN mainBlock \cup {conf.number} |->
                     IF n = conf.number
                     THEN [hash |-> Head(conf.list), state |-> conf.state]
                     ELSE mainBlock[n]]
  /\ conf' = [conf EXCEPT !.step = "tail"]
  /\ UNCHANGED <<info, mainTail>> /\ ConfUnchanged

(* MainTail moves, in memory and in the database, under mainTailRWLock *)
MoveMainTail ==
  /\ conf.step = "tail"
  /\ mainTail' = [hash |-> Head(conf.list), number |-> conf.number]
  /\ conf' = IF Len(conf.list) = 1 THEN IdleConf
             ELSE [conf EXCEPT !.step = "main", !.list = Tail(@)]
  /\ UNCHANGED <<info, mainBlock>> /\ ConfUnchanged

ConfirmStep ==
  \/ ConfirmBegin \/ FindStep \/ RollbackNext \/ UnwindLink \/ UnwindBlock
  \/ LoadState \/ NextMain \/ VisitLink \/ VisitBlock \/ CommitMain \/ MoveMainTail
------------------------------------------------------------------------------
(* The environment *)

Tick ==
  /\ now < MaxNow
  /\ now' = now + 1
  /\ UNCHANGED <<rlp, info, tail, pervTail, mainTail, mainBlock, pc, blk, taken, conf,
                 crashes>>

(* setPerv, on restart *)
RestartPervTail == IF info[tail].main THEN tail ELSE info[tail].maxLink

(* The process dies and New starts again from the database; a block that was  *)
(* not yet stored can be delivered again.                                     *)
CrashRestart ==
  /\ crashes < MaxCrashes
  /\ crashes' = crashes + 1
  /\ taken' = [b \in Blocks |-> IF b \in rlp THEN taken[b] ELSE 0]
  /\ pc' = [w \in Workers |-> "idle"]
  /\ conf' = IdleConf
  /\ pervTail' = RestartPervTail
  /\ UNCHANGED <<now, rlp, info, tail, mainTail, mainBlock, blk>>

Next ==
  \/ \E w \in Workers :
       \/ \E b \in Blocks : AddBlock(w, b)
       \/ SaveRlp(w) \/ SaveInfo(w) \/ UpdateTailCheck(w) \/ UpdateTailWrite(w)
  \/ ConfirmStep
  \/ Tick
  \/ CrashRestart

(* The Confirm goroutine loops forever; blocks, ticks and crashes need not come. *)
Spec == Init /\ [][Next]_vars /\ WF_vars(ConfirmStep)
------------------------------------------------------------------------------
(* Properties *)

Steps == {"idle", "find", "rollback", "unwind", "load", "main", "visit", "commit",
          "tail"}

Conf == [step : Steps, now : Nat, at : Blocks \cup {None}, can : BOOLEAN,
         list : Seq(Blocks), applied : SUBSET Blocks, locator : Blocks,
         number : Nat, stack : Seq(Frame), state : Ledger]

(* Every variable of the chain, of the workers and of Confirm's locals keeps  *)
(* its type: every frame of Confirm's recursion stands on a block and has a     *)
(* next link to look at, counted from one.                                    *)
TypeOK ==
  /\ now \in Nat /\ crashes \in Nat
  /\ rlp \in SUBSET Blocks
  /\ info \in [Blocks -> Info]
  /\ tail \in Blocks
  /\ pervTail \in Blocks \cup {None}
  /\ mainTail \in [hash : Blocks, number : Nat]
  /\ DOMAIN mainBlock \in SUBSET Nat
  /\ \A n \in DOMAIN mainBlock : mainBlock[n] \in [hash : Blocks, state : Ledger]
  /\ pc \in [Workers -> {"idle", "save", "info", "tail", "write"}]
  /\ blk \in [Workers -> Blocks]
  /\ taken \in [Blocks -> Nat]
  /\ conf \in Conf

(* The shape ComputeCumulativeDiff keeps (main_chain.go:370): a block that    *)
(* leads its slice hangs on a leader of a strictly earlier slice with less    *)
(* cumulative difficulty, any other block hangs on a leader of its own slice  *)
(* with the same cumulative difficulty. So every walk along MaxLinkHash goes  *)
(* back in time to the genesis block.                                         *)
ChainShape ==
  \A b \in Blocks \ {Genesis} : HasInfo(b) =>
    LET m == info[b].maxLink
    IN  /\ m \in Blocks /\ info[m].tmpMax
        /\ IF info[b].tmpMax
           THEN Slice[m] < Slice[b] /\ info[m].cum < info[b].cum
           ELSE Slice[m] = Slice[b] /\ info[m].cum = info[b].cum

(* Tail and PervTail are always stored blocks that lead their slices, so a     *)
(* walk from them visits leaders of strictly earlier slices only and the miner  *)
(* links to a leader, whatever races in UpdateTail (main_chain.go:266) or is    *)
(* reconstructed by setPerv after a crash (main_chain.go:84).                  *)
TailLeads ==
  /\ info[tail].tmpMax
  /\ pervTail \in Blocks /\ info[pervTail].tmpMax

(* the other leaders of b's slice that hang on the same leader as b *)
Rivals(b) ==
  {c \in Blocks \ {b} : info[c].tmpMax /\ Slice[c] = Slice[b] /\ info[c].maxLink = info[b].maxLink}

(* what is added for a block and not subtracted when it is replaced through a  *)
(* follower: the signature is in its hash and not in its GetDiff               *)
Excess == [b \in Blocks |-> Diff[b] - Work[b]]

(* CumulativeDiff, the "cumulative difficulty" (core/types/block.go:109): a     *)
(* leader's is its own GetDiff on top of that of the leader it hangs on, but    *)
(* for the excess of leaders of its slice that it, or one it replaced, replaced *)
(* through their followers (main_chain.go:395, :404). The error stays in the     *)
(* slice: it neither comes from nor depends on another one, whatever the order   *)
(* in which blocks are stored, stored again or lost.                            *)
CumIsChainWork ==
  \A b \in Blocks \ {Genesis} : info[b].tmpMax =>
    \E S \in SUBSET Rivals(b) :
      /\ IsFiniteSet(S)
      /\ info[b].cum = info[info[b].maxLink].cum + Diff[b] + SumFunctionOnSet(Excess, S)

(* A block is never given less cumulative difficulty than any block it links  *)
(* to, so a chain can only grow heavier (main_chain.go:417).                  *)
CumMonotone ==
  \A b \in Blocks : HasInfo(b) =>
    \A h \in Range(Links[b]) : HasInfo(h) /\ info[h].cum <= info[b].cum

(* Between two calls of Confirm, the main blocks are one chain, numbered      *)
(* without a gap from the genesis block along MaxLinkHash, and the main-block *)
(* index names each under its number, whatever was rolled back before.        *)
MainChainNumbered ==
  conf.step = "idle" =>
    \A b \in Blocks : info[b].main =>
      /\ info[b].number \in DOMAIN mainBlock
      /\ mainBlock[info[b].number].hash = b
      /\ b # Genesis => LET m == info[b].maxLink
                        IN  info[m].main /\ info[b].number = info[m].number + 1

(* Where the rollback stops, it stands on the locator: Confirm reports        *)
(* anything else as the error "locatorBlock!=block" (main_chain.go:491).      *)
LocatorOnMainChain ==
  conf.step = "rollback" /\ Time[conf.locator] >= Time[conf.at]
    => conf.at = conf.locator

(* the blocks a block reaches through its links, and itself *)
Ancestors ==
  [b \in Blocks |->
     {a \in Blocks : \A S \in SUBSET Blocks :
        (b \in S /\ \A x \in S : Range(Links[x]) \subseteq S) => a \in S}]

(* The state committed for a main block settles exactly the blocks it reaches *)
(* through links, whatever was confirmed and rolled back before:              *)
(* two nodes with the same main block have the same root (main_chain.go:543). *)
StateOfMainBlock ==
  \A n \in DOMAIN mainBlock :
    mainBlock[n].state.done = Ancestors[mainBlock[n].hash]

(* Between two calls of Confirm, a block is confirmed iff a main block        *)
(* reaches it, and ConfirmItsNumber is the number of the first one that does. *)
ConfirmedByFirstMain ==
  conf.step = "idle" =>
    \A x \in Blocks :
      LET over == {info[b].number : b \in {c \in Blocks : info[c].main /\ x \in Ancestors[c]}}
      IN  IF info[x].confirm
          THEN info[x].number \in over /\ \A n \in over : info[x].number <= n
          ELSE over = {}

(* the walk that led here found the last block of its list, the first one it could *)
(* confirm, ahead of the clock it read                                           *)
WalkedAhead == conf.list # << >> /\ Slice[conf.list[Len(conf.list)]] > conf.now

(* A block becomes a main block only when it is more than ConfirmBlock slices    *)
(* old (main_chain.go:452), with one exception: the unsigned difference of        *)
(* main_chain.go:327 wraps for a tail in the slice after the clock's, which        *)
(* Validation admits (miner_block.go:154), and the tail is confirmed at once with   *)
(* all below it. On any other walk, however long ago it read the clock and          *)
(* whatever was stored or rolled back since, each new main block is deep.          *)
EarlyOnlyAhead ==
  [][\A b \in Blocks : info'[b].main /\ ~info[b].main =>
       WalkedAhead \/ now - Slice[b] > ConfirmBlock]_vars

(* No step moves a stored block: once written, a MutableInfo record keeps its   *)
(* leader, its cumulative difficulty and its flag, even when a second worker     *)
(* stores the block again (block_pool.go:504) or a rollback passes over it.      *)
GraphFixed ==
  \A b \in Blocks : HasInfo(b) =>
    /\ HasInfo(b)'
    /\ info'[b].tmpMax = info[b].tmpMax
    /\ info'[b].cum = info[b].cum
    /\ info'[b].maxLink = info[b].maxLink

PlaceNeverMoves == [][GraphFixed]_vars

(* the blocks on the chain that Tail stands for *)
TailChain ==
  {b \in Blocks : \A S \in SUBSET Blocks :
     (tail \in S /\ \A x \in S \ {Genesis} : info[x].maxLink \in S) => b \in S}

(* In the end no block off the tail chain is a main block, every block of it that  *)
(* is deep enough is one, and MainTail is the latest of them if Tail is deep: no    *)
(* reorganisation, no error return and no early confirmation leaves Confirm stuck. *)
Converges ==
  <>[](/\ \A b \in Blocks : info[b].main => b \in TailChain
       /\ \A b \in TailChain : now - Slice[b] > ConfirmBlock => info[b].main
       /\ now - Slice[tail] > ConfirmBlock => mainTail.hash = tail)
==============================================================================
