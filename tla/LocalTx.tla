------------------------------ MODULE LocalTx ------------------------------
(***************************************************************************)
(* Transactions sent through this node (sdag/transaction/transaction.go).   *)
(*                                                                         *)
(* A send checks the balance against lastState less what earlier sends of    *)
(* the address have pending, builds the block, records it as pending and      *)
(* hands it to the pool. The Confirm goroutine (sdag/mainchain) tells about   *)
(* every block of a local address that it confirms or rolls back, over an      *)
(* unbuffered channel; a receiver goroutine deletes or restores the record.    *)
(* Sends run concurrently (one goroutine per RPC call).                       *)
(*                                                                         *)
(* A state of the ledger is the set of these transactions applied in it. What   *)
(* an address owns in such a state, and whether CalculatingAccounts applies a    *)
(* transaction to it, depend on fees, contracts, receivers, rewards and other    *)
(* blocks, which are Accounts': here they are operators of the instance, with    *)
(* more than one value where the set does not decide. Which blocks a main block   *)
(* confirms is left open, as is whether the pool ever stores a block.           *)
(***************************************************************************)
EXTENDS Integers, FiniteSets, FiniteSetsExt, Sequences

CONSTANTS
  Addresses,
  Own,          \* blocks built here (BlockTransactionSendToSDAG)
  Signed,       \* blocks built by their owner, sent raw or met in the network
  Sender,       \* GetSender
  Amount,       \* calculateAmount(Outs)
  BalanceIn(_, _),  \* the balances an address may have in a state
  Outcomes(_, _),   \* whether a transaction is applied to a state, or both
  Callers,      \* goroutines that serve RPC calls
  MaxMain       \* bound: main blocks

Txs == Own \cup Signed

ASSUME LocalTxAssumption ==
  /\ Own \cap Signed = {} /\ "free" \notin Callers /\ Sender \in [Txs -> Addresses]
  /\ Amount \in [Txs -> Nat] /\ MaxMain \in Nat
  /\ \A S \in SUBSET Txs : /\ \A a \in Addresses : BalanceIn(S, a) \subseteq Int
                           /\ \A t \in Txs : Outcomes(t, S) \subseteq BOOLEAN

VARIABLES
  call,        \* the sends: [pc, tx, balance]
  lock,        \* holder of addressTransactionLock for writing, "free": nobody
  known,       \* addresses with an inner map in addressTransactionMap
  pending,     \* the blocks in these maps
  local,       \* LocalAddress
  rlock,       \* LocalBlockNoticeSend holds LocalAddressRWLock for reading
  dag,         \* stored blocks
  sent,        \* blocks handed to the pool
  confirmedBy, \* ConfirmItsNumber, 0: not confirmed
  conf,        \* the Confirm goroutine: [pc, number, list, tx, action]
  mainTail,    \* MainTail.Number
  root,        \* state committed with each main block
  running,     \* the StateDB of the current Confirm
  lastState, aliased,  \* lastState; whether it is the StateDB of the current Confirm
  recv         \* the receiver goroutine: [pc, tx, action]

rpc == <<call, lock, known, pending, local, sent>>
chain == <<rlock, confirmedBy, conf, mainTail, root, running, lastState, aliased>>
vars == <<rpc, chain, dag, recv>>

Nobody == CHOOSE t \in Txs : TRUE
Idle == [pc |-> "idle", tx |-> Nobody, balance |-> 0]
Rest == [pc |-> "idle", number |-> 0, tx |-> Nobody, action |-> "none"]
Waiting == [pc |-> "wait", tx |-> Nobody, action |-> "none"]

Init ==
  /\ call = [c \in Callers |-> Idle] /\ lock = "free"
  /\ known = {} /\ pending = {} /\ local = {} /\ rlock = FALSE
  /\ dag = {} /\ sent = {} /\ confirmedBy = [t \in Txs |-> 0]
  /\ conf = Rest
  /\ mainTail = 0 /\ root = [n \in 0 .. MaxMain |-> {}]
  /\ running = {} /\ lastState = {} /\ aliased = FALSE
  /\ recv = Waiting

Of(S, a) == {t \in S : Sender[t] = a}
Total(S) == MapThenSumSet(LAMBDA t : Amount[t], S)

-----------------------------------------------------------------------------
(* A send                                                                      *)

At(c, p) == call[c].pc = p
Goto(c, p) == call' = [call EXCEPT ![c].pc = p]

(* transactionCheck, first half: GetBalance. Own blocks are new, signed ones     *)
(* may be sent again                                                            *)
ReadBalance(c, t) ==
  /\ At(c, "idle")
  /\ t \in Own => t \notin sent /\ \A d \in Callers : call[d].tx # t \/ At(d, "idle")
  /\ \E balance \in BalanceIn(lastState, Sender[t]) :
       call' = [call EXCEPT ![c] = IF balance < Amount[t] THEN Idle ELSE [pc |-> "check", tx |-> t, balance |-> balance]]
  /\ UNCHANGED <<lock, known, pending, local, sent, chain, dag, recv>>

(* slip: the address is made local with the check                               *)
CheckMakesLocal(c) ==
  LET a == Sender[call[c].tx]
  IN  /\ At(c, "check") /\ lock = "free"
      /\ IF call[c].balance - Total(Of(pending, a)) < Amount[call[c].tx]
         THEN call' = [call EXCEPT ![c] = Idle] ELSE Goto(c, "record")
      /\ local' = local \cup {a}
      /\ UNCHANGED <<lock, known, pending, sent, chain, dag, recv>>

(* transactionCheck, second half, under the read lock; then the block is built    *)
(* (txBlockConstruction)                                                        *)
CheckPending(c) ==
  LET a == Sender[call[c].tx]
  IN  /\ At(c, "check") /\ lock = "free"
      /\ IF call[c].balance - Total(Of(pending, a)) < Amount[call[c].tx]
         THEN call' = [call EXCEPT ![c] = Idle] ELSE Goto(c, "record")
      /\ UNCHANGED <<lock, known, pending, local, sent, chain, dag, recv>>

(* transactionRecord of an address already known                                *)
RecordKnown(c) ==
  /\ At(c, "record") /\ lock = "free" /\ Sender[call[c].tx] \in known
  /\ pending' = pending \cup {call[c].tx}
  /\ Goto(c, "enqueue")
  /\ UNCHANGED <<lock, known, local, sent, chain, dag, recv>>

(* transactionRecord of a new address: it becomes local under the write lock of    *)
(* LocalAddressRWLock, while addressTransactionLock is held                       *)
RecordNew(c) ==
  /\ At(c, "record") /\ lock = "free" /\ Sender[call[c].tx] \notin known
  /\ lock' = c /\ Goto(c, "address")
  /\ UNCHANGED <<known, pending, local, sent, chain, dag, recv>>

AddLocalAddress(c) ==
  /\ At(c, "address") /\ ~rlock
  /\ local' = local \cup {Sender[call[c].tx]}
  /\ Goto(c, "map")
  /\ UNCHANGED <<lock, known, pending, sent, chain, dag, recv>>

RecordFirst(c) ==
  /\ At(c, "map")
  /\ known' = known \cup {Sender[call[c].tx]} /\ pending' = pending \cup {call[c].tx}
  /\ lock' = "free" /\ Goto(c, "enqueue")
  /\ UNCHANGED <<local, sent, chain, dag, recv>>

(* transactionSendToSDAG; EnQueue never fails                                    *)
EnQueue(c) ==
  /\ At(c, "enqueue")
  /\ sent' = sent \cup {call[c].tx}
  /\ call' = [call EXCEPT ![c] = Idle]
  /\ UNCHANGED <<lock, known, pending, local, chain, dag, recv>>

(* the pool stores a block that was sent here or met in the network              *)
Store(t) ==
  /\ t \notin dag /\ t \in sent \cup Signed
  /\ dag' = dag \cup {t}
  /\ UNCHANGED <<rpc, chain, recv>>

-----------------------------------------------------------------------------
(* Confirm                                                                      *)

Step(p) == conf' = [conf EXCEPT !.pc = p]

ConfirmBegin ==
  /\ conf.pc = "idle"
  /\ conf' = [conf EXCEPT !.pc = "back", !.number = mainTail]
  /\ UNCHANGED <<rpc, rlock, confirmedBy, mainTail, root, running, lastState, aliased, dag, recv>>

(* singleRollBackStatus of a block the main block number confirmed: its entry,     *)
(* then the notice                                                             *)
RollBackBlock(t) ==
  /\ conf.pc = "back" /\ conf.number > 0 /\ confirmedBy[t] >= conf.number
  /\ confirmedBy' = [confirmedBy EXCEPT ![t] = 0]
  /\ conf' = [conf EXCEPT !.pc = "test", !.tx = t, !.action = "RollBack"]
  /\ rlock' = TRUE
  /\ UNCHANGED <<rpc, mainTail, root, running, lastState, aliased, dag, recv>>

(* slip: the walk does not stop at the genesis block                            *)
RollBackOn ==
  /\ conf.pc = "back" /\ \A t \in Txs : confirmedBy[t] < conf.number \/ confirmedBy[t] = 0
  /\ conf' = [conf EXCEPT !.number = @ - 1]
  /\ UNCHANGED <<rpc, rlock, confirmedBy, mainTail, root, running, lastState, aliased, dag, recv>>

(* RollBackStatus of the main block is done                                     *)
RollBackEnd ==
  /\ conf.pc = "back" /\ conf.number > 0 /\ \A t \in Txs : confirmedBy[t] < conf.number
  /\ conf' = [conf EXCEPT !.number = @ - 1]
  /\ UNCHANGED <<rpc, rlock, confirmedBy, mainTail, root, running, lastState, aliased, dag, recv>>

(* no new main block: Confirm returns, MainTail stays                            *)
ConfirmNothing ==
  /\ conf.pc = "back" /\ \A t \in Txs : confirmedBy[t] <= conf.number
  /\ conf' = Rest
  /\ UNCHANGED <<rpc, rlock, confirmedBy, mainTail, root, running, lastState, aliased, dag, recv>>

(* a new StateDB on the root of the last main block kept                         *)
OpenState ==
  /\ conf.pc = "back" /\ conf.number < MaxMain /\ \A t \in Txs : confirmedBy[t] <= conf.number
  /\ running' = root[conf.number] /\ aliased' = FALSE
  /\ conf' = [conf EXCEPT !.pc = "confirm", !.number = @ + 1]
  /\ UNCHANGED <<rpc, rlock, confirmedBy, mainTail, root, lastState, dag, recv>>

(* singleBlockConfirm: the accounts, the entry, then the notice                   *)
ConfirmBlock(t) ==
  /\ conf.pc = "confirm" /\ t \in dag /\ confirmedBy[t] = 0
  /\ \E applied \in Outcomes(t, running) : running' = IF applied THEN running \cup {t} ELSE running
  /\ lastState' = IF aliased THEN running' ELSE lastState
  /\ confirmedBy' = [confirmedBy EXCEPT ![t] = conf.number]
  /\ conf' = [conf EXCEPT !.pc = "test", !.tx = t, !.action = "Confirm"]
  /\ rlock' = TRUE
  /\ UNCHANGED <<rpc, mainTail, root, aliased, dag, recv>>

(* slip: lastState is left                                                      *)
MainBlockDoneOnly ==
  /\ conf.pc = "confirm"
  /\ root' = [root EXCEPT ![conf.number] = running]
  /\ mainTail' = conf.number
  /\ \/ conf' = Rest
     \/ conf.number < MaxMain /\ conf' = [conf EXCEPT !.number = @ + 1]
  /\ UNCHANGED <<rpc, rlock, confirmedBy, running, lastState, aliased, dag, recv>>

(* the main block is confirmed; the loop goes on with the same StateDB            *)
MainBlockDone ==
  /\ conf.pc = "confirm"
  /\ root' = [root EXCEPT ![conf.number] = running]
  /\ mainTail' = conf.number /\ lastState' = running
  /\ \/ conf' = Rest /\ aliased' = FALSE
     \/ conf.number < MaxMain /\ conf' = [conf EXCEPT !.number = @ + 1] /\ aliased' = TRUE
  /\ UNCHANGED <<rpc, rlock, confirmedBy, running, dag, recv>>

Resume == conf' = [Rest EXCEPT !.number = conf.number, !.pc = IF conf.action = "Confirm" THEN "confirm" ELSE "back"]

(* slip: the read lock is kept until the notice is taken                          *)
NoticeTestLocked ==
  /\ conf.pc = "test"
  /\ IF Sender[conf.tx] \in local THEN Step("send") /\ UNCHANGED rlock ELSE Resume /\ rlock' = FALSE
  /\ UNCHANGED <<rpc, confirmedBy, mainTail, root, running, lastState, aliased, dag, recv>>

(* LocalBlockNoticeSend: LocalAddress is read under the read lock, which is given   *)
(* back before the send                                                         *)
NoticeTest ==
  /\ conf.pc = "test"
  /\ IF Sender[conf.tx] \in local THEN Step("send") ELSE Resume
  /\ rlock' = FALSE
  /\ UNCHANGED <<rpc, confirmedBy, mainTail, root, running, lastState, aliased, dag, recv>>

(* the channel is unbuffered: the send ends when the receiver is there             *)
NoticeTaken ==
  /\ conf.pc = "send" /\ recv.pc = "wait"
  /\ recv' = [pc |-> "got", tx |-> conf.tx, action |-> conf.action]
  /\ Resume /\ rlock' = FALSE
  /\ UNCHANGED <<rpc, confirmedBy, mainTail, root, running, lastState, aliased, dag>>

-----------------------------------------------------------------------------
(* slip: a rollback is not looked at                                            *)
ReceiveConfirmOnly ==
  /\ recv.pc = "got" /\ lock = "free"
  /\ pending' = IF recv.action = "Confirm" THEN pending \ {recv.tx} ELSE pending
  /\ recv' = [recv EXCEPT !.pc = "log"]
  /\ UNCHANGED <<call, lock, known, local, sent, chain, dag>>

(* ReceiveTransactionAction: one notice, under the write lock                     *)
Receive ==
  /\ recv.pc = "got" /\ lock = "free"
  /\ pending' = IF recv.action = "Confirm" THEN pending \ {recv.tx} ELSE pending \cup {recv.tx}
  /\ recv' = [recv EXCEPT !.pc = "log"]
  /\ UNCHANGED <<call, lock, known, local, sent, chain, dag>>

(* the records are counted for the log under the read lock; then the next notice   *)
ReceiveLog ==
  /\ recv.pc = "log" /\ lock = "free"
  /\ recv' = Waiting
  /\ UNCHANGED <<rpc, chain, dag>>

SendStep(c) == CheckPending(c) \/ RecordKnown(c) \/ RecordNew(c) \/ AddLocalAddress(c) \/ RecordFirst(c) \/ EnQueue(c)
ChainStep == NoticeTest \/ NoticeTaken \/ MainBlockDone \/ RollBackEnd \/ ConfirmNothing \/ OpenState
             \/ \E t \in Txs : RollBackBlock(t) \/ ConfirmBlock(t)

Next ==
  \/ \E c \in Callers : SendStep(c) \/ \E t \in Txs : ReadBalance(c, t)
  \/ \E t \in Txs : Store(t)
  \/ ConfirmBegin \/ ChainStep \/ Receive \/ ReceiveLog

Spec == Init /\ [][Next]_vars

-----------------------------------------------------------------------------
(* Every variable stays in its set; in particular the rollback stops at the genesis    *)
(* block, whose number is 0 (RollBackEnd).                                           *)
TypeOK ==
  /\ \A c \in Callers : call[c].tx \in Txs /\ call[c].balance \in Int
  /\ \A c \in Callers : call[c].pc \in {"idle", "check", "record", "address", "map", "enqueue"}
  /\ lock \in Callers \cup {"free"} /\ {known, local} \subseteq SUBSET Addresses
  /\ {pending, dag, sent, running, lastState} \subseteq SUBSET Txs /\ {rlock, aliased} \subseteq BOOLEAN
  /\ confirmedBy \in [Txs -> 0 .. MaxMain] /\ mainTail \in 0 .. MaxMain
  /\ conf.pc \in {"idle", "back", "confirm", "test", "send"} /\ conf.number \in 0 .. MaxMain
  /\ recv.pc \in {"wait", "got", "log"} /\ recv.tx \in Txs
  /\ root \in [0 .. MaxMain -> SUBSET Txs]

NoticeOf(t) == \/ conf.pc \in {"test", "send"} /\ conf.tx = t
               \/ recv.pc = "got" /\ recv.tx = t

(* The record of a block built here follows its fate: pending while it is not       *)
(* confirmed, again after a rollback, and not after a confirmation. No notice is      *)
(* missed because the address was not yet local and none is overtaken by the record    *)
(* itself (transactionRecord before EnQueue, LocalBlockNoticeSend, receiver).        *)
PendingFollows ==
  \A t \in Own \cap sent : ~NoticeOf(t) => (t \in pending <=> confirmedBy[t] = 0)

(* The receiver restores a record only in a map that exists: the address becomes      *)
(* local before its map is made, but under the lock the receiver needs.              *)
MapExists == recv.pc = "got" /\ recv.action = "RollBack" /\ lock = "free" => Sender[recv.tx] \in known

(* the main block that confirms t is the one Confirm is at work on                   *)
Confirming == conf.pc = "confirm" \/ (conf.pc \in {"test", "send"} /\ conf.action = "Confirm")
InHand(t) == Confirming /\ confirmedBy[t] = conf.number
(* t was confirmed, but not applied                                                 *)
Refused(t) == confirmedBy[t] # 0 /\ t \notin IF InHand(t) THEN running ELSE root[confirmedBy[t]]

(* A block that was sent from here is counted by the next send: it is on record, or     *)
(* its effect is in lastState, through every reorganisation and although lastState may  *)
(* be the StateDB that Confirm goes on with. The one gap is the main block in hand,      *)
(* whose notices delete records before lastState follows at its end (Confirm,           *)
(* singleBlockConfirm, the receiver, transactionCheck).                               *)
CountedSomewhere ==
  \A t \in Own \cap sent : ~NoticeOf(t) => t \in pending \cup lastState \/ Refused(t) \/ InHand(t)

(* Confirm, the receiver and a send never wait for each other in a circle: Confirm     *)
(* for the receiver to take a notice, the receiver for addressTransactionLock, and its   *)
(* holder, which makes an address local, for LocalAddressRWLock.                      *)
ConfirmWaits == conf.pc = "send" /\ recv.pc # "wait"
ReceiverWaits == recv.pc \in {"got", "log"} /\ lock # "free"
HolderWaits == lock # "free" /\ At(lock, "address") /\ rlock
NoCircularWait == ~(ConfirmWaits /\ ReceiverWaits /\ HolderWaits)
=============================================================================
