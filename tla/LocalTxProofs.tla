---------------------------- MODULE LocalTxProofs ----------------------------
(***************************************************************************)
(* Proofs about LocalTx, for any transactions, addresses and callers.       *)
(*                                                                         *)
(* A record of a block built here is deleted and restored by notices that    *)
(* are sent some steps after the fact they tell about, and by a goroutine     *)
(* that may come late. The inductive invariant says what is known of a notice *)
(* while it is under way, and who may still touch a record.                   *)
(***************************************************************************)
EXTENDS LocalTx, TLAPS

Pcs == {"idle", "check", "record", "address", "map", "enqueue"}
Actions == {"Confirm", "RollBack"}

(* The parts of the state that have a shape.                                   *)
CallsOK ==
  /\ call = [c \in Callers |-> call[c]]
  /\ \A c \in Callers :
       /\ call[c] = [pc |-> call[c].pc, tx |-> call[c].tx, balance |-> call[c].balance]
       /\ call[c].pc \in Pcs
       /\ ~At(c, "idle") => call[c].tx \in Txs

Noticing == conf.pc \in {"test", "send"}
ConfOK ==
  /\ conf = [pc |-> conf.pc, number |-> conf.number, tx |-> conf.tx, action |-> conf.action]
  /\ conf.pc \in {"idle", "back", "confirm", "test", "send"} /\ conf.number \in 0 .. MaxMain
  /\ Noticing => conf.tx \in Txs /\ conf.action \in Actions
  /\ conf.pc = "confirm" \/ (Noticing /\ conf.action = "Confirm") => conf.number > 0
  /\ mainTail \in 0 .. MaxMain
  /\ confirmedBy \in [Txs -> 0 .. MaxMain]

Got == recv.pc = "got"
RecvOK ==
  /\ recv = [pc |-> recv.pc, tx |-> recv.tx, action |-> recv.action]
  /\ recv.pc \in {"wait", "got", "log"}
  /\ Got => recv.tx \in Txs /\ recv.action \in Actions

(* Who holds which lock.                                                       *)
LockInv ==
  /\ lock \in Callers \cup {"free"}
  /\ \A c \in Callers : lock = c <=> call[c].pc \in {"address", "map"}
  /\ rlock <=> conf.pc = "test"

(* An address is local before it has a map only while its caller holds the lock.  *)
LocalInv ==
  /\ known \subseteq local
  /\ \A c \in Callers : At(c, "map") => Sender[call[c].tx] \in local
  /\ \A a \in local : a \in known \/ \E c \in Callers : At(c, "map") /\ Sender[call[c].tx] = a
  /\ conf.pc = "send" => Sender[conf.tx] \in local
  /\ Got => Sender[recv.tx] \in local

(* A block built here goes through one call, which records it before the pool has  *)
(* it.                                                                         *)
OwnInv ==
  /\ \A c \in Callers : ~At(c, "idle") /\ call[c].tx \in Own =>
       /\ call[c].tx \notin sent
       /\ \A d \in Callers : ~At(d, "idle") /\ call[d].tx = call[c].tx => c = d
       /\ At(c, "enqueue") => call[c].tx \in pending /\ Sender[call[c].tx] \in known
  /\ \A t \in Own : t \in dag => t \in sent
  /\ \A t \in Own : t \in sent => Sender[t] \in known

(* A notice under way is about a stored block, and it is up to date unless Confirm   *)
(* has a newer one of the same block.                                             *)
NoticeInv ==
  /\ \A t \in Txs : confirmedBy[t] # 0 => t \in dag
  /\ Noticing => /\ conf.tx \in dag
                 /\ conf.action = "Confirm" <=> confirmedBy[conf.tx] # 0
  /\ Got => /\ recv.tx \in dag
            /\ ~(Noticing /\ conf.tx = recv.tx) => (recv.action = "Confirm" <=> confirmedBy[recv.tx] # 0)

IInv == CallsOK /\ ConfOK /\ RecvOK /\ LockInv /\ LocalInv /\ OwnInv /\ NoticeInv /\ PendingFollows
-----------------------------------------------------------------------------
LEMMA InitInv == Init => IInv
  <1> SUFFICES ASSUME Init PROVE IInv
    OBVIOUS
  <1> USE DEF Init, Idle, Rest, Waiting
  <1>1. CallsOK
    BY DEF CallsOK, Pcs, At
  <1>2. ConfOK /\ RecvOK
    BY LocalTxAssumption DEF ConfOK, RecvOK, Noticing, Got
  <1>3. LockInv
    <2>1. ~rlock
      BY Zenon
    <2> QED
      BY <2>1, LocalTxAssumption DEF LockInv
  <1>4. LocalInv /\ OwnInv
    BY DEF LocalInv, OwnInv, At, Got
  <1>5. NoticeInv /\ PendingFollows
    BY DEF NoticeInv, PendingFollows, Noticing, Got
  <1> QED
    BY <1>1, <1>2, <1>3, <1>4, <1>5 DEF IInv
-----------------------------------------------------------------------------
(* How a step changes the call it belongs to.                                    *)
LEMMA CallMoves ==
  ASSUME CallsOK, NEW c \in Callers, NEW p \in Pcs, ~At(c, "idle"), Goto(c, p)
  PROVE  /\ CallsOK'
         /\ call'[c].pc = p /\ call'[c].tx = call[c].tx
         /\ \A d \in Callers : d # c => call'[d] = call[d]
  BY DEF CallsOK, Goto, At

LEMMA CallSet ==
  ASSUME CallsOK, NEW c \in Callers, NEW p \in Pcs, NEW t, NEW b, p # "idle" => t \in Txs,
         call' = [call EXCEPT ![c] = [pc |-> p, tx |-> t, balance |-> b]]
  PROVE  /\ CallsOK'
         /\ call'[c].pc = p /\ call'[c].tx = t
         /\ \A d \in Callers : d # c => call'[d] = call[d]
  BY DEF CallsOK, At

LEMMA CallIdle ==
  ASSUME CallsOK, NEW c \in Callers, call' = [call EXCEPT ![c] = Idle]
  PROVE  /\ CallsOK' /\ call'[c].pc = "idle"
         /\ \A d \in Callers : d # c => call'[d] = call[d]
  BY DEF CallsOK, Idle, At, Pcs

(* What a send leaves alone.                                                    *)
LEMMA SendLeaves ==
  ASSUME IInv, UNCHANGED <<chain, dag, recv>>
  PROVE  ConfOK' /\ RecvOK' /\ NoticeInv' /\ \A t : NoticeOf(t)' <=> NoticeOf(t)
  BY DEF IInv, ConfOK, RecvOK, NoticeInv, NoticeOf, Noticing, Got, chain

(* A call that moves between places where it holds no lock and has recorded          *)
(* nothing disturbs nothing.                                                       *)
LEMMA QuietMove ==
  ASSUME IInv, NEW c \in Callers, CallsOK', UNCHANGED <<lock, known, pending, local, sent, chain, dag, recv>>,
         call[c].pc \notin {"address", "map"}, call'[c].pc \in {"idle", "check", "record"},
         \A d \in Callers : d # c => call'[d] = call[d],
         call'[c].pc # "idle" /\ call'[c].tx \in Own =>
           /\ call'[c].tx \notin sent
           /\ \A d \in Callers : ~At(d, "idle") /\ call[d].tx = call'[c].tx => c = d
  PROVE  IInv'
  <1> USE DEF IInv
  <1>1. ConfOK' /\ RecvOK' /\ NoticeInv' /\ \A t : NoticeOf(t)' <=> NoticeOf(t)
    BY SendLeaves
  <1>2. UNCHANGED <<rlock, confirmedBy, conf>>
    BY DEF chain
  <1>3. LockInv'
    <2>1. rlock' <=> conf'.pc = "test"
      BY <1>2 DEF LockInv
    <2>2. \A d \in Callers : lock' = d <=> call'[d].pc \in {"address", "map"}
      BY DEF LockInv
    <2> QED
      BY <2>1, <2>2 DEF LockInv
  <1>4. LocalInv'
    BY <1>2 DEF LocalInv, At, Got
  <1>5. OwnInv'
    BY DEF OwnInv, At
  <1>6. PendingFollows'
    BY <1>1, <1>2 DEF PendingFollows
  <1> QED
    BY <1>1, <1>3, <1>4, <1>5, <1>6

LEMMA ReadBalanceKeeps ==
  ASSUME IInv, NEW c \in Callers, NEW t \in Txs, ReadBalance(c, t)
  PROVE  IInv'
  <1>1. PICK b : \/ call' = [call EXCEPT ![c] = Idle]
                 \/ call' = [call EXCEPT ![c] = [pc |-> "check", tx |-> t, balance |-> b]]
    BY DEF ReadBalance
  <1>2. ASSUME call' = [call EXCEPT ![c] = Idle] PROVE IInv'
    BY <1>2, CallIdle, QuietMove DEF ReadBalance, At, IInv
  <1>3. ASSUME call' = [call EXCEPT ![c] = [pc |-> "check", tx |-> t, balance |-> b]] PROVE IInv'
    <2>1. /\ CallsOK' /\ call'[c].pc = "check" /\ call'[c].tx = t
          /\ \A d \in Callers : d # c => call'[d] = call[d]
      BY <1>3, CallSet DEF IInv, Pcs
    <2>2. t \in Own => t \notin sent /\ \A d \in Callers : ~At(d, "idle") /\ call[d].tx = t => c = d
      BY DEF ReadBalance
    <2>3. At(c, "idle") /\ UNCHANGED <<lock, known, pending, local, sent, chain, dag, recv>>
      BY DEF ReadBalance
    <2> QED
      BY <2>1, <2>2, <2>3, QuietMove DEF At
  <1> QED
    BY <1>1, <1>2, <1>3

LEMMA CheckPendingKeeps ==
  ASSUME IInv, NEW c \in Callers, CheckPending(c)
  PROVE  IInv'
  <1>1. At(c, "check") /\ UNCHANGED <<lock, known, pending, local, sent, chain, dag, recv>>
    BY DEF CheckPending
  <1>2. call' = [call EXCEPT ![c] = Idle] \/ Goto(c, "record")
    BY DEF CheckPending
  <1>3. ASSUME call' = [call EXCEPT ![c] = Idle] PROVE IInv'
    BY <1>1, <1>3, CallIdle, QuietMove DEF At, IInv
  <1>4. ASSUME Goto(c, "record") PROVE IInv'
    <2>1. /\ CallsOK' /\ call'[c].pc = "record" /\ call'[c].tx = call[c].tx
          /\ \A d \in Callers : d # c => call'[d] = call[d]
      BY <1>1, <1>4, CallMoves DEF IInv, At, Pcs
    <2>2. call[c].tx \in Own =>
            call[c].tx \notin sent /\ \A d \in Callers : ~At(d, "idle") /\ call[d].tx = call[c].tx => c = d
      BY <1>1 DEF IInv, OwnInv, At
    <2> QED
      BY <1>1, <2>1, <2>2, QuietMove DEF At
  <1> QED
    BY <1>2, <1>3, <1>4

LEMMA RecordKnownKeeps ==
  ASSUME IInv, NEW c \in Callers, RecordKnown(c)
  PROVE  IInv'
  <1> USE DEF IInv
  <1> DEFINE t == call[c].tx
  <1>1. /\ At(c, "record") /\ Sender[t] \in known /\ pending' = pending \cup {t}
        /\ UNCHANGED <<lock, known, local, sent, chain, dag, recv>>
    BY DEF RecordKnown
  <1>2. /\ CallsOK' /\ call'[c].pc = "enqueue" /\ call'[c].tx = t
        /\ \A d \in Callers : d # c => call'[d] = call[d]
    BY <1>1, CallMoves DEF RecordKnown, At, Pcs
  <1>3. ConfOK' /\ RecvOK' /\ NoticeInv' /\ \A u : NoticeOf(u)' <=> NoticeOf(u)
    BY <1>1, SendLeaves
  <1>4. UNCHANGED <<rlock, confirmedBy, conf>>
    BY <1>1 DEF chain
  <1>5. LockInv'
    <2>1. rlock' <=> conf'.pc = "test"
      BY <1>4 DEF LockInv
    <2>2. \A d \in Callers : lock' = d <=> call'[d].pc \in {"address", "map"}
      BY <1>1, <1>2 DEF LockInv, At
    <2> QED
      BY <1>1, <2>1, <2>2 DEF LockInv
  <1>6. LocalInv'
    BY <1>1, <1>2, <1>4 DEF LocalInv, At, Got
  <1>7. t \in Own => t \notin sent
    BY <1>1 DEF OwnInv, At
  <1>8. OwnInv'
    BY <1>1, <1>2 DEF OwnInv, At
  <1>9. PendingFollows'
    BY <1>1, <1>3, <1>4, <1>7 DEF PendingFollows
  <1> QED
    BY <1>2, <1>3, <1>5, <1>6, <1>8, <1>9

LEMMA RecordNewKeeps ==
  ASSUME IInv, NEW c \in Callers, RecordNew(c)
  PROVE  IInv'
  <1> USE DEF IInv
  <1>1. /\ At(c, "record") /\ lock = "free" /\ lock' = c
        /\ UNCHANGED <<known, pending, local, sent, chain, dag, recv>>
    BY DEF RecordNew
  <1>2. /\ CallsOK' /\ call'[c].pc = "address" /\ call'[c].tx = call[c].tx
        /\ \A d \in Callers : d # c => call'[d] = call[d]
    BY <1>1, CallMoves DEF RecordNew, At, Pcs
  <1>3. ConfOK' /\ RecvOK' /\ NoticeInv' /\ \A u : NoticeOf(u)' <=> NoticeOf(u)
    BY <1>1, SendLeaves
  <1>4. UNCHANGED <<rlock, confirmedBy, conf>>
    BY <1>1 DEF chain
  <1>5. LockInv'
    <2>1. rlock' <=> conf'.pc = "test"
      BY <1>4 DEF LockInv
    <2>2. \A d \in Callers : lock' = d <=> call'[d].pc \in {"address", "map"}
      BY <1>1, <1>2, LocalTxAssumption DEF LockInv
    <2> QED
      BY <1>1, <2>1, <2>2 DEF LockInv
  <1>6. LocalInv'
    BY <1>1, <1>2, <1>4 DEF LocalInv, At, Got
  <1>7. OwnInv'
    BY <1>1, <1>2 DEF OwnInv, At
  <1>8. PendingFollows'
    BY <1>1, <1>3, <1>4 DEF PendingFollows
  <1> QED
    BY <1>2, <1>3, <1>5, <1>6, <1>7, <1>8

LEMMA AddLocalAddressKeeps ==
  ASSUME IInv, NEW c \in Callers, AddLocalAddress(c)
  PROVE  IInv'
  <1> USE DEF IInv
  <1> DEFINE t == call[c].tx
  <1>1. /\ At(c, "address") /\ local' = local \cup {Sender[t]}
        /\ UNCHANGED <<lock, known, pending, sent, chain, dag, recv>>
    BY DEF AddLocalAddress
  <1>2. /\ CallsOK' /\ call'[c].pc = "map" /\ call'[c].tx = t
        /\ \A d \in Callers : d # c => call'[d] = call[d]
    BY <1>1, CallMoves DEF AddLocalAddress, At, Pcs
  <1>3. ConfOK' /\ RecvOK' /\ NoticeInv' /\ \A u : NoticeOf(u)' <=> NoticeOf(u)
    BY <1>1, SendLeaves
  <1>4. UNCHANGED <<rlock, confirmedBy, conf>>
    BY <1>1 DEF chain
  <1>5. LockInv'
    <2>1. rlock' <=> conf'.pc = "test"
      BY <1>4 DEF LockInv
    <2>2. \A d \in Callers : lock' = d <=> call'[d].pc \in {"address", "map"}
      BY <1>1, <1>2 DEF LockInv, At
    <2> QED
      BY <1>1, <2>1, <2>2 DEF LockInv
  <1>6. LocalInv'
    BY <1>1, <1>2, <1>4 DEF LocalInv, At, Got
  <1>7. OwnInv'
    BY <1>1, <1>2 DEF OwnInv, At
  <1>8. PendingFollows'
    BY <1>1, <1>3, <1>4 DEF PendingFollows
  <1> QED
    BY <1>2, <1>3, <1>5, <1>6, <1>7, <1>8

(* The only caller at "map" gives the address its map and the lock back.            *)
LEMMA RecordFirstKeeps ==
  ASSUME IInv, NEW c \in Callers, RecordFirst(c)
  PROVE  IInv'
  <1> USE DEF IInv
  <1> DEFINE t == call[c].tx
  <1>1. /\ At(c, "map") /\ known' = known \cup {Sender[t]} /\ pending' = pending \cup {t} /\ lock' = "free"
        /\ UNCHANGED <<local, sent, chain, dag, recv>>
    BY DEF RecordFirst
  <1>2. /\ CallsOK' /\ call'[c].pc = "enqueue" /\ call'[c].tx = t
        /\ \A d \in Callers : d # c => call'[d] = call[d]
    BY <1>1, CallMoves DEF RecordFirst, At, Pcs
  <1>3. ConfOK' /\ RecvOK' /\ NoticeInv' /\ \A u : NoticeOf(u)' <=> NoticeOf(u)
    BY <1>1, SendLeaves
  <1>4. UNCHANGED <<rlock, confirmedBy, conf>>
    BY <1>1 DEF chain
  <1>5. \A d \in Callers : d # c => call[d].pc \notin {"address", "map"}
    BY <1>1 DEF LockInv, At
  <1>6. LockInv'
    <2>1. rlock' <=> conf'.pc = "test"
      BY <1>4 DEF LockInv
    <2>2. \A d \in Callers : lock' = d <=> call'[d].pc \in {"address", "map"}
      BY <1>1, <1>2, <1>5, LocalTxAssumption
    <2> QED
      BY <1>1, <2>1, <2>2 DEF LockInv
  <1>7. Sender[t] \in local
    BY <1>1 DEF LocalInv
  <1>8. LocalInv'
    BY <1>1, <1>2, <1>4, <1>5, <1>7 DEF LocalInv, At, Got
  <1>9. t \in Own => t \notin sent
    BY <1>1 DEF OwnInv, At
  <1>10. OwnInv'
    BY <1>1, <1>2 DEF OwnInv, At
  <1>11. PendingFollows'
    BY <1>1, <1>3, <1>4, <1>9 DEF PendingFollows
  <1> QED
    BY <1>2, <1>3, <1>6, <1>8, <1>10, <1>11
(* The pool gets the block: from now on the record follows it.                     *)
LEMMA EnQueueKeeps ==
  ASSUME IInv, NEW c \in Callers, EnQueue(c)
  PROVE  IInv'
  <1> USE DEF IInv
  <1> DEFINE t == call[c].tx
  <1>1. /\ At(c, "enqueue") /\ sent' = sent \cup {t}
        /\ UNCHANGED <<lock, known, pending, local, chain, dag, recv>>
    BY DEF EnQueue
  <1>2. /\ CallsOK' /\ call'[c].pc = "idle"
        /\ \A d \in Callers : d # c => call'[d] = call[d]
    BY CallIdle DEF EnQueue
  <1>3. ConfOK' /\ RecvOK' /\ NoticeInv' /\ \A u : NoticeOf(u)' <=> NoticeOf(u)
    BY <1>1, SendLeaves
  <1>4. UNCHANGED <<rlock, confirmedBy, conf>>
    BY <1>1 DEF chain
  <1>5. LockInv'
    <2>1. rlock' <=> conf'.pc = "test"
      BY <1>4 DEF LockInv
    <2>2. \A d \in Callers : lock' = d <=> call'[d].pc \in {"address", "map"}
      BY <1>1, <1>2 DEF LockInv, At
    <2> QED
      BY <1>1, <2>1, <2>2 DEF LockInv
  <1>6. LocalInv'
    BY <1>1, <1>2, <1>4 DEF LocalInv, At, Got
  <1>7. t \in Txs /\ (t \in Own => t \notin sent /\ t \in pending /\ Sender[t] \in known)
    BY <1>1 DEF OwnInv, CallsOK, At
  <1>8. \A d \in Callers : d # c /\ ~At(d, "idle") /\ call[d].tx = t => t \notin Own
    BY <1>1 DEF OwnInv, At
  <1>9. OwnInv'
    <2>1. \A d \in Callers : ~At(d, "idle")' => d # c /\ call'[d] = call[d] /\ ~At(d, "idle")
      BY <1>2 DEF At
    <2> QED
      BY <1>1, <1>2, <1>7, <1>8, <2>1 DEF OwnInv, At
  <1>10. t \in Own => confirmedBy[t] = 0
    BY <1>7 DEF OwnInv, NoticeInv
  <1>11. PendingFollows'
    BY <1>1, <1>3, <1>4, <1>7, <1>10 DEF PendingFollows
  <1> QED
    BY <1>2, <1>3, <1>5, <1>6, <1>9, <1>11

LEMMA StoreKeeps ==
  ASSUME IInv, NEW t \in Txs, Store(t)
  PROVE  IInv'
  <1> USE DEF IInv
  <1>1. dag' = dag \cup {t} /\ UNCHANGED <<call, lock, known, pending, local, sent, recv>>
    BY DEF Store, rpc
  <1>2. UNCHANGED <<rlock, confirmedBy, conf, mainTail>>
    BY DEF Store, chain
  <1>3. t \in Own => t \in sent
    BY LocalTxAssumption DEF Store
  <1>4. CallsOK' /\ RecvOK' /\ LocalInv'
    BY <1>1, <1>2 DEF CallsOK, RecvOK, LocalInv, At, Got
  <1>5. ConfOK' /\ LockInv'
    BY <1>1, <1>2 DEF ConfOK, LockInv, Noticing
  <1>6. OwnInv'
    BY <1>1, <1>3 DEF OwnInv, At
  <1>7. NoticeInv'
    BY <1>1, <1>2 DEF NoticeInv, Noticing, Got
  <1>8. PendingFollows'
    BY <1>1, <1>2 DEF PendingFollows, NoticeOf
  <1> QED
    BY <1>4, <1>5, <1>6, <1>7, <1>8
-----------------------------------------------------------------------------
(* Confirm                                                                      *)

(* What Confirm leaves alone.                                                    *)
LEMMA ConfirmLeaves ==
  ASSUME IInv, UNCHANGED <<rpc, dag>>
  PROVE  CallsOK' /\ OwnInv'
  BY DEF IInv, CallsOK, OwnInv, At, rpc

LEMMA LocksApart ==
  ASSUME IInv, UNCHANGED rpc, rlock' <=> conf'.pc = "test"
  PROVE  LockInv'
  BY DEF IInv, LockInv, rpc

(* Steps between two notices.                                                    *)
LEMMA WalkKeeps ==
  ASSUME IInv, UNCHANGED <<rpc, rlock, confirmedBy, dag, recv>>, ConfOK', ~Noticing, ~Noticing'
  PROVE  IInv'
  <1> USE DEF IInv
  <1>1. conf.pc # "test" /\ conf'.pc # "test" /\ conf'.pc # "send" /\ conf.pc # "send"
    BY DEF Noticing
  <1>2. CallsOK' /\ OwnInv' /\ RecvOK'
    BY ConfirmLeaves DEF RecvOK, Got
  <1>3. LockInv'
    BY <1>1, LocksApart DEF LockInv
  <1>4. LocalInv'
    BY <1>1 DEF LocalInv, At, Got, rpc
  <1>5. NoticeInv'
    BY DEF NoticeInv, Got
  <1>6. PendingFollows'
    BY <1>1 DEF PendingFollows, NoticeOf, rpc
  <1> QED
    BY <1>2, <1>3, <1>4, <1>5, <1>6

LEMMA WalkStep ==
  ASSUME IInv, ConfirmBegin \/ RollBackEnd \/ ConfirmNothing \/ OpenState \/ MainBlockDone
  PROVE  IInv'
  <1> USE DEF IInv
  <1>1. UNCHANGED <<rpc, rlock, confirmedBy, dag, recv>>
    BY DEF ConfirmBegin, RollBackEnd, ConfirmNothing, OpenState, MainBlockDone
  <1>2. ~Noticing
    BY DEF ConfirmBegin, RollBackEnd, ConfirmNothing, OpenState, MainBlockDone, Noticing
  <1>3. ConfOK' /\ ~Noticing'
    <2> USE DEF ConfOK, Noticing
    <2>1. ASSUME ConfirmBegin PROVE ConfOK' /\ ~Noticing'
      BY <2>1 DEF ConfirmBegin
    <2>2. ASSUME RollBackEnd PROVE ConfOK' /\ ~Noticing'
      BY <2>2, LocalTxAssumption DEF RollBackEnd
    <2>3. ASSUME ConfirmNothing PROVE ConfOK' /\ ~Noticing'
      BY <2>3, LocalTxAssumption DEF ConfirmNothing, Rest
    <2>4. ASSUME OpenState PROVE ConfOK' /\ ~Noticing'
      <3>1. /\ conf.number < MaxMain /\ conf.pc = "back" /\ UNCHANGED <<mainTail, confirmedBy>>
            /\ conf' = [conf EXCEPT !.pc = "confirm", !.number = @ + 1]
        BY <2>4 DEF OpenState
      <3>2. /\ conf'.pc = "confirm" /\ conf'.number = conf.number + 1
            /\ conf' = [pc |-> conf'.pc, number |-> conf'.number, tx |-> conf'.tx, action |-> conf'.action]
        BY <3>1
      <3>3. conf'.number \in 0 .. MaxMain /\ conf'.number > 0
        BY <3>1, <3>2, LocalTxAssumption
      <3> QED
        BY <3>1, <3>2, <3>3
    <2>5. ASSUME MainBlockDone PROVE ConfOK' /\ ~Noticing'
      <3>1. conf' = Rest \/ (conf.number < MaxMain /\ conf' = [conf EXCEPT !.number = @ + 1])
        BY <2>5 DEF MainBlockDone
      <3>2. conf.pc = "confirm" /\ mainTail' = conf.number /\ UNCHANGED confirmedBy
        BY <2>5 DEF MainBlockDone
      <3>3. CASE conf' = Rest
        BY <3>2, <3>3, LocalTxAssumption DEF Rest
      <3>4. CASE conf.number < MaxMain /\ conf' = [conf EXCEPT !.number = @ + 1]
        BY <3>2, <3>4, LocalTxAssumption
      <3> QED
        BY <3>1, <3>3, <3>4
    <2> QED
      BY <2>1, <2>2, <2>3, <2>4, <2>5
  <1> QED
    BY <1>1, <1>2, <1>3, WalkKeeps

(* A block changes its fate: the notice of it begins.                              *)
LEMMA NoticeBegins ==
  ASSUME IInv, NEW t \in dag, t \in Txs, NEW n \in 0 .. MaxMain, NEW a \in Actions, ~Noticing,
         UNCHANGED <<rpc, mainTail, dag, recv>>,
         confirmedBy' = [confirmedBy EXCEPT ![t] = n],
         conf' = [conf EXCEPT !.pc = "test", !.tx = t, !.action = a],
         a = "Confirm" <=> n # 0, a = "Confirm" => conf.number > 0, rlock'
  PROVE  IInv'
  <1> USE DEF IInv
  <1>1. /\ conf'.pc = "test" /\ conf'.tx = t /\ conf'.action = a /\ conf'.number = conf.number
        /\ conf' = [pc |-> conf'.pc, number |-> conf'.number, tx |-> conf'.tx, action |-> conf'.action]
    BY DEF ConfOK
  <1>2. /\ confirmedBy' \in [Txs -> 0 .. MaxMain] /\ confirmedBy'[t] = n
        /\ \A u \in Txs : u # t => confirmedBy'[u] = confirmedBy[u]
    BY DEF ConfOK
  <1>3. CallsOK' /\ OwnInv' /\ RecvOK'
    BY ConfirmLeaves DEF RecvOK, Got
  <1>4. ConfOK'
    BY <1>1, <1>2 DEF ConfOK, Noticing
  <1>5. LockInv'
    BY <1>1, LocksApart
  <1>6. LocalInv'
    BY <1>1 DEF LocalInv, At, Got, rpc
  <1>7. NoticeInv'
    BY <1>1, <1>2 DEF NoticeInv, Noticing, Got, RecvOK
  <1>8. \A u \in Txs : u # t => (NoticeOf(u)' <=> NoticeOf(u))
    BY <1>1 DEF NoticeOf, Noticing
  <1>9. NoticeOf(t)'
    BY <1>1 DEF NoticeOf
  <1>10. PendingFollows'
    BY <1>2, <1>8, <1>9 DEF PendingFollows, Txs, rpc
  <1> QED
    BY <1>3, <1>4, <1>5, <1>6, <1>7, <1>10

LEMMA RollBackBlockKeeps ==
  ASSUME IInv, NEW t \in Txs, RollBackBlock(t)
  PROVE  IInv'
  <1>1. confirmedBy[t] \in 0 .. MaxMain /\ conf.number \in 0 .. MaxMain
    BY DEF IInv, ConfOK
  <1>2. t \in dag
    BY <1>1 DEF IInv, NoticeInv, RollBackBlock
  <1>3. 0 \in 0 .. MaxMain /\ "RollBack" \in Actions /\ ~Noticing
    BY LocalTxAssumption DEF Actions, RollBackBlock, Noticing
  <1>4. rlock'
    BY Zenon DEF RollBackBlock
  <1>5. /\ UNCHANGED <<rpc, mainTail, dag, recv>> /\ confirmedBy' = [confirmedBy EXCEPT ![t] = 0]
        /\ conf' = [conf EXCEPT !.pc = "test", !.tx = t, !.action = "RollBack"]
    BY DEF RollBackBlock
  <1> QED
    BY <1>2, <1>3, <1>4, <1>5, NoticeBegins

LEMMA ConfirmBlockKeeps ==
  ASSUME IInv, NEW t \in Txs, ConfirmBlock(t)
  PROVE  IInv'
  <1>1. conf.number \in 0 .. MaxMain /\ conf.number > 0
    BY DEF IInv, ConfOK, ConfirmBlock
  <1>2. t \in dag /\ "Confirm" \in Actions /\ ~Noticing
    BY DEF Actions, ConfirmBlock, Noticing
  <1>3. rlock'
    BY Zenon DEF ConfirmBlock
  <1>4. /\ UNCHANGED <<rpc, mainTail, dag, recv>> /\ confirmedBy' = [confirmedBy EXCEPT ![t] = conf.number]
        /\ conf' = [conf EXCEPT !.pc = "test", !.tx = t, !.action = "Confirm"]
    BY DEF ConfirmBlock
  <1>5. "Confirm" = "Confirm" <=> conf.number # 0
    BY <1>1
  <1> QED
    BY <1>1, <1>2, <1>3, <1>4, <1>5, NoticeBegins

(* Resume goes on where the notice began.                                          *)
LEMMA Resumed ==
  ASSUME IInv, Noticing, Resume, UNCHANGED <<mainTail, confirmedBy>>
  PROVE  ConfOK' /\ ~Noticing' /\ conf'.pc # "test"
  <1>1. /\ conf'.pc \in {"confirm", "back"} /\ (conf'.pc = "confirm" => conf.action = "Confirm")
        /\ conf'.number = conf.number
        /\ conf' = [pc |-> conf'.pc, number |-> conf'.number, tx |-> conf'.tx, action |-> conf'.action]
    BY DEF Resume, Rest
  <1> QED
    BY <1>1 DEF IInv, ConfOK, Noticing

(* No notice of a block built here is dropped: its address is known, so it is local.  *)
LEMMA NoticeTestKeeps ==
  ASSUME IInv, NoticeTest
  PROVE  IInv'
  <1> USE DEF IInv
  <1>1. Noticing /\ conf.pc = "test" /\ UNCHANGED <<rpc, confirmedBy, mainTail, dag, recv>>
    BY DEF NoticeTest, Noticing
  <1>2. ~rlock'
    BY Zenon DEF NoticeTest
  <1>3. CallsOK' /\ OwnInv' /\ RecvOK'
    BY <1>1, ConfirmLeaves DEF RecvOK, Got
  <1>4. ASSUME Sender[conf.tx] \in local, Step("send") PROVE IInv'
    <2>1. /\ conf'.pc = "send" /\ UNCHANGED <<conf.number, conf.tx, conf.action>>
          /\ conf' = [pc |-> conf'.pc, number |-> conf'.number, tx |-> conf'.tx, action |-> conf'.action]
      BY <1>4 DEF ConfOK, Step
    <2>2. ConfOK'
      BY <1>1, <2>1 DEF ConfOK, Noticing
    <2>3. LockInv'
      BY <1>1, <1>2, <2>1, LocksApart
    <2>4. LocalInv'
      BY <1>1, <1>4, <2>1 DEF LocalInv, At, Got, rpc
    <2>5. NoticeInv'
      BY <1>1, <2>1 DEF NoticeInv, Noticing, Got
    <2>6. PendingFollows'
      BY <1>1, <2>1 DEF PendingFollows, NoticeOf, rpc
    <2> QED
      BY <1>3, <2>2, <2>3, <2>4, <2>5, <2>6
  <1>5. ASSUME Sender[conf.tx] \notin local, Resume PROVE IInv'
    <2>1. ConfOK' /\ ~Noticing' /\ conf'.pc # "test"
      BY <1>1, <1>5, Resumed
    <2>2. LockInv'
      BY <1>1, <1>2, <2>1, LocksApart
    <2>3. conf'.pc # "send"
      BY <2>1 DEF Noticing
    <2>4. LocalInv'
      BY <1>1, <2>3 DEF LocalInv, At, Got, rpc
    <2>5. ~(Got /\ recv.tx = conf.tx)
      BY <1>5 DEF LocalInv
    <2>6. NoticeInv'
      BY <1>1, <2>1, <2>5 DEF NoticeInv, Got
    <2>7. conf.tx \notin Own
      BY <1>1, <1>5 DEF OwnInv, LocalInv, NoticeInv
    <2>8. PendingFollows'
      BY <1>1, <2>1, <2>3, <2>7 DEF PendingFollows, NoticeOf, rpc
    <2> QED
      BY <1>3, <2>1, <2>2, <2>4, <2>6, <2>8
  <1> QED
    BY <1>4, <1>5 DEF NoticeTest

LEMMA NoticeTakenKeeps ==
  ASSUME IInv, NoticeTaken
  PROVE  IInv'
  <1> USE DEF IInv
  <1>1. /\ Noticing /\ conf.pc = "send" /\ ~Got
        /\ recv' = [pc |-> "got", tx |-> conf.tx, action |-> conf.action] /\ Resume
        /\ UNCHANGED <<rpc, confirmedBy, mainTail, dag>>
    BY DEF NoticeTaken, Noticing, Got
  <1>2. ~rlock'
    BY Zenon DEF NoticeTaken
  <1>3. ConfOK' /\ ~Noticing' /\ conf'.pc # "test"
    BY <1>1, Resumed
  <1>4. conf'.pc # "send"
    BY <1>3 DEF Noticing
  <1>5. CallsOK' /\ OwnInv'
    BY <1>1, ConfirmLeaves
  <1>6. RecvOK'
    BY <1>1 DEF RecvOK, Got, ConfOK
  <1>7. LockInv'
    BY <1>1, <1>2, <1>3, LocksApart
  <1>8. LocalInv'
    BY <1>1, <1>4 DEF LocalInv, At, Got, rpc
  <1>9. NoticeInv'
    BY <1>1, <1>3 DEF NoticeInv, Got, ConfOK
  <1>10. PendingFollows'
    BY <1>1 DEF PendingFollows, NoticeOf, rpc, Got
  <1> QED
    BY <1>3, <1>5, <1>6, <1>7, <1>8, <1>9, <1>10

(* The receiver applies a notice: either it is up to date, or a newer one follows.     *)
LEMMA ReceiveKeeps ==
  ASSUME IInv, Receive
  PROVE  IInv'
  <1> USE DEF IInv
  <1>1. /\ Got /\ recv'.pc = "log" /\ UNCHANGED <<call, lock, known, local, sent, dag>>
        /\ pending' = IF recv.action = "Confirm" THEN pending \ {recv.tx} ELSE pending \cup {recv.tx}
    <2>1. recv' = [recv EXCEPT !.pc = "log"] /\ recv = [pc |-> recv.pc, tx |-> recv.tx, action |-> recv.action]
      BY DEF Receive, RecvOK
    <2> QED
      BY <2>1 DEF Receive, Got
  <1>2. UNCHANGED <<rlock, confirmedBy, conf, mainTail>>
    BY DEF Receive, chain
  <1>3. CallsOK' /\ RecvOK' /\ LocalInv'
    <2>1. recv' = [recv EXCEPT !.pc = "log"]
      BY DEF Receive
    <2>2. RecvOK'
      BY <1>1, <2>1 DEF RecvOK, Got
    <2> QED
      BY <1>1, <1>2, <2>2 DEF CallsOK, LocalInv, At, Got
  <1>4. ConfOK' /\ LockInv'
    BY <1>1, <1>2 DEF ConfOK, LockInv, Noticing
  <1>5. NoticeInv'
    BY <1>1, <1>2 DEF NoticeInv, Noticing, Got
  <1>6. recv.tx \in Own => recv.tx \in sent
    BY <1>1 DEF NoticeInv, OwnInv
  <1>7. OwnInv'
    BY <1>1, <1>6 DEF OwnInv, At
  <1>8. ASSUME NEW t \in Own \cap sent, ~NoticeOf(t)' PROVE t \in pending' <=> confirmedBy[t] = 0
    <2>1. CASE t = recv.tx
      BY <1>1, <1>2, <1>8, <2>1 DEF NoticeInv, NoticeOf, Noticing, RecvOK, Actions
    <2>2. CASE t # recv.tx
      BY <1>1, <1>2, <1>8, <2>2 DEF PendingFollows, NoticeOf
    <2> QED
      BY <2>1, <2>2
  <1>9. PendingFollows'
    BY <1>1, <1>2, <1>8 DEF PendingFollows
  <1> QED
    BY <1>3, <1>4, <1>5, <1>7, <1>9

LEMMA ReceiveLogKeeps ==
  ASSUME IInv, ReceiveLog
  PROVE  IInv'
  <1> USE DEF IInv
  <1>1. ~Got /\ ~Got' /\ RecvOK' /\ UNCHANGED <<call, lock, known, pending, local, sent, dag>>
    BY DEF ReceiveLog, Got, Waiting, RecvOK, rpc
  <1>2. UNCHANGED <<rlock, confirmedBy, conf, mainTail>>
    BY DEF ReceiveLog, chain
  <1>3. CallsOK' /\ LocalInv' /\ OwnInv'
    BY <1>1, <1>2 DEF CallsOK, LocalInv, OwnInv, At
  <1>4. ConfOK' /\ LockInv'
    BY <1>1, <1>2 DEF ConfOK, LockInv, Noticing
  <1>5. NoticeInv'
    BY <1>1, <1>2 DEF NoticeInv, Noticing
  <1>6. PendingFollows'
    BY <1>1, <1>2 DEF PendingFollows, NoticeOf, Got
  <1> QED
    BY <1>1, <1>3, <1>4, <1>5, <1>6
-----------------------------------------------------------------------------
LEMMA Stutter ==
  ASSUME IInv, UNCHANGED vars
  PROVE  IInv'
  <1> USE DEF IInv, vars
  <1>1. ConfOK' /\ RecvOK' /\ NoticeInv' /\ \A t : NoticeOf(t)' <=> NoticeOf(t)
    BY SendLeaves
  <1>2. CallsOK' /\ OwnInv'
    BY ConfirmLeaves
  <1>3. LockInv' /\ LocalInv'
    BY DEF LockInv, LocalInv, At, Got, rpc, chain
  <1>4. PendingFollows'
    BY <1>1 DEF PendingFollows, rpc, chain
  <1> QED
    BY <1>1, <1>2, <1>3, <1>4

LEMMA NextInv ==
  ASSUME IInv, [Next]_vars
  PROVE  IInv'
  <1>1. ASSUME NEW c \in Callers, SendStep(c) PROVE IInv'
    BY <1>1, CheckPendingKeeps, RecordKnownKeeps, RecordNewKeeps, AddLocalAddressKeeps, RecordFirstKeeps,
       EnQueueKeeps, Zenon DEF SendStep
  <1>2. ASSUME NEW c \in Callers, NEW t \in Txs, ReadBalance(c, t) PROVE IInv'
    BY <1>2, ReadBalanceKeeps
  <1>3. ASSUME NEW t \in Txs, Store(t) PROVE IInv'
    BY <1>3, StoreKeeps
  <1>4. ASSUME ConfirmBegin \/ ChainStep PROVE IInv'
    BY <1>4, WalkStep, NoticeTestKeeps, NoticeTakenKeeps, RollBackBlockKeeps, ConfirmBlockKeeps, Zenon DEF ChainStep
  <1>5. ASSUME Receive \/ ReceiveLog PROVE IInv'
    BY <1>5, ReceiveKeeps, ReceiveLogKeeps
  <1> QED
    BY <1>1, <1>2, <1>3, <1>4, <1>5, Stutter, Zenon DEF Next

(* The inductive invariant holds throughout, for any number of concurrent sends.       *)
THEOREM Inductive == Spec => []IInv
  BY InitInv, NextInv, PTL DEF Spec

(* The record of a block built here is pending exactly while the block is not           *)
(* confirmed, but for a notice under way (transactionRecord, LocalBlockNoticeSend,       *)
(* ReceiveTransactionAction).                                                        *)
THEOREM PendingFollowsHolds == Spec => []PendingFollows
  <1>1. IInv => PendingFollows
    BY DEF IInv
  <1> QED
    BY <1>1, Inductive, PTL

(* The receiver restores a record only in an inner map that exists: it never writes        *)
(* to a nil map (ReceiveTransactionAction).                                             *)
THEOREM MapExistsHolds == Spec => []MapExists
  <1>1. ASSUME IInv PROVE MapExists
    BY <1>1, LocalTxAssumption DEF IInv, LockInv, LocalInv, MapExists, Got, At
  <1> QED
    BY <1>1, Inductive, PTL

(* Confirm, the receiver and the holder of addressTransactionLock never wait in a          *)
(* circle: LocalBlockNoticeSend gives the read lock back before it sends.                *)
THEOREM NoCircularWaitHolds == Spec => []NoCircularWait
  <1>1. ASSUME IInv PROVE NoCircularWait
    BY <1>1 DEF IInv, LockInv, NoCircularWait, ConfirmWaits, ReceiverWaits, HolderWaits
  <1> QED
    BY <1>1, Inductive, PTL
-----------------------------------------------------------------------------
(* Types                                                                         *)

(* What TypeOK says of the variables IInv does not speak of.                        *)
SetsOK ==
  /\ known \subseteq Addresses /\ local \subseteq Addresses
  /\ pending \subseteq Txs /\ dag \subseteq Txs /\ sent \subseteq Txs
FlagsOK == rlock \in BOOLEAN /\ aliased \in BOOLEAN
NamesOK == recv.tx \in Txs /\ \A c \in Callers : call[c].tx \in Txs /\ call[c].balance \in Int
StatesOK == running \subseteq Txs /\ lastState \subseteq Txs /\ root \in [0 .. MaxMain -> SUBSET Txs]

TInv == IInv /\ SetsOK /\ FlagsOK /\ NamesOK /\ StatesOK

LEMMA SomeTx ==
  ASSUME Txs # {}
  PROVE  Nobody \in Txs
  BY DEF Nobody

LEMMA TypesInit ==
  ASSUME Txs # {}, Init
  PROVE  TInv
  <1>1. IInv
    BY InitInv
  <1>2. Nobody \in Txs
    BY SomeTx
  <1>3. SetsOK /\ StatesOK
    BY DEF Init, SetsOK, StatesOK
  <1>4. NamesOK
    BY <1>2 DEF Init, NamesOK, Idle, Waiting
  <1>5. FlagsOK
    BY Zenon DEF Init, FlagsOK
  <1> QED
    BY <1>1, <1>3, <1>4, <1>5 DEF TInv

(* A call is set to rest, or goes on with what it has.                              *)
LEMMA NamesMove ==
  ASSUME Txs # {}, TInv, NEW c \in Callers, UNCHANGED recv,
         call' = [call EXCEPT ![c] = Idle] \/ \E p : Goto(c, p)
  PROVE  NamesOK'
  <1>1. /\ call = [d \in Callers |-> call[d]]
        /\ \A d \in Callers : call[d] = [pc |-> call[d].pc, tx |-> call[d].tx, balance |-> call[d].balance]
    BY DEF TInv, IInv, CallsOK
  <1>2. CASE call' = [call EXCEPT ![c] = Idle]
    BY <1>1, <1>2, SomeTx DEF TInv, NamesOK, Idle
  <1>3. ASSUME NEW p, Goto(c, p) PROVE NamesOK'
    BY <1>1, <1>3 DEF TInv, NamesOK, Goto
  <1> QED
    BY <1>2, <1>3

(* What no step of a send touches.                                                *)
LEMMA SendTypes ==
  ASSUME TInv, UNCHANGED chain
  PROVE  StatesOK' /\ FlagsOK'
  <1>1. UNCHANGED <<rlock, root, running, lastState, aliased>>
    BY DEF chain
  <1>2. StatesOK'
    BY <1>1 DEF TInv, StatesOK
  <1>3. FlagsOK'
    BY <1>1 DEF TInv, FlagsOK
  <1> QED
    BY <1>2, <1>3

LEMMA SendKeepsTypes ==
  ASSUME Txs # {}, TInv, NEW c \in Callers, SendStep(c)
  PROVE  SetsOK' /\ FlagsOK' /\ NamesOK' /\ StatesOK'
  <1>1. call[c].tx \in Txs /\ Sender[call[c].tx] \in Addresses
    BY LocalTxAssumption DEF TInv, NamesOK
  <1>3. UNCHANGED <<chain, recv, dag>>
    BY DEF SendStep, CheckPending, RecordKnown, RecordNew, AddLocalAddress, RecordFirst, EnQueue
  <1>4. call' = [call EXCEPT ![c] = Idle] \/ \E p : Goto(c, p)
    BY DEF SendStep, CheckPending, RecordKnown, RecordNew, AddLocalAddress, RecordFirst, EnQueue
  <1>5. /\ known' \in {known, known \cup {Sender[call[c].tx]}} /\ local' \in {local, local \cup {Sender[call[c].tx]}}
        /\ pending' \in {pending, pending \cup {call[c].tx}} /\ sent' \in {sent, sent \cup {call[c].tx}}
    BY DEF SendStep, CheckPending, RecordKnown, RecordNew, AddLocalAddress, RecordFirst, EnQueue
  <1>6. SetsOK'
    BY <1>1, <1>3, <1>5 DEF TInv, SetsOK
  <1> QED
    BY <1>3, <1>4, <1>6, NamesMove, SendTypes

LEMMA ReadKeepsTypes ==
  ASSUME Txs # {}, TInv, NEW c \in Callers, NEW t \in Txs, ReadBalance(c, t)
  PROVE  SetsOK' /\ FlagsOK' /\ NamesOK' /\ StatesOK'
  <1>1. UNCHANGED <<known, pending, local, sent, chain, dag, recv>>
    BY DEF ReadBalance
  <1>2. PICK b \in BalanceIn(lastState, Sender[t]) :
          \/ call' = [call EXCEPT ![c] = Idle]
          \/ call' = [call EXCEPT ![c] = [pc |-> "check", tx |-> t, balance |-> b]]
    BY DEF ReadBalance
  <1>3. b \in Int
    <2>1. lastState \in SUBSET Txs /\ Sender[t] \in Addresses
      BY LocalTxAssumption DEF TInv, StatesOK
    <2> QED
      BY <2>1, <1>2, LocalTxAssumption
  <1>4. NamesOK'
    <2>1. CASE call' = [call EXCEPT ![c] = Idle]
      BY <1>1, <2>1, NamesMove
    <2>2. CASE call' = [call EXCEPT ![c] = [pc |-> "check", tx |-> t, balance |-> b]]
      BY <1>1, <1>3, <2>2 DEF TInv, NamesOK, IInv, CallsOK
    <2> QED
      BY <1>2, <2>1, <2>2
  <1>5. SetsOK'
    BY <1>1 DEF TInv, SetsOK
  <1> QED
    BY <1>1, <1>4, <1>5, SendTypes

LEMMA PoolKeepsTypes ==
  ASSUME Txs # {}, TInv, Receive \/ ReceiveLog \/ \E t \in Txs : Store(t)
  PROVE  SetsOK' /\ FlagsOK' /\ NamesOK' /\ StatesOK'
  <1>1. UNCHANGED <<call, known, local, sent, chain>>
    BY DEF Receive, ReceiveLog, Store, rpc
  <1>2. StatesOK' /\ FlagsOK'
    BY <1>1, SendTypes
  <1>3. recv.tx \in Txs /\ Nobody \in Txs
    BY SomeTx DEF TInv, NamesOK
  <1>4. ASSUME Receive PROVE SetsOK' /\ NamesOK'
    <2>1. /\ pending' \in {pending \ {recv.tx}, pending \cup {recv.tx}} /\ dag' = dag
          /\ recv' = [recv EXCEPT !.pc = "log"]
      BY <1>4 DEF Receive
    <2>2. recv'.tx = recv.tx
      BY <2>1 DEF TInv, IInv, RecvOK
    <2>3. SetsOK'
      BY <1>1, <1>3, <2>1 DEF TInv, SetsOK
    <2> QED
      BY <1>1, <2>2, <2>3 DEF TInv, NamesOK
  <1>5. ASSUME ReceiveLog PROVE SetsOK' /\ NamesOK'
    <2>1. recv' = Waiting /\ UNCHANGED <<pending, dag>>
      BY <1>5 DEF ReceiveLog, rpc
    <2> QED
      BY <1>1, <1>3, <2>1 DEF TInv, SetsOK, NamesOK, Waiting
  <1>6. ASSUME NEW t \in Txs, Store(t) PROVE SetsOK' /\ NamesOK'
    <2>1. dag' = dag \cup {t} /\ UNCHANGED <<pending, recv>>
      BY <1>6 DEF Store, rpc
    <2> QED
      BY <1>1, <2>1 DEF TInv, SetsOK, NamesOK
  <1> QED
    BY <1>2, <1>4, <1>5, <1>6

(* The states of the ledger hold transactions only.                                    *)
LEMMA ConfirmKeepsStates ==
  ASSUME TInv, ConfirmBegin \/ ChainStep
  PROVE  StatesOK'
  <1> USE DEF TInv, StatesOK
  <1>1. conf.number \in 0 .. MaxMain
    BY DEF IInv, ConfOK
  <1>2. ASSUME ConfirmBegin \/ NoticeTest \/ NoticeTaken \/ RollBackEnd \/ ConfirmNothing PROVE StatesOK'
    BY <1>2 DEF ConfirmBegin, NoticeTest, NoticeTaken, RollBackEnd, ConfirmNothing
  <1>3. ASSUME NEW t \in Txs, RollBackBlock(t) PROVE StatesOK'
    BY <1>3 DEF RollBackBlock
  <1>4. ASSUME OpenState PROVE StatesOK'
    BY <1>1, <1>4 DEF OpenState
  <1>5. ASSUME MainBlockDone PROVE StatesOK'
    BY <1>1, <1>5 DEF MainBlockDone
  <1>6. ASSUME NEW t \in Txs, ConfirmBlock(t) PROVE StatesOK'
    BY <1>6 DEF ConfirmBlock
  <1> QED
    BY <1>2, <1>3, <1>4, <1>5, <1>6 DEF ChainStep

LEMMA ConfirmKeepsFlags ==
  ASSUME TInv, ConfirmBegin \/ ChainStep
  PROVE  FlagsOK'
  <1>1. rlock \in BOOLEAN /\ aliased \in BOOLEAN
    BY DEF TInv, FlagsOK
  <1>3. aliased' \in BOOLEAN
    BY <1>1, Zenon DEF ConfirmBegin, ChainStep, NoticeTest, NoticeTaken, MainBlockDone, RollBackEnd, ConfirmNothing,
       OpenState, RollBackBlock, ConfirmBlock
  <1>4. rlock' \in BOOLEAN
    BY <1>1, Zenon DEF ConfirmBegin, ChainStep, NoticeTest, NoticeTaken, MainBlockDone, RollBackEnd, ConfirmNothing,
       OpenState, RollBackBlock, ConfirmBlock
  <1> QED
    BY <1>3, <1>4 DEF FlagsOK

LEMMA ConfirmKeepsTypes ==
  ASSUME TInv, ConfirmBegin \/ ChainStep
  PROVE  SetsOK' /\ FlagsOK' /\ NamesOK' /\ StatesOK'
  <1>1. UNCHANGED <<rpc, dag>>
    BY DEF ConfirmBegin, ChainStep, NoticeTest, NoticeTaken, MainBlockDone, RollBackEnd, ConfirmNothing,
       OpenState, RollBackBlock, ConfirmBlock
  <1>2. SetsOK'
    BY <1>1 DEF TInv, SetsOK, rpc
  <1>3. recv' = recv \/ (conf.pc = "send" /\ recv' = [pc |-> "got", tx |-> conf.tx, action |-> conf.action])
    BY DEF ConfirmBegin, ChainStep, NoticeTest, NoticeTaken, MainBlockDone, RollBackEnd, ConfirmNothing,
       OpenState, RollBackBlock, ConfirmBlock
  <1>4. conf.pc = "send" => conf.tx \in Txs
    BY DEF TInv, IInv, ConfOK, Noticing
  <1>5. recv'.tx \in Txs
    BY <1>3, <1>4 DEF TInv, NamesOK
  <1>6. NamesOK'
    BY <1>1, <1>5 DEF TInv, NamesOK, rpc
  <1> QED
    BY <1>2, <1>6, ConfirmKeepsFlags, ConfirmKeepsStates

LEMMA TypesStep ==
  ASSUME Txs # {}, TInv, [Next]_vars
  PROVE  TInv'
  <1>1. IInv'
    BY NextInv DEF TInv
  <1>2. ASSUME UNCHANGED vars PROVE SetsOK' /\ FlagsOK' /\ NamesOK' /\ StatesOK'
    <2>1. UNCHANGED <<chain, call, known, local, pending, dag, sent, recv>>
      BY <1>2 DEF vars, rpc
    <2> QED
      BY <2>1, SendTypes DEF TInv, SetsOK, NamesOK
  <1>3. SetsOK' /\ FlagsOK' /\ NamesOK' /\ StatesOK'
    BY <1>2, SendKeepsTypes, ReadKeepsTypes, PoolKeepsTypes, ConfirmKeepsTypes, Zenon DEF Next
  <1> QED
    BY <1>1, <1>3 DEF TInv

LEMMA TypesAlways ==
  ASSUME Txs # {}
  PROVE  Spec => []TInv
  BY TypesInit, TypesStep, PTL DEF Spec

(* Every variable keeps its type for any transactions, callers and main blocks, whatever    *)
(* the ledger makes of a transaction; in particular a rollback never goes below the        *)
(* genesis block (RollBackStatus, ReceiveTransactionAction, transactionCheck).            *)
THEOREM TypeCorrect ==
  ASSUME Txs # {}
  PROVE  Spec => []TypeOK
  <1>1. ASSUME TInv PROVE TypeOK
    <2>1. rlock \in BOOLEAN /\ aliased \in BOOLEAN
      BY <1>1 DEF TInv, FlagsOK
    <2>2. {rlock, aliased} \subseteq BOOLEAN
      BY <2>1, Zenon
    <2>3. /\ \A c \in Callers : call[c].tx \in Txs /\ call[c].balance \in Int
          /\ \A c \in Callers : call[c].pc \in {"idle", "check", "record", "address", "map", "enqueue"}
      BY <1>1 DEF TInv, NamesOK, IInv, CallsOK, Pcs
    <2>4. /\ lock \in Callers \cup {"free"} /\ {known, local} \subseteq SUBSET Addresses
          /\ {pending, dag, sent, running, lastState} \subseteq SUBSET Txs
      BY <1>1 DEF TInv, SetsOK, StatesOK, IInv, LockInv
    <2>5. /\ confirmedBy \in [Txs -> 0 .. MaxMain] /\ mainTail \in 0 .. MaxMain
          /\ conf.pc \in {"idle", "back", "confirm", "test", "send"} /\ conf.number \in 0 .. MaxMain
          /\ recv.pc \in {"wait", "got", "log"} /\ recv.tx \in Txs
      BY <1>1 DEF TInv, NamesOK, IInv, ConfOK, RecvOK
    <2>6. root \in [0 .. MaxMain -> SUBSET Txs]
      BY <1>1 DEF TInv, StatesOK
    <2> QED
      BY <2>2, <2>3, <2>4, <2>5, <2>6 DEF TypeOK
  <1> QED
    BY <1>1, TypesAlways, PTL
-----------------------------------------------------------------------------
(* What a send counts                                                             *)

Backing == conf.pc = "back" \/ (Noticing /\ conf.action = "RollBack")

(* The committed states grow along the main blocks, lastState is the one at MainTail or     *)
(* the StateDB in use, and that contains the state it was opened on.                     *)
Grows == \A i, j \in 0 .. mainTail : i <= j => root[i] \subseteq root[j]
LastInv == (aliased => Confirming /\ lastState = running) /\ (~aliased => lastState = root[mainTail])
OpenInv == Confirming => conf.number - 1 <= mainTail /\ root[conf.number - 1] \subseteq running
Bounded ==
  /\ Backing => conf.number <= mainTail
  /\ \A t \in Txs : confirmedBy[t] <= IF Confirming THEN conf.number ELSE mainTail
LedgerInv == Grows /\ LastInv /\ OpenInv /\ Bounded
LInv == TInv /\ LedgerInv

LEMMA LedgerInit ==
  ASSUME Init
  PROVE  LedgerInv
  <1>1. /\ mainTail = 0 /\ root = [n \in 0 .. MaxMain |-> {}] /\ lastState = {} /\ conf.pc = "idle"
        /\ \A t \in Txs : confirmedBy[t] = 0
    BY DEF Init, Rest
  <1>2. ~aliased
    BY Zenon DEF Init
  <1>3. 0 \in 0 .. MaxMain
    BY LocalTxAssumption
  <1>4. ~Confirming /\ ~Backing
    BY <1>1 DEF Confirming, Backing, Noticing
  <1> QED
    BY <1>1, <1>2, <1>3, <1>4 DEF LedgerInv, Grows, LastInv, OpenInv, Bounded

(* Steps that touch neither the ledger nor the walk.                                     *)
LEMMA LedgerUntouched ==
  ASSUME LedgerInv, UNCHANGED chain
  PROVE  LedgerInv'
  BY DEF LedgerInv, Grows, LastInv, OpenInv, Bounded, Confirming, Backing, Noticing, chain

(* The numbers the walk works with.                                                     *)
LEMMA Numbers ==
  ASSUME TInv
  PROVE  /\ mainTail \in Nat /\ conf.number \in Nat /\ MaxMain \in Nat /\ conf.number \in 0 .. MaxMain
         /\ mainTail \in 0 .. MaxMain
         /\ Confirming => conf.number > 0
         /\ \A t \in Txs : confirmedBy[t] \in Nat
         /\ root \in [0 .. MaxMain -> SUBSET Txs]
  BY LocalTxAssumption DEF TInv, IInv, ConfOK, Confirming, Noticing, StatesOK

(* A notice begins or goes on: the mode and the number stay, and so does the ledger.        *)
LEMMA NoticeLedger ==
  ASSUME LInv, UNCHANGED <<mainTail, root, running, lastState, aliased>>,
         conf'.number = conf.number, Confirming' <=> Confirming, Backing' => Backing,
         \A t \in Txs : confirmedBy'[t] = confirmedBy[t] \/ confirmedBy'[t] = 0
  PROVE  LedgerInv'
  <1>1. Grows' /\ LastInv' /\ OpenInv'
    BY DEF LInv, LedgerInv, Grows, LastInv, OpenInv
  <1>2. Bounded'
    BY Numbers DEF LInv, LedgerInv, Bounded
  <1> QED
    BY <1>1, <1>2 DEF LedgerInv

LEMMA NoticeStepLedger ==
  ASSUME LInv, NoticeTest \/ NoticeTaken
  PROVE  LedgerInv'
  <1>1. /\ conf.pc \in {"test", "send"} /\ UNCHANGED <<confirmedBy, mainTail, root, running, lastState, aliased>>
        /\ conf.action \in Actions /\ Noticing
    BY DEF NoticeTest, NoticeTaken, LInv, TInv, IInv, ConfOK, Noticing
  <1>2. Step("send") \/ Resume
    BY DEF NoticeTest, NoticeTaken
  <1>3. CASE Step("send")
    <2>1. conf'.pc = "send" /\ UNCHANGED <<conf.number, conf.action>>
      BY <1>3 DEF Step, LInv, TInv, IInv, ConfOK
    <2> QED
      BY <1>1, <2>1, NoticeLedger DEF Confirming, Backing, Noticing
  <1>4. CASE Resume
    <2>1. conf'.number = conf.number /\ conf'.pc = IF conf.action = "Confirm" THEN "confirm" ELSE "back"
      BY <1>4 DEF Resume, Rest
    <2>2. Confirming' <=> Confirming
      BY <1>1, <2>1 DEF Confirming, Actions
    <2>3. Backing' => Backing
      BY <1>1, <2>1 DEF Backing, Noticing, Actions
    <2> QED
      BY <1>1, <2>1, <2>2, <2>3, NoticeLedger
  <1> QED
    BY <1>2, <1>3, <1>4

LEMMA RollBackBlockLedger ==
  ASSUME LInv, NEW t \in Txs, RollBackBlock(t)
  PROVE  LedgerInv'
  <1>1. /\ conf.pc = "back" /\ UNCHANGED <<mainTail, root, running, lastState, aliased>>
        /\ conf' = [conf EXCEPT !.pc = "test", !.tx = t, !.action = "RollBack"]
        /\ confirmedBy' = [confirmedBy EXCEPT ![t] = 0]
    BY DEF RollBackBlock
  <1>2. conf'.pc = "test" /\ conf'.action = "RollBack" /\ conf'.number = conf.number
    BY <1>1 DEF LInv, TInv, IInv, ConfOK
  <1>3. \A u \in Txs : confirmedBy'[u] = confirmedBy[u] \/ confirmedBy'[u] = 0
    BY <1>1 DEF LInv, TInv, IInv, ConfOK
  <1> QED
    BY <1>1, <1>2, <1>3, NoticeLedger DEF Confirming, Backing, Noticing

LEMMA ConfirmBlockLedger ==
  ASSUME LInv, NEW t \in Txs, ConfirmBlock(t)
  PROVE  LedgerInv'
  <1>1. /\ conf.pc = "confirm" /\ UNCHANGED <<mainTail, root, aliased>> /\ running \subseteq running'
        /\ conf' = [conf EXCEPT !.pc = "test", !.tx = t, !.action = "Confirm"]
        /\ confirmedBy' = [confirmedBy EXCEPT ![t] = conf.number]
        /\ lastState' = IF aliased THEN running' ELSE lastState
    BY DEF ConfirmBlock
  <1>2. conf'.pc = "test" /\ conf'.action = "Confirm" /\ conf'.number = conf.number
    BY <1>1 DEF LInv, TInv, IInv, ConfOK
  <1>3. Confirming /\ Confirming' /\ ~Backing'
    BY <1>1, <1>2 DEF Confirming, Backing, Noticing
  <1>4. Grows'
    BY <1>1 DEF LInv, LedgerInv, Grows
  <1>5. LastInv'
    BY <1>1, <1>3 DEF LInv, LedgerInv, LastInv
  <1>6. OpenInv'
    BY <1>1, <1>2, <1>3 DEF LInv, LedgerInv, OpenInv
  <1>7. Bounded'
    <2>1. ASSUME NEW u \in Txs PROVE confirmedBy'[u] <= conf.number
      BY <1>1, <1>3, Numbers DEF LInv, LedgerInv, Bounded, TInv, IInv, ConfOK
    <2> QED
      BY <1>2, <1>3, <2>1 DEF Bounded
  <1> QED
    BY <1>4, <1>5, <1>6, <1>7 DEF LedgerInv

LEMMA BackLedger ==
  ASSUME LInv, ConfirmBegin \/ RollBackEnd \/ ConfirmNothing
  PROVE  LedgerInv'
  <1>1. /\ UNCHANGED <<confirmedBy, mainTail, root, running, lastState, aliased>>
        /\ conf.pc \in {"idle", "back"}
    BY DEF ConfirmBegin, RollBackEnd, ConfirmNothing
  <1>2. ~Confirming
    BY <1>1 DEF Confirming
  <1>3. conf'.pc \in {"idle", "back"}
    <2>1. ASSUME ConfirmBegin PROVE conf'.pc \in {"idle", "back"}
      BY <2>1 DEF ConfirmBegin, LInv, TInv, IInv, ConfOK
    <2>2. ASSUME RollBackEnd PROVE conf'.pc \in {"idle", "back"}
      BY <2>2 DEF RollBackEnd, LInv, TInv, IInv, ConfOK
    <2>3. ASSUME ConfirmNothing PROVE conf'.pc \in {"idle", "back"}
      BY <2>3 DEF ConfirmNothing, Rest
    <2> QED
      BY <2>1, <2>2, <2>3
  <1>4. ~Confirming' /\ (Backing' => conf'.pc = "back")
    BY <1>3 DEF Confirming, Backing, Noticing
  <1>5. conf'.pc = "back" => conf'.number <= mainTail
    <2>1. ASSUME ConfirmBegin PROVE conf'.number = mainTail
      BY <2>1 DEF ConfirmBegin, LInv, TInv, IInv, ConfOK
    <2>2. ASSUME RollBackEnd PROVE conf'.number <= mainTail
      <3>1. conf'.number = conf.number - 1 /\ Backing
        BY <2>2 DEF RollBackEnd, LInv, TInv, IInv, ConfOK, Backing
      <3> QED
        BY <3>1, Numbers DEF LInv, LedgerInv, Bounded
    <2>3. ASSUME ConfirmNothing PROVE conf'.pc # "back"
      BY <2>3 DEF ConfirmNothing, Rest
    <2> QED
      BY <2>1, <2>2, <2>3, Numbers DEF LInv
  <1>6. Grows' /\ LastInv' /\ OpenInv'
    BY <1>1, <1>2, <1>4 DEF LInv, LedgerInv, Grows, LastInv, OpenInv
  <1>7. Bounded'
    BY <1>1, <1>2, <1>4, <1>5 DEF LInv, LedgerInv, Bounded
  <1> QED
    BY <1>6, <1>7 DEF LedgerInv

LEMMA OpenStateLedger ==
  ASSUME LInv, OpenState
  PROVE  LedgerInv'
  <1>1. /\ conf.pc = "back" /\ UNCHANGED <<confirmedBy, mainTail, root, lastState>> /\ running' = root[conf.number]
        /\ conf' = [conf EXCEPT !.pc = "confirm", !.number = @ + 1]
        /\ \A t \in Txs : confirmedBy[t] <= conf.number
    BY DEF OpenState
  <1>2. ~aliased'
    BY Zenon DEF OpenState
  <1>3. conf'.pc = "confirm" /\ conf'.number = conf.number + 1
    BY <1>1 DEF LInv, TInv, IInv, ConfOK
  <1>4. ~Confirming /\ Confirming' /\ ~Backing' /\ Backing
    BY <1>1, <1>3 DEF Confirming, Backing, Noticing
  <1>5. conf.number \in Nat /\ mainTail \in Nat /\ \A t \in Txs : confirmedBy[t] \in Nat
    BY Numbers DEF LInv
  <1>6. Grows' /\ LastInv'
    BY <1>1, <1>2, <1>4 DEF LInv, LedgerInv, Grows, LastInv
  <1>7. OpenInv'
    <2>1. conf'.number - 1 = conf.number /\ conf.number <= mainTail
      BY <1>3, <1>4, <1>5 DEF LInv, LedgerInv, Bounded
    <2> QED
      BY <1>1, <2>1 DEF OpenInv
  <1>8. Bounded'
    <2>1. \A t \in Txs : confirmedBy'[t] <= conf'.number
      BY <1>1, <1>3, <1>5
    <2> QED
      BY <1>4, <2>1 DEF Bounded
  <1> QED
    BY <1>6, <1>7, <1>8 DEF LedgerInv

(* The main block is done: its state contains every state before it, and lastState is it.     *)
LEMMA MainBlockDoneLedger ==
  ASSUME LInv, MainBlockDone
  PROVE  LedgerInv'
  <1>1. /\ conf.pc = "confirm" /\ root' = [root EXCEPT ![conf.number] = running]
        /\ mainTail' = conf.number /\ lastState' = running /\ UNCHANGED <<running, confirmedBy>>
    BY DEF MainBlockDone
  <1>2. Confirming
    BY <1>1 DEF Confirming
  <1>3. /\ conf.number \in Nat /\ mainTail \in Nat /\ conf.number > 0 /\ conf.number \in 0 .. MaxMain /\ MaxMain \in Nat
        /\ conf.number - 1 <= mainTail /\ mainTail <= MaxMain /\ root[conf.number - 1] \subseteq running
        /\ DOMAIN root = 0 .. MaxMain
        /\ \A t \in Txs : confirmedBy[t] \in Nat /\ confirmedBy[t] <= conf.number
    BY <1>2, Numbers DEF LInv, LedgerInv, OpenInv, Bounded
  <1>4. root'[conf.number] = running /\ \A i \in 0 .. conf.number : i # conf.number => root'[i] = root[i]
    BY <1>1, <1>3
  <1>5. Grows'
    <2>1. ASSUME NEW i \in 0 .. conf.number, NEW j \in 0 .. conf.number, i <= j PROVE root'[i] \subseteq root'[j]
      <3>1. CASE j = conf.number /\ i = conf.number
        BY <3>1
      <3>2. CASE j = conf.number /\ i # conf.number
        <4>1. i \in 0 .. mainTail /\ conf.number - 1 \in 0 .. mainTail /\ i <= conf.number - 1
          BY <1>3, <3>2
        <4>2. root[i] \subseteq root[conf.number - 1]
          BY <4>1 DEF LInv, LedgerInv, Grows
        <4> QED
          BY <1>3, <1>4, <3>2, <4>2
      <3>3. CASE j # conf.number
        <4>1. i \in 0 .. mainTail /\ j \in 0 .. mainTail /\ i # conf.number
          BY <1>3, <2>1, <3>3
        <4>2. root[i] \subseteq root[j]
          BY <2>1, <4>1 DEF LInv, LedgerInv, Grows
        <4> QED
          BY <1>4, <3>3, <4>1, <4>2
      <3> QED
        BY <3>1, <3>2, <3>3
    <2> QED
      BY <1>1, <2>1 DEF Grows
  <1>6. CASE conf' = Rest /\ ~aliased'
    <2>1. ~Confirming' /\ ~Backing'
      BY <1>6 DEF Rest, Confirming, Backing, Noticing
    <2>2. LastInv' /\ OpenInv' /\ Bounded'
      BY <1>1, <1>3, <1>4, <1>6, <2>1 DEF LastInv, OpenInv, Bounded
    <2> QED
      BY <1>5, <2>2 DEF LedgerInv
  <1>7. CASE conf' = [conf EXCEPT !.number = @ + 1] /\ aliased'
    <2>1. conf'.pc = "confirm" /\ conf'.number = conf.number + 1
      BY <1>1, <1>7 DEF LInv, TInv, IInv, ConfOK
    <2>2. Confirming' /\ ~Backing'
      BY <2>1 DEF Confirming, Backing, Noticing
    <2>3. LastInv'
      BY <1>1, <1>7, <2>2 DEF LastInv
    <2>4. conf'.number - 1 = conf.number
      BY <1>3, <2>1
    <2>5. OpenInv'
      BY <1>1, <1>3, <1>4, <2>4 DEF OpenInv
    <2>6. \A t \in Txs : confirmedBy'[t] <= conf'.number
      BY <1>1, <1>3, <2>1
    <2>7. Bounded'
      BY <2>2, <2>6 DEF Bounded
    <2> QED
      BY <1>5, <2>3, <2>5, <2>7 DEF LedgerInv
  <1>8. (conf' = Rest /\ ~aliased') \/ (conf' = [conf EXCEPT !.number = @ + 1] /\ aliased')
    BY Zenon DEF MainBlockDone
  <1> QED
    BY <1>6, <1>7, <1>8

LEMMA LedgerStep ==
  ASSUME LInv, [Next]_vars
  PROVE  LedgerInv'
  <1>1. ASSUME UNCHANGED chain PROVE LedgerInv'
    BY <1>1, LedgerUntouched DEF LInv
  <1>2. ASSUME NEW c \in Callers, SendStep(c) \/ \E t \in Txs : ReadBalance(c, t) PROVE UNCHANGED chain
    BY <1>2 DEF SendStep, CheckPending, RecordKnown, RecordNew, AddLocalAddress, RecordFirst, EnQueue, ReadBalance
  <1>3. ASSUME Receive \/ ReceiveLog \/ \E t \in Txs : Store(t) PROVE UNCHANGED chain
    BY <1>3 DEF Receive, ReceiveLog, Store
  <1>4. ASSUME ConfirmBegin \/ ChainStep PROVE LedgerInv'
    BY <1>4, NoticeStepLedger, RollBackBlockLedger, ConfirmBlockLedger, BackLedger, OpenStateLedger, MainBlockDoneLedger,
       Zenon DEF ChainStep
  <1>5. UNCHANGED vars => UNCHANGED chain
    BY DEF vars
  <1> QED
    BY <1>1, <1>2, <1>3, <1>4, <1>5, Zenon DEF Next

(* What was confirmed is in lastState, or was refused, or its main block is in hand.           *)
LEMMA ConfirmedCounted ==
  ASSUME LInv, NEW t \in Txs, confirmedBy[t] # 0, ~Refused(t), ~InHand(t)
  PROVE  t \in lastState
  <1> DEFINE n == confirmedBy[t]
  <1>1. t \in root[n] /\ n \in Nat /\ mainTail \in Nat /\ conf.number \in Nat
    BY Numbers DEF Refused, LInv
  <1>2. CASE Confirming
    <2>1. n <= conf.number /\ n # conf.number /\ conf.number - 1 <= mainTail /\ root[conf.number - 1] \subseteq running
      BY <1>2 DEF InHand, LInv, LedgerInv, Bounded, OpenInv
    <2>2. n <= conf.number - 1 /\ n \in 0 .. mainTail /\ conf.number - 1 \in 0 .. mainTail /\ mainTail \in 0 .. mainTail
          /\ n <= mainTail
      BY <1>1, <2>1
    <2>3. root[n] \subseteq root[conf.number - 1] /\ root[n] \subseteq root[mainTail]
      BY <2>2 DEF LInv, LedgerInv, Grows
    <2> QED
      BY <1>1, <2>1, <2>3 DEF LInv, LedgerInv, LastInv
  <1>3. CASE ~Confirming
    <2>1. n \in 0 .. mainTail /\ mainTail \in 0 .. mainTail /\ n <= mainTail /\ lastState = root[mainTail]
      BY <1>1, <1>3 DEF LInv, LedgerInv, Bounded, LastInv
    <2> QED
      BY <1>1, <2>1 DEF LInv, LedgerInv, Grows
  <1> QED
    BY <1>2, <1>3

(* A block sent from here is counted by the next send, on record or in lastState, except      *)
(* while its main block is in hand, through any reorganisation and although lastState may be    *)
(* the StateDB Confirm goes on with (Confirm, ReceiveTransactionAction, transactionCheck).     *)
THEOREM CountedSomewhereHolds ==
  ASSUME Txs # {}
  PROVE  Spec => []CountedSomewhere
  <1>1. Init => LInv
    BY TypesInit, LedgerInit DEF LInv
  <1>2. LInv /\ [Next]_vars => LInv'
    BY TypesStep, LedgerStep DEF LInv
  <1>3. ASSUME LInv PROVE CountedSomewhere
    <2> SUFFICES ASSUME NEW t \in Own \cap sent, ~NoticeOf(t)
                 PROVE  t \in pending \cup lastState \/ Refused(t) \/ InHand(t)
      BY DEF CountedSomewhere
    <2>1. t \in Txs /\ (t \in pending <=> confirmedBy[t] = 0)
      BY <1>3 DEF LInv, TInv, IInv, PendingFollows, Txs
    <2> QED
      BY <1>3, <2>1, ConfirmedCounted
  <1> QED
    BY <1>1, <1>2, <1>3, PTL DEF Spec
==============================================================================
