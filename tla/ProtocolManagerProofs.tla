------------------------ MODULE ProtocolManagerProofs ------------------------
(***************************************************************************)
(* Proofs about ProtocolManager and the Miner it contains, for any set of   *)
(* peers and any number of connections, orders and synchronisation tasks.   *)
(***************************************************************************)
EXTENDS ProtocolManager, FiniteSetTheorems, TLAPS

USE DEF Events, Orders

(* Where handle(p) is while p is registered.                                 *)
Registered == {"registered", "connecting", "inConnected", "connected", "joined", "posting", "on"}

(* peerset holds the peers whose handler is between Register and Unregister.  *)
PeersInv == \A p \in Peers : p \in peerset <=> hpc[p] \in Registered

(* Somebody is left who will tell the miner: a registered peer, or a handler   *)
(* that has unregistered and not yet sent CLOSED.                            *)
ToldInv ==
  told = "CONNECTED" => peerset # {} \/ \E p \in Peers : hpc[p] \in {"left", "disconnecting"}

(* Somebody is left who will reset feeded.                                    *)
FeededInv ==
  feeded => peerset # {} \/ \E p \in Peers : hpc[p] \in {"left", "disconnecting", "inClosed", "closed"}

(* The Send that holds sendLock has an event as long as copies are not taken.   *)
FeedInv == feed.left > 0 => feed.ev \in Events

(* The two halves of TypeOK.                                                  *)
MinerType ==
  /\ feed \in [by : Senders \cup {"none"}, ev : Events \cup {"none"}, left : Nat]
  /\ inbox \in Nat /\ cases \in Nat /\ fresh \in Nat /\ free \in Nat
  /\ held \in [Orders -> Nat] /\ posting \in Nat
  /\ calls \in [{"start", "stop"} -> Nat] /\ orders \in 0 .. MaxOrders /\ key \in BOOLEAN
  /\ syncState \in {"SYNCING", "COMPLETED"} /\ mining \in BOOLEAN
  /\ born \in Nat /\ searching \in Nat /\ sending \in Nat /\ leaving \in Nat

PmType ==
  /\ hpc \in [Peers -> Registered \cup {"off", "left", "disconnecting", "inClosed", "closed"}]
  /\ peerset \subseteq Peers /\ feeded \in BOOLEAN
  /\ status \in {"READY", "SYNCING", "WORKING", "NET_UNVAILABLE"}
  /\ connects \in 0 .. MaxConnects /\ ahead \in 0 .. MaxTasks /\ queued \in BOOLEAN
  /\ lpc \in {"select", "inSyncing"} /\ spc \in {"off", "run", "ended", "inCompleted"}
  /\ told \in {"CONNECTED", "CLOSED"}

MinerInv == MinerType /\ FeedInv /\ MiningHasWorker
PmInv == PmType /\ PeersInv /\ ToldInv /\ FeededInv
IInv == MinerInv /\ PmInv
-----------------------------------------------------------------------------
LEMMA TypeHalves == TypeOK <=> MinerType /\ PmType
  BY DEF TypeOK, MinerType, PmType, Registered

LEMMA InitInv == Init => IInv
  <1> SUFFICES ASSUME Init PROVE IInv
    OBVIOUS
  <1>1. MinerType
    <2>1. feed \in [by : Senders \cup {"none"}, ev : Events \cup {"none"}, left : Nat]
      BY DEF Init, MinerInit, NoSend
    <2>2. /\ inbox \in Nat /\ cases \in Nat /\ fresh \in Nat /\ free \in Nat
          /\ held \in [Orders -> Nat] /\ posting \in Nat
      BY DEF Init, MinerInit
    <2>3. calls \in [{"start", "stop"} -> Nat] /\ orders \in 0 .. MaxOrders
      BY MinerAssumption DEF Init, MinerInit
    <2>4. key \in BOOLEAN /\ mining \in BOOLEAN
      BY Zenon DEF Init, MinerInit
    <2>5. /\ syncState \in {"SYNCING", "COMPLETED"}
          /\ born \in Nat /\ searching \in Nat /\ sending \in Nat /\ leaving \in Nat
      BY DEF Init, MinerInit
    <2> QED
      BY <2>1, <2>2, <2>3, <2>4, <2>5, Zenon DEF MinerType
  <1>2. FeedInv /\ MiningHasWorker
    BY DEF Init, MinerInit, NoSend, FeedInv, MiningHasWorker
  <1>3. PmType
    <2>1. hpc \in [Peers -> Registered \cup {"off", "left", "disconnecting", "inClosed", "closed"}]
      BY DEF Init
    <2>2. connects \in 0 .. MaxConnects /\ ahead \in 0 .. MaxTasks
      BY PeersAssumption DEF Init
    <2>3. feeded \in BOOLEAN /\ queued \in BOOLEAN
      BY Zenon DEF Init
    <2>4. /\ peerset \subseteq Peers /\ status \in {"READY", "SYNCING", "WORKING", "NET_UNVAILABLE"}
          /\ lpc \in {"select", "inSyncing"} /\ spc \in {"off", "run", "ended", "inCompleted"}
          /\ told \in {"CONNECTED", "CLOSED"}
      BY DEF Init
    <2> QED
      BY <2>1, <2>2, <2>3, <2>4, Zenon DEF PmType
  <1>4. PeersInv /\ ToldInv
    BY DEF Init, PeersInv, ToldInv, Registered
  <1>5. FeededInv
    BY Zenon DEF Init, FeededInv
  <1> QED
    BY <1>1, <1>2, <1>3, <1>4, <1>5 DEF IInv, MinerInv, PmInv
-----------------------------------------------------------------------------
(* The miner                                                                    *)

(* A Send takes the lock of the feed and gives it back.                        *)
LEMMA SendBeginKeeps ==
  ASSUME MinerInv, NEW by \in Senders, NEW ev \in Events, SendBegin(by, ev)
  PROVE  MinerInv'
  <1>1. UNCHANGED workers
    BY DEF SendBegin
  <1>2. MiningHasWorker'
    BY <1>1 DEF MinerInv, MiningHasWorker, Active, workers
  <1>3. MinerType'
    BY DEF MinerInv, MinerType, SendBegin, rpc, workers
  <1>4. FeedInv'
    BY DEF MinerInv, FeedInv, SendBegin
  <1> QED
    BY <1>2, <1>3, <1>4 DEF MinerInv

LEMMA SendEndKeeps ==
  ASSUME MinerInv, NEW by \in Senders, SendEnd(by)
  PROVE  MinerInv'
  <1>1. UNCHANGED workers
    BY DEF SendEnd
  <1>2. MiningHasWorker'
    BY <1>1 DEF MinerInv, MiningHasWorker, Active, workers
  <1>3. MinerType'
    BY DEF MinerInv, MinerType, SendEnd, NoSend, listeners, rpc, workers
  <1>4. FeedInv'
    BY DEF FeedInv, SendEnd, NoSend
  <1> QED
    BY <1>2, <1>3, <1>4 DEF MinerInv

(* Listeners start workers but touch neither the flag nor a worker at work.      *)
LEMMA ListenerKeeps ==
  ASSUME MinerInv, ListenerStep
  PROVE  MinerInv'
  <1> USE DEF MinerInv
  <1>1. UNCHANGED <<mining, searching, sending, leaving>>
    BY DEF ListenerStep, Subscribe, TakeEvent, TakeOrder, Schedule, workers
  <1>2. MiningHasWorker'
    BY <1>1 DEF MiningHasWorker, Active
  <1>3. ASSUME Subscribe PROVE MinerType' /\ FeedInv'
    BY <1>3 DEF MinerType, FeedInv, Subscribe, rpc, workers
  <1>4. ASSUME TakeEvent PROVE MinerType' /\ FeedInv'
    <2>1. feed.ev \in Orders
      BY <1>4 DEF MinerType, FeedInv, TakeEvent
    <2>2. feed' \in [by : Senders \cup {"none"}, ev : Events \cup {"none"}, left : Nat]
      BY <1>4 DEF MinerType, TakeEvent
    <2>3. held' \in [Orders -> Nat] /\ free' \in Nat
      BY <1>4, <2>1 DEF MinerType, TakeEvent, Hold
    <2>4. UNCHANGED <<inbox, cases, fresh, posting, syncState, rpc, workers>>
      BY <1>4 DEF TakeEvent
    <2>5. FeedInv'
      BY <1>4 DEF MinerType, FeedInv, TakeEvent
    <2> QED
      BY <2>2, <2>3, <2>4, <2>5 DEF MinerType, rpc, workers
  <1>5. ASSUME NEW o \in {"start", "stop"}, TakeOrder(o) PROVE MinerType' /\ FeedInv'
    BY <1>5 DEF MinerType, FeedInv, TakeOrder, Hold, rpc, workers
  <1>6. ASSUME NEW o \in Orders, Schedule(o) PROVE MinerType' /\ FeedInv'
    BY <1>6 DEF MinerType, FeedInv, Schedule, Starts, rpc
  <1> QED
    BY <1>2, <1>3, <1>4, <1>5, <1>6 DEF ListenerStep

(* A worker resets the flag only when it leaves, and sets it only as it starts.   *)
LEMMA WorkerKeeps ==
  ASSUME MinerInv, WorkerStep \/ SendBlock
  PROVE  MinerInv'
  <1> USE DEF MinerInv, MinerType, MiningHasWorker, Active, listeners, rpc
  <1>0. FeedInv'
    BY DEF FeedInv, WorkerStep, WorkBegin, StopTaken, SendBlock, Awake, Clean
  <1>1. ASSUME WorkBegin PROVE MinerType' /\ MiningHasWorker'
    <2>1. MinerType'
      BY <1>1 DEF WorkBegin
    <2>2. ASSUME key PROVE MiningHasWorker'
      BY <1>1, <2>2 DEF WorkBegin
    <2>3. ASSUME ~key PROVE MiningHasWorker'
      <3>1. mining' => mining
        BY <1>1, <2>3, Zenon DEF WorkBegin
      <3>2. UNCHANGED <<searching, sending, leaving>>
        BY <1>1, <2>3 DEF WorkBegin
      <3> QED
        BY <3>1, <3>2
    <2> QED
      BY <2>1, <2>2, <2>3
  <1>2. ASSUME StopTaken PROVE MinerType' /\ MiningHasWorker'
    <2>1. MinerType'
      BY <1>2 DEF StopTaken
    <2>2. MiningHasWorker'
      BY <1>2 DEF StopTaken
    <2> QED
      BY <2>1, <2>2
  <1>3. ASSUME SendBlock PROVE MinerType' /\ MiningHasWorker'
    BY <1>3 DEF SendBlock
  <1>4. ASSUME Awake PROVE MinerType' /\ MiningHasWorker'
    BY <1>4 DEF Awake
  <1>5. ASSUME Clean PROVE MinerType' /\ MiningHasWorker'
    <2>1. MinerType'
      <3>1. mining' \in BOOLEAN
        BY <1>5, Zenon DEF Clean
      <3>2. /\ leaving' \in Nat
            /\ UNCHANGED <<feed, inbox, cases, fresh, free, held, posting, syncState, calls, orders, key,
                           born, searching, sending>>
        BY <1>5 DEF Clean
      <3> QED
        BY <3>1, <3>2
    <2>2. ~mining'
      BY <1>5, Zenon DEF Clean
    <2> QED
      BY <2>1, <2>2
  <1> QED
    BY <1>0, <1>1, <1>2, <1>3, <1>4, <1>5 DEF WorkerStep

LEMMA RpcKeeps ==
  ASSUME MinerInv, Rpc
  PROVE  MinerInv'
  <1> USE MinerAssumption DEF MinerInv, MinerType, workers, listeners
  <1>1. UNCHANGED <<feed, mining, searching, sending, leaving>>
    BY DEF Rpc, StartMiner, PostStop
  <1>2. FeedInv' /\ MiningHasWorker'
    BY <1>1 DEF FeedInv, MiningHasWorker, Active
  <1>3. ASSUME StartMiner PROVE MinerType'
    BY <1>3 DEF StartMiner
  <1>4. ASSUME PostStop PROVE MinerType'
    BY <1>4 DEF PostStop
  <1> QED
    BY <1>2, <1>3, <1>4 DEF Rpc

LEMMA MinerStutter ==
  ASSUME MinerInv, UNCHANGED minerVars
  PROVE  MinerInv'
  BY DEF MinerInv, MinerType, FeedInv, MiningHasWorker, Active, minerVars, listeners, rpc, workers
-----------------------------------------------------------------------------
(* The handlers of the peers                                                     *)

Gone == {"left", "disconnecting", "inClosed", "closed"}
Places == Registered \cup Gone \cup {"off"}

LEMMA MoveTyped ==
  ASSUME PmType, NEW p \in Peers, NEW at \in Places, Goto(p, at)
  PROVE  /\ hpc' \in [Peers -> Places]
         /\ hpc'[p] = at
         /\ \A q \in Peers : q # p => hpc'[q] = hpc[q]
  BY DEF PmType, Goto, Places, Gone

(* A handler that stays registered disturbs nothing.                             *)
LEMMA StaysKeeps ==
  ASSUME PmInv, NEW p \in Peers, NEW at \in Registered, hpc[p] \in Registered, Goto(p, at),
         UNCHANGED peerset
  PROVE  PeersInv' /\ ToldInv' /\ FeededInv'
  <1>1. at \in Places /\ PmType
    BY DEF Places, PmInv
  <1>2. PeersInv'
    BY <1>1, MoveTyped DEF PmInv, PeersInv
  <1>3. p \in peerset'
    BY DEF PmInv, PeersInv
  <1> QED
    BY <1>2, <1>3 DEF ToldInv, FeededInv

LEMMA RegisteredKeeps ==
  ASSUME PmInv, NEW p \in Peers,
         \/ Register(p) \/ ReadFeeded(p) \/ SendConnected(p) \/ SentConnected(p) \/ SetFeeded(p)
         \/ JudgeBehind(p) \/ JudgeAhead(p) \/ PostTask(p)
  PROVE  PmInv'
  <1> USE DEF PmInv
  <1>1. ASSUME Register(p) PROVE PmInv'
    <2>1. "registered" \in Places /\ "registered" \in Registered /\ Goto(p, "registered")
      BY <1>1 DEF Register, Places, Registered
    <2>2. PeersInv' /\ p \in peerset'
      BY <1>1, <2>1, MoveTyped DEF PeersInv, Register, PmType
    <2>3. ToldInv' /\ FeededInv'
      BY <2>2 DEF ToldInv, FeededInv
    <2>4. connects' \in 0 .. MaxConnects
      BY <1>1, PeersAssumption DEF PmType, Register
    <2>5. PmType'
      BY <1>1, <2>1, <2>4, MoveTyped DEF PmType, Register, Places, Gone
    <2> QED
      BY <2>2, <2>3, <2>5
  <1>2. ASSUME ReadFeeded(p) PROVE PmInv'
    <2>1. PICK at \in Registered : hpc[p] \in Registered /\ Goto(p, at) /\ UNCHANGED peerset
      BY <1>2 DEF ReadFeeded, Registered
    <2>2. PeersInv' /\ ToldInv' /\ FeededInv'
      BY <2>1, StaysKeeps
    <2>3. at \in Places
      BY DEF Places
    <2>4. hpc' \in [Peers -> Places]
      BY <2>1, <2>3, MoveTyped
    <2>5. PmType'
      BY <1>2, <2>4 DEF PmType, ReadFeeded, Places, Gone
    <2> QED
      BY <2>2, <2>5
  <1>3. ASSUME SendConnected(p) PROVE PmInv'
    <2>1. PICK at \in Registered : hpc[p] \in Registered /\ Goto(p, at) /\ UNCHANGED peerset
      BY <1>3 DEF SendConnected, Registered
    <2>2. PeersInv' /\ ToldInv' /\ FeededInv'
      BY <2>1, StaysKeeps
    <2>3. at \in Places
      BY DEF Places
    <2>4. hpc' \in [Peers -> Places]
      BY <2>1, <2>3, MoveTyped
    <2>5. PmType'
      BY <1>3, <2>4 DEF PmType, SendConnected, Places, Gone
    <2> QED
      BY <2>2, <2>5
  <1>4. ASSUME SentConnected(p) PROVE PmInv'
    <2>1. PICK at \in Registered : hpc[p] \in Registered /\ Goto(p, at) /\ UNCHANGED peerset
      BY <1>4 DEF SentConnected, Registered
    <2>2. PeersInv' /\ ToldInv' /\ FeededInv'
      BY <2>1, StaysKeeps
    <2>3. at \in Places
      BY DEF Places
    <2>4. hpc' \in [Peers -> Places]
      BY <2>1, <2>3, MoveTyped
    <2>5. PmType'
      BY <1>4, <2>4 DEF PmType, SentConnected, Places, Gone
    <2> QED
      BY <2>2, <2>5
  <1>5. ASSUME SetFeeded(p) PROVE PmInv'
    <2>1. PICK at \in Registered : hpc[p] \in Registered /\ Goto(p, at) /\ UNCHANGED peerset
      BY <1>5 DEF SetFeeded, Registered
    <2>2. PeersInv' /\ ToldInv' /\ FeededInv'
      BY <2>1, StaysKeeps
    <2>3. at \in Places
      BY DEF Places
    <2>4. hpc' \in [Peers -> Places]
      BY <2>1, <2>3, MoveTyped
    <2>5. PmType'
      BY <1>5, <2>4 DEF PmType, SetFeeded, Places, Gone
    <2> QED
      BY <2>2, <2>5
  <1>6. ASSUME JudgeBehind(p) PROVE PmInv'
    <2>1. PICK at \in Registered : hpc[p] \in Registered /\ Goto(p, at) /\ UNCHANGED peerset
      BY <1>6 DEF JudgeBehind, Registered
    <2>2. PeersInv' /\ ToldInv' /\ FeededInv'
      BY <2>1, StaysKeeps
    <2>3. at \in Places
      BY DEF Places
    <2>4. hpc' \in [Peers -> Places]
      BY <2>1, <2>3, MoveTyped
    <2>5. PmType'
      BY <1>6, <2>4 DEF PmType, JudgeBehind, Places, Gone
    <2> QED
      BY <2>2, <2>5
  <1>7. ASSUME JudgeAhead(p) PROVE PmInv'
    <2>1. PICK at \in Registered : hpc[p] \in Registered /\ Goto(p, at) /\ UNCHANGED peerset
      BY <1>7 DEF JudgeAhead, Registered
    <2>2. PeersInv' /\ ToldInv' /\ FeededInv'
      BY <2>1, StaysKeeps
    <2>3. at \in Places
      BY DEF Places
    <2>4. hpc' \in [Peers -> Places]
      BY <2>1, <2>3, MoveTyped
    <2>5. PmType'
      BY <1>7, <2>4, PeersAssumption DEF PmType, JudgeAhead, Places, Gone
    <2> QED
      BY <2>2, <2>5
  <1>8. ASSUME PostTask(p) PROVE PmInv'
    <2>1. PICK at \in Registered : hpc[p] \in Registered /\ Goto(p, at) /\ UNCHANGED peerset
      BY <1>8 DEF PostTask, Registered
    <2>2. PeersInv' /\ ToldInv' /\ FeededInv'
      BY <2>1, StaysKeeps
    <2>3. at \in Places
      BY DEF Places
    <2>4. hpc' \in [Peers -> Places]
      BY <2>1, <2>3, MoveTyped
    <2>5. PmType'
      BY <1>8, <2>4 DEF PmType, PostTask, Places, Gone
    <2> QED
      BY <2>2, <2>5
  <1> QED
    BY <1>1, <1>2, <1>3, <1>4, <1>5, <1>6, <1>7, <1>8

(* A handler that has unregistered: as long as it is not through, it will tell    *)
(* the miner and reset feeded, unless another peer is registered.                  *)
LEMMA GoneKeeps ==
  ASSUME PmInv, NEW p \in Peers,
         Unregister(p) \/ ReadLen(p) \/ SendClosed(p) \/ SentClosed(p) \/ ResetFeeded(p)
  PROVE  PmInv'
  <1> USE DEF PmInv
  <1>1. ASSUME Unregister(p) PROVE PmInv'
    <2>1. "left" \in Places /\ "left" \notin Registered /\ Goto(p, "left")
      BY <1>1 DEF Unregister, Places, Registered, Gone
    <2>2. PeersInv'
      BY <1>1, <2>1, MoveTyped DEF PeersInv, Unregister, PmType
    <2>3. hpc'[p] = "left"
      BY <2>1, MoveTyped
    <2>4. ToldInv' /\ FeededInv'
      BY <2>3 DEF ToldInv, FeededInv
    <2>5. PmType'
      BY <1>1, <2>1, MoveTyped DEF PmType, Unregister, Places, Gone
    <2> QED
      BY <2>2, <2>4, <2>5
  <1>2. ASSUME ReadLen(p) PROVE PmInv'
    <2>1. PICK at \in {"disconnecting", "off"} :
             /\ Goto(p, at) /\ UNCHANGED <<peerset, feeded, told>>
             /\ at = "off" => ~(Cardinality(peerset) <= 0)
      BY <1>2 DEF ReadLen
    <2>2. at \in Places /\ at \notin Registered
      BY DEF Places, Registered, Gone
    <2>3. PeersInv'
      BY <1>2, <2>1, <2>2, MoveTyped DEF PeersInv, ReadLen, Registered
    <2>4. hpc'[p] = at
      BY <2>1, <2>2, MoveTyped
    <2>5. at = "off" => peerset # {}
      BY <2>1, FS_EmptySet
    <2>6. ToldInv' /\ FeededInv'
      BY <2>1, <2>4, <2>5 DEF ToldInv, FeededInv
    <2>7. hpc' \in [Peers -> Places]
      BY <2>1, <2>2, MoveTyped
    <2>8. PmType'
      BY <1>2, <2>7 DEF PmType, ReadLen, Places, Gone
    <2> QED
      BY <2>3, <2>6, <2>8
  <1>3. ASSUME SendClosed(p) PROVE PmInv'
    <2>1. "inClosed" \in Places /\ "inClosed" \notin Registered /\ Goto(p, "inClosed")
      BY <1>3 DEF SendClosed, Places, Registered, Gone
    <2>2. PeersInv'
      BY <1>3, <2>1, MoveTyped DEF PeersInv, SendClosed, Registered
    <2>3. hpc'[p] = "inClosed" /\ told' = "CLOSED"
      BY <1>3, <2>1, MoveTyped DEF SendClosed
    <2>4. ToldInv' /\ FeededInv'
      BY <2>3 DEF ToldInv, FeededInv
    <2>5. PmType'
      BY <1>3, <2>1, MoveTyped DEF PmType, SendClosed, Places, Gone
    <2> QED
      BY <2>2, <2>4, <2>5
  <1>4. ASSUME SentClosed(p) PROVE PmInv'
    <2>1. "closed" \in Places /\ "closed" \notin Registered /\ Goto(p, "closed")
      BY <1>4 DEF SentClosed, Places, Registered, Gone
    <2>2. PeersInv'
      BY <1>4, <2>1, MoveTyped DEF PeersInv, SentClosed, Registered
    <2>3. hpc'[p] = "closed" /\ hpc[p] = "inClosed"
      BY <1>4, <2>1, MoveTyped DEF SentClosed
    <2>4. FeededInv'
      BY <2>3 DEF FeededInv
    <2>5. ToldInv'
      BY <1>4, <2>1, <2>3, MoveTyped DEF ToldInv, SentClosed
    <2>6. PmType'
      BY <1>4, <2>1, MoveTyped DEF PmType, SentClosed, Places, Gone
    <2> QED
      BY <2>2, <2>4, <2>5, <2>6
  <1>5. ASSUME ResetFeeded(p) PROVE PmInv'
    <2>1. "off" \in Places /\ "off" \notin Registered /\ Goto(p, "off")
      BY <1>5 DEF ResetFeeded, Places, Registered, Gone
    <2>2. PeersInv'
      BY <1>5, <2>1, MoveTyped DEF PeersInv, ResetFeeded, Registered
    <2>3. hpc[p] = "closed"
      BY <1>5 DEF ResetFeeded
    <2>4. FeededInv'
      BY <1>5, Zenon DEF FeededInv, ResetFeeded
    <2>5. ToldInv'
      BY <1>5, <2>1, <2>3, MoveTyped DEF ToldInv, ResetFeeded
    <2>6. PmType'
      BY <1>5, <2>1, MoveTyped DEF PmType, ResetFeeded, Places, Gone
    <2> QED
      BY <2>2, <2>4, <2>5, <2>6
  <1> QED
    BY <1>1, <1>2, <1>3, <1>4, <1>5

(* The synchroniser does not touch what the handlers rely on.                      *)
LEMMA SyncKeeps ==
  ASSUME PmInv, Sync
  PROVE  PmInv'
  <1>1. UNCHANGED <<hpc, peerset, feeded, connects, ahead, told>>
    BY DEF Sync, DropTasks, SendSyncing, SessionBegin, SessionFails, SyncEnd, SendCompleted, SentCompleted
  <1>2. PeersInv' /\ ToldInv' /\ FeededInv'
    BY <1>1 DEF PmInv, PeersInv, ToldInv, FeededInv
  <1>3. /\ status' \in {"READY", "SYNCING", "WORKING", "NET_UNVAILABLE"}
        /\ lpc' \in {"select", "inSyncing"} /\ spc' \in {"off", "run", "ended", "inCompleted"}
    BY DEF PmInv, PmType, Sync, DropTasks, SendSyncing, SessionBegin, SessionFails, SyncEnd, SendCompleted, SentCompleted
  <1>4. queued' \in BOOLEAN
    BY Zenon DEF PmInv, PmType, Sync, DropTasks, SendSyncing, SessionBegin, SessionFails, SyncEnd, SendCompleted, SentCompleted
  <1>5. PmType'
    BY <1>1, <1>3, <1>4 DEF PmInv, PmType
  <1> QED
    BY <1>2, <1>5 DEF PmInv

LEMMA PmStutter ==
  ASSUME PmInv, UNCHANGED pmVars
  PROVE  PmInv'
  BY DEF PmInv, PmType, PeersInv, ToldInv, FeededInv, pmVars
-----------------------------------------------------------------------------
(* What a step of a handler or of the synchroniser does to the miner.              *)
LEMMA HandlersKeepMiner ==
  ASSUME MinerInv, NEW p \in Peers, Handle(p) \/ Register(p) \/ Unregister(p)
  PROVE  MinerInv'
  <1>1. p \in Senders
    BY PeersAssumption
  <1>2. ASSUME SendConnected(p) PROVE MinerInv'
    BY <1>1, <1>2, SendBeginKeeps DEF SendConnected
  <1>3. ASSUME SendClosed(p) PROVE MinerInv'
    BY <1>1, <1>3, SendBeginKeeps DEF SendClosed
  <1>4. ASSUME SentConnected(p) \/ SentClosed(p) PROVE MinerInv'
    BY <1>1, <1>4, SendEndKeeps DEF SentConnected, SentClosed
  <1>5. ASSUME \/ Register(p) \/ ReadFeeded(p) \/ SetFeeded(p) \/ JudgeBehind(p) \/ JudgeAhead(p)
               \/ PostTask(p) \/ Unregister(p) \/ ReadLen(p) \/ ResetFeeded(p)
        PROVE  MinerInv'
    <2>1. UNCHANGED minerVars
      BY <1>5 DEF Register, ReadFeeded, SetFeeded, JudgeBehind, JudgeAhead, PostTask, Unregister, ReadLen, ResetFeeded
    <2> QED
      BY <2>1, MinerStutter
  <1> QED
    BY <1>2, <1>3, <1>4, <1>5, Zenon DEF Handle

LEMMA SyncKeepsMiner ==
  ASSUME MinerInv, Sync
  PROVE  MinerInv'
  <1>1. "loop" \in Senders /\ "session" \in Senders
    BY PeersAssumption
  <1>2. ASSUME SendSyncing \/ SendCompleted PROVE MinerInv'
    BY <1>1, <1>2, SendBeginKeeps DEF SendSyncing, SendCompleted
  <1>3. ASSUME SessionBegin \/ SentCompleted PROVE MinerInv'
    BY <1>1, <1>3, SendEndKeeps DEF SessionBegin, SentCompleted
  <1>4. ASSUME DropTasks \/ SessionFails \/ SyncEnd PROVE MinerInv'
    BY <1>4, MinerStutter DEF DropTasks, SessionFails, SyncEnd
  <1> QED
    BY <1>2, <1>3, <1>4, Zenon DEF Sync

LEMMA NextInv ==
  ASSUME IInv, [Next]_vars
  PROVE  IInv'
  <1> USE DEF IInv
  <1>1. ASSUME NEW p \in Peers, Handle(p) \/ Register(p) \/ Unregister(p) PROVE IInv'
    <2>1. MinerInv'
      BY <1>1, HandlersKeepMiner
    <2>2. PmInv'
      BY <1>1, RegisteredKeeps, GoneKeeps, Zenon DEF Handle
    <2> QED
      BY <2>1, <2>2
  <1>2. ASSUME Sync PROVE IInv'
    BY <1>2, SyncKeeps, SyncKeepsMiner
  <1>3. ASSUME ListenerStep \/ WorkerStep \/ SendBlock \/ Rpc, UNCHANGED pmVars PROVE IInv'
    BY <1>3, ListenerKeeps, WorkerKeeps, RpcKeeps, PmStutter
  <1>4. ASSUME UNCHANGED vars PROVE IInv'
    BY <1>4, MinerStutter, PmStutter DEF vars
  <1> QED
    BY <1>1, <1>2, <1>3, <1>4, Zenon DEF Next

(* The inductive invariant holds in every state of the protocol manager, the       *)
(* feed and the miner.                                                            *)
THEOREM Inductive == Spec => []IInv
  BY InitInv, NextInv, PTL DEF Spec

(* The variables of the protocol manager and the miner stay in their sets; among    *)
(* the counters of listeners and workers none becomes negative, although every       *)
(* listener and worker counts on what others did.                                   *)
THEOREM TypeCorrect == Spec => []TypeOK
  <1>1. IInv => TypeOK
    BY TypeHalves DEF IInv, MinerInv, PmInv
  <1> QED
    BY <1>1, Inductive, PTL

(* The flag mining is never left set by workers that are gone (work, clean).         *)
THEOREM MiningHasWorkerHolds == Spec => []MiningHasWorker
  <1>1. IInv => MiningHasWorker
    BY DEF IInv, MinerInv
  <1> QED
    BY <1>1, Inductive, PTL

(* Once every handler is through, the miner was told CLOSED last and feeded is         *)
(* reset (handle, removePeer), for any number of peers that come and go.              *)
THEOREM ClosedWithoutPeersHolds == Spec => []ClosedWithoutPeers
  <1>1. ASSUME IInv, \A p \in Peers : hpc[p] = "off" PROVE told = "CLOSED" /\ ~feeded
    <2>1. peerset = {}
      BY <1>1 DEF IInv, PmInv, PmType, PeersInv, Registered
    <2>2. told # "CONNECTED"
      BY <1>1, <2>1 DEF IInv, PmInv, ToldInv
    <2>3. ~feeded
      BY <1>1, <2>1 DEF IInv, PmInv, FeededInv
    <2> QED
      BY <1>1, <2>2, <2>3 DEF IInv, PmInv, PmType
  <1>2. IInv => ClosedWithoutPeers
    BY <1>1 DEF ClosedWithoutPeers
  <1> QED
    BY <1>2, Inductive, PTL
=============================================================================
