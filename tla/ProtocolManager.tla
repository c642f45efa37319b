-------------------------- MODULE ProtocolManager --------------------------
(***************************************************************************)
(* The protocol manager (sdag/protohandler.go) and the miner it steers.        *)
(*                                                                         *)
(* One goroutine per peer runs handle: it registers the peer, tells the feed    *)
(* when the network came up, sets the status, serves messages, and removes the  *)
(* peer when the connection ends, telling the feed when no peer is left.        *)
(* feeded and the status are plain fields that all of them write. The           *)
(* synchroniser's loop and session are the other senders; which sessions run    *)
(* and how they end is Synchroniser's business and open here.                    *)
(***************************************************************************)
EXTENDS Miner, FiniteSets

CONSTANTS
  Peers,
  MaxConnects,  \* bound: connections
  MaxTasks      \* bound: peers that are ahead

ASSUME PeersAssumption ==
  /\ IsFiniteSet(Peers) /\ MaxConnects \in Nat /\ MaxTasks \in Nat
  /\ Senders = Peers \cup {"loop", "session"}
  /\ {"loop", "session", "none"} \cap Peers = {}

VARIABLES
  hpc,       \* where handle(p) is
  peerset,   \* registered peers
  feeded,
  status,    \* stat.Status
  connects,  \* connections so far
  ahead,     \* peers that were ahead so far
  queued,    \* a synchronisation task is queued
  lpc, spc,  \* the synchroniser's loop and session
  told       \* history: the last network event sent

pmVars == <<hpc, peerset, feeded, status, connects, ahead, queued, lpc, spc, told>>
vars == <<minerVars, pmVars>>

Init ==
  /\ MinerInit
  /\ hpc = [p \in Peers |-> "off"] /\ peerset = {} /\ feeded = FALSE /\ status = "READY"
  /\ connects = 0 /\ ahead = 0 /\ queued = FALSE /\ lpc = "select" /\ spc = "off" /\ told = "CLOSED"

Goto(p, at) == hpc' = [hpc EXCEPT ![p] = at]

-----------------------------------------------------------------------------
(* handle                                                                      *)

Register(p) ==
  /\ hpc[p] = "off" /\ connects < MaxConnects
  /\ Goto(p, "registered") /\ peerset' = peerset \cup {p} /\ connects' = connects + 1
  /\ UNCHANGED <<minerVars, feeded, status, ahead, queued, lpc, spc, told>>

ReadFeeded(p) ==
  /\ hpc[p] = "registered"
  /\ Goto(p, IF feeded THEN "joined" ELSE "connecting")
  /\ UNCHANGED <<minerVars, peerset, feeded, status, connects, ahead, queued, lpc, spc, told>>

SendConnected(p) ==
  /\ hpc[p] = "connecting" /\ SendBegin(p, "CONNECTED")
  /\ Goto(p, "inConnected") /\ told' = "CONNECTED"
  /\ UNCHANGED <<peerset, feeded, status, connects, ahead, queued, lpc, spc>>

SentConnected(p) ==
  /\ hpc[p] = "inConnected" /\ SendEnd(p)
  /\ Goto(p, "connected")
  /\ UNCHANGED <<peerset, feeded, status, connects, ahead, queued, lpc, spc, told>>

SetFeeded(p) ==
  /\ hpc[p] = "connected"
  /\ Goto(p, "joined") /\ feeded' = TRUE
  /\ UNCHANGED <<minerVars, peerset, status, connects, ahead, queued, lpc, spc, told>>

(* the peer's main chain is further than the own one, or not                     *)
JudgeBehind(p) ==
  /\ hpc[p] = "joined"
  /\ Goto(p, "on")
  /\ status' = IF status = "SYNCING" THEN status ELSE "WORKING"
  /\ UNCHANGED <<minerVars, peerset, feeded, connects, ahead, queued, lpc, spc, told>>

JudgeAhead(p) ==
  /\ hpc[p] = "joined" /\ ahead < MaxTasks
  /\ Goto(p, "posting")
  /\ status' = "SYNCING" /\ ahead' = ahead + 1
  /\ UNCHANGED <<minerVars, peerset, feeded, connects, queued, lpc, spc, told>>

(* the loop of the synchroniser takes the task                                   *)
PostTask(p) ==
  /\ hpc[p] = "posting" /\ lpc = "select"
  /\ Goto(p, "on") /\ queued' = TRUE
  /\ UNCHANGED <<minerVars, peerset, feeded, status, connects, ahead, lpc, spc, told>>

(* handleMsg fails: removePeer                                                   *)
Unregister(p) ==
  /\ hpc[p] = "on"
  /\ Goto(p, "left") /\ peerset' = peerset \ {p}
  /\ UNCHANGED <<minerVars, feeded, status, connects, ahead, queued, lpc, spc, told>>

ReadLen(p) ==
  /\ hpc[p] = "left"
  /\ Goto(p, IF Cardinality(peerset) <= 0 THEN "disconnecting" ELSE "off")
  /\ UNCHANGED <<minerVars, peerset, feeded, status, connects, ahead, queued, lpc, spc, told>>

SendClosed(p) ==
  /\ hpc[p] = "disconnecting" /\ SendBegin(p, "CLOSED")
  /\ Goto(p, "inClosed") /\ told' = "CLOSED"
  /\ UNCHANGED <<peerset, feeded, status, connects, ahead, queued, lpc, spc>>

SentClosed(p) ==
  /\ hpc[p] = "inClosed" /\ SendEnd(p)
  /\ Goto(p, "closed")
  /\ UNCHANGED <<peerset, feeded, status, connects, ahead, queued, lpc, spc, told>>

(* slip: feeded stays set                                                       *)
ResetForgets(p) ==
  /\ hpc[p] = "closed"
  /\ Goto(p, "off") /\ status' = "NET_UNVAILABLE"
  /\ UNCHANGED <<minerVars, peerset, feeded, connects, ahead, queued, lpc, spc, told>>

ResetFeeded(p) ==
  /\ hpc[p] = "closed"
  /\ Goto(p, "off") /\ feeded' = FALSE /\ status' = "NET_UNVAILABLE"
  /\ UNCHANGED <<minerVars, peerset, connects, ahead, queued, lpc, spc, told>>

-----------------------------------------------------------------------------
(* The synchroniser as a sender                                                 *)

(* schedule drops the tasks or starts a session                                 *)
DropTasks ==
  /\ lpc = "select" /\ queued /\ spc = "off"
  /\ queued' = FALSE
  /\ UNCHANGED <<minerVars, hpc, peerset, feeded, status, connects, ahead, lpc, spc, told>>

SendSyncing ==
  /\ lpc = "select" /\ queued /\ spc = "off" /\ SendBegin("loop", "SYNCING")
  /\ lpc' = "inSyncing" /\ queued' = FALSE
  /\ UNCHANGED <<hpc, peerset, feeded, status, connects, ahead, spc, told>>

SessionBegin ==
  /\ lpc = "inSyncing" /\ SendEnd("loop")
  /\ lpc' = "select" /\ spc' = "run"
  /\ UNCHANGED <<hpc, peerset, feeded, status, connects, ahead, queued, told>>

(* a session that fails sends nothing                                           *)
SessionFails ==
  /\ spc = "run" /\ spc' = "off"
  /\ UNCHANGED <<minerVars, hpc, peerset, feeded, status, connects, ahead, queued, lpc, told>>

(* SYNC_END, taken by the loop of the protocol manager                           *)
SyncEnd ==
  /\ spc = "run" /\ spc' = "ended"
  /\ status' = "WORKING"
  /\ UNCHANGED <<minerVars, hpc, peerset, feeded, connects, ahead, queued, lpc, told>>

SendCompleted ==
  /\ spc = "ended" /\ SendBegin("session", "COMPLETED")
  /\ spc' = "inCompleted"
  /\ UNCHANGED <<hpc, peerset, feeded, status, connects, ahead, queued, lpc, told>>

SentCompleted ==
  /\ spc = "inCompleted" /\ SendEnd("session")
  /\ spc' = "off"
  /\ UNCHANGED <<hpc, peerset, feeded, status, connects, ahead, queued, lpc, told>>

-----------------------------------------------------------------------------
Handle(p) ==
  \/ ReadFeeded(p) \/ SendConnected(p) \/ SentConnected(p) \/ SetFeeded(p)
  \/ JudgeBehind(p) \/ JudgeAhead(p) \/ PostTask(p)
  \/ ReadLen(p) \/ SendClosed(p) \/ SentClosed(p) \/ ResetFeeded(p)
Sync == DropTasks \/ SendSyncing \/ SessionBegin \/ SessionFails \/ SyncEnd \/ SendCompleted \/ SentCompleted
Rpc == (status = "WORKING" /\ StartMiner) \/ PostStop

Next ==
  \/ \E p \in Peers : Handle(p) \/ Register(p) \/ Unregister(p)
  \/ Sync
  \/ (ListenerStep \/ WorkerStep \/ SendBlock \/ Rpc) /\ UNCHANGED pmVars

Spec == Init /\ [][Next]_vars

-----------------------------------------------------------------------------
Active == searching + sending

(* Every variable stays in its set.                                             *)
TypeOK ==
  /\ feed \in [by : Senders \cup {"none"}, ev : Events \cup {"none"}, left : Nat]
  /\ inbox \in Nat /\ cases \in Nat /\ fresh \in Nat /\ free \in Nat
  /\ held \in [Orders -> Nat] /\ posting \in Nat
  /\ calls \in [{"start", "stop"} -> Nat] /\ orders \in 0 .. MaxOrders /\ key \in BOOLEAN
  /\ syncState \in {"SYNCING", "COMPLETED"} /\ mining \in BOOLEAN
  /\ born \in Nat /\ searching \in Nat /\ sending \in Nat /\ leaving \in Nat
  /\ hpc \in [Peers -> {"off", "registered", "connecting", "inConnected", "connected", "joined", "posting",
                        "on", "left", "disconnecting", "inClosed", "closed"}]
  /\ peerset \subseteq Peers /\ feeded \in BOOLEAN
  /\ status \in {"READY", "SYNCING", "WORKING", "NET_UNVAILABLE"}
  /\ connects \in 0 .. MaxConnects /\ ahead \in 0 .. MaxTasks /\ queued \in BOOLEAN
  /\ lpc \in {"select", "inSyncing"} /\ spc \in {"off", "run", "ended", "inCompleted"}
  /\ told \in {"CONNECTED", "CLOSED"}

(* The flag mining, which several workers set and reset, is never left set by     *)
(* workers that are gone: a stop is only posted when somebody was there.          *)
MiningHasWorker == mining => Active + leaving > 0

(* When the last peer is gone and its handler is through, the miner has been told  *)
(* so and the next peer will be announced, whatever the handlers of the peers did   *)
(* to feeded in between (removePeer, handle).                                     *)
ClosedWithoutPeers ==
  (\A p \in Peers : hpc[p] = "off") => told = "CLOSED" /\ ~feeded
=============================================================================
