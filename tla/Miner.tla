------------------------------- MODULE Miner -------------------------------
(***************************************************************************)
(* The miner (sdag/miner/miner.go) behind the feed of network events          *)
(* (devbase/event/feed.go).                                                 *)
(*                                                                         *)
(* A listener goroutine takes events from the feed and orders from the RPC    *)
(* interface, and starts a worker or posts a stop to one. Every Start adds a   *)
(* listener that subscribes the one channel netstatus once more, so an event   *)
(* is sent as often as there are subscriptions and whichever listener is free  *)
(* takes it. Listeners are alike and so are workers: the model counts them by  *)
(* where they are. Send keeps sendLock until every copy is taken.              *)
(*                                                                         *)
(* What a worker mines is left out: the search either sends a block or not.    *)
(* So is Stop: Sdag.Stop stops the protocol manager first, and that call never  *)
(* returns (the fetcher's loop has no way out).                                 *)
(***************************************************************************)
EXTENDS Integers

CONSTANTS
  Senders,    \* goroutines that call Feed.Send
  MaxOrders   \* bound: calls of StartMiner and StopMiner

ASSUME MinerAssumption == MaxOrders \in Nat

Events == {"CONNECTED", "CLOSED", "SYNCING", "COMPLETED"}
Orders == Events \cup {"start", "stop"}
Starts == {"CONNECTED", "COMPLETED", "start"}   \* schedule(m, true)

VARIABLES
  feed,       \* the Send that holds sendLock: [by, ev, left], left copies are not taken yet
  inbox,      \* subscriptions since the last Send
  cases,      \* subscriptions that Send knows
  fresh,      \* listeners not yet subscribed
  free,       \* listeners in their select
  held,       \* held[o]: listeners that have taken o and not yet run schedule
  posting,    \* listeners that post on stopMiningCh
  calls,      \* calls[o]: RPC goroutines that send o on miningCh
  orders,     \* RPC calls so far
  key,        \* PrivateKey is set
  syncState,  \* SyncState
  mining,     \* the flag mining
  born,       \* workers that have not read PrivateKey
  searching,  \* workers at the select of their search
  sending,    \* workers in sender or asleep
  leaving     \* workers that return, before clean

listeners == <<inbox, cases, fresh, free, held, posting>>
workers == <<mining, born, searching, sending, leaving>>
rpc == <<calls, orders, key>>
minerVars == <<feed, listeners, syncState, rpc, workers>>

NoSend == [by |-> "none", ev |-> "none", left |-> 0]

(* StartInit at the start of the node                                          *)
MinerInit ==
  /\ feed = NoSend /\ inbox = 0 /\ cases = 0
  /\ fresh = 1 /\ free = 0 /\ held = [o \in Orders |-> 0] /\ posting = 0
  /\ calls = [o \in {"start", "stop"} |-> 0] /\ orders = 0 /\ key = FALSE
  /\ syncState = "SYNCING"
  /\ mining = FALSE /\ born = 0 /\ searching = 0 /\ sending = 0 /\ leaving = 0

-----------------------------------------------------------------------------
(* The feed                                                                    *)

SendBegin(by, ev) ==
  /\ feed = NoSend
  /\ feed' = [by |-> by, ev |-> ev, left |-> cases + inbox]
  /\ cases' = cases + inbox /\ inbox' = 0
  /\ UNCHANGED <<fresh, free, held, posting, syncState, rpc, workers>>

SendEnd(by) ==
  /\ feed.by = by /\ feed.left = 0
  /\ feed' = NoSend
  /\ UNCHANGED <<listeners, syncState, rpc, workers>>

-----------------------------------------------------------------------------
(* Listeners                                                                   *)

Subscribe ==
  /\ fresh > 0
  /\ fresh' = fresh - 1 /\ free' = free + 1 /\ inbox' = inbox + 1
  /\ UNCHANGED <<feed, cases, held, posting, syncState, rpc, workers>>

Hold(o) == held' = [held EXCEPT ![o] = @ + 1] /\ free' = free - 1

TakeEvent ==
  /\ free > 0 /\ feed.left > 0
  /\ Hold(feed.ev)
  /\ feed' = [feed EXCEPT !.left = @ - 1]
  /\ UNCHANGED <<inbox, cases, fresh, posting, syncState, rpc, workers>>

TakeOrder(o) ==
  /\ free > 0 /\ calls[o] > 0
  /\ Hold(o)
  /\ calls' = [calls EXCEPT ![o] = @ - 1]
  /\ UNCHANGED <<feed, inbox, cases, fresh, posting, syncState, orders, key, workers>>

(* schedule reads the flag mining that the workers write; a stop is a send on a   *)
(* channel without buffer                                                        *)
Schedule(o) ==
  /\ held[o] > 0
  /\ held' = [held EXCEPT ![o] = @ - 1]
  /\ syncState' = IF o \in {"SYNCING", "COMPLETED"} THEN o ELSE syncState
  /\ \/ /\ o \in Starts
        /\ free' = free + 1
        /\ born' = IF mining THEN born ELSE born + 1
        /\ UNCHANGED posting
     \/ /\ o \notin Starts /\ ~mining
        /\ free' = free + 1
        /\ UNCHANGED <<born, posting>>
     \/ /\ o \notin Starts /\ mining
        /\ posting' = posting + 1
        /\ UNCHANGED <<free, born>>
  /\ UNCHANGED <<feed, inbox, cases, fresh, rpc, mining, searching, sending, leaving>>

-----------------------------------------------------------------------------
(* Workers                                                                     *)

(* work: nothing without a key                                                 *)
WorkBegin ==
  /\ born > 0 /\ born' = born - 1
  /\ mining' = (key \/ mining)
  /\ searching' = IF key THEN searching + 1 ELSE searching
  /\ UNCHANGED <<feed, listeners, syncState, rpc, sending, leaving>>

(* slip: the search ends without a stop                                         *)
StopTakenUnasked ==
  /\ searching > 0
  /\ posting' = posting - 1 /\ free' = free + 1
  /\ searching' = searching - 1 /\ leaving' = leaving + 1
  /\ UNCHANGED <<feed, inbox, cases, fresh, held, syncState, rpc, mining, born, sending>>

(* the select of the search prefers a stop that is ready                         *)
StopTaken ==
  /\ searching > 0 /\ posting > 0
  /\ posting' = posting - 1 /\ free' = free + 1
  /\ searching' = searching - 1 /\ leaving' = leaving + 1
  /\ UNCHANGED <<feed, inbox, cases, fresh, held, syncState, rpc, mining, born, sending>>

(* the block goes to the pool, then the worker sleeps                            *)
SendBlock ==
  /\ searching > 0 /\ posting = 0
  /\ searching' = searching - 1 /\ sending' = sending + 1
  /\ UNCHANGED <<feed, listeners, syncState, rpc, mining, born, leaving>>

Awake ==
  /\ sending > 0
  /\ sending' = sending - 1 /\ searching' = searching + 1
  /\ UNCHANGED <<feed, listeners, syncState, rpc, mining, born, leaving>>

(* slip: the worker returns without resetting the flag                           *)
CleanKeepsFlag ==
  /\ leaving > 0 /\ leaving' = leaving - 1
  /\ UNCHANGED <<feed, listeners, syncState, rpc, mining, born, searching, sending>>

Clean ==
  /\ leaving > 0 /\ leaving' = leaving - 1
  /\ mining' = FALSE
  /\ UNCHANGED <<feed, listeners, syncState, rpc, born, searching, sending>>

-----------------------------------------------------------------------------
(* The RPC interface                                                             *)

(* Start: the key, a listener more, then the order                              *)
StartMiner ==
  /\ orders < MaxOrders /\ orders' = orders + 1
  /\ key' = TRUE
  /\ fresh' = fresh + 1
  /\ calls' = [calls EXCEPT !["start"] = @ + 1]
  /\ UNCHANGED <<feed, inbox, cases, free, held, posting, syncState, workers>>

PostStop ==
  /\ orders < MaxOrders /\ orders' = orders + 1
  /\ calls' = [calls EXCEPT !["stop"] = @ + 1]
  /\ UNCHANGED <<feed, listeners, syncState, key, workers>>

-----------------------------------------------------------------------------
ListenerStep ==
  \/ Subscribe \/ TakeEvent
  \/ \E o \in {"start", "stop"} : TakeOrder(o)
  \/ \E o \in Orders : Schedule(o)
WorkerStep == WorkBegin \/ StopTaken \/ Awake \/ Clean
=============================================================================
