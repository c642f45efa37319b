------------------------------ MODULE BlockPool ------------------------------
(***************************************************************************)
(* The block pool (sdag/manager/block_pool.go): how blocks that arrive in   *)
(* any order, from the miner, from announcements, from a synchronisation or  *)
(* as the answer to a request, end up in the database with all their links.  *)
(*                                                                         *)
(* Workers run AddBlock. A block with unknown links is kept in               *)
(* IsolatedBlockMap, and the unknown links in lackBlockMap; storing a block   *)
(* releases the isolated blocks that waited for it, layer by layer. The link  *)
(* check reads the database without a lock, so it can be out of date when     *)
(* its result is used; TimedRequestForIsolatedBlocks repairs that and asks    *)
(* the network for what is missing. The loop goroutine keeps the list of      *)
(* unverified blocks (tips) from two channels.                                *)
(*                                                                         *)
(* What storing does to the chain (ComputeCumulativeDiff, UpdateTail) is the  *)
(* subject of MainChain; here a block is in the database or is not. The event  *)
(* RelayBlocksEvent that ends linkCheckAndSave has no reader in this module.   *)
(***************************************************************************)
EXTENDS Integers, Sequences, FiniteSets, Functions

CONSTANTS
  Blocks,    \* hashes of the blocks that exist in the network
  Genesis,   \* stored from the start
  None,      \* no holder of a lock
  Links,     \* block.GetLinks()
  Time,      \* block.GetTime()
  Period,    \* params.TimePeriod
  NoInfo,    \* blocks whose RLP an earlier crash left without a MutableInfo
  Arrivals,  \* what the outside sends: records [blk, kind], each at most once
  Workers,   \* the goroutines of BlockProcessing
  Timer,     \* the goroutine of TimedRequestForIsolatedBlocks
  AddCap, DelCap,  \* capacities of unverifiedAddChan and unverifiedDelChan
  MaxTips,   \* capacity of the list unverifiedBlocks
  MaxSyncs   \* bound: changes of the synchronisation status

Kinds == {"local", "network", "isolate", "sync"}
Message == [blk : Blocks, kind : Kinds]
Procs == Workers \cup {Timer}

ASSUME PoolAssumption ==
  /\ Genesis \in Blocks /\ None \notin Procs /\ Timer \notin Workers
  /\ Links \in [Blocks -> Seq(Blocks)] /\ Links[Genesis] = << >>
  /\ \A b \in Blocks : b \notin Range(Links[b])  \* links are hashes
  /\ Time \in [Blocks -> Nat] /\ Period \in Nat \ {0}
  /\ NoInfo \subseteq Blocks \ {Genesis}
  /\ Arrivals \subseteq [blk : Blocks, kind : {"local", "announce", "sync"}]
  /\ AddCap \in Nat \ {0} /\ DelCap \in Nat
  /\ \A b \in Blocks : Len(Links[b]) <= DelCap
  /\ MaxTips \in Nat /\ MaxSyncs \in Nat

VARIABLES
  rlp,       \* blocks in the database
  iso,       \* IsolatedBlockMap: Links still missing, LinkIt
  lack,      \* lackBlockMap: LinkIt, MinTime
  tips,      \* unverifiedBlocks
  addChan, delChan, \* unverifiedAddChan, unverifiedDelChan
  inbox,     \* blocks in the channels of BlockProcessing
  asked,     \* blocks requested from the network and not yet delivered
  coming,    \* what the outside has still to send
  maxSync,   \* MaxSyncTime
  syncing,   \* syncStatus = SDAGSYNC_SYNCING
  syncs,     \* changes of syncStatus so far
  loc,       \* local state of every goroutine
  due,       \* blockList of the timer goroutine
  rwlock, addBlockLock  \* who holds them

vars == <<rlp, iso, lack, tips, addChan, delChan, inbox, asked, coming, maxSync, syncing, syncs, loc, due, rwlock, addBlockLock>>

(* pc: where in AddBlock; i, missing: the link check; cur: the block being    *)
(* stored; kids: LinkIt of a released block; todo: LinkIt entries that        *)
(* deleteIsolatedBlock has still to visit                                     *)
Idle == [pc |-> "idle", blk |-> Genesis, kind |-> "local", i |-> 1, missing |-> {},
         cur |-> Genesis, kids |-> {}, todo |-> {}]

EmptyMap == [x \in {} |-> x]

Init ==
  /\ rlp = {Genesis} \cup NoInfo
  /\ iso = EmptyMap /\ lack = EmptyMap
  /\ tips = {Genesis}
  /\ addChan = << >> /\ delChan = << >>
  /\ inbox = {} /\ asked = {} /\ coming = Arrivals
  /\ maxSync = 0 /\ syncing = FALSE /\ syncs = 0
  /\ loc = [p \in Procs |-> Idle]
  /\ due = {}
  /\ rwlock = None /\ addBlockLock = None

Go(p, pc) == loc' = [loc EXCEPT ![p].pc = pc]
Maps == <<iso, lack>>
Tips == <<tips, addChan, delChan>>
Net == <<inbox, asked, coming>>
Sync == <<maxSync, syncing, syncs>>
Locks == <<rwlock, addBlockLock>>
------------------------------------------------------------------------------
(* Arrival of blocks *)

(* A local or synchronised block is posted to the pool; an announced one is   *)
(* asked for unless it is stored already (loop).                              *)
Arrive(m) ==
  /\ m \in coming
  /\ coming' = coming \ {m}
  /\ IF m.kind = "announce"
     THEN /\ asked' = IF m.blk \in rlp THEN asked
                      ELSE asked \cup {[blk |-> m.blk, kind |-> "network"]}
          /\ UNCHANGED inbox
     ELSE inbox' = inbox \cup {m} /\ UNCHANGED asked
  /\ UNCHANGED <<rlp, iso, lack, tips, addChan, delChan, maxSync, syncing, syncs,
                 loc, due, rwlock, addBlockLock>>

(* The network answers a request. *)
Deliver(m) ==
  /\ m \in asked
  /\ asked' = asked \ {m}
  /\ inbox' = inbox \cup {m}
  /\ UNCHANGED <<rlp, iso, lack, tips, addChan, delChan, coming, maxSync, syncing,
                 syncs, loc, due, rwlock, addBlockLock>>

(* slip: links counted from zero *)
AddBlockFromZero(w, m) ==
  /\ loc[w].pc = "idle"
  /\ m \in inbox
  /\ inbox' = inbox \ {m}
  /\ loc' = [loc EXCEPT ![w] = [Idle EXCEPT !.pc = IF m.blk \in rlp THEN "begin" ELSE "check",
                                            !.blk = m.blk, !.cur = m.blk, !.kind = m.kind,
                                            !.i = 0]]
  /\ UNCHANGED <<rlp, iso, lack, tips, addChan, delChan, asked, coming, maxSync,
                 syncing, syncs, due, rwlock, addBlockLock>>

(* A worker takes a block and runs AddBlock: a stored block only releases     *)
(* those that wait for it.                                                    *)
AddBlock(w, m) ==
  /\ loc[w].pc = "idle"
  /\ m \in inbox
  /\ inbox' = inbox \ {m}
  /\ loc' = [loc EXCEPT ![w] = [Idle EXCEPT !.pc = IF m.blk \in rlp THEN "begin" ELSE "check",
                                            !.blk = m.blk, !.cur = m.blk, !.kind = m.kind]]
  /\ UNCHANGED <<rlp, iso, lack, tips, addChan, delChan, asked, coming, maxSync,
                 syncing, syncs, due, rwlock, addBlockLock>>
------------------------------------------------------------------------------
(* linkCheckAndSave *)

(* one link: a stored link later than the block is an error, an unknown one   *)
(* makes the block isolated                                                   *)
CheckLink(w) ==
  LET l == loc[w]
      h == Links[l.blk][l.i]
  IN  /\ l.pc = "check" /\ l.i <= Len(Links[l.blk])
      /\ loc' = [loc EXCEPT ![w] =
                   IF h \notin rlp THEN [l EXCEPT !.i = @ + 1, !.missing = @ \cup {h}]
                   ELSE IF Time[h] > Time[l.blk] THEN Idle
                   ELSE [l EXCEPT !.i = @ + 1]]
      /\ UNCHANGED <<rlp, Maps, Tips, Net, Sync, due, Locks>>

(* slip: stored whatever is missing *)
AfterCheckStores(l) == "del"

AfterCheck(l) == IF l.missing = {} THEN "del" ELSE "isolate"

CheckDone(w) ==
  LET l == loc[w]
  IN  /\ l.pc = "check" /\ l.i > Len(Links[l.blk])
      /\ Go(w, IF l.kind = "sync" THEN "synctime" ELSE AfterCheck(l))
      /\ UNCHANGED <<rlp, Maps, Tips, Net, Sync, due, Locks>>

(* updateSyncTime compares under the read lock ... *)
SyncTimeCheck(w) ==
  /\ loc[w].pc = "synctime"
  /\ Go(w, IF maxSync < Time[loc[w].blk] THEN "syncwrite" ELSE AfterCheck(loc[w]))
  /\ UNCHANGED <<rlp, Maps, Tips, Net, Sync, due, Locks>>

(* ... and assigns under the write lock *)
SyncTimeWrite(w) ==
  /\ loc[w].pc = "syncwrite"
  /\ maxSync' = Time[loc[w].blk]
  /\ Go(w, AfterCheck(loc[w]))
  /\ UNCHANGED <<rlp, Maps, Tips, Net, syncing, syncs, due, Locks>>

(* IsolatedBlockMap and lackBlockMap after addIsolatedBlock(b, missing) *)
IsoWith(b, missing) ==
  [h \in DOMAIN iso \cup {b} |->
     IF h = b THEN [links |-> missing,
                    linkIt |-> IF b \in DOMAIN lack THEN lack[b].linkIt ELSE {}]
     ELSE IF h \in missing THEN [iso[h] EXCEPT !.linkIt = @ \cup {b}]
     ELSE iso[h]]

(* slip: the LinkIt of an entry of lackBlockMap is not extended but replaced *)
LackReplacesLinkIt(b, missing) ==
  LET new == missing \ (DOMAIN iso \cup {b})
  IN  [x \in (DOMAIN lack \ {b}) \cup new |->
         IF x \notin new THEN lack[x] ELSE [linkIt |-> {b}, minTime |-> Time[b]]]

LackWith(b, missing) ==
  LET new == missing \ (DOMAIN iso \cup {b})
  IN  [x \in (DOMAIN lack \ {b}) \cup new |->
         IF x \notin new THEN lack[x]
         ELSE IF x \in DOMAIN lack
         THEN [linkIt |-> lack[x].linkIt \cup {b},
               minTime |-> IF lack[x].minTime > Time[b] THEN Time[b] ELSE lack[x].minTime]
         ELSE [linkIt |-> {b}, minTime |-> Time[b]]]

AddIsolatedBlock(w) ==
  LET b == loc[w].blk
  IN  /\ loc[w].pc = "isolate"
      /\ rwlock = None
      /\ IF b \in DOMAIN iso THEN UNCHANGED Maps
         ELSE /\ iso' = IsoWith(b, loc[w].missing)
              /\ lack' = LackWith(b, loc[w].missing)
      /\ loc' = [loc EXCEPT ![w] = Idle]
      /\ UNCHANGED <<rlp, Tips, Net, Sync, due, Locks>>
------------------------------------------------------------------------------
(* Storing a block: linkCheckAndSave, and deleteIsolatedBlock for a released   *)
(* block (the goroutine then holds rwlock)                                    *)

(* deleteUnverifiedBlocks; the sends of one block are taken together, the      *)
(* order of removals does not matter                                          *)
DeleteUnverifiedBlocks(p) ==
  LET ls == Links[loc[p].cur]
  IN  /\ loc[p].pc = "del"
      /\ Len(delChan) + Len(ls) <= DelCap
      /\ delChan' = delChan \o ls
      /\ Go(p, "save")
      /\ UNCHANGED <<rlp, Maps, tips, addChan, Net, Sync, due, Locks>>

(* ComputeCumulativeDiff fails on a link without a MutableInfo *)
Computed(b) == Range(Links[b]) \cap NoInfo = {}

(* addBlockLock, ComputeCumulativeDiff and WriteBlock; a block without a        *)
(* cumulative difficulty is given up                                          *)
SaveBlock(p) ==
  LET b == loc[p].cur
  IN  /\ loc[p].pc = "save"
      /\ addBlockLock = None
      /\ IF Computed(b)
         THEN rlp' = rlp \cup {b} /\ addBlockLock' = p /\ Go(p, "push")
         ELSE /\ loc' = [loc EXCEPT ![p] = IF rwlock = p
                                           THEN [@ EXCEPT !.pc = "release", !.kids = {}]
                                           ELSE Idle]
              /\ UNCHANGED <<rlp, addBlockLock>>
      /\ UNCHANGED <<Maps, Tips, Net, Sync, due, rwlock>>

(* slip: a send that gives up when the channel is full *)
AddUnverifiedOrDrop(p) ==
  LET l == loc[p]
  IN  /\ l.pc = "push"
      /\ addChan' = IF Len(addChan) < AddCap THEN Append(addChan, l.cur) ELSE addChan
      /\ addBlockLock' = None
      /\ loc' = [loc EXCEPT ![p] =
                   IF rwlock = p
                   THEN [l EXCEPT !.pc = "release", !.kids = {},
                                  !.todo = @ \cup {<<l.cur, c>> : c \in l.kids}]
                   ELSE [l EXCEPT !.pc = "begin"]]
      /\ UNCHANGED <<rlp, Maps, tips, delChan, Net, Sync, due, rwlock>>

(* addUnverifiedBlock, still under addBlockLock; a released block's own         *)
(* descendants form the next layer                                            *)
AddUnverifiedBlock(p) ==
  LET l == loc[p]
  IN  /\ l.pc = "push"
      /\ Len(addChan) < AddCap
      /\ addChan' = Append(addChan, l.cur)
      /\ addBlockLock' = None
      /\ loc' = [loc EXCEPT ![p] =
                   IF rwlock = p
                   THEN [l EXCEPT !.pc = "release", !.kids = {},
                                  !.todo = @ \cup {<<l.cur, c>> : c \in l.kids}]
                   ELSE [l EXCEPT !.pc = "begin"]]
      /\ UNCHANGED <<rlp, Maps, tips, delChan, Net, Sync, due, rwlock>>
------------------------------------------------------------------------------
(* deleteIsolatedBlock *)

Without(f, x) == [y \in DOMAIN f \ {x} |-> f[y]]

DeleteIsolatedBlock(p) ==
  LET b == loc[p].blk
  IN  /\ loc[p].pc = "begin"
      /\ rwlock = None
      /\ IF b \in DOMAIN lack
         THEN /\ rwlock' = p
              /\ lack' = Without(lack, b)
              /\ loc' = [loc EXCEPT ![p].pc = "release",
                                    ![p].todo = {<<b, c>> : c \in lack[b].linkIt}]
         ELSE loc' = [loc EXCEPT ![p] = Idle] /\ UNCHANGED <<rwlock, lack>>
      /\ UNCHANGED <<rlp, iso, Tips, Net, Sync, due, addBlockLock>>

(* one entry of LinkIt: e[2] no longer waits for e[1]; the last wait over, it   *)
(* leaves the map and is stored                                               *)
ReleaseOne(p, e) ==
  LET h == e[2]
      left == iso[h].links \ {e[1]}
      l == [loc[p] EXCEPT !.todo = @ \ {e}]
  IN  /\ loc[p].pc = "release"
      /\ e \in loc[p].todo
      /\ IF h \notin DOMAIN iso THEN loc' = [loc EXCEPT ![p] = l] /\ UNCHANGED iso
         ELSE IF left # {}
         THEN /\ iso' = [iso EXCEPT ![h].links = left]
              /\ loc' = [loc EXCEPT ![p] = l]
         ELSE /\ iso' = Without(iso, h)
              /\ loc' = [loc EXCEPT ![p] = [l EXCEPT !.pc = "del", !.cur = h,
                                                     !.kids = iso[h].linkIt]]
      /\ UNCHANGED <<rlp, lack, Tips, Net, Sync, due, Locks>>

ReleaseEnd(p) ==
  /\ loc[p].pc = "release"
  /\ loc[p].todo = {}
  /\ rwlock' = None
  /\ loc' = [loc EXCEPT ![p] = Idle]
  /\ UNCHANGED <<rlp, Maps, Tips, Net, Sync, due, addBlockLock>>

SaveStep(p) == DeleteUnverifiedBlocks(p) \/ SaveBlock(p) \/ AddUnverifiedBlock(p)

ReleaseStep(p) ==
  \/ DeleteIsolatedBlock(p) \/ ReleaseEnd(p)
  \/ \E e \in Blocks \X Blocks : ReleaseOne(p, e)
------------------------------------------------------------------------------
(* TimedRequestForIsolatedBlocks *)

MainTime(t) == t \div Period

(* slip: only requests, nothing that was stored meanwhile is released *)
TimedRequestOnly ==
  /\ loc[Timer].pc = "idle" /\ due = {}
  /\ rwlock = None
  /\ due' = {}
  /\ asked' = asked \cup
       {[blk |-> x, kind |-> "isolate"] :
          x \in {y \in DOMAIN lack \ rlp :
                   ~(syncing /\ MainTime(lack[y].minTime) >= MainTime(maxSync))}}
  /\ UNCHANGED <<rlp, Maps, Tips, inbox, coming, Sync, loc, Locks>>

(* One round: what was stored meanwhile is released, the rest is requested,     *)
(* unless a synchronisation is under way that has not come that far.           *)
TimedRequest ==
  /\ loc[Timer].pc = "idle" /\ due = {}
  /\ rwlock = None
  /\ due' = DOMAIN lack \cap rlp
  /\ asked' = asked \cup
       {[blk |-> x, kind |-> "isolate"] :
          x \in {y \in DOMAIN lack \ rlp :
                   ~(syncing /\ MainTime(lack[y].minTime) >= MainTime(maxSync))}}
  /\ UNCHANGED <<rlp, Maps, Tips, inbox, coming, Sync, loc, Locks>>

TimedRelease(b) ==
  /\ loc[Timer].pc = "idle" /\ b \in due
  /\ due' = due \ {b}
  /\ loc' = [loc EXCEPT ![Timer] = [Idle EXCEPT !.pc = "begin", !.blk = b]]
  /\ UNCHANGED <<rlp, Maps, Tips, Net, Sync, Locks>>

(* the goroutine reads a new status from syncStatusSub *)
SyncStatus ==
  /\ loc[Timer].pc = "idle" /\ due = {} /\ syncs < MaxSyncs
  /\ syncing' = ~syncing /\ syncs' = syncs + 1
  /\ UNCHANGED <<rlp, Maps, Tips, Net, maxSync, loc, due, Locks>>
------------------------------------------------------------------------------
(* The loop goroutine keeps the list of unverified blocks *)

PushTip ==
  /\ addChan # << >>
  /\ addChan' = Tail(addChan)
  /\ tips' = IF Cardinality(tips) >= MaxTips THEN tips ELSE tips \cup {Head(addChan)}
  /\ UNCHANGED <<rlp, Maps, delChan, Net, Sync, loc, due, Locks>>

RemoveTip ==
  /\ delChan # << >>
  /\ delChan' = Tail(delChan)
  /\ tips' = tips \ {Head(delChan)}
  /\ UNCHANGED <<rlp, Maps, addChan, Net, Sync, loc, due, Locks>>
------------------------------------------------------------------------------
WorkerStep(w) ==
  \/ CheckLink(w) \/ CheckDone(w) \/ SyncTimeCheck(w) \/ SyncTimeWrite(w)
  \/ AddIsolatedBlock(w) \/ SaveStep(w) \/ ReleaseStep(w)

TimerStep ==
  \/ TimedRequest \/ (\E b \in Blocks : TimedRelease(b))
  \/ SaveStep(Timer) \/ ReleaseStep(Timer)

Next ==
  \/ \E m \in Arrivals : Arrive(m)
  \/ \E m \in Message : Deliver(m) \/ \E w \in Workers : AddBlock(w, m)
  \/ \E w \in Workers : WorkerStep(w)
  \/ TimerStep \/ SyncStatus
  \/ PushTip \/ RemoveTip

(* Goroutines that can go on do so, the channels of BlockProcessing are first   *)
(* in first out, and peers answer requests; arrivals need not happen.          *)
Fairness ==
  /\ \A m \in Message : WF_vars(Deliver(m)) /\ WF_vars(\E w \in Workers : AddBlock(w, m))
  /\ \A w \in Workers : WF_vars(WorkerStep(w))
  /\ WF_vars(TimerStep)
  /\ WF_vars(PushTip) /\ WF_vars(RemoveTip)

Spec == Init /\ [][Next]_vars /\ Fairness
------------------------------------------------------------------------------
(* Properties *)

Local == [pc : {"idle", "check", "synctime", "syncwrite", "isolate", "del", "save", "push",
                "begin", "release"},
          blk : Blocks, kind : Kinds, i : Nat \ {0}, missing : SUBSET Blocks, cur : Blocks,
          kids : SUBSET Blocks, todo : SUBSET (Blocks \X Blocks)]

(* The pool's maps, lists, channels and locals keep their types. *)
TypeOK ==
  /\ rlp \in SUBSET Blocks
  /\ DOMAIN iso \in SUBSET Blocks
  /\ \A h \in DOMAIN iso : iso[h] \in [links : SUBSET Blocks, linkIt : SUBSET Blocks]
  /\ DOMAIN lack \in SUBSET Blocks
  /\ \A x \in DOMAIN lack : lack[x] \in [linkIt : SUBSET Blocks, minTime : Nat]
  /\ tips \in SUBSET Blocks
  /\ addChan \in Seq(Blocks) /\ delChan \in Seq(Blocks)
  /\ inbox \in SUBSET Message /\ asked \in SUBSET Message
  /\ coming \in SUBSET Arrivals
  /\ maxSync \in Nat /\ syncing \in BOOLEAN /\ syncs \in Nat
  /\ loc \in [Procs -> Local]
  /\ due \in SUBSET Blocks
  /\ rwlock \in Procs \cup {None} /\ addBlockLock \in Procs \cup {None}

(* who waits for x: the entry of lackBlockMap or of IsolatedBlockMap, or what   *)
(* a deleteIsolatedBlock under way has taken out of them                       *)
Waiters(x) ==
  (IF x \in DOMAIN lack THEN lack[x].linkIt ELSE {})
    \cup (IF x \in DOMAIN iso THEN iso[x].linkIt ELSE {})
    \cup (UNION {{h \in Blocks : <<x, h>> \in loc[p].todo} : p \in Procs})
    \cup (UNION {loc[p].kids : p \in {q \in Procs : loc[q].cur = x}})

(* The two maps agree: a block in a LinkIt is isolated and waits for the owner,   *)
(* otherwise deleteIsolatedBlock would meet its errors "IsolatedBlockMap[hash]   *)
(* Exception" and "Links not found self" (block_pool.go:386, :400); and whoever   *)
(* waits for a block is in its LinkIt, otherwise it would never be released,     *)
(* which only happens to those that wait for a block that was given up (:421).   *)
MapsAgree ==
  /\ DOMAIN iso \cap DOMAIN lack = {}
  /\ \A x \in Blocks : \A h \in Waiters(x) : h \in DOMAIN iso /\ x \in iso[h].links
  /\ \A h \in DOMAIN iso : \A x \in iso[h].links : Computed(x) => h \in Waiters(x)

(* A stored block's links are stored: the graph in the database has no hole,     *)
(* whatever the order of arrival (block_pool.go:484).                           *)
Closed == \A b \in rlp \ NoInfo : Range(Links[b]) \subseteq rlp

(* Every stored block is linked by a stored block, or by one that is about to be  *)
(* stored, or is offered to the miner as unverified, or is on its way there: no   *)
(* tip of the graph is forgotten (block_pool.go:533), except for the sake of a    *)
(* block that then fails for a link without a MutableInfo.                       *)
NoTipLost ==
  \A b \in rlp \ NoInfo :
    \/ b \in tips \cup Range(addChan)
    \/ \E p \in Procs : loc[p].pc = "push" /\ loc[p].cur = b
    \/ \E p \in Procs : loc[p].pc = "save" /\ b \in Range(Links[loc[p].cur])
    \/ \E c \in Blocks : /\ b \in Range(Links[c])
                         /\ c \in rlp \/ ~Computed(c)

(* Once no synchronisation holds requests back, and if no earlier crash left a    *)
(* block without its MutableInfo, the pool empties: nothing is left in either map  *)
(* and every block that arrived is stored. Of its ancestors the network only sends *)
(* those it is asked for (block_pool.go:228).                                     *)
Drains ==
  NoInfo = {} /\ <>[]~syncing =>
    <>[](/\ DOMAIN iso = {} /\ DOMAIN lack = {}
         /\ \A m \in Arrivals \ coming : m.blk \in rlp)
==============================================================================
