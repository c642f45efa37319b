-------------------------- MODULE BlockPoolProofs ---------------------------
(***************************************************************************)
(* The block pool keeps its maps in agreement, its graph without holes and    *)
(* its tips, for every graph, any number of workers and any arrivals.          *)
(*                                                                         *)
(* None of the three is inductive by itself. A stored block has its links      *)
(* because the link check only ever forgets links it has seen stored, and an    *)
(* isolated block only stops waiting for a stored one (StoreInv, EntriesInv).   *)
(* The maps agree because a waiter is listed in one place at a time (Apart),    *)
(* and that because only the holder of rwlock has taken waiters out of the       *)
(* maps (part of StoreInv).                                                    *)
(***************************************************************************)
EXTENDS BlockPool, FiniteSetTheorems, TLAPS

Checking == {"check", "synctime", "syncwrite", "isolate"}
Saving == {"del", "save", "push"}

(* A goroutine p with locals l, when rw holds rwlock and db is stored. *)
LocalOK(p, l, rw, db) ==
  /\ rw = p => l.pc \in Saving \cup {"release"}
  /\ l.pc = "release" => rw = p /\ l.kids = {}
  /\ rw # p => l.kids = {} /\ l.todo = {}
  /\ \A e \in l.todo : e[1] \in db
  /\ l.missing \subseteq Range(Links[l.blk])
  /\ l.pc \in Checking => l.cur = l.blk
  /\ l.pc = "check" =>
       \A j \in 1 .. Len(Links[l.blk]) : j < l.i => Links[l.blk][j] \in db \cup l.missing
  /\ l.pc \in Checking \ {"check"} => Range(Links[l.blk]) \subseteq db \cup l.missing
  /\ l.pc \in Saving /\ rw # p => l.cur = l.blk
  /\ l.pc \in {"del", "save"} => Range(Links[l.cur]) \subseteq db
  /\ l.pc = "push" => l.cur \in db
  /\ l.pc = "begin" => l.blk \in db

StoreInv == \A p \in Procs : LocalOK(p, loc[p], rwlock, rlp)

(* What an isolated block does not wait for is stored, and what the timer is to   *)
(* release.                                                                     *)
EntriesInv ==
  /\ \A h \in DOMAIN iso : Range(Links[h]) \subseteq rlp \cup iso[h].links
  /\ due \subseteq rlp

(* Whose waiters have been taken out has no entry in the maps. *)
ApartOf(l, known) ==
  /\ \A e \in l.todo : e[1] \notin known
  /\ l.kids # {} => l.cur \notin known /\ \A e \in l.todo : e[1] # l.cur

Apart == \A p \in Procs : ApartOf(loc[p], DOMAIN iso \cup DOMAIN lack)

IInv == TypeOK /\ StoreInv /\ EntriesInv /\ Closed /\ Apart /\ MapsAgree

(* A removal of x from the tips is justified by a block that links to x and is    *)
(* stored, about to be stored, or was given up.                                  *)
Linked(x) ==
  \/ \E p \in Procs : loc[p].pc = "save" /\ x \in Range(Links[loc[p].cur])
  \/ \E c \in Blocks : x \in Range(Links[c]) /\ (c \in rlp \/ ~Computed(c))

TipInv == NoTipLost /\ \A x \in Range(delChan) : Linked(x)
-----------------------------------------------------------------------------
(* Types, in groups *)

DbType == rlp \in SUBSET Blocks /\ due \in SUBSET Blocks
MapType ==
  /\ DOMAIN iso \in SUBSET Blocks
  /\ \A h \in DOMAIN iso : iso[h] \in [links : SUBSET Blocks, linkIt : SUBSET Blocks]
  /\ DOMAIN lack \in SUBSET Blocks
  /\ \A x \in DOMAIN lack : lack[x] \in [linkIt : SUBSET Blocks, minTime : Nat]
TipType == tips \in SUBSET Blocks /\ addChan \in Seq(Blocks) /\ delChan \in Seq(Blocks)
NetType == inbox \in SUBSET Message /\ asked \in SUBSET Message /\ coming \in SUBSET Arrivals
SyncType == maxSync \in Nat /\ syncing \in BOOLEAN /\ syncs \in Nat
LocType == loc \in [Procs -> Local]
LockType == rwlock \in Procs \cup {None} /\ addBlockLock \in Procs \cup {None}

LEMMA TypeGroups ==
  /\ TypeOK <=> DbType /\ MapType /\ TipType /\ NetType /\ SyncType /\ LocType /\ LockType
  /\ TypeOK' <=> DbType' /\ MapType' /\ TipType' /\ NetType' /\ SyncType' /\ LocType' /\ LockType'
BY Zenon DEF TypeOK, DbType, MapType, TipType, NetType, SyncType, LocType, LockType

LEMMA TypesKept ==
  ASSUME TypeOK
  PROVE  /\ UNCHANGED <<rlp, due>> => DbType'
         /\ UNCHANGED Maps => MapType'
         /\ UNCHANGED Tips => TipType'
         /\ UNCHANGED Net => NetType'
         /\ UNCHANGED Sync => SyncType'
         /\ UNCHANGED loc => LocType'
         /\ UNCHANGED Locks => LockType'
<1>0. DbType /\ MapType /\ TipType /\ NetType /\ SyncType /\ LocType /\ LockType
  BY TypeGroups
<1>1. UNCHANGED <<rlp, due>> => DbType'
  BY <1>0 DEF DbType
<1>2. UNCHANGED Maps => MapType'
  BY <1>0 DEF MapType, Maps
<1>3. UNCHANGED Tips => TipType'
  BY <1>0 DEF TipType, Tips
<1>4. UNCHANGED Net => NetType'
  BY <1>0 DEF NetType, Net
<1>5. UNCHANGED Sync => SyncType'
  BY <1>0, Zenon DEF SyncType, Sync
<1>6. UNCHANGED loc => LocType'
  BY <1>0 DEF LocType
<1>7. UNCHANGED Locks => LockType'
  BY <1>0 DEF LockType, Locks
<1>8. QED
  BY <1>1, <1>2, <1>3, <1>4, <1>5, <1>6, <1>7

LEMMA LinksTyped ==
  ASSUME NEW b \in Blocks
  PROVE  /\ Links[b] \in Seq(Blocks) /\ Len(Links[b]) \in Nat
         /\ DOMAIN Links[b] = 1 .. Len(Links[b])
         /\ Range(Links[b]) \subseteq Blocks
         /\ \A j \in 1 .. Len(Links[b]) : Links[b][j] \in Range(Links[b])
         /\ \A x \in Range(Links[b]) : \E j \in 1 .. Len(Links[b]) : x = Links[b][j]
<1>1. Links[b] \in Seq(Blocks)
  BY PoolAssumption
<1>2. QED
  BY <1>1 DEF Range

LEMMA LocalFields ==
  ASSUME NEW l \in Local
  PROVE  /\ l.pc \in {"idle", "check", "synctime", "syncwrite", "isolate", "del", "save", "push",
                      "begin", "release"}
         /\ l.blk \in Blocks /\ l.kind \in Kinds /\ l.i \in Nat \ {0} /\ l.missing \in SUBSET Blocks
         /\ l.cur \in Blocks /\ l.kids \in SUBSET Blocks /\ l.todo \in SUBSET (Blocks \X Blocks)
BY DEF Local

LEMMA ProcFacts == Timer \in Procs /\ Workers \subseteq Procs /\ None \notin Procs
BY PoolAssumption DEF Procs

LEMMA IdleOK ==
  /\ Idle \in Local
  /\ \A p, rw, db : rw # p => LocalOK(p, Idle, rw, db)
<1>1. Idle \in Local
  BY PoolAssumption DEF Idle, Local, Kinds
<1>2. Idle.pc = "idle" /\ Idle.missing = {} /\ Idle.kids = {} /\ Idle.todo = {}
  BY DEF Idle
<1> HIDE DEF Idle
<1>3. ASSUME NEW p, NEW rw, NEW db, rw # p PROVE LocalOK(p, Idle, rw, db)
  BY <1>2, <1>3 DEF LocalOK, Saving, Checking
<1>4. QED
  BY <1>1, <1>3

LEMMA LocSet ==
  ASSUME loc \in [Procs -> Local], NEW p \in Procs, NEW r \in Local, loc' = [loc EXCEPT ![p] = r]
  PROVE  loc' \in [Procs -> Local] /\ loc'[p] = r /\ \A q \in Procs : q # p => loc'[q] = loc[q]
OBVIOUS

(* More blocks stored do not disturb a goroutine. *)
LEMMA LocalMono ==
  ASSUME NEW q, NEW l, NEW rw, NEW db, LocalOK(q, l, rw, db),
         NEW rw2, rw2 = q <=> rw = q, NEW db2, db \subseteq db2
  PROVE  LocalOK(q, l, rw2, db2)
BY DEF LocalOK

LEMMA StoreStep ==
  ASSUME StoreInv, NEW p \in Procs, \A q \in Procs : q # p => loc'[q] = loc[q],
         \A q \in Procs : q # p => (rwlock' = q <=> rwlock = q), rlp \subseteq rlp',
         LocalOK(p, loc'[p], rwlock', rlp')
  PROVE  StoreInv'
<1>1. ASSUME NEW q \in Procs PROVE LocalOK(q, loc'[q], rwlock', rlp')
  <2>1. CASE q = p
    BY <2>1
  <2>2. CASE q # p
    <3>1. LocalOK(q, loc[q], rwlock, rlp) /\ loc'[q] = loc[q] /\ (rwlock' = q <=> rwlock = q)
      BY <2>2 DEF StoreInv
    <3>2. LocalOK(q, loc[q], rwlock', rlp')
      BY <3>1, LocalMono
    <3>3. QED
      BY <3>1, <3>2
  <2>3. QED
    BY <2>1, <2>2
<1>2. QED
  BY <1>1 DEF StoreInv
-----------------------------------------------------------------------------
(* Who waits for whom *)

InLack(x, h) == x \in DOMAIN lack /\ h \in lack[x].linkIt
InIso(x, h) == x \in DOMAIN iso /\ h \in iso[x].linkIt
InTodo(p, x, h) == h \in Blocks /\ <<x, h>> \in loc[p].todo
InKids(p, x, h) == loc[p].cur = x /\ h \in loc[p].kids

LEMMA WaitersAre ==
  ASSUME NEW x, NEW h
  PROVE  h \in Waiters(x) <=> \/ InLack(x, h) \/ InIso(x, h)
                              \/ \E p \in Procs : InTodo(p, x, h) \/ InKids(p, x, h)
<1> DEFINE T(p) == {k \in Blocks : <<x, k>> \in loc[p].todo}
           A == IF x \in DOMAIN lack THEN lack[x].linkIt ELSE {}
           B == IF x \in DOMAIN iso THEN iso[x].linkIt ELSE {}
           C == UNION {T(p) : p \in Procs}
           D == UNION {loc[p].kids : p \in {q \in Procs : loc[q].cur = x}}
<1>1. h \in A <=> InLack(x, h)
  BY DEF InLack
<1>2. h \in B <=> InIso(x, h)
  BY DEF InIso
<1>3. h \in C <=> \E p \in Procs : InTodo(p, x, h)
  <2>1. \A p : h \in T(p) <=> InTodo(p, x, h)
    BY DEF InTodo
  <2> HIDE DEF T
  <2>2. QED
    BY <2>1
<1>4. h \in D <=> \E p \in Procs : InKids(p, x, h)
  BY Zenon DEF InKids
<1>5. Waiters(x) = A \cup B \cup C \cup D
  BY DEF Waiters
<1> HIDE DEF A, B, C, D
<1>6. QED
  BY <1>1, <1>2, <1>3, <1>4, <1>5

LEMMA WaitersArePrimed ==
  ASSUME NEW x, NEW h
  PROVE  h \in Waiters(x)' <=> \/ InLack(x, h)' \/ InIso(x, h)'
                               \/ \E p \in Procs : InTodo(p, x, h)' \/ InKids(p, x, h)'
<1> DEFINE T(p) == {k \in Blocks : <<x, k>> \in loc'[p].todo}
           A == IF x \in DOMAIN lack' THEN lack'[x].linkIt ELSE {}
           B == IF x \in DOMAIN iso' THEN iso'[x].linkIt ELSE {}
           C == UNION {T(p) : p \in Procs}
           D == UNION {loc'[p].kids : p \in {q \in Procs : loc'[q].cur = x}}
<1>1. h \in A <=> InLack(x, h)'
  BY DEF InLack
<1>2. h \in B <=> InIso(x, h)'
  BY DEF InIso
<1>3. h \in C <=> \E p \in Procs : InTodo(p, x, h)'
  <2>1. \A p : h \in T(p) <=> InTodo(p, x, h)'
    BY DEF InTodo
  <2> HIDE DEF T
  <2>2. QED
    BY <2>1
<1>4. h \in D <=> \E p \in Procs : InKids(p, x, h)'
  BY Zenon DEF InKids
<1>5. Waiters(x)' = A \cup B \cup C \cup D
  BY DEF Waiters
<1> HIDE DEF A, B, C, D
<1>6. QED
  BY <1>1, <1>2, <1>3, <1>4, <1>5
-----------------------------------------------------------------------------
(* Steps that do not touch the maps *)

(* MapsAgree, with the places of a waiter named *)
Agree ==
  /\ \A x \in Blocks : \A h : h \in Waiters(x) => h \in DOMAIN iso /\ x \in iso[h].links
  /\ \A h \in DOMAIN iso : \A x \in iso[h].links : Computed(x) => h \in Waiters(x)

LEMMA AgreeIs ==
  /\ MapsAgree <=> DOMAIN iso \cap DOMAIN lack = {} /\ Agree
  /\ MapsAgree' <=> DOMAIN iso' \cap DOMAIN lack' = {} /\ Agree'
BY DEF MapsAgree, Agree

LEMMA SameWaiters ==
  ASSUME iso' = iso, lack' = lack,
         \A p \in Procs : /\ loc'[p].kids = loc[p].kids /\ loc'[p].todo = loc[p].todo
                          /\ loc[p].kids # {} => loc'[p].cur = loc[p].cur
  PROVE  (MapsAgree => MapsAgree') /\ (Apart => Apart')
<1>1. ASSUME NEW x, NEW h PROVE h \in Waiters(x)' <=> h \in Waiters(x)
  <2>1. /\ InLack(x, h)' <=> InLack(x, h)
        /\ InIso(x, h)' <=> InIso(x, h)
    BY DEF InLack, InIso
  <2>2. ASSUME NEW p \in Procs PROVE /\ InTodo(p, x, h)' <=> InTodo(p, x, h)
                                     /\ InKids(p, x, h)' <=> InKids(p, x, h)
    BY DEF InTodo, InKids
  <2>3. QED
    BY <2>1, <2>2, WaitersAre, WaitersArePrimed
<1>2. Agree => Agree'
  BY <1>1 DEF Agree
<1>3. Apart => Apart'
  <2>1. ASSUME NEW p \in Procs, ApartOf(loc[p], DOMAIN iso \cup DOMAIN lack)
        PROVE  ApartOf(loc'[p], DOMAIN iso \cup DOMAIN lack)
    BY <2>1 DEF ApartOf
  <2>2. QED
    BY <2>1 DEF Apart
<1>4. QED
  BY <1>2, <1>3, AgreeIs

(* Goroutine p goes on to r, and neither the database nor the maps change. *)
LEMMA QuietStep ==
  ASSUME IInv, NEW p \in Procs, NEW r \in Local, loc' = [loc EXCEPT ![p] = r],
         rlp' = rlp, iso' = iso, lack' = lack, due' \subseteq rlp,
         \A q \in Procs : q # p => (rwlock' = q <=> rwlock = q),
         r.kids = loc[p].kids, r.todo = loc[p].todo, r.kids # {} => r.cur = loc[p].cur,
         LocalOK(p, r, rwlock', rlp),
         TipType', NetType', SyncType', LockType'
  PROVE  IInv'
<1>1. TypeOK /\ StoreInv /\ EntriesInv /\ Closed /\ Apart /\ MapsAgree
  BY DEF IInv
<1>2. DbType /\ LocType
  BY <1>1, TypeGroups
<1>3. loc' \in [Procs -> Local] /\ loc'[p] = r /\ \A q \in Procs : q # p => loc'[q] = loc[q]
  BY <1>2, LocSet DEF LocType
<1>4. TypeOK'
  <2>1. DbType'
    BY <1>2 DEF DbType
  <2>2. MapType'
    BY <1>1, TypesKept DEF Maps
  <2>3. LocType'
    BY <1>3 DEF LocType
  <2>4. QED
    BY <2>1, <2>2, <2>3, TypeGroups
<1>5. StoreInv'
  BY <1>1, <1>3, StoreStep
<1>6. EntriesInv' /\ Closed'
  BY <1>1 DEF EntriesInv, Closed
<1>7. Apart' /\ MapsAgree'
  <2>1. ASSUME NEW q \in Procs
        PROVE  /\ loc'[q].kids = loc[q].kids /\ loc'[q].todo = loc[q].todo
               /\ loc[q].kids # {} => loc'[q].cur = loc[q].cur
    BY <1>3
  <2>2. QED
    BY <1>1, <2>1, SameWaiters
<1>8. QED
  BY <1>4, <1>5, <1>6, <1>7 DEF IInv

(* No goroutine moves. *)
LEMMA StillStep ==
  ASSUME IInv, loc' = loc, rlp' = rlp, iso' = iso, lack' = lack, due' \subseteq rlp,
         rwlock' = rwlock, TipType', NetType', SyncType', LockType'
  PROVE  IInv'
<1>1. loc \in [Procs -> Local] /\ Timer \in Procs
  BY TypeGroups, ProcFacts DEF IInv, LocType
<1> DEFINE r == loc[Timer]
<1>2. r \in Local /\ loc' = [loc EXCEPT ![Timer] = r]
  BY <1>1
<1>3. LocalOK(Timer, r, rwlock', rlp)
  BY <1>1 DEF IInv, StoreInv
<1> HIDE DEF r
<1>4. r.kids = loc[Timer].kids /\ r.todo = loc[Timer].todo /\ r.cur = loc[Timer].cur
  BY DEF r
<1>5. QED
  BY <1>1, <1>2, <1>3, <1>4, QuietStep

LEMMA Facts ==
  ASSUME IInv
  PROVE  /\ loc \in [Procs -> Local] /\ rlp \in SUBSET Blocks /\ due \subseteq rlp
         /\ \A p \in Procs : loc[p] \in Local /\ LocalOK(p, loc[p], rwlock, rlp)
         /\ DbType /\ MapType /\ TipType /\ NetType /\ SyncType /\ LocType /\ LockType
         /\ StoreInv /\ EntriesInv /\ Closed /\ Apart /\ MapsAgree /\ TypeOK
<1>1. DbType /\ MapType /\ TipType /\ NetType /\ SyncType /\ LocType /\ LockType
  BY TypeGroups DEF IInv
<1>2. StoreInv /\ EntriesInv /\ Closed /\ Apart /\ MapsAgree /\ TypeOK
  BY DEF IInv
<1>3. loc \in [Procs -> Local]
  BY <1>1 DEF LocType
<1>4. \A p \in Procs : loc[p] \in Local /\ LocalOK(p, loc[p], rwlock, rlp)
  BY <1>2, <1>3 DEF StoreInv
<1>5. rlp \in SUBSET Blocks /\ due \subseteq rlp
  BY <1>1, <1>2 DEF DbType, EntriesInv
<1>6. QED
  BY <1>1, <1>2, <1>3, <1>4, <1>5

LEMMA EnvSteps ==
  ASSUME IInv
  PROVE  /\ \A m \in Arrivals : Arrive(m) => IInv'
         /\ \A m \in Message : Deliver(m) => IInv'
         /\ TimedRequest => IInv'
         /\ SyncStatus => IInv'
         /\ PushTip => IInv'
         /\ RemoveTip => IInv'
<1>0. /\ due \subseteq rlp /\ DbType /\ MapType /\ TipType /\ NetType /\ SyncType /\ LockType
      /\ TypeOK
  BY Facts
<1>k. /\ UNCHANGED Tips => TipType'
      /\ UNCHANGED Net => NetType'
      /\ UNCHANGED Sync => SyncType'
      /\ UNCHANGED Locks => LockType'
  BY <1>0, TypesKept
<1>1. ASSUME NEW m \in Arrivals, Arrive(m) PROVE IInv'
  <2>1. NetType'
    <3>1. m \in [blk : Blocks, kind : {"local", "announce", "sync"}]
      BY PoolAssumption
    <3>2. m.kind # "announce" => m \in Message
      BY <3>1 DEF Message, Kinds
    <3>3. [blk |-> m.blk, kind |-> "network"] \in Message
      BY <3>1 DEF Message, Kinds
    <3>4. QED
      BY <1>0, <1>1, <3>2, <3>3 DEF Arrive, NetType
  <2>2. TipType' /\ SyncType' /\ LockType'
    BY <1>k, <1>1 DEF Arrive, Tips, Sync, Locks
  <2>3. QED
    BY <1>0, <1>1, <2>1, <2>2, StillStep DEF Arrive
<1>2. ASSUME NEW m \in Message, Deliver(m) PROVE IInv'
  <2>1. NetType'
    BY <1>0, <1>2 DEF Deliver, NetType
  <2>2. TipType' /\ SyncType' /\ LockType'
    BY <1>k, <1>2 DEF Deliver, Tips, Sync, Locks
  <2>3. QED
    BY <1>0, <1>2, <2>1, <2>2, StillStep DEF Deliver
<1>3. ASSUME TimedRequest PROVE IInv'
  <2>1. NetType'
    <3>1. ASSUME NEW x \in DOMAIN lack PROVE [blk |-> x, kind |-> "isolate"] \in Message
      BY <1>0 DEF MapType, Message, Kinds
    <3>2. asked' \subseteq asked \cup {[blk |-> x, kind |-> "isolate"] : x \in DOMAIN lack}
      BY <1>3 DEF TimedRequest
    <3>3. asked' \in SUBSET Message
      BY <1>0, <3>1, <3>2 DEF NetType
    <3>4. QED
      BY <1>0, <1>3, <3>3 DEF TimedRequest, NetType
  <2>2. TipType' /\ SyncType' /\ LockType'
    BY <1>k, <1>3 DEF TimedRequest
  <2>3. QED
    BY <1>0, <1>3, <2>1, <2>2, StillStep DEF TimedRequest, Maps, Locks
<1>4. ASSUME SyncStatus PROVE IInv'
  <2>1. SyncType'
    <3>1. syncing' \in BOOLEAN
      BY <1>4, Zenon DEF SyncStatus
    <3>2. maxSync' \in Nat /\ syncs' \in Nat
      BY <1>0, <1>4 DEF SyncStatus, SyncType
    <3>3. QED
      BY <3>1, <3>2, Zenon DEF SyncType
  <2>2. TipType' /\ NetType' /\ LockType'
    BY <1>k, <1>4 DEF SyncStatus
  <2>3. /\ loc' = loc /\ rlp' = rlp /\ iso' = iso /\ lack' = lack /\ due' = due
        /\ rwlock' = rwlock
    BY <1>4, Zenon DEF SyncStatus, Maps, Locks
  <2>4. QED
    BY <1>0, <2>1, <2>2, <2>3, StillStep
<1>5. ASSUME PushTip PROVE IInv'
  <2>1. TipType'
    <3>1. addChan \in Seq(Blocks) /\ addChan # << >>
      BY <1>0, <1>5 DEF PushTip, TipType
    <3>2. Head(addChan) \in Blocks /\ Tail(addChan) \in Seq(Blocks)
      BY <3>1
    <3>3. QED
      BY <1>0, <1>5, <3>2 DEF PushTip, TipType
  <2>2. NetType' /\ SyncType' /\ LockType'
    BY <1>k, <1>5 DEF PushTip
  <2>3. QED
    BY <1>0, <1>5, <2>1, <2>2, StillStep DEF PushTip, Maps, Locks
<1>6. ASSUME RemoveTip PROVE IInv'
  <2>1. TipType'
    <3>1. delChan \in Seq(Blocks) /\ delChan # << >>
      BY <1>0, <1>6 DEF RemoveTip, TipType
    <3>2. Tail(delChan) \in Seq(Blocks)
      BY <3>1
    <3>3. QED
      BY <1>0, <1>6, <3>2 DEF RemoveTip, TipType
  <2>2. NetType' /\ SyncType' /\ LockType'
    BY <1>k, <1>6 DEF RemoveTip
  <2>3. QED
    BY <1>0, <1>6, <2>1, <2>2, StillStep DEF RemoveTip, Maps, Locks
<1>7. QED
  BY <1>1, <1>2, <1>3, <1>4, <1>5, <1>6
-----------------------------------------------------------------------------
(* The goroutines outside the maps *)

LEMMA KeptTypes ==
  ASSUME IInv
  PROVE  /\ UNCHANGED Tips => TipType'
         /\ UNCHANGED Net => NetType'
         /\ UNCHANGED Sync => SyncType'
         /\ UNCHANGED Locks => LockType'
BY TypesKept DEF IInv

(* Outside deleteIsolatedBlock a goroutine holds no waiters. *)
LEMMA NoWaiters ==
  ASSUME IInv, NEW p \in Procs, loc[p].pc \notin Saving \cup {"release"}
  PROVE  rwlock # p /\ loc[p].kids = {} /\ loc[p].todo = {}
<1>1. LocalOK(p, loc[p], rwlock, rlp)
  BY Facts
<1>2. QED
  BY <1>1 DEF LocalOK

(* The same with everything a worker has: only its pc moves on. *)
LEMMA MovesOn ==
  ASSUME IInv, NEW p \in Procs, NEW to \in {"synctime", "syncwrite", "isolate", "del", "save"},
         Go(p, to), LocalOK(p, [loc[p] EXCEPT !.pc = to], rwlock, rlp),
         rlp' = rlp, iso' = iso, lack' = lack, due' = due, rwlock' = rwlock,
         TipType', NetType', SyncType', LockType'
  PROVE  IInv'
<1> DEFINE r == [loc[p] EXCEPT !.pc = to]
<1>1. loc \in [Procs -> Local] /\ due \subseteq rlp /\ loc[p] \in Local
  BY Facts
<1>2. r \in Local /\ r.kids = loc[p].kids /\ r.todo = loc[p].todo /\ r.cur = loc[p].cur
  BY <1>1 DEF Local
<1>3. loc' = [loc EXCEPT ![p] = r]
  BY DEF Go
<1> HIDE DEF r
<1>4. LocalOK(p, r, rwlock', rlp)
  BY DEF r
<1>5. QED
  BY <1>1, <1>2, <1>3, <1>4, QuietStep

LEMMA AddBlockStep ==
  ASSUME IInv, NEW w \in Workers, NEW m \in Message, AddBlock(w, m)
  PROVE  IInv'
<1> DEFINE r == [Idle EXCEPT !.pc = IF m.blk \in rlp THEN "begin" ELSE "check",
                             !.blk = m.blk, !.cur = m.blk, !.kind = m.kind]
<1>0. w \in Procs
  BY ProcFacts
<1>1. due \subseteq rlp /\ NetType
  BY Facts
<1>2. loc[w].pc = "idle" /\ inbox' = inbox \ {m} /\ loc' = [loc EXCEPT ![w] = r]
  BY DEF AddBlock
<1>3. m.blk \in Blocks /\ m.kind \in Kinds
  BY DEF Message
<1>4. /\ r \in Local /\ r.pc = (IF m.blk \in rlp THEN "begin" ELSE "check")
      /\ r.blk = m.blk /\ r.cur = m.blk /\ r.i = 1
      /\ r.missing = {} /\ r.kids = {} /\ r.todo = {}
  <2> DEFINE to == IF m.blk \in rlp THEN "begin" ELSE "check"
  <2>0. /\ Idle \in Local /\ Idle.i = 1 /\ Idle.missing = {}
        /\ Idle.kids = {} /\ Idle.todo = {}
    BY IdleOK DEF Idle
  <2>1. r = [pc |-> to, blk |-> m.blk, kind |-> m.kind, i |-> 1, missing |-> {},
             cur |-> m.blk, kids |-> {}, todo |-> {}]
    <3> HIDE DEF to
    <3>1. r = [Idle EXCEPT !.pc = to, !.blk = m.blk, !.cur = m.blk, !.kind = m.kind]
      BY DEF to
    <3> HIDE DEF r
    <3>2. QED
      BY <2>0, <3>1 DEF Local
  <2>2. to \in {"begin", "check"}
    OBVIOUS
  <2> HIDE DEF r, to
  <2>3. QED
    BY <1>3, <2>1, <2>2 DEF Local, to
<1>5. rwlock # w /\ loc[w].kids = {} /\ loc[w].todo = {}
  BY <1>0, <1>2, NoWaiters DEF Saving
<1> HIDE DEF r
<1>6. LocalOK(w, r, rwlock, rlp)
  <2>1. \A j \in 1 .. Len(Links[m.blk]) : ~(j < 1)
    OBVIOUS
  <2>2. QED
    BY <1>4, <1>5, <2>1 DEF LocalOK, Saving, Checking
<1>7. NetType'
  BY <1>1 DEF AddBlock, NetType
<1>8. TipType' /\ SyncType' /\ LockType'
  BY KeptTypes DEF AddBlock, Tips, Sync, Locks
<1>9. /\ rlp' = rlp /\ iso' = iso /\ lack' = lack /\ due' = due /\ rwlock' = rwlock
  BY DEF AddBlock
<1>10. QED
  BY <1>0, <1>1, <1>2, <1>4, <1>5, <1>6, <1>7, <1>8, <1>9, QuietStep

(* A link that was seen stored is forgotten, any other one is kept as missing. *)
LEMMA CheckLinkStep ==
  ASSUME IInv, NEW w \in Workers, CheckLink(w)
  PROVE  IInv'
<1> DEFINE l == loc[w]
           ls == Links[l.blk]
           h == ls[l.i]
           r == IF h \notin rlp THEN [l EXCEPT !.i = @ + 1, !.missing = @ \cup {h}]
                ELSE IF Time[h] > Time[l.blk] THEN Idle
                ELSE [l EXCEPT !.i = @ + 1]
<1>0. w \in Procs
  BY ProcFacts
<1>1. due \subseteq rlp /\ l \in Local /\ LocalOK(w, l, rwlock, rlp)
  BY <1>0, Facts
<1>2. l.pc = "check" /\ l.i <= Len(ls) /\ loc' = [loc EXCEPT ![w] = r]
  BY DEF CheckLink
<1>3. /\ rlp' = rlp /\ iso' = iso /\ lack' = lack /\ due' = due /\ rwlock' = rwlock
      /\ TipType' /\ NetType' /\ SyncType' /\ LockType'
  BY KeptTypes DEF CheckLink, Maps, Locks
<1>4. rwlock # w /\ l.kids = {} /\ l.todo = {}
  BY <1>0, <1>2, NoWaiters DEF Saving
<1>5. l.blk \in Blocks /\ l.i \in Nat \ {0} /\ l.missing \in SUBSET Blocks
  BY <1>1, LocalFields
<1>6. /\ Len(ls) \in Nat /\ h \in Range(ls) /\ h \in Blocks
      /\ \A j \in 1 .. Len(ls) : ls[j] \in Range(ls)
  <2>1. l.i \in 1 .. Len(ls)
    BY <1>2, <1>5, LinksTyped
  <2>2. QED
    BY <1>5, <2>1, LinksTyped
<1>7. CASE r = Idle
  <2>1. LocalOK(w, Idle, rwlock, rlp) /\ Idle \in Local /\ Idle.kids = {} /\ Idle.todo = {}
    BY <1>4, IdleOK DEF Idle
  <2>2. QED
    BY <1>0, <1>1, <1>2, <1>3, <1>4, <1>7, <2>1, QuietStep
<1>8. CASE r # Idle
  <2> DEFINE gone == IF h \notin rlp THEN {h} ELSE {}
  <2>1. /\ r \in Local /\ r.pc = "check" /\ r.blk = l.blk /\ r.cur = l.cur /\ r.i = l.i + 1
        /\ r.missing = l.missing \cup gone
        /\ r.kids = l.kids /\ r.todo = l.todo
    <3>1. CASE h \notin rlp
      <4>1. r = [l EXCEPT !.i = @ + 1, !.missing = @ \cup {h}]
        BY <3>1
      <4>2. l.i + 1 \in Nat \ {0} /\ l.missing \cup {h} \in SUBSET Blocks
        BY <1>5, <1>6
      <4>3. r = [pc |-> l.pc, blk |-> l.blk, kind |-> l.kind, i |-> l.i + 1,
                 missing |-> l.missing \cup {h}, cur |-> l.cur, kids |-> l.kids, todo |-> l.todo]
        BY <1>1, <4>1 DEF Local
      <4> HIDE DEF h, r
      <4>4. QED
        BY <1>1, <1>2, <3>1, <4>2, <4>3, LocalFields DEF Local
    <3>2. CASE h \in rlp
      <4>1. r = [l EXCEPT !.i = @ + 1]
        BY <1>8, <3>2
      <4> HIDE DEF h, r
      <4>2. QED
        BY <1>1, <1>2, <1>5, <1>6, <3>2, <4>1 DEF Local
    <3>3. QED
      BY <3>1, <3>2
  <2>2. l.cur = l.blk /\ l.missing \subseteq Range(ls)
    BY <1>1, <1>2 DEF LocalOK, Checking
  <2>3. ASSUME NEW j \in 1 .. Len(ls), j < l.i + 1 PROVE ls[j] \in rlp \cup (l.missing \cup gone)
    <3>1. j < l.i \/ j = l.i
      BY <1>5, <2>3
    <3>2. j < l.i => ls[j] \in rlp \cup l.missing
      BY <1>1, <1>2 DEF LocalOK
    <3>3. h \in rlp \cup gone
      OBVIOUS
    <3>4. QED
      BY <3>1, <3>2, <3>3
  <2> HIDE DEF gone, r, h
  <2>4. l.missing \cup gone \subseteq Range(ls)
    BY <1>6, <2>2 DEF gone
  <2>5. LocalOK(w, r, rwlock, rlp)
    <3>1. r.missing \subseteq Range(Links[r.blk])
      BY <2>1, <2>4
    <3>2. \A j \in 1 .. Len(Links[r.blk]) : j < r.i => Links[r.blk][j] \in rlp \cup r.missing
      BY <2>1, <2>3
    <3>3. QED
      BY <1>4, <2>1, <2>2, <3>1, <3>2 DEF LocalOK, Saving, Checking
  <2>6. QED
    BY <1>0, <1>1, <1>2, <1>3, <1>4, <2>1, <2>5, QuietStep
<1>9. QED
  BY <1>7, <1>8

(* After the check, every link is stored or missing. *)
LEMMA CheckedOK ==
  ASSUME NEW p \in Procs, NEW l \in Local, NEW rw, NEW db, LocalOK(p, l, rw, db),
         l.pc \in Checking, l.pc = "check" => l.i > Len(Links[l.blk]),
         NEW to \in {"synctime", "syncwrite", AfterCheck(l)}
  PROVE  to \in {"synctime", "syncwrite", "isolate", "del"} /\ LocalOK(p, [l EXCEPT !.pc = to], rw, db)
<1> DEFINE r == [l EXCEPT !.pc = to]
<1>1. to \in {"synctime", "syncwrite", "isolate", "del"} /\ (to = "del" => l.missing = {})
  BY DEF AfterCheck
<1>2. /\ r.pc = to /\ r.blk = l.blk /\ r.cur = l.cur /\ r.missing = l.missing
      /\ r.kids = l.kids /\ r.todo = l.todo
  BY DEF Local
<1> HIDE DEF r
<1>3. /\ l.kids = {} /\ l.todo = {} /\ rw # p /\ l.cur = l.blk
      /\ l.missing \subseteq Range(Links[l.blk])
  BY DEF LocalOK, Checking, Saving
<1>4. Range(Links[l.blk]) \subseteq db \cup l.missing
  <2>1. CASE l.pc = "check"
    <3>1. l.blk \in Blocks /\ l.i \in Nat
      BY LocalFields
    <3>2. ASSUME NEW x \in Range(Links[l.blk]) PROVE x \in db \cup l.missing
      <4>1. PICK j \in 1 .. Len(Links[l.blk]) : x = Links[l.blk][j]
        BY <3>1, LinksTyped
      <4>2. j < l.i
        BY <2>1, <3>1, LinksTyped
      <4>3. QED
        BY <2>1, <4>1, <4>2 DEF LocalOK
    <3>3. QED
      BY <3>2
  <2>2. CASE l.pc # "check"
    BY <2>2 DEF LocalOK
  <2>3. QED
    BY <2>1, <2>2
<1>5. LocalOK(p, r, rw, db)
  BY <1>1, <1>2, <1>3, <1>4 DEF LocalOK, Checking, Saving
<1>6. QED
  BY <1>1, <1>5 DEF r

LEMMA CheckedSteps ==
  ASSUME IInv, NEW w \in Workers, CheckDone(w) \/ SyncTimeCheck(w) \/ SyncTimeWrite(w)
  PROVE  IInv'
<1>0. w \in Procs
  BY ProcFacts
<1>1. loc[w] \in Local /\ LocalOK(w, loc[w], rwlock, rlp) /\ SyncType
  BY <1>0, Facts
<1>2. PICK to \in {"synctime", "syncwrite", AfterCheck(loc[w])} : Go(w, to)
  BY DEF CheckDone, SyncTimeCheck, SyncTimeWrite
<1>3. loc[w].pc \in Checking /\ (loc[w].pc = "check" => loc[w].i > Len(Links[loc[w].blk]))
  BY DEF CheckDone, SyncTimeCheck, SyncTimeWrite, Checking
<1>4. /\ to \in {"synctime", "syncwrite", "isolate", "del"}
      /\ LocalOK(w, [loc[w] EXCEPT !.pc = to], rwlock, rlp)
  BY <1>0, <1>1, <1>3, CheckedOK
<1>5. /\ rlp' = rlp /\ iso' = iso /\ lack' = lack /\ due' = due /\ rwlock' = rwlock
      /\ TipType' /\ NetType' /\ LockType'
  BY KeptTypes DEF CheckDone, SyncTimeCheck, SyncTimeWrite, Maps, Locks
<1>6. SyncType'
  <2>1. CASE CheckDone(w) \/ SyncTimeCheck(w)
    BY <2>1, KeptTypes DEF CheckDone, SyncTimeCheck
  <2>2. CASE SyncTimeWrite(w)
    <3>1. loc[w].blk \in Blocks
      BY <1>1, LocalFields
    <3>2. maxSync' \in Nat /\ syncs' \in Nat /\ syncing' = syncing
      BY <1>1, <2>2, <3>1, PoolAssumption DEF SyncTimeWrite, SyncType
    <3>3. QED
      BY <1>1, <3>2, Zenon DEF SyncType
  <2>3. QED
    BY <2>1, <2>2
<1>7. QED
  BY <1>0, <1>2, <1>4, <1>5, <1>6, MovesOn

LEMMA DeleteUnverifiedStep ==
  ASSUME IInv, NEW p \in Procs, DeleteUnverifiedBlocks(p)
  PROVE  IInv'
<1>1. loc[p] \in Local /\ LocalOK(p, loc[p], rwlock, rlp) /\ TipType
  BY Facts
<1>2. loc[p].pc = "del" /\ Go(p, "save") /\ delChan' = delChan \o Links[loc[p].cur]
  BY DEF DeleteUnverifiedBlocks
<1> DEFINE r == [loc[p] EXCEPT !.pc = "save"]
<1>3. LocalOK(p, r, rwlock, rlp)
  <2>1. /\ r.pc = "save" /\ r.blk = loc[p].blk /\ r.cur = loc[p].cur
        /\ r.missing = loc[p].missing /\ r.kids = loc[p].kids /\ r.todo = loc[p].todo
    BY <1>1 DEF Local
  <2> HIDE DEF r
  <2>2. QED
    BY <1>1, <1>2, <2>1 DEF LocalOK, Checking, Saving
<1>4. TipType'
  <2>1. Links[loc[p].cur] \in Seq(Blocks)
    BY <1>1, LocalFields, LinksTyped
  <2>2. QED
    BY <1>1, <1>2, <2>1 DEF DeleteUnverifiedBlocks, TipType
<1>5. /\ rlp' = rlp /\ iso' = iso /\ lack' = lack /\ due' = due /\ rwlock' = rwlock
      /\ NetType' /\ SyncType' /\ LockType'
  BY KeptTypes DEF DeleteUnverifiedBlocks, Maps, Locks
<1>6. QED
  BY <1>2, <1>3, <1>4, <1>5, MovesOn

LEMMA TimedReleaseStep ==
  ASSUME IInv, NEW b \in Blocks, TimedRelease(b)
  PROVE  IInv'
<1> DEFINE r == [Idle EXCEPT !.pc = "begin", !.blk = b]
<1>0. Timer \in Procs
  BY ProcFacts
<1>1. due \subseteq rlp
  BY Facts
<1>2. /\ loc[Timer].pc = "idle" /\ b \in due /\ due' = due \ {b} /\ loc' = [loc EXCEPT ![Timer] = r]
  BY DEF TimedRelease
<1>3. rwlock # Timer /\ loc[Timer].kids = {} /\ loc[Timer].todo = {}
  BY <1>0, <1>2, NoWaiters DEF Saving
<1>4. /\ r \in Local /\ r.pc = "begin" /\ r.blk = b /\ r.missing = {}
      /\ r.kids = {} /\ r.todo = {}
  <2>0. /\ Idle \in Local /\ Idle.kind = "local" /\ Idle.i = 1 /\ Idle.missing = {}
        /\ Idle.cur = Genesis /\ Idle.kids = {} /\ Idle.todo = {}
    BY IdleOK DEF Idle
  <2>1. PICK l \in Local : l = Idle
    BY <2>0
  <2>2. r = [l EXCEPT !.pc = "begin", !.blk = b]
    BY <2>1
  <2> HIDE DEF r
  <2>3. /\ r \in Local /\ r.pc = "begin" /\ r.blk = b /\ r.missing = l.missing
        /\ r.kids = l.kids /\ r.todo = l.todo
    BY <2>2 DEF Local
  <2>4. QED
    BY <2>0, <2>1, <2>3
<1> HIDE DEF r
<1>5. LocalOK(Timer, r, rwlock, rlp)
  BY <1>1, <1>2, <1>3, <1>4 DEF LocalOK, Saving, Checking
<1>6. /\ rlp' = rlp /\ iso' = iso /\ lack' = lack /\ rwlock' = rwlock
      /\ TipType' /\ NetType' /\ SyncType' /\ LockType'
  BY KeptTypes DEF TimedRelease, Maps, Locks
<1>7. QED
  BY <1>0, <1>1, <1>2, <1>3, <1>4, <1>5, <1>6, QuietStep

LEMMA ReleaseEndStep ==
  ASSUME IInv, NEW p \in Procs, ReleaseEnd(p)
  PROVE  IInv'
<1>1. due \subseteq rlp /\ LocalOK(p, loc[p], rwlock, rlp) /\ LockType
  BY Facts
<1>2. /\ loc[p].pc = "release" /\ loc[p].todo = {} /\ rwlock' = None
      /\ loc' = [loc EXCEPT ![p] = Idle]
  BY DEF ReleaseEnd
<1>3. rwlock = p /\ loc[p].kids = {} /\ None \notin Procs
  BY <1>1, <1>2, ProcFacts DEF LocalOK
<1>4. Idle \in Local /\ LocalOK(p, Idle, rwlock', rlp) /\ Idle.kids = {} /\ Idle.todo = {}
  BY <1>2, <1>3, IdleOK DEF Idle
<1>5. /\ rlp' = rlp /\ iso' = iso /\ lack' = lack /\ due' = due
      /\ TipType' /\ NetType' /\ SyncType'
  BY KeptTypes DEF ReleaseEnd, Maps
<1>6. LockType'
  BY <1>1, <1>2 DEF ReleaseEnd, LockType
<1>7. \A q \in Procs : q # p => (rwlock' = q <=> rwlock = q)
  BY <1>2, <1>3
<1>8. QED
  BY <1>1, <1>2, <1>3, <1>4, <1>5, <1>6, <1>7, QuietStep
-----------------------------------------------------------------------------
(* The steps on the maps *)

LEMMA MapStep ==
  ASSUME IInv, NEW p \in Procs, NEW r \in Local, loc' = [loc EXCEPT ![p] = r],
         rlp \subseteq rlp', DbType', MapType', TipType', NetType', SyncType', LockType',
         \A q \in Procs : q # p => (rwlock' = q <=> rwlock = q),
         LocalOK(p, r, rwlock', rlp'), EntriesInv', Closed', Apart', MapsAgree'
  PROVE  IInv'
<1>1. loc \in [Procs -> Local] /\ StoreInv
  BY Facts
<1>2. loc' \in [Procs -> Local] /\ loc'[p] = r /\ \A q \in Procs : q # p => loc'[q] = loc[q]
  BY <1>1, LocSet
<1>3. TypeOK'
  BY <1>2, TypeGroups DEF LocType
<1>4. StoreInv'
  BY <1>1, <1>2, StoreStep
<1>5. QED
  BY <1>3, <1>4 DEF IInv

(* Only the holder of rwlock has taken waiters out of the maps. *)
LEMMA HolderWaiters ==
  ASSUME IInv, NEW p \in Procs, rwlock \in {None, p}, NEW r \in Local,
         loc' = [loc EXCEPT ![p] = r]
  PROVE  /\ \A x, h : h \in Waiters(x) <=>
              InLack(x, h) \/ InIso(x, h) \/ InTodo(p, x, h) \/ InKids(p, x, h)
         /\ \A x, h : h \in Waiters(x)' <=>
              \/ InLack(x, h)' \/ InIso(x, h)'
              \/ (h \in Blocks /\ <<x, h>> \in r.todo) \/ (r.cur = x /\ h \in r.kids)
         /\ \A q \in Procs : q # p => loc'[q].kids = {} /\ loc'[q].todo = {}
<1>1. loc \in [Procs -> Local] /\ \A q \in Procs : LocalOK(q, loc[q], rwlock, rlp)
  BY Facts
<1>2. loc'[p] = r /\ \A q \in Procs : q # p => loc'[q] = loc[q]
  BY <1>1, LocSet
<1>3. ASSUME NEW q \in Procs, q # p PROVE loc[q].kids = {} /\ loc[q].todo = {}
  <2>1. rwlock # q
    BY <1>3, ProcFacts
  <2>2. QED
    BY <1>1, <2>1 DEF LocalOK
<1>4. ASSUME NEW q \in Procs, q # p, NEW x, NEW h
      PROVE  ~InTodo(q, x, h) /\ ~InKids(q, x, h) /\ ~InTodo(q, x, h)' /\ ~InKids(q, x, h)'
  BY <1>2, <1>3, <1>4 DEF InTodo, InKids
<1>5. ASSUME NEW x, NEW h
      PROVE  /\ InTodo(p, x, h)' <=> h \in Blocks /\ <<x, h>> \in r.todo
             /\ InKids(p, x, h)' <=> r.cur = x /\ h \in r.kids
  BY <1>2 DEF InTodo, InKids
<1>6. ASSUME NEW x, NEW h
      PROVE  h \in Waiters(x) <=>
               InLack(x, h) \/ InIso(x, h) \/ InTodo(p, x, h) \/ InKids(p, x, h)
  BY <1>4, WaitersAre
<1>7. ASSUME NEW x, NEW h
      PROVE  h \in Waiters(x)' <=>
               \/ InLack(x, h)' \/ InIso(x, h)'
               \/ (h \in Blocks /\ <<x, h>> \in r.todo) \/ (r.cur = x /\ h \in r.kids)
  BY <1>4, <1>5, WaitersArePrimed
<1>8. QED
  BY <1>2, <1>3, <1>6, <1>7

LEMMA ApartStep ==
  ASSUME IInv, NEW p \in Procs, rwlock \in {None, p}, NEW r \in Local,
         loc' = [loc EXCEPT ![p] = r], ApartOf(r, DOMAIN iso' \cup DOMAIN lack')
  PROVE  Apart'
<1>1. loc'[p] = r
  BY Facts, LocSet
<1>2. ASSUME NEW q \in Procs PROVE ApartOf(loc'[q], DOMAIN iso' \cup DOMAIN lack')
  <2>1. CASE q = p
    BY <1>1, <2>1
  <2>2. CASE q # p
    <3>1. loc'[q].kids = {} /\ loc'[q].todo = {}
      BY <2>2, HolderWaiters
    <3>2. QED
      BY <3>1 DEF ApartOf
  <2>3. QED
    BY <2>1, <2>2
<1>3. QED
  BY <1>2 DEF Apart

LEMMA AddIsolatedStep ==
  ASSUME IInv, NEW w \in Workers, AddIsolatedBlock(w)
  PROVE  IInv'
<1> DEFINE b == loc[w].blk
           M == loc[w].missing
           DI == DOMAIN iso
           DL == DOMAIN lack
           new == M \ (DI \cup {b})
<1>0. w \in Procs /\ None \notin Procs
  BY ProcFacts
<1>1. /\ due \subseteq rlp /\ rlp \in SUBSET Blocks /\ loc[w] \in Local
      /\ LocalOK(w, loc[w], rwlock, rlp)
      /\ DbType /\ MapType /\ EntriesInv /\ Closed /\ MapsAgree
  BY <1>0, Facts
<1>2. /\ loc[w].pc = "isolate" /\ rwlock = None /\ loc' = [loc EXCEPT ![w] = Idle]
      /\ b \notin DI => iso' = IsoWith(b, M) /\ lack' = LackWith(b, M)
      /\ b \in DI => iso' = iso /\ lack' = lack
  BY DEF AddIsolatedBlock, Maps
<1>3. /\ rlp' = rlp /\ due' = due /\ rwlock' = rwlock
      /\ TipType' /\ NetType' /\ SyncType' /\ LockType'
  BY KeptTypes DEF AddIsolatedBlock, Locks
<1>4. Idle \in Local /\ LocalOK(w, Idle, rwlock, rlp) /\ Idle.kids = {} /\ Idle.todo = {}
  BY <1>0, <1>2, IdleOK DEF Idle
<1>5. loc[w].kids = {} /\ loc[w].todo = {}
  BY <1>0, <1>2, NoWaiters DEF Saving
<1>6. CASE b \in DI
  BY <1>0, <1>1, <1>2, <1>3, <1>4, <1>5, <1>6, QuietStep
<1>7. CASE b \notin DI
  <2>1. /\ b \in Blocks /\ M \in SUBSET Blocks /\ b \notin M
        /\ Range(Links[b]) \subseteq rlp \cup M
    <3>1. b \in Blocks /\ M \in SUBSET Blocks
      BY <1>1, LocalFields
    <3>2. M \subseteq Range(Links[b]) /\ Range(Links[b]) \subseteq rlp \cup M
      BY <1>1, <1>2 DEF LocalOK, Checking
    <3>3. QED
      BY <3>1, <3>2, PoolAssumption
  <2>2. /\ DOMAIN iso' = DI \cup {b}
        /\ iso'[b] = [links |-> M, linkIt |-> IF b \in DL THEN lack[b].linkIt ELSE {}]
        /\ \A h \in DI : iso'[h] = IF h \in M THEN [iso[h] EXCEPT !.linkIt = @ \cup {b}] ELSE iso[h]
    BY <1>2, <1>7 DEF IsoWith
  <2>3. ASSUME NEW h \in DI
        PROVE  /\ iso[h].links \in SUBSET Blocks /\ iso[h].linkIt \in SUBSET Blocks
               /\ iso'[h] \in [links : SUBSET Blocks, linkIt : SUBSET Blocks]
               /\ iso'[h].links = iso[h].links
               /\ iso'[h].linkIt = iso[h].linkIt \cup (IF h \in M THEN {b} ELSE {})
    <3>1. iso[h] \in [links : SUBSET Blocks, linkIt : SUBSET Blocks]
      BY <1>1 DEF MapType
    <3>2. QED
      BY <2>1, <2>2, <3>1
  <2>4. /\ DOMAIN lack' = (DL \ {b}) \cup new
        /\ \A x \in DOMAIN lack' : x \notin new => lack'[x] = lack[x]
        /\ \A x \in new : x \in DL =>
             lack'[x] = [linkIt |-> lack[x].linkIt \cup {b},
                         minTime |-> IF lack[x].minTime > Time[b] THEN Time[b] ELSE lack[x].minTime]
        /\ \A x \in new : x \notin DL => lack'[x] = [linkIt |-> {b}, minTime |-> Time[b]]
    BY <1>2, <1>7 DEF LackWith
  <2>5. ASSUME NEW x \in DL
        PROVE  lack[x].linkIt \in SUBSET Blocks /\ lack[x].minTime \in Nat
               /\ lack[x] \in [linkIt : SUBSET Blocks, minTime : Nat]
    <3>1. lack[x] \in [linkIt : SUBSET Blocks, minTime : Nat]
      BY <1>1 DEF MapType
    <3>2. QED
      BY <3>1
  <2>6. ASSUME NEW x \in DOMAIN lack'
        PROVE  /\ lack'[x] \in [linkIt : SUBSET Blocks, minTime : Nat]
               /\ lack'[x].linkIt = (IF x \in DL THEN lack[x].linkIt ELSE {})
                                      \cup (IF x \in new THEN {b} ELSE {})
    <3>0. Time[b] \in Nat
      BY <2>1, PoolAssumption
    <3>1. CASE x \notin new
      <4>1. x \in DL /\ lack'[x] = lack[x]
        BY <2>4, <3>1
      <4>2. QED
        BY <2>5, <3>1, <4>1
    <3>2. CASE x \in new /\ x \in DL
      <4> DEFINE t == IF lack[x].minTime > Time[b] THEN Time[b] ELSE lack[x].minTime
      <4>1. t \in Nat
        BY <2>5, <3>0, <3>2
      <4> HIDE DEF t
      <4>2. lack'[x] = [linkIt |-> lack[x].linkIt \cup {b}, minTime |-> t]
        BY <2>4, <3>2 DEF t
      <4>3. lack[x].linkIt \cup {b} \in SUBSET Blocks
        BY <2>1, <2>5, <3>2
      <4>4. QED
        BY <3>2, <4>1, <4>2, <4>3
    <3>3. CASE x \in new /\ x \notin DL
      BY <2>1, <2>4, <3>0, <3>3
    <3>4. QED
      BY <3>1, <3>2, <3>3
  <2>7. MapType'
    <3>1. iso'[b] \in [links : SUBSET Blocks, linkIt : SUBSET Blocks]
      <4>1. (IF b \in DL THEN lack[b].linkIt ELSE {}) \in SUBSET Blocks
        BY <2>5
      <4>2. QED
        BY <2>1, <2>2, <4>1
    <3>2. DI \in SUBSET Blocks /\ DL \in SUBSET Blocks
      BY <1>1 DEF MapType
    <3>3. QED
      BY <2>1, <2>2, <2>3, <2>4, <2>6, <3>1, <3>2 DEF MapType
  <2>8. EntriesInv' /\ Closed' /\ DbType'
    <3>1. ASSUME NEW h \in DOMAIN iso' PROVE Range(Links[h]) \subseteq rlp \cup iso'[h].links
      <4>1. CASE h = b
        BY <2>1, <2>2, <4>1
      <4>2. CASE h # b
        BY <1>1, <2>2, <2>3, <4>2 DEF EntriesInv
      <4>3. QED
        BY <4>1, <4>2
    <3>2. QED
      BY <1>1, <1>3, <3>1 DEF EntriesInv, Closed, DbType
  <2>9. Apart'
    <3>1. ApartOf(Idle, DOMAIN iso' \cup DOMAIN lack')
      BY <1>4 DEF ApartOf
    <3>2. QED
      BY <1>0, <1>2, <1>4, <3>1, ApartStep
  <2>10. /\ \A x, h : h \in Waiters(x) <=> InLack(x, h) \/ InIso(x, h)
         /\ \A x, h : h \in Waiters(x)' <=> InLack(x, h)' \/ InIso(x, h)'
    <3>1. \A x, h : ~InTodo(w, x, h) /\ ~InKids(w, x, h)
      BY <1>5 DEF InTodo, InKids
    <3>2. QED
      BY <1>0, <1>2, <1>4, <3>1, HolderWaiters
  <2>11. DI \cap DL = {} /\ Agree
    BY <1>1, AgreeIs
  <2>12. DOMAIN iso' \cap DOMAIN lack' = {}
    BY <2>2, <2>4, <2>11
  <2>13. ASSUME NEW x, NEW h
         PROVE  h \in Waiters(x)' <=> h \in Waiters(x) \/ (x \in M /\ h = b)
    <3>1. CASE x = b
      <4>1. h \in Waiters(x) <=> (b \in DL /\ h \in lack[b].linkIt)
        BY <1>7, <2>10, <3>1 DEF InLack, InIso
      <4>2. h \in Waiters(x)' <=> h \in iso'[b].linkIt
        BY <2>2, <2>4, <2>10, <3>1 DEF InLack, InIso
      <4>3. h \in iso'[b].linkIt <=> (b \in DL /\ h \in lack[b].linkIt)
        BY <2>2
      <4>4. QED
        BY <2>1, <3>1, <4>1, <4>2, <4>3
    <3>2. CASE x # b /\ x \in DI
      <4>1. h \in Waiters(x) <=> h \in iso[x].linkIt
        BY <2>10, <2>11, <3>2 DEF InLack, InIso
      <4>2. h \in Waiters(x)' <=> h \in iso'[x].linkIt
        BY <2>2, <2>10, <2>12, <3>2 DEF InLack, InIso
      <4>3. QED
        BY <2>3, <3>2, <4>1, <4>2
    <3>3. CASE x # b /\ x \notin DI
      <4>1. h \in Waiters(x) <=> (x \in DL /\ h \in lack[x].linkIt)
        BY <2>10, <3>3 DEF InLack, InIso
      <4>2. h \in Waiters(x)' <=> (x \in DOMAIN lack' /\ h \in lack'[x].linkIt)
        BY <2>2, <2>10, <3>3 DEF InLack, InIso
      <4>3. x \in DOMAIN lack' <=> x \in DL \/ x \in M
        BY <2>4, <3>3
      <4>4. x \in new <=> x \in M
        BY <3>3
      <4>5. QED
        BY <2>6, <4>1, <4>2, <4>3, <4>4
    <3>4. QED
      BY <3>1, <3>2, <3>3
  <2>14. Agree'
    <3>1. ASSUME NEW x \in Blocks, NEW h, h \in Waiters(x)'
          PROVE  h \in DOMAIN iso' /\ x \in iso'[h].links
      <4>1. CASE h \in Waiters(x)
        <5>1. h \in DI /\ x \in iso[h].links
          BY <2>11, <4>1 DEF Agree
        <5>2. QED
          BY <2>2, <2>3, <5>1
      <4>2. CASE x \in M /\ h = b
        BY <2>2, <4>2
      <4>3. QED
        BY <2>13, <3>1, <4>1, <4>2
    <3>2. ASSUME NEW h \in DOMAIN iso', NEW x \in iso'[h].links, Computed(x)
          PROVE  h \in Waiters(x)'
      <4>1. CASE h = b
        BY <2>2, <2>13, <3>2, <4>1
      <4>2. CASE h # b
        <5>1. h \in DI /\ x \in iso[h].links
          BY <2>2, <2>3, <3>2, <4>2
        <5>2. QED
          BY <2>11, <2>13, <3>2, <5>1 DEF Agree
      <4>3. QED
        BY <4>1, <4>2
    <3>3. QED
      BY <3>1, <3>2 DEF Agree
  <2>15. MapsAgree'
    BY <2>12, <2>14, AgreeIs
  <2>16. QED
    BY <1>0, <1>2, <1>3, <1>4, <2>7, <2>8, <2>9, <2>15, MapStep
<1>8. QED
  BY <1>6, <1>7

LEMMA SaveBlockStep ==
  ASSUME IInv, NEW p \in Procs, SaveBlock(p)
  PROVE  IInv'
<1> DEFINE l == loc[p]
           b == l.cur
<1>0. None \notin Procs
  BY ProcFacts
<1>1. /\ due \subseteq rlp /\ rlp \in SUBSET Blocks /\ l \in Local /\ LocalOK(p, l, rwlock, rlp)
      /\ DbType /\ MapType /\ LockType /\ EntriesInv /\ Closed /\ MapsAgree /\ Apart
  BY Facts
<1>2. /\ l.pc = "save"
      /\ Computed(b) => rlp' = rlp \cup {b} /\ addBlockLock' = p /\ Go(p, "push")
      /\ ~Computed(b) => /\ rlp' = rlp /\ addBlockLock' = addBlockLock
                         /\ loc' = [loc EXCEPT ![p] = IF rwlock = p
                                      THEN [l EXCEPT !.pc = "release", !.kids = {}] ELSE Idle]
  BY DEF SaveBlock
<1>3. /\ iso' = iso /\ lack' = lack /\ due' = due /\ rwlock' = rwlock
      /\ TipType' /\ NetType' /\ SyncType'
  BY KeptTypes DEF SaveBlock, Maps
<1>4. LockType'
  BY <1>1, <1>2, <1>3 DEF LockType
<1>5. b \in Blocks /\ Range(Links[b]) \subseteq rlp
  BY <1>1, <1>2, LocalFields DEF LocalOK
<1>6. MapType'
  BY <1>3, TypesKept DEF Maps, IInv
<1>7. CASE Computed(b)
  <2> DEFINE r == [l EXCEPT !.pc = "push"]
  <2>1. /\ r \in Local /\ r.pc = "push" /\ r.blk = l.blk /\ r.cur = l.cur
        /\ r.missing = l.missing /\ r.kids = l.kids /\ r.todo = l.todo
    BY <1>1 DEF Local
  <2>2. loc' = [loc EXCEPT ![p] = r] /\ rlp' = rlp \cup {b}
    BY <1>2, <1>7 DEF Go
  <2> HIDE DEF r
  <2>3. LocalOK(p, r, rwlock', rlp')
    BY <1>1, <1>2, <1>3, <2>1, <2>2 DEF LocalOK, Saving, Checking
  <2>4. EntriesInv' /\ DbType'
    BY <1>1, <1>3, <1>5, <2>2 DEF EntriesInv, DbType
  <2>5. Closed'
    BY <1>1, <1>5, <2>2 DEF Closed
  <2>6. Apart' /\ MapsAgree'
    <3>1. loc'[p] = r /\ \A q \in Procs : q # p => loc'[q] = loc[q]
      BY <2>1, <2>2, Facts, LocSet
    <3>2. ASSUME NEW q \in Procs
          PROVE  /\ loc'[q].kids = loc[q].kids /\ loc'[q].todo = loc[q].todo
                 /\ loc[q].kids # {} => loc'[q].cur = loc[q].cur
      BY <2>1, <3>1
    <3>3. QED
      BY <1>1, <1>3, <3>2, SameWaiters
  <2>7. QED
    BY <1>3, <1>4, <1>6, <2>1, <2>2, <2>3, <2>4, <2>5, <2>6, MapStep
<1>8. CASE ~Computed(b) /\ rwlock # p
  <2>1. l.kids = {} /\ l.todo = {} /\ rlp' = rlp /\ loc' = [loc EXCEPT ![p] = Idle]
    BY <1>1, <1>2, <1>8 DEF LocalOK
  <2>2. Idle \in Local /\ LocalOK(p, Idle, rwlock', rlp) /\ Idle.kids = {} /\ Idle.todo = {}
    BY <1>3, <1>8, IdleOK DEF Idle
  <2>3. QED
    BY <1>1, <1>3, <1>4, <2>1, <2>2, QuietStep
<1>9. CASE ~Computed(b) /\ rwlock = p
  <2> DEFINE r == [l EXCEPT !.pc = "release", !.kids = {}]
  <2>1. /\ r \in Local /\ r.pc = "release" /\ r.blk = l.blk /\ r.missing = l.missing
        /\ r.kids = {} /\ r.todo = l.todo
    BY <1>1 DEF Local
  <2>2. loc' = [loc EXCEPT ![p] = r] /\ rlp' = rlp
    BY <1>2, <1>9
  <2> HIDE DEF r
  <2>3. LocalOK(p, r, rwlock', rlp')
    BY <1>1, <1>3, <1>9, <2>1, <2>2 DEF LocalOK, Saving, Checking
  <2>4. EntriesInv' /\ DbType' /\ Closed'
    BY <1>1, <1>3, <2>2 DEF EntriesInv, DbType, Closed
  <2>5. Apart'
    <3>1. ApartOf(l, DOMAIN iso \cup DOMAIN lack)
      BY <1>1 DEF Apart
    <3>2. ApartOf(r, DOMAIN iso' \cup DOMAIN lack')
      BY <1>3, <2>1, <3>1 DEF ApartOf
    <3>3. QED
      BY <1>9, <2>1, <2>2, <3>2, ApartStep
  <2>6. MapsAgree'
    <3>1. DOMAIN iso \cap DOMAIN lack = {} /\ Agree
      BY <1>1, AgreeIs
    <3>2. ASSUME NEW x, NEW h
          PROVE  /\ h \in Waiters(x)' => h \in Waiters(x)
                 /\ h \in Waiters(x) /\ x # b => h \in Waiters(x)'
      <4>1. h \in Waiters(x) <=> InLack(x, h) \/ InIso(x, h) \/ InTodo(p, x, h) \/ InKids(p, x, h)
        BY <1>9, <2>1, <2>2, HolderWaiters
      <4>2. h \in Waiters(x)' <=>
              \/ InLack(x, h)' \/ InIso(x, h)'
              \/ (h \in Blocks /\ <<x, h>> \in r.todo) \/ (r.cur = x /\ h \in r.kids)
        BY <1>9, <2>1, <2>2, HolderWaiters
      <4>3. (InLack(x, h)' <=> InLack(x, h)) /\ (InIso(x, h)' <=> InIso(x, h))
        BY <1>3 DEF InLack, InIso
      <4>4. InTodo(p, x, h) <=> h \in Blocks /\ <<x, h>> \in r.todo
        BY <2>1 DEF InTodo
      <4>5. InKids(p, x, h) => x = b
        BY DEF InKids
      <4>6. h \notin r.kids
        BY <2>1
      <4>7. QED
        BY <4>1, <4>2, <4>3, <4>4, <4>5, <4>6
    <3>3. Agree'
      BY <1>3, <1>9, <3>1, <3>2 DEF Agree
    <3>4. QED
      BY <1>3, <3>1, <3>3, AgreeIs
  <2>7. QED
    BY <1>3, <1>4, <1>6, <2>1, <2>2, <2>3, <2>4, <2>5, <2>6, MapStep
<1>10. QED
  BY <1>7, <1>8, <1>9

LEMMA AddUnverifiedStep ==
  ASSUME IInv, NEW p \in Procs, AddUnverifiedBlock(p)
  PROVE  IInv'
<1> DEFINE l == loc[p]
<1>1. /\ due \subseteq rlp /\ rlp \in SUBSET Blocks /\ l \in Local /\ LocalOK(p, l, rwlock, rlp)
      /\ TipType /\ DbType /\ LockType /\ EntriesInv /\ Closed /\ MapsAgree /\ Apart
  BY Facts
<1>2. /\ l.pc = "push" /\ addChan' = Append(addChan, l.cur) /\ addBlockLock' = None
      /\ rwlock = p => loc' = [loc EXCEPT ![p] =
                          [l EXCEPT !.pc = "release", !.kids = {},
                                    !.todo = @ \cup {<<l.cur, c>> : c \in l.kids}]]
      /\ rwlock # p => loc' = [loc EXCEPT ![p] = [l EXCEPT !.pc = "begin"]]
  BY DEF AddUnverifiedBlock
<1>3. /\ rlp' = rlp /\ iso' = iso /\ lack' = lack /\ due' = due /\ rwlock' = rwlock
      /\ tips' = tips /\ delChan' = delChan /\ NetType' /\ SyncType'
  BY KeptTypes DEF AddUnverifiedBlock, Maps
<1>4. l.cur \in Blocks /\ l.cur \in rlp /\ l.kids \in SUBSET Blocks /\ l.todo \in SUBSET (Blocks \X Blocks)
  BY <1>1, <1>2, LocalFields DEF LocalOK
<1>5. TipType' /\ LockType'
  BY <1>1, <1>2, <1>3, <1>4 DEF TipType, LockType
<1>6. CASE rwlock # p
  <2> DEFINE r == [l EXCEPT !.pc = "begin"]
  <2>1. /\ r \in Local /\ r.pc = "begin" /\ r.blk = l.blk /\ r.cur = l.cur
        /\ r.missing = l.missing /\ r.kids = l.kids /\ r.todo = l.todo
    BY <1>1 DEF Local
  <2>2. loc' = [loc EXCEPT ![p] = r]
    BY <1>2, <1>6
  <2> HIDE DEF r
  <2>3. LocalOK(p, r, rwlock', rlp)
    BY <1>1, <1>2, <1>3, <1>4, <1>6, <2>1 DEF LocalOK, Saving, Checking
  <2>4. QED
    BY <1>1, <1>3, <1>5, <2>1, <2>2, <2>3, QuietStep
<1>7. CASE rwlock = p
  <2> DEFINE kids == {<<l.cur, c>> : c \in l.kids}
             todo == l.todo \cup kids
             r == [l EXCEPT !.pc = "release", !.kids = {}, !.todo = @ \cup kids]
  <2>1. todo \in SUBSET (Blocks \X Blocks)
    BY <1>4
  <2>2. /\ r \in Local /\ r.pc = "release" /\ r.blk = l.blk /\ r.missing = l.missing
        /\ r.kids = {} /\ r.todo = todo
    <3> HIDE DEF kids
    <3>1. QED
      BY <1>1, <2>1 DEF Local
  <2>3. loc' = [loc EXCEPT ![p] = r]
    BY <1>2, <1>7
  <2> HIDE DEF r
  <2>4. \A e \in kids : e[1] = l.cur /\ l.kids # {}
    OBVIOUS
  <2>5. LocalOK(p, r, rwlock', rlp')
    <3>1. \A e \in todo : e[1] \in rlp
      BY <1>1, <1>4, <2>4 DEF LocalOK
    <3>2. l.missing \subseteq Range(Links[l.blk])
      BY <1>1 DEF LocalOK
    <3>3. QED
      BY <1>3, <1>7, <2>2, <3>1, <3>2 DEF LocalOK, Saving, Checking
  <2>6. EntriesInv' /\ DbType' /\ Closed'
    BY <1>1, <1>3 DEF EntriesInv, DbType, Closed
  <2>7. MapType'
    BY <1>3, TypesKept DEF Maps, IInv
  <2>8. Apart'
    <3>1. ApartOf(l, DOMAIN iso \cup DOMAIN lack)
      BY <1>1 DEF Apart
    <3>2. \A e \in todo : e[1] \notin DOMAIN iso \cup DOMAIN lack
      BY <2>4, <3>1 DEF ApartOf
    <3>3. ApartOf(r, DOMAIN iso' \cup DOMAIN lack')
      BY <1>3, <2>2, <3>2 DEF ApartOf
    <3>4. QED
      BY <1>7, <2>2, <2>3, <3>3, ApartStep
  <2>9. MapsAgree'
    <3>1. DOMAIN iso \cap DOMAIN lack = {} /\ Agree
      BY <1>1, AgreeIs
    <3>2. ASSUME NEW x, NEW h
          PROVE  h \in Waiters(x)' <=> h \in Waiters(x)
      <4>1. h \in Waiters(x) <=> InLack(x, h) \/ InIso(x, h) \/ InTodo(p, x, h) \/ InKids(p, x, h)
        BY <1>7, <2>2, <2>3, HolderWaiters
      <4>2. h \in Waiters(x)' <=>
              \/ InLack(x, h)' \/ InIso(x, h)'
              \/ (h \in Blocks /\ <<x, h>> \in r.todo) \/ (r.cur = x /\ h \in r.kids)
        BY <1>7, <2>2, <2>3, HolderWaiters
      <4>3. (InLack(x, h)' <=> InLack(x, h)) /\ (InIso(x, h)' <=> InIso(x, h))
        BY <1>3 DEF InLack, InIso
      <4>4. <<x, h>> \in kids <=> x = l.cur /\ h \in l.kids
        OBVIOUS
      <4>5. h \in Blocks /\ <<x, h>> \in r.todo <=> InTodo(p, x, h) \/ InKids(p, x, h)
        BY <1>4, <2>2, <4>4 DEF InTodo, InKids
      <4>6. h \notin r.kids
        BY <2>2
      <4>7. QED
        BY <4>1, <4>2, <4>3, <4>5, <4>6
    <3>3. Agree'
      BY <1>3, <3>1, <3>2 DEF Agree
    <3>4. QED
      BY <1>3, <3>1, <3>3, AgreeIs
  <2>10. QED
    BY <1>3, <1>5, <2>2, <2>3, <2>5, <2>6, <2>7, <2>8, <2>9, MapStep
<1>8. QED
  BY <1>6, <1>7

LEMMA DeleteIsolatedStep ==
  ASSUME IInv, NEW p \in Procs, DeleteIsolatedBlock(p)
  PROVE  IInv'
<1> DEFINE l == loc[p]
           b == l.blk
<1>0. None \notin Procs
  BY ProcFacts
<1>1. /\ due \subseteq rlp /\ rlp \in SUBSET Blocks /\ l \in Local /\ LocalOK(p, l, rwlock, rlp)
      /\ DbType /\ MapType /\ LockType /\ EntriesInv /\ Closed /\ MapsAgree /\ Apart
  BY Facts
<1>2. /\ l.pc = "begin" /\ rwlock = None
      /\ b \in DOMAIN lack =>
           /\ rwlock' = p /\ lack' = Without(lack, b)
           /\ loc' = [loc EXCEPT ![p].pc = "release", ![p].todo = {<<b, c>> : c \in lack[b].linkIt}]
      /\ b \notin DOMAIN lack => /\ loc' = [loc EXCEPT ![p] = Idle]
                                 /\ rwlock' = rwlock /\ lack' = lack
  BY DEF DeleteIsolatedBlock
<1>3. /\ rlp' = rlp /\ iso' = iso /\ due' = due /\ addBlockLock' = addBlockLock
      /\ TipType' /\ NetType' /\ SyncType'
  BY KeptTypes DEF DeleteIsolatedBlock
<1>4. LockType'
  BY <1>1, <1>2, <1>3 DEF LockType
<1>5. l.kids = {} /\ l.todo = {} /\ b \in Blocks /\ b \in rlp
  BY <1>0, <1>1, <1>2, LocalFields DEF LocalOK
<1>6. CASE b \notin DOMAIN lack
  <2>1. Idle \in Local /\ LocalOK(p, Idle, rwlock', rlp) /\ Idle.kids = {} /\ Idle.todo = {}
    BY <1>0, <1>2, <1>6, IdleOK DEF Idle
  <2>2. QED
    BY <1>1, <1>2, <1>3, <1>4, <1>5, <1>6, <2>1, QuietStep
<1>7. CASE b \in DOMAIN lack
  <2> DEFINE todo == {<<b, c>> : c \in lack[b].linkIt}
             r == [l EXCEPT !.pc = "release", !.todo = todo]
  <2>1. lack[b].linkIt \in SUBSET Blocks
    BY <1>1, <1>7 DEF MapType
  <2>2. todo \in SUBSET (Blocks \X Blocks)
    BY <1>5, <2>1
  <2>3. /\ r \in Local /\ r.pc = "release" /\ r.blk = l.blk /\ r.missing = l.missing
        /\ r.kids = {} /\ r.todo = todo
    <3> HIDE DEF todo
    <3>1. QED
      BY <1>1, <1>5, <2>2 DEF Local
  <2>4. loc' = [loc EXCEPT ![p] = r]
    BY <1>2, <1>7
  <2>5. DOMAIN lack' = DOMAIN lack \ {b} /\ \A x \in DOMAIN lack' : lack'[x] = lack[x]
    BY <1>2, <1>7 DEF Without
  <2> HIDE DEF r
  <2>6. LocalOK(p, r, rwlock', rlp')
    <3>1. \A e \in todo : e[1] \in rlp
      BY <1>5
    <3>2. l.missing \subseteq Range(Links[l.blk])
      BY <1>1 DEF LocalOK
    <3>3. QED
      BY <1>2, <1>3, <1>7, <2>3, <3>1, <3>2 DEF LocalOK, Saving, Checking
  <2>7. EntriesInv' /\ DbType' /\ Closed'
    BY <1>1, <1>3 DEF EntriesInv, DbType, Closed
  <2>8. MapType'
    BY <1>1, <1>3, <2>5 DEF MapType
  <2>9. DOMAIN iso \cap DOMAIN lack = {} /\ Agree
    BY <1>1, AgreeIs
  <2>10. Apart'
    <3>1. \A e \in todo : e[1] \notin DOMAIN iso' \cup DOMAIN lack'
      BY <1>3, <1>7, <2>5, <2>9
    <3>2. ApartOf(r, DOMAIN iso' \cup DOMAIN lack')
      BY <2>3, <3>1 DEF ApartOf
    <3>3. QED
      BY <1>2, <2>3, <2>4, <3>2, ApartStep
  <2>11. MapsAgree'
    <3>1. ASSUME NEW x, NEW h
          PROVE  h \in Waiters(x)' <=> h \in Waiters(x)
      <4>1. h \in Waiters(x) <=> InLack(x, h) \/ InIso(x, h) \/ InTodo(p, x, h) \/ InKids(p, x, h)
        BY <1>2, <2>3, <2>4, HolderWaiters
      <4>2. h \in Waiters(x)' <=>
              \/ InLack(x, h)' \/ InIso(x, h)'
              \/ (h \in Blocks /\ <<x, h>> \in r.todo) \/ (r.cur = x /\ h \in r.kids)
        BY <1>2, <2>3, <2>4, HolderWaiters
      <4>3. InIso(x, h)' <=> InIso(x, h)
        BY <1>3 DEF InIso
      <4>4. InLack(x, h)' <=> InLack(x, h) /\ x # b
        BY <2>5 DEF InLack
      <4>5. <<x, h>> \in r.todo <=> x = b /\ h \in lack[b].linkIt
        BY <2>3
      <4>6. h \in Blocks /\ <<x, h>> \in r.todo <=> InLack(x, h) /\ x = b
        BY <1>7, <2>1, <4>5 DEF InLack
      <4>7. ~InTodo(p, x, h) /\ ~InKids(p, x, h) /\ h \notin r.kids
        BY <1>5, <2>3 DEF InTodo, InKids
      <4>8. QED
        BY <4>1, <4>2, <4>3, <4>4, <4>6, <4>7
    <3>2. Agree'
      BY <1>3, <2>9, <3>1 DEF Agree
    <3>3. DOMAIN iso' \cap DOMAIN lack' = {}
      BY <1>3, <2>5, <2>9
    <3>4. QED
      BY <3>2, <3>3, AgreeIs
  <2>12. \A q \in Procs : q # p => (rwlock' = q <=> rwlock = q)
    BY <1>0, <1>2, <1>7
  <2>13. QED
    BY <1>3, <1>4, <2>3, <2>4, <2>6, <2>7, <2>8, <2>10, <2>11, <2>12, MapStep
<1>8. QED
  BY <1>6, <1>7

LEMMA ReleaseOneStep ==
  ASSUME IInv, NEW p \in Procs, NEW e \in Blocks \X Blocks, ReleaseOne(p, e)
  PROVE  IInv'
<1> DEFINE l == loc[p]
           x == e[1]
           h == e[2]
           left == iso[h].links \ {x}
           rest == l.todo \ {e}
           r1 == [l EXCEPT !.todo = @ \ {e}]
           r2 == [r1 EXCEPT !.pc = "del", !.cur = h, !.kids = iso[h].linkIt]
<1>0. x \in Blocks /\ h \in Blocks /\ e = <<x, h>>
  OBVIOUS
<1>1. /\ due \subseteq rlp /\ rlp \in SUBSET Blocks /\ l \in Local /\ LocalOK(p, l, rwlock, rlp)
      /\ DbType /\ MapType /\ LockType /\ EntriesInv /\ Closed /\ MapsAgree /\ Apart
  BY Facts
<1>2. /\ l.pc = "release" /\ e \in l.todo
      /\ h \in DOMAIN iso /\ left # {} =>
           iso' = [iso EXCEPT ![h].links = left] /\ loc' = [loc EXCEPT ![p] = r1]
      /\ h \in DOMAIN iso /\ left = {} =>
           iso' = Without(iso, h) /\ loc' = [loc EXCEPT ![p] = r2]
      /\ \E r : loc' = [loc EXCEPT ![p] = r]
  BY DEF ReleaseOne
<1>3. /\ rlp' = rlp /\ lack' = lack /\ due' = due /\ rwlock' = rwlock
      /\ TipType' /\ NetType' /\ SyncType' /\ LockType'
  BY KeptTypes DEF ReleaseOne, Locks
<1>4. rwlock = p /\ l.kids = {} /\ x \in rlp /\ l.missing \subseteq Range(Links[l.blk])
  BY <1>1, <1>2 DEF LocalOK
<1>5. DOMAIN iso \cap DOMAIN lack = {} /\ Agree
  BY <1>1, AgreeIs
<1>6. ApartOf(l, DOMAIN iso \cup DOMAIN lack)
  BY <1>1 DEF Apart
<1>7. x \notin DOMAIN iso /\ x \notin DOMAIN lack
  BY <1>2, <1>6 DEF ApartOf
<1>8. h \in DOMAIN iso /\ x \in iso[h].links
  <2>1. InTodo(p, x, h)
    BY <1>0, <1>2 DEF InTodo
  <2>2. h \in Waiters(x)
    BY <2>1, WaitersAre
  <2>3. QED
    BY <1>0, <1>5, <2>2 DEF Agree
<1>9. /\ iso[h].links \in SUBSET Blocks /\ iso[h].linkIt \in SUBSET Blocks
      /\ l.todo \in SUBSET (Blocks \X Blocks)
      /\ \A k \in DOMAIN iso : iso[k] \in [links : SUBSET Blocks, linkIt : SUBSET Blocks]
  BY <1>1, <1>8, LocalFields DEF MapType
<1>10. /\ r1 \in Local /\ r1.pc = "release" /\ r1.blk = l.blk /\ r1.missing = l.missing
       /\ r1.cur = l.cur /\ r1.kids = {} /\ r1.todo = rest
  BY <1>1, <1>2, <1>4, <1>9 DEF Local
<1>11. ASSUME NEW y, NEW k
       PROVE  k \in Blocks /\ <<y, k>> \in rest <=> InTodo(p, y, k) /\ ~(y = x /\ k = h)
  BY <1>0 DEF InTodo
<1>12. \A f \in rest : f[1] \in rlp /\ f[1] \notin DOMAIN iso \cup DOMAIN lack
  BY <1>1, <1>6 DEF LocalOK, ApartOf
<1>13. DbType' /\ Closed'
  BY <1>1, <1>3 DEF DbType, Closed
<1>14. \A y, k : ~InKids(p, y, k)
  BY <1>4 DEF InKids
<1>15. \A y, k : y = x /\ k = h => ~InLack(y, k) /\ ~InIso(y, k)
  BY <1>7 DEF InLack, InIso
<1> HIDE DEF r1, rest
<1>16. CASE left # {}
  <2>1. iso' = [iso EXCEPT ![h].links = left] /\ loc' = [loc EXCEPT ![p] = r1]
    BY <1>2, <1>8, <1>16
  <2>2. /\ DOMAIN iso' = DOMAIN iso
        /\ \A k \in DOMAIN iso : k # h => iso'[k] = iso[k]
        /\ iso'[h].links = left /\ iso'[h].linkIt = iso[h].linkIt
        /\ iso'[h] \in [links : SUBSET Blocks, linkIt : SUBSET Blocks]
    BY <1>8, <1>9, <2>1
  <2>3. LocalOK(p, r1, rwlock', rlp')
    BY <1>3, <1>4, <1>10, <1>12 DEF LocalOK, Saving, Checking
  <2>4. MapType'
    BY <1>1, <1>3, <1>9, <2>2 DEF MapType
  <2>5. EntriesInv'
    <3>1. ASSUME NEW k \in DOMAIN iso' PROVE Range(Links[k]) \subseteq rlp \cup iso'[k].links
      BY <1>1, <1>4, <2>2 DEF EntriesInv
    <3>2. QED
      BY <1>1, <1>3, <3>1 DEF EntriesInv
  <2>6. Apart'
    <3>1. ApartOf(r1, DOMAIN iso' \cup DOMAIN lack')
      BY <1>3, <1>10, <1>12, <2>2 DEF ApartOf
    <3>2. QED
      BY <1>4, <1>10, <2>1, <3>1, ApartStep
  <2>7. ASSUME NEW y, NEW k
        PROVE  k \in Waiters(y)' <=> k \in Waiters(y) /\ ~(y = x /\ k = h)
    <3>1. k \in Waiters(y) <=> InLack(y, k) \/ InIso(y, k) \/ InTodo(p, y, k) \/ InKids(p, y, k)
      BY <1>4, <1>10, <2>1, HolderWaiters
    <3>2. k \in Waiters(y)' <=>
            \/ InLack(y, k)' \/ InIso(y, k)'
            \/ (k \in Blocks /\ <<y, k>> \in r1.todo) \/ (r1.cur = y /\ k \in r1.kids)
      BY <1>4, <1>10, <2>1, HolderWaiters
    <3>3. (InLack(y, k)' <=> InLack(y, k)) /\ (InIso(y, k)' <=> InIso(y, k))
      BY <1>3, <2>2 DEF InLack, InIso
    <3>4. QED
      BY <1>10, <1>11, <1>14, <1>15, <3>1, <3>2, <3>3
  <2>8. Agree'
    <3>1. ASSUME NEW y \in Blocks, NEW k, k \in Waiters(y)'
          PROVE  k \in DOMAIN iso' /\ y \in iso'[k].links
      <4>1. k \in DOMAIN iso /\ y \in iso[k].links /\ ~(y = x /\ k = h)
        BY <1>5, <2>7, <3>1 DEF Agree
      <4>2. QED
        BY <2>2, <4>1
    <3>2. ASSUME NEW k \in DOMAIN iso', NEW y \in iso'[k].links, Computed(y)
          PROVE  k \in Waiters(y)'
      <4>1. k \in DOMAIN iso /\ y \in iso[k].links /\ ~(y = x /\ k = h)
        BY <2>2, <3>2
      <4>2. QED
        BY <1>5, <2>7, <3>2, <4>1 DEF Agree
    <3>3. QED
      BY <3>1, <3>2 DEF Agree
  <2>9. MapsAgree'
    BY <1>3, <1>5, <2>2, <2>8, AgreeIs
  <2>10. QED
    BY <1>3, <1>10, <1>13, <2>1, <2>3, <2>4, <2>5, <2>6, <2>9, MapStep
<1>17. CASE left = {}
  <2>1. iso' = Without(iso, h) /\ loc' = [loc EXCEPT ![p] = r2]
    BY <1>2, <1>8, <1>17
  <2>2. DOMAIN iso' = DOMAIN iso \ {h} /\ \A k \in DOMAIN iso' : iso'[k] = iso[k]
    BY <2>1 DEF Without
  <2>3. /\ r2 \in Local /\ r2.pc = "del" /\ r2.blk = l.blk /\ r2.missing = l.missing
        /\ r2.cur = h /\ r2.kids = iso[h].linkIt /\ r2.todo = rest
    <3>1. PICK s \in SUBSET Blocks : s = iso[h].linkIt
      BY <1>9
    <3>2. r2 = [r1 EXCEPT !.pc = "del", !.cur = h, !.kids = s]
      BY <3>1
    <3> HIDE DEF r2
    <3>3. /\ r2 \in Local /\ r2.pc = "del" /\ r2.blk = r1.blk /\ r2.missing = r1.missing
          /\ r2.cur = h /\ r2.kids = s /\ r2.todo = r1.todo
      BY <1>0, <1>10, <3>2 DEF Local
    <3>4. QED
      BY <1>10, <3>1, <3>3
  <2> HIDE DEF r2
  <2>4. Range(Links[h]) \subseteq rlp
    BY <1>1, <1>4, <1>8, <1>17 DEF EntriesInv
  <2>5. LocalOK(p, r2, rwlock', rlp')
    BY <1>3, <1>4, <1>12, <2>3, <2>4 DEF LocalOK, Saving, Checking
  <2>6. MapType'
    BY <1>1, <1>3, <1>9, <2>2 DEF MapType
  <2>7. EntriesInv'
    BY <1>1, <1>3, <2>2 DEF EntriesInv
  <2>8. Apart'
    <3>1. h \notin DOMAIN iso' \cup DOMAIN lack'
      BY <1>3, <1>5, <1>8, <2>2
    <3>2. \A f \in rest : f[1] # h /\ f[1] \notin DOMAIN iso' \cup DOMAIN lack'
      BY <1>3, <1>8, <1>12, <2>2
    <3>3. ApartOf(r2, DOMAIN iso' \cup DOMAIN lack')
      BY <2>3, <3>1, <3>2 DEF ApartOf
    <3>4. QED
      BY <1>4, <2>1, <2>3, <3>3, ApartStep
  <2>9. ASSUME NEW y, NEW k
        PROVE  k \in Waiters(y)' <=> k \in Waiters(y) /\ ~(y = x /\ k = h)
    <3>1. k \in Waiters(y) <=> InLack(y, k) \/ InIso(y, k) \/ InTodo(p, y, k) \/ InKids(p, y, k)
      BY <1>4, <2>3, <2>1, HolderWaiters
    <3>2. k \in Waiters(y)' <=>
            \/ InLack(y, k)' \/ InIso(y, k)'
            \/ (k \in Blocks /\ <<y, k>> \in r2.todo) \/ (r2.cur = y /\ k \in r2.kids)
      BY <1>4, <2>3, <2>1, HolderWaiters
    <3>3. InLack(y, k)' <=> InLack(y, k)
      BY <1>3 DEF InLack
    <3>4. InIso(y, k) <=> InIso(y, k)' \/ (r2.cur = y /\ k \in r2.kids)
      BY <1>8, <2>2, <2>3 DEF InIso
    <3>5. QED
      BY <1>11, <1>14, <1>15, <2>3, <3>1, <3>2, <3>3, <3>4
  <2>10. Agree'
    <3>1. ASSUME NEW y \in Blocks, NEW k, k \in Waiters(y)'
          PROVE  k \in DOMAIN iso' /\ y \in iso'[k].links
      <4>1. k \in DOMAIN iso /\ y \in iso[k].links /\ ~(y = x /\ k = h)
        BY <1>5, <2>9, <3>1 DEF Agree
      <4>2. k # h
        BY <1>17, <4>1
      <4>3. QED
        BY <2>2, <4>1, <4>2
    <3>2. ASSUME NEW k \in DOMAIN iso', NEW y \in iso'[k].links, Computed(y)
          PROVE  k \in Waiters(y)'
      <4>1. k \in DOMAIN iso /\ y \in iso[k].links /\ k # h
        BY <2>2, <3>2
      <4>2. QED
        BY <1>5, <2>9, <3>2, <4>1 DEF Agree
    <3>3. QED
      BY <3>1, <3>2 DEF Agree
  <2>11. MapsAgree'
    BY <1>3, <1>5, <2>2, <2>10, AgreeIs
  <2>12. QED
    BY <1>3, <1>13, <2>1, <2>3, <2>5, <2>6, <2>7, <2>8, <2>11, MapStep
<1>18. QED
  BY <1>16, <1>17
-----------------------------------------------------------------------------
(* The invariant *)

LEMMA InitIInv ==
  ASSUME Init
  PROVE  IInv
<1>1. /\ rlp = {Genesis} \cup NoInfo /\ DOMAIN iso = {} /\ DOMAIN lack = {} /\ due = {}
      /\ rwlock = None /\ addBlockLock = None /\ loc = [p \in Procs |-> Idle]
  BY DEF Init, EmptyMap
<1>2. Idle \in Local /\ Idle.kids = {} /\ Idle.todo = {} /\ None \notin Procs
  BY IdleOK, ProcFacts DEF Idle
<1>3. \A p \in Procs : LocalOK(p, Idle, None, rlp)
  BY <1>2, IdleOK
<1> HIDE DEF Idle
<1>4. TypeOK
  <2>1. DbType /\ MapType /\ LocType /\ LockType
    BY <1>1, <1>2, PoolAssumption DEF DbType, MapType, LocType, LockType
  <2>2. TipType /\ NetType
    BY PoolAssumption DEF Init, TipType, NetType
  <2>3. SyncType
    BY Zenon, 0 \in Nat DEF Init, SyncType
  <2>4. QED
    BY <2>1, <2>2, <2>3, TypeGroups
<1>5. StoreInv
  BY <1>1, <1>3 DEF StoreInv
<1>6. EntriesInv
  BY <1>1 DEF EntriesInv
<1>7. Closed
  <2>1. Links[Genesis] = << >>
    BY PoolAssumption
  <2>2. Range(Links[Genesis]) = {}
    BY <2>1 DEF Range
  <2>3. QED
    BY <1>1, <2>2 DEF Closed
<1>8. Apart
  BY <1>1, <1>2 DEF Apart, ApartOf
<1>9. MapsAgree
  <2>1. ASSUME NEW x, NEW h PROVE h \notin Waiters(x)
    BY <1>1, <1>2, WaitersAre DEF InLack, InIso, InTodo, InKids
  <2>2. QED
    BY <1>1, <2>1 DEF MapsAgree
<1>10. QED
  BY <1>4, <1>5, <1>6, <1>7, <1>8, <1>9 DEF IInv

LEMMA NextIInv ==
  ASSUME IInv, [Next]_vars
  PROVE  IInv'
<1>0. Timer \in Procs /\ Workers \subseteq Procs
  BY ProcFacts
<1>1. ASSUME NEW p \in Procs, SaveStep(p) \/ ReleaseStep(p) PROVE IInv'
  BY <1>1, DeleteUnverifiedStep, SaveBlockStep, AddUnverifiedStep, DeleteIsolatedStep,
     ReleaseEndStep, ReleaseOneStep DEF SaveStep, ReleaseStep
<1>2. ASSUME NEW w \in Workers, WorkerStep(w) PROVE IInv'
  BY <1>0, <1>1, <1>2, CheckLinkStep, CheckedSteps, AddIsolatedStep DEF WorkerStep
<1>3. ASSUME TimerStep PROVE IInv'
  BY <1>0, <1>1, <1>3, EnvSteps, TimedReleaseStep DEF TimerStep
<1>4. ASSUME UNCHANGED vars PROVE IInv'
  <2>1. /\ UNCHANGED Tips /\ UNCHANGED Net /\ UNCHANGED Sync /\ UNCHANGED Locks
    BY <1>4, Zenon DEF vars, Tips, Net, Sync, Locks
  <2>2. TipType' /\ NetType' /\ SyncType' /\ LockType'
    BY <2>1, KeptTypes
  <2>3. /\ loc' = loc /\ rlp' = rlp /\ iso' = iso /\ lack' = lack /\ due' = due
        /\ rwlock' = rwlock
    BY <1>4, Zenon DEF vars
  <2>4. QED
    BY <2>2, <2>3, Facts, StillStep
<1>5. ASSUME NEW m \in Message, NEW w \in Workers, AddBlock(w, m) PROVE IInv'
  BY <1>5, AddBlockStep
<1>6. QED
  BY <1>2, <1>3, <1>4, <1>5, EnvSteps DEF Next

(* The maps, the goroutines and the database stay together through every           *)
(* interleaving of AddBlock, deleteIsolatedBlock and the timer.                    *)
THEOREM Inductive == Spec => []IInv
<1>1. Init => IInv
  BY InitIInv
<1>2. IInv /\ [Next]_vars => IInv'
  BY NextIInv
<1>3. QED
  BY <1>1, <1>2, PTL DEF Spec

(* The pool keeps its types. *)
THEOREM TypeCorrect == Spec => []TypeOK
<1>1. IInv => TypeOK
  BY DEF IInv
<1>2. QED
  BY <1>1, Inductive, PTL

(* IsolatedBlockMap and lackBlockMap agree: deleteIsolatedBlock never meets its      *)
(* errors for a missing entry or link, and no waiter is left out of a LinkIt.       *)
THEOREM MapsAgreeHolds == Spec => []MapsAgree
<1>1. IInv => MapsAgree
  BY DEF IInv
<1>2. QED
  BY <1>1, Inductive, PTL

(* A block is stored after all its links, whatever the order of arrival and the      *)
(* race between the link check and the stores.                                      *)
THEOREM ClosedHolds == Spec => []Closed
<1>1. IInv => Closed
  BY DEF IInv
<1>2. QED
  BY <1>1, Inductive, PTL
-----------------------------------------------------------------------------
(* Tips *)

(* The list of unverified blocks does not refuse a new block (block_pool.go:302). *)
NotRefused == addChan # << >> /\ Cardinality(tips) >= MaxTips => Head(addChan) \in tips

(* It never does when it has room for every block there is. *)
TipsFit == IsFiniteSet(Blocks) /\ Cardinality(Blocks) <= MaxTips

LEMMA FitNotRefused ==
  ASSUME TipsFit, TypeOK
  PROVE  NotRefused
<1>1. IsFiniteSet(Blocks) /\ MaxTips \in Nat /\ Cardinality(Blocks) <= MaxTips
  BY PoolAssumption DEF TipsFit
<1>2. tips \in SUBSET Blocks /\ addChan \in Seq(Blocks)
  BY TypeGroups DEF TipType
<1>3. /\ IsFiniteSet(tips) /\ Cardinality(tips) <= Cardinality(Blocks)
      /\ Cardinality(tips) = Cardinality(Blocks) => tips = Blocks
  BY <1>1, <1>2, FS_Subset
<1>4. Cardinality(tips) \in Nat /\ Cardinality(Blocks) \in Nat
  BY <1>1, <1>3, FS_CardinalityType
<1>5. Cardinality(tips) >= MaxTips => tips = Blocks
  BY <1>1, <1>3, <1>4
<1>6. addChan # << >> => Head(addChan) \in Blocks
  BY <1>2
<1>7. QED
  BY <1>5, <1>6 DEF NotRefused

Kept(b) ==
  \/ b \in tips \cup Range(addChan)
  \/ \E p \in Procs : loc[p].pc = "push" /\ loc[p].cur = b

LEMMA TipInvIs ==
  /\ TipInv <=> /\ \A b \in rlp \ NoInfo : Kept(b) \/ Linked(b)
                /\ \A x \in Range(delChan) : Linked(x)
  /\ TipInv' <=> /\ \A b \in rlp' \ NoInfo : Kept(b)' \/ Linked(b)'
                 /\ \A x \in Range(delChan') : Linked(x)'
<1>1. NoTipLost <=> \A b \in rlp \ NoInfo : Kept(b) \/ Linked(b)
  BY Zenon DEF NoTipLost, Kept, Linked
<1>2. NoTipLost' <=> \A b \in rlp' \ NoInfo : Kept(b)' \/ Linked(b)'
  BY Zenon DEF NoTipLost, Kept, Linked
<1>3. QED
  BY <1>1, <1>2 DEF TipInv

(* What a goroutine about to store a block justifies stays justified. *)
LEMMA LinkedStep ==
  ASSUME rlp \subseteq rlp', NEW x,
         \A p \in Procs : loc[p].pc = "save" =>
            /\ loc[p].cur \in Blocks
            /\ \/ loc'[p].pc = "save" /\ loc'[p].cur = loc[p].cur
               \/ loc[p].cur \in rlp'
               \/ ~Computed(loc[p].cur)
  PROVE  Linked(x) => Linked(x)'
<1>1. ASSUME NEW p \in Procs, loc[p].pc = "save", x \in Range(Links[loc[p].cur]) PROVE Linked(x)'
  BY <1>1 DEF Linked
<1>2. ASSUME NEW c \in Blocks, x \in Range(Links[c]), c \in rlp \/ ~Computed(c) PROVE Linked(x)'
  BY <1>2 DEF Linked
<1>3. QED
  BY <1>1, <1>2 DEF Linked

(* A step that leaves the database, the list and its channels alone, and the          *)
(* goroutines that are about to use them.                                            *)
LEMMA TipQuiet ==
  ASSUME IInv, TipInv, rlp' = rlp, tips' = tips, addChan' = addChan, delChan' = delChan,
         \A q \in Procs : loc[q].pc \in {"save", "push"} => loc'[q] = loc[q]
  PROVE  TipInv'
<1>1. ASSUME NEW q \in Procs PROVE loc[q].cur \in Blocks
  BY Facts, LocalFields
<1>2. \A x : Linked(x) => Linked(x)'
  BY <1>1, LinkedStep
<1>3. \A b : Kept(b) => Kept(b)'
  BY DEF Kept
<1>4. QED
  BY <1>2, <1>3, TipInvIs

LEMMA TipSave ==
  ASSUME IInv, TipInv, NEW p \in Procs, SaveBlock(p)
  PROVE  TipInv'
<1> DEFINE b == loc[p].cur
<1>1. loc \in [Procs -> Local] /\ \A q \in Procs : loc[q].cur \in Blocks
  BY Facts, LocalFields
<1>2. /\ loc[p].pc = "save" /\ tips' = tips /\ addChan' = addChan /\ delChan' = delChan
      /\ \A q \in Procs : q # p => loc'[q] = loc[q]
      /\ Computed(b) => rlp' = rlp \cup {b} /\ loc'[p].pc = "push" /\ loc'[p].cur = b
      /\ ~Computed(b) => rlp' = rlp
  <2>1. CASE Computed(b)
    BY <1>1, <2>1 DEF SaveBlock, Go, Tips, Local
  <2>2. CASE ~Computed(b)
    BY <1>1, <2>2 DEF SaveBlock, Tips
  <2>3. QED
    BY <2>1, <2>2
<1>3. \A x : Linked(x) => Linked(x)'
  <2>1. ASSUME NEW q \in Procs, loc[q].pc = "save"
        PROVE  /\ loc[q].cur \in Blocks
               /\ \/ loc'[q].pc = "save" /\ loc'[q].cur = loc[q].cur
                  \/ loc[q].cur \in rlp'
                  \/ ~Computed(loc[q].cur)
    BY <1>1, <1>2, <2>1
  <2>2. rlp \subseteq rlp'
    BY <1>2
  <2>3. QED
    BY <2>1, <2>2, LinkedStep
<1>4. \A c : Kept(c) => Kept(c)'
  BY <1>1, <1>2 DEF Kept
<1>5. b \in rlp' \ rlp => Kept(b)'
  BY <1>2 DEF Kept
<1>6. \A c \in rlp' : c \in rlp \/ c = b
  BY <1>2
<1>7. QED
  BY <1>2, <1>3, <1>4, <1>5, <1>6, TipInvIs

LEMMA TipDelete ==
  ASSUME IInv, TipInv, NEW p \in Procs, DeleteUnverifiedBlocks(p)
  PROVE  TipInv'
<1> DEFINE b == loc[p].cur
<1>1. loc \in [Procs -> Local] /\ TipType /\ \A q \in Procs : loc[q].cur \in Blocks
  BY Facts, LocalFields
<1>2. /\ loc[p].pc = "del" /\ tips' = tips /\ addChan' = addChan /\ rlp' = rlp
      /\ delChan' = delChan \o Links[b]
      /\ \A q \in Procs : q # p => loc'[q] = loc[q]
      /\ loc'[p].pc = "save" /\ loc'[p].cur = b
  BY <1>1 DEF DeleteUnverifiedBlocks, Go, Local
<1>3. \A x : Linked(x) => Linked(x)'
  BY <1>1, <1>2, LinkedStep
<1>4. \A c : Kept(c) => Kept(c)'
  BY <1>2 DEF Kept
<1>5. ASSUME NEW x \in Range(delChan') PROVE x \in Range(delChan) \/ x \in Range(Links[b])
  <2>1. Links[b] \in Seq(Blocks) /\ delChan \in Seq(Blocks)
    BY <1>1, LinksTyped DEF TipType
  <2>2. PICK i \in DOMAIN delChan' : x = delChan'[i]
    BY DEF Range
  <2>3. i \in 1 .. Len(delChan) + Len(Links[b])
    BY <1>2, <2>1, <2>2
  <2>4. CASE i <= Len(delChan)
    BY <1>2, <2>1, <2>2, <2>3, <2>4 DEF Range
  <2>5. CASE i > Len(delChan)
    <3>1. i - Len(delChan) \in 1 .. Len(Links[b]) /\ x = Links[b][i - Len(delChan)]
      BY <1>2, <2>1, <2>2, <2>3, <2>5
    <3>2. QED
      BY <2>1, <3>1 DEF Range
  <2>6. QED
    BY <2>1, <2>3, <2>4, <2>5
<1>6. \A x \in Range(Links[b]) : Linked(x)'
  BY <1>2 DEF Linked
<1>7. QED
  BY <1>2, <1>3, <1>4, <1>5, <1>6, TipInvIs

LEMMA TipPush ==
  ASSUME IInv, TipInv, NEW p \in Procs, AddUnverifiedBlock(p)
  PROVE  TipInv'
<1> DEFINE b == loc[p].cur
<1>1. loc \in [Procs -> Local] /\ TipType /\ \A q \in Procs : loc[q].cur \in Blocks
  BY Facts, LocalFields
<1>2. /\ loc[p].pc = "push" /\ tips' = tips /\ delChan' = delChan /\ rlp' = rlp
      /\ addChan' = Append(addChan, b)
      /\ \A q \in Procs : q # p => loc'[q] = loc[q]
  BY <1>1 DEF AddUnverifiedBlock
<1>3. \A x : Linked(x) => Linked(x)'
  BY <1>1, <1>2, LinkedStep
<1>4. Range(addChan) \cup {b} \subseteq Range(addChan')
  <2>1. b \in Blocks /\ addChan \in Seq(Blocks)
    BY <1>1 DEF TipType
  <2>2. addChan'[Len(addChan) + 1] = b /\ Len(addChan) + 1 \in DOMAIN addChan'
    BY <1>2, <2>1
  <2>3. \A i \in DOMAIN addChan : i \in DOMAIN addChan' /\ addChan'[i] = addChan[i]
    BY <1>2, <2>1
  <2>4. QED
    BY <2>2, <2>3 DEF Range
<1>5. \A c : Kept(c) => Kept(c)'
  BY <1>2, <1>4 DEF Kept
<1>6. QED
  BY <1>2, <1>3, <1>5, TipInvIs

LEMMA TipLoop ==
  ASSUME IInv, TipInv, NotRefused, PushTip \/ RemoveTip
  PROVE  TipInv'
<1>1. TipType /\ \A q \in Procs : loc[q].cur \in Blocks
  BY Facts, LocalFields
<1>2. rlp' = rlp /\ loc' = loc
  BY DEF PushTip, RemoveTip
<1>3. \A x : Linked(x) => Linked(x)'
  BY <1>1, <1>2, LinkedStep
<1>4. CASE PushTip
  <2> DEFINE b == Head(addChan)
  <2>1. /\ addChan \in Seq(Blocks) /\ addChan # << >> /\ tips \in SUBSET Blocks
        /\ addChan' = Tail(addChan) /\ delChan' = delChan
        /\ tips' = IF Cardinality(tips) >= MaxTips THEN tips ELSE tips \cup {b}
    BY <1>1, <1>4 DEF PushTip, TipType
  <2>2. b \in Blocks
    BY <2>1
  <2>3. tips \cup {b} \subseteq tips'
    <3>1. CASE Cardinality(tips) >= MaxTips
      BY <2>1, <3>1 DEF NotRefused
    <3>2. CASE ~(Cardinality(tips) >= MaxTips)
      BY <2>1, <3>2
    <3>3. QED
      BY <3>1, <3>2
  <2>4. ASSUME NEW x \in Range(addChan) PROVE x = b \/ x \in Range(addChan')
    <3>1. PICK i \in 1 .. Len(addChan) : x = addChan[i]
      BY <2>1 DEF Range
    <3>2. CASE i = 1
      BY <2>1, <3>1, <3>2
    <3>3. CASE i # 1
      <4>1. i - 1 \in 1 .. Len(addChan') /\ x = addChan'[i - 1] /\ addChan' \in Seq(Blocks)
        BY <2>1, <3>1, <3>3
      <4>2. QED
        BY <4>1 DEF Range
    <3>4. QED
      BY <3>2, <3>3
  <2>5. \A c : Kept(c) => Kept(c)'
    BY <1>2, <2>3, <2>4 DEF Kept
  <2>6. QED
    BY <1>2, <1>3, <2>1, <2>5, TipInvIs
<1>5. CASE RemoveTip
  <2>0. PICK b : b = Head(delChan)
    OBVIOUS
  <2>1. /\ delChan \in Seq(Blocks) /\ delChan # << >> /\ addChan' = addChan
        /\ delChan' = Tail(delChan) /\ tips' = tips \ {b}
    BY <1>1, <1>5, <2>0 DEF RemoveTip, TipType
  <2>2. b \in Range(delChan)
    BY <2>0, <2>1 DEF Range
  <2>3. Linked(b)'
    BY <1>3, <2>2, TipInvIs
  <2>4. Range(delChan') \subseteq Range(delChan)
    <3>1. \A i \in DOMAIN delChan' : i + 1 \in DOMAIN delChan /\ delChan'[i] = delChan[i + 1]
      BY <2>1
    <3>2. QED
      BY <3>1 DEF Range
  <2>5. \A c : Kept(c) /\ c # b => Kept(c)'
    BY <1>2, <2>1 DEF Kept
  <2>6. QED
    BY <1>2, <1>3, <2>3, <2>4, <2>5, TipInvIs
<1>6. QED
  BY <1>4, <1>5

LEMMA NextTipInv ==
  ASSUME IInv, TipInv, NotRefused, [Next]_vars
  PROVE  TipInv'
<1>0. Timer \in Procs /\ Workers \subseteq Procs /\ loc \in [Procs -> Local]
  BY ProcFacts, Facts
<1> DEFINE Quiet == /\ rlp' = rlp /\ tips' = tips /\ addChan' = addChan /\ delChan' = delChan
                    /\ \A q \in Procs : loc[q].pc \in {"save", "push"} => loc'[q] = loc[q]
<1>q. Quiet => TipInv'
  BY TipQuiet
<1>1. ASSUME NEW m \in Arrivals, Arrive(m) PROVE Quiet
  BY <1>1 DEF Arrive
<1>2. ASSUME NEW m \in Message, Deliver(m) PROVE Quiet
  BY <1>2 DEF Deliver
<1>3. ASSUME NEW m \in Message, NEW w \in Workers, AddBlock(w, m) PROVE Quiet
  BY <1>0, <1>3 DEF AddBlock
<1>4. ASSUME NEW w \in Workers, CheckLink(w) PROVE Quiet
  BY <1>0, <1>4 DEF CheckLink, Tips
<1>5. ASSUME NEW w \in Workers, CheckDone(w) \/ SyncTimeCheck(w) \/ SyncTimeWrite(w) PROVE Quiet
  BY <1>0, <1>5 DEF CheckDone, SyncTimeCheck, SyncTimeWrite, Go, Tips
<1>6. ASSUME NEW w \in Workers, AddIsolatedBlock(w) PROVE Quiet
  BY <1>0, <1>6 DEF AddIsolatedBlock, Tips
<1>7. ASSUME NEW p \in Procs, DeleteIsolatedBlock(p) PROVE Quiet
  BY <1>0, <1>7 DEF DeleteIsolatedBlock, Tips
<1>8. ASSUME NEW p \in Procs, ReleaseEnd(p) PROVE Quiet
  BY <1>0, <1>8 DEF ReleaseEnd, Tips
<1>9. ASSUME NEW p \in Procs, NEW e \in Blocks \X Blocks, ReleaseOne(p, e) PROVE Quiet
  BY <1>0, <1>9 DEF ReleaseOne, Tips
<1>10. ASSUME TimedRequest \/ SyncStatus PROVE Quiet
  BY <1>10 DEF TimedRequest, SyncStatus, Tips
<1>11. ASSUME NEW b \in Blocks, TimedRelease(b) PROVE Quiet
  BY <1>0, <1>11 DEF TimedRelease, Tips
<1>12. ASSUME UNCHANGED vars PROVE Quiet
  BY <1>12, Zenon DEF vars
<1> HIDE DEF Quiet
<1>13. ASSUME NEW p \in Procs, SaveStep(p) \/ ReleaseStep(p) PROVE TipInv'
  BY <1>q, <1>7, <1>8, <1>9, <1>13, TipSave, TipDelete, TipPush DEF SaveStep, ReleaseStep
<1>14. ASSUME NEW w \in Workers, WorkerStep(w) PROVE TipInv'
  BY <1>0, <1>q, <1>4, <1>5, <1>6, <1>13, <1>14 DEF WorkerStep
<1>15. ASSUME TimerStep PROVE TipInv'
  BY <1>0, <1>q, <1>10, <1>11, <1>13, <1>15 DEF TimerStep
<1>16. QED
  BY <1>q, <1>1, <1>2, <1>3, <1>10, <1>12, <1>14, <1>15, TipLoop DEF Next

(* No tip of the graph is forgotten, between addBlockLock, the two channels and the     *)
(* loop goroutine, as long as the list of unverified blocks does not refuse one.        *)
THEOREM NoTipLostHolds == Spec /\ []NotRefused => []NoTipLost
<1>1. Init => TipInv
  <2>1. SUFFICES ASSUME Init PROVE TipInv
    OBVIOUS
  <2>2. rlp = {Genesis} \cup NoInfo /\ tips = {Genesis} /\ delChan = << >>
    BY <2>1 DEF Init
  <2>3. Range(delChan) = {} /\ \A b \in rlp \ NoInfo : b \in tips
    BY <2>2 DEF Range
  <2>4. QED
    BY <2>3, TipInvIs DEF Kept
<1>2. IInv /\ TipInv /\ NotRefused /\ [Next]_vars => TipInv'
  BY NextTipInv
<1>3. TipInv => NoTipLost
  BY DEF TipInv
<1>4. QED
  BY <1>1, <1>2, <1>3, Inductive, PTL DEF Spec

(* In particular no tip is forgotten while there are not more blocks than the list       *)
(* holds.                                                                              *)
THEOREM NoTipLostWhenTipsFit == TipsFit => (Spec => []NoTipLost)
<1>1. SUFFICES ASSUME TipsFit PROVE Spec => []NoTipLost
  OBVIOUS
<1>2. TypeOK => NotRefused
  BY <1>1, FitNotRefused
<1>3. QED
  BY <1>2, TypeCorrect, NoTipLostHolds, PTL
==============================================================================
