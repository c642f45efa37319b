------------------------------ MODULE Fetcher ------------------------------
(***************************************************************************)
(* How a block spreads (sdag/synchronise/fetcher.go and relayer.go, with the   *)
(* handlers of sdag/protohandler.go and the events of the block pool).         *)
(*                                                                         *)
(* A peer announces a hash; the pool asks for it if it lacks the block; one     *)
(* of the fetcher's workers asks the announcers, or any peer, marks the hash as  *)
(* in flight, and the answer goes to the pool, which stores the block and has    *)
(* it relayed, keeps it isolated, or refuses it. The pool also asks for the      *)
(* ancestors it lacks. A worker tests whether a hash is in flight before it asks *)
(* and marks it after it asked, under two separate locks. Peers answer late or    *)
(* never.                                                                        *)
(***************************************************************************)
EXTENDS Integers, Sequences, FiniteSets, SequencesExt

CONSTANTS
  Peers, Hashes,
  Workers,        \* workers of the fetcher
  Lacking,        \* hashes that isolated blocks lack
  ReqCap,         \* capacity of reqCh
  AnnounceLimit,  \* maxAnnouceLimitPeer
  OriginLimit,    \* maxOringinPeersLimit
  MaxAnnounces,   \* bound: announcements
  MaxAsks         \* bound: requests for isolated blocks

ASSUME FetcherAssumption ==
  /\ IsFiniteSet(Peers) /\ IsFiniteSet(Hashes) /\ Lacking \subseteq Hashes
  /\ {ReqCap, AnnounceLimit, OriginLimit} \subseteq Nat \ {0} /\ {MaxAnnounces, MaxAsks} \subseteq Nat

VARIABLES
  peers,      \* connected peers
  announces, asks,  \* counters of the bounds
  announced,  \* announced[h], {} for a hash without entry
  entries,    \* hashes with an entry in announced
  count,      \* announceCount, 0 for a peer without entry
  annQ,       \* AnnounceEvents the pool has not handled
  reqCh, reqOrphanCh,
  flighting,  \* hash in flight -> [nodes, orphan]
  work,       \* what every worker does
  expired,    \* dels of detectTimeout: hash -> nodes
  wire,       \* requests on their way: [peer, hash]
  resCh,      \* answers: [peer, hash]
  posts,      \* blocks posted to the pool: [hash, orphan]
  known,      \* blocks the pool has stored
  isolated,   \* blocks in IsolatedBlockMap
  relays,     \* hashes to relay
  settled,    \* history: hashes without an open request, the last one having come to an end
  heard       \* bound: heard[p], hashes p has announced; it does so once

announcing == <<announced, entries, count>>
queues == <<annQ, reqCh, reqOrphanCh, wire, resCh, posts, relays>>
bounds == <<announces, asks>>
pool == <<known, isolated>>
histories == <<settled, heard>>
vars == <<peers, bounds, announcing, queues, flighting, work, expired, pool, histories>>

Idle == [at |-> "idle"]
NoTasks == [h \in {} |-> {}]

Init ==
  /\ peers = Peers /\ announces = 0 /\ asks = 0
  /\ announced = [h \in Hashes |-> {}] /\ entries = {} /\ count = [p \in Peers |-> 0]
  /\ annQ = << >> /\ reqCh = << >> /\ reqOrphanCh = << >> /\ wire = {} /\ resCh = << >>
  /\ posts = << >> /\ relays = {}
  /\ flighting = NoTasks /\ work = [w \in Workers |-> Idle] /\ expired = NoTasks
  /\ known = {} /\ isolated = {} /\ settled = Hashes
  /\ heard = [p \in Peers |-> {}]

Without(f, S) == [x \in DOMAIN f \ S |-> f[x]]

(* Where a request can be: the events, the queues, a worker, flighting, the report   *)
(* of the timer, the answers posted.                                                 *)
Open(h) ==
  \/ h \in ToSet(annQ) \cup ToSet(reqCh) \cup ToSet(reqOrphanCh)
  \/ \E w \in Workers : work[w].at # "idle" /\ work[w].hash = h
  \/ h \in DOMAIN flighting \/ h \in DOMAIN expired
  \/ \E i \in DOMAIN posts : posts[i].hash = h

(* the history: the step ends a request for each hash of S, and what is open again    *)
(* is not settled                                                                    *)
Settles(S) == settled' = {h \in settled \cup S : ~Open(h)'}

-----------------------------------------------------------------------------
(* Announcements and requests                                                  *)

(* handleNewBlockAnnounce: only the first announcer is counted                   *)
Announce(p, h) ==
  /\ p \in peers /\ announces < MaxAnnounces /\ h \notin heard[p]
  /\ count[p] < AnnounceLimit
  /\ announces' = announces + 1
  /\ announced' = [announced EXCEPT ![h] = @ \cup {p}]
  /\ entries' = entries \cup {h}
  /\ count' = IF h \in entries THEN count ELSE [count EXCEPT ![p] = @ + 1]
  /\ annQ' = Append(annQ, h)
  /\ heard' = [heard EXCEPT ![p] = @ \cup {h}]
  /\ UNCHANGED <<peers, asks, reqCh, reqOrphanCh, wire, resCh, posts, relays, flighting, work, expired, pool>>
  /\ Settles({})

(* an announcement over the limit ends the connection; nothing is reset            *)
Refuse(p) ==
  /\ p \in peers /\ announces < MaxAnnounces /\ count[p] >= AnnounceLimit
  /\ announces' = announces + 1
  /\ peers' = peers \ {p}
  /\ wire' = {m \in wire : m.peer # p}
  /\ UNCHANGED <<asks, announcing, annQ, reqCh, reqOrphanCh, resCh, posts, relays, flighting, work, expired, pool, histories>>

Leave(p) ==
  /\ p \in peers
  /\ peers' = peers \ {p}
  /\ wire' = {m \in wire : m.peer # p}
  /\ UNCHANGED <<bounds, announcing, annQ, reqCh, reqOrphanCh, resCh, posts, relays, flighting, work, expired, pool, histories>>

(* the pool's loop: HasBlock knows nothing of isolated blocks. Then AsyncRequestBlock, *)
(* which gives up on a full queue                                                    *)
PoolAsk ==
  /\ annQ # << >> /\ annQ' = Tail(annQ)
  /\ UNCHANGED <<peers, bounds, announcing, reqOrphanCh, wire, resCh, posts, relays, flighting, work, expired, pool, heard>>
  /\ LET h == Head(annQ)
     IN  \/ h \in known /\ UNCHANGED reqCh /\ Settles({h})
         \/ h \notin known /\ Len(reqCh) < ReqCap /\ reqCh' = Append(reqCh, h) /\ Settles({})
         \/ h \notin known /\ Len(reqCh) >= ReqCap /\ UNCHANGED reqCh /\ Settles({h})

(* TimedRequestForIsolatedBlocks: an isolated block is not in lackBlockMap; the queue  *)
(* of 50000 is not filled                                                            *)
PoolAskIsolated(h) ==
  /\ h \in Lacking \ (known \cup isolated) /\ asks < MaxAsks
  /\ asks' = asks + 1
  /\ reqOrphanCh' = Append(reqOrphanCh, h)
  /\ UNCHANGED <<peers, announces, announcing, annQ, reqCh, wire, resCh, posts, relays, flighting, work, expired, pool, heard>>
  /\ Settles({})

-----------------------------------------------------------------------------
(* fetch                                                                       *)

(* a worker takes a request and looks whether the hash is in flight               *)
TakeRequest(w, orphan) ==
  LET q == IF orphan THEN reqOrphanCh ELSE reqCh
  IN  /\ work[w].at = "idle" /\ q # << >>
      /\ work' = IF Head(q) \in DOMAIN flighting THEN work
                 ELSE [work EXCEPT ![w] = [at |-> "select", hash |-> Head(q), orphan |-> orphan]]
      /\ reqOrphanCh' = IF orphan THEN Tail(q) ELSE reqOrphanCh
      /\ reqCh' = IF orphan THEN reqCh ELSE Tail(q)
      /\ UNCHANGED <<peers, bounds, announcing, annQ, wire, resCh, posts, relays, flighting, expired, pool, histories>>

(* the announcers that are still connected, or else any peers                      *)
Origins(h) ==
  IF announced[h] \cap peers # {} THEN {announced[h] \cap peers}
  ELSE {S \in SUBSET peers : Cardinality(S) = IF Cardinality(peers) < OriginLimit THEN Cardinality(peers) ELSE OriginLimit}

SendRequests(w) ==
  /\ work[w].at = "select"
  /\ UNCHANGED <<peers, bounds, announcing, annQ, reqCh, reqOrphanCh, resCh, posts, relays, flighting, expired, pool, heard>>
  /\ \E nodes \in Origins(work[w].hash) :
       \/ /\ nodes = {}
          /\ work' = [work EXCEPT ![w] = Idle]
          /\ UNCHANGED wire
          /\ Settles({work[w].hash})
       \/ /\ nodes # {}
          /\ wire' = wire \cup {[peer |-> p, hash |-> work[w].hash] : p \in nodes}
          /\ work' = [work EXCEPT ![w] = [at |-> "mark", hash |-> work[w].hash, orphan |-> work[w].orphan, nodes |-> nodes]]
          /\ UNCHANGED settled

Mark(w) ==
  /\ work[w].at = "mark"
  /\ flighting' = [h \in DOMAIN flighting \cup {work[w].hash} |->
                     IF h = work[w].hash THEN [nodes |-> work[w].nodes, orphan |-> work[w].orphan] ELSE flighting[h]]
  /\ work' = [work EXCEPT ![w] = Idle]
  /\ UNCHANGED <<peers, bounds, announcing, queues, expired, pool, histories>>

-----------------------------------------------------------------------------
(* Answers and timeouts                                                        *)

(* a peer answers; a peer that lacks the block does not (handleGetBlockByHash)      *)
Answer(m) ==
  /\ m \in wire
  /\ wire' = wire \ {m}
  /\ resCh' = Append(resCh, m)
  /\ UNCHANGED <<peers, bounds, announcing, annQ, reqCh, reqOrphanCh, posts, relays, flighting, work, expired, pool, histories>>

NoAnswer(m) ==
  /\ m \in wire
  /\ wire' = wire \ {m}
  /\ UNCHANGED <<peers, bounds, announcing, annQ, reqCh, reqOrphanCh, resCh, posts, relays, flighting, work, expired, pool, histories>>

(* processResponse: a block not in flight is dropped                               *)
TakeResponse(w) ==
  /\ work[w].at = "idle" /\ resCh # << >>
  /\ resCh' = Tail(resCh)
  /\ LET m == Head(resCh)
     IN  IF m.hash \in DOMAIN flighting
         THEN /\ work' = [work EXCEPT ![w] = [at |-> "post", peer |-> m.peer, hash |-> m.hash,
                                              orphan |-> flighting[m.hash].orphan]]
              /\ flighting' = Without(flighting, {m.hash})
         ELSE UNCHANGED <<work, flighting>>
  /\ UNCHANGED <<peers, bounds, announcing, annQ, reqCh, reqOrphanCh, wire, posts, relays, expired, pool, histories>>

(* slip: the counter is not kept above zero                                        *)
LessNegative(c, p) == [c EXCEPT ![p] = @ - 1]

Less(c, p) == [c EXCEPT ![p] = IF @ > 0 THEN @ - 1 ELSE 0]

(* slip: isolateEvent is not posted                                                *)
PostNewOnly(w) ==
  /\ work[w].at = "post"
  /\ LET h == work[w].hash p == work[w].peer
     IN  /\ count' = IF work[w].orphan THEN count ELSE Less(count, p)
         /\ announced' = IF work[w].orphan THEN announced ELSE [announced EXCEPT ![h] = @ \ {p}]
         /\ posts' = IF work[w].orphan THEN posts ELSE Append(posts, [hash |-> h, orphan |-> FALSE])
  /\ work' = [work EXCEPT ![w] = Idle]
  /\ UNCHANGED <<peers, bounds, entries, annQ, reqCh, reqOrphanCh, wire, resCh, relays, flighting, expired, pool, histories>>

(* the answering peer is no longer an announcer of a block that was announced       *)
PostResponse(w) ==
  /\ work[w].at = "post"
  /\ LET h == work[w].hash p == work[w].peer
     IN  /\ count' = IF work[w].orphan THEN count ELSE Less(count, p)
         /\ announced' = IF work[w].orphan THEN announced ELSE [announced EXCEPT ![h] = @ \ {p}]
         /\ posts' = Append(posts, [hash |-> h, orphan |-> work[w].orphan])
  /\ work' = [work EXCEPT ![w] = Idle]
  /\ UNCHANGED <<peers, bounds, entries, annQ, reqCh, reqOrphanCh, wire, resCh, relays, flighting, expired, pool, histories>>

(* detectTimeout: the tasks in S are too old                                       *)
DetectTimeout(S) ==
  /\ expired = NoTasks /\ S # {} /\ S \subseteq DOMAIN flighting
  /\ expired' = [h \in S |-> flighting[h].nodes]
  /\ flighting' = Without(flighting, S)
  /\ UNCHANGED <<peers, bounds, announcing, queues, work, pool, histories>>

(* slip: the timeout is not reported                                               *)
ReportNothing ==
  /\ expired # NoTasks
  /\ announced' = [h \in Hashes |-> IF h \in DOMAIN expired THEN announced[h] \ expired[h] ELSE announced[h]]
  /\ count' = [p \in Peers |-> LET n == Cardinality({h \in DOMAIN expired : p \in expired[h]})
                               IN  IF count[p] > n THEN count[p] - n ELSE 0]
  /\ expired' = NoTasks
  /\ UNCHANGED <<peers, bounds, entries, queues, flighting, work, pool, histories>>

(* every node that was asked loses its announcement; ErrorGetBlocksEvent is posted   *)
ReportTimeout ==
  /\ expired # NoTasks
  /\ announced' = [h \in Hashes |-> IF h \in DOMAIN expired THEN announced[h] \ expired[h] ELSE announced[h]]
  /\ count' = [p \in Peers |-> LET n == Cardinality({h \in DOMAIN expired : p \in expired[h]})
                               IN  IF count[p] > n THEN count[p] - n ELSE 0]
  /\ expired' = NoTasks
  /\ UNCHANGED <<peers, bounds, entries, queues, flighting, work, pool, heard>>
  /\ Settles(DOMAIN expired)

-----------------------------------------------------------------------------
(* AddBlock: a block that is stored already is dropped; another is stored, and relayed *)
(* if it was announced, or isolated for want of a link, or refused for the time of a    *)
(* link or because ComputeCumulativeDiff fails                                         *)
PoolAdd ==
  /\ posts # << >> /\ posts' = Tail(posts)
  /\ UNCHANGED <<peers, bounds, announcing, annQ, reqCh, reqOrphanCh, wire, resCh, flighting, work, expired, heard>>
  /\ LET b == Head(posts)
     IN  /\ \/ b.hash \notin known
               /\ known' = known \cup {b.hash} /\ UNCHANGED isolated
               /\ relays' = IF b.orphan THEN relays ELSE relays \cup {b.hash}
            \/ b.hash \notin known
               /\ isolated' = isolated \cup {b.hash} /\ UNCHANGED <<known, relays>>
            \/ UNCHANGED <<known, isolated, relays>>
         /\ Settles({b.hash})

(* deleteIsolatedBlock: the last link came; the block is stored, or it fails and is     *)
(* dropped; it is not relayed                                                          *)
PoolRelease(h) ==
  /\ h \in isolated /\ isolated' = isolated \ {h}
  /\ known' \in {known, known \cup {h}}
  /\ UNCHANGED <<peers, bounds, announcing, queues, flighting, work, expired, histories>>

(* relay: to every peer that is not an announcer; of this node only the event is used  *)
Relay(h) ==
  /\ h \in relays /\ relays' = relays \ {h}
  /\ UNCHANGED <<peers, bounds, announcing, annQ, reqCh, reqOrphanCh, wire, resCh, posts, flighting, work, expired, pool, histories>>

-----------------------------------------------------------------------------
WorkerStep(w) ==
  \/ \E orphan \in BOOLEAN : TakeRequest(w, orphan)
  \/ SendRequests(w) \/ Mark(w) \/ TakeResponse(w) \/ PostResponse(w)
TimerStep == ReportTimeout \/ \E S \in SUBSET Hashes : DetectTimeout(S)
PoolStep == PoolAsk \/ PoolAdd \/ \E h \in Hashes : Relay(h)

Next ==
  \/ \E p \in Peers : Refuse(p) \/ Leave(p) \/ \E h \in Hashes : Announce(p, h)
  \/ \E h \in Hashes : PoolAskIsolated(h) \/ PoolRelease(h)
  \/ \E w \in Workers : WorkerStep(w)
  \/ \E m \in wire : Answer(m) \/ NoAnswer(m)
  \/ TimerStep \/ PoolStep

(* workers, pool and timer run; nothing is assumed of the peers                    *)
Fairness == WF_vars(\E w \in Workers : WorkerStep(w)) /\ WF_vars(TimerStep) /\ WF_vars(PoolStep)

Spec == Init /\ [][Next]_vars /\ Fairness

-----------------------------------------------------------------------------
Working == [at : {"idle"}] \cup [at : {"select"}, hash : Hashes, orphan : BOOLEAN]
           \cup [at : {"mark"}, hash : Hashes, orphan : BOOLEAN, nodes : SUBSET Peers]
           \cup [at : {"post"}, peer : Peers, hash : Hashes, orphan : BOOLEAN]
Messages == [peer : Peers, hash : Hashes]

(* Every variable stays in its set.                                               *)
TypeOK ==
  /\ peers \subseteq Peers /\ announces \in 0 .. MaxAnnounces /\ asks \in 0 .. MaxAsks
  /\ announced \in [Hashes -> SUBSET Peers] /\ entries \subseteq Hashes /\ count \in [Peers -> 0 .. AnnounceLimit]
  /\ \A q \in {annQ, reqCh, reqOrphanCh} : q \in Seq(Hashes)
  /\ wire \subseteq Messages /\ resCh \in Seq(Messages)
  /\ \A h \in DOMAIN flighting : h \in Hashes /\ flighting[h] \in [nodes : SUBSET Peers, orphan : BOOLEAN]
  /\ work \in [Workers -> Working]
  /\ posts \in Seq([hash : Hashes, orphan : BOOLEAN]) /\ \A S \in {known, isolated, relays, settled} : S \subseteq Hashes

(* Whatever the order of announcements, answers, timeouts and losses, a request comes  *)
(* to an end: the pool is handed the block, or the request is given up on a full queue, *)
(* for want of a peer or by the timer, and nothing waits for ever for a peer (fetch,    *)
(* processResponse, detectTimeout). What the pool makes of the block is BlockPool's.    *)
AnnouncedSettled == \A h \in Hashes : Open(h) ~> h \in settled

(* No request is forgotten between the queues, the workers and the two maps under      *)
(* their two locks: a hash has an open request, or the last one for it ended by being   *)
(* handed to the pool or given up, however often it was asked for before (fetch,       *)
(* processResponse, detectTimeout).                                                   *)
NoRequestForgotten == \A h \in Hashes : h \in settled \/ Open(h)
=============================================================================
