---------------------------- MODULE Synchroniser ----------------------------
(***************************************************************************)
(* The synchroniser (sdag/synchronise/synchroniser.go): how a node that is   *)
(* behind copies the blocks of a better peer, time slice after time slice.   *)
(*                                                                         *)
(* The node under study is the client. Its loop goroutine keeps the tasks    *)
(* and starts a session (synchroiniseV2); a session asks the peer for a      *)
(* locator, derives the fork slice and then acknowledges batch after batch   *)
(* until a batch says it is the last. The peers run the same program: any of *)
(* their workers may take up a request, read the end of the main chain, read  *)
(* sliceCache, pack a batch and send it, each at its own pace. Timers may     *)
(* fire before a slow answer, and a send on netFeed waits for its listeners.  *)
(*                                                                         *)
(* What a peer holds does not change during a run, only the end of its main   *)
(* chain moves along Main; so a cached slice is given by its number. The      *)
(* cumulative difficulty of a main block is ordered like its slice.           *)
(***************************************************************************)
EXTENDS Integers, Sequences, FiniteSets, FiniteSetsExt, SequencesExt

CONSTANTS
  Peers,        \* peers that may connect
  Count,        \* Count[p][s]: blocks that p holds in slice s
  Main,         \* Main[p]: p's main blocks by number: [hash, slice]
  OwnMain,      \* own main blocks by number: [hash, slice]
  Genesis,      \* genesisTimeslice
  FirstTail,    \* slice of every peer's MainTail at first
  Now,          \* current slice
  Word,         \* size of the integers of a slice
  Cap,          \* maxSYNCCapLimit
  MaxRetry,     \* maxRetryCount
  MaxTrouble    \* bound: connections, and timers that fire although the answer is on its way

Slices == 0 .. Word - 1
Points == [ts : Slices, idx : Nat]
Held(p, s) == {<<p, s, i>> : i \in 0 .. Count[p][s] - 1}
Blocks == UNION {Held(p, s) : p \in Peers, s \in Genesis .. Now}

ASSUME SyncAssumption ==
  /\ Peers # {}
  /\ Now \in Nat /\ Word \in Nat /\ Now < Word /\ Genesis \in 2 .. Now
  /\ Count \in [Peers -> [Genesis .. Now -> Nat]]
  /\ FirstTail \in [Peers -> Genesis .. Now]
  /\ \A p \in Peers : \A n \in DOMAIN Main[p] : Main[p][n].slice \in Genesis .. Now
  /\ Cardinality(DOMAIN OwnMain) \in Nat \ {0} /\ DOMAIN OwnMain = 0 .. Cardinality(DOMAIN OwnMain) - 1
  /\ \A n \in DOMAIN OwnMain : OwnMain[n].slice \in Genesis .. Now
  /\ Cap \in Nat \ {0} /\ MaxRetry \in Nat /\ MaxTrouble \in Nat

VARIABLES
  tail,       \* slice of the MainTail of every peer
  link,       \* the connection over which a peer is registered, 0: none
  connects,   \* connections so far
  posting,    \* NewSYNCTask that handle is posting, 0: none
  tasks,      \* queuedTask: the main chain end the peer announced, 0: no task
  lpc, idle,  \* the loop goroutine and its flag
  picked,     \* the peer schedule has chosen, with its connection
  syncing,    \* the flag syncing
  sess,       \* the goroutine of synchroiniseV2
  lastSYS,    \* lastSYStimeslice
  own,        \* slice of the last temporary main block
  posted,     \* blocks posted to the pool
  fed,        \* last status sent on netFeed
  locCh, resCh,   \* locatorBlockresCh, blockresCh
  asked,      \* locator requests under way
  inq,        \* requests and acknowledgements that reached a peer
  reading,    \* those a worker of the peer has taken, with the end it has read
  packing,    \* the same with the slice it has found in sliceCache
  sending,    \* batches packed and not yet sent
  cache,      \* sliceCache[client] of every peer: the slice, 0: none
  stop,       \* progress of Stop
  dups,       \* requests repeated although the answer was on its way
  last        \* history: how the last session ended

client == <<posting, tasks, lpc, idle, picked, syncing, sess, lastSYS, own, posted, fed, stop, dups, last>>
server == <<reading, packing, sending, cache>>
net == <<locCh, resCh, asked, inq>>
env == <<tail, link, connects>>
vars == <<client, server, net, env>>

NoSession == [pc |-> "off", peer |-> CHOOSE p \in Peers : TRUE, conn |-> 0, goal |-> 0, fork |-> 0,
              ack |-> << >>, retry |-> 0, retryGetlocator |-> 0, ticker |-> FALSE, wait |-> FALSE, fresh |-> TRUE, clean |-> TRUE]

Ended(how, s) ==
  IF how # "end" THEN [how |-> how]
  ELSE [how |-> how, peer |-> s.peer, fork |-> s.fork, goal |-> s.goal, fresh |-> s.fresh, clean |-> s.clean]

Init ==
  /\ tail = FirstTail /\ link = [p \in Peers |-> 0] /\ connects = 0
  /\ posting = [p \in Peers |-> 0] /\ tasks = [p \in Peers |-> 0]
  /\ lpc = "schedule" /\ idle = TRUE /\ syncing = FALSE /\ sess = NoSession
  /\ picked = [peer |-> NoSession.peer, conn |-> 0]
  /\ lastSYS = Genesis /\ own = OwnMain[Cardinality(DOMAIN OwnMain) - 1].slice
  /\ posted = {} /\ fed = "none"
  /\ locCh = << >> /\ resCh = << >>
  /\ asked = [p \in Peers |-> 0] /\ inq = [p \in Peers |-> << >>]
  /\ reading = [p \in Peers |-> << >>] /\ packing = [p \in Peers |-> << >>] /\ sending = [p \in Peers |-> << >>]
  /\ cache = [p \in Peers |-> 0]
  /\ stop = "run" /\ dups = 0 /\ last = Ended("none", NoSession)

-----------------------------------------------------------------------------
(* Peers and the rest of the node                                             *)

connected == {p \in Peers : link[p] > 0}

(* a send over the connection the session was started with succeeds            *)
Alive == link[sess.peer] = sess.conn

(* handle: a peer whose announced main chain is further becomes a task        *)
Connect(p) ==
  /\ link[p] = 0 /\ connects + dups < MaxTrouble
  /\ link' = [link EXCEPT ![p] = connects + 1] /\ connects' = connects + 1
  /\ posting' = [posting EXCEPT ![p] = IF tail[p] > own THEN tail[p] ELSE 0]
  /\ UNCHANGED <<tail, tasks, lpc, idle, picked, syncing, sess, lastSYS, own, posted, fed, stop, dups, last, server, net>>

(* removePeer on both sides; what is on the wire is lost, what a peer has      *)
(* queued for its workers may still be served                                  *)
Disconnect(p) ==
  /\ link[p] > 0 /\ posting[p] = 0
  /\ link' = [link EXCEPT ![p] = 0]
  /\ asked' = [asked EXCEPT ![p] = 0]
  /\ \/ inq' = [inq EXCEPT ![p] = << >>]
     \/ inq[p] # << >> /\ UNCHANGED inq
  /\ cache' = [cache EXCEPT ![p] = 0]
  /\ UNCHANGED <<tail, connects, client, reading, packing, sending, locCh, resCh>>

(* the peer's MainTail moves to a later main block                              *)
Grow(p) ==
  /\ \E n \in DOMAIN Main[p] : /\ Main[p][n].slice > tail[p]
                              /\ tail' = [tail EXCEPT ![p] = Main[p][n].slice]
  /\ UNCHANGED <<link, connects, client, server, net>>

(* pool and main chain take up blocks the synchroniser has posted              *)
Adopt(s) ==
  /\ s > own /\ \E b \in posted : b[2] = s
  /\ own' = s
  /\ UNCHANGED <<posting, tasks, lpc, idle, picked, syncing, sess, lastSYS, posted, fed, stop, dups, last, server, net, env>>

-----------------------------------------------------------------------------
(* The loop goroutine                                                          *)

TakeTask(p) ==
  /\ lpc = "select" /\ posting[p] > 0
  /\ tasks' = [tasks EXCEPT ![p] = posting[p]]
  /\ posting' = [posting EXCEPT ![p] = 0]
  /\ lpc' = "schedule"
  /\ UNCHANGED <<idle, picked, syncing, sess, lastSYS, own, posted, fed, stop, dups, last, server, net, env>>

TakeDone ==
  /\ lpc = "select" /\ sess.pc = "done"
  /\ sess' = [sess EXCEPT !.pc = "flag"]
  /\ idle' = TRUE
  /\ lpc' = "schedule"
  /\ UNCHANGED <<posting, tasks, picked, syncing, lastSYS, own, posted, fed, stop, dups, last, server, net, env>>

Tick ==
  /\ lpc = "select"
  /\ lpc' = "schedule"
  /\ UNCHANGED <<posting, tasks, idle, picked, syncing, sess, lastSYS, own, posted, fed, stop, dups, last, server, net, env>>

TakeQuit ==
  /\ lpc = "select" /\ stop = "quit"
  /\ lpc' = "off" /\ stop' = "cancel"
  /\ UNCHANGED <<posting, tasks, idle, picked, syncing, sess, lastSYS, own, posted, fed, dups, last, server, net, env>>

Queued == {p \in Peers : tasks[p] > 0}

(* the connected task with the highest main block; tasks of lost peers that     *)
(* are met before it are deleted (a tie is met in either order)                *)
IsTarget(p) == p \in Queued \cap connected /\ \A q \in Queued \cap connected : tasks[q] <= tasks[p]
Passed(p) == {S \in SUBSET (Queued \ connected) :
               \A q \in Queued \ connected : /\ tasks[q] > tasks[p] => q \in S
                                             /\ q \in S => tasks[q] >= tasks[p]}
Worth(p) == own < tasks[p] /\ tasks[p] > own + 3

MaySchedule == own < Now /\ ~syncing /\ own >= lastSYS

(* discharg: an answer nobody waits for                                        *)
Discharge(isIdle) ==
  resCh' = IF isIdle /\ resCh # << >> THEN Tail(resCh) ELSE resCh

ScheduleNothing ==
  /\ lpc = "schedule" /\ lpc' = "select"
  /\ ~MaySchedule \/ Queued \cap connected = {}
  /\ tasks' = IF MaySchedule THEN [p \in Peers |-> 0] ELSE tasks
  /\ Discharge(idle)
  /\ UNCHANGED <<posting, idle, picked, syncing, sess, lastSYS, own, posted, fed, stop, dups, last, server, locCh, asked, inq, env>>

(* something a session has asked p for, or an answer not yet read               *)
UnderWay(p) == asked[p] + Len(locCh) + Len(inq[p]) + Len(reading[p]) + Len(packing[p]) + Len(sending[p]) + Len(resCh) > 0

(* the send on netFeed begins; the loop is held until it is over                *)
ScheduleStart(p) ==
  /\ lpc = "schedule" /\ lpc' = "feed"
  /\ MaySchedule /\ IsTarget(p) /\ Worth(p)
  /\ \E S \in Passed(p) : tasks' = [q \in Peers |-> IF q \in S \cup {p} THEN 0 ELSE tasks[q]]
  /\ idle' = FALSE /\ picked' = [peer |-> p, conn |-> link[p]]
  /\ UNCHANGED <<posting, syncing, sess, lastSYS, own, posted, fed, stop, dups, last, server, net, env>>

(* every listener has taken the status: the flag, then the goroutine            *)
FedSyncing ==
  /\ lpc = "feed" /\ lpc' = "select"
  /\ fed' = "SYNCING" /\ syncing' = TRUE
  /\ LET found == \E q \in Peers : UnderWay(q)
     IN  sess' = [NoSession EXCEPT !.pc = "start", !.peer = picked.peer, !.conn = picked.conn,
                                  !.goal = tail[picked.peer], !.fresh = ~found, !.clean = ~found]
  /\ UNCHANGED <<posting, tasks, idle, picked, lastSYS, own, posted, stop, dups, last, server, net, env>>

ScheduleDrop(p) ==
  /\ lpc = "schedule" /\ lpc' = "select"
  /\ MaySchedule /\ IsTarget(p) /\ ~Worth(p)
  /\ tasks' = [q \in Peers |-> 0]
  /\ Discharge(idle)
  /\ UNCHANGED <<posting, idle, picked, syncing, sess, lastSYS, own, posted, fed, stop, dups, last, server, locCh, asked, inq, env>>

-----------------------------------------------------------------------------
(* A session                                                                   *)

(* slip: syncing = 0 before the send on done                                   *)
ExitUnflagged(how, s) ==
  /\ sess' = [NoSession EXCEPT !.pc = "done"]
  /\ last' = Ended(how, s)
  /\ syncing' = FALSE

(* clear: wg.Done, then the send on done, then syncing = 0                      *)
Exit(how, s) ==
  /\ sess' = [NoSession EXCEPT !.pc = "done"]
  /\ last' = Ended(how, s)
  /\ UNCHANGED syncing

Continue(s) == sess' = s /\ UNCHANGED <<last, syncing>>

SendTo(p, pt) == inq' = [inq EXCEPT ![p] = Append(@, pt)]

(* slip: the flag stays set                                                    *)
ClearNoFlag ==
  /\ sess.pc = "flag"
  /\ sess' = NoSession
  /\ UNCHANGED <<posting, tasks, lpc, idle, picked, syncing, lastSYS, own, posted, fed, stop, dups, last, server, net, env>>

ClearFlag ==
  /\ sess.pc = "flag"
  /\ sess' = NoSession
  /\ syncing' = FALSE
  /\ UNCHANGED <<posting, tasks, lpc, idle, picked, lastSYS, own, posted, fed, stop, dups, last, server, net, env>>

SendGetlocator ==
  /\ sess.pc = "start"
  /\ IF Alive
     THEN /\ asked' = [asked EXCEPT ![sess.peer] = @ + 1]
          /\ Continue([sess EXCEPT !.pc = "select", !.ticker = TRUE])
     ELSE Exit("error", sess) /\ UNCHANGED asked
  /\ UNCHANGED <<posting, tasks, lpc, idle, picked, lastSYS, own, posted, fed, stop, dups, server, locCh, resCh, inq, env>>

(* slice of the first sample, the highest, that is on the own main chain, less   *)
(* two, not before genesis; the subtraction is unsigned                        *)
Matching(samples) ==
  {n \in DOMAIN OwnMain : [number |-> n, hash |-> OwnMain[n].hash] \in samples}

ForkTimeslice(samples) ==
  LET hits == Matching(samples)
      at == IF hits = {} THEN 0 ELSE OwnMain[Max(hits)].slice
  IN  Max({(at + Word - 2) % Word, Genesis})

LocatorResponse ==
  /\ sess.pc = "select" /\ locCh # << >>
  /\ locCh' = Tail(locCh)
  /\ LET fork == ForkTimeslice(Head(locCh))
         s == [sess EXCEPT !.ticker = FALSE, !.retryGetlocator = 0, !.fork = fork]
     IN  IF Alive
         THEN SendTo(sess.peer, [ts |-> fork, idx |-> 0]) /\ Continue([s EXCEPT !.wait = TRUE])
         ELSE Exit("error", s) /\ UNCHANGED inq
  /\ UNCHANGED <<posting, tasks, lpc, idle, picked, lastSYS, own, posted, fed, stop, dups, server, resCh, asked, env>>

(* handleSYNCBlockResponse, then an acknowledgement or, at the end, the send of  *)
(* COMPLETED on netFeed begins                                                  *)
BlockResponse ==
  /\ sess.pc = "select" /\ resCh # << >>
  /\ resCh' = Tail(resCh)
  /\ LET r == Head(resCh)
         s == [sess EXCEPT !.retry = 0]
     IN  /\ posted' = posted \cup r.blocks
         /\ lastSYS' = r.last.ts
         /\ IF r.end THEN Continue([s EXCEPT !.pc = "feed", !.fresh = @ /\ Alive, !.clean = @ /\ Alive]) /\ UNCHANGED inq
            ELSE IF Alive
                 THEN SendTo(sess.peer, r.last) /\ Continue([s EXCEPT !.ack = <<r.last>>, !.wait = TRUE])
                 ELSE Exit("error", [s EXCEPT !.ack = <<r.last>>]) /\ UNCHANGED inq
  /\ UNCHANGED <<posting, tasks, lpc, idle, picked, own, fed, stop, dups, server, locCh, asked, env>>

(* every listener has taken the status                                          *)
FedCompleted ==
  /\ sess.pc = "feed"
  /\ fed' = "COMPLETED"
  /\ Exit("end", sess)
  /\ UNCHANGED <<posting, tasks, lpc, idle, picked, lastSYS, own, posted, stop, dups, server, net, env>>

Resend(p) ==
  /\ UnderWay(p) => connects + dups < MaxTrouble
  /\ dups' = IF UnderWay(p) THEN dups + 1 ELSE dups

LastRequest == IF sess.ack = << >> THEN [ts |-> sess.fork, idx |-> 0] ELSE sess.ack[1]

(* slip: one retry too many                                                    *)
WaitTimeoutOnce ==
  /\ sess.pc = "select" /\ sess.wait
  /\ LET s == [sess EXCEPT !.retry = @ + 1]
     IN  \/ sess.retry > MaxRetry /\ Exit("timeout", sess) /\ UNCHANGED <<inq, dups>>
         \/ /\ sess.retry <= MaxRetry /\ Alive /\ Resend(sess.peer)
            /\ SendTo(sess.peer, LastRequest) /\ Continue([s EXCEPT !.clean = FALSE])
         \/ sess.retry <= MaxRetry /\ ~Alive /\ Exit("error", s) /\ UNCHANGED <<inq, dups>>
  /\ UNCHANGED <<posting, tasks, lpc, idle, picked, lastSYS, own, posted, fed, stop, server, locCh, resCh, asked, env>>

(* the answer is late: ask again, at most MaxRetry times in a row              *)
WaitTimeout ==
  /\ sess.pc = "select" /\ sess.wait
  /\ LET s == [sess EXCEPT !.retry = @ + 1]
     IN  \/ sess.retry >= MaxRetry /\ Exit("timeout", sess) /\ UNCHANGED <<inq, dups>>
         \/ /\ sess.retry < MaxRetry /\ Alive /\ Resend(sess.peer)
            /\ SendTo(sess.peer, LastRequest) /\ Continue([s EXCEPT !.clean = FALSE])
         \/ sess.retry < MaxRetry /\ ~Alive /\ Exit("error", s) /\ UNCHANGED <<inq, dups>>
  /\ UNCHANGED <<posting, tasks, lpc, idle, picked, lastSYS, own, posted, fed, stop, server, locCh, resCh, asked, env>>

(* slip: retries are not counted                                               *)
LocatorTimeoutForever ==
  /\ sess.pc = "select" /\ sess.ticker
  /\ IF Alive THEN Resend(sess.peer) /\ asked' = [asked EXCEPT ![sess.peer] = @ + 1] ELSE UNCHANGED <<asked, dups>>
  /\ Continue([sess EXCEPT !.clean = @ /\ dups' = dups])
  /\ UNCHANGED <<posting, tasks, lpc, idle, picked, lastSYS, own, posted, fed, stop, server, locCh, resCh, inq, env>>

(* the locator is late; a failing send is not noticed                           *)
LocatorTimeout ==
  /\ sess.pc = "select" /\ sess.ticker
  /\ \/ sess.retryGetlocator >= MaxRetry /\ Exit("timeout", sess) /\ UNCHANGED <<asked, dups>>
     \/ /\ sess.retryGetlocator < MaxRetry
        /\ IF Alive THEN Resend(sess.peer) /\ asked' = [asked EXCEPT ![sess.peer] = @ + 1] ELSE UNCHANGED <<asked, dups>>
        /\ Continue([sess EXCEPT !.retryGetlocator = @ + 1, !.clean = @ /\ dups' = dups])
  /\ UNCHANGED <<posting, tasks, lpc, idle, picked, lastSYS, own, posted, fed, stop, server, locCh, resCh, inq, env>>

-----------------------------------------------------------------------------
(* Stop: quitCh, cancelCh, then the fetcher and the relayer                     *)

StopCall ==
  /\ stop = "run"
  /\ stop' = "quit"
  /\ UNCHANGED <<posting, tasks, lpc, idle, picked, syncing, sess, lastSYS, own, posted, fed, dups, last, server, net, env>>

(* either the session or a goroutine that delivers an answer takes the cancel   *)
CancelSession ==
  /\ stop = "cancel" /\ sess.pc = "select"
  /\ stop' = "fetcher"
  /\ Exit("cancel", sess)
  /\ UNCHANGED <<posting, tasks, lpc, idle, picked, lastSYS, own, posted, fed, dups, server, net, env>>

(* deliverResponse: into the channel, unless it takes the cancel                *)
Deliver(ch, x) ==
  \/ ch' = Append(ch, x) /\ UNCHANGED stop
  \/ stop = "cancel" /\ stop' = "fetcher" /\ UNCHANGED ch

-----------------------------------------------------------------------------
(* A peer as server                                                            *)

(* number of p's MainTail, and the samples of the loop below it: steps of        *)
(* 2, 4, 8 ..., then genesis; a number without a main block is left out          *)
TailNumber(p) == Max({n \in DOMAIN Main[p] : Main[p][n].slice <= tail[p]})
Sampled(numberEnd) == {n \in 1 .. numberEnd : \E i \in 1 .. numberEnd : n + 2 ^ i = numberEnd + 2} \cup {0}
Samples(p) == {[number |-> n, hash |-> Main[p][n].hash] : n \in Sampled(TailNumber(p)) \cap DOMAIN Main[p]}

LocatorReply(p) ==
  /\ asked[p] > 0
  /\ asked' = [asked EXCEPT ![p] = @ - 1]
  /\ Deliver(locCh, Samples(p))
  /\ UNCHANGED <<posting, tasks, lpc, idle, picked, syncing, sess, lastSYS, own, posted, fed, dups, last, server, resCh, inq, env>>

(* a worker takes the head of syncreqCh or of blockresAckCh and reads the end of  *)
(* the main chain                                                               *)
TakeRequest(p, i) ==
  /\ inq' = [inq EXCEPT ![p] = RemoveAt(@, i)]
  /\ reading' = [reading EXCEPT ![p] = Append(@, [pt |-> inq[p][i], end |-> tail[p]])]
  /\ UNCHANGED <<client, packing, sending, cache, locCh, resCh, asked, env>>

(* then, under cachelock, it reads sliceCache                                    *)
ReadCache(p, i) ==
  LET job == reading[p][i]
  IN  /\ reading' = [reading EXCEPT ![p] = RemoveAt(@, i)]
      /\ packing' = [packing EXCEPT ![p] = Append(@, [pt |-> job.pt, cache |-> cache[p], end |-> job.end])]
      /\ UNCHANGED <<client, sending, cache, net, env>>

Size(p, s) == IF s \in DOMAIN Count[p] THEN Count[p][s] ELSE 0

(* slip: starts one too far                                                    *)
RestSkipsOne(p, pt, cached) ==
  IF cached = pt.ts THEN {i \in 0 .. Size(p, pt.ts) - 1 : pt.idx + 1 < i /\ i <= pt.idx + Cap} ELSE {}

(* indices of the rest of a slice that the last batch cut                       *)
Rest(p, pt, cached) ==
  IF cached = pt.ts THEN {i \in 0 .. Size(p, pt.ts) - 1 : pt.idx < i /\ i <= pt.idx + Cap} ELSE {}

(* blocks of p in the slices up to s                                           *)
Upto == [p \in Peers |-> [s \in 0 .. Now + 1 |-> SumFunctionOnSet([t \in 0 .. s |-> Size(p, t)], 0 .. s)]]

(* handleSYNCBlockResponseACK: rest of the cut slice, then slice after slice up  *)
(* to one past the end of the main chain, until the batch is full; the last      *)
(* slice may be cut. Before: blocks packed when slice s is reached               *)
Before(p, ts, rest, s) == Cardinality(rest) + Upto[p][s - 1] - Upto[p][ts]
Open(p, ts, end, rest) == {s \in ts + 1 .. end + 1 : Before(p, ts, rest, s) < Cap}

Batch(p, pt, end, rest, open) ==
  LET endTimeslice == Max({pt.ts} \cup open)
      room(s) == Cap - Before(p, pt.ts, rest, s)
      cut == open # {} /\ Size(p, endTimeslice) > room(endTimeslice)
      remain == cut \/ (rest # {} /\ Max(rest) < Size(p, pt.ts) - 1)
      full == {s \in open : Size(p, s) > 0}
      top == Max(full \cup IF rest = {} THEN {0} ELSE {pt.ts})
  IN  [blocks |-> {<<p, pt.ts, i>> : i \in rest} \cup
                  UNION {{<<p, s, i>> : i \in 0 .. Min({Size(p, s), room(s)}) - 1} : s \in full},
       last |-> [ts |-> top, idx |-> CASE top \in full -> Min({Size(p, top), room(top)}) - 1
                                       [] top \notin full /\ rest # {} -> Max(rest)
                                       [] OTHER -> 0],
       end |-> endTimeslice >= end /\ ~remain,
       cut |-> IF cut THEN endTimeslice ELSE 0]

Pack(p, i) ==
  LET job == packing[p][i]
  IN  \E rest \in {Rest(p, job.pt, job.cache)} : \E open \in {Open(p, job.pt.ts, job.end, rest)} :
      \E r \in {Batch(p, job.pt, job.end, rest, open)} :
         /\ packing' = [packing EXCEPT ![p] = RemoveAt(@, i)]
         /\ sending' = [sending EXCEPT ![p] = Append(@, r)]
         /\ cache' = IF r.cut > 0 THEN [cache EXCEPT ![p] = r.cut] ELSE cache
         /\ UNCHANGED <<client, reading, net, env>>

SendBatch(p, i) ==
  /\ sending' = [sending EXCEPT ![p] = RemoveAt(@, i)]
  /\ IF p \in connected THEN Deliver(resCh, sending[p][i]) ELSE UNCHANGED <<resCh, stop>>
  /\ UNCHANGED <<posting, tasks, lpc, idle, picked, syncing, sess, lastSYS, own, posted, fed, dups, last, reading, packing, cache, locCh, asked, inq, env>>

-----------------------------------------------------------------------------
LoopStep == TakeDone \/ Tick \/ TakeQuit \/ ScheduleNothing \/ FedSyncing
            \/ \E p \in Peers : TakeTask(p) \/ ScheduleStart(p) \/ ScheduleDrop(p)
SessionStep == ClearFlag \/ SendGetlocator \/ LocatorResponse \/ BlockResponse \/ FedCompleted
               \/ WaitTimeout \/ LocatorTimeout \/ CancelSession
ServerStep(p) == LocatorReply(p)
                 \/ (\E i \in DOMAIN inq[p] : TakeRequest(p, i)) \/ (\E i \in DOMAIN reading[p] : ReadCache(p, i))
                 \/ (\E i \in DOMAIN packing[p] : Pack(p, i)) \/ (\E i \in DOMAIN sending[p] : SendBatch(p, i))

Next ==
  \/ LoopStep \/ SessionStep \/ StopCall
  \/ \E p \in Peers : ServerStep(p) \/ Connect(p) \/ Disconnect(p) \/ Grow(p)
  \/ \E s \in Genesis .. Now : Adopt(s)

(* goroutines run, timers fire, peers answer, the listeners of netFeed take what  *)
(* is sent; the loop's select is fair to done                                   *)
Fairness ==
  /\ WF_vars(LoopStep) /\ SF_vars(TakeDone) /\ \A p \in Peers : SF_vars(TakeTask(p))
  /\ WF_vars(SessionStep)
  /\ \A p \in Peers : WF_vars(ServerStep(p))

Spec == Init /\ [][Next]_vars /\ Fairness

-----------------------------------------------------------------------------
(* Every variable stays in its set.                                            *)
Response == [blocks : SUBSET Blocks, last : Points, end : BOOLEAN, cut : Slices]
Session == [pc : {"off", "start", "select", "feed", "done", "flag"}, peer : Peers, conn : 0 .. MaxTrouble, goal : Slices, fork : Slices,
            ack : Seq(Points), retry : 0 .. MaxRetry, retryGetlocator : 0 .. MaxRetry,
            ticker : BOOLEAN, wait : BOOLEAN, fresh : BOOLEAN, clean : BOOLEAN]
TypeOK ==
  /\ link \in [Peers -> 0 .. MaxTrouble] /\ lpc \in {"schedule", "feed", "select", "off"}
  /\ {idle, syncing} \subseteq BOOLEAN /\ dups \in 0 .. MaxTrouble
  /\ sess \in Session /\ lastSYS \in Slices /\ own \in Slices
  /\ \A p \in Peers : tail[p] \in Slices /\ tasks[p] \in Slices /\ posting[p] \in Slices /\ cache[p] \in Slices
  /\ \A p \in Peers : \A i \in DOMAIN sending[p] : sending[p][i] \in Response

(* The loop never throws away an answer a session is waiting for, and never     *)
(* starts a session while another one is not finished with the shared flag:      *)
(* idle and syncing are written by two goroutines (loop, clear).                *)
OneSession ==
  /\ syncing <=> sess.pc # "off"
  /\ idle => sess.pc \in {"off", "flag"}

Wanted(s) == UNION {Held(s.peer, t) : t \in s.fork + 1 .. s.goal}
Missing(s) == Wanted(s) \ posted

(* A session over one connection that found nothing left of an earlier one and   *)
(* ends regularly has posted every block the peer held between the fork and the   *)
(* end of its main chain at the start of the session, timers that fire early      *)
(* included (handleSYNCBlockResponseACK and handleSYNCBlockResponse).            *)
EndIsComplete == last.how = "end" /\ last.fresh => Missing(last) = {}

(* The same for a session that repeated neither a request for the locator whose   *)
(* answer was on its way nor a request for blocks: the peer overwrites            *)
(* sliceCache when it packs an answer, not when the answer is acknowledged.       *)
CleanEndIsComplete == last.how = "end" /\ last.clean => Missing(last) = {}

(* A session ends: a peer that is slow, lost or repeats itself cannot hold it    *)
(* (the listeners of netFeed could: that they take what is sent is assumed).      *)
SessionEnds == sess.pc \in {"start", "select", "feed"} ~> sess.pc \in {"done", "flag", "off"}

(* A task is taken up, unless the pool has not caught up with what earlier       *)
(* sessions delivered or the node is up to date.                                *)
TaskTakenUp ==
  \A p \in Peers : tasks[p] > 0 ~> \/ tasks[p] = 0 \/ own < lastSYS \/ own >= Now \/ stop # "run"
=============================================================================
