---------------------------- MODULE FetcherProofs ----------------------------
(***************************************************************************)
(* Proofs about Fetcher, for any peers, hashes, workers and limits: types,    *)
(* and that no request is forgotten. A step may take a request from where it   *)
(* is only by putting it somewhere else, or by settling it: handing the block to  *)
(* the pool or giving the request up (KeptBut); the worker that holds it between  *)
(* two locks counts as a place.                                               *)
(***************************************************************************)
EXTENDS Fetcher, FiniteSetTheorems, TLAPS

Tasks == [nodes : SUBSET Peers, orphan : BOOLEAN]
Posts == [hash : Hashes, orphan : BOOLEAN]
Selecting == [at : {"select"}, hash : Hashes, orphan : BOOLEAN]
Marking == [at : {"mark"}, hash : Hashes, orphan : BOOLEAN, nodes : SUBSET Peers]
Posting == [at : {"post"}, peer : Peers, hash : Hashes, orphan : BOOLEAN]

(* TypeOK by parts, with the map of the timer, of which only DetectTimeout and        *)
(* ReportTimeout know.                                                             *)
AnnounceType ==
  /\ peers \subseteq Peers /\ announces \in 0 .. MaxAnnounces /\ asks \in 0 .. MaxAsks
  /\ announced \in [Hashes -> SUBSET Peers] /\ entries \subseteq Hashes /\ count \in [Peers -> 0 .. AnnounceLimit]
QueueType ==
  /\ annQ \in Seq(Hashes) /\ reqCh \in Seq(Hashes) /\ reqOrphanCh \in Seq(Hashes)
  /\ wire \subseteq Messages /\ resCh \in Seq(Messages)
  /\ posts \in Seq(Posts) /\ known \subseteq Hashes /\ isolated \subseteq Hashes /\ relays \subseteq Hashes
FlightType == \A h \in DOMAIN flighting : h \in Hashes /\ flighting[h] \in Tasks
WorkType == work \in [Workers -> Working]
ExpiredType == \A h \in DOMAIN expired : h \in Hashes /\ expired[h] \subseteq Peers

Types == AnnounceType /\ QueueType /\ FlightType /\ WorkType /\ ExpiredType
Accounted == settled \subseteq Hashes /\ NoRequestForgotten
IInv == Types /\ Accounted

(* Where a request can be, one by one.                                             *)
Queued(h) == h \in ToSet(annQ) \/ h \in ToSet(reqCh) \/ h \in ToSet(reqOrphanCh)
Worked(h) == \E w \in Workers : work[w].at # "idle" /\ work[w].hash = h
Mapped(h) == h \in DOMAIN flighting \/ h \in DOMAIN expired
Posted(h) == \E m \in ToSet(posts) : m.hash = h

(* A step ends no request but those for S.                                          *)
KeptBut(S) == \A h \in Hashes : Open(h) => Open(h)' \/ h \in S
-----------------------------------------------------------------------------
(* Sequences, workers and maps                                                  *)

LEMMA AppendSet ==
  ASSUME NEW S, NEW q \in Seq(S), NEW x \in S
  PROVE  Append(q, x) \in Seq(S) /\ ToSet(Append(q, x)) = ToSet(q) \cup {x}
  <1>1. /\ Append(q, x) \in Seq(S) /\ Len(Append(q, x)) = Len(q) + 1 /\ Len(q) \in Nat
        /\ \A i \in 1 .. Len(q) : Append(q, x)[i] = q[i]
        /\ Append(q, x)[Len(q) + 1] = x
        /\ DOMAIN q = 1 .. Len(q) /\ DOMAIN Append(q, x) = 1 .. Len(q) + 1
    OBVIOUS
  <1>2. \A i \in DOMAIN Append(q, x) : i \in DOMAIN q \/ i = Len(q) + 1
    BY <1>1
  <1>3. \A i \in DOMAIN q : i \in DOMAIN Append(q, x)
    BY <1>1
  <1>4. Len(q) + 1 \in DOMAIN Append(q, x)
    BY <1>1
  <1> QED
    BY <1>1, <1>2, <1>3, <1>4 DEF ToSet

LEMMA TailSet ==
  ASSUME NEW S, NEW q \in Seq(S), q # << >>
  PROVE  /\ Head(q) \in S /\ Tail(q) \in Seq(S)
         /\ ToSet(q) = {Head(q)} \cup ToSet(Tail(q))
  <1>1. Head(q) \in S /\ Tail(q) \in Seq(S) /\ Len(q) \in Nat \ {0} /\ Len(Tail(q)) = Len(q) - 1 /\ Head(q) = q[1]
    OBVIOUS
  <1>2. ASSUME NEW i \in DOMAIN q, i # 1 PROVE q[i] \in ToSet(Tail(q))
    <2>1. i - 1 \in DOMAIN Tail(q) /\ Tail(q)[i - 1] = q[i]
      BY <1>1, <1>2
    <2> QED
      BY <2>1 DEF ToSet
  <1>3. ASSUME NEW i \in DOMAIN Tail(q) PROVE Tail(q)[i] \in ToSet(q)
    <2>1. i + 1 \in DOMAIN q /\ Tail(q)[i] = q[i + 1]
      BY <1>1, <1>3
    <2> QED
      BY <2>1 DEF ToSet
  <1>4. 1 \in DOMAIN q
    BY <1>1
  <1> QED
    BY <1>1, <1>2, <1>3, <1>4 DEF ToSet

LEMMA WorkCases ==
  ASSUME NEW r \in Working
  PROVE  /\ r.at \in {"idle", "select", "mark", "post"}
         /\ r.at = "select" => r \in Selecting
         /\ r.at = "mark" => r \in Marking
         /\ r.at = "post" => r \in Posting
  BY DEF Working, Selecting, Marking, Posting

LEMMA OpenSplits ==
  ASSUME NEW h
  PROVE  /\ Open(h) <=> Queued(h) \/ Worked(h) \/ Mapped(h) \/ Posted(h)
         /\ Open(h)' <=> (Queued(h) \/ Worked(h) \/ Mapped(h) \/ Posted(h))'
  BY DEF Open, Queued, Worked, Mapped, Posted, ToSet

LEMMA TypesOK == IInv => TypeOK
  BY DEF IInv, Accounted, Types, TypeOK, AnnounceType, QueueType, FlightType, WorkType, Tasks, Posts

LEMMA InitInv == Init => IInv
  <1> SUFFICES ASSUME Init PROVE IInv
    OBVIOUS
  <1> USE DEF Init
  <1>1. AnnounceType
    BY FetcherAssumption DEF AnnounceType
  <1>2. QueueType
    BY DEF QueueType
  <1>3. FlightType /\ ExpiredType
    BY DEF FlightType, ExpiredType, NoTasks
  <1>4. WorkType
    BY DEF WorkType, Working, Idle
  <1> QED
    BY <1>1, <1>2, <1>3, <1>4 DEF IInv, Types, Accounted, NoRequestForgotten

(* Nothing is forgotten by a step that settles the requests it ends.                  *)
LEMMA SettlesKeeps ==
  ASSUME IInv, NEW S \in SUBSET Hashes, KeptBut(S), Settles(S)
  PROVE  Accounted'
  <1>1. settled' = {h \in settled \cup S : ~Open(h)'}
    BY DEF Settles
  <1>2. ASSUME NEW h \in Hashes PROVE h \in settled' \/ Open(h)'
    <2>1. h \in settled \/ Open(h)
      BY DEF IInv, Accounted, NoRequestForgotten
    <2> QED
      BY <1>1, <2>1 DEF KeptBut
  <1>3. settled' \subseteq Hashes
    BY <1>1 DEF IInv, Accounted
  <1> QED
    BY <1>2, <1>3 DEF Accounted, NoRequestForgotten

LEMMA UnsettledKeeps ==
  ASSUME IInv, KeptBut({}), UNCHANGED settled
  PROVE  Accounted'
  BY DEF IInv, Accounted, NoRequestForgotten, KeptBut
-----------------------------------------------------------------------------
LEMMA AnnounceKeeps ==
  ASSUME IInv, NEW p \in Peers, NEW h \in Hashes, Announce(p, h)
  PROVE  IInv'
  <1> USE DEF IInv, Types
  <1>1. AnnounceType'
    BY FetcherAssumption DEF AnnounceType, Announce
  <1>2. annQ' \in Seq(Hashes) /\ ToSet(annQ') = ToSet(annQ) \cup {h}
    BY AppendSet DEF Announce, QueueType
  <1>3. QueueType' /\ FlightType' /\ WorkType' /\ ExpiredType'
    BY <1>2 DEF Announce, QueueType, FlightType, WorkType, ExpiredType, pool
  <1>4. \A g : /\ (Queued(g) => Queued(g)') /\ (Worked(g) => Worked(g)')
               /\ (Mapped(g) => Mapped(g)') /\ (Posted(g) => Posted(g)')
    BY <1>2 DEF Queued, Worked, Mapped, Posted, Announce
  <1>5. KeptBut({}) /\ Settles({})
    BY <1>4, OpenSplits DEF KeptBut, Announce
  <1> QED
    BY <1>1, <1>3, <1>5, SettlesKeeps

(* The connection of a peer ends: nothing but peers and wire changes.                *)
LEMMA GoneKeeps ==
  ASSUME IInv, NEW p \in Peers, Refuse(p) \/ Leave(p)
  PROVE  IInv'
  <1> USE DEF IInv, Types
  <1>1. /\ peers' = peers \ {p} /\ wire' \subseteq wire /\ announces' \in 0 .. MaxAnnounces
        /\ UNCHANGED <<asks, announced, entries, count, annQ, reqCh, reqOrphanCh, resCh, posts, relays, flighting, work,
                       expired, known, isolated, settled>>
    BY FetcherAssumption DEF Refuse, Leave, announcing, bounds, pool, histories, AnnounceType
  <1>2. AnnounceType' /\ QueueType'
    BY <1>1 DEF AnnounceType, QueueType
  <1>3. FlightType' /\ WorkType' /\ ExpiredType'
    BY <1>1 DEF FlightType, WorkType, ExpiredType
  <1>4. Accounted'
    BY <1>1 DEF Accounted, NoRequestForgotten, Open
  <1> QED
    BY <1>2, <1>3, <1>4

(* The same for the steps that touch neither a place of a request nor a map.          *)
LEMMA ElsewhereKeeps ==
  ASSUME IInv, \/ \E h \in Hashes : PoolRelease(h) \/ Relay(h)
               \/ \E m \in wire : Answer(m) \/ NoAnswer(m)
  PROVE  IInv'
  <1> USE DEF IInv, Types
  <1>1. UNCHANGED <<peers, announces, asks, announced, entries, count, annQ, reqCh, reqOrphanCh, posts, flighting, work, expired, settled>>
    BY DEF PoolRelease, Relay, Answer, NoAnswer, announcing, bounds, queues, histories
  <1>2. wire' \subseteq Messages /\ relays' \subseteq Hashes
    BY DEF PoolRelease, Relay, Answer, NoAnswer, queues, QueueType
  <1>3. known' \subseteq Hashes /\ isolated' \subseteq Hashes
    BY DEF PoolRelease, Relay, Answer, NoAnswer, pool, QueueType
  <1>4. resCh' \in Seq(Messages)
    <2>1. ASSUME NEW m \in wire, Answer(m) PROVE resCh' \in Seq(Messages)
      BY <2>1, AppendSet DEF Answer, QueueType
    <2> QED
      BY <2>1 DEF PoolRelease, Relay, NoAnswer, queues, QueueType
  <1>5. AnnounceType' /\ QueueType'
    BY <1>1, <1>2, <1>3, <1>4 DEF AnnounceType, QueueType
  <1>6. FlightType' /\ WorkType' /\ ExpiredType'
    BY <1>1 DEF FlightType, WorkType, ExpiredType
  <1>7. Accounted'
    BY <1>1 DEF Accounted, NoRequestForgotten, Open
  <1> QED
    BY <1>5, <1>6, <1>7

LEMMA PoolAskIsolatedKeeps ==
  ASSUME IInv, NEW h \in Hashes, PoolAskIsolated(h)
  PROVE  IInv'
  <1> USE DEF IInv, Types
  <1>1. UNCHANGED <<peers, announces, announced, entries, count, annQ, reqCh, wire, resCh, posts, relays, flighting, work,
                    expired, known, isolated>>
    BY DEF PoolAskIsolated, announcing, pool
  <1>2. asks' \in 0 .. MaxAsks
    BY FetcherAssumption DEF PoolAskIsolated, AnnounceType
  <1>3. reqOrphanCh' \in Seq(Hashes) /\ ToSet(reqOrphanCh') = ToSet(reqOrphanCh) \cup {h}
    BY AppendSet DEF PoolAskIsolated, QueueType
  <1>4. AnnounceType' /\ QueueType'
    BY <1>1, <1>2, <1>3 DEF AnnounceType, QueueType
  <1>5. FlightType' /\ WorkType' /\ ExpiredType'
    BY <1>1 DEF FlightType, WorkType, ExpiredType
  <1>6. \A g : /\ (Queued(g) => Queued(g)') /\ (Worked(g) => Worked(g)')
               /\ (Mapped(g) => Mapped(g)') /\ (Posted(g) => Posted(g)')
    BY <1>1, <1>3 DEF Queued, Worked, Mapped, Posted
  <1>7. KeptBut({}) /\ Settles({})
    BY <1>6, OpenSplits DEF KeptBut, PoolAskIsolated
  <1> QED
    BY <1>4, <1>5, <1>7, SettlesKeeps

(* An announced hash goes from the events to the queue, or is given up.                *)
LEMMA PoolAskKeeps ==
  ASSUME IInv, PoolAsk
  PROVE  IInv'
  <1> USE DEF IInv, Types
  <1> DEFINE h == Head(annQ)
  <1>1. h \in Hashes /\ annQ' \in Seq(Hashes) /\ ToSet(annQ) = {h} \cup ToSet(annQ')
    BY TailSet DEF PoolAsk, QueueType
  <1>2. /\ reqCh' \in Seq(Hashes) /\ ToSet(reqCh) \subseteq ToSet(reqCh')
        /\ Settles({h}) \/ (Settles({}) /\ h \in ToSet(reqCh'))
    <2>1. ASSUME reqCh' = Append(reqCh, h) PROVE reqCh' \in Seq(Hashes) /\ ToSet(reqCh') = ToSet(reqCh) \cup {h}
      BY <1>1, <2>1, AppendSet DEF QueueType
    <2> QED
      BY <2>1 DEF PoolAsk, QueueType
  <1>3. UNCHANGED <<peers, announces, asks, announced, entries, count, reqOrphanCh, wire, resCh, posts, relays, flighting,
                    work, expired, known, isolated>>
    BY DEF PoolAsk, announcing, bounds, pool
  <1>4. AnnounceType' /\ QueueType'
    BY <1>1, <1>2, <1>3 DEF AnnounceType, QueueType
  <1>5. FlightType' /\ WorkType' /\ ExpiredType'
    BY <1>3 DEF FlightType, WorkType, ExpiredType
  <1>6. \A g : /\ Queued(g) => Queued(g)' \/ (g = h /\ h \notin ToSet(reqCh'))
               /\ (Worked(g) => Worked(g)') /\ (Mapped(g) => Mapped(g)') /\ (Posted(g) => Posted(g)')
    BY <1>1, <1>2, <1>3 DEF Queued, Worked, Mapped, Posted
  <1> HIDE DEF h
  <1>7. KeptBut({h}) /\ (h \in ToSet(reqCh') => KeptBut({}))
    BY <1>6, OpenSplits DEF KeptBut
  <1>8. Accounted'
    <2>1. {h} \in SUBSET Hashes /\ {} \in SUBSET Hashes
      BY <1>1
    <2> QED
      BY <1>2, <1>7, <2>1, SettlesKeeps
  <1> QED
    BY <1>4, <1>5, <1>8

(* A request is dropped only when the hash is in flight already.                       *)
LEMMA TakeRequestKeeps ==
  ASSUME IInv, NEW w \in Workers, NEW orphan \in BOOLEAN, TakeRequest(w, orphan)
  PROVE  IInv'
  <1> USE DEF IInv, Types
  <1> DEFINE q == IF orphan THEN reqOrphanCh ELSE reqCh
             h == Head(q)
  <1>1. q \in Seq(Hashes) /\ q # << >> /\ work[w].at = "idle"
    BY DEF TakeRequest, QueueType
  <1>2. h \in Hashes /\ Tail(q) \in Seq(Hashes) /\ ToSet(q) = {h} \cup ToSet(Tail(q))
    BY <1>1, TailSet
  <1>3. UNCHANGED <<peers, announces, asks, announced, entries, count, annQ, wire, resCh, posts, relays, flighting, expired,
                    known, isolated, settled>>
    BY DEF TakeRequest, announcing, bounds, pool, histories
  <1>4. /\ reqOrphanCh' \in Seq(Hashes) /\ reqCh' \in Seq(Hashes)
        /\ ToSet(reqCh) \subseteq ToSet(reqCh') \cup {h} /\ ToSet(reqOrphanCh) \subseteq ToSet(reqOrphanCh') \cup {h}
    <2>1. CASE orphan
      BY <1>2, <2>1 DEF TakeRequest, QueueType
    <2>2. CASE ~orphan
      BY <1>2, <2>2 DEF TakeRequest, QueueType
    <2> QED
      BY <2>1, <2>2
  <1>5. /\ WorkType'
        /\ \A v \in Workers : v # w => work'[v] = work[v]
        /\ h \in DOMAIN flighting \/ (work'[w].at # "idle" /\ work'[w].hash = h)
    <2>1. CASE h \in DOMAIN flighting
      BY <2>1 DEF TakeRequest, WorkType
    <2>2. CASE h \notin DOMAIN flighting
      <3> DEFINE r == [at |-> "select", hash |-> h, orphan |-> orphan]
      <3>1. work' = [work EXCEPT ![w] = r]
        BY <2>2 DEF TakeRequest
      <3>2. r \in Working
        BY <1>2 DEF Working
      <3>3. r.at = "select" /\ r.hash = h
        OBVIOUS
      <3> HIDE DEF r
      <3> QED
        BY <3>1, <3>2, <3>3 DEF WorkType
    <2> QED
      BY <2>1, <2>2
  <1> HIDE DEF h, q
  <1>6. AnnounceType' /\ QueueType' /\ FlightType' /\ ExpiredType'
    BY <1>3, <1>4 DEF AnnounceType, QueueType, FlightType, ExpiredType
  <1>7. \A g : Worked(g) => Worked(g)'
    BY <1>1, <1>5 DEF Worked
  <1>8. \A g : Queued(g) => Queued(g)' \/ Worked(g)' \/ Mapped(g)'
    BY <1>3, <1>4, <1>5 DEF Queued, Worked, Mapped
  <1>9. \A g : (Mapped(g) => Mapped(g)') /\ (Posted(g) => Posted(g)')
    BY <1>3 DEF Mapped, Posted
  <1>10. KeptBut({})
    BY <1>7, <1>8, <1>9, OpenSplits DEF KeptBut
  <1> QED
    BY <1>3, <1>5, <1>6, <1>10, UnsettledKeeps

(* The nodes that are asked are peers.                                             *)
LEMMA OriginsArePeers ==
  ASSUME Types, NEW h \in Hashes, NEW nodes \in Origins(h)
  PROVE  nodes \subseteq Peers
  <1>1. nodes \subseteq peers
    BY DEF Origins
  <1> QED
    BY <1>1 DEF Types, AnnounceType

LEMMA SendRequestsKeeps ==
  ASSUME IInv, NEW w \in Workers, SendRequests(w)
  PROVE  IInv'
  <1> USE DEF IInv, Types
  <1> DEFINE h == work[w].hash
             o == work[w].orphan
  <1>1. work[w] \in Selecting
    BY WorkCases DEF WorkType, SendRequests
  <1>2. h \in Hashes /\ o \in BOOLEAN
    BY <1>1 DEF Selecting
  <1>3. PICK nodes \in Origins(h) :
          \/ nodes = {} /\ work' = [work EXCEPT ![w] = Idle] /\ UNCHANGED wire /\ Settles({h})
          \/ /\ wire' = wire \cup {[peer |-> p, hash |-> h] : p \in nodes} /\ UNCHANGED settled
             /\ work' = [work EXCEPT ![w] = [at |-> "mark", hash |-> h, orphan |-> o, nodes |-> nodes]]
    BY DEF SendRequests
  <1>4. nodes \subseteq Peers
    BY <1>2, <1>3, OriginsArePeers
  <1>5. UNCHANGED <<peers, announces, asks, announced, entries, count, annQ, reqCh, reqOrphanCh, resCh, posts, relays,
                    flighting, expired, known, isolated>>
    BY DEF SendRequests, announcing, bounds, pool
  <1>6. wire' \subseteq Messages
    BY <1>2, <1>3, <1>4 DEF QueueType, Messages
  <1>7. /\ WorkType'
        /\ \A v \in Workers : v # w => work'[v] = work[v]
        /\ Settles({h}) \/ (UNCHANGED settled /\ work'[w].at # "idle" /\ work'[w].hash = h)
    <2>1. CASE work' = [work EXCEPT ![w] = Idle] /\ Settles({h})
      <3>1. Idle \in Working
        BY DEF Idle, Working
      <3> QED
        BY <2>1, <3>1 DEF WorkType
    <2>2. CASE work' = [work EXCEPT ![w] = [at |-> "mark", hash |-> h, orphan |-> o, nodes |-> nodes]] /\ UNCHANGED settled
      <3> DEFINE r == [at |-> "mark", hash |-> h, orphan |-> o, nodes |-> nodes]
      <3>1. r \in Working
        BY <1>2, <1>4 DEF Working
      <3>2. r.at = "mark" /\ r.hash = h
        OBVIOUS
      <3>3. work' = [work EXCEPT ![w] = r]
        BY <2>2
      <3> HIDE DEF r
      <3> QED
        BY <2>2, <3>1, <3>2, <3>3 DEF WorkType
    <2> QED
      BY <1>3, <2>1, <2>2
  <1>8. AnnounceType' /\ QueueType' /\ FlightType' /\ ExpiredType'
    BY <1>5, <1>6 DEF AnnounceType, QueueType, FlightType, ExpiredType
  <1>9. \A g : Worked(g) => Worked(g)' \/ (g = h /\ ~(work'[w].at # "idle" /\ work'[w].hash = h))
    BY <1>7 DEF Worked
  <1>10. \A g : (Queued(g) => Queued(g)') /\ (Mapped(g) => Mapped(g)') /\ (Posted(g) => Posted(g)')
    BY <1>5 DEF Queued, Mapped, Posted
  <1> HIDE DEF h
  <1>11. KeptBut({h}) /\ (work'[w].at # "idle" /\ work'[w].hash = h => KeptBut({}))
    BY <1>9, <1>10, OpenSplits DEF KeptBut
  <1>12. Accounted'
    <2>1. {h} \in SUBSET Hashes
      BY <1>2
    <2> QED
      BY <1>7, <1>11, <2>1, SettlesKeeps, UnsettledKeeps
  <1> QED
    BY <1>7, <1>8, <1>12

LEMMA MarkKeeps ==
  ASSUME IInv, NEW w \in Workers, Mark(w)
  PROVE  IInv'
  <1> USE DEF IInv, Types
  <1> DEFINE h == work[w].hash
             task == [nodes |-> work[w].nodes, orphan |-> work[w].orphan]
  <1>1. work[w] \in Marking
    BY WorkCases DEF WorkType, Mark
  <1>2. h \in Hashes /\ task \in Tasks
    BY <1>1 DEF Marking, Tasks
  <1>3. /\ flighting' = [g \in DOMAIN flighting \cup {h} |-> IF g = h THEN task ELSE flighting[g]]
        /\ work' = [work EXCEPT ![w] = Idle]
    BY DEF Mark
  <1>4. UNCHANGED <<peers, announces, asks, announced, entries, count, annQ, reqCh, reqOrphanCh, wire, resCh, posts, relays,
                    expired, known, isolated, settled>>
    BY DEF Mark, announcing, bounds, queues, pool, histories
  <1> HIDE DEF h, task
  <1>5. FlightType' /\ DOMAIN flighting' = DOMAIN flighting \cup {h}
    BY <1>2, <1>3 DEF FlightType
  <1>6. WorkType' /\ \A v \in Workers : v # w => work'[v] = work[v]
    <2>1. Idle \in Working
      BY DEF Idle, Working
    <2> QED
      BY <1>3, <2>1 DEF WorkType
  <1>7. AnnounceType' /\ QueueType' /\ ExpiredType'
    BY <1>4 DEF AnnounceType, QueueType, ExpiredType
  <1>8. \A g : Worked(g) => Worked(g)' \/ Mapped(g)'
    BY <1>5, <1>6 DEF Worked, Mapped, h
  <1>9. \A g : (Queued(g) => Queued(g)') /\ (Mapped(g) => Mapped(g)') /\ (Posted(g) => Posted(g)')
    BY <1>4, <1>5 DEF Queued, Mapped, Posted
  <1>10. KeptBut({})
    BY <1>8, <1>9, OpenSplits DEF KeptBut
  <1> QED
    BY <1>4, <1>5, <1>6, <1>7, <1>10, UnsettledKeeps

LEMMA WithoutDomain ==
  ASSUME FlightType, NEW S, flighting' = Without(flighting, S)
  PROVE  FlightType' /\ DOMAIN flighting' = DOMAIN flighting \ S
  BY DEF FlightType, Without

(* The worker that deletes the hash from flighting holds it.                         *)
LEMMA TakeResponseKeeps ==
  ASSUME IInv, NEW w \in Workers, TakeResponse(w)
  PROVE  IInv'
  <1> USE DEF IInv, Types
  <1> DEFINE m == Head(resCh)
             h == m.hash
             r == [at |-> "post", peer |-> m.peer, hash |-> h, orphan |-> flighting[h].orphan]
  <1>1. work[w].at = "idle" /\ m \in Messages /\ resCh' \in Seq(Messages)
    BY TailSet DEF TakeResponse, QueueType
  <1>2. UNCHANGED <<peers, announces, asks, announced, entries, count, annQ, reqCh, reqOrphanCh, wire, posts, relays,
                    expired, known, isolated, settled>>
    BY DEF TakeResponse, announcing, bounds, pool, histories
  <1>3. \/ UNCHANGED <<work, flighting>>
        \/ h \in DOMAIN flighting /\ work' = [work EXCEPT ![w] = r] /\ flighting' = Without(flighting, {h})
    BY DEF TakeResponse
  <1>4. ASSUME h \in DOMAIN flighting PROVE r \in Working
    <2>1. flighting[h] \in Tasks
      BY <1>4 DEF FlightType
    <2>2. flighting[h].orphan \in BOOLEAN
      BY <2>1 DEF Tasks
    <2>3. m.peer \in Peers /\ h \in Hashes
      BY <1>1 DEF Messages
    <2> QED
      BY <2>2, <2>3 DEF Working
  <1>5. r.at = "post" /\ r.hash = h
    OBVIOUS
  <1> HIDE DEF r, h
  <1>6. /\ FlightType' /\ WorkType'
        /\ \A v \in Workers : v # w => work'[v] = work[v]
        /\ work'[w] = work[w] \/ (work'[w].at # "idle" /\ work'[w].hash = h)
        /\ \A g \in DOMAIN flighting : g \in DOMAIN flighting' \/ (g = h /\ work'[w].at # "idle" /\ work'[w].hash = h)
    <2>1. CASE UNCHANGED <<work, flighting>>
      BY <2>1 DEF FlightType, WorkType
    <2>2. CASE h \in DOMAIN flighting /\ work' = [work EXCEPT ![w] = r] /\ flighting' = Without(flighting, {h})
      <3>1. FlightType' /\ DOMAIN flighting' = DOMAIN flighting \ {h}
        BY <2>2, WithoutDomain
      <3> QED
        BY <1>4, <1>5, <2>2, <3>1 DEF WorkType
    <2> QED
      BY <1>3, <2>1, <2>2
  <1>7. AnnounceType' /\ QueueType' /\ ExpiredType'
    BY <1>1, <1>2 DEF AnnounceType, QueueType, ExpiredType
  <1>8. \A g : Worked(g) => Worked(g)'
    BY <1>1, <1>6 DEF Worked
  <1>9. \A g : Mapped(g) => Mapped(g)' \/ Worked(g)'
    BY <1>2, <1>6 DEF Worked, Mapped
  <1>10. \A g : (Queued(g) => Queued(g)') /\ (Posted(g) => Posted(g)')
    BY <1>2 DEF Queued, Posted
  <1>11. KeptBut({})
    BY <1>8, <1>9, <1>10, OpenSplits DEF KeptBut
  <1> QED
    BY <1>2, <1>6, <1>7, <1>11, UnsettledKeeps

LEMMA PostResponseKeeps ==
  ASSUME IInv, NEW w \in Workers, PostResponse(w)
  PROVE  IInv'
  <1> USE DEF IInv, Types
  <1> DEFINE h == work[w].hash
             p == work[w].peer
             o == work[w].orphan
             b == [hash |-> h, orphan |-> o]
  <1>1. work[w] \in Posting
    BY WorkCases DEF WorkType, PostResponse
  <1>2. h \in Hashes /\ p \in Peers /\ b \in Posts /\ b.hash = h
    BY <1>1 DEF Posting, Posts
  <1>3. /\ count' = IF o THEN count ELSE Less(count, p)
        /\ announced' = IF o THEN announced ELSE [announced EXCEPT ![h] = @ \ {p}]
        /\ posts' = Append(posts, b) /\ work' = [work EXCEPT ![w] = Idle]
    BY DEF PostResponse
  <1>4. UNCHANGED <<peers, announces, asks, entries, annQ, reqCh, reqOrphanCh, wire, resCh, relays, flighting, expired,
                    known, isolated, settled>>
    BY DEF PostResponse, bounds, pool, histories
  <1> HIDE DEF b, h, p, o
  <1>5. posts' \in Seq(Posts) /\ ToSet(posts') = ToSet(posts) \cup {b}
    BY <1>2, <1>3, AppendSet DEF QueueType
  <1>6. AnnounceType'
    <2>1. CASE o
      BY <1>3, <1>4, <2>1 DEF AnnounceType
    <2>2. CASE ~o
      <3>1. Less(count, p) \in [Peers -> 0 .. AnnounceLimit]
        BY <1>2, FetcherAssumption DEF AnnounceType, Less
      <3>2. [announced EXCEPT ![h] = @ \ {p}] \in [Hashes -> SUBSET Peers]
        BY <1>2 DEF AnnounceType
      <3> QED
        BY <1>3, <1>4, <2>2, <3>1, <3>2 DEF AnnounceType
    <2> QED
      BY <2>1, <2>2
  <1>7. WorkType' /\ \A v \in Workers : v # w => work'[v] = work[v]
    <2>1. Idle \in Working
      BY DEF Idle, Working
    <2> QED
      BY <1>3, <2>1 DEF WorkType
  <1>8. QueueType' /\ FlightType' /\ ExpiredType'
    BY <1>4, <1>5 DEF QueueType, FlightType, ExpiredType
  <1>9. \A g : Worked(g) => Worked(g)' \/ Posted(g)'
    BY <1>2, <1>5, <1>7 DEF Worked, Posted, h
  <1>10. \A g : (Queued(g) => Queued(g)') /\ (Mapped(g) => Mapped(g)') /\ (Posted(g) => Posted(g)')
    BY <1>4, <1>5 DEF Queued, Mapped, Posted
  <1>11. KeptBut({})
    BY <1>9, <1>10, OpenSplits DEF KeptBut
  <1> QED
    BY <1>4, <1>6, <1>7, <1>8, <1>11, UnsettledKeeps

(* The timer takes hashes from flighting under the lock and reports them later.       *)
LEMMA DetectTimeoutKeeps ==
  ASSUME IInv, NEW S \in SUBSET Hashes, DetectTimeout(S)
  PROVE  IInv'
  <1> USE DEF IInv, Types
  <1>1. UNCHANGED <<peers, announces, asks, announced, entries, count, annQ, reqCh, reqOrphanCh, wire, resCh, posts, relays,
                    work, known, isolated, settled>>
    BY DEF DetectTimeout, announcing, bounds, queues, pool, histories
  <1>2. FlightType' /\ DOMAIN flighting' = DOMAIN flighting \ S
    BY WithoutDomain DEF DetectTimeout
  <1>3. ExpiredType' /\ DOMAIN expired' = S /\ DOMAIN expired = {}
    <2>1. \A h \in S : h \in Hashes /\ flighting[h].nodes \subseteq Peers
      BY DEF FlightType, DetectTimeout, Tasks
    <2> QED
      BY <2>1 DEF DetectTimeout, ExpiredType, NoTasks
  <1>4. AnnounceType' /\ QueueType' /\ WorkType'
    BY <1>1 DEF AnnounceType, QueueType, WorkType
  <1>5. \A g : (Queued(g) => Queued(g)') /\ (Worked(g) => Worked(g)') /\ (Posted(g) => Posted(g)')
    BY <1>1 DEF Queued, Worked, Posted
  <1>6. \A g : Mapped(g) => Mapped(g)'
    BY <1>2, <1>3 DEF Mapped
  <1>7. KeptBut({})
    BY <1>5, <1>6, OpenSplits DEF KeptBut
  <1> QED
    BY <1>1, <1>2, <1>3, <1>4, <1>7, UnsettledKeeps

LEMMA ReportTimeoutKeeps ==
  ASSUME IInv, ReportTimeout
  PROVE  IInv'
  <1> USE DEF IInv, Types
  <1> DEFINE n(p) == Cardinality({h \in DOMAIN expired : p \in expired[h]})
  <1>1. UNCHANGED <<peers, announces, asks, entries, annQ, reqCh, reqOrphanCh, wire, resCh, posts, relays, flighting,
                    work, known, isolated>>
    BY DEF ReportTimeout, bounds, queues, pool
  <1>2. \A p \in Peers : n(p) \in Nat
    <2> TAKE p \in Peers
    <2>1. {h \in DOMAIN expired : p \in expired[h]} \subseteq Hashes
      BY DEF ExpiredType
    <2>2. IsFiniteSet({h \in DOMAIN expired : p \in expired[h]})
      BY <2>1, FS_Subset, FetcherAssumption
    <2> QED
      BY <2>2, FS_CardinalityType
  <1>3. count' = [p \in Peers |-> IF count[p] > n(p) THEN count[p] - n(p) ELSE 0]
    BY DEF ReportTimeout
  <1> HIDE DEF n
  <1>4. count' \in [Peers -> 0 .. AnnounceLimit]
    <2>1. ASSUME NEW p \in Peers
          PROVE  (IF count[p] > n(p) THEN count[p] - n(p) ELSE 0) \in 0 .. AnnounceLimit
      <3>1. count[p] \in 0 .. AnnounceLimit /\ n(p) \in Nat /\ AnnounceLimit \in Nat
        BY <1>2, FetcherAssumption DEF AnnounceType
      <3> QED
        BY <3>1
    <2> QED
      BY <1>3, <2>1
  <1>5. announced' \in [Hashes -> SUBSET Peers]
    BY DEF ReportTimeout, AnnounceType
  <1>6. AnnounceType' /\ QueueType' /\ FlightType' /\ WorkType'
    BY <1>1, <1>4, <1>5 DEF AnnounceType, QueueType, FlightType, WorkType
  <1>7. ExpiredType' /\ Settles(DOMAIN expired) /\ DOMAIN expired \in SUBSET Hashes
    BY DEF ReportTimeout, ExpiredType, NoTasks
  <1>8. \A g : (Queued(g) => Queued(g)') /\ (Worked(g) => Worked(g)') /\ (Posted(g) => Posted(g)')
    BY <1>1 DEF Queued, Worked, Posted
  <1>9. \A g : Mapped(g) => Mapped(g)' \/ g \in DOMAIN expired
    BY <1>1, <1>7 DEF Mapped
  <1>10. KeptBut(DOMAIN expired)
    BY <1>8, <1>9, OpenSplits DEF KeptBut
  <1> QED
    BY <1>6, <1>7, <1>10, SettlesKeeps

LEMMA PoolAddKeeps ==
  ASSUME IInv, PoolAdd
  PROVE  IInv'
  <1> USE DEF IInv, Types
  <1> DEFINE b == Head(posts)
  <1>1. b \in Posts /\ posts' \in Seq(Posts) /\ ToSet(posts) = {b} \cup ToSet(posts')
    BY TailSet DEF PoolAdd, QueueType
  <1>2. b.hash \in Hashes
    BY <1>1 DEF Posts
  <1>3. /\ known' \subseteq known \cup {b.hash} /\ isolated' \subseteq isolated \cup {b.hash}
        /\ relays' \subseteq relays \cup {b.hash} /\ Settles({b.hash})
    BY DEF PoolAdd
  <1>4. UNCHANGED <<peers, announces, asks, announced, entries, count, annQ, reqCh, reqOrphanCh, wire, resCh, flighting,
                    work, expired>>
    BY DEF PoolAdd, announcing, bounds
  <1> HIDE DEF b
  <1>5. AnnounceType' /\ QueueType'
    BY <1>1, <1>2, <1>3, <1>4 DEF AnnounceType, QueueType
  <1>6. FlightType' /\ WorkType' /\ ExpiredType'
    BY <1>4 DEF FlightType, WorkType, ExpiredType
  <1>7. \A g : (Queued(g) => Queued(g)') /\ (Worked(g) => Worked(g)') /\ (Mapped(g) => Mapped(g)')
    BY <1>4 DEF Queued, Worked, Mapped
  <1>8. \A g : Posted(g) => Posted(g)' \/ g = b.hash
    BY <1>1 DEF Posted
  <1>9. KeptBut({b.hash})
    BY <1>7, <1>8, OpenSplits DEF KeptBut
  <1>10. Accounted'
    <2>1. {b.hash} \in SUBSET Hashes
      BY <1>2
    <2> QED
      BY <1>3, <1>9, <2>1, SettlesKeeps
  <1> QED
    BY <1>5, <1>6, <1>10
-----------------------------------------------------------------------------
LEMMA Stutter ==
  ASSUME IInv, UNCHANGED vars
  PROVE  IInv'
  <1>1. AnnounceType' /\ QueueType' /\ FlightType' /\ WorkType' /\ ExpiredType'
    BY DEF IInv, Types, AnnounceType, QueueType, FlightType, WorkType, ExpiredType, vars, bounds, announcing, queues, pool
  <1>2. Accounted'
    BY DEF IInv, Accounted, NoRequestForgotten, Open, vars, queues, histories
  <1> QED
    BY <1>1, <1>2 DEF IInv, Types

LEMMA NextInv ==
  ASSUME IInv, [Next]_vars
  PROVE  IInv'
  <1>1. ASSUME NEW p \in Peers, Refuse(p) \/ Leave(p) \/ \E h \in Hashes : Announce(p, h) PROVE IInv'
    BY <1>1, GoneKeeps, AnnounceKeeps
  <1>2. ASSUME NEW w \in Workers, WorkerStep(w) PROVE IInv'
    BY <1>2, TakeRequestKeeps, SendRequestsKeeps, MarkKeeps, TakeResponseKeeps, PostResponseKeeps, Zenon DEF WorkerStep
  <1>3. ASSUME TimerStep PROVE IInv'
    BY <1>3, DetectTimeoutKeeps, ReportTimeoutKeeps, Zenon DEF TimerStep
  <1>4. ASSUME PoolStep \/ \E h \in Hashes : PoolAskIsolated(h) \/ PoolRelease(h) PROVE IInv'
    BY <1>4, PoolAskKeeps, PoolAddKeeps, PoolAskIsolatedKeeps, ElsewhereKeeps, Zenon DEF PoolStep
  <1>5. ASSUME NEW m \in wire, Answer(m) \/ NoAnswer(m) PROVE IInv'
    BY <1>5, ElsewhereKeeps, Zenon
  <1> QED
    BY <1>1, <1>2, <1>3, <1>4, <1>5, Stutter, Zenon DEF Next

(* The inductive invariant holds throughout, whatever the peers do.                     *)
THEOREM Inductive == Spec => []IInv
  BY InitInv, NextInv, PTL DEF Spec

(* The variables of the fetcher stay in their sets; in particular announceCount stays       *)
(* between 0 and its limit although answers and timeouts count down and only the first       *)
(* announcer is counted up (PostResponse, ReportTimeout).                                  *)
THEOREM TypeCorrect == Spec => []TypeOK
  <1>1. IInv => TypeOK
    BY TypesOK
  <1> QED
    BY <1>1, Inductive, PTL

(* A hash has an open request, or the last one for it was handed to the pool or given up:      *)
(* none falls between the queues, the workers and the two maps, whatever the pool makes of     *)
(* the block (fetch, processResponse, detectTimeout).                                        *)
THEOREM NoRequestForgottenHolds == Spec => []NoRequestForgotten
  <1>1. IInv => NoRequestForgotten
    BY DEF IInv, Accounted
  <1> QED
    BY <1>1, Inductive, PTL
=============================================================================
