------------------------- MODULE SynchroniserProofs -------------------------
(***************************************************************************)
(* The loop goroutine and a session never both own the synchronisation, and    *)
(* a session that repeats nothing copies all it set out to copy, for any number  *)
(* of peers, any distribution of their blocks over the slices, any size of a     *)
(* batch and any interleaving of the peers' workers.                            *)
(*                                                                         *)
(* Completeness is not inductive: it rests on what a batch contains for the       *)
(* request it answers (BatchGood), on the fact that at most one request or answer  *)
(* of such a session is under way (Progress), and on sliceCache holding the slice   *)
(* that was cut until the acknowledgement of that batch has been read (CacheOK).   *)
(***************************************************************************)
EXTENDS Synchroniser, Sums, SequenceTheorems, TLAPS

Ask == [pt : Points, end : Genesis .. Now]
Job == [pt : Points, cache : Slices, end : Genesis .. Now]
Sample == UNION {{[number |-> n, hash |-> Main[p][n].hash] : n \in DOMAIN Main[p]} : p \in Peers}

(* The types of the variables, in groups *)
EnvType ==
  /\ tail \in [Peers -> Genesis .. Now] /\ link \in [Peers -> 0 .. MaxTrouble]
  /\ connects \in Nat /\ dups \in Nat /\ connects + dups <= MaxTrouble
  /\ \A p \in Peers : link[p] <= connects
  /\ picked \in [peer : Peers, conn : 0 .. MaxTrouble] /\ picked.conn <= connects
LoopType ==
  /\ tasks \in [Peers -> Slices] /\ posting \in [Peers -> Slices]
  /\ lpc \in {"schedule", "feed", "select", "off"} /\ own \in Slices /\ lastSYS \in Slices
FlagType == idle \in BOOLEAN /\ syncing \in BOOLEAN
SessType == sess \in Session /\ sess.conn <= connects
NetType ==
  /\ locCh \in Seq(SUBSET Sample) /\ resCh \in Seq(Response)
  /\ asked \in [Peers -> Nat] /\ inq \in [Peers -> Seq(Points)]
ServerType ==
  /\ reading \in [Peers -> Seq(Ask)]
  /\ packing \in [Peers -> Seq(Job)] /\ sending \in [Peers -> Seq(Response)]
  /\ cache \in [Peers -> Slices]

Types == EnvType /\ LoopType /\ FlagType /\ SessType /\ NetType /\ ServerType

Running == sess.pc \in {"start", "select"}
Busy == sess.pc \in {"start", "select", "feed"}

(* While one of them sends on netFeed: the loop has not yet started the session    *)
(* it has picked a peer for; the session has all it wanted, if it is clean.         *)
FeedInv ==
  /\ lpc = "feed" => sess.pc = "off" /\ ~idle /\ picked.conn > 0
  /\ sess.pc = "feed" /\ sess.clean => Missing(sess) = {}

(* What a session remembers of its peer *)
GoalInv == Running => /\ sess.conn > 0 /\ sess.goal <= tail[sess.peer] /\ sess.goal <= Now

(* All blocks of p after the slice fork and up to the point pt are in S. *)
Reached(p, fork, pt, S) ==
  /\ fork <= pt.ts
  /\ \A t \in fork + 1 .. pt.ts : \A i \in 0 .. Size(p, t) - 1 :
       t < pt.ts \/ i <= pt.idx => <<p, t, i>> \in S

AllUpto(p, fork, goal, S) ==
  \A t \in fork + 1 .. goal : \A i \in 0 .. Size(p, t) - 1 : <<p, t, i>> \in S

(* A slice of which the point pt leaves a rest is in the cache c. *)
CacheOK(p, fork, pt, c) == fork < pt.ts /\ pt.idx < Size(p, pt.ts) - 1 => c = pt.ts

(* The batch r takes the session further. *)
Good(r) ==
  LET p == sess.peer
  IN  IF r.end THEN AllUpto(p, sess.fork, sess.goal, posted \cup r.blocks)
      ELSE Reached(p, sess.fork, r.last, posted \cup r.blocks) /\ CacheOK(p, sess.fork, r.last, cache[p])

Quiet(q) == asked[q] = 0 /\ inq[q] = << >> /\ reading[q] = << >> /\ packing[q] = << >> /\ sending[q] = << >>

LocatorPhase(p) ==
  /\ inq[p] = << >> /\ reading[p] = << >> /\ packing[p] = << >> /\ sending[p] = << >> /\ resCh = << >>
  /\ sess.ack = << >> /\ asked[p] + Len(locCh) <= 1

BlockPhase(p) ==
  /\ asked[p] = 0 /\ locCh = << >> /\ ~sess.ticker /\ Genesis <= sess.fork
  /\ Len(inq[p]) + Len(reading[p]) + Len(packing[p]) + Len(sending[p]) + Len(resCh) <= 1
  /\ Reached(p, sess.fork, LastRequest, posted)
  /\ inq[p] # << >> => inq[p][1] = LastRequest /\ CacheOK(p, sess.fork, LastRequest, cache[p])
  /\ reading[p] # << >> => /\ reading[p][1].pt = LastRequest /\ sess.goal <= reading[p][1].end
                           /\ CacheOK(p, sess.fork, LastRequest, cache[p])
  /\ packing[p] # << >> => /\ packing[p][1].pt = LastRequest /\ packing[p][1].cache = cache[p]
                           /\ CacheOK(p, sess.fork, LastRequest, cache[p])
                           /\ sess.goal <= packing[p][1].end
  /\ sending[p] # << >> => Good(sending[p][1])
  /\ resCh # << >> => Good(resCh[1])

(* The session is clean so far: one thing at most is under way, between the        *)
(* session and its peer, and it takes the session further.                        *)
Phases ==
  /\ \A q \in Peers \ {sess.peer} : Quiet(q)
  /\ IF sess.wait THEN sess.pc = "select" /\ BlockPhase(sess.peer)
     ELSE LocatorPhase(sess.peer) /\ (sess.pc = "start" => asked[sess.peer] = 0 /\ locCh = << >>)

Progress == Running /\ sess.clean /\ Alive => Phases

IInv == Types /\ OneSession /\ FeedInv /\ GoalInv /\ Progress /\ CleanEndIsComplete
-----------------------------------------------------------------------------
(* Numbers, maxima and minima *)

LEMMA LeastNumber ==
  ASSUME NEW S, S \subseteq Nat, S # {}
  PROVE  \E x \in S : \A y \in S : x <= y
<1>1. PICK x \in S : \A y \in S : ~ (<<y, x>> \in OpToRel(<, Nat))
  BY NatLessThanWellFounded, WFMin
<1>2. ASSUME NEW y \in S PROVE x <= y
  <2>1. x \in Nat /\ y \in Nat
    OBVIOUS
  <2>2. ~ (y < x)
    BY <1>1, <2>1 DEF OpToRel
  <2>3. QED
    BY <2>1, <2>2
<1>3. QED
  BY <1>1, <1>2

LEMMA MinIs ==
  ASSUME NEW S, S \subseteq Nat, S # {}
  PROVE  Min(S) \in S /\ \A y \in S : Min(S) <= y
<1>1. \E x \in S : \A y \in S : x <= y
  BY LeastNumber
<1>2. QED
  BY <1>1 DEF Min

LEMMA MaxIs ==
  ASSUME NEW S, NEW b \in Nat, S \subseteq 0 .. b, S # {}
  PROVE  Max(S) \in S /\ \A y \in S : y <= Max(S)
<1> DEFINE D == {b - x : x \in S}
<1>0. \A x \in S : x \in 0 .. b /\ b - x \in Nat
  OBVIOUS
<1>1. D \subseteq Nat /\ D # {}
  BY <1>0
<1>2. PICK d \in D : \A e \in D : d <= e
  BY <1>1, LeastNumber
<1>3. PICK x \in S : d = b - x
  OBVIOUS
<1>4. ASSUME NEW y \in S PROVE x >= y
  <2>1. d <= b - y
    BY <1>2
  <2>2. QED
    BY <1>3, <2>1
<1>5. Max(S) \in S /\ \A y \in S : Max(S) >= y
  BY <1>4 DEF Max
<1>6. QED
  BY <1>5
-----------------------------------------------------------------------------
(* Sizes of slices *)

LEMMA ConstFacts ==
  /\ Now \in Nat /\ Word \in Nat /\ Now < Word /\ Genesis \in Nat /\ 2 <= Genesis /\ Genesis <= Now
  /\ Cap \in Nat /\ Cap > 0 /\ MaxRetry \in Nat /\ MaxTrouble \in Nat
  /\ Genesis .. Now \subseteq Slices /\ 0 \in Slices
<1>1. /\ Now \in Nat /\ Word \in Nat /\ Now < Word /\ Genesis \in 2 .. Now
      /\ Cap \in Nat \ {0} /\ MaxRetry \in Nat /\ MaxTrouble \in Nat
  BY SyncAssumption
<1>2. QED
  BY <1>1 DEF Slices

LEMMA SizeTyped ==
  ASSUME NEW p \in Peers, NEW s
  PROVE  /\ Size(p, s) \in Nat
         /\ Size(p, s) > 0 => s \in Genesis .. Now
         /\ s \in Genesis .. Now => Size(p, s) = Count[p][s]
<1>1. DOMAIN Count[p] = Genesis .. Now /\ Count[p] \in [Genesis .. Now -> Nat]
  BY SyncAssumption
<1>2. s \in Genesis .. Now => Size(p, s) = Count[p][s] /\ Count[p][s] \in Nat
  BY <1>1 DEF Size
<1>3. s \notin Genesis .. Now => Size(p, s) = 0
  BY <1>1 DEF Size
<1>4. QED
  BY <1>2, <1>3

LEMMA UptoStep ==
  ASSUME NEW p \in Peers
  PROVE  /\ \A s \in 0 .. Now + 1 : Upto[p][s] \in Nat
         /\ \A s \in 1 .. Now + 1 : Upto[p][s] = Upto[p][s - 1] + Size(p, s)
<1> DEFINE f(s) == [t \in 0 .. s |-> Size(p, t)]
<1>1. ASSUME NEW s \in 0 .. Now + 1
      PROVE  /\ Upto[p][s] = Sum(f(s), 0 .. s)
             /\ IsFiniteSet(0 .. s) /\ \A t \in 0 .. s : f(s)[t] \in Nat /\ f(s)[t] = Size(p, t)
  <2>1. Upto[p][s] = Sum(f(s), 0 .. s)
    BY DEF Upto, Sum
  <2>2. IsFiniteSet(0 .. s)
    <3>1. 0 \in Int /\ s \in Int
      BY ConstFacts
    <3>2. QED
      BY <3>1, FS_Interval
  <2>3. QED
    BY <2>1, <2>2, SizeTyped
<1> HIDE DEF f
<1>2. ASSUME NEW s \in 0 .. Now + 1 PROVE Upto[p][s] \in Nat
  BY <1>1, SumTyped
<1>3. ASSUME NEW s \in 1 .. Now + 1 PROVE Upto[p][s] = Upto[p][s - 1] + Size(p, s)
  <2>1. s - 1 \in 0 .. Now + 1 /\ s \in 0 .. Now + 1 /\ s \in Int
    BY SyncAssumption
  <2>2. (0 .. s - 1) \cup {s} = 0 .. s /\ s \notin 0 .. s - 1
    BY <2>1
  <2>3. \A t \in (0 .. s - 1) \cup {s} : f(s)[t] \in Int
    BY <1>1, <2>1, <2>2
  <2>4. Sum(f(s), 0 .. s) = f(s)[s] + Sum(f(s), 0 .. s - 1)
    <3>1. PICK g, S : g = f(s) /\ S = 0 .. s - 1
      OBVIOUS
    <3>2. IsFiniteSet(S) /\ s \notin S /\ \A t \in S \cup {s} : g[t] \in Int
      BY <1>1, <2>1, <2>2, <2>3, <3>1
    <3>3. Sum(g, S \cup {s}) = g[s] + Sum(g, S)
      BY <3>2, SumAdd
    <3>4. S \cup {s} = 0 .. s
      BY <2>2, <3>1
    <3>5. QED
      BY <3>1, <3>3, <3>4
  <2>5. \A t \in 0 .. s - 1 : f(s)[t] = f(s - 1)[t]
    BY <1>1, <2>1
  <2>6. Sum(f(s), 0 .. s - 1) = Sum(f(s - 1), 0 .. s - 1)
    BY <1>1, <2>1, <2>5, SumEqual
  <2>7. Upto[p][s] = Size(p, s) + Upto[p][s - 1]
    BY <1>1, <2>1, <2>4, <2>6
  <2>8. QED
    BY <1>2, <2>1, <2>7, SizeTyped
<1>4. QED
  BY <1>2, <1>3

LEMMA UptoMonotone ==
  ASSUME NEW p \in Peers, NEW a \in 0 .. Now + 1, NEW b \in 0 .. Now + 1, a <= b
  PROVE  Upto[p][a] <= Upto[p][b]
<1> DEFINE Bad == {c \in 0 .. Now + 1 : a <= c /\ ~ (Upto[p][a] <= Upto[p][c])}
<1>1. SUFFICES ASSUME Bad # {} PROVE FALSE
  OBVIOUS
<1>0. Bad \subseteq Nat
  BY SyncAssumption
<1>2. PICK c \in Bad : \A d \in Bad : c <= d
  BY <1>0, <1>1, LeastNumber
<1>3. Now \in Nat /\ c \in 0 .. Now + 1 /\ a <= c /\ ~ (Upto[p][a] <= Upto[p][c])
  BY SyncAssumption
<1>4. \A s \in 0 .. Now + 1 : Upto[p][s] \in Nat
  BY UptoStep
<1>5. c # a
  BY <1>3, <1>4
<1>6. c - 1 \in 0 .. Now + 1 /\ a <= c - 1 /\ c \in 1 .. Now + 1 /\ c - 1 < c
  BY <1>3, <1>5
<1>7. Upto[p][a] <= Upto[p][c - 1]
  BY <1>2, <1>6
<1>8. Upto[p][c] = Upto[p][c - 1] + Size(p, c) /\ Size(p, c) \in Nat
  BY <1>6, UptoStep, SizeTyped
<1>9. QED
  BY <1>3, <1>4, <1>6, <1>7, <1>8
-----------------------------------------------------------------------------
(* What a batch contains *)

(* The rest of a slice that was cut: the indices after pt.idx, at most Cap of them. *)
LEMMA RestIs ==
  ASSUME NEW p \in Peers, NEW pt \in Points, NEW c, NEW rest, rest = Rest(p, pt, c)
  PROVE  /\ rest \subseteq 0 .. Size(p, pt.ts) - 1
         /\ IsFiniteSet(rest) /\ Cardinality(rest) \in Nat
         /\ rest # {} => /\ c = pt.ts /\ Cardinality(rest) > 0
                         /\ Max(rest) \in rest
                         /\ \A i \in 0 .. Max(rest) : pt.idx < i => i \in rest
                         /\ Max(rest) < Size(p, pt.ts) - 1 => Cardinality(rest) >= Cap
         /\ c = pt.ts /\ pt.idx < Size(p, pt.ts) - 1 => rest # {}
<1> DEFINE n == Size(p, pt.ts)
<1>1. n \in Nat /\ pt.idx \in Nat /\ Cap \in Nat /\ Cap > 0
  BY SizeTyped, ConstFacts DEF Points
<1> HIDE DEF n
<1>2. /\ c = pt.ts => rest = {i \in 0 .. n - 1 : pt.idx < i /\ i <= pt.idx + Cap}
      /\ c # pt.ts => rest = {}
  BY DEF Rest, n
<1>3. rest \subseteq 0 .. n - 1
  BY <1>2
<1>4. IsFiniteSet(rest) /\ Cardinality(rest) \in Nat
  <2>1. IsFiniteSet(0 .. n - 1)
    BY <1>1, FS_Interval
  <2>2. IsFiniteSet(rest)
    BY <1>3, <2>1, FS_Subset
  <2>3. QED
    BY <2>2, FS_CardinalityType
<1>5. ASSUME rest # {}
      PROVE  /\ c = pt.ts /\ Cardinality(rest) > 0 /\ Max(rest) \in rest
             /\ \A i \in 0 .. Max(rest) : pt.idx < i => i \in rest
             /\ Max(rest) < n - 1 => Cardinality(rest) >= Cap
  <2>1. c = pt.ts
    BY <1>2, <1>5
  <2>2. Cardinality(rest) > 0
    BY <1>4, <1>5, FS_EmptySet
  <2>3. Max(rest) \in rest /\ \A y \in rest : y <= Max(rest)
    BY <1>1, <1>3, <1>5, MaxIs
  <2>4. PICK m : m = Max(rest)
    OBVIOUS
  <2>5. m \in 0 .. n - 1 /\ pt.idx < m /\ m <= pt.idx + Cap
    BY <1>2, <2>1, <2>3, <2>4
  <2>6. \A i \in 0 .. m : pt.idx < i => i \in rest
    BY <1>1, <1>2, <2>1, <2>5
  <2>7. ASSUME m < n - 1 PROVE Cardinality(rest) >= Cap
    <3>1. m = pt.idx + Cap
      <4>1. SUFFICES ASSUME m < pt.idx + Cap PROVE FALSE
        BY <1>1, <2>5
      <4>2. m + 1 \in 0 .. n - 1 /\ pt.idx < m + 1 /\ m + 1 <= pt.idx + Cap
        BY <1>1, <2>5, <2>7, <4>1
      <4>3. m + 1 \in rest
        BY <1>2, <2>1, <4>2
      <4>4. QED
        BY <2>3, <2>4, <2>5, <4>3
    <3>2. pt.idx + 1 .. m \subseteq rest
      BY <1>1, <2>5, <2>6
    <3>3. Cardinality(pt.idx + 1 .. m) = Cap
      BY <1>1, <2>5, <3>1, FS_Interval
    <3>4. QED
      BY <1>4, <3>2, <3>3, FS_Subset
  <2>8. QED
    BY <2>1, <2>2, <2>3, <2>4, <2>6, <2>7
<1>6. ASSUME c = pt.ts, pt.idx < n - 1 PROVE rest # {}
  <2>1. pt.idx + 1 \in 0 .. n - 1 /\ pt.idx < pt.idx + 1 /\ pt.idx + 1 <= pt.idx + Cap
    BY <1>1, <1>6
  <2>2. pt.idx + 1 \in rest
    BY <1>2, <1>6, <2>1
  <2>3. QED
    BY <2>2
<1>7. QED
  BY <1>3, <1>4, <1>5, <1>6 DEF n

(* The slices that a batch reaches are consecutive, and all but the last fit. *)
LEMMA OpenIs ==
  ASSUME NEW p \in Peers, NEW ts \in Slices, NEW end \in Genesis .. Now,
         NEW rest, Cardinality(rest) \in Nat,
         NEW open, open = Open(p, ts, end, rest), NEW E, E = Max({ts} \cup open)
  PROVE  /\ open \subseteq ts + 1 .. end + 1
         /\ open = {} => E = ts
         /\ open # {} => E \in open
         /\ \A s \in open : Before(p, ts, rest, s) \in Nat /\ Before(p, ts, rest, s) < Cap
         /\ \A s \in ts + 1 .. E : s \in open
         /\ \A s \in ts + 1 .. E - 1 : Before(p, ts, rest, s) + Size(p, s) < Cap
         /\ open # {} => Cardinality(rest) < Cap
         /\ open = {} /\ ts < end => Cardinality(rest) >= Cap
         /\ open # {} /\ E < end => Before(p, ts, rest, E) + Size(p, E) >= Cap
<1> DEFINE B(s) == Before(p, ts, rest, s)
           n == Cardinality(rest)
<1>0. /\ Now \in Nat /\ Word \in Nat /\ Now < Word /\ ts \in Nat /\ end \in Nat /\ end <= Now
      /\ Cap \in Nat /\ Cap > 0 /\ \A s : Size(p, s) \in Nat
  BY ConstFacts, SizeTyped DEF Slices
<1>1. ASSUME NEW s \in ts + 1 .. end + 1
      PROVE  /\ ts \in 0 .. Now + 1 /\ s \in 1 .. Now + 1 /\ s \in 0 .. Now + 1 /\ s - 1 \in 0 .. Now + 1
             /\ ts <= s - 1
             /\ B(s) = n + Upto[p][s - 1] - Upto[p][ts]
             /\ Upto[p][s - 1] \in Nat /\ Upto[p][ts] \in Nat /\ Upto[p][s] \in Nat
             /\ Upto[p][s] = Upto[p][s - 1] + Size(p, s)
             /\ B(s) \in Nat /\ n <= B(s)
  <2>1. /\ ts \in 0 .. Now + 1 /\ s \in 1 .. Now + 1 /\ s \in 0 .. Now + 1 /\ s - 1 \in 0 .. Now + 1
        /\ ts <= s - 1
    BY <1>0
  <2>2. B(s) = n + Upto[p][s - 1] - Upto[p][ts]
    BY DEF Before
  <2>3. /\ Upto[p][s - 1] \in Nat /\ Upto[p][ts] \in Nat /\ Upto[p][s] \in Nat
        /\ Upto[p][s] = Upto[p][s - 1] + Size(p, s)
    BY <2>1, UptoStep
  <2>4. Upto[p][ts] <= Upto[p][s - 1]
    BY <2>1, UptoMonotone
  <2> HIDE DEF B, n
  <2>5. n \in Nat
    BY DEF n
  <2>6. B(s) \in Nat /\ n <= B(s)
    BY <2>2, <2>3, <2>4, <2>5
  <2>7. QED
    BY <2>1, <2>2, <2>3, <2>6
<1>2. ASSUME NEW s \in ts + 1 .. end + 1, NEW t \in ts + 1 .. end + 1, s < t
      PROVE  B(s) + Size(p, s) <= B(t)
  <2>1. s \in Int /\ t \in Int /\ s <= t - 1 /\ s \in 0 .. Now + 1 /\ t - 1 \in 0 .. Now + 1
    BY <1>0, <1>1, <1>2
  <2>2. Upto[p][s] <= Upto[p][t - 1]
    BY <2>1, UptoMonotone
  <2>3. /\ B(s) = n + Upto[p][s - 1] - Upto[p][ts] /\ B(t) = n + Upto[p][t - 1] - Upto[p][ts]
        /\ Upto[p][s] = Upto[p][s - 1] + Size(p, s)
        /\ Upto[p][s - 1] \in Nat /\ Upto[p][ts] \in Nat /\ Upto[p][s] \in Nat /\ Upto[p][t - 1] \in Nat
    BY <1>1
  <2> HIDE DEF B, n
  <2>4. n \in Nat /\ Size(p, s) \in Nat
    BY <1>0 DEF n
  <2>5. QED
    BY <2>2, <2>3, <2>4
<1>3. open \subseteq ts + 1 .. end + 1 /\ \A s \in ts + 1 .. end + 1 : s \in open <=> B(s) < Cap
  BY DEF Open
<1> HIDE DEF B
<1>4. E \in {ts} \cup open /\ \A y \in {ts} \cup open : y <= E
  <2>1. {ts} \cup open \subseteq 0 .. ts + end + 1
    BY <1>0, <1>3
  <2>2. ts + end + 1 \in Nat
    BY <1>0
  <2>3. QED
    BY <2>1, <2>2, MaxIs
<1>5. (open = {} => E = ts) /\ (open # {} => E \in open)
  <2>1. ASSUME NEW y \in open PROVE E # ts
    <3>1. y \in ts + 1 .. end + 1
      BY <1>3
    <3>2. y \in Int /\ ts < y
      BY <1>0, <3>1
    <3>3. y <= E
      BY <1>4
    <3>4. QED
      BY <1>0, <3>2, <3>3
  <2>2. QED
    BY <1>4, <2>1
<1>6. \A s \in open : B(s) \in Nat /\ B(s) < Cap
  BY <1>1, <1>3
<1>7. ASSUME NEW s \in ts + 1 .. E, s < E
      PROVE  s \in open /\ B(s) + Size(p, s) < Cap
  <2>1. E \in open /\ E \in ts + 1 .. end + 1 /\ E \in Int
    BY <1>0, <1>3, <1>4, <1>7
  <2>2. s \in ts + 1 .. end + 1 /\ s < E
    BY <1>0, <1>7, <2>1
  <2>3. B(s) + Size(p, s) <= B(E)
    BY <1>2, <2>1, <2>2
  <2>4. B(s) \in Nat /\ B(E) \in Nat /\ B(E) < Cap /\ Size(p, s) \in Nat
    BY <1>0, <1>1, <1>3, <2>1, <2>2
  <2>5. B(s) < Cap /\ B(s) + Size(p, s) < Cap
    BY <1>0, <2>3, <2>4
  <2>6. QED
    BY <1>3, <2>2, <2>5
<1>8. \A s \in ts + 1 .. E : s \in open
  <2>1. ASSUME NEW s \in ts + 1 .. E PROVE s \in open
    <3>1. CASE s < E
      BY <1>7, <3>1
    <3>2. CASE s = E
      BY <1>0, <1>4, <3>2
    <3>3. E \in Int
      BY <1>0, <1>3, <1>4
    <3>4. QED
      BY <1>0, <3>1, <3>2, <3>3
  <2>2. QED
    BY <2>1
<1>9. \A s \in ts + 1 .. E - 1 : B(s) + Size(p, s) < Cap
  <2>1. E \in Int
    BY <1>0, <1>3, <1>4
  <2>2. \A s \in ts + 1 .. E - 1 : s \in ts + 1 .. E /\ s < E
    BY <1>0, <2>1
  <2>3. QED
    BY <1>7, <2>2
<1>10. open # {} => n < Cap
  BY <1>0, <1>1, <1>3
<1>11. ts + 1 \in ts + 1 .. end + 1 => B(ts + 1) = n
  <2>1. SUFFICES ASSUME ts + 1 \in ts + 1 .. end + 1 PROVE B(ts + 1) = n
    OBVIOUS
  <2>2. B(ts + 1) = n + Upto[p][ts + 1 - 1] - Upto[p][ts] /\ Upto[p][ts] \in Nat
    BY <1>1, <2>1
  <2>3. ts + 1 - 1 = ts
    BY <1>0
  <2>4. QED
    BY <2>2, <2>3
<1>12. ASSUME open = {}, ts < end PROVE n >= Cap
  <2>1. ts + 1 \in ts + 1 .. end + 1
    BY <1>0, <1>12
  <2>2. ~ (B(ts + 1) < Cap)
    BY <1>3, <1>12, <2>1
  <2>3. QED
    BY <1>0, <1>11, <2>1, <2>2
<1>13. ASSUME open # {}, E < end PROVE B(E) + Size(p, E) >= Cap
  <2>1. E \in open /\ E \in ts + 1 .. end + 1 /\ E \in Int
    BY <1>0, <1>3, <1>5, <1>13
  <2>2. E + 1 \in ts + 1 .. end + 1 /\ E < E + 1
    BY <1>0, <1>13, <2>1
  <2>3. E + 1 \notin open
    BY <1>4, <2>1
  <2>4. B(E + 1) >= Cap
    BY <1>0, <1>1, <1>3, <2>2, <2>3
  <2>5. /\ B(E + 1) = n + Upto[p][E + 1 - 1] - Upto[p][ts] /\ B(E) = n + Upto[p][E - 1] - Upto[p][ts]
        /\ Upto[p][E] = Upto[p][E - 1] + Size(p, E)
        /\ Upto[p][E - 1] \in Nat /\ Upto[p][ts] \in Nat /\ Upto[p][E] \in Nat
    BY <1>1, <2>1, <2>2
  <2>6. E + 1 - 1 = E
    BY <2>1
  <2>7. n \in Nat /\ Size(p, E) \in Nat
    BY <1>0
  <2> HIDE DEF n
  <2>8. QED
    BY <1>0, <2>4, <2>5, <2>6, <2>7
<1>14. QED
  BY <1>3, <1>5, <1>6, <1>8, <1>9, <1>10, <1>12, <1>13 DEF B

LEMMA MinOfTwo ==
  ASSUME NEW a \in Nat, NEW b \in Nat
  PROVE  Min({a, b}) = IF a <= b THEN a ELSE b
<1>1. Min({a, b}) \in {a, b} /\ \A y \in {a, b} : Min({a, b}) <= y
  BY MinIs
<1>2. QED
  BY <1>1

(* A batch r for a request in slice ts: the last slice reached is E, with room for    *)
(* so many of its blocks.                                                           *)
BatchFacts(p, ts, end, rest, open, r, E, room) ==
  /\ r \in Response
  /\ \A i \in rest : <<p, ts, i>> \in r.blocks
  /\ \A s \in ts + 1 .. E - 1 : \A i \in 0 .. Size(p, s) - 1 : <<p, s, i>> \in r.blocks
  /\ open # {} => \A i \in 0 .. Size(p, E) - 1 : i < room => <<p, E, i>> \in r.blocks
  /\ open # {} => room \in Nat /\ room > 0
  /\ r.end => /\ end <= E
              /\ open # {} => Size(p, E) <= room
              /\ rest # {} => Max(rest) >= Size(p, ts) - 1
  /\ ~r.end => /\ r.last.ts = E
               /\ open # {} => /\ r.last.idx = (IF Size(p, E) <= room THEN Size(p, E) ELSE room) - 1
                               /\ rest # {} => Max(rest) >= Size(p, ts) - 1
               /\ open = {} => rest # {} /\ r.last.idx = Max(rest)
  /\ r.cut = IF open # {} /\ Size(p, E) > room THEN E ELSE 0

LEMMA BatchIs ==
  ASSUME NEW p \in Peers, NEW pt \in Points, NEW c, NEW end \in Genesis .. Now,
         NEW rest, rest = Rest(p, pt, c), NEW open, open = Open(p, pt.ts, end, rest),
         NEW r, r = Batch(p, pt, end, rest, open),
         NEW E, E = Max({pt.ts} \cup open), NEW room, room = Cap - Before(p, pt.ts, rest, E)
  PROVE  BatchFacts(p, pt.ts, end, rest, open, r, E, room)
<1> DEFINE ts == pt.ts
           rm(s) == Cap - Before(p, ts, rest, s)
           cut == open # {} /\ Size(p, E) > rm(E)
           remain == cut \/ (rest # {} /\ Max(rest) < Size(p, ts) - 1)
           full == {s \in open : Size(p, s) > 0}
           low == IF rest = {} THEN {0} ELSE {ts}
           top == Max(full \cup low)
           part(s) == {<<p, s, i>> : i \in 0 .. Min({Size(p, s), rm(s)}) - 1}
           blocks == {<<p, ts, i>> : i \in rest} \cup UNION {part(s) : s \in full}
           idx == CASE top \in full -> Min({Size(p, top), rm(top)}) - 1
                    [] top \notin full /\ rest # {} -> Max(rest)
                    [] OTHER -> 0
           endv == E >= end /\ ~remain
           cutv == IF cut THEN E ELSE 0
<1>1. r = [blocks |-> blocks, last |-> [ts |-> top, idx |-> idx], end |-> endv, cut |-> cutv]
  BY Zenon DEF Batch
<1>2. r.blocks = blocks /\ r.last = [ts |-> top, idx |-> idx] /\ r.end = endv /\ r.cut = cutv
  <2>1. PICK bl, la, e, cu : bl = blocks /\ la = [ts |-> top, idx |-> idx] /\ e = endv /\ cu = cutv
    BY Zenon
  <2>2. r = [blocks |-> bl, last |-> la, end |-> e, cut |-> cu]
    BY <1>1, <2>1, Zenon
  <2>3. r.blocks = bl /\ r.last = la /\ r.end = e /\ r.cut = cu
    BY <2>2
  <2>4. QED
    BY <2>1, <2>3, Zenon
<1>3. r.last.ts = top /\ r.last.idx = idx
  BY <1>2
<1>0. /\ ts \in Slices /\ ts \in Nat /\ pt.idx \in Nat /\ end \in Nat /\ end <= Now
      /\ Now \in Nat /\ Genesis \in Nat /\ Cap \in Nat /\ Cap > 0 /\ \A s : Size(p, s) \in Nat
      /\ \A s : Size(p, s) > 0 => s \in Genesis .. Now
  BY ConstFacts, SizeTyped DEF Points, Slices
<1>4. /\ rest \subseteq 0 .. Size(p, ts) - 1 /\ Cardinality(rest) \in Nat
      /\ rest # {} => /\ Cardinality(rest) > 0 /\ Max(rest) \in rest
                      /\ Max(rest) < Size(p, ts) - 1 => Cardinality(rest) >= Cap
  BY RestIs
<1>5. /\ open \subseteq ts + 1 .. end + 1
      /\ open = {} => E = ts
      /\ open # {} => E \in open
      /\ \A s \in open : Before(p, ts, rest, s) \in Nat /\ Before(p, ts, rest, s) < Cap
      /\ \A s \in ts + 1 .. E : s \in open
      /\ \A s \in ts + 1 .. E - 1 : Before(p, ts, rest, s) + Size(p, s) < Cap
      /\ open # {} => Cardinality(rest) < Cap
      /\ open = {} /\ ts < end => Cardinality(rest) >= Cap
      /\ open # {} /\ E < end => Before(p, ts, rest, E) + Size(p, E) >= Cap
  BY <1>0, <1>4, OpenIs
<1>6. /\ room = rm(E)
      /\ \A s \in open : rm(s) \in Nat /\ rm(s) > 0
      /\ \A s \in ts + 1 .. E - 1 : s \in open /\ Size(p, s) <= rm(s)
      /\ open # {} /\ E < end => Size(p, E) >= room
  <2>1. \A s \in open : rm(s) \in Nat /\ rm(s) > 0
    BY <1>0, <1>5
  <2>2. E \in Int
    BY <1>0, <1>5
  <2>3. ASSUME NEW s \in ts + 1 .. E - 1 PROVE s \in open /\ Size(p, s) <= rm(s)
    <3>1. s \in ts + 1 .. E
      BY <1>0, <2>2
    <3>2. s \in open /\ Before(p, ts, rest, s) \in Nat /\ Before(p, ts, rest, s) + Size(p, s) < Cap
      BY <1>5, <3>1
    <3>3. QED
      BY <1>0, <3>2
  <2>4. ASSUME open # {}, E < end PROVE Size(p, E) >= room
    <3>1. Before(p, ts, rest, E) \in Nat /\ Before(p, ts, rest, E) + Size(p, E) >= Cap
      BY <1>5, <2>4
    <3>2. QED
      BY <1>0, <3>1
  <2>5. QED
    BY <2>1, <2>3, <2>4
<1>7. ASSUME NEW s \in open
      PROVE  /\ Min({Size(p, s), rm(s)}) = IF Size(p, s) <= rm(s) THEN Size(p, s) ELSE rm(s)
             /\ Size(p, s) \in Nat /\ rm(s) \in Nat /\ rm(s) > 0
             /\ s \in ts + 1 .. end + 1 /\ s \in Nat
  <2>1. Size(p, s) \in Nat /\ rm(s) \in Nat /\ rm(s) > 0 /\ s \in ts + 1 .. end + 1 /\ s \in Nat
    BY <1>0, <1>5, <1>6
  <2>2. QED
    BY <2>1, MinOfTwo
<1> HIDE DEF rm
<1>8. ASSUME NEW s \in open, NEW i \in 0 .. Size(p, s) - 1, i < rm(s)
      PROVE  <<p, s, i>> \in blocks
  <2>1. i \in 0 .. Min({Size(p, s), rm(s)}) - 1 /\ Size(p, s) > 0
    BY <1>7, <1>8
  <2>2. s \in full /\ <<p, s, i>> \in part(s)
    BY <2>1
  <2>3. QED
    BY <2>2
<1>9. ASSUME NEW s \in full, NEW b \in part(s)
      PROVE  b \in Held(p, s) /\ s \in Genesis .. Now
  <2>1. PICK i \in 0 .. Min({Size(p, s), rm(s)}) - 1 : b = <<p, s, i>>
    OBVIOUS
  <2>2. s \in open /\ s \in Genesis .. Now
    BY <1>0
  <2>3. i \in 0 .. Size(p, s) - 1
    BY <1>7, <2>1, <2>2
  <2>4. Size(p, s) = Count[p][s]
    BY <2>2, SizeTyped
  <2>5. QED
    BY <2>1, <2>2, <2>3, <2>4 DEF Held
<1>10. ASSUME NEW i \in rest
       PROVE  <<p, ts, i>> \in Held(p, ts) /\ ts \in Genesis .. Now
  <2>1. i \in 0 .. Size(p, ts) - 1
    BY <1>4
  <2>2. Size(p, ts) > 0
    BY <1>0, <2>1
  <2>3. ts \in Genesis .. Now
    BY <1>0, <2>2
  <2>4. Size(p, ts) = Count[p][ts]
    BY <2>3, SizeTyped
  <2>5. QED
    BY <2>1, <2>3, <2>4 DEF Held
<1>11. blocks \in SUBSET Blocks
  <2>1. \A s \in Genesis .. Now : Held(p, s) \subseteq Blocks
    BY DEF Blocks
  <2>2. QED
    BY <1>9, <1>10, <2>1
<1>12. top \in full \cup low /\ \A y \in full \cup low : y <= top
  <2>1. full \subseteq 0 .. Now
    <3>1. \A s \in full : s \in Genesis .. Now
      BY <1>0
    <3>2. QED
      BY <1>0, <3>1
  <2>2. low \subseteq 0 .. Now + ts
    BY <1>0
  <2>3. full \cup low \subseteq 0 .. Now + ts /\ full \cup low # {} /\ Now + ts \in Nat
    BY <1>0, <2>1, <2>2
  <2>4. QED
    BY <2>3, MaxIs
<1>13. top \in Slices
  <2>1. \A s \in full : s \in Genesis .. Now
    BY <1>0
  <2>2. QED
    BY <1>0, <1>12, <2>1, ConstFacts
<1>14. idx \in Nat
  <2>1. CASE top \in full
    <3>1. top \in open /\ Size(p, top) > 0
      BY <2>1
    <3>2. Min({Size(p, top), rm(top)}) - 1 \in Nat
      BY <1>7, <3>1
    <3>3. QED
      BY <2>1, <3>2
  <2>2. CASE top \notin full /\ rest # {}
    BY <1>0, <1>4, <2>2
  <2>3. CASE top \notin full /\ rest = {}
    BY <2>3
  <2>4. QED
    BY <2>1, <2>2, <2>3
<1>15. cutv \in Slices
  <2>1. CASE cut
    <3>0. open # {} /\ Size(p, E) > rm(E)
      BY <2>1
    <3>1. E \in open /\ Size(p, E) > 0
      <4>1. E \in open
        BY <1>5, <3>0
      <4>2. Size(p, E) \in Nat /\ rm(E) \in Nat
        BY <1>7, <4>1
      <4>3. QED
        BY <3>0, <4>1, <4>2
    <3>2. QED
      BY <1>0, <2>1, <3>1, ConstFacts
  <2>2. CASE ~cut
    BY <2>2, ConstFacts
  <2>3. QED
    BY <2>1, <2>2
<1>16. r \in Response
  <2>1. [ts |-> top, idx |-> idx] \in Points
    <3> HIDE DEF top, idx
    <3>1. QED
      BY <1>13, <1>14 DEF Points
  <2>2. endv \in BOOLEAN
    BY Zenon
  <2>3. PICK bl, la, e, cu : bl = blocks /\ la = [ts |-> top, idx |-> idx] /\ e = endv /\ cu = cutv
    BY Zenon
  <2>4. r = [blocks |-> bl, last |-> la, end |-> e, cut |-> cu]
    BY <1>1, <2>3, Zenon
  <2>5. bl \in SUBSET Blocks /\ la \in Points /\ e \in BOOLEAN /\ cu \in Slices
    BY <1>11, <1>15, <2>1, <2>2, <2>3, Zenon
  <2>6. QED
    BY <2>4, <2>5 DEF Response
<1>17. r.end <=> end <= E /\ ~remain
  <2>1. r.end <=> E >= end /\ ~remain
    BY <1>2, Zenon
  <2>2. E \in Int
    BY <1>0, <1>5
  <2>3. QED
    BY <1>0, <2>1, <2>2
<1>18. r.end => /\ end <= E
                /\ open # {} => Size(p, E) <= room
                /\ rest # {} => Max(rest) >= Size(p, ts) - 1
  <2>1. open # {} => Size(p, E) \in Nat /\ room \in Nat
    BY <1>5, <1>6, <1>7
  <2>2. rest # {} => Max(rest) \in Int /\ Size(p, ts) \in Int
    BY <1>0, <1>4
  <2>3. QED
    BY <1>6, <1>17, <2>1, <2>2
<1>19. ASSUME ~r.end, open # {}
       PROVE  /\ top = E /\ idx = (IF Size(p, E) <= room THEN Size(p, E) ELSE room) - 1
              /\ rest # {} => Max(rest) >= Size(p, ts) - 1
  <2>0. E \in open /\ E \in Int /\ Size(p, E) \in Nat /\ room \in Nat /\ room > 0 /\ ts < E
    BY <1>0, <1>5, <1>6, <1>7, <1>19
  <2>1. rest # {} => Max(rest) >= Size(p, ts) - 1
    <3>1. SUFFICES ASSUME rest # {} PROVE Max(rest) >= Size(p, ts) - 1
      OBVIOUS
    <3>2. Max(rest) \in Int /\ Size(p, ts) \in Int /\ Cardinality(rest) < Cap
      BY <1>0, <1>4, <1>5, <1>19, <3>1
    <3>3. QED
      BY <1>0, <1>4, <3>1, <3>2
  <2>2. Size(p, E) > 0
    <3>1. CASE cut
      BY <1>6, <2>0, <3>1
    <3>2. CASE ~cut
      <4>1. rest # {} => ~ (Max(rest) < Size(p, ts) - 1)
        BY <1>0, <1>4, <2>1
      <4>2. ~remain
        BY <3>2, <4>1
      <4>3. E < end
        BY <1>0, <1>17, <1>19, <2>0, <4>2
      <4>4. QED
        BY <1>6, <1>19, <2>0, <4>3
    <3>3. QED
      BY <3>1, <3>2
  <2>3. E \in full
    BY <2>0, <2>2
  <2>4. top = E
    <3>1. E <= top /\ top \in Nat
      BY <1>12, <1>13, <2>3 DEF Slices
    <3>2. \A s \in open : s <= E
      <4>1. {ts} \cup open \subseteq 0 .. ts + end + 1 /\ ts + end + 1 \in Nat
        BY <1>0, <1>5
      <4>2. QED
        BY <4>1, MaxIs
    <3>3. CASE top \in full
      <4>1. top \in open
        BY <3>3
      <4> HIDE DEF top
      <4>2. top <= E
        BY <3>2, <4>1
      <4>3. QED
        BY <2>0, <3>1, <4>2
    <3>4. CASE top \in low
      BY <1>0, <2>0, <3>1, <3>4
    <3>5. QED
      BY <1>12, <3>3, <3>4
  <2>5. idx = Min({Size(p, E), rm(E)}) - 1
    <3> HIDE DEF top
    <3>1. QED
      BY <2>3, <2>4
  <2>6. QED
    BY <1>6, <1>7, <2>0, <2>1, <2>4, <2>5
<1>20. ASSUME ~r.end, open = {}
       PROVE  top = E /\ rest # {} /\ idx = Max(rest)
  <2>1. full = {} /\ ~cut /\ E = ts
    BY <1>5, <1>20
  <2>2. rest # {}
    <3>1. SUFFICES ASSUME rest = {} PROVE FALSE
      OBVIOUS
    <3>2. ~remain
      BY <2>1, <3>1
    <3>3. ts < end
      BY <1>0, <1>17, <1>20, <2>1, <3>2
    <3>4. Cardinality(rest) = 0
      BY <3>1, FS_EmptySet
    <3>5. QED
      BY <1>0, <1>5, <1>20, <3>3, <3>4
  <2>3. full \cup low = {ts}
    BY <2>1, <2>2
  <2>4. top = ts
    BY <1>12, <2>3
  <2>5. QED
    BY <2>1, <2>2, <2>4
<1>21. /\ \A i \in rest : <<p, ts, i>> \in r.blocks
       /\ \A s \in ts + 1 .. E - 1 : \A i \in 0 .. Size(p, s) - 1 : <<p, s, i>> \in r.blocks
       /\ open # {} => \A i \in 0 .. Size(p, E) - 1 : i < room => <<p, E, i>> \in r.blocks
       /\ open # {} => room \in Nat /\ room > 0
  <2>1. ASSUME NEW s \in ts + 1 .. E - 1, NEW i \in 0 .. Size(p, s) - 1 PROVE <<p, s, i>> \in blocks
    <3>1. s \in open /\ Size(p, s) <= rm(s) /\ rm(s) \in Nat /\ Size(p, s) \in Nat
      BY <1>6, <1>7
    <3>2. i < rm(s)
      BY <3>1
    <3>3. QED
      BY <1>8, <3>1, <3>2
  <2>2. \A i \in rest : <<p, ts, i>> \in blocks
    OBVIOUS
  <2>3. open # {} => room \in Nat /\ room > 0
    BY <1>5, <1>6
  <2>4. open # {} => \A i \in 0 .. Size(p, E) - 1 : i < room => <<p, E, i>> \in blocks
    <3>1. ASSUME open # {}, NEW i \in 0 .. Size(p, E) - 1, i < room PROVE <<p, E, i>> \in blocks
      <4>1. E \in open /\ i < rm(E)
        BY <1>5, <1>6, <3>1
      <4>2. QED
        BY <1>8, <4>1
    <3> HIDE DEF blocks
    <3>2. QED
      BY <3>1
  <2> HIDE DEF blocks
  <2>5. QED
    BY <1>2, <2>1, <2>2, <2>3, <2>4
<1>22. r.cut = IF open # {} /\ Size(p, E) > room THEN E ELSE 0
  BY <1>2, <1>6
<1>23. ~r.end => /\ r.last.ts = E
                 /\ open # {} => /\ r.last.idx = (IF Size(p, E) <= room THEN Size(p, E) ELSE room) - 1
                                 /\ rest # {} => Max(rest) >= Size(p, ts) - 1
                 /\ open = {} => rest # {} /\ r.last.idx = Max(rest)
  BY <1>3, <1>19, <1>20
<1>24. QED
  BY <1>16, <1>18, <1>21, <1>22, <1>23 DEF BatchFacts

(* A batch that answers pt, packed with the slice in the cache when pt is within a   *)
(* slice, leaves no hole: it completes the session, or the next acknowledgement is    *)
(* again one that everything before it has been sent for.                            *)
LEMMA BatchGood ==
  ASSUME NEW p \in Peers, NEW pt \in Points, NEW c \in Slices, NEW end \in Genesis .. Now,
         NEW r, r = Batch(p, pt, end, Rest(p, pt, c), Open(p, pt.ts, end, Rest(p, pt, c))),
         NEW fork \in Slices, NEW goal \in Nat, goal <= end, NEW S,
         Reached(p, fork, pt, S), CacheOK(p, fork, pt, c)
  PROVE  /\ r.end => AllUpto(p, fork, goal, S \cup r.blocks)
         /\ ~r.end => /\ Reached(p, fork, r.last, S \cup r.blocks)
                      /\ CacheOK(p, fork, r.last, IF r.cut > 0 THEN r.cut ELSE c)
<1>1. PICK rest, open : rest = Rest(p, pt, c) /\ open = Open(p, pt.ts, end, rest)
  OBVIOUS
<1>2. PICK E, room : E = Max({pt.ts} \cup open) /\ room = Cap - Before(p, pt.ts, rest, E)
  OBVIOUS
<1>3. PICK ts, idx : ts = pt.ts /\ idx = pt.idx
  OBVIOUS
<1>0. /\ ts \in Nat /\ idx \in Nat /\ fork \in Nat /\ end \in Nat /\ Genesis \in Nat
      /\ \A s : Size(p, s) \in Nat
  BY <1>3, ConstFacts, SizeTyped DEF Points, Slices
<1>4. r = Batch(p, pt, end, rest, open)
  BY <1>1
<1>b. BatchFacts(p, pt.ts, end, rest, open, r, E, room)
  BY <1>1, <1>2, <1>4, BatchIs
<1>5. /\ r \in Response
      /\ \A i \in rest : <<p, ts, i>> \in r.blocks
      /\ \A s \in ts + 1 .. E - 1 : \A i \in 0 .. Size(p, s) - 1 : <<p, s, i>> \in r.blocks
      /\ open # {} => \A i \in 0 .. Size(p, E) - 1 : i < room => <<p, E, i>> \in r.blocks
      /\ open # {} => room \in Nat /\ room > 0
      /\ r.end => /\ end <= E
                  /\ open # {} => Size(p, E) <= room
                  /\ rest # {} => Max(rest) >= Size(p, ts) - 1
      /\ ~r.end => /\ r.last.ts = E
                   /\ open # {} => /\ r.last.idx = (IF Size(p, E) <= room THEN Size(p, E) ELSE room) - 1
                                   /\ rest # {} => Max(rest) >= Size(p, ts) - 1
                   /\ open = {} => rest # {} /\ r.last.idx = Max(rest)
      /\ r.cut = IF open # {} /\ Size(p, E) > room THEN E ELSE 0
  BY <1>3, <1>b DEF BatchFacts
<1>6. /\ rest \subseteq 0 .. Size(p, ts) - 1
      /\ rest # {} => /\ c = ts /\ Max(rest) \in rest
                      /\ \A i \in 0 .. Max(rest) : idx < i => i \in rest
      /\ c = ts /\ idx < Size(p, ts) - 1 => rest # {}
  BY <1>1, <1>3, RestIs
<1>7. /\ open \subseteq ts + 1 .. end + 1 /\ (open = {} => E = ts) /\ (open # {} => E \in open)
  <2>1. Cardinality(rest) \in Nat /\ pt.ts \in Slices
    BY <1>1, RestIs DEF Points
  <2>2. QED
    BY <1>1, <1>2, <1>3, <2>1, OpenIs
<1>8. E \in Nat /\ ts <= E /\ (open # {} => ts < E)
  <2>1. CASE open = {}
    BY <1>0, <1>7, <2>1
  <2>2. CASE open # {}
    <3>1. E \in ts + 1 .. end + 1
      BY <1>7, <2>2
    <3>2. QED
      BY <1>0, <3>1
  <2>3. QED
    BY <2>1, <2>2
<1>9. /\ fork <= ts
      /\ \A t \in fork + 1 .. ts : \A i \in 0 .. Size(p, t) - 1 : t < ts \/ i <= idx => <<p, t, i>> \in S
      /\ fork < ts /\ idx < Size(p, ts) - 1 => c = ts
  BY <1>3 DEF Reached, CacheOK
<1>10. ASSUME rest # {} => Max(rest) >= Size(p, ts) - 1, fork < ts, NEW i \in 0 .. Size(p, ts) - 1
       PROVE  <<p, ts, i>> \in S \cup r.blocks
  <2>1. CASE i <= idx
    BY <1>0, <1>9, <1>10, <2>1
  <2>2. CASE ~ (i <= idx)
    <3>1. i \in Nat /\ idx < i /\ idx < Size(p, ts) - 1 /\ i <= Size(p, ts) - 1
      BY <1>0, <2>2
    <3>2. rest # {} /\ Max(rest) \in Int /\ Max(rest) >= Size(p, ts) - 1
      <4>1. c = ts
        BY <1>9, <1>10, <3>1
      <4>2. rest # {} /\ Max(rest) \in 0 .. Size(p, ts) - 1
        BY <1>6, <3>1, <4>1
      <4>3. QED
        BY <1>0, <1>10, <4>2
    <3>3. i \in 0 .. Max(rest)
      BY <1>0, <3>1, <3>2
    <3>4. QED
      BY <1>5, <1>6, <3>1, <3>2, <3>3
  <2>3. QED
    BY <2>1, <2>2
<1>11. ASSUME rest # {} => Max(rest) >= Size(p, ts) - 1, NEW t \in fork + 1 .. E, t < E,
              NEW i \in 0 .. Size(p, t) - 1
       PROVE  <<p, t, i>> \in S \cup r.blocks
  <2>0. t \in Nat /\ fork < t
    BY <1>0
  <2>1. CASE t < ts
    BY <1>0, <1>9, <2>0, <2>1
  <2>2. CASE t = ts
    BY <1>10, <1>11, <2>0, <2>2
  <2>3. CASE ts < t
    <3>1. t \in ts + 1 .. E - 1
      BY <1>0, <1>8, <1>11, <2>0, <2>3
    <3>2. QED
      BY <1>5, <3>1
  <2>4. QED
    BY <1>0, <2>0, <2>1, <2>2, <2>3
<1>12. ASSUME r.end PROVE AllUpto(p, fork, goal, S \cup r.blocks)
  <2>1. ASSUME NEW t \in fork + 1 .. goal, NEW i \in 0 .. Size(p, t) - 1
        PROVE  <<p, t, i>> \in S \cup r.blocks
    <3>1. t \in Nat /\ fork < t /\ t <= E /\ t \in fork + 1 .. E
      BY <1>0, <1>5, <1>8, <1>12
    <3>2. rest # {} => Max(rest) >= Size(p, ts) - 1
      BY <1>5, <1>12
    <3>3. CASE t < E
      BY <1>11, <3>1, <3>2, <3>3
    <3>4. CASE t = E /\ open = {}
      BY <1>7, <1>10, <3>1, <3>2, <3>4
    <3>5. CASE t = E /\ open # {}
      <4>1. Size(p, E) <= room /\ room \in Nat /\ Size(p, E) \in Nat
        BY <1>0, <1>5, <1>12, <3>5
      <4>2. i < room
        BY <3>5, <4>1
      <4>3. QED
        BY <1>5, <3>5, <4>2
    <3>6. QED
      BY <1>8, <3>1, <3>3, <3>4, <3>5
  <2>2. QED
    BY <2>1 DEF AllUpto
<1>13. ASSUME ~r.end, open # {}
       PROVE  /\ Reached(p, fork, r.last, S \cup r.blocks)
              /\ CacheOK(p, fork, r.last, IF r.cut > 0 THEN r.cut ELSE c)
  <2>1. /\ r.last.ts = E /\ r.last.idx = (IF Size(p, E) <= room THEN Size(p, E) ELSE room) - 1
        /\ rest # {} => Max(rest) >= Size(p, ts) - 1
        /\ room \in Nat /\ Size(p, E) \in Nat
    BY <1>0, <1>5, <1>13
  <2>2. ASSUME NEW t \in fork + 1 .. E, NEW i \in 0 .. Size(p, t) - 1, t < E \/ i <= r.last.idx
        PROVE  <<p, t, i>> \in S \cup r.blocks
    <3>1. CASE t < E
      BY <1>11, <2>1, <3>1
    <3>2. CASE ~ (t < E)
      <4>1. t = E
        BY <1>0, <1>8, <3>2
      <4>2. i \in Nat /\ i <= r.last.idx
        BY <2>2, <3>2
      <4>3. i < room
        BY <2>1, <4>1, <4>2
      <4>4. QED
        BY <1>5, <1>13, <4>1, <4>3
    <3>3. QED
      BY <3>1, <3>2
  <2>3. Reached(p, fork, r.last, S \cup r.blocks)
    <3>1. fork <= E
      BY <1>0, <1>8, <1>9
    <3>2. QED
      BY <2>1, <2>2, <3>1 DEF Reached
  <2>4. ASSUME fork < E, r.last.idx < Size(p, E) - 1 PROVE r.cut = E /\ r.cut > 0
    <3>1. Size(p, E) > room
      BY <2>1, <2>4
    <3>2. QED
      BY <1>0, <1>5, <1>8, <1>13, <2>4, <3>1
  <2>5. QED
    BY <2>1, <2>3, <2>4 DEF CacheOK
<1>14. ASSUME ~r.end, open = {}
       PROVE  /\ Reached(p, fork, r.last, S \cup r.blocks)
              /\ CacheOK(p, fork, r.last, IF r.cut > 0 THEN r.cut ELSE c)
  <2>1. /\ r.last.ts = ts /\ E = ts /\ rest # {} /\ r.last.idx = Max(rest) /\ r.cut = 0 /\ c = ts
        /\ Max(rest) \in Nat
    <3>1. E = ts /\ r.last.ts = E /\ rest # {} /\ r.last.idx = Max(rest) /\ r.cut = 0
      BY <1>5, <1>7, <1>14
    <3>2. c = ts /\ Max(rest) \in 0 .. Size(p, ts) - 1
      BY <1>6, <3>1
    <3>3. QED
      BY <1>0, <3>1, <3>2
  <2>2. ASSUME NEW t \in fork + 1 .. ts, NEW i \in 0 .. Size(p, t) - 1, t < ts \/ i <= Max(rest)
        PROVE  <<p, t, i>> \in S \cup r.blocks
    <3>1. CASE t < ts \/ i <= idx
      BY <1>9, <3>1
    <3>2. CASE ~ (t < ts) /\ ~ (i <= idx)
      <4>1. t = ts /\ i \in Nat /\ idx < i /\ i <= Max(rest)
        BY <1>0, <2>2, <3>2
      <4>2. i \in 0 .. Max(rest)
        BY <2>1, <4>1
      <4>3. QED
        BY <1>5, <1>6, <2>1, <4>1, <4>2
    <3>3. QED
      BY <3>1, <3>2
  <2>3. Reached(p, fork, r.last, S \cup r.blocks)
    BY <1>9, <2>1, <2>2 DEF Reached
  <2>4. QED
    BY <2>1, <2>3 DEF CacheOK
<1>15. QED
  BY <1>12, <1>13, <1>14
-----------------------------------------------------------------------------
(* Steps, part by part *)

LEMMA TypesKept ==
  ASSUME Types
  PROVE  /\ UNCHANGED <<tail, link, connects, dups, picked>> => EnvType'
         /\ UNCHANGED <<tasks, posting, lpc, own, lastSYS>> => LoopType'
         /\ UNCHANGED <<idle, syncing>> => FlagType'
         /\ UNCHANGED <<sess, connects>> => SessType'
         /\ UNCHANGED <<locCh, resCh, asked, inq>> => NetType'
         /\ UNCHANGED <<reading, packing, sending, cache>> => ServerType'
<1>1. UNCHANGED <<tail, link, connects, dups, picked>> => EnvType'
  BY DEF Types, EnvType
<1>2. UNCHANGED <<tasks, posting, lpc, own, lastSYS>> => LoopType'
  BY DEF Types, LoopType
<1>3. UNCHANGED <<idle, syncing>> => FlagType'
  BY Zenon DEF Types, FlagType
<1>4. UNCHANGED <<sess, connects>> => SessType'
  BY DEF Types, SessType
<1>5. UNCHANGED <<locCh, resCh, asked, inq>> => NetType'
  BY DEF Types, NetType
<1>6. UNCHANGED <<reading, packing, sending, cache>> => ServerType'
  BY DEF Types, ServerType
<1>7. QED
  BY <1>1, <1>2, <1>3, <1>4, <1>5, <1>6

LEMMA SessFields ==
  ASSUME NEW s \in Session
  PROVE  /\ s.pc \in {"off", "start", "select", "feed", "done", "flag"} /\ s.peer \in Peers
         /\ s.conn \in 0 .. MaxTrouble /\ s.conn \in Nat /\ s.goal \in Slices /\ s.goal \in Nat
         /\ s.fork \in Slices /\ s.fork \in Nat
         /\ s.ack \in Seq(Points) /\ s.retry \in 0 .. MaxRetry /\ s.retryGetlocator \in 0 .. MaxRetry
         /\ s.ticker \in BOOLEAN /\ s.wait \in BOOLEAN /\ s.clean \in BOOLEAN
BY DEF Session, Slices

LEMMA NoSessionTyped ==
  /\ NoSession \in Session /\ NoSession.pc = "off" /\ NoSession.conn = 0 /\ NoSession.ack = << >>
  /\ NoSession.wait = FALSE /\ NoSession.ticker = FALSE
<1>1. (CHOOSE p \in Peers : TRUE) \in Peers
  BY SyncAssumption
<1>2. 0 \in Slices /\ 0 \in 0 .. MaxTrouble /\ 0 \in 0 .. MaxRetry /\ << >> \in Seq(Points)
  BY ConstFacts
<1>3. QED
  BY <1>1, <1>2 DEF NoSession, Session

(* What an ended session leaves *)
LEMMA DoneTyped ==
  ASSUME NEW s, s = [NoSession EXCEPT !.pc = "done"]
  PROVE  s \in Session /\ s.pc = "done" /\ s.conn = 0
<1>1. PICK n \in Session : n = NoSession
  BY NoSessionTyped
<1>2. s = [n EXCEPT !.pc = "done"] /\ n.conn = 0
  BY <1>1, NoSessionTyped
<1>3. QED
  BY <1>2 DEF Session

LEMMA ShortSeq ==
  ASSUME NEW T, NEW s \in Seq(T)
  PROVE  Len(s) \in Nat /\ (Len(s) = 0 => s = << >>) /\ (Len(s) = 1 => Tail(s) = << >>)
<1>1. Len(s) \in Nat
  OBVIOUS
<1>2. Len(s) = 0 => s = << >>
  OBVIOUS
<1>3. ASSUME Len(s) = 1 PROVE Tail(s) = << >>
  <2>0. \A t \in Seq(T) : t = << >> <=> Len(t) = 0
    BY EmptySeq
  <2>5. Len(<< >>) = 0 /\ 1 # 0
    BY EmptySeq
  <2>1. s # << >>
    BY <1>3, <2>5, Zenon
  <2>2. Tail(s) \in Seq(T) /\ Len(Tail(s)) = Len(s) - 1
    BY <2>1
  <2>3. Len(Tail(s)) = 0
    BY <1>3, <2>2
  <2>4. QED
    BY <2>0, <2>2, <2>3, Zenon
<1>4. QED
  BY <1>1, <1>2, <1>3

LEMMA RemoveAtIs ==
  ASSUME NEW T, NEW s \in Seq(T), NEW i \in DOMAIN s
  PROVE  /\ RemoveAt(s, i) \in Seq(T)
         /\ Len(s) <= 1 => i = 1 /\ Len(s) = 1 /\ RemoveAt(s, i) = << >>
<1>1. i \in 1 .. Len(s) /\ Len(s) \in Nat
  OBVIOUS
<1>2. SubSeq(s, 1, i - 1) \in Seq(T) /\ SubSeq(s, i + 1, Len(s)) \in Seq(T)
  BY <1>1, SubSeqProperties
<1>3. RemoveAt(s, i) \in Seq(T)
  BY <1>2 DEF RemoveAt
<1>4. ASSUME Len(s) <= 1 PROVE i = 1 /\ Len(s) = 1 /\ RemoveAt(s, i) = << >>
  <2>0. PICK n \in Nat : n = Len(s)
    BY <1>1
  <2>1. i = 1 /\ Len(s) = 1
    BY <1>1, <1>4, <2>0
  <2>2. Len(SubSeq(s, 1, 0)) = 0 /\ Len(SubSeq(s, 2, 1)) = 0
    BY SubSeqProperties
  <2>3. SubSeq(s, 1, 0) = << >> /\ SubSeq(s, 2, 1) = << >>
    BY <1>2, <2>1, <2>2
  <2>4. QED
    BY <2>1, <2>3 DEF RemoveAt
<1>5. QED
  BY <1>3, <1>4

(* Nothing that a running session relies on changes, except perhaps its connection. *)
LEMMA ProgressSame ==
  ASSUME Progress, sess' = sess, posted' = posted,
         UNCHANGED <<locCh, resCh, asked, inq>>, UNCHANGED <<reading, packing, sending, cache>>,
         Running /\ Alive' => Alive
  PROVE  Progress'
<1>1. SUFFICES ASSUME Running', sess'.clean, Alive' PROVE Phases'
  BY Zenon DEF Progress
<1>2. Running /\ sess.clean /\ Alive
  BY <1>1 DEF Running
<1>3. Phases
  BY <1>2, Zenon DEF Progress
<1>4. QED
  BY <1>3 DEF Phases, Quiet, LocatorPhase, BlockPhase, Good, LastRequest

LEMMA ProgressVacuous ==
  ASSUME ~Running' \/ ~sess'.clean \/ ~Alive'
  PROVE  Progress'
BY Zenon DEF Progress

LEMMA CleanKept ==
  ASSUME CleanEndIsComplete, posted \subseteq posted', last' = last \/ last'.how # "end"
  PROVE  CleanEndIsComplete'
BY DEF CleanEndIsComplete, Missing, Wanted

LEMMA GoalKept ==
  ASSUME GoalInv, Types, sess' = sess, \A p \in Peers : tail[p] <= tail'[p],
         \A p \in Peers : tail'[p] \in Int
  PROVE  GoalInv'
<1>1. sess \in Session /\ \A p \in Peers : tail[p] \in Int
  BY DEF Types, SessType, EnvType
<1>2. sess.peer \in Peers /\ sess.goal \in Int
  BY <1>1, SessFields
<1>3. QED
  BY <1>1, <1>2 DEF GoalInv, Running

LEMMA GoalVacuous ==
  ASSUME ~Running'
  PROVE  GoalInv'
BY DEF GoalInv

LEMMA FlagsKept ==
  ASSUME OneSession, syncing' = syncing, idle' = idle
  PROVE  /\ sess' = sess => OneSession'
         /\ Busy /\ sess'.pc \in {"start", "select", "feed", "done"} => OneSession'
<1>1. sess' = sess => OneSession'
  BY Zenon DEF OneSession
<1>2. ASSUME Busy, sess'.pc \in {"start", "select", "feed", "done"} PROVE OneSession'
  <2>1. sess.pc \in {"start", "select", "feed"}
    BY <1>2 DEF Busy
  <2>2. sess.pc # "off" /\ sess.pc \notin {"off", "flag"} /\ sess'.pc # "off"
    BY <1>2, <2>1
  <2>3. QED
    BY <2>2, Zenon DEF OneSession
<1>3. QED
  BY <1>1, <1>2

LEMMA Facts ==
  ASSUME IInv
  PROVE  /\ Types /\ OneSession /\ FeedInv /\ GoalInv /\ Progress /\ CleanEndIsComplete
         /\ EnvType /\ LoopType /\ FlagType /\ SessType /\ NetType /\ ServerType
         /\ sess \in Session /\ sess.peer \in Peers /\ sess.conn \in Nat /\ sess.conn <= connects
         /\ connects \in Nat /\ \A p \in Peers : tail[p] \in Genesis .. Now /\ tail[p] \in Nat
<1>1. Types /\ OneSession /\ FeedInv /\ GoalInv /\ Progress /\ CleanEndIsComplete
  BY Zenon DEF IInv
<1>2. EnvType /\ LoopType /\ FlagType /\ SessType /\ NetType /\ ServerType
  BY <1>1, Zenon DEF Types
<1>3. sess \in Session /\ sess.conn <= connects
  BY <1>2 DEF SessType
<1>4. connects \in Nat /\ \A p \in Peers : tail[p] \in Genesis .. Now
  BY <1>2 DEF EnvType
<1>5. \A p \in Peers : tail[p] \in Nat
  BY <1>4, ConstFacts
<1>6. QED
  BY <1>1, <1>2, <1>3, <1>4, <1>5, SessFields

(* The session, its flags and what it has done stay as they are. *)
LEMMA StillStep ==
  ASSUME IInv, sess' = sess, syncing' = syncing, idle' = idle, last' = last, posted' = posted,
         EnvType', LoopType', NetType', ServerType', Progress', picked' = picked, lpc' = "feed" => lpc = "feed",
         \A p \in Peers : tail[p] <= tail'[p], connects <= connects'
  PROVE  IInv'
<1>1. FlagType'
  BY Facts, Zenon DEF FlagType
<1>2. SessType'
  <2>1. sess \in Session /\ sess.conn \in Nat /\ connects \in Nat /\ connects' \in Nat /\ sess.conn <= connects
    BY Facts DEF EnvType
  <2>2. QED
    BY <2>1 DEF SessType
<1>3. OneSession'
  BY Facts, FlagsKept
<1>4. GoalInv'
  <2>1. \A p \in Peers : tail'[p] \in Int
    BY ConstFacts DEF EnvType
  <2>2. QED
    BY <2>1, Facts, GoalKept
<1>5. CleanEndIsComplete'
  BY Facts, CleanKept
<1>6. FeedInv'
  BY Facts, Zenon DEF FeedInv, Missing, Wanted
<1>7. QED
  BY <1>1, <1>2, <1>3, <1>4, <1>5, <1>6, Zenon DEF IInv, Types

LEMMA ConnectStep ==
  ASSUME IInv, NEW p \in Peers, Connect(p)
  PROVE  IInv'
<1>1. /\ sess' = sess /\ syncing' = syncing /\ idle' = idle /\ last' = last /\ posted' = posted
      /\ UNCHANGED <<locCh, resCh, asked, inq>> /\ UNCHANGED <<reading, packing, sending, cache>>
      /\ tail' = tail /\ tasks' = tasks /\ lpc' = lpc /\ own' = own /\ lastSYS' = lastSYS /\ dups' = dups
      /\ picked' = picked
  BY Zenon DEF Connect, server, net
<1>2. /\ link[p] = 0 /\ connects + dups < MaxTrouble /\ connects' = connects + 1
      /\ link' = [link EXCEPT ![p] = connects + 1]
      /\ posting' = [posting EXCEPT ![p] = IF tail[p] > own THEN tail[p] ELSE 0]
  BY DEF Connect
<1>3. EnvType /\ LoopType /\ Types /\ Progress /\ GoalInv
  BY Facts
<1>4. EnvType'
  BY <1>1, <1>2, <1>3, ConstFacts DEF EnvType
<1>5. LoopType'
  <2>1. (IF tail[p] > own THEN tail[p] ELSE 0) \in Slices
    BY <1>3, ConstFacts DEF EnvType
  <2>2. QED
    BY <1>1, <1>2, <1>3, <2>1 DEF LoopType
<1>6. NetType' /\ ServerType'
  BY <1>1, <1>3, TypesKept
<1>7. Running /\ Alive' => Alive
  <2>1. sess.peer \in Peers /\ sess.conn <= connects /\ sess.conn \in Nat /\ connects \in Nat
    BY Facts
  <2>2. link \in [Peers -> 0 .. MaxTrouble]
    BY <1>3 DEF EnvType
  <2>3. QED
    BY <1>1, <1>2, <2>1, <2>2 DEF Alive
<1>8. Progress'
  BY <1>1, <1>3, <1>7, ProgressSame
<1>9. (\A q \in Peers : tail[q] <= tail'[q]) /\ connects <= connects'
  BY <1>1, <1>2, Facts
<1>10. QED
  BY <1>1, <1>4, <1>5, <1>6, <1>8, <1>9, StillStep

LEMMA DisconnectStep ==
  ASSUME IInv, NEW p \in Peers, Disconnect(p)
  PROVE  IInv'
<1>1. /\ sess' = sess /\ syncing' = syncing /\ idle' = idle /\ last' = last /\ posted' = posted
      /\ UNCHANGED <<tail, connects, dups, picked>> /\ UNCHANGED <<tasks, posting, lpc, own, lastSYS>>
      /\ UNCHANGED <<reading, packing, sending, locCh, resCh>>
  BY Zenon DEF Disconnect, client
<1>2. /\ link' = [link EXCEPT ![p] = 0] /\ asked' = [asked EXCEPT ![p] = 0]
      /\ inq' = [inq EXCEPT ![p] = << >>] \/ inq' = inq
      /\ cache' = [cache EXCEPT ![p] = 0]
  BY DEF Disconnect
<1>3. EnvType /\ NetType /\ ServerType /\ Types /\ Progress /\ GoalInv /\ sess.peer \in Peers /\ sess.conn \in Nat
  BY Facts
<1>4. EnvType'
  BY <1>1, <1>2, <1>3, ConstFacts DEF EnvType
<1>5. LoopType'
  BY <1>1, <1>3, TypesKept
<1>6a. NetType'
  <2>1. << >> \in Seq(Points)
    OBVIOUS
  <2>2. inq' \in [Peers -> Seq(Points)] /\ asked' \in [Peers -> Nat]
    BY <1>2, <1>3, <2>1 DEF NetType
  <2>3. QED
    BY <1>1, <1>3, <2>2 DEF NetType
<1>6b. ServerType'
  <2>1. cache' \in [Peers -> Slices]
    BY <1>2, <1>3, ConstFacts DEF ServerType
  <2>2. QED
    BY <1>1, <1>3, <2>1 DEF ServerType
<1>6. NetType' /\ ServerType'
  BY <1>6a, <1>6b
<1>7. Progress'
  <2>1. SUFFICES ASSUME Running, sess.clean, Alive' PROVE Phases'
    BY <1>1, Zenon DEF Progress, Running
  <2>2. p # sess.peer /\ Alive
    <3>1. link \in [Peers -> 0 .. MaxTrouble] /\ sess.conn > 0
      BY <1>3, <2>1 DEF EnvType, GoalInv
    <3>2. QED
      BY <1>1, <1>2, <1>3, <2>1, <3>1 DEF Alive
  <2>3. Phases
    BY <1>3, <2>1, <2>2, Zenon DEF Progress
  <2>4. ASSUME NEW q \in Peers
        PROVE  /\ q # p => asked'[q] = asked[q] /\ inq'[q] = inq[q] /\ cache'[q] = cache[q]
               /\ asked'[p] = 0 /\ (inq'[p] = << >> \/ inq'[p] = inq[p])
    BY <1>2, <1>3 DEF NetType, ServerType
  <2>5. \A q \in Peers \ {sess.peer} : Quiet(q)'
    BY <1>1, <2>3, <2>4 DEF Phases, Quiet
  <2>6. /\ asked'[sess.peer] = asked[sess.peer] /\ inq'[sess.peer] = inq[sess.peer]
        /\ cache'[sess.peer] = cache[sess.peer]
    BY <1>3, <2>2, <2>4
  <2>7. QED
    BY <1>1, <2>3, <2>5, <2>6 DEF Phases, LocatorPhase, BlockPhase, Good, LastRequest
<1>8. (\A q \in Peers : tail[q] <= tail'[q]) /\ connects <= connects'
  BY <1>1, Facts
<1>9. QED
  BY <1>1, <1>4, <1>5, <1>6, <1>7, <1>8, StillStep

LEMMA GrowStep ==
  ASSUME IInv, NEW p \in Peers, Grow(p)
  PROVE  IInv'
<1>1. /\ sess' = sess /\ syncing' = syncing /\ idle' = idle /\ last' = last /\ posted' = posted
      /\ UNCHANGED <<link, connects, dups, picked>> /\ UNCHANGED <<tasks, posting, lpc, own, lastSYS>>
      /\ UNCHANGED <<locCh, resCh, asked, inq>> /\ UNCHANGED <<reading, packing, sending, cache>>
  BY Zenon DEF Grow, client, server, net
<1>2. PICK n \in DOMAIN Main[p] : Main[p][n].slice > tail[p] /\ tail' = [tail EXCEPT ![p] = Main[p][n].slice]
  BY DEF Grow
<1>2a. Main[p][n].slice \in Genesis .. Now
  BY SyncAssumption
<1>3. EnvType /\ Types /\ Progress
  BY Facts
<1>4. EnvType'
  BY <1>1, <1>2, <1>2a, <1>3, ConstFacts DEF EnvType
<1>5. LoopType' /\ NetType' /\ ServerType'
  BY <1>1, <1>3, TypesKept
<1>6. Progress'
  <2>1. Running /\ Alive' => Alive
    BY <1>1 DEF Alive
  <2>2. QED
    BY <1>1, <1>3, <2>1, ProgressSame
<1>7. (\A q \in Peers : tail[q] <= tail'[q]) /\ connects <= connects'
  BY <1>1, <1>2, <1>2a, <1>3, Facts DEF EnvType
<1>8. QED
  BY <1>1, <1>4, <1>5, <1>6, <1>7, StillStep

(* Steps of the loop and of the node that leave the session and the network alone *)
LEMMA LoopOnly ==
  ASSUME IInv, UNCHANGED <<idle, picked, syncing, sess, posted, last, dups, tail, link, connects>>,
         UNCHANGED <<locCh, resCh, asked, inq>>, UNCHANGED <<reading, packing, sending, cache>>, LoopType',
         lpc' = "feed" => lpc = "feed"
  PROVE  IInv'
<1>1. /\ sess' = sess /\ syncing' = syncing /\ idle' = idle /\ last' = last /\ posted' = posted
      /\ UNCHANGED <<tail, link, connects, dups, picked>>
  OBVIOUS
<1>2. EnvType' /\ NetType' /\ ServerType'
  BY <1>1, Facts, TypesKept
<1>3. Progress'
  <2>1. Running /\ Alive' => Alive
    BY <1>1 DEF Alive
  <2>2. QED
    BY <1>1, <2>1, Facts, ProgressSame
<1>4. (\A q \in Peers : tail[q] <= tail'[q]) /\ connects <= connects'
  BY <1>1, Facts
<1>5. QED
  BY <1>1, <1>2, <1>3, <1>4, StillStep

LEMMA AdoptStep ==
  ASSUME IInv, NEW s \in Genesis .. Now, Adopt(s)
  PROVE  IInv'
<1>1. /\ UNCHANGED <<idle, picked, syncing, sess, posted, last, dups, tail, link, connects>>
      /\ UNCHANGED <<locCh, resCh, asked, inq>> /\ UNCHANGED <<reading, packing, sending, cache>>
      /\ UNCHANGED <<posting, tasks, lpc, lastSYS>> /\ own' = s
  BY Zenon DEF Adopt, server, net, env
<1>2. LoopType'
  BY <1>1, Facts, ConstFacts DEF LoopType
<1>3. QED
  BY <1>1, <1>2, LoopOnly

LEMMA TakeTaskStep ==
  ASSUME IInv, NEW p \in Peers, TakeTask(p)
  PROVE  IInv'
<1>1. /\ UNCHANGED <<idle, picked, syncing, sess, posted, last, dups, tail, link, connects>>
      /\ UNCHANGED <<locCh, resCh, asked, inq>> /\ UNCHANGED <<reading, packing, sending, cache>>
      /\ UNCHANGED <<own, lastSYS>>
      /\ tasks' = [tasks EXCEPT ![p] = posting[p]] /\ posting' = [posting EXCEPT ![p] = 0] /\ lpc' = "schedule"
  BY Zenon DEF TakeTask, server, net, env
<1>2. LoopType'
  BY <1>1, Facts, ConstFacts DEF LoopType
<1>3. QED
  BY <1>1, <1>2, LoopOnly

LEMMA StopSteps ==
  ASSUME IInv, Tick \/ TakeQuit \/ StopCall
  PROVE  IInv'
<1>1. /\ UNCHANGED <<idle, picked, syncing, sess, posted, last, dups, tail, link, connects>>
      /\ UNCHANGED <<locCh, resCh, asked, inq>> /\ UNCHANGED <<reading, packing, sending, cache>>
      /\ UNCHANGED <<own, lastSYS, posting, tasks>> /\ (lpc' = "schedule" \/ lpc' = "off" \/ lpc' = lpc)
  BY Zenon DEF Tick, TakeQuit, StopCall, server, net, env
<1>2. LoopType'
  BY <1>1, Facts DEF LoopType
<1>3. QED
  BY <1>1, <1>2, LoopOnly

(* discharg meets no running session. *)
LEMMA DropSteps ==
  ASSUME IInv, ScheduleNothing \/ \E p \in Peers : ScheduleDrop(p)
  PROVE  IInv'
<1>1. /\ sess' = sess /\ syncing' = syncing /\ idle' = idle /\ last' = last /\ posted' = posted
      /\ UNCHANGED <<tail, link, connects, dups, picked>> /\ UNCHANGED <<posting, own, lastSYS>>
      /\ UNCHANGED <<locCh, asked, inq>> /\ UNCHANGED <<reading, packing, sending, cache>>
      /\ lpc' = "select" /\ (tasks' = tasks \/ tasks' = [p \in Peers |-> 0])
      /\ Discharge(idle)
  BY Zenon DEF ScheduleNothing, ScheduleDrop, server, env
<1>2. Types /\ LoopType /\ NetType /\ OneSession /\ Progress
  BY Facts
<1>3. EnvType' /\ ServerType'
  BY <1>1, <1>2, TypesKept
<1>4. LoopType'
  BY <1>1, <1>2, ConstFacts DEF LoopType
<1>5. NetType'
  <2>1. resCh' \in Seq(Response)
    BY <1>1, <1>2 DEF Discharge, NetType
  <2>2. QED
    BY <1>1, <1>2, <2>1 DEF NetType
<1>6. Progress'
  <2>1. CASE idle
    <3>1. sess.pc \in {"off", "flag"}
      BY <1>2, <2>1, Zenon DEF OneSession
    <3>2. ~Running'
      BY <1>1, <3>1 DEF Running
    <3>3. QED
      BY <3>2, ProgressVacuous
  <2>2. CASE ~idle
    <3>1. UNCHANGED <<locCh, resCh, asked, inq>>
      BY <1>1, <2>2, Zenon DEF Discharge
    <3>2. Running /\ Alive' => Alive
      BY <1>1 DEF Alive
    <3>3. QED
      BY <1>1, <1>2, <3>1, <3>2, ProgressSame
  <2>3. QED
    BY <2>1, <2>2
<1>7. (\A q \in Peers : tail[q] <= tail'[q]) /\ connects <= connects'
  BY <1>1, Facts
<1>8. QED
  BY <1>1, <1>3, <1>4, <1>5, <1>6, <1>7, StillStep

(* The end of a session: done, then the flag *)
LEMMA FlagSteps ==
  ASSUME IInv, TakeDone \/ ClearFlag
  PROVE  IInv'
<1>1. /\ UNCHANGED <<locCh, resCh, asked, inq>> /\ UNCHANGED <<reading, packing, sending, cache>>
      /\ UNCHANGED <<tail, link, connects, dups, picked>> /\ UNCHANGED <<posting, tasks, own, lastSYS>>
      /\ posted' = posted /\ last' = last /\ (lpc' = lpc \/ lpc' = "schedule")
  BY Zenon DEF TakeDone, ClearFlag, server, net, env
<1>2. Types /\ FlagType /\ LoopType /\ OneSession /\ CleanEndIsComplete /\ sess \in Session /\ sess.conn <= connects
      /\ connects \in Nat
  BY Facts
<1>3. EnvType' /\ NetType' /\ ServerType'
  BY <1>1, <1>2, TypesKept
<1>4. LoopType'
  BY <1>1, <1>2 DEF LoopType
<1>5. /\ sess' \in Session /\ sess'.conn <= connects'
      /\ (sess'.pc = "flag" /\ sess.pc = "done" /\ idle' = TRUE /\ syncing' = syncing)
         \/ (sess'.pc = "off" /\ idle' = idle /\ syncing' = FALSE)
  <2>1. CASE TakeDone
    <3>1. sess' = [sess EXCEPT !.pc = "flag"] /\ sess.pc = "done" /\ idle' = TRUE /\ syncing' = syncing
      BY <2>1, Zenon DEF TakeDone
    <3>2. sess' \in Session /\ sess'.pc = "flag" /\ sess'.conn = sess.conn
      BY <1>2, <3>1 DEF Session
    <3>3. QED
      BY <1>1, <1>2, <3>1, <3>2
  <2>2. CASE ClearFlag
    <3>1. sess' = NoSession /\ syncing' = FALSE /\ idle' = idle
      BY <2>2, Zenon DEF ClearFlag
    <3>2. sess'.conn = 0 /\ connects' \in Nat
      BY <1>1, <1>2, <3>1, NoSessionTyped
    <3>3. QED
      BY <3>1, <3>2, NoSessionTyped
  <2>3. QED
    BY <2>1, <2>2
<1>6. FlagType'
  BY <1>2, <1>5, Zenon DEF FlagType
<1>7. OneSession'
  <2>1. "flag" # "off" /\ "done" # "off"
    OBVIOUS
  <2>2. "flag" \in {"off", "flag"} /\ "off" \in {"off", "flag"}
    OBVIOUS
  <2>3. CASE sess'.pc = "flag" /\ sess.pc = "done" /\ idle' = TRUE /\ syncing' = syncing
    <3>1. sess.pc # "off" /\ sess'.pc # "off" /\ sess'.pc \in {"off", "flag"}
      BY <2>1, <2>2, <2>3
    <3>2. syncing
      BY <1>2, <3>1, Zenon DEF OneSession
    <3>3. QED
      BY <2>3, <3>1, <3>2, Zenon DEF OneSession
  <2>4. CASE sess'.pc = "off" /\ idle' = idle /\ syncing' = FALSE
    <3>1. sess'.pc \in {"off", "flag"}
      BY <2>2, <2>4
    <3>2. QED
      BY <2>4, <3>1, Zenon DEF OneSession
  <2>5. QED
    BY <1>5, <2>3, <2>4
<1>8. ~Running'
  <2>1. sess'.pc = "flag" \/ sess'.pc = "off"
    BY <1>5
  <2>2. QED
    BY <2>1 DEF Running
<1>9. CleanEndIsComplete'
  BY <1>1, <1>2, CleanKept
<1>10. SessType'
  BY <1>5 DEF SessType
<1>11. FeedInv'
  <2>1. sess'.pc # "feed" /\ (lpc' = "feed" => lpc = "feed" /\ ClearFlag)
    BY <1>5 DEF TakeDone, ClearFlag
  <2>2. ClearFlag => sess.pc = "flag"
    BY DEF ClearFlag
  <2>3. lpc' # "feed"
    BY <2>1, <2>2, Facts DEF FeedInv
  <2>4. QED
    BY <2>1, <2>3, Zenon DEF FeedInv
<1>12. QED
  BY <1>3, <1>4, <1>6, <1>7, <1>8, <1>9, <1>10, <1>11, GoalVacuous, ProgressVacuous, Zenon DEF IInv, Types

(* A step of the session's goroutine *)
LEMMA RunStep ==
  ASSUME IInv, Busy, UNCHANGED <<tail, link, connects, picked>>, UNCHANGED <<tasks, posting, lpc, own>>,
         dups' \in Nat, connects + dups' <= MaxTrouble, lastSYS' \in Slices,
         idle' = idle, syncing' = syncing, sess' \in Session, sess'.pc \in {"start", "select", "feed", "done"},
         sess'.pc = "feed" /\ sess'.clean => Missing(sess)' = {},
         sess'.conn <= connects, NetType', ServerType', GoalInv', Progress', CleanEndIsComplete'
  PROVE  IInv'
<1>1. EnvType'
  <2>1. EnvType
    BY Facts
  <2>2. QED
    BY <2>1 DEF EnvType
<1>2. LoopType'
  <2>1. LoopType
    BY Facts
  <2>2. QED
    BY <2>1 DEF LoopType
<1>3. FlagType'
  BY Facts, Zenon DEF FlagType
<1>4. SessType'
  BY DEF SessType
<1>5. OneSession'
  BY Facts, FlagsKept
<1>6. FeedInv'
  <2>1. lpc # "feed"
    BY Facts DEF FeedInv, Busy
  <2>2. QED
    BY <2>1, Zenon DEF FeedInv
<1>7. QED
  BY <1>1, <1>2, <1>3, <1>4, <1>5, <1>6, Zenon DEF IInv, Types

(* The session gives up. *)
LEMMA ExitStep ==
  ASSUME IInv, Running, NEW how, how # "end", NEW s, Exit(how, s),
         UNCHANGED <<tail, link, connects, dups, picked>>, UNCHANGED <<tasks, posting, lpc, own>>,
         lastSYS' \in Slices, idle' = idle, posted \subseteq posted', NetType', ServerType'
  PROVE  IInv'
<1>1. sess' = [NoSession EXCEPT !.pc = "done"] /\ last' = Ended(how, s) /\ syncing' = syncing
  BY Zenon DEF Exit
<1>2. sess' \in Session /\ sess'.pc = "done" /\ sess'.conn = 0
  BY <1>1, DoneTyped
<1>3. dups' \in Nat /\ connects + dups' <= MaxTrouble /\ connects \in Nat
  BY Facts DEF EnvType
<1>4. ~Running'
  BY <1>2 DEF Running
<1>5. last'.how # "end"
  BY <1>1 DEF Ended
<1>6. CleanEndIsComplete'
  BY <1>5, Facts, CleanKept
<1>7. GoalInv' /\ Progress'
  BY <1>4, GoalVacuous, ProgressVacuous
<1>8. sess'.conn <= connects /\ sess'.pc \in {"start", "select", "feed", "done"} /\ sess'.pc # "feed" /\ Busy
  BY <1>2, <1>3 DEF Busy, Running
<1>9. QED
  BY <1>1, <1>2, <1>3, <1>6, <1>7, <1>8, RunStep

(* The session goes on. *)
LEMMA ContinueStep ==
  ASSUME IInv, Running, NEW s \in Session, Continue(s), s.pc = "select",
         s.peer = sess.peer, s.conn = sess.conn, s.goal = sess.goal,
         UNCHANGED <<tail, link, connects, picked>>, UNCHANGED <<tasks, posting, lpc, own>>,
         dups' \in Nat, connects + dups' <= MaxTrouble,
         lastSYS' \in Slices, idle' = idle, posted \subseteq posted', NetType', ServerType', Progress'
  PROVE  IInv'
<1>1. sess' = s /\ last' = last /\ syncing' = syncing
  BY Zenon DEF Continue
<1>2. CleanEndIsComplete'
  BY <1>1, Facts, CleanKept
<1>3. GoalInv'
  BY <1>1, Facts DEF GoalInv
<1>4. /\ sess'.conn <= connects /\ sess'.pc \in {"start", "select", "feed", "done"} /\ sess' \in Session
      /\ sess'.pc # "feed" /\ Busy
  BY <1>1, Facts DEF Busy, Running
<1>5. QED
  BY <1>1, <1>2, <1>3, <1>4, RunStep

LEMMA CancelStep ==
  ASSUME IInv, CancelSession
  PROVE  IInv'
<1>1. /\ UNCHANGED <<locCh, resCh, asked, inq>> /\ UNCHANGED <<reading, packing, sending, cache>>
      /\ UNCHANGED <<tail, link, connects, dups, picked>> /\ UNCHANGED <<tasks, posting, lpc, own>>
      /\ lastSYS' = lastSYS /\ idle' = idle /\ posted' = posted /\ Exit("cancel", sess) /\ sess.pc = "select"
  BY Zenon DEF CancelSession, server, net, env
<1>2. NetType' /\ ServerType' /\ lastSYS' \in Slices
  BY <1>1, Facts, TypesKept DEF LoopType
<1>3. Running /\ "cancel" # "end"
  BY <1>1 DEF Running
<1>4. QED
  BY <1>1, <1>2, <1>3, ExitStep

LEMMA SendGetlocatorStep ==
  ASSUME IInv, SendGetlocator
  PROVE  IInv'
<1>1. /\ UNCHANGED <<locCh, resCh, inq>> /\ UNCHANGED <<reading, packing, sending, cache>>
      /\ UNCHANGED <<tail, link, connects, dups, picked>> /\ UNCHANGED <<tasks, posting, lpc, own>>
      /\ lastSYS' = lastSYS /\ idle' = idle /\ posted' = posted /\ sess.pc = "start"
  BY Zenon DEF SendGetlocator, server, env
<1>2. Running /\ "error" # "end"
  BY <1>1 DEF Running
<1>3. Types /\ NetType /\ Progress /\ sess \in Session /\ sess.peer \in Peers /\ ServerType' /\ lastSYS' \in Slices
      /\ dups' \in Nat /\ connects + dups' <= MaxTrouble
  BY <1>1, Facts, TypesKept DEF LoopType, EnvType
<1>4. CASE ~Alive
  <2>1. Exit("error", sess) /\ asked' = asked
    BY <1>4, Zenon DEF SendGetlocator
  <2>2. NetType'
    BY <1>1, <1>3, <2>1, TypesKept
  <2>3. QED
    BY <1>1, <1>2, <1>3, <2>1, <2>2, ExitStep
<1>5. CASE Alive
  <2>1. PICK s : s = [sess EXCEPT !.pc = "select", !.ticker = TRUE]
    OBVIOUS
  <2>2. asked' = [asked EXCEPT ![sess.peer] = @ + 1] /\ Continue(s)
    BY <1>5, <2>1, Zenon DEF SendGetlocator
  <2>3. /\ s \in Session /\ s.pc = "select" /\ s.peer = sess.peer /\ s.conn = sess.conn /\ s.goal = sess.goal
        /\ s.clean = sess.clean /\ s.wait = sess.wait /\ s.ack = sess.ack /\ s.ticker = TRUE
    BY <1>3, <2>1 DEF Session
  <2>4. NetType'
    BY <1>1, <1>3, <2>2 DEF NetType
  <2>5. sess' = s
    BY <2>2 DEF Continue
  <2>6. Progress'
    <3>1. SUFFICES ASSUME sess'.clean PROVE Phases'
      BY Zenon DEF Progress
    <3>2. Phases
      <4>1. sess.clean
        BY <2>3, <2>5, <3>1
      <4>2. QED
        BY <1>2, <1>3, <1>5, <4>1, Zenon DEF Progress
    <3>3. ~sess.wait
      BY <1>1, <3>2 DEF Phases
    <3>4. LocatorPhase(sess.peer) /\ asked[sess.peer] = 0 /\ locCh = << >>
      BY <1>1, <3>2, <3>3 DEF Phases
    <3>5. ~sess'.wait /\ sess'.pc # "start" /\ sess'.peer = sess.peer
      BY <2>3, <2>5, <3>3
    <3>6. asked'[sess.peer] = 1 /\ \A q \in Peers \ {sess.peer} : asked'[q] = asked[q]
      BY <1>3, <2>2, <3>4 DEF NetType
    <3>7. \A q \in Peers \ {sess'.peer} : Quiet(q)'
      BY <1>1, <3>2, <3>5, <3>6 DEF Phases, Quiet
    <3>8. LocatorPhase(sess.peer)'
      <4>1. Len(locCh') = 0
        BY <1>1, <3>4
      <4>2. QED
        BY <1>1, <2>3, <2>5, <3>4, <3>6, <4>1 DEF LocatorPhase
    <3>9. QED
      BY <3>5, <3>7, <3>8 DEF Phases
  <2>7. posted \subseteq posted'
    BY <1>1
  <2>8. QED
    BY <1>1, <1>2, <1>3, <2>2, <2>3, <2>4, <2>6, <2>7, ContinueStep
<1>6. QED
  BY <1>4, <1>5

LEMMA ForkTyped ==
  ASSUME NEW samples
  PROVE  ForkTimeslice(samples) \in Slices /\ Genesis <= ForkTimeslice(samples)
<1> DEFINE hits == Matching(samples)
           at == IF hits = {} THEN 0 ELSE OwnMain[Max(hits)].slice
           low == (at + Word - 2) % Word
<1>1. at \in 0 .. Now
  <2>1. ASSUME hits # {} PROVE OwnMain[Max(hits)].slice \in Genesis .. Now
    <3>1. PICK k \in Nat : DOMAIN OwnMain = 0 .. k
      <4>1. PICK c \in Nat \ {0} : DOMAIN OwnMain = 0 .. c - 1
        BY SyncAssumption
      <4>2. c - 1 \in Nat
        OBVIOUS
      <4>3. QED
        BY <4>1, <4>2
    <3>2. hits \subseteq 0 .. k
      BY <3>1 DEF Matching
    <3>3. Max(hits) \in hits
      BY <2>1, <3>2, MaxIs
    <3>4. Max(hits) \in DOMAIN OwnMain
      BY <3>3 DEF Matching
    <3>5. QED
      BY <3>4, SyncAssumption
  <2>2. Genesis .. Now \subseteq 0 .. Now /\ 0 \in 0 .. Now
    BY ConstFacts
  <2>3. QED
    BY <2>1, <2>2
<1>2. low \in 0 .. Word - 1
  <2>1. at \in Nat /\ Word \in Nat /\ Word > 2
    BY <1>1, ConstFacts
  <2>2. QED
    BY <2>1
<1> HIDE DEF at, low
<1>3. {low, Genesis} \subseteq 0 .. Word - 1 /\ Word - 1 \in Nat
  BY <1>2, ConstFacts
<1>4. Max({low, Genesis}) \in {low, Genesis} /\ Genesis <= Max({low, Genesis})
  BY <1>3, MaxIs
<1>5. ForkTimeslice(samples) = Max({low, Genesis})
  BY DEF ForkTimeslice, low, at
<1>6. QED
  BY <1>3, <1>4, <1>5 DEF Slices

LEMMA LocatorResponseStep ==
  ASSUME IInv, LocatorResponse
  PROVE  IInv'
<1>1. /\ UNCHANGED <<resCh, asked>> /\ UNCHANGED <<reading, packing, sending, cache>>
      /\ UNCHANGED <<tail, link, connects, dups, picked>> /\ UNCHANGED <<tasks, posting, lpc, own>>
      /\ lastSYS' = lastSYS /\ idle' = idle /\ posted' = posted /\ sess.pc = "select"
      /\ locCh # << >> /\ locCh' = Tail(locCh)
  BY Zenon DEF LocatorResponse, server, env
<1>2. Running /\ "error" # "end"
  BY <1>1 DEF Running
<1>3. Types /\ NetType /\ Progress /\ sess \in Session /\ sess.peer \in Peers /\ ServerType' /\ lastSYS' \in Slices
      /\ dups' \in Nat /\ connects + dups' <= MaxTrouble
  BY <1>1, Facts, TypesKept DEF LoopType, EnvType
<1>4. PICK fork : fork = ForkTimeslice(Head(locCh))
  OBVIOUS
<1>5. fork \in Slices /\ Genesis <= fork /\ fork \in Nat
  <2>2. fork \in Slices /\ Genesis <= fork
    BY <1>4, ForkTyped
  <2>3. QED
    BY <2>2 DEF Slices
<1>6. PICK s : s = [sess EXCEPT !.ticker = FALSE, !.retryGetlocator = 0, !.fork = fork]
  OBVIOUS
<1>7. /\ s \in Session /\ s.pc = "select" /\ s.peer = sess.peer /\ s.conn = sess.conn /\ s.goal = sess.goal
      /\ s.clean = sess.clean /\ s.ack = sess.ack /\ s.ticker = FALSE /\ s.fork = fork
  <2>1. 0 \in 0 .. MaxRetry
    BY ConstFacts
  <2>2. QED
    BY <1>1, <1>3, <1>5, <1>6, <2>1 DEF Session
<1>8. IF Alive THEN SendTo(sess.peer, [ts |-> fork, idx |-> 0]) /\ Continue([s EXCEPT !.wait = TRUE])
      ELSE Exit("error", s) /\ UNCHANGED inq
  BY <1>4, <1>6, Zenon DEF LocatorResponse
<1>9. locCh' \in Seq(SUBSET Sample)
  BY <1>1, <1>3 DEF NetType
<1>10. CASE ~Alive
  <2>1. Exit("error", s) /\ inq' = inq
    BY <1>8, <1>10, Zenon
  <2>2. NetType'
    BY <1>1, <1>3, <1>9, <2>1 DEF NetType
  <2>3. QED
    BY <1>1, <1>2, <1>3, <2>1, <2>2, ExitStep
<1>11. CASE Alive
  <2>1. PICK t, pt : t = [s EXCEPT !.wait = TRUE] /\ pt = [ts |-> fork, idx |-> 0]
    OBVIOUS
  <2>2. inq' = [inq EXCEPT ![sess.peer] = Append(@, pt)] /\ Continue(t)
    BY <1>8, <1>11, <2>1, Zenon DEF SendTo
  <2>3. /\ t \in Session /\ t.pc = "select" /\ t.peer = sess.peer /\ t.conn = sess.conn /\ t.goal = sess.goal
        /\ t.clean = sess.clean /\ t.wait = TRUE /\ t.ack = sess.ack /\ t.ticker = FALSE /\ t.fork = fork
    BY <1>7, <2>1 DEF Session
  <2>4. pt \in Points /\ pt.ts = fork
    BY <1>5, <2>1 DEF Points
  <2>5. inq' \in [Peers -> Seq(Points)]
    BY <1>3, <2>2, <2>4 DEF NetType
  <2>6. NetType'
    BY <1>1, <1>3, <1>9, <2>5 DEF NetType
  <2>7. sess' = t
    BY <2>2 DEF Continue
  <2>8. Progress'
    <3>1. SUFFICES ASSUME sess'.clean PROVE Phases'
      BY Zenon DEF Progress
    <3>2. Phases
      <4>1. sess.clean
        BY <2>3, <2>7, <3>1
      <4>2. QED
        BY <1>2, <1>3, <1>11, <4>1, Zenon DEF Progress
    <3>3. ~sess.wait
      BY <1>1, <3>2 DEF Phases, BlockPhase
    <3>4. /\ inq[sess.peer] = << >> /\ reading[sess.peer] = << >> /\ packing[sess.peer] = << >> /\ sending[sess.peer] = << >> /\ resCh = << >>
          /\ sess.ack = << >> /\ asked[sess.peer] + Len(locCh) <= 1
      BY <3>2, <3>3 DEF Phases, LocatorPhase
    <3>5. asked[sess.peer] = 0 /\ locCh' = << >>
      <4>1. locCh \in Seq(SUBSET Sample) /\ asked[sess.peer] \in Nat /\ Len(locCh) \in Nat
        BY <1>3 DEF NetType
      <4>2. Len(locCh) > 0
        BY <1>1, <4>1
      <4>5. PICK a \in Nat, n \in Nat : a = asked[sess.peer] /\ n = Len(locCh)
        BY <4>1
      <4>6. a + n <= 1 /\ n > 0
        BY <3>4, <4>2, <4>5
      <4>3. asked[sess.peer] = 0 /\ Len(locCh) = 1
        BY <4>5, <4>6
      <4>4. QED
        BY <1>1, <4>1, <4>3
    <3>6. inq'[sess.peer] = <<pt>> /\ \A q \in Peers \ {sess.peer} : inq'[q] = inq[q]
      BY <1>3, <2>2, <3>4 DEF NetType
    <3>7. \A q \in Peers \ {sess'.peer} : Quiet(q)'
      BY <1>1, <2>3, <2>7, <3>2, <3>6 DEF Phases, Quiet
    <3>8. LastRequest' = pt
      BY <2>1, <2>3, <2>7, <3>4 DEF LastRequest
    <3>9. Reached(sess.peer, fork, pt, posted) /\ CacheOK(sess.peer, fork, pt, cache[sess.peer])
      BY <1>5, <2>4 DEF Reached, CacheOK
    <3>10. Len(inq'[sess.peer]) + Len(reading'[sess.peer]) + Len(packing'[sess.peer]) + Len(sending'[sess.peer]) + Len(resCh') <= 1
      <4>1. /\ Len(inq'[sess.peer]) = 1 /\ Len(reading'[sess.peer]) = 0 /\ Len(packing'[sess.peer]) = 0
            /\ Len(sending'[sess.peer]) = 0 /\ Len(resCh') = 0
        BY <1>1, <3>4, <3>6
      <4>2. QED
        BY <4>1
    <3>11. inq'[sess.peer][1] = pt /\ reading'[sess.peer] = << >> /\ packing'[sess.peer] = << >> /\ sending'[sess.peer] = << >> /\ resCh' = << >>
      BY <1>1, <3>4, <3>6
    <3>12. /\ asked'[sess.peer] = 0 /\ sess'.peer = sess.peer /\ sess'.fork = fork /\ ~sess'.ticker
           /\ posted' = posted /\ cache' = cache
      BY <1>1, <2>3, <2>7, <3>5
    <3>13. BlockPhase(sess.peer)'
      BY <1>5, <3>5, <3>8, <3>9, <3>10, <3>11, <3>12 DEF BlockPhase
    <3>14. QED
      BY <2>3, <2>7, <3>7, <3>13 DEF Phases
  <2>9. posted \subseteq posted'
    BY <1>1
  <2>10. QED
    BY <1>1, <1>2, <1>3, <2>2, <2>3, <2>6, <2>8, <2>9, ContinueStep
<1>12. QED
  BY <1>10, <1>11

LEMMA BlockResponseStep ==
  ASSUME IInv, BlockResponse
  PROVE  IInv'
<1>0. PICK r : r = Head(resCh)
  OBVIOUS
<1>1. /\ UNCHANGED <<locCh, asked>> /\ UNCHANGED <<reading, packing, sending, cache>>
      /\ UNCHANGED <<tail, link, connects, dups, picked>> /\ UNCHANGED <<tasks, posting, lpc, own>>
      /\ lastSYS' = r.last.ts /\ idle' = idle /\ posted' = posted \cup r.blocks /\ sess.pc = "select"
      /\ resCh # << >> /\ resCh' = Tail(resCh)
  BY <1>0, Zenon DEF BlockResponse, server, env
<1>2. Running /\ "error" # "end" /\ posted \subseteq posted'
  BY <1>1 DEF Running
<1>3. Types /\ NetType /\ Progress /\ CleanEndIsComplete /\ GoalInv /\ sess \in Session /\ sess.peer \in Peers /\ ServerType'
      /\ dups' \in Nat /\ connects + dups' <= MaxTrouble /\ connects \in Nat
  BY <1>1, Facts, TypesKept DEF EnvType
<1>4. r \in Response /\ r = resCh[1] /\ resCh' \in Seq(Response)
  BY <1>0, <1>1, <1>3 DEF NetType
<1>5. r.last \in Points /\ r.last.ts \in Slices /\ r.end \in BOOLEAN /\ lastSYS' \in Slices
  BY <1>1, <1>4 DEF Response, Points
<1>6. PICK s : s = [sess EXCEPT !.retry = 0]
  OBVIOUS
<1>7. /\ s \in Session /\ s.pc = "select" /\ s.peer = sess.peer /\ s.conn = sess.conn /\ s.goal = sess.goal
      /\ s.clean = sess.clean /\ s.ticker = sess.ticker /\ s.fork = sess.fork
  <2>1. 0 \in 0 .. MaxRetry
    BY ConstFacts
  <2>2. QED
    BY <1>1, <1>3, <1>6, <2>1 DEF Session
<1>8. IF r.end THEN Continue([s EXCEPT !.pc = "feed", !.fresh = @ /\ Alive, !.clean = @ /\ Alive]) /\ UNCHANGED inq
      ELSE IF Alive
           THEN SendTo(sess.peer, r.last) /\ Continue([s EXCEPT !.ack = <<r.last>>, !.wait = TRUE])
           ELSE Exit("error", [s EXCEPT !.ack = <<r.last>>]) /\ UNCHANGED inq
  BY <1>0, <1>6, Zenon DEF BlockResponse
(* what a clean session knows of the answer *)
<1>9. ASSUME sess.clean, Alive
      PROVE  /\ sess.wait /\ BlockPhase(sess.peer) /\ \A q \in Peers \ {sess.peer} : Quiet(q)
             /\ inq[sess.peer] = << >> /\ reading[sess.peer] = << >> /\ packing[sess.peer] = << >> /\ sending[sess.peer] = << >>
             /\ resCh' = << >> /\ Good(r)
  <2>1. Phases
    BY <1>2, <1>3, <1>9, Zenon DEF Progress
  <2>2. sess.wait
    BY <1>1, <2>1 DEF Phases, LocatorPhase
  <2>3. BlockPhase(sess.peer) /\ \A q \in Peers \ {sess.peer} : Quiet(q)
    BY <2>1, <2>2 DEF Phases
  <2>4. /\ inq[sess.peer] \in Seq(Points) /\ reading[sess.peer] \in Seq(Ask) /\ packing[sess.peer] \in Seq(Job) /\ sending[sess.peer] \in Seq(Response)
        /\ resCh \in Seq(Response)
    BY <1>3 DEF Types, NetType, ServerType
  <2>5. PICK a \in Nat, e \in Nat, b \in Nat, c \in Nat, d \in Nat :
           a = Len(inq[sess.peer]) /\ e = Len(reading[sess.peer]) /\ b = Len(packing[sess.peer]) /\ c = Len(sending[sess.peer]) /\ d = Len(resCh)
    BY <2>4
  <2>6. a + e + b + c + d <= 1 /\ d > 0
    <3>1. a + e + b + c + d <= 1
      BY <2>3, <2>5 DEF BlockPhase
    <3>2. d # 0
      BY <1>1, <2>4, <2>5
    <3>3. QED
      BY <3>1, <3>2
  <2>7. a = 0 /\ e = 0 /\ b = 0 /\ c = 0 /\ d = 1
    BY <2>6
  <2>8. inq[sess.peer] = << >> /\ reading[sess.peer] = << >> /\ packing[sess.peer] = << >> /\ sending[sess.peer] = << >> /\ resCh' = << >>
    <3>1. inq[sess.peer] = << >> /\ reading[sess.peer] = << >> /\ packing[sess.peer] = << >> /\ sending[sess.peer] = << >>
      BY <2>4, <2>5, <2>7, ShortSeq
    <3>2. QED
      BY <1>1, <2>4, <2>5, <2>7, <3>1, ShortSeq
  <2>9. Good(r)
    BY <1>1, <1>4, <2>3 DEF BlockPhase
  <2>10. QED
    BY <2>2, <2>3, <2>8, <2>9
<1>10. CASE r.end
  <2>0. PICK cl \in BOOLEAN, fr \in BOOLEAN : cl = (s.clean /\ Alive) /\ fr = (s.fresh /\ Alive)
    OBVIOUS
  <2>1. sess' = [s EXCEPT !.pc = "feed", !.fresh = fr, !.clean = cl] /\ last' = last /\ syncing' = syncing /\ inq' = inq
    BY <1>8, <1>10, <2>0, Zenon DEF Continue
  <2>2. /\ sess' \in Session /\ sess'.pc = "feed" /\ sess'.conn = sess.conn /\ sess'.peer = sess.peer
        /\ sess'.goal = sess.goal /\ sess'.fork = sess.fork /\ sess'.clean = cl
    BY <1>7, <2>0, <2>1 DEF Session
  <2>3. ~Running'
    BY <2>2 DEF Running
  <2>4. GoalInv' /\ Progress'
    BY <2>3, GoalVacuous, ProgressVacuous
  <2>5. NetType'
    BY <1>1, <1>3, <1>4, <2>1 DEF NetType
  <2>6. CleanEndIsComplete'
    BY <1>2, <1>3, <2>1, CleanKept
  <2>7. ASSUME sess'.clean PROVE Missing(sess)' = {}
    <3>5. s.clean /\ Alive
      BY <2>0, <2>2, <2>7
    <3>6. Good(r)
      BY <1>7, <1>9, <3>5
    <3>7. AllUpto(sess.peer, sess.fork, sess.goal, posted')
      BY <1>1, <1>10, <3>6 DEF Good
    <3>8. sess.fork \in Nat /\ sess.goal \in Nat
      BY <1>3, SessFields
    <3>9. BlockPhase(sess.peer)
      BY <1>7, <1>9, <3>5
    <3>10. Genesis <= sess.fork /\ sess.goal <= Now
      BY <1>2, <1>3, <3>9 DEF BlockPhase, GoalInv
    <3>11. ASSUME NEW t \in sess.fork + 1 .. sess.goal, NEW b \in Held(sess.peer, t) PROVE b \in posted'
      <4>1. t \in Genesis .. Now
        BY <3>8, <3>10, ConstFacts
      <4>2. Size(sess.peer, t) = Count[sess.peer][t]
        BY <1>3, <4>1, SyncAssumption DEF Size
      <4>3. PICK i \in 0 .. Size(sess.peer, t) - 1 : b = <<sess.peer, t, i>>
        BY <4>2 DEF Held
      <4>4. QED
        BY <3>7, <4>3 DEF AllUpto
    <3>12. QED
      BY <2>2, <3>11 DEF Missing, Wanted, Held
  <2>8. /\ sess'.conn <= connects /\ sess'.pc \in {"start", "select", "feed", "done"} /\ Busy
    BY <1>1, <2>2, Facts DEF Busy
  <2>9. QED
    BY <1>1, <1>3, <1>5, <2>1, <2>2, <2>4, <2>5, <2>6, <2>7, <2>8, RunStep
<1>11. CASE ~r.end /\ ~Alive
  <2>1. Exit("error", [s EXCEPT !.ack = <<r.last>>]) /\ inq' = inq
    BY <1>8, <1>11, Zenon
  <2>2. NetType'
    BY <1>1, <1>3, <1>4, <2>1 DEF NetType
  <2>3. QED
    BY <1>1, <1>2, <1>3, <1>5, <2>1, <2>2, ExitStep
<1>12. CASE ~r.end /\ Alive
  <2>1. PICK t : t = [s EXCEPT !.ack = <<r.last>>, !.wait = TRUE]
    OBVIOUS
  <2>2. inq' = [inq EXCEPT ![sess.peer] = Append(@, r.last)] /\ Continue(t)
    BY <1>8, <1>12, <2>1, Zenon DEF SendTo
  <2>3. /\ t \in Session /\ t.pc = "select" /\ t.peer = sess.peer /\ t.conn = sess.conn /\ t.goal = sess.goal
        /\ t.clean = sess.clean /\ t.wait = TRUE /\ t.ack = <<r.last>> /\ t.ticker = sess.ticker /\ t.fork = sess.fork
    <3>1. <<r.last>> \in Seq(Points)
      BY <1>5
    <3>2. QED
      BY <1>7, <2>1, <3>1 DEF Session
  <2>4. inq' \in [Peers -> Seq(Points)]
    BY <1>3, <1>5, <2>2 DEF NetType
  <2>5. NetType'
    BY <1>1, <1>3, <1>4, <2>4 DEF NetType
  <2>6. sess' = t
    BY <2>2 DEF Continue
  <2>7. Progress'
    <3>1. SUFFICES ASSUME sess'.clean PROVE Phases'
      BY Zenon DEF Progress
    <3>2. sess.clean
      BY <2>3, <2>6, <3>1
    <3>3. /\ sess.wait /\ BlockPhase(sess.peer) /\ \A q \in Peers \ {sess.peer} : Quiet(q)
          /\ inq[sess.peer] = << >> /\ reading[sess.peer] = << >> /\ packing[sess.peer] = << >> /\ sending[sess.peer] = << >>
          /\ resCh' = << >> /\ Good(r)
      BY <1>9, <1>12, <3>2
    <3>4. inq'[sess.peer] = <<r.last>> /\ \A q \in Peers \ {sess.peer} : inq'[q] = inq[q]
      BY <1>3, <2>2, <3>3 DEF NetType
    <3>5. \A q \in Peers \ {sess'.peer} : Quiet(q)'
      BY <1>1, <2>3, <2>6, <3>3, <3>4 DEF Quiet
    <3>6. LastRequest' = r.last
      <4>1. sess'.ack = <<r.last>>
        BY <2>3, <2>6
      <4>2. <<r.last>> # << >> /\ <<r.last>>[1] = r.last
        OBVIOUS
      <4>3. QED
        BY <4>1, <4>2 DEF LastRequest
    <3>7. Reached(sess.peer, sess.fork, r.last, posted') /\ CacheOK(sess.peer, sess.fork, r.last, cache[sess.peer])
      BY <1>1, <1>12, <3>3 DEF Good
    <3>8. Len(inq'[sess.peer]) + Len(reading'[sess.peer]) + Len(packing'[sess.peer]) + Len(sending'[sess.peer]) + Len(resCh') <= 1
      <4>1. /\ Len(inq'[sess.peer]) = 1 /\ Len(reading'[sess.peer]) = 0 /\ Len(packing'[sess.peer]) = 0
            /\ Len(sending'[sess.peer]) = 0 /\ Len(resCh') = 0
        BY <1>1, <3>3, <3>4
      <4>2. QED
        BY <4>1
    <3>9. inq'[sess.peer][1] = r.last /\ reading'[sess.peer] = << >> /\ packing'[sess.peer] = << >> /\ sending'[sess.peer] = << >> /\ resCh' = << >>
      BY <1>1, <3>3, <3>4
    <3>10. /\ asked'[sess.peer] = 0 /\ locCh' = << >> /\ Genesis <= sess.fork
           /\ sess'.peer = sess.peer /\ sess'.fork = sess.fork /\ ~sess'.ticker /\ cache' = cache
      BY <1>1, <2>3, <2>6, <3>3 DEF BlockPhase
    <3>11. BlockPhase(sess.peer)'
      BY <3>6, <3>7, <3>8, <3>9, <3>10 DEF BlockPhase
    <3>12. QED
      BY <2>3, <2>6, <3>5, <3>11 DEF Phases
  <2>8. QED
    BY <1>1, <1>2, <1>3, <1>5, <2>2, <2>3, <2>5, <2>7, ContinueStep
<1>13. QED
  BY <1>10, <1>11, <1>12

(* The listeners have taken the end of the session. *)
LEMMA FedCompletedStep ==
  ASSUME IInv, FedCompleted
  PROVE  IInv'
<1>1. /\ UNCHANGED <<locCh, resCh, asked, inq>> /\ UNCHANGED <<reading, packing, sending, cache>>
      /\ UNCHANGED <<tail, link, connects, dups, picked>> /\ UNCHANGED <<tasks, posting, lpc, own>>
      /\ lastSYS' = lastSYS /\ idle' = idle /\ posted' = posted /\ sess.pc = "feed"
      /\ sess' = [NoSession EXCEPT !.pc = "done"] /\ last' = Ended("end", sess) /\ syncing' = syncing
  BY Zenon DEF FedCompleted, Exit, server, net, env
<1>2. sess' \in Session /\ sess'.pc = "done" /\ sess'.conn = 0
  BY <1>1, DoneTyped
<1>3. /\ Types /\ FeedInv /\ NetType' /\ ServerType' /\ lastSYS' \in Slices
      /\ dups' \in Nat /\ connects + dups' <= MaxTrouble /\ connects \in Nat
  BY <1>1, Facts, TypesKept DEF LoopType, EnvType
<1>4. ~Running'
  BY <1>2 DEF Running
<1>5. GoalInv' /\ Progress'
  BY <1>4, GoalVacuous, ProgressVacuous
<1>6. CleanEndIsComplete'
  <2>1. SUFFICES ASSUME last'.clean PROVE Missing(last)' = {}
    BY DEF CleanEndIsComplete
  <2>2. last'.peer = sess.peer /\ last'.fork = sess.fork /\ last'.goal = sess.goal /\ last'.clean = sess.clean
    BY <1>1 DEF Ended
  <2>3. Missing(sess) = {}
    BY <1>1, <1>3, <2>1, <2>2 DEF FeedInv
  <2>4. QED
    BY <1>1, <2>2, <2>3 DEF Missing, Wanted
<1>7. /\ sess'.conn <= connects /\ sess'.pc \in {"start", "select", "feed", "done"} /\ sess'.pc # "feed" /\ Busy
  BY <1>1, <1>2, <1>3 DEF Busy
<1>8. QED
  BY <1>1, <1>2, <1>3, <1>5, <1>6, <1>7, RunStep

(* A request that is repeated stays within the bound. *)
LEMMA ResendTyped ==
  ASSUME IInv, NEW p \in Peers, Resend(p)
  PROVE  dups' \in Nat /\ connects + dups' <= MaxTrouble /\ (UnderWay(p) => dups' # dups)
<1>1. connects \in Nat /\ dups \in Nat /\ connects + dups <= MaxTrouble
  BY Facts DEF EnvType
<1>2. CASE UnderWay(p)
  <2>1. dups' = dups + 1 /\ connects + dups < MaxTrouble
    BY <1>2, Zenon DEF Resend
  <2>2. QED
    BY <1>1, <2>1, ConstFacts
<1>3. CASE ~UnderWay(p)
  <2>1. dups' = dups
    BY <1>3, Zenon DEF Resend
  <2>2. QED
    BY <1>1, <1>3, <2>1
<1>4. QED
  BY <1>2, <1>3

LEMMA RequestTyped ==
  ASSUME IInv
  PROVE  LastRequest \in Points
<1>1. sess.fork \in Slices /\ sess.ack \in Seq(Points)
  BY Facts, SessFields
<1>2. [ts |-> sess.fork, idx |-> 0] \in Points
  BY <1>1 DEF Points
<1>3. sess.ack # << >> => sess.ack[1] \in Points
  BY <1>1
<1>4. QED
  BY <1>2, <1>3 DEF LastRequest

LEMMA WaitTimeoutStep ==
  ASSUME IInv, WaitTimeout
  PROVE  IInv'
<1>1. /\ UNCHANGED <<locCh, resCh, asked>> /\ UNCHANGED <<reading, packing, sending, cache>>
      /\ UNCHANGED <<tail, link, connects, picked>> /\ UNCHANGED <<tasks, posting, lpc, own>>
      /\ lastSYS' = lastSYS /\ idle' = idle /\ posted' = posted /\ sess.pc = "select"
  BY Zenon DEF WaitTimeout, server, env
<1>2. Running /\ "error" # "end" /\ "timeout" # "end" /\ posted \subseteq posted'
  BY <1>1 DEF Running
<1>3. Types /\ NetType /\ sess \in Session /\ sess.peer \in Peers /\ ServerType' /\ lastSYS' \in Slices
  BY <1>1, Facts, TypesKept DEF LoopType
<1>4. PICK s : s = [sess EXCEPT !.retry = @ + 1]
  OBVIOUS
<1>5. \/ (Exit("timeout", sess) \/ Exit("error", s)) /\ UNCHANGED <<inq, dups>>
      \/ /\ sess.retry < MaxRetry /\ Resend(sess.peer)
         /\ SendTo(sess.peer, LastRequest) /\ Continue([s EXCEPT !.clean = FALSE])
  BY <1>4, Zenon DEF WaitTimeout
<1>6. CASE (Exit("timeout", sess) \/ Exit("error", s)) /\ UNCHANGED <<inq, dups>>
  <2>1. NetType'
    BY <1>1, <1>3, <1>6, TypesKept
  <2>2. UNCHANGED <<tail, link, connects, dups, picked>>
    BY <1>1, <1>6
  <2>3. QED
    BY <1>1, <1>2, <1>3, <1>6, <2>1, <2>2, ExitStep
<1>7. CASE /\ sess.retry < MaxRetry /\ Resend(sess.peer)
           /\ SendTo(sess.peer, LastRequest) /\ Continue([s EXCEPT !.clean = FALSE])
  <2>1. PICK t : t = [s EXCEPT !.clean = FALSE]
    OBVIOUS
  <2>2. sess.retry + 1 \in 0 .. MaxRetry
    BY <1>3, <1>7, SessFields, ConstFacts
  <2>3. /\ s \in Session /\ s.pc = "select" /\ s.peer = sess.peer /\ s.conn = sess.conn /\ s.goal = sess.goal
    BY <1>1, <1>3, <1>4, <2>2 DEF Session
  <2>4. /\ t \in Session /\ t.pc = "select" /\ t.peer = sess.peer /\ t.conn = sess.conn /\ t.goal = sess.goal
        /\ ~t.clean
    BY <2>1, <2>3 DEF Session
  <2>5. Continue(t) /\ sess' = t
    BY <1>7, <2>1 DEF Continue
  <2>6. inq' \in [Peers -> Seq(Points)]
    BY <1>3, <1>7, RequestTyped DEF NetType, SendTo
  <2>7. NetType'
    BY <1>1, <1>3, <2>6 DEF NetType
  <2>8. Progress'
    BY <2>4, <2>5, ProgressVacuous
  <2>9. dups' \in Nat /\ connects + dups' <= MaxTrouble
    BY <1>3, <1>7, ResendTyped
  <2>10. QED
    BY <1>1, <1>2, <1>3, <2>4, <2>5, <2>7, <2>8, <2>9, ContinueStep
<1>8. QED
  BY <1>5, <1>6, <1>7

LEMMA LocatorTimeoutStep ==
  ASSUME IInv, LocatorTimeout
  PROVE  IInv'
<1>1. /\ UNCHANGED <<locCh, resCh, inq>> /\ UNCHANGED <<reading, packing, sending, cache>>
      /\ UNCHANGED <<tail, link, connects, picked>> /\ UNCHANGED <<tasks, posting, lpc, own>>
      /\ lastSYS' = lastSYS /\ idle' = idle /\ posted' = posted /\ sess.pc = "select" /\ sess.ticker
  BY Zenon DEF LocatorTimeout, server, env
<1>2. Running /\ "timeout" # "end" /\ posted \subseteq posted'
  BY <1>1 DEF Running
<1>3. Types /\ NetType /\ Progress /\ sess \in Session /\ sess.peer \in Peers /\ ServerType' /\ lastSYS' \in Slices
      /\ connects \in Nat /\ dups \in Nat /\ connects + dups <= MaxTrouble
  BY <1>1, Facts, TypesKept DEF LoopType, EnvType
<1>4. PICK cl : cl = (sess.clean /\ dups' = dups)
  OBVIOUS
<1>5. PICK s : s = [sess EXCEPT !.retryGetlocator = @ + 1, !.clean = cl]
  OBVIOUS
<1>6. \/ Exit("timeout", sess) /\ UNCHANGED <<asked, dups>>
      \/ /\ sess.retryGetlocator < MaxRetry
         /\ IF Alive THEN Resend(sess.peer) /\ asked' = [asked EXCEPT ![sess.peer] = @ + 1] ELSE UNCHANGED <<asked, dups>>
         /\ Continue(s)
  BY <1>4, <1>5, Zenon DEF LocatorTimeout
<1>7. CASE Exit("timeout", sess) /\ UNCHANGED <<asked, dups>>
  <2>1. NetType'
    BY <1>1, <1>3, <1>7, TypesKept
  <2>2. UNCHANGED <<tail, link, connects, dups, picked>>
    BY <1>1, <1>7
  <2>3. QED
    BY <1>1, <1>2, <1>3, <1>7, <2>1, <2>2, ExitStep
<1>8. CASE /\ sess.retryGetlocator < MaxRetry
           /\ IF Alive THEN Resend(sess.peer) /\ asked' = [asked EXCEPT ![sess.peer] = @ + 1] ELSE UNCHANGED <<asked, dups>>
           /\ Continue(s)
  <2>1. sess.retryGetlocator + 1 \in 0 .. MaxRetry
    BY <1>3, <1>8, SessFields, ConstFacts
  <2>2. cl \in BOOLEAN
    BY <1>4
  <2>3. /\ s \in Session /\ s.pc = "select" /\ s.peer = sess.peer /\ s.conn = sess.conn /\ s.goal = sess.goal
        /\ s.ack = sess.ack /\ s.wait = sess.wait /\ s.clean = cl
    BY <1>1, <1>3, <1>5, <2>1, <2>2 DEF Session
  <2>4. sess' = s
    BY <1>8 DEF Continue
  <2>5. (Alive /\ Resend(sess.peer) /\ asked' = [asked EXCEPT ![sess.peer] = @ + 1])
        \/ (~Alive /\ asked' = asked /\ dups' = dups)
    BY <1>8
  <2>6. NetType'
    <3>1. asked \in [Peers -> Nat] /\ (asked' = [asked EXCEPT ![sess.peer] = @ + 1] \/ asked' = asked)
      BY <1>3, <2>5 DEF NetType
    <3>2. asked' \in [Peers -> Nat]
      BY <1>3, <3>1
    <3>3. QED
      BY <1>1, <1>3, <3>2 DEF NetType
  <2>7. dups' \in Nat /\ connects + dups' <= MaxTrouble
    BY <1>3, <2>5, ResendTyped
  <2>8. Progress'
    <3>1. SUFFICES ASSUME sess'.clean, Alive' PROVE Phases'
      BY Zenon DEF Progress
    <3>2. sess.clean /\ dups' = dups
      BY <1>4, <2>3, <2>4, <3>1
    <3>3. Alive
      BY <1>1, <2>3, <2>4, <3>1 DEF Alive
    <3>4. ~UnderWay(sess.peer) /\ asked' = [asked EXCEPT ![sess.peer] = @ + 1]
      BY <1>3, <2>5, <3>2, <3>3, ResendTyped
    <3>5. Phases
      BY <1>2, <1>3, <3>2, <3>3, Zenon DEF Progress
    <3>6. ~sess.wait
      BY <1>1, <3>5 DEF Phases, BlockPhase
    <3>7. LocatorPhase(sess.peer)
      BY <3>5, <3>6 DEF Phases
    <3>8. asked[sess.peer] = 0 /\ Len(locCh) = 0
      <4>1. /\ inq[sess.peer] \in Seq(Points) /\ reading[sess.peer] \in Seq(Ask) /\ packing[sess.peer] \in Seq(Job) /\ sending[sess.peer] \in Seq(Response)
            /\ resCh \in Seq(Response) /\ locCh \in Seq(SUBSET Sample) /\ asked[sess.peer] \in Nat
        BY <1>3 DEF Types, NetType, ServerType
      <4>2. PICK a \in Nat, b \in Nat, c \in Nat, d \in Nat, e \in Nat, f \in Nat, g \in Nat :
              /\ a = asked[sess.peer] /\ b = Len(locCh) /\ c = Len(inq[sess.peer]) /\ g = Len(reading[sess.peer])
              /\ d = Len(packing[sess.peer])
              /\ e = Len(sending[sess.peer]) /\ f = Len(resCh)
        <5>1. /\ Len(locCh) \in Nat /\ Len(inq[sess.peer]) \in Nat /\ Len(reading[sess.peer]) \in Nat /\ Len(packing[sess.peer]) \in Nat
              /\ Len(sending[sess.peer]) \in Nat /\ Len(resCh) \in Nat
          BY <4>1, ShortSeq
        <5>2. QED
          BY <4>1, <5>1, Zenon
      <4>3. ~(a + b + c + g + d + e + f > 0)
        BY <3>4, <4>2 DEF UnderWay
      <4>4. a = 0 /\ b = 0
        BY <4>3
      <4>5. QED
        BY <4>2, <4>4
    <3>9. asked'[sess.peer] = 1 /\ \A q \in Peers \ {sess.peer} : asked'[q] = asked[q]
      BY <1>3, <3>4, <3>8 DEF NetType
    <3>10. \A q \in Peers \ {sess'.peer} : Quiet(q)'
      BY <1>1, <2>3, <2>4, <3>5, <3>9 DEF Phases, Quiet
    <3>11. asked'[sess.peer] + Len(locCh') <= 1
      BY <1>1, <3>8, <3>9
    <3>12. LocatorPhase(sess.peer)'
      BY <1>1, <2>3, <2>4, <3>7, <3>11 DEF LocatorPhase
    <3>13. QED
      BY <2>3, <2>4, <3>6, <3>10, <3>12 DEF Phases
  <2>9. QED
    BY <1>1, <1>2, <1>3, <1>8, <2>3, <2>6, <2>7, <2>8, ContinueStep
<1>9. QED
  BY <1>6, <1>7, <1>8

(* The loop picks a peer. *)
LEMMA ScheduleStartStep ==
  ASSUME IInv, NEW p \in Peers, ScheduleStart(p)
  PROVE  IInv'
<1>1. /\ UNCHANGED <<locCh, resCh, asked, inq>> /\ UNCHANGED <<reading, packing, sending, cache>>
      /\ UNCHANGED <<tail, link, connects, dups>> /\ UNCHANGED <<posting, own, lastSYS>>
      /\ posted' = posted /\ last' = last /\ lpc' = "feed" /\ idle' = FALSE /\ syncing' = syncing /\ sess' = sess
      /\ \E S \in Passed(p) : tasks' = [q \in Peers |-> IF q \in S \cup {p} THEN 0 ELSE tasks[q]]
      /\ picked' = [peer |-> p, conn |-> link[p]] /\ p \in connected /\ ~syncing
  BY Zenon DEF ScheduleStart, IsTarget, MaySchedule, server, net, env
<1>2. Types /\ EnvType /\ LoopType /\ SessType /\ FlagType /\ OneSession /\ GoalInv /\ Progress /\ CleanEndIsComplete
  BY Facts
<1>3. NetType' /\ ServerType'
  BY <1>1, <1>2, TypesKept
<1>4. LoopType'
  BY <1>1, <1>2, ConstFacts DEF LoopType
<1>5. FlagType'
  BY <1>1, <1>2, Zenon DEF FlagType
<1>6. /\ link[p] \in 0 .. MaxTrouble /\ link[p] <= connects /\ link[p] > 0
  BY <1>1, <1>2 DEF EnvType, connected
<1>7. EnvType' /\ picked'.conn > 0
  BY <1>1, <1>2, <1>6 DEF EnvType
<1>8. sess.pc = "off"
  BY <1>1, <1>2, Zenon DEF OneSession
<1>9. OneSession'
  BY <1>1, <1>2, Zenon DEF OneSession
<1>10. SessType'
  BY <1>1, <1>2 DEF SessType
<1>11. ~Running'
  BY <1>1, <1>8 DEF Running
<1>12. FeedInv'
  <2>1. sess'.pc = "off" /\ "off" # "feed"
    BY <1>1, <1>8
  <2>2. QED
    BY <1>1, <1>7, <2>1, Zenon DEF FeedInv
<1>13. CleanEndIsComplete'
  BY <1>1, <1>2, CleanKept
<1>14. QED
  BY <1>3, <1>4, <1>5, <1>7, <1>9, <1>10, <1>11, <1>12, <1>13, GoalVacuous, ProgressVacuous, Zenon DEF IInv, Types

(* A new session finds the network quiet or is not clean. *)
LEMMA FedSyncingStep ==
  ASSUME IInv, FedSyncing
  PROVE  IInv'
<1>0a. PICK c \in BOOLEAN : c = ~\E q \in Peers : UnderWay(q)
  OBVIOUS
<1>0b. PICK p, k : p = picked.peer /\ k = picked.conn
  OBVIOUS
<1>0. c = (~\E q \in Peers : UnderWay(q)) /\ p = picked.peer /\ k = picked.conn
  BY <1>0a, <1>0b, Zenon
<1>1. /\ UNCHANGED <<locCh, resCh, asked, inq>> /\ UNCHANGED <<reading, packing, sending, cache>>
      /\ UNCHANGED <<tail, link, connects, dups, picked>> /\ UNCHANGED <<posting, tasks, own, lastSYS, idle>>
      /\ posted' = posted /\ last' = last /\ lpc = "feed" /\ lpc' = "select" /\ syncing' = TRUE
      /\ sess' = [NoSession EXCEPT !.pc = "start", !.peer = p, !.conn = k, !.goal = tail[p], !.fresh = c, !.clean = c]
  BY <1>0, Zenon DEF FedSyncing, server, net, env
<1>2. Types /\ EnvType /\ LoopType /\ NetType /\ FlagType /\ FeedInv /\ CleanEndIsComplete
  BY Facts
<1>3. EnvType' /\ NetType' /\ ServerType'
  BY <1>1, <1>2, TypesKept
<1>4. LoopType'
  BY <1>1, <1>2, ConstFacts DEF LoopType
<1>5. FlagType'
  BY <1>1, <1>2, Zenon DEF FlagType
<1>6. /\ p \in Peers /\ k \in 0 .. MaxTrouble /\ k <= connects /\ k > 0 /\ tail[p] \in Slices /\ tail[p] \in Nat
      /\ tail[p] <= Now
  <2>1. p \in Peers /\ k \in 0 .. MaxTrouble /\ k <= connects
    BY <1>0, <1>2 DEF EnvType
  <2>2. k > 0
    BY <1>0, <1>1, <1>2 DEF FeedInv
  <2>3. QED
    BY <1>2, <2>1, <2>2, ConstFacts DEF EnvType
<1>7. /\ sess' \in Session /\ sess'.pc = "start" /\ sess'.peer = p /\ sess'.conn = k /\ sess'.goal = tail[p]
      /\ sess'.clean = c /\ sess'.wait = FALSE /\ sess'.ack = << >>
  <2>1. PICK n \in Session : n = NoSession
    BY NoSessionTyped
  <2>2. n.wait = FALSE /\ n.ack = << >>
    BY <2>1, NoSessionTyped
  <2>3. sess' = [n EXCEPT !.pc = "start", !.peer = p, !.conn = k, !.goal = tail[p], !.fresh = c, !.clean = c]
    BY <1>1, <2>1
  <2>4. QED
    BY <1>6, <2>2, <2>3 DEF Session
<1>8. SessType'
  BY <1>1, <1>6, <1>7 DEF SessType
<1>9. OneSession'
  <2>1. sess'.pc # "off"
    BY <1>7
  <2>2. ~idle'
    BY <1>1, <1>2, Zenon DEF FeedInv
  <2>3. QED
    BY <1>1, <2>1, <2>2, Zenon DEF OneSession
<1>10. GoalInv'
  BY <1>1, <1>6, <1>7 DEF GoalInv
<1>11. CleanEndIsComplete'
  BY <1>1, <1>2, CleanKept
<1>12. Progress'
  <2>1. SUFFICES ASSUME sess'.clean PROVE Phases'
    BY Zenon DEF Progress
  <2>2. \A q \in Peers : ~UnderWay(q)
    BY <1>0, <1>7, <2>1
  <2>3. ASSUME NEW q \in Peers PROVE Quiet(q) /\ locCh = << >> /\ resCh = << >>
    <3>1. /\ inq[q] \in Seq(Points) /\ reading[q] \in Seq(Ask) /\ packing[q] \in Seq(Job) /\ sending[q] \in Seq(Response)
          /\ resCh \in Seq(Response) /\ locCh \in Seq(SUBSET Sample) /\ asked[q] \in Nat
      BY <1>2 DEF Types, NetType, ServerType
    <3>2. /\ Len(locCh) \in Nat /\ Len(inq[q]) \in Nat /\ Len(reading[q]) \in Nat /\ Len(packing[q]) \in Nat
          /\ Len(sending[q]) \in Nat /\ Len(resCh) \in Nat
      BY <3>1, ShortSeq
    <3>3. PICK x \in Nat, b \in Nat, d \in Nat, e \in Nat, f \in Nat, g \in Nat, h \in Nat :
            /\ h = Len(reading[q]) /\ x = asked[q] /\ b = Len(locCh) /\ d = Len(inq[q]) /\ e = Len(packing[q])
            /\ f = Len(sending[q]) /\ g = Len(resCh)
      BY <3>1, <3>2, Zenon
    <3>4. ~(x + b + d + h + e + f + g > 0)
      BY <2>2, <3>3 DEF UnderWay
    <3>5. x = 0 /\ b = 0 /\ h = 0 /\ d = 0 /\ e = 0 /\ f = 0 /\ g = 0
      BY <3>4
    <3>6. QED
      BY <3>1, <3>3, <3>5, ShortSeq DEF Quiet
  <2>4. \A q \in Peers : Quiet(q)'
    BY <1>1, <2>3 DEF Quiet
  <2>5. locCh' = << >> /\ resCh' = << >> /\ asked'[p] = 0
    BY <1>1, <1>6, <2>3 DEF Quiet
  <2>6. LocatorPhase(p)'
    <3>1. asked'[p] + Len(locCh') <= 1
      BY <2>5
    <3>2. QED
      BY <1>6, <1>7, <2>4, <2>5, <3>1 DEF LocatorPhase, Quiet
  <2>7. LocatorPhase(sess.peer)' /\ asked'[sess'.peer] = 0
    BY <1>7, <2>5, <2>6 DEF LocatorPhase
  <2>8. QED
    BY <1>7, <2>4, <2>5, <2>7 DEF Phases
<1>13. FeedInv'
  <2>1. sess'.pc # "feed" /\ lpc' # "feed"
    BY <1>1, <1>7
  <2>2. QED
    BY <2>1, Zenon DEF FeedInv
<1>14. QED
  BY <1>3, <1>4, <1>5, <1>8, <1>9, <1>10, <1>11, <1>12, <1>13, Zenon DEF IInv, Types
-----------------------------------------------------------------------------
(* Steps of a peer *)

(* The session and the loop do not move. *)
LEMMA ServerKeeps ==
  ASSUME IInv, UNCHANGED <<idle, picked, syncing, sess, posted, last, dups, tail, link, connects>>,
         UNCHANGED <<tasks, posting, lpc, own, lastSYS>>, NetType', ServerType',
         Running /\ sess.clean /\ Alive => Phases'
  PROVE  IInv'
<1>1. /\ sess' = sess /\ syncing' = syncing /\ idle' = idle /\ last' = last /\ posted' = posted
      /\ UNCHANGED <<tail, link, connects, dups, picked>>
  OBVIOUS
<1>2. EnvType' /\ LoopType'
  BY <1>1, Facts, TypesKept
<1>3. Progress'
  <2>1. SUFFICES ASSUME Running', sess'.clean, Alive' PROVE Phases'
    BY Zenon DEF Progress
  <2>2. Running /\ sess.clean /\ Alive
    BY <1>1, <2>1 DEF Running, Alive
  <2>3. QED
    BY <2>2
<1>4. (\A q \in Peers : tail[q] <= tail'[q]) /\ connects <= connects'
  BY <1>1, Facts
<1>5. QED
  BY <1>1, <1>2, <1>3, <1>4, StillStep

LEMMA LocatorReplyStep ==
  ASSUME IInv, NEW p \in Peers, LocatorReply(p)
  PROVE  IInv'
<1>1. /\ UNCHANGED <<idle, picked, syncing, sess, posted, last, dups, tail, link, connects>>
      /\ UNCHANGED <<tasks, posting, lpc, own, lastSYS>> /\ UNCHANGED <<reading, packing, sending, cache>>
      /\ UNCHANGED <<resCh, inq>>
      /\ asked[p] > 0 /\ asked' = [asked EXCEPT ![p] = @ - 1] /\ (locCh' = Append(locCh, Samples(p)) \/ locCh' = locCh)
  BY Zenon DEF LocatorReply, Deliver, server, env
<1>2. Types /\ NetType /\ Progress /\ sess.peer \in Peers
  BY Facts
<1>3. locCh \in Seq(SUBSET Sample) /\ asked \in [Peers -> Nat]
  BY <1>2 DEF NetType
<1>4. NetType'
  <2>1. asked' \in [Peers -> Nat]
    <3>1. asked[p] - 1 \in Nat
      BY <1>1, <1>3
    <3>2. QED
      BY <1>1, <1>3, <3>1
  <2>5. Samples(p) \in SUBSET Sample
    BY DEF Samples, Sample
  <2>4. Append(locCh, Samples(p)) \in Seq(SUBSET Sample)
    BY <1>3, <2>5, AppendProperties
  <2>2. locCh' \in Seq(SUBSET Sample)
    BY <1>1, <1>3, <2>4, Zenon
  <2>3. QED
    BY <1>1, <1>2, <2>1, <2>2 DEF NetType
<1>5. ServerType'
  BY <1>1, <1>2, TypesKept
<1>6. ASSUME Running, sess.clean, Alive PROVE Phases'
  <2>1. Phases
    BY <1>2, <1>6, Zenon DEF Progress
  <2>2. p = sess.peer
    BY <1>1, <2>1 DEF Phases, Quiet
  <2>9. asked[p] # 0
    BY <1>1, <1>3
  <2>10. ~sess.wait
    BY <2>1, <2>2, <2>9, Zenon DEF Phases, BlockPhase
  <2>3. ~sess.wait /\ sess.pc # "start"
    BY <2>1, <2>2, <2>9, <2>10, Zenon DEF Phases
  <2>4. LocatorPhase(p)
    BY <2>1, <2>2, <2>3 DEF Phases
  <2>5. asked'[p] + Len(locCh') <= 1
    <3>1. PICK a \in Nat, n \in Nat : a = asked[p] /\ n = Len(locCh)
      BY <1>3, ShortSeq
    <3>2. a + n <= 1 /\ asked'[p] = a - 1
      BY <1>1, <1>3, <2>4, <3>1 DEF LocatorPhase
    <3>3. Len(locCh') = n + 1 \/ Len(locCh') = n
      BY <1>1, <1>3, <3>1
    <3>4. QED
      BY <3>2, <3>3
  <2>6. \A q \in Peers \ {sess.peer} : Quiet(q)'
    <3>1. \A q \in Peers \ {sess.peer} : asked'[q] = asked[q]
      BY <1>1, <1>3, <2>2
    <3>2. QED
      BY <1>1, <2>1, <3>1 DEF Phases, Quiet
  <2>7. LocatorPhase(sess.peer)'
    BY <1>1, <2>2, <2>4, <2>5 DEF LocatorPhase
  <2>8. QED
    BY <1>1, <2>3, <2>6, <2>7 DEF Phases
<1>7. QED
  BY <1>1, <1>4, <1>5, <1>6, ServerKeeps

(* What a clean session has under way at its peer is one thing. *)
LEMMA OneUnderWay ==
  ASSUME IInv, Phases, NEW p \in Peers,
         inq[p] # << >> \/ reading[p] # << >> \/ packing[p] # << >> \/ sending[p] # << >>
  PROVE  /\ p = sess.peer /\ sess.wait /\ sess.pc = "select" /\ BlockPhase(p) /\ resCh = << >>
         /\ inq[p] # << >> => Len(inq[p]) = 1 /\ reading[p] = << >> /\ packing[p] = << >> /\ sending[p] = << >>
         /\ reading[p] # << >> => inq[p] = << >> /\ Len(reading[p]) = 1 /\ packing[p] = << >> /\ sending[p] = << >>
         /\ packing[p] # << >> => inq[p] = << >> /\ reading[p] = << >> /\ Len(packing[p]) = 1 /\ sending[p] = << >>
         /\ sending[p] # << >> => inq[p] = << >> /\ reading[p] = << >> /\ packing[p] = << >> /\ Len(sending[p]) = 1
<1>1. p = sess.peer
  BY DEF Phases, Quiet
<1>2. sess.wait /\ sess.pc = "select" /\ BlockPhase(p)
  BY <1>1 DEF Phases, LocatorPhase
<1>3. /\ inq[p] \in Seq(Points) /\ reading[p] \in Seq(Ask) /\ packing[p] \in Seq(Job) /\ sending[p] \in Seq(Response)
      /\ resCh \in Seq(Response)
  BY Facts DEF NetType, ServerType
<1>4. /\ Len(inq[p]) \in Nat /\ Len(reading[p]) \in Nat /\ Len(packing[p]) \in Nat /\ Len(sending[p]) \in Nat
      /\ Len(resCh) \in Nat
      /\ (Len(inq[p]) = 0 => inq[p] = << >>) /\ (Len(reading[p]) = 0 => reading[p] = << >>)
      /\ (Len(packing[p]) = 0 => packing[p] = << >>)
      /\ (Len(sending[p]) = 0 => sending[p] = << >>) /\ (Len(resCh) = 0 => resCh = << >>)
  BY <1>3, ShortSeq
<1>5. PICK a \in Nat, e \in Nat, b \in Nat, c \in Nat, d \in Nat :
        a = Len(inq[p]) /\ e = Len(reading[p]) /\ b = Len(packing[p]) /\ c = Len(sending[p]) /\ d = Len(resCh)
  BY <1>4, Zenon
<1>6. a + e + b + c + d <= 1
  BY <1>2, <1>5 DEF BlockPhase
<1>7. /\ a # 0 => a = 1 /\ e = 0 /\ b = 0 /\ c = 0 /\ d = 0
      /\ e # 0 => a = 0 /\ e = 1 /\ b = 0 /\ c = 0 /\ d = 0
      /\ b # 0 => a = 0 /\ e = 0 /\ b = 1 /\ c = 0 /\ d = 0
      /\ c # 0 => a = 0 /\ e = 0 /\ b = 0 /\ c = 1 /\ d = 0
  BY <1>6
<1>8. /\ (inq[p] # << >> => a # 0) /\ (reading[p] # << >> => e # 0)
      /\ (packing[p] # << >> => b # 0) /\ (sending[p] # << >> => c # 0)
  BY <1>4, <1>5, Zenon
<1>9. resCh = << >>
  BY <1>4, <1>5, <1>7, <1>8, Zenon
<1>10. inq[p] # << >> => Len(inq[p]) = 1 /\ reading[p] = << >> /\ packing[p] = << >> /\ sending[p] = << >>
  BY <1>4, <1>5, <1>7, <1>8, Zenon
<1>11. reading[p] # << >> => inq[p] = << >> /\ Len(reading[p]) = 1 /\ packing[p] = << >> /\ sending[p] = << >>
  BY <1>4, <1>5, <1>7, <1>8, Zenon
<1>12. packing[p] # << >> => inq[p] = << >> /\ reading[p] = << >> /\ Len(packing[p]) = 1 /\ sending[p] = << >>
  BY <1>4, <1>5, <1>7, <1>8, Zenon
<1>13. sending[p] # << >> => inq[p] = << >> /\ reading[p] = << >> /\ packing[p] = << >> /\ Len(sending[p]) = 1
  BY <1>4, <1>5, <1>7, <1>8, Zenon
<1>14. QED
  BY <1>1, <1>2, <1>9, <1>10, <1>11, <1>12, <1>13

LEMMA TakeRequestStep ==
  ASSUME IInv, NEW p \in Peers, NEW i \in DOMAIN inq[p], TakeRequest(p, i)
  PROVE  IInv'
<1>0. PICK ask : ask = [pt |-> inq[p][i], end |-> tail[p]]
  OBVIOUS
<1>1. /\ UNCHANGED <<idle, picked, syncing, sess, posted, last, dups, tail, link, connects>>
      /\ UNCHANGED <<tasks, posting, lpc, own, lastSYS>> /\ UNCHANGED <<packing, sending, cache>>
      /\ UNCHANGED <<locCh, resCh, asked>>
      /\ inq' = [inq EXCEPT ![p] = RemoveAt(@, i)] /\ reading' = [reading EXCEPT ![p] = Append(@, ask)]
  BY <1>0, Zenon DEF TakeRequest, client, env
<1>2. Types /\ NetType /\ ServerType /\ Progress /\ GoalInv /\ sess.peer \in Peers /\ tail[p] \in Genesis .. Now
  BY Facts
<1>3. inq \in [Peers -> Seq(Points)] /\ reading \in [Peers -> Seq(Ask)]
  BY <1>2 DEF NetType, ServerType
<1>4. inq[p][i] \in Points /\ RemoveAt(inq[p], i) \in Seq(Points) /\ inq[p] # << >>
  <2>1. inq[p][i] \in Points /\ inq[p] # << >>
    BY <1>3
  <2>2. QED
    BY <1>3, <2>1, RemoveAtIs
<1>5. ask \in Ask /\ ask.pt = inq[p][i] /\ ask.end = tail[p]
  BY <1>0, <1>2, <1>4 DEF Ask
<1>6. NetType'
  <2>1. inq' \in [Peers -> Seq(Points)]
    BY <1>1, <1>3, <1>4
  <2>2. QED
    BY <1>1, <1>2, <2>1 DEF NetType
<1>7. ServerType'
  <2>1. Append(reading[p], ask) \in Seq(Ask)
    BY <1>3, <1>5, AppendProperties
  <2>2. reading' \in [Peers -> Seq(Ask)]
    BY <1>1, <1>3, <2>1
  <2>3. QED
    BY <1>1, <1>2, <2>2 DEF ServerType
<1>8. ASSUME Running, sess.clean, Alive PROVE Phases'
  <2>1. Phases
    BY <1>2, <1>8, Zenon DEF Progress
  <2>2. /\ p = sess.peer /\ sess.wait /\ sess.pc = "select" /\ BlockPhase(p)
        /\ Len(inq[p]) = 1 /\ reading[p] = << >> /\ packing[p] = << >> /\ sending[p] = << >> /\ resCh = << >>
    BY <1>4, <2>1, OneUnderWay
  <2>3. inq'[p] = << >> /\ reading'[p] = <<ask>> /\ i = 1
    <3>1. inq'[p] = RemoveAt(inq[p], i) /\ reading'[p] = Append(reading[p], ask)
      BY <1>1, <1>3
    <3>2. inq[p] \in Seq(Points) /\ Len(inq[p]) <= 1
      BY <1>3, <2>2
    <3>3. i = 1 /\ RemoveAt(inq[p], i) = << >>
      BY <3>2, RemoveAtIs
    <3>4. QED
      BY <2>2, <3>1, <3>3
  <2>4. Len(inq'[p]) + Len(reading'[p]) + Len(packing'[p]) + Len(sending'[p]) + Len(resCh') <= 1
    <3>1. Len(inq'[p]) = 0 /\ Len(reading'[p]) = 1 /\ Len(packing'[p]) = 0 /\ Len(sending'[p]) = 0 /\ Len(resCh') = 0
      BY <1>1, <2>2, <2>3
    <3>2. QED
      BY <3>1
  <2>5. reading'[p][1] = ask
    BY <2>3
  <2>6. LastRequest' = LastRequest
    BY <1>1 DEF LastRequest
  <2>7. ask.pt = LastRequest /\ CacheOK(p, sess.fork, LastRequest, cache[p])
    BY <1>4, <1>5, <2>2, <2>3 DEF BlockPhase
  <2>8. sess.goal <= ask.end
    BY <1>2, <1>5, <1>8, <2>2 DEF GoalInv
  <2>9. BlockPhase(p)'
    BY <1>1, <1>5, <2>2, <2>3, <2>4, <2>5, <2>6, <2>7, <2>8 DEF BlockPhase
  <2>10. \A q \in Peers \ {sess.peer} : Quiet(q)'
    <3>1. \A q \in Peers \ {sess.peer} : inq'[q] = inq[q] /\ reading'[q] = reading[q]
      BY <1>1, <1>3, <2>2
    <3>2. QED
      BY <1>1, <2>1, <3>1 DEF Phases, Quiet
  <2>11. BlockPhase(sess.peer)'
    BY <1>1, <2>2, <2>9
  <2>12. QED
    BY <1>1, <2>2, <2>10, <2>11 DEF Phases
<1>9. QED
  BY <1>1, <1>6, <1>7, <1>8, ServerKeeps

LEMMA ReadCacheStep ==
  ASSUME IInv, NEW p \in Peers, NEW i \in DOMAIN reading[p], ReadCache(p, i)
  PROVE  IInv'
<1>0. PICK ask, job : /\ ask = reading[p][i]
                      /\ job = [pt |-> ask.pt, cache |-> cache[p], end |-> ask.end]
  OBVIOUS
<1>1. /\ UNCHANGED <<idle, picked, syncing, sess, posted, last, dups, tail, link, connects>>
      /\ UNCHANGED <<tasks, posting, lpc, own, lastSYS>> /\ UNCHANGED <<sending, cache>>
      /\ UNCHANGED <<locCh, resCh, asked, inq>>
      /\ reading' = [reading EXCEPT ![p] = RemoveAt(@, i)] /\ packing' = [packing EXCEPT ![p] = Append(@, job)]
  BY <1>0, Zenon DEF ReadCache, client, net, env
<1>2. Types /\ NetType /\ ServerType /\ Progress /\ sess.peer \in Peers
  BY Facts
<1>3. reading \in [Peers -> Seq(Ask)] /\ packing \in [Peers -> Seq(Job)] /\ cache[p] \in Slices
  BY <1>2 DEF ServerType
<1>4. ask \in Ask /\ RemoveAt(reading[p], i) \in Seq(Ask) /\ reading[p] # << >>
  <2>1. ask \in Ask /\ reading[p] # << >>
    BY <1>0, <1>3
  <2>2. QED
    BY <1>3, <2>1, RemoveAtIs
<1>5. job \in Job /\ job.pt = ask.pt /\ job.cache = cache[p] /\ job.end = ask.end
  BY <1>0, <1>3, <1>4 DEF Ask, Job
<1>6. NetType'
  BY <1>1, <1>2, TypesKept
<1>7. ServerType'
  <2>1. Append(packing[p], job) \in Seq(Job)
    BY <1>3, <1>5, AppendProperties
  <2>2. packing' \in [Peers -> Seq(Job)] /\ reading' \in [Peers -> Seq(Ask)]
    BY <1>1, <1>3, <1>4, <2>1
  <2>3. QED
    BY <1>1, <1>2, <2>2 DEF ServerType
<1>8. ASSUME Running, sess.clean, Alive PROVE Phases'
  <2>1. Phases
    BY <1>2, <1>8, Zenon DEF Progress
  <2>2. /\ p = sess.peer /\ sess.wait /\ sess.pc = "select" /\ BlockPhase(p)
        /\ inq[p] = << >> /\ Len(reading[p]) = 1 /\ packing[p] = << >> /\ sending[p] = << >> /\ resCh = << >>
    BY <1>4, <2>1, OneUnderWay
  <2>3. reading'[p] = << >> /\ packing'[p] = <<job>> /\ i = 1
    <3>1. reading'[p] = RemoveAt(reading[p], i) /\ packing'[p] = Append(packing[p], job)
      BY <1>1, <1>3
    <3>2. reading[p] \in Seq(Ask) /\ Len(reading[p]) <= 1
      BY <1>3, <2>2
    <3>3. i = 1 /\ RemoveAt(reading[p], i) = << >>
      BY <3>2, RemoveAtIs
    <3>4. QED
      BY <2>2, <3>1, <3>3
  <2>4. Len(inq'[p]) + Len(reading'[p]) + Len(packing'[p]) + Len(sending'[p]) + Len(resCh') <= 1
    <3>1. Len(inq'[p]) = 0 /\ Len(reading'[p]) = 0 /\ Len(packing'[p]) = 1 /\ Len(sending'[p]) = 0 /\ Len(resCh') = 0
      BY <1>1, <2>2, <2>3
    <3>2. QED
      BY <3>1
  <2>5. packing'[p][1] = job
    BY <2>3
  <2>6. LastRequest' = LastRequest
    BY <1>1 DEF LastRequest
  <2>7. ask.pt = LastRequest /\ CacheOK(p, sess.fork, LastRequest, cache[p]) /\ sess.goal <= ask.end
    BY <1>0, <1>4, <2>2, <2>3 DEF BlockPhase
  <2>8. BlockPhase(p)'
    BY <1>1, <1>5, <2>2, <2>3, <2>4, <2>5, <2>6, <2>7 DEF BlockPhase
  <2>9. \A q \in Peers \ {sess.peer} : Quiet(q)'
    <3>1. \A q \in Peers \ {sess.peer} : reading'[q] = reading[q] /\ packing'[q] = packing[q]
      BY <1>1, <1>3, <2>2
    <3>2. QED
      BY <1>1, <2>1, <3>1 DEF Phases, Quiet
  <2>10. BlockPhase(sess.peer)'
    BY <1>1, <2>2, <2>8
  <2>11. QED
    BY <1>1, <2>2, <2>9, <2>10 DEF Phases
<1>9. QED
  BY <1>1, <1>6, <1>7, <1>8, ServerKeeps

LEMMA PackStep ==
  ASSUME IInv, NEW p \in Peers, NEW i \in DOMAIN packing[p], Pack(p, i)
  PROVE  IInv'
<1>0. PICK job, r : /\ job = packing[p][i]
                    /\ r = Batch(p, job.pt, job.end, Rest(p, job.pt, job.cache),
                                 Open(p, job.pt.ts, job.end, Rest(p, job.pt, job.cache)))
  OBVIOUS
<1>1. /\ UNCHANGED <<idle, picked, syncing, sess, posted, last, dups, tail, link, connects>>
      /\ UNCHANGED <<tasks, posting, lpc, own, lastSYS>> /\ UNCHANGED <<locCh, resCh, asked, inq>>
      /\ packing' = [packing EXCEPT ![p] = RemoveAt(@, i)] /\ sending' = [sending EXCEPT ![p] = Append(@, r)]
      /\ reading' = reading
      /\ cache' = IF r.cut > 0 THEN [cache EXCEPT ![p] = r.cut] ELSE cache
  BY <1>0, Zenon DEF Pack, client, net, env
<1>2. Types /\ NetType /\ ServerType /\ Progress /\ GoalInv /\ sess.peer \in Peers /\ sess \in Session
  BY Facts
<1>3. packing \in [Peers -> Seq(Job)] /\ sending \in [Peers -> Seq(Response)] /\ cache \in [Peers -> Slices]
  BY <1>2 DEF ServerType
<1>4. job \in Job
  BY <1>0, <1>3
<1>5. job.pt \in Points /\ job.cache \in Slices /\ job.end \in Genesis .. Now
  BY <1>4 DEF Job
<1>6. r \in Response
  <2>1. PICK rest, open : rest = Rest(p, job.pt, job.cache) /\ open = Open(p, job.pt.ts, job.end, rest)
    OBVIOUS
  <2>2. PICK E, room : E = Max({job.pt.ts} \cup open) /\ room = Cap - Before(p, job.pt.ts, rest, E)
    OBVIOUS
  <2>3. r = Batch(p, job.pt, job.end, rest, open)
    BY <1>0, <2>1
  <2>4. BatchFacts(p, job.pt.ts, job.end, rest, open, r, E, room)
    BY <1>5, <2>1, <2>2, <2>3, BatchIs
  <2>5. QED
    BY <2>4, Zenon DEF BatchFacts
<1>7. RemoveAt(packing[p], i) \in Seq(Job) /\ Append(sending[p], r) \in Seq(Response) /\ r.cut \in Slices
  <2>1. r.cut \in Slices
    BY <1>6 DEF Response
  <2>2. Append(sending[p], r) \in Seq(Response)
    BY <1>3, <1>6, AppendProperties
  <2>3. QED
    BY <1>3, <2>1, <2>2, RemoveAtIs
<1>8. NetType'
  BY <1>1, <1>2, TypesKept
<1>9. ServerType'
  <2>1. packing' \in [Peers -> Seq(Job)] /\ sending' \in [Peers -> Seq(Response)]
    BY <1>1, <1>3, <1>7
  <2>2. cache' \in [Peers -> Slices]
    BY <1>1, <1>3, <1>7
  <2>3. QED
    BY <1>1, <1>2, <2>1, <2>2 DEF ServerType
<1>10. ASSUME Running, sess.clean, Alive PROVE Phases'
  <2>1. Phases
    BY <1>2, <1>10, Zenon DEF Progress
  <2>2. packing[p] # << >>
    BY <1>3
  <2>3. /\ p = sess.peer /\ sess.wait /\ sess.pc = "select" /\ BlockPhase(p)
        /\ inq[p] = << >> /\ reading[p] = << >> /\ Len(packing[p]) = 1 /\ sending[p] = << >> /\ resCh = << >>
    BY <2>1, <2>2, OneUnderWay
  <2>4. i = 1 /\ RemoveAt(packing[p], i) = << >>
    <3>1. packing[p] \in Seq(Job) /\ Len(packing[p]) <= 1
      BY <1>3, <2>3
    <3>2. QED
      BY <3>1, RemoveAtIs
  <2>5. packing'[p] = << >> /\ sending'[p] = <<r>>
    <3>1. packing'[p] = RemoveAt(packing[p], i) /\ sending'[p] = Append(sending[p], r)
      BY <1>1, <1>3
    <3>2. QED
      BY <2>3, <2>4, <3>1
  <2>6. /\ job.pt = LastRequest /\ job.cache = cache[p] /\ CacheOK(p, sess.fork, LastRequest, cache[p])
        /\ sess.goal <= job.end /\ Reached(p, sess.fork, LastRequest, posted)
    BY <1>0, <2>2, <2>3, <2>4 DEF BlockPhase
  <2>7. sess.fork \in Slices /\ sess.goal \in Nat
    BY <1>2, SessFields
  <2>8. /\ r.end => AllUpto(p, sess.fork, sess.goal, posted \cup r.blocks)
        /\ ~r.end => /\ Reached(p, sess.fork, r.last, posted \cup r.blocks)
                     /\ CacheOK(p, sess.fork, r.last, IF r.cut > 0 THEN r.cut ELSE job.cache)
    BY <1>0, <1>5, <2>6, <2>7, BatchGood
  <2>9. cache'[p] = IF r.cut > 0 THEN r.cut ELSE job.cache
    BY <1>1, <1>3, <2>6
  <2>10. Good(sending[p][1])'
    <3>1. sending'[p][1] = r
      BY <2>5
    <3>2. sess'.peer = p /\ sess'.fork = sess.fork /\ sess'.goal = sess.goal /\ posted' = posted
      BY <1>1, <2>3
    <3>3. CASE r.end
      BY <2>8, <3>1, <3>2, <3>3 DEF Good
    <3>4. CASE ~r.end
      BY <2>8, <2>9, <3>1, <3>2, <3>4 DEF Good
    <3>5. QED
      BY <3>3, <3>4
  <2>11. Len(inq'[p]) + Len(reading'[p]) + Len(packing'[p]) + Len(sending'[p]) + Len(resCh') <= 1
    <3>1. Len(inq'[p]) = 0 /\ Len(reading'[p]) = 0 /\ Len(packing'[p]) = 0 /\ Len(sending'[p]) = 1 /\ Len(resCh') = 0
      BY <1>1, <2>3, <2>5
    <3>2. QED
      BY <3>1
  <2>12. LastRequest' = LastRequest
    BY <1>1 DEF LastRequest
  <2>13. inq'[p] = << >> /\ reading'[p] = << >> /\ resCh' = << >>
    BY <1>1, <2>3
  <2>14. /\ asked'[p] = 0 /\ locCh' = << >> /\ ~sess'.ticker /\ Genesis <= sess'.fork
         /\ Reached(p, sess'.fork, LastRequest, posted')
    BY <1>1, <2>3, <2>6 DEF BlockPhase
  <2>15. BlockPhase(p)'
    BY <2>5, <2>10, <2>11, <2>12, <2>13, <2>14 DEF BlockPhase
  <2>16. \A q \in Peers \ {sess.peer} : Quiet(q)'
    <3>1. \A q \in Peers \ {sess.peer} : packing'[q] = packing[q] /\ sending'[q] = sending[q]
      BY <1>1, <1>3, <2>3
    <3>2. QED
      BY <1>1, <2>1, <3>1 DEF Phases, Quiet
  <2>17. BlockPhase(sess.peer)'
    BY <1>1, <2>3, <2>15
  <2>18. QED
    BY <1>1, <2>3, <2>16, <2>17 DEF Phases
<1>11. QED
  BY <1>1, <1>8, <1>9, <1>10, ServerKeeps

LEMMA SendBatchStep ==
  ASSUME IInv, NEW p \in Peers, NEW i \in DOMAIN sending[p], SendBatch(p, i)
  PROVE  IInv'
<1>1. /\ UNCHANGED <<idle, picked, syncing, sess, posted, last, dups, tail, link, connects>>
      /\ UNCHANGED <<tasks, posting, lpc, own, lastSYS>> /\ UNCHANGED <<reading, packing, cache>>
      /\ UNCHANGED <<locCh, asked, inq>>
      /\ sending' = [sending EXCEPT ![p] = RemoveAt(@, i)]
      /\ resCh' = Append(resCh, sending[p][i]) \/ resCh' = resCh
  BY Zenon DEF SendBatch, Deliver, env
<1>2. Types /\ NetType /\ ServerType /\ Progress /\ sess.peer \in Peers
  BY Facts
<1>3. sending \in [Peers -> Seq(Response)] /\ resCh \in Seq(Response)
  BY <1>2 DEF NetType, ServerType
<1>4. sending[p][i] \in Response
  BY <1>3
<1>5. NetType'
  <2>1. Append(resCh, sending[p][i]) \in Seq(Response)
    BY <1>3, <1>4, AppendProperties
  <2>2. resCh' \in Seq(Response)
    BY <1>1, <1>3, <2>1, Zenon
  <2>3. QED
    BY <1>1, <1>2, <2>2 DEF NetType
<1>6. ServerType'
  <2>1. RemoveAt(sending[p], i) \in Seq(Response)
    BY <1>3, RemoveAtIs
  <2>2. sending' \in [Peers -> Seq(Response)]
    BY <1>1, <1>3, <2>1
  <2>3. QED
    BY <1>1, <1>2, <2>2 DEF ServerType
<1>7. ASSUME Running, sess.clean, Alive PROVE Phases'
  <2>1. Phases
    BY <1>2, <1>7, Zenon DEF Progress
  <2>2. sending[p] # << >>
    BY <1>3
  <2>3. /\ p = sess.peer /\ sess.wait /\ sess.pc = "select" /\ BlockPhase(p)
        /\ inq[p] = << >> /\ reading[p] = << >> /\ packing[p] = << >> /\ Len(sending[p]) = 1 /\ resCh = << >>
    BY <2>1, <2>2, OneUnderWay
  <2>4. i = 1 /\ sending'[p] = << >>
    <3>1. sending[p] \in Seq(Response) /\ Len(sending[p]) <= 1 /\ sending'[p] = RemoveAt(sending[p], i)
      BY <1>1, <1>3, <2>3
    <3>2. QED
      BY <3>1, RemoveAtIs
  <2>5. PICK r : r = sending[p][1]
    OBVIOUS
  <2>6. resCh' = <<r>> \/ resCh' = << >>
    BY <1>1, <2>3, <2>4, <2>5
  <2>7. Good(r) /\ Good(r)'
    <3>1. Good(r)
      BY <2>2, <2>3, <2>5 DEF BlockPhase
    <3>2. QED
      BY <1>1, <3>1 DEF Good
  <2>8. resCh' # << >> => Good(resCh[1])'
    <3>1. ASSUME resCh' # << >> PROVE resCh'[1] = r
      BY <2>6, <3>1
    <3>2. QED
      BY <1>1, <2>7, <3>1 DEF Good
  <2>9. Len(inq'[p]) + Len(reading'[p]) + Len(packing'[p]) + Len(sending'[p]) + Len(resCh') <= 1
    <3>1. Len(inq'[p]) = 0 /\ Len(reading'[p]) = 0 /\ Len(packing'[p]) = 0 /\ Len(sending'[p]) = 0
      BY <1>1, <2>3, <2>4
    <3>2. PICK n \in {0, 1} : Len(resCh') = n
      BY <2>6
    <3>3. QED
      BY <3>1, <3>2
  <2>10. LastRequest' = LastRequest
    BY <1>1 DEF LastRequest
  <2>11. /\ inq'[p] = << >> /\ reading'[p] = << >> /\ packing'[p] = << >> /\ asked'[p] = 0 /\ locCh' = << >> /\ ~sess'.ticker
         /\ Genesis <= sess'.fork /\ Reached(p, sess'.fork, LastRequest, posted')
    BY <1>1, <2>3 DEF BlockPhase
  <2>12. BlockPhase(p)'
    BY <2>4, <2>8, <2>9, <2>10, <2>11 DEF BlockPhase
  <2>13. \A q \in Peers \ {sess.peer} : Quiet(q)'
    <3>1. \A q \in Peers \ {sess.peer} : sending'[q] = sending[q]
      BY <1>1, <1>3, <2>3
    <3>2. QED
      BY <1>1, <2>1, <3>1 DEF Phases, Quiet
  <2>14. BlockPhase(sess.peer)'
    BY <1>1, <2>3, <2>12
  <2>15. QED
    BY <1>1, <2>3, <2>13, <2>14 DEF Phases
<1>8. QED
  BY <1>1, <1>5, <1>6, <1>7, ServerKeeps
-----------------------------------------------------------------------------
(* The invariant and what follows from it *)

LEMMA InitHolds == Init => IInv
<1> SUFFICES ASSUME Init PROVE IInv
  OBVIOUS
<1>0. \A p \in Peers : FirstTail[p] \in Genesis .. Now
  BY SyncAssumption
<1>1. EnvType
  <2>1. tail = FirstTail /\ link = [p \in Peers |-> 0] /\ connects = 0 /\ dups = 0
    BY DEF Init
  <2>2. FirstTail \in [Peers -> Genesis .. Now]
    BY SyncAssumption
  <2>3. QED
    <3>1. picked = [peer |-> NoSession.peer, conn |-> 0]
      BY DEF Init
    <3>2. NoSession.peer \in Peers
      BY NoSessionTyped, SessFields
    <3>3. QED
      BY <2>1, <2>2, <3>1, <3>2, ConstFacts DEF EnvType
<1>2. LoopType
  <2>1. /\ posting = [p \in Peers |-> 0] /\ tasks = [p \in Peers |-> 0] /\ lpc = "schedule" /\ lastSYS = Genesis
        /\ own = OwnMain[Cardinality(DOMAIN OwnMain) - 1].slice
    BY DEF Init
  <2>5. Cardinality(DOMAIN OwnMain) - 1 \in DOMAIN OwnMain
    <3>1. PICK c \in Nat \ {0} : c = Cardinality(DOMAIN OwnMain) /\ DOMAIN OwnMain = 0 .. c - 1
      BY SyncAssumption, Zenon
    <3>2. c - 1 \in 0 .. c - 1
      OBVIOUS
    <3>3. QED
      BY <3>1, <3>2, Zenon
  <2>2. own \in Genesis .. Now
    BY <2>1, <2>5, SyncAssumption
  <2>3. Genesis \in Genesis .. Now
    BY ConstFacts
  <2>4. QED
    BY <2>1, <2>2, <2>3, ConstFacts DEF LoopType
<1>3. idle = TRUE /\ syncing = FALSE /\ sess = NoSession
  BY Zenon DEF Init
<1>4. FlagType
  BY <1>3, Zenon DEF FlagType
<1>5. SessType /\ sess.pc = "off"
  <2>1. connects = 0
    BY DEF Init
  <2>2. QED
    BY <1>3, <2>1, NoSessionTyped DEF SessType
<1>6. NetType
  BY DEF Init, NetType
<1>7. ServerType
  BY ConstFacts DEF Init, ServerType
<1>8. OneSession
  <2>1. "off" \in {"off", "flag"}
    OBVIOUS
  <2>2. QED
    BY <1>3, <1>5, <2>1, Zenon DEF OneSession
<1>9. ~Running
  BY <1>5 DEF Running
<1>10. GoalInv
  BY <1>9 DEF GoalInv
<1>11. Progress
  BY <1>9, Zenon DEF Progress
<1>12. CleanEndIsComplete
  <2>1. last = Ended("none", NoSession)
    BY DEF Init
  <2>2. last.how # "end"
    BY <2>1 DEF Ended
  <2>3. QED
    BY <2>2 DEF CleanEndIsComplete
<1>13. FeedInv
  <2>1. lpc = "schedule"
    BY DEF Init
  <2>2. lpc # "feed" /\ sess.pc # "feed"
    BY <1>5, <2>1
  <2>3. QED
    BY <2>2, Zenon DEF FeedInv
<1>14. QED
  BY <1>1, <1>2, <1>4, <1>5, <1>6, <1>7, <1>8, <1>10, <1>11, <1>12, <1>13, Zenon DEF IInv, Types

LEMMA StutterStep ==
  ASSUME IInv, UNCHANGED vars
  PROVE  IInv'
<1>1. /\ UNCHANGED <<idle, picked, syncing, sess, posted, last, dups, tail, link, connects>>
      /\ UNCHANGED <<locCh, resCh, asked, inq>> /\ UNCHANGED <<reading, packing, sending, cache>>
      /\ UNCHANGED <<tasks, posting, lpc, own, lastSYS>>
  BY Zenon DEF vars, client, server, net, env
<1>2. LoopType'
  BY <1>1, Facts, TypesKept
<1>3. QED
  BY <1>1, <1>2, LoopOnly

LEMMA NextHolds == IInv /\ [Next]_vars => IInv'
<1> SUFFICES ASSUME IInv, [Next]_vars PROVE IInv'
  OBVIOUS
<1>1. CASE UNCHANGED vars
  BY <1>1, StutterStep
<1>2. CASE LoopStep
  <2>1. CASE TakeDone
    BY <2>1, FlagSteps
  <2>2. CASE Tick \/ TakeQuit
    BY <2>2, StopSteps
  <2>3. CASE ScheduleNothing \/ \E p \in Peers : ScheduleDrop(p)
    BY <2>3, DropSteps
  <2>4. ASSUME NEW p \in Peers, TakeTask(p) PROVE IInv'
    BY <2>4, TakeTaskStep
  <2>5. ASSUME NEW p \in Peers, ScheduleStart(p) PROVE IInv'
    BY <2>5, ScheduleStartStep
  <2>6. CASE FedSyncing
    BY <2>6, FedSyncingStep
  <2>7. QED
    BY <1>2, <2>1, <2>2, <2>3, <2>4, <2>5, <2>6, Zenon DEF LoopStep
<1>3. CASE SessionStep
  BY <1>3, FlagSteps, SendGetlocatorStep, LocatorResponseStep, BlockResponseStep, FedCompletedStep, WaitTimeoutStep, LocatorTimeoutStep,
     CancelStep, Zenon DEF SessionStep
<1>4. CASE StopCall
  BY <1>4, StopSteps
<1>5. ASSUME NEW p \in Peers, ServerStep(p) PROVE IInv'
  <2>1. CASE LocatorReply(p)
    BY <2>1, LocatorReplyStep
  <2>2. ASSUME NEW i \in DOMAIN inq[p], TakeRequest(p, i) PROVE IInv'
    BY <2>2, TakeRequestStep
  <2>2a. ASSUME NEW i \in DOMAIN reading[p], ReadCache(p, i) PROVE IInv'
    BY <2>2a, ReadCacheStep
  <2>3. ASSUME NEW i \in DOMAIN packing[p], Pack(p, i) PROVE IInv'
    BY <2>3, PackStep
  <2>4. ASSUME NEW i \in DOMAIN sending[p], SendBatch(p, i) PROVE IInv'
    BY <2>4, SendBatchStep
  <2>5. QED
    BY <1>5, <2>1, <2>2, <2>2a, <2>3, <2>4, Zenon DEF ServerStep
<1>6. ASSUME NEW p \in Peers, Connect(p) \/ Disconnect(p) \/ Grow(p) PROVE IInv'
  BY <1>6, ConnectStep, DisconnectStep, GrowStep, Zenon
<1>7. ASSUME NEW s \in Genesis .. Now, Adopt(s) PROVE IInv'
  BY <1>7, AdoptStep
<1>8. QED
  BY <1>1, <1>2, <1>3, <1>4, <1>5, <1>6, <1>7, Zenon DEF Next

(* The inductive invariant: types, the flags of the loop and of clear, the goal  *)
(* of the session, what is under way for a clean session, and the completeness   *)
(* of the last one (synchroiniseV2 and the handlers of the peers).               *)
THEOREM Inductive == Spec => []IInv
<1>1. QED
  BY InitHolds, NextHolds, PTL DEF Spec

(* Every variable stays in its set, whatever the peers hold and however often      *)
(* they reconnect.                                                               *)
THEOREM TypeCorrect == Spec => []TypeOK
<1>1. ASSUME IInv PROVE TypeOK
  <2>1. EnvType /\ LoopType /\ FlagType /\ SessType /\ ServerType
    BY <1>1, Facts
  <2>2. /\ link \in [Peers -> 0 .. MaxTrouble] /\ lpc \in {"schedule", "feed", "select", "off"}
        /\ sess \in Session /\ lastSYS \in Slices /\ own \in Slices
    BY <2>1 DEF EnvType, LoopType, SessType
  <2>3. {idle, syncing} \subseteq BOOLEAN
    BY <2>1, Zenon DEF FlagType
  <2>4. dups \in 0 .. MaxTrouble
    <3>1. connects \in Nat /\ dups \in Nat /\ connects + dups <= MaxTrouble
      BY <2>1 DEF EnvType
    <3>2. QED
      BY <3>1, ConstFacts
  <2>5. \A p \in Peers : tail[p] \in Slices /\ tasks[p] \in Slices /\ posting[p] \in Slices /\ cache[p] \in Slices
    BY <2>1, ConstFacts DEF EnvType, LoopType, ServerType
  <2>6. \A p \in Peers : \A i \in DOMAIN sending[p] : sending[p][i] \in Response
    BY <2>1 DEF ServerType
  <2>7. QED
    BY <2>2, <2>3, <2>4, <2>5, <2>6, Zenon DEF TypeOK
<1>2. QED
  BY <1>1, Inductive, PTL

(* idle and syncing tell the truth about the session although two goroutines        *)
(* write them: the loop drains no channel of a running session and starts no second   *)
(* one before clear has finished (discharg, schedule, clear).                        *)
THEOREM OneSessionHolds == Spec => []OneSession
<1>1. IInv => OneSession
  BY Zenon DEF IInv
<1>2. QED
  BY <1>1, Inductive, PTL

(* A clean session that ends regularly has posted every block its peer held between  *)
(* the fork and the end of its main chain (handleSYNCBlockRequest,                    *)
(* handleSYNCBlockResponseACK, handleSYNCBlockResponse), however the blocks are spread  *)
(* over the slices and wherever a batch cuts one.                                    *)
THEOREM CleanEndIsCompleteHolds == Spec => []CleanEndIsComplete
<1>1. IInv => CleanEndIsComplete
  BY Zenon DEF IInv
<1>2. QED
  BY <1>1, Inductive, PTL
==============================================================================
