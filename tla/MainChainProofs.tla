--------------------------- MODULE MainChainProofs ---------------------------
(***************************************************************************)
(* Proofs about MainChain, for every number of workers, every bound and      *)
(* every graph of blocks whose links go back in time (LinksInOrder).         *)
(***************************************************************************)
EXTENDS MainChainLedger, Sums, SequenceTheorems, TLAPS

(* Unsigned arithmetic stays in the naturals. *)
LEMMA ModInNat ==
  ASSUME NEW a \in Int, NEW n \in Nat \ {0}
  PROVE  a % n \in Nat
  OBVIOUS

(* The links of a block other than the genesis block are one, two or three blocks. *)
LEMMA LinksShape ==
  ASSUME NEW b \in Blocks \ {Genesis}
  PROVE  /\ DOMAIN Links[b] = 1 .. Len(Links[b])
         /\ Len(Links[b]) \in {1, 2, 3}
         /\ \A i \in DOMAIN Links[b] : /\ Links[b][i] \in Blocks
                                       /\ Links[b][i] \in Range(Links[b])
  <1>1. Links[b] \in Seq(Blocks) /\ Len(Links[b]) \in 1 .. 3
    BY BlocksAssumption DEF MaxLinksNum
  <1>2. \A i \in DOMAIN Links[b] : Links[b][i] \in Blocks
    BY <1>1
  <1> QED
    BY <1>1, <1>2 DEF Range

(* In a graph whose links go back, the slice of a link is not a later one. *)
LEMMA LinksEarlier ==
  ASSUME LinksInOrder, NEW b \in Blocks \ {Genesis}, NEW i \in DOMAIN Links[b]
  PROVE  Slice[Links[b][i]] <= Slice[b]
  <1>1. Links[b][i] \in Blocks /\ Time[Links[b][i]] <= Time[b]
    BY LinksShape DEF LinksInOrder
  <1> QED
    BY <1>1, BlocksAssumption

(* The loop of ComputeCumulativeDiff always settles on one link ... *)
LEMMA BestLinkExists ==
  ASSUME NEW b \in Blocks \ {Genesis},
         \A i \in DOMAIN Links[b] : LinkCum(b, i) \in Nat
  PROVE  \E i \in DOMAIN Links[b] : IsBestLink(b, i)
  <1>1. /\ DOMAIN Links[b] = 1 .. Len(Links[b])
        /\ Len(Links[b]) \in {1, 2, 3}
    BY LinksShape
  <1>2. CASE Len(Links[b]) = 1
    BY <1>1, <1>2 DEF IsBestLink
  <1>3. CASE Len(Links[b]) = 2
    BY <1>1, <1>3 DEF IsBestLink
  <1>4. CASE Len(Links[b]) = 3
    BY <1>1, <1>4 DEF IsBestLink
  <1> QED
    BY <1>1, <1>2, <1>3, <1>4

(* ... and only one. *)
LEMMA BestLinkUnique ==
  ASSUME NEW b \in Blocks \ {Genesis},
         \A i \in DOMAIN Links[b] : LinkCum(b, i) \in Nat,
         NEW i, NEW j, IsBestLink(b, i), IsBestLink(b, j)
  PROVE  i = j
  <1>1. DOMAIN Links[b] = 1 .. Len(Links[b]) /\ Len(Links[b]) \in {1, 2, 3}
    BY LinksShape
  <1> QED
    BY <1>1 DEF IsBestLink
------------------------------------------------------------------------------
(* The inductive invariant *)

(* What the database says of the genesis block and of stored blocks. *)
InfoSound ==
  /\ Genesis \in rlp /\ HasInfo(Genesis)
  /\ info[Genesis].tmpMax /\ info[Genesis].maxLink = None /\ info[Genesis].main
  /\ \A b \in Blocks : HasInfo(b) => info[b].cum > 0

(* Every link of a block with a MutableInfo record has one. *)
LinksHaveInfo ==
  \A b \in Blocks : HasInfo(b) => \A h \in Range(Links[b]) : HasInfo(h)

(* Storing a block again would compute the same place in the graph. *)
Recomputable ==
  \A b \in Blocks \ {Genesis} : HasInfo(b) =>
    \E i \in DOMAIN Links[b] :
      /\ IsBestLink(b, i)
      /\ LET c == ChainLink(b, Links[b][i])
         IN  /\ info[b].tmpMax = c.update
             /\ info[b].cum = c.cum
             /\ info[b].maxLink = c.maxLink

GraphInv == InfoSound /\ LinksHaveInfo /\ ChainShape /\ Recomputable

(* What a worker knows at each step of linkCheckAndSave and UpdateTail. *)
WorkersInv ==
  \A w \in Workers :
    /\ pc[w] \in {"save", "info"} => blk[w] # Genesis
    /\ pc[w] = "info" => \A h \in Range(Links[blk[w]]) : HasInfo(h)
    /\ pc[w] \in {"tail", "write"} => info[blk[w]].tmpMax

(* Confirm's locals only hold stored blocks, and its loops have work where    *)
(* they take the head of the list or the top of the recursion.                *)
ConfSound(c) ==
  /\ c \in Conf
  /\ c.step \in {"load", "main", "visit", "commit", "tail"} => c.list # << >>
  /\ c.step \in {"unwind", "visit"} => c.stack # << >>
  /\ c.step = "unwind" => c.stack[1].blk # Genesis
  /\ \A i \in DOMAIN c.list : HasInfo(c.list[i])
  /\ \A i \in DOMAIN c.stack : HasInfo(c.stack[i].blk)

ConfInv == ConfSound(conf)

IInv == TypeOK /\ GraphInv /\ WorkersInv /\ ConfInv /\ TailLeads
------------------------------------------------------------------------------
(* What a link can offer: the case analysis of ComputeCumulativeDiff. *)
LEMMA ChainLinkShape ==
  ASSUME LinksInOrder, TypeOK, InfoSound, ChainShape,
         NEW b \in Blocks \ {Genesis}, NEW h \in Blocks,
         HasInfo(h), Slice[h] <= Slice[b]
  PROVE  LET c == ChainLink(b, h)
         IN  /\ c.update \in BOOLEAN /\ c.maxLink \in Blocks /\ c.cum \in Nat
             /\ info[h].cum <= c.cum /\ c.cum > 0
             /\ info[c.maxLink].tmpMax
             /\ IF c.update
                THEN Slice[c.maxLink] < Slice[b] /\ info[c.maxLink].cum < c.cum
                ELSE Slice[c.maxLink] = Slice[b] /\ info[c.maxLink].cum = c.cum
  <1> DEFINE m == info[h].maxLink
  <1>0. /\ \A x \in Blocks : info[x] \in Info
        /\ \A x \in Blocks : Slice[x] \in Nat /\ Diff[x] \in Nat \ {0} /\ Work[x] \in Nat \ {0}
        /\ Slice[Genesis] < Slice[b]
        /\ info[h].cum > 0 /\ info[h].cum \in Nat /\ info[h].tmpMax \in BOOLEAN
    BY BlocksAssumption DEF TypeOK, Info, InfoSound, LinksInOrder
  <1>1. CASE info[h].tmpMax /\ Slice[b] # Slice[h]
    BY <1>0, <1>1 DEF ChainLink
  <1>2. CASE info[h].tmpMax /\ Slice[b] = Slice[h] /\ Diff[h] < Diff[b]
    <2>1. h # Genesis
      BY <1>0, <1>2
    <2>2. m \in Blocks /\ info[m].tmpMax /\ Slice[m] < Slice[h] /\ info[m].cum < info[h].cum
      BY <2>1, <1>2 DEF ChainShape
    <2>3. info[m].cum \in Nat
      BY <2>2, <1>0 DEF Info
    <2>4. ChainLink(b, h) = [update |-> TRUE, maxLink |-> m,
                             cum |-> info[h].cum - Diff[h] + Diff[b]]
      BY <1>2, <1>0 DEF ChainLink
    <2> QED
      BY <2>2, <2>3, <2>4, <1>0, <1>2
  <1>3. CASE info[h].tmpMax /\ Slice[b] = Slice[h] /\ ~(Diff[h] < Diff[b])
    BY <1>0, <1>3 DEF ChainLink
  <1>4. CASE ~info[h].tmpMax
    <2>1. h # Genesis
      BY <1>4 DEF InfoSound
    <2>2. m \in Blocks /\ info[m].tmpMax /\ Slice[m] = Slice[h] /\ info[m].cum = info[h].cum
      BY <2>1, <1>4 DEF ChainShape
    <2>3. CASE Slice[b] # Slice[h]
      <3>1. ChainLink(b, h) = [update |-> TRUE, maxLink |-> m,
                               cum |-> info[h].cum + Diff[b]]
        BY <1>4, <2>3 DEF ChainLink
      <3> QED
        BY <3>1, <2>2, <2>3, <1>0
    <2>4. CASE Slice[b] = Slice[h] /\ Work[m] < Diff[b]
      <3>1. m # Genesis
        BY <2>2, <2>4, <1>0
      <3>2. HasInfo(m)
        BY <2>2 DEF HasInfo, NoInfo
      <3> DEFINE n == info[m].maxLink
      <3>3. n \in Blocks /\ info[n].tmpMax /\ Slice[n] < Slice[m] /\ info[n].cum < info[m].cum
        BY <3>1, <3>2, <2>2 DEF ChainShape
      <3>4. info[n].cum \in Nat
        BY <3>3, <1>0 DEF Info
      <3>5. ChainLink(b, h) = [update |-> TRUE, maxLink |-> n,
                               cum |-> info[h].cum - Work[m] + Diff[b]]
        BY <1>4, <2>4 DEF ChainLink
      <3> QED
        BY <3>3, <3>4, <3>5, <2>2, <2>4, <1>0
    <2>5. CASE Slice[b] = Slice[h] /\ ~(Work[m] < Diff[b])
      <3>1. ChainLink(b, h) = [update |-> FALSE, maxLink |-> m, cum |-> info[h].cum]
        BY <1>4, <2>5 DEF ChainLink
      <3> QED
        BY <3>1, <2>2, <2>5, <1>0
    <2> QED
      BY <2>3, <2>4, <2>5
  <1> QED
    BY <1>0, <1>1, <1>2, <1>3, <1>4

(* What ComputeCumulativeDiff stores when every link has its record. *)
LEMMA ComputeShape ==
  ASSUME LinksInOrder, TypeOK, InfoSound, ChainShape,
         NEW b \in Blocks \ {Genesis},
         \A h \in Range(Links[b]) : HasInfo(h)
  PROVE  /\ \A i \in DOMAIN Links[b] : /\ LinkCum(b, i) \in Nat
                                       /\ info[Links[b][i]].cum <= LinkCum(b, i)
         /\ \E i \in DOMAIN Links[b] :
              LET c == ChainLink(b, Links[b][i])
              IN  /\ IsBestLink(b, i)
                  /\ ComputeCumulativeDiff(b) =
                       [NoInfo EXCEPT !.tmpMax = c.update, !.cum = c.cum,
                                      !.maxLink = c.maxLink]
                  /\ c.update \in BOOLEAN /\ c.maxLink \in Blocks /\ c.cum \in Nat
                  /\ c.cum > 0
                  /\ info[c.maxLink].tmpMax
                  /\ IF c.update
                     THEN Slice[c.maxLink] < Slice[b] /\ info[c.maxLink].cum < c.cum
                     ELSE Slice[c.maxLink] = Slice[b] /\ info[c.maxLink].cum = c.cum
  <1>1. \A i \in DOMAIN Links[b] : /\ Links[b][i] \in Blocks /\ HasInfo(Links[b][i])
                                   /\ Slice[Links[b][i]] <= Slice[b]
    BY LinksShape, LinksEarlier
  <1>2. \A i \in DOMAIN Links[b] : /\ LinkCum(b, i) \in Nat
                                   /\ info[Links[b][i]].cum <= LinkCum(b, i)
    BY <1>1, ChainLinkShape DEF LinkCum
  <1>3. PICK i \in DOMAIN Links[b] :
          /\ IsBestLink(b, i)
          /\ i = CHOOSE j \in DOMAIN Links[b] : IsBestLink(b, j)
    BY <1>2, BestLinkExists
  <1> DEFINE c == ChainLink(b, Links[b][i])
  <1>4. ComputeCumulativeDiff(b) =
          [NoInfo EXCEPT !.tmpMax = c.update, !.cum = c.cum, !.maxLink = c.maxLink]
    BY <1>3 DEF ComputeCumulativeDiff
  <1>5. /\ c.update \in BOOLEAN /\ c.maxLink \in Blocks /\ c.cum \in Nat
        /\ c.cum > 0
        /\ info[c.maxLink].tmpMax
        /\ IF c.update
           THEN Slice[c.maxLink] < Slice[b] /\ info[c.maxLink].cum < c.cum
           ELSE Slice[c.maxLink] = Slice[b] /\ info[c.maxLink].cum = c.cum
    BY <1>1, <1>3, ChainLinkShape
  <1> QED
    BY <1>2, <1>3, <1>4, <1>5

(* What a link offers does not change while stored blocks stay in place. *)
LEMMA ChainLinkStable ==
  ASSUME TypeOK, InfoSound, ChainShape, GraphFixed,
         NEW b \in Blocks, NEW h \in Blocks, HasInfo(h)
  PROVE  ChainLink(b, h)' = ChainLink(b, h)
  <1>1. CASE info[h].tmpMax
    BY <1>1 DEF GraphFixed, ChainLink
  <1>2. CASE ~info[h].tmpMax
    <2>1. info[h].maxLink \in Blocks /\ info[info[h].maxLink].tmpMax
      BY <1>2 DEF InfoSound, ChainShape
    <2>2. HasInfo(info[h].maxLink)
      BY <2>1 DEF HasInfo, NoInfo
    <2> QED
      BY <1>2, <2>1, <2>2 DEF GraphFixed, ChainLink
  <1> QED
    BY <1>1, <1>2

(* Nor does the link that ComputeCumulativeDiff picks. *)
LEMMA BestLinkStable ==
  ASSUME TypeOK, InfoSound, ChainShape, GraphFixed,
         NEW b \in Blocks \ {Genesis}, \A h \in Range(Links[b]) : HasInfo(h)
  PROVE  /\ \A i \in DOMAIN Links[b] :
              ChainLink(b, Links[b][i])' = ChainLink(b, Links[b][i])
         /\ \A i \in DOMAIN Links[b] : IsBestLink(b, i)' <=> IsBestLink(b, i)
  <1>1. \A i \in DOMAIN Links[b] : Links[b][i] \in Blocks /\ HasInfo(Links[b][i])
    BY LinksShape
  <1>2. \A i \in DOMAIN Links[b] :
          ChainLink(b, Links[b][i])' = ChainLink(b, Links[b][i])
    BY <1>1, ChainLinkStable
  <1>3. \A i \in DOMAIN Links[b] : LinkCum(b, i)' = LinkCum(b, i)
    BY <1>2 DEF LinkCum
  <1>4. \A i \in DOMAIN Links[b] : IsBestLink(b, i)' <=> IsBestLink(b, i)
    BY <1>3 DEF IsBestLink
  <1> QED
    BY <1>2, <1>4

(* The graph invariants survive every step that stores no new block and moves *)
(* none: the workers' other steps and all of Confirm.                         *)
LEMMA GraphKept ==
  ASSUME TypeOK, GraphInv, GraphFixed, rlp \subseteq rlp',
         \A b \in Blocks : HasInfo(b)' => HasInfo(b), info'[Genesis].main
  PROVE  GraphInv'
  <1>0. InfoSound /\ LinksHaveInfo /\ ChainShape /\ Recomputable /\ Genesis \in Blocks
    BY BlocksAssumption DEF GraphInv
  <1>1. InfoSound'
    BY <1>0 DEF InfoSound, GraphFixed
  <1>2. \A b \in Blocks : \A h \in Range(Links[b]) : h \in Blocks
    BY BlocksAssumption DEF Range
  <1>3. LinksHaveInfo'
    BY <1>0, <1>2 DEF LinksHaveInfo, GraphFixed
  <1>4. ChainShape'
    <2> SUFFICES ASSUME NEW b \in Blocks \ {Genesis}, HasInfo(b)'
                 PROVE  LET m == info'[b].maxLink
                        IN  /\ m \in Blocks /\ info'[m].tmpMax
                            /\ IF info'[b].tmpMax
                               THEN Slice[m] < Slice[b] /\ info'[m].cum < info'[b].cum
                               ELSE Slice[m] = Slice[b] /\ info'[m].cum = info'[b].cum
      BY DEF ChainShape
    <2> DEFINE m == info[b].maxLink
    <2>1. HasInfo(b)
      OBVIOUS
    <2>2. m \in Blocks /\ info[m].tmpMax
      BY <1>0, <2>1 DEF ChainShape
    <2>3. HasInfo(m)
      BY <2>2 DEF HasInfo, NoInfo
    <2> QED
      BY <1>0, <2>1, <2>2, <2>3 DEF GraphFixed, ChainShape
  <1>5. Recomputable'
    <2> SUFFICES ASSUME NEW b \in Blocks \ {Genesis}, HasInfo(b)'
                 PROVE  \E i \in DOMAIN Links[b] :
                          /\ IsBestLink(b, i)'
                          /\ info'[b].tmpMax = (ChainLink(b, Links[b][i])').update
                          /\ info'[b].cum = (ChainLink(b, Links[b][i])').cum
                          /\ info'[b].maxLink = (ChainLink(b, Links[b][i])').maxLink
      BY DEF Recomputable
    <2>1. HasInfo(b)
      OBVIOUS
    <2>2. PICK i \in DOMAIN Links[b] :
            /\ IsBestLink(b, i)
            /\ info[b].tmpMax = ChainLink(b, Links[b][i]).update
            /\ info[b].cum = ChainLink(b, Links[b][i]).cum
            /\ info[b].maxLink = ChainLink(b, Links[b][i]).maxLink
      BY <1>0, <2>1 DEF Recomputable
    <2>3. /\ ChainLink(b, Links[b][i])' = ChainLink(b, Links[b][i])
          /\ IsBestLink(b, i)'
      BY <1>0, <2>1, <2>2, BestLinkStable DEF LinksHaveInfo
    <2> QED
      BY <2>1, <2>2, <2>3 DEF GraphFixed
  <1> QED
    BY <1>1, <1>3, <1>4, <1>5 DEF GraphInv
------------------------------------------------------------------------------
(* The steps that write MutableInfo records *)

(* Storing a block, for the first time or again, moves no stored block. *)
LEMMA SaveInfoGraph ==
  ASSUME LinksInOrder, IInv, NEW w \in Workers, SaveInfo(w)
  PROVE  GraphFixed /\ GraphInv' /\ info' \in [Blocks -> Info]
  <1> PICK b \in Blocks \ {Genesis} : b = blk[w]
    BY BlocksAssumption DEF IInv, WorkersInv, SaveInfo, TypeOK
  <1>0. /\ TypeOK /\ InfoSound /\ LinksHaveInfo /\ ChainShape /\ Recomputable
        /\ b \in Blocks \ {Genesis}
        /\ \A h \in Range(Links[b]) : HasInfo(h)
        /\ Genesis \in Blocks
        /\ rlp' = rlp
        /\ info' = [info EXCEPT ![b] = ComputeCumulativeDiff(b)]
    BY BlocksAssumption DEF IInv, GraphInv, WorkersInv, SaveInfo, TypeOK
  <1>1. PICK i \in DOMAIN Links[b] :
          LET c == ChainLink(b, Links[b][i])
          IN  /\ IsBestLink(b, i)
              /\ ComputeCumulativeDiff(b) =
                   [NoInfo EXCEPT !.tmpMax = c.update, !.cum = c.cum,
                                  !.maxLink = c.maxLink]
              /\ c.update \in BOOLEAN /\ c.maxLink \in Blocks /\ c.cum \in Nat
              /\ c.cum > 0
              /\ info[c.maxLink].tmpMax
              /\ IF c.update
                 THEN Slice[c.maxLink] < Slice[b] /\ info[c.maxLink].cum < c.cum
                 ELSE Slice[c.maxLink] = Slice[b] /\ info[c.maxLink].cum = c.cum
    BY <1>0, ComputeShape
  <1> DEFINE c == ChainLink(b, Links[b][i])
  <1> HIDE DEF c
  <1>2. /\ info'[b] \in Info /\ HasInfo(b)'
        /\ info'[b].tmpMax = c.update /\ info'[b].cum = c.cum
        /\ info'[b].maxLink = c.maxLink
    <2>1. info'[b] = [tmpMax |-> c.update, confirm |-> FALSE, apply |-> FALSE,
                      main |-> FALSE, number |-> 0, cum |-> c.cum, maxLink |-> c.maxLink]
      BY <1>0, <1>1 DEF c, TypeOK, NoInfo
    <2>2. c.update \in BOOLEAN /\ c.maxLink \in Blocks /\ c.cum \in Nat /\ c.cum > 0
      BY <1>1 DEF c
    <2>3. /\ info'[b] \in Info
          /\ info'[b].tmpMax = c.update /\ info'[b].cum = c.cum
          /\ info'[b].maxLink = c.maxLink
      BY <2>1, <2>2 DEF Info
    <2>4. info'[b] # NoInfo
      BY <2>2, <2>3 DEF NoInfo
    <2> QED
      BY <2>3, <2>4 DEF HasInfo
  <1>3. \A x \in Blocks \ {b} : info'[x] = info[x] /\ (HasInfo(x)' <=> HasInfo(x))
    BY <1>0 DEF TypeOK, HasInfo
  <1>4. info' \in [Blocks -> Info]
    BY <1>0, <1>2, <1>3 DEF TypeOK
  <1>5. HasInfo(b) => /\ info[b].tmpMax = c.update
                      /\ info[b].cum = c.cum
                      /\ info[b].maxLink = c.maxLink
    <2> SUFFICES ASSUME HasInfo(b)
                 PROVE  /\ info[b].tmpMax = c.update
                        /\ info[b].cum = c.cum
                        /\ info[b].maxLink = c.maxLink
      OBVIOUS
    <2>1. PICK j \in DOMAIN Links[b] :
            /\ IsBestLink(b, j)
            /\ info[b].tmpMax = ChainLink(b, Links[b][j]).update
            /\ info[b].cum = ChainLink(b, Links[b][j]).cum
            /\ info[b].maxLink = ChainLink(b, Links[b][j]).maxLink
      BY <1>0 DEF Recomputable
    <2>2. i = j
      BY <1>0, <1>1, <2>1, BestLinkUnique, ComputeShape
    <2> QED
      BY <2>1, <2>2 DEF c
  <1>6. GraphFixed
    BY <1>2, <1>3, <1>5 DEF GraphFixed
  <1>7. InfoSound'
    <2>1. c.cum > 0
      BY <1>1 DEF c
    <2>2. Genesis \in Blocks \ {b}
      BY <1>0
    <2> QED
      BY <1>0, <1>2, <1>3, <2>1, <2>2 DEF InfoSound
  <1>8. LinksHaveInfo'
    <2>1. \A x \in Blocks : \A h \in Range(Links[x]) : h \in Blocks
      BY BlocksAssumption DEF Range
    <2>2. \A x \in Blocks : HasInfo(x) => HasInfo(x)'
      BY <1>2, <1>3
    <2>3. ASSUME NEW x \in Blocks, HasInfo(x)', NEW h \in Range(Links[x])
          PROVE  HasInfo(h)
      BY <1>0, <1>3, <2>3 DEF LinksHaveInfo
    <2> QED
      BY <2>1, <2>2, <2>3 DEF LinksHaveInfo
  <1>9. ChainShape'
    <2> SUFFICES ASSUME NEW x \in Blocks \ {Genesis}, HasInfo(x)'
                 PROVE  LET m == info'[x].maxLink
                        IN  /\ m \in Blocks /\ info'[m].tmpMax
                            /\ IF info'[x].tmpMax
                               THEN Slice[m] < Slice[x] /\ info'[m].cum < info'[x].cum
                               ELSE Slice[m] = Slice[x] /\ info'[m].cum = info'[x].cum
      BY DEF ChainShape
    <2>1. \A y \in Blocks : info[y].tmpMax =>
            info'[y].tmpMax = info[y].tmpMax /\ info'[y].cum = info[y].cum
      <3>1. \A y \in Blocks : info[y].tmpMax => HasInfo(y)
        BY DEF HasInfo, NoInfo
      <3> QED
        BY <1>6, <3>1 DEF GraphFixed
    <2>2. CASE x = b
      BY <1>1, <1>2, <2>1, <2>2 DEF c
    <2>3. CASE x # b
      <3>1. HasInfo(x) /\ info'[x] = info[x]
        BY <1>3, <2>3
      <3> QED
        BY <1>0, <3>1, <2>1 DEF ChainShape
    <2> QED
      BY <2>2, <2>3
  <1>10. Recomputable'
    <2> SUFFICES ASSUME NEW x \in Blocks \ {Genesis}, HasInfo(x)'
                 PROVE  \E k \in DOMAIN Links[x] :
                          /\ IsBestLink(x, k)'
                          /\ info'[x].tmpMax = (ChainLink(x, Links[x][k])').update
                          /\ info'[x].cum = (ChainLink(x, Links[x][k])').cum
                          /\ info'[x].maxLink = (ChainLink(x, Links[x][k])').maxLink
      BY DEF Recomputable
    <2>1. \A h \in Range(Links[x]) : HasInfo(h)
      BY <1>0, <1>3 DEF LinksHaveInfo
    <2>2. /\ \A k \in DOMAIN Links[x] :
               ChainLink(x, Links[x][k])' = ChainLink(x, Links[x][k])
          /\ \A k \in DOMAIN Links[x] : IsBestLink(x, k)' <=> IsBestLink(x, k)
      BY <1>0, <1>6, <2>1, BestLinkStable
    <2>3. CASE x = b
      BY <1>1, <1>2, <2>2, <2>3 DEF c
    <2>4. CASE x # b
      <3>1. HasInfo(x) /\ info'[x] = info[x]
        BY <1>3, <2>4
      <3> QED
        BY <1>0, <3>1, <2>2 DEF Recomputable
    <2> QED
      BY <2>3, <2>4
  <1> QED
    BY <1>2, <1>4, <1>6, <1>7, <1>8, <1>9, <1>10 DEF GraphInv

(* A change of a stored block's status alone disturbs none of the invariants  *)
(* that are about records.                                                    *)
LEMMA StatusOnly ==
  ASSUME IInv, NEW b \in Blocks, HasInfo(b), NEW r \in Info,
         r.tmpMax = info[b].tmpMax, r.cum = info[b].cum, r.maxLink = info[b].maxLink,
         b = Genesis => r.main,
         info' = [info EXCEPT ![b] = r], rlp' = rlp, tail' = tail, pervTail' = pervTail,
         pc' = pc, blk' = blk
  PROVE  /\ info' \in [Blocks -> Info] /\ GraphFixed
         /\ \A x \in Blocks : HasInfo(x)' <=> HasInfo(x)
         /\ GraphInv' /\ WorkersInv' /\ TailLeads'
  <1>0. TypeOK /\ GraphInv /\ WorkersInv /\ TailLeads /\ info \in [Blocks -> Info]
    BY DEF IInv, TypeOK
  <1>1. info' \in [Blocks -> Info]
    BY <1>0
  <1>2. info[b].cum > 0
    BY <1>0 DEF GraphInv, InfoSound
  <1>3. info'[b] = r /\ \A x \in Blocks \ {b} : info'[x] = info[x]
    BY <1>0
  <1>4. HasInfo(b)'
    BY <1>2, <1>3 DEF HasInfo, NoInfo
  <1>5. \A x \in Blocks : HasInfo(x)' <=> HasInfo(x)
    BY <1>3, <1>4 DEF HasInfo
  <1>6. \A x \in Blocks : /\ info'[x].tmpMax = info[x].tmpMax
                          /\ info'[x].cum = info[x].cum
                          /\ info'[x].maxLink = info[x].maxLink
    BY <1>3
  <1>7. GraphFixed
    BY <1>5, <1>6 DEF GraphFixed
  <1>8. GraphInv'
    <2>1. info[Genesis].main /\ Genesis \in Blocks
      BY <1>0, BlocksAssumption DEF GraphInv, InfoSound
    <2>2. info'[Genesis].main
      BY <1>3, <2>1
    <2> QED
      BY <1>0, <1>5, <1>7, <2>2, GraphKept
  <1>9. WorkersInv'
    <2>1. \A x \in Blocks : \A h \in Range(Links[x]) : h \in Blocks
      BY BlocksAssumption DEF Range
    <2>2. \A w \in Workers : blk[w] \in Blocks
      BY <1>0 DEF TypeOK
    <2> QED
      BY <1>0, <1>5, <1>6, <2>1, <2>2 DEF WorkersInv
  <1>10. TailLeads'
    BY <1>0, <1>6 DEF TailLeads, TypeOK
  <1> QED
    BY <1>1, <1>5, <1>7, <1>8, <1>9, <1>10
------------------------------------------------------------------------------
(* Confirm's locals *)

LEMMA IdleSound == ConfSound(IdleConf)
  <1>1. IdleConf \in Conf
    BY BlocksAssumption DEF IdleConf, Conf, Steps, Ledger, GenesisLedger
  <1> QED
    BY <1>1 DEF ConfSound, IdleConf

LEMMA NonEmpty ==
  ASSUME NEW s, Len(s) # 0
  PROVE  s # << >>
  BY EmptySeq

LEMMA NoFrames ==
  \E e \in Seq(Frame) : e = << >> /\ \A i \in DOMAIN e : HasInfo(e[i].blk)
  <1>1. << >> \in Seq(Frame) /\ DOMAIN << >> = 1 .. 0
    BY EmptySeq, LenProperties
  <1>2. \A i \in DOMAIN << >> : FALSE
    BY <1>1
  <1> QED
    BY <1>1, <1>2

(* The recursion's stack: what its top, a return, the next link and a call are. *)
LEMMA StackFacts ==
  ASSUME ConfInv, conf.stack # << >>
  PROVE  /\ Top \in Frame /\ HasInfo(Top.blk)
         /\ Pop(conf.stack) \in Seq(Frame)
         /\ \A i \in DOMAIN Pop(conf.stack) : HasInfo(Pop(conf.stack)[i].blk)
         /\ Advance \in Seq(Frame) /\ Advance # << >>
         /\ \A i \in DOMAIN Advance : HasInfo(Advance[i].blk)
         /\ \A h \in Blocks : HasInfo(h) =>
              /\ Descend(h) \in Seq(Frame) /\ Descend(h) # << >>
              /\ \A i \in DOMAIN Descend(h) : HasInfo(Descend(h)[i].blk)
              /\ Descend(h)[1].blk = conf.stack[1].blk
         /\ Advance[1].blk = conf.stack[1].blk
         /\ Len(conf.stack) # 1 => Pop(conf.stack)[1].blk = conf.stack[1].blk
         /\ Len(conf.stack) = 1 => Top = conf.stack[1]
  <1> DEFINE s == conf.stack
             n == Len(s)
  <1>1. s \in Seq(Frame) /\ n \in Nat \ {0} /\ DOMAIN s = 1 .. n
    BY DEF ConfInv, ConfSound, Conf
  <1>2. \A i \in 1 .. n : s[i] \in Frame /\ HasInfo(s[i].blk)
    BY <1>1 DEF ConfInv, ConfSound
  <1>3. Top \in Frame /\ HasInfo(Top.blk)
    BY <1>1, <1>2 DEF Top
  <1>4. /\ Pop(s) \in Seq(Frame)
        /\ \A i \in DOMAIN Pop(s) : HasInfo(Pop(s)[i].blk)
    BY <1>1, <1>2 DEF Pop
  <1>5. /\ Advance \in Seq(Frame) /\ Advance # << >> /\ Len(Advance) = n
        /\ \A i \in 1 .. n : Advance[i] \in Frame /\ HasInfo(Advance[i].blk)
        /\ Advance[1].blk = s[1].blk
    BY <1>1, <1>2 DEF Advance, Frame
  <1>6. ASSUME NEW h \in Blocks, HasInfo(h)
        PROVE  /\ Descend(h) \in Seq(Frame) /\ Descend(h) # << >>
               /\ \A i \in DOMAIN Descend(h) : HasInfo(Descend(h)[i].blk)
               /\ Descend(h)[1].blk = s[1].blk
    <2>1. [blk |-> h, next |-> 1] \in Frame
      BY DEF Frame
    <2>2. Descend(h) = Append(Advance, [blk |-> h, next |-> 1])
      BY DEF Descend, Advance
    <2>3. 1 \in 1 .. Len(Advance) /\ n \in Nat
      BY <1>1, <1>5
    <2>4. Descend(h)[1] = Advance[1]
      BY <1>5, <2>1, <2>2, <2>3
    <2> QED
      BY <1>5, <1>6, <2>1, <2>2, <2>4
  <1>7. n # 1 => Pop(s)[1].blk = s[1].blk
    <2>0. SUFFICES ASSUME n # 1 PROVE Pop(s)[1] = s[1]
      OBVIOUS
    <2>1. n - 1 \in Nat /\ 1 \in 1 .. (n - 1)
      <3>1. ASSUME NEW k \in Nat \ {0}, k # 1 PROVE k - 1 \in Nat /\ 1 \in 1 .. (k - 1)
        BY <3>1
      <3> HIDE DEF n
      <3> QED
        BY <1>1, <2>0, <3>1
    <2> QED
      BY <1>1, <2>1 DEF Pop
  <1>8. n = 1 => Top = s[1]
    BY DEF Top
  <1> QED
    BY <1>3, <1>4, <1>5, <1>6, <1>7, <1>8
(* Confirm's first call on a stored block. *)
LEMMA FirstFrame ==
  ASSUME NEW h \in Blocks, HasInfo(h)
  PROVE  \E t \in Seq(Frame) : /\ t = <<[blk |-> h, next |-> 1]>> /\ t # << >>
                               /\ \A i \in DOMAIN t : HasInfo(t[i].blk)
  <1>1. [blk |-> h, next |-> 1] \in Frame
    BY DEF Frame
  <1> DEFINE t == <<[blk |-> h, next |-> 1]>>
  <1>2. t \in Seq(Frame) /\ t # << >> /\ \A i \in DOMAIN t : t[i].blk = h
    BY <1>1
  <1> QED
    BY <1>2

(* A link of a stored block is a stored block. *)
LEMMA TopLink ==
  ASSUME IInv, conf.stack # << >>, Top.next <= Len(Links[Top.blk])
  PROVE  /\ Links[Top.blk][Top.next] \in Blocks
         /\ HasInfo(Links[Top.blk][Top.next])
  <1>1. Top \in Frame /\ HasInfo(Top.blk)
    BY StackFacts DEF IInv
  <1>2. Top.blk \in Blocks /\ Top.next \in Nat \ {0}
    BY <1>1 DEF Frame
  <1>3. Links[Top.blk] \in Seq(Blocks)
    BY <1>2, BlocksAssumption
  <1>4. Top.next \in DOMAIN Links[Top.blk]
    BY <1>2, <1>3
  <1> QED
    BY <1>1, <1>2, <1>3, <1>4 DEF IInv, GraphInv, LinksHaveInfo, Range

(* Each step of Confirm that reads the database only leaves sound locals. *)
LEMMA ReadingSteps ==
  ASSUME LinksInOrder, IInv,
         \/ ConfirmBegin \/ FindStep \/ RollbackNext \/ UnwindLink
         \/ LoadState \/ NextMain \/ VisitLink
  PROVE  ConfSound(conf')
  <1>0. /\ TypeOK /\ ConfSound(conf) /\ conf \in Conf
        /\ tail \in Blocks /\ now \in Nat /\ mainTail \in [hash : Blocks, number : Nat]
        /\ info \in [Blocks -> Info] /\ conf.list \in Seq(Blocks)
    BY DEF IInv, ConfInv, ConfSound, TypeOK, Conf
  <1>1. CASE ConfirmBegin
    <2>1. conf' = [IdleConf EXCEPT !.step = "find", !.at = tail, !.now = now,
                                   !.number = mainTail.number]
      BY <1>1 DEF ConfirmBegin
    <2> QED
      BY <1>0, <2>1, IdleSound DEF ConfSound, Conf, Steps, IdleConf
  <1>2. CASE FindStep
    <2> DEFINE b == conf.at
               can == conf.can \/ TimeSliceDifference(conf.now, Slice[b]) > ConfirmBlock
    <2>1. CASE b = None \/ ~Stored(b)
      BY <1>2, <2>1, IdleSound DEF FindStep
    <2>2. CASE ~(b = None \/ ~Stored(b))
      <3>1. b \in Blocks /\ HasInfo(b) /\ info[b] \in Info
        BY <1>0, <2>2 DEF Conf, Stored
      <3>2. CASE can /\ IsLocator(b)
        <4>1. CASE Time[b] < Time[mainTail.hash]
          <5>1. conf' = [conf EXCEPT !.step = "rollback", !.locator = b,
                                     !.at = mainTail.hash]
            BY <1>2, <2>2, <3>2, <4>1 DEF FindStep
          <5> QED
            BY <1>0, <3>1, <5>1 DEF ConfSound, Conf, Steps
        <4>2. CASE ~(Time[b] < Time[mainTail.hash])
          <5>1. conf' = AfterRollback([conf EXCEPT !.locator = b])
            BY <1>2, <2>2, <3>2, <4>2 DEF FindStep
          <5> QED
            BY <1>0, <3>1, <5>1, IdleSound DEF ConfSound, Conf, Steps, AfterRollback
        <4> QED
          BY <4>1, <4>2
      <3>3. CASE ~(can /\ IsLocator(b))
        <4> DEFINE l == IF can THEN <<b>> \o conf.list ELSE conf.list
                   a == IF can /\ info[b].apply THEN conf.applied \cup {b}
                                                ELSE conf.applied
        <4>1. conf' = [conf EXCEPT !.can = can, !.list = l, !.applied = a,
                                   !.at = info[b].maxLink]
          BY <1>2, <2>2, <3>3 DEF FindStep
        <4>2. l \in Seq(Blocks) /\ \A i \in DOMAIN l : HasInfo(l[i])
          BY <1>0, <3>1 DEF ConfSound
        <4>3. a \in SUBSET Blocks /\ can \in BOOLEAN /\ info[b].maxLink \in Blocks \cup {None}
          BY <1>0, <3>1 DEF Conf, Info
        <4>4. conf.step = "find"
          BY <1>2 DEF FindStep
        <4> HIDE DEF l, a, can
        <4> QED
          BY <1>0, <4>1, <4>2, <4>3, <4>4 DEF ConfSound, Conf, Steps
      <3> QED
        BY <3>2, <3>3
    <2> QED
      BY <2>1, <2>2
  <1>3. CASE RollbackNext
    <2>1. CASE conf' = IdleConf
      BY <2>1, IdleSound
    <2>2. CASE conf' = AfterRollback(conf)
      BY <1>0, <2>2, IdleSound DEF ConfSound, Conf, Steps, AfterRollback
    <2>3. CASE /\ conf.at # None /\ Stored(conf.at)
               /\ ~(Time[conf.locator] >= Time[conf.at])
               /\ conf' = [conf EXCEPT !.step = "unwind",
                                       !.stack = <<[blk |-> conf.at, next |-> 1]>>]
      <3>1. conf.at \in Blocks /\ HasInfo(conf.at)
        BY <1>0, <2>3 DEF Conf, Stored
      <3>2. PICK t \in Seq(Frame) : /\ t = <<[blk |-> conf.at, next |-> 1]>> /\ t # << >>
                                    /\ \A i \in DOMAIN t : HasInfo(t[i].blk)
        BY <3>1, FirstFrame
      <3>3. conf' = [conf EXCEPT !.step = "unwind", !.stack = t]
        BY <2>3, <3>2
      <3>4. t # << >> /\ \A i \in DOMAIN t : HasInfo(t[i].blk)
        BY <3>2
      <3>5. conf.at # Genesis
        <4>1. /\ conf.locator \in Blocks /\ Genesis \in Blocks
              /\ \A x \in Blocks : Time[x] \in Nat /\ Slice[x] \in Nat
          BY <1>0, BlocksAssumption DEF Conf
        <4> SUFFICES ASSUME conf.at = Genesis PROVE FALSE
          OBVIOUS
        <4>2. Time[conf.locator] < Time[Genesis]
          BY <2>3, <4>1
        <4>3. conf.locator # Genesis /\ Slice[conf.locator] <= Slice[Genesis]
          BY <4>1, <4>2, BlocksAssumption
        <4>4. Slice[Genesis] < Slice[conf.locator]
          BY <4>1, <4>3 DEF LinksInOrder
        <4> QED
          BY <4>1, <4>3, <4>4
      <3>6. t[1].blk # Genesis
        BY <3>2, <3>5
      <3> QED
        BY <1>0, <3>3, <3>4, <3>6 DEF ConfSound, Conf, Steps
    <2> QED
      BY <1>3, <2>1, <2>2, <2>3 DEF RollbackNext
  <1>4. CASE UnwindLink \/ VisitLink
    <2>1. conf.stack # << >> /\ conf.step \in {"unwind", "visit"}
      BY <1>0, <1>4 DEF UnwindLink, VisitLink, ConfSound
    <2> DEFINE h == Links[Top.blk][Top.next]
    <2>2. h \in Blocks /\ HasInfo(h)
      BY <1>4, <2>1, TopLink DEF UnwindLink, VisitLink
    <2>3. PICK t \in {Advance, Descend(h)} : conf' = [conf EXCEPT !.stack = t]
      BY <1>4 DEF UnwindLink, VisitLink
    <2>4. /\ t \in Seq(Frame) /\ t # << >> /\ \A i \in DOMAIN t : HasInfo(t[i].blk)
          /\ t[1].blk = conf.stack[1].blk
      BY <2>1, <2>2, <2>3, StackFacts DEF IInv
    <2> QED
      BY <1>0, <2>1, <2>3, <2>4 DEF ConfSound, Conf
  <1>5. CASE LoadState
    <2>1. CASE conf' = IdleConf
      BY <2>1, IdleSound
    <2>2. CASE /\ conf.number \in DOMAIN mainBlock
               /\ conf' = [conf EXCEPT !.step = "main",
                                       !.state = mainBlock[conf.number].state]
      <3>1. mainBlock[conf.number].state \in Ledger
        BY <1>0, <2>2 DEF TypeOK
      <3>2. conf.list # << >>
        BY <1>0, <1>5 DEF LoadState, ConfSound
      <3> QED
        BY <1>0, <2>2, <3>1, <3>2 DEF ConfSound, Conf, Steps
    <2> QED
      BY <1>5, <2>1, <2>2 DEF LoadState
  <1>6. CASE NextMain
    <2>1. conf.list # << >>
      BY <1>0, <1>6 DEF NextMain, ConfSound
    <2>2. Head(conf.list) \in Blocks /\ HasInfo(Head(conf.list))
      BY <1>0, <2>1 DEF ConfSound
    <2>3. PICK t \in Seq(Frame) :
            /\ t = <<[blk |-> Head(conf.list), next |-> 1]>> /\ t # << >>
            /\ \A i \in DOMAIN t : HasInfo(t[i].blk)
      BY <2>2, FirstFrame
    <2>4. (conf.number + 1) % WordSize \in Nat
      BY <1>0, NumbersAssumption, ModInNat DEF Conf
    <2>5. conf' = [conf EXCEPT !.step = "visit", !.number = (conf.number + 1) % WordSize,
                               !.stack = t]
      BY <1>6, <2>3 DEF NextMain
    <2>6. t # << >> /\ \A i \in DOMAIN t : HasInfo(t[i].blk)
      BY <2>3
    <2> QED
      BY <1>0, <2>1, <2>4, <2>5, <2>6 DEF ConfSound, Conf, Steps
  <1> QED
    BY <1>1, <1>2, <1>3, <1>4, <1>5, <1>6
(* RollBackStatus and singleBlockConfirm write the status of a stored block   *)
(* and nothing else of its record.                                            *)
LEMMA WritingSteps ==
  ASSUME IInv, UnwindBlock \/ VisitBlock
  PROVE  /\ ConfSound(conf')
         /\ \E b \in Blocks, r \in Info :
              /\ HasInfo(b) /\ info' = [info EXCEPT ![b] = r]
              /\ r.tmpMax = info[b].tmpMax /\ r.cum = info[b].cum
              /\ r.maxLink = info[b].maxLink /\ (b = Genesis => r.main)
  <1>0. /\ TypeOK /\ ConfSound(conf) /\ conf \in Conf /\ ConfInv
        /\ info \in [Blocks -> Info] /\ conf.list \in Seq(Blocks)
        /\ conf.number \in Nat /\ conf.state \in Ledger
    BY DEF IInv, ConfInv, ConfSound, TypeOK, Conf
  <1>1. conf.stack # << >> /\ conf.step \in {"unwind", "visit"}
    BY <1>0 DEF UnwindBlock, VisitBlock, ConfSound
  <1>2. PICK b \in Blocks : b = Top.blk /\ HasInfo(b)
    BY <1>0, <1>1, StackFacts DEF Frame
  <1>3. info[b] \in Info
    BY <1>0
  <1> DEFINE p == Pop(conf.stack)
  <1>4. p \in Seq(Frame) /\ \A i \in DOMAIN p : HasInfo(p[i].blk)
    BY <1>0, <1>1, StackFacts
  <1> DEFINE isMain == Len(conf.stack) = 1
  <1>5. ~isMain => p # << >>
    <2>1. conf.stack \in Seq(Frame) /\ Len(conf.stack) \in Nat \ {0}
      BY <1>0, <1>1 DEF Conf
    <2>2. Len(p) = Len(conf.stack) - 1
      BY <2>1 DEF Pop
    <2>3. ~isMain => Len(p) # 0
      BY <2>1, <2>2
    <2> QED
      BY <2>3, NonEmpty
  <1>6. CASE UnwindBlock
    <2> DEFINE r == RolledBack(info[b], isMain)
    <2>1. /\ r \in Info /\ r.tmpMax = info[b].tmpMax /\ r.cum = info[b].cum
          /\ r.maxLink = info[b].maxLink
      BY <1>3 DEF RolledBack, Info
    <2>2. info' = [info EXCEPT ![b] = r]
      BY <1>2, <1>6 DEF UnwindBlock
    <2>3. ConfSound(conf')
      <3>1. CASE isMain
        <4>1. (conf.number - 1) % WordSize \in Nat
          BY <1>0, NumbersAssumption, ModInNat
        <4>2. info[b].maxLink \in Blocks \cup {None}
          BY <1>3 DEF Info
        <4>3. conf' = [conf EXCEPT !.step = "rollback",
                                   !.number = (conf.number - 1) % WordSize,
                                   !.at = info[b].maxLink, !.stack = << >>]
          BY <1>2, <1>6, <3>1 DEF UnwindBlock
        <4>4. PICK e \in Seq(Frame) : e = << >> /\ \A i \in DOMAIN e : HasInfo(e[i].blk)
          BY NoFrames
        <4>5. conf' = [conf EXCEPT !.step = "rollback",
                                   !.number = (conf.number - 1) % WordSize,
                                   !.at = info[b].maxLink, !.stack = e]
          BY <4>3, <4>4
        <4>6. \A i \in DOMAIN e : HasInfo(e[i].blk)
          BY <4>4
        <4> QED
          BY <1>0, <4>1, <4>2, <4>5, <4>6 DEF ConfSound, Conf, Steps
      <3>2. CASE ~isMain
        <4>1. conf' = [conf EXCEPT !.stack = p]
          BY <1>6, <3>2 DEF UnwindBlock
        <4>2. p # << >> /\ p[1].blk = conf.stack[1].blk
          BY <1>0, <1>1, <1>5, <3>2, StackFacts
        <4> HIDE DEF p
        <4> QED
          BY <1>0, <1>4, <4>1, <4>2 DEF ConfSound, Conf
      <3> QED
        BY <3>1, <3>2
    <2>4. b = Genesis => r.main
      <3>1. isMain => b # Genesis
        BY <1>0, <1>1, <1>2, <1>6, StackFacts DEF ConfSound, UnwindBlock
      <3>2. info[Genesis].main
        BY DEF IInv, GraphInv, InfoSound
      <3>3. ~isMain => r.main = info[b].main
        BY <1>3 DEF RolledBack, Info
      <3> QED
        BY <3>1, <3>2, <3>3
    <2> HIDE DEF r
    <2> QED
      BY <1>2, <2>1, <2>2, <2>3, <2>4
  <1>7. CASE VisitBlock
    <2>0. conf.list # << >> /\ conf.step = "visit"
      BY <1>0, <1>7 DEF VisitBlock, ConfSound
    <2> DEFINE ok == Accepts(b, conf.state.ok)
               a == ok \/ (isMain /\ b \in conf.applied)
               r == Confirmed(info[b], isMain, a)
    <2>1. ok \in BOOLEAN
      BY <1>0, AcceptsAssumption DEF Ledger
    <2>2. /\ r \in Info /\ r.tmpMax = info[b].tmpMax /\ r.cum = info[b].cum
          /\ r.maxLink = info[b].maxLink
      <3>1. a \in BOOLEAN
        BY <2>1
      <3> HIDE DEF a
      <3> QED
        BY <1>0, <1>3, <3>1 DEF Confirmed, Info
    <2>3. info' = [info EXCEPT ![b] = r]
      BY <1>2, <1>7 DEF VisitBlock
    <2>4. ConfSound(conf')
      <3> DEFINE st == [done |-> conf.state.done \cup {b},
                        ok |-> IF ok THEN conf.state.ok \cup {b} ELSE conf.state.ok]
      <3>1. st \in Ledger
        BY <1>0 DEF Ledger
      <3>2. conf' = [conf EXCEPT !.stack = p, !.step = IF isMain THEN "commit" ELSE "visit",
                                 !.state = st]
        BY <1>2, <1>7, <2>0 DEF VisitBlock
      <3> HIDE DEF st, p, isMain
      <3> QED
        BY <1>0, <1>4, <1>5, <2>0, <3>1, <3>2 DEF ConfSound, Conf, Steps
    <2>5. b = Genesis => r.main
      <3>1. info[Genesis].main
        BY DEF IInv, GraphInv, InfoSound
      <3>2. r.main = TRUE \/ r.main = info[b].main
        BY <1>3 DEF Confirmed, Info
      <3> QED
        BY <3>1, <3>2
    <2> HIDE DEF r
    <2> QED
      BY <1>2, <2>2, <2>3, <2>4, <2>5
  <1> QED
    BY <1>6, <1>7

(* WriteMainBlock and the move of MainTail. *)
LEMMA CommittingSteps ==
  ASSUME IInv, CommitMain \/ MoveMainTail
  PROVE  /\ ConfSound(conf')
         /\ mainTail' \in [hash : Blocks, number : Nat]
         /\ DOMAIN mainBlock' \in SUBSET Nat
         /\ \A n \in DOMAIN mainBlock' : mainBlock'[n] \in [hash : Blocks, state : Ledger]
  <1>0. /\ TypeOK /\ ConfSound(conf) /\ conf \in Conf
        /\ conf.list \in Seq(Blocks) /\ conf.list # << >>
        /\ conf.number \in Nat /\ conf.state \in Ledger
    BY DEF IInv, ConfInv, ConfSound, TypeOK, Conf, CommitMain, MoveMainTail
  <1>1. Head(conf.list) \in Blocks
    BY <1>0
  <1>2. CASE CommitMain
    <2>1. /\ conf' = [conf EXCEPT !.step = "tail"] /\ mainTail' = mainTail
          /\ mainBlock' = [n \in DOMAIN mainBlock \cup {conf.number} |->
                              IF n = conf.number
                              THEN [hash |-> Head(conf.list), state |-> conf.state]
                              ELSE mainBlock[n]]
      BY <1>2 DEF CommitMain
    <2>2. ConfSound(conf')
      BY <1>0, <2>1 DEF ConfSound, Conf, Steps
    <2> QED
      BY <1>0, <1>1, <2>1, <2>2 DEF TypeOK
  <1>3. CASE MoveMainTail
    <2>1. /\ mainTail' = [hash |-> Head(conf.list), number |-> conf.number]
          /\ mainBlock' = mainBlock
          /\ \/ conf' = IdleConf
             \/ /\ Len(conf.list) # 1
                /\ conf' = [conf EXCEPT !.step = "main", !.list = Tail(conf.list)]
      BY <1>3 DEF MoveMainTail
    <2>2. CASE /\ Len(conf.list) # 1
               /\ conf' = [conf EXCEPT !.step = "main", !.list = Tail(conf.list)]
      <3> DEFINE l == Tail(conf.list)
      <3>1. /\ l \in Seq(Blocks)
            /\ \A i \in DOMAIN l : i + 1 \in DOMAIN conf.list /\ l[i] = conf.list[i + 1]
        BY <1>0
      <3>2. l # << >>
        <4>1. Len(conf.list) \in Nat \ {0, 1}
          BY <1>0, <2>2
        <4>2. Len(l) = Len(conf.list) - 1
          BY <1>0
        <4>3. Len(l) # 0
          BY <4>1, <4>2
        <4> QED
          BY <4>3, NonEmpty
      <3>3. \A i \in DOMAIN l : HasInfo(l[i])
        BY <1>0, <3>1 DEF ConfSound
      <3>4. conf' = [conf EXCEPT !.step = "main", !.list = l]
        BY <2>2
      <3> HIDE DEF l
      <3> QED
        BY <1>0, <1>1, <2>1, <3>1, <3>2, <3>3, <3>4 DEF ConfSound, Conf, Steps, TypeOK
    <2> QED
      BY <1>0, <1>1, <2>1, <2>2, IdleSound DEF TypeOK
  <1> QED
    BY <1>2, <1>3
------------------------------------------------------------------------------
(* Steps that write no record *)

LEMMA RecordsKept ==
  ASSUME IInv, info' = info, rlp \subseteq rlp'
  PROVE  GraphFixed /\ GraphInv'
  <1>1. \A b \in Blocks : HasInfo(b)' <=> HasInfo(b)
    BY DEF HasInfo
  <1>2. GraphFixed
    BY <1>1 DEF GraphFixed
  <1>3. info'[Genesis].main
    BY DEF IInv, GraphInv, InfoSound
  <1> QED
    BY <1>1, <1>2, <1>3, GraphKept DEF IInv

(* Confirm's locals stay sound while no record disappears. *)
LEMMA ConfKept ==
  ASSUME GraphFixed, ConfSound(conf')
  PROVE  ConfInv'
  <1>1. conf' \in Conf /\ conf'.list \in Seq(Blocks) /\ conf'.stack \in Seq(Frame)
    BY DEF ConfSound, Conf
  <1>2. \A i \in DOMAIN conf'.list : conf'.list[i] \in Blocks
    BY <1>1
  <1>3. \A i \in DOMAIN conf'.stack : conf'.stack[i].blk \in Blocks
    <2>1. \A i \in DOMAIN conf'.stack : conf'.stack[i] \in Frame
      BY <1>1
    <2>2. \A f \in Frame : f.blk \in Blocks
      BY DEF Frame
    <2> QED
      BY <2>1, <2>2
  <1>4. \A b \in Blocks : HasInfo(b) => HasInfo(b)'
    BY DEF GraphFixed
  <1>5. \A i \in DOMAIN conf'.list : HasInfo(conf.list[i])'
    BY <1>2, <1>4 DEF ConfSound
  <1>6. \A i \in DOMAIN conf'.stack : HasInfo(conf.stack[i].blk)'
    BY <1>3, <1>4 DEF ConfSound
  <1> QED
    BY <1>1, <1>5, <1>6 DEF ConfInv, ConfSound

(* What a worker knows of other blocks outlives every step. *)
LEMMA WorkersKept ==
  ASSUME IInv, GraphFixed, pc' = pc, blk' = blk, tail' = tail, pervTail' = pervTail
  PROVE  WorkersInv' /\ TailLeads'
  <1>1. \A x \in Blocks : \A h \in Range(Links[x]) : h \in Blocks
    BY BlocksAssumption DEF Range
  <1>2. \A b \in Blocks : info[b].tmpMax => HasInfo(b)
    BY DEF HasInfo, NoInfo
  <1>3. \A b \in Blocks : info[b].tmpMax => info'[b].tmpMax
    BY <1>2 DEF GraphFixed
  <1>4. (\A w \in Workers : blk[w] \in Blocks) /\ tail \in Blocks
    BY DEF IInv, TypeOK
  <1>5. TailLeads'
    BY <1>3, <1>4 DEF IInv, TailLeads
  <1>6. \A x \in Blocks : HasInfo(x) => HasInfo(x)'
    BY DEF GraphFixed
  <1>7. WorkersInv'
    BY <1>1, <1>3, <1>4, <1>6 DEF IInv, WorkersInv
  <1> QED
    BY <1>5, <1>7

LEMMA ConfirmKeeps ==
  ASSUME LinksInOrder, IInv, ConfirmStep
  PROVE  IInv' /\ GraphFixed
  <1>0. ConfUnchanged /\ TypeOK
    BY DEF IInv, ConfirmStep, ConfirmBegin, FindStep, RollbackNext, UnwindLink,
           UnwindBlock, LoadState, NextMain, VisitLink, VisitBlock, CommitMain, MoveMainTail
  <1>1. UNCHANGED <<now, rlp, tail, pervTail, pc, blk, taken, crashes>>
    BY <1>0 DEF ConfUnchanged
  <1>2. CASE \/ ConfirmBegin \/ FindStep \/ RollbackNext \/ UnwindLink
             \/ LoadState \/ NextMain \/ VisitLink
    <2>1. ConfSound(conf')
      BY <1>2, ReadingSteps
    <2>2. UNCHANGED <<info, mainTail, mainBlock>>
      BY <1>2 DEF ConfirmBegin, FindStep, RollbackNext, UnwindLink, LoadState, NextMain,
                  VisitLink
    <2>3. GraphFixed /\ GraphInv'
      BY <1>1, <2>2, RecordsKept
    <2>4. conf' \in Conf
      BY <2>1 DEF ConfSound
    <2>5. TypeOK'
      BY <1>0, <1>1, <2>2, <2>4 DEF TypeOK
    <2> QED
      BY <1>1, <2>1, <2>3, <2>5, ConfKept, WorkersKept DEF IInv
  <1>3. CASE UnwindBlock \/ VisitBlock
    <2>1. ConfSound(conf')
      BY <1>3, WritingSteps
    <2>2. PICK b \in Blocks, r \in Info :
              /\ HasInfo(b) /\ info' = [info EXCEPT ![b] = r]
              /\ r.tmpMax = info[b].tmpMax /\ r.cum = info[b].cum
              /\ r.maxLink = info[b].maxLink /\ (b = Genesis => r.main)
      BY <1>3, WritingSteps
    <2>3. /\ info' \in [Blocks -> Info] /\ GraphFixed
          /\ GraphInv' /\ WorkersInv' /\ TailLeads'
      BY <1>1, <2>2, StatusOnly
    <2>4. conf' \in Conf /\ UNCHANGED <<mainTail, mainBlock>>
      BY <1>3, <2>1 DEF ConfSound, UnwindBlock, VisitBlock
    <2>5. TypeOK'
      BY <1>0, <1>1, <2>3, <2>4 DEF TypeOK
    <2> QED
      BY <2>1, <2>3, <2>5, ConfKept DEF IInv
  <1>4. CASE CommitMain \/ MoveMainTail
    <2>1. /\ ConfSound(conf')
          /\ mainTail' \in [hash : Blocks, number : Nat]
          /\ DOMAIN mainBlock' \in SUBSET Nat
          /\ \A n \in DOMAIN mainBlock' : mainBlock'[n] \in [hash : Blocks, state : Ledger]
      BY <1>4, CommittingSteps
    <2>2. info' = info
      BY <1>4 DEF CommitMain, MoveMainTail
    <2>3. GraphFixed /\ GraphInv'
      BY <1>1, <2>2, RecordsKept
    <2>4. conf' \in Conf
      BY <2>1 DEF ConfSound
    <2>5. TypeOK'
      BY <1>0, <1>1, <2>1, <2>2, <2>4 DEF TypeOK
    <2> QED
      BY <1>1, <2>1, <2>3, <2>5, ConfKept, WorkersKept DEF IInv
  <1> QED
    BY <1>2, <1>3, <1>4 DEF ConfirmStep
------------------------------------------------------------------------------
(* The workers, the clock and a restart *)

LEMMA WorkerKeeps ==
  ASSUME LinksInOrder, IInv, NEW w \in Workers,
         \/ \E b \in Blocks : AddBlock(w, b)
         \/ SaveRlp(w) \/ SaveInfo(w) \/ UpdateTailCheck(w) \/ UpdateTailWrite(w)
  PROVE  IInv' /\ GraphFixed
  <1>0. /\ TypeOK /\ GraphInv /\ WorkersInv /\ ConfInv /\ TailLeads
        /\ pc \in [Workers -> {"idle", "save", "info", "tail", "write"}]
        /\ blk \in [Workers -> Blocks] /\ tail \in Blocks
    BY DEF IInv, TypeOK
  <1>1. \A x \in Blocks : \A h \in Range(Links[x]) : h \in Blocks
    BY BlocksAssumption DEF Range
  <1>2. ASSUME GraphFixed, UNCHANGED conf PROVE ConfInv'
    BY <1>0, <1>2, ConfKept DEF ConfInv
  <1>3. CASE \E b \in Blocks : AddBlock(w, b)
    <2>1. PICK b \in Blocks : AddBlock(w, b)
      BY <1>3
    <2>2. /\ UNCHANGED <<now, rlp, info, tail, pervTail, mainTail, mainBlock, conf, crashes>>
          /\ pc' = [pc EXCEPT ![w] = "save"] /\ blk' = [blk EXCEPT ![w] = b]
          /\ taken' = [taken EXCEPT ![b] = @ + 1] /\ b \notin rlp
      BY <2>1 DEF AddBlock
    <2>3. GraphFixed /\ GraphInv'
      BY <2>2, RecordsKept
    <2>4. TypeOK'
      BY <1>0, <2>2 DEF TypeOK
    <2>5. b # Genesis
      BY <1>0, <2>2 DEF GraphInv, InfoSound
    <2>6. \A x \in Blocks : HasInfo(x)' <=> HasInfo(x)
      BY <2>2 DEF HasInfo
    <2>7. ASSUME NEW v \in Workers
          PROVE  /\ pc'[v] \in {"save", "info"} => blk'[v] # Genesis
                 /\ pc'[v] = "info" => \A h \in Range(Links[blk'[v]]) : HasInfo(h)'
                 /\ pc'[v] \in {"tail", "write"} => info'[blk'[v]].tmpMax
      <3>1. CASE v = w
        BY <1>0, <2>2, <2>5, <3>1
      <3>2. CASE v # w
        <4>1. pc'[v] = pc[v] /\ blk'[v] = blk[v] /\ blk[v] \in Blocks
          BY <1>0, <2>2, <3>2
        <4> QED
          BY <1>0, <1>1, <2>2, <2>6, <4>1 DEF WorkersInv
      <3> QED
        BY <3>1, <3>2
    <2>8. WorkersInv'
      BY <2>7 DEF WorkersInv
    <2> QED
      BY <1>0, <1>2, <2>2, <2>3, <2>4, <2>8 DEF IInv, TailLeads
  <1>4. CASE SaveRlp(w)
    <2>1. /\ UNCHANGED <<now, info, tail, pervTail, mainTail, mainBlock, blk, taken, conf,
                         crashes>>
          /\ pc[w] = "save"
          /\ \/ /\ \A h \in Range(Links[blk[w]]) : HasInfo(h)
                /\ rlp' = rlp \cup {blk[w]} /\ pc' = [pc EXCEPT ![w] = "info"]
             \/ rlp' = rlp /\ pc' = [pc EXCEPT ![w] = "idle"]
      BY <1>4 DEF SaveRlp
    <2>2. rlp \subseteq rlp' /\ rlp' \in SUBSET Blocks
      BY <1>0, <2>1 DEF TypeOK
    <2>3. GraphFixed /\ GraphInv'
      BY <2>1, <2>2, RecordsKept
    <2>4. TypeOK'
      BY <1>0, <2>1, <2>2 DEF TypeOK
    <2>5. \A x \in Blocks : HasInfo(x)' <=> HasInfo(x)
      BY <2>1 DEF HasInfo
    <2>6. ASSUME NEW v \in Workers
          PROVE  /\ pc'[v] \in {"save", "info"} => blk'[v] # Genesis
                 /\ pc'[v] = "info" => \A h \in Range(Links[blk'[v]]) : HasInfo(h)'
                 /\ pc'[v] \in {"tail", "write"} => info'[blk'[v]].tmpMax
      <3>1. CASE v = w
        <4>1. blk[w] # Genesis /\ blk[w] \in Blocks /\ blk' = blk
          BY <1>0, <2>1 DEF WorkersInv
        <4>2. \/ pc'[w] = "info" /\ \A h \in Range(Links[blk[w]]) : HasInfo(h)
              \/ pc'[w] = "idle"
          BY <1>0, <2>1
        <4> QED
          BY <1>1, <2>5, <3>1, <4>1, <4>2
      <3>2. CASE v # w
        <4>1. pc'[v] = pc[v] /\ blk'[v] = blk[v] /\ blk[v] \in Blocks
          BY <1>0, <2>1, <3>2
        <4> QED
          BY <1>0, <1>1, <2>1, <2>5, <4>1 DEF WorkersInv
      <3> QED
        BY <3>1, <3>2
    <2>7. WorkersInv'
      BY <2>6 DEF WorkersInv
    <2> QED
      BY <1>0, <1>2, <2>1, <2>3, <2>4, <2>7 DEF IInv, TailLeads
  <1>5. CASE SaveInfo(w)
    <2>1. /\ UNCHANGED <<now, rlp, tail, pervTail, mainTail, mainBlock, blk, taken, conf,
                         crashes>>
          /\ pc' = [pc EXCEPT ![w] = IF info'[blk[w]].tmpMax THEN "tail" ELSE "idle"]
      BY <1>5 DEF SaveInfo
    <2>2. GraphFixed /\ GraphInv' /\ info' \in [Blocks -> Info]
      BY <1>5, SaveInfoGraph
    <2>3. TypeOK'
      BY <1>0, <2>1, <2>2 DEF TypeOK
    <2>4. \A b \in Blocks : info[b].tmpMax => HasInfo(b)
      BY DEF HasInfo, NoInfo
    <2>5. \A b \in Blocks : info[b].tmpMax => info'[b].tmpMax
      BY <2>2, <2>4 DEF GraphFixed
    <2>9. \A b \in Blocks : HasInfo(b) => HasInfo(b)'
      BY <2>2 DEF GraphFixed
    <2>6. ASSUME NEW v \in Workers
          PROVE  /\ pc'[v] \in {"save", "info"} => blk'[v] # Genesis
                 /\ pc'[v] = "info" => \A h \in Range(Links[blk'[v]]) : HasInfo(h)'
                 /\ pc'[v] \in {"tail", "write"} => info'[blk'[v]].tmpMax
      <3>1. CASE v = w
        BY <1>0, <2>1, <3>1
      <3>2. CASE v # w
        <4>1. pc'[v] = pc[v] /\ blk'[v] = blk[v] /\ blk[v] \in Blocks
          BY <1>0, <2>1, <3>2
        <4> QED
          BY <1>0, <1>1, <2>5, <2>9, <4>1 DEF WorkersInv
      <3> QED
        BY <3>1, <3>2
    <2>7. WorkersInv'
      BY <2>6 DEF WorkersInv
    <2>8. TailLeads'
      BY <1>0, <2>1, <2>5 DEF TailLeads
    <2> QED
      BY <1>2, <2>1, <2>2, <2>3, <2>7, <2>8 DEF IInv
  <1>6. CASE UpdateTailCheck(w) \/ UpdateTailWrite(w)
    <2>1. /\ UNCHANGED <<now, rlp, info, mainTail, mainBlock, blk, taken, conf, crashes>>
          /\ pc[w] \in {"tail", "write"}
          /\ pc' = [pc EXCEPT ![w] = "write"] \/ pc' = [pc EXCEPT ![w] = "idle"]
          /\ tail' \in {tail, blk[w]} /\ pervTail' \in {pervTail, tail}
      BY <1>6 DEF UpdateTailCheck, UpdateTailWrite
    <2>2. GraphFixed /\ GraphInv'
      BY <2>1, RecordsKept
    <2>3. TypeOK'
      BY <1>0, <2>1 DEF TypeOK
    <2>4. info[blk[w]].tmpMax
      BY <1>0, <2>1 DEF WorkersInv
    <2>5. \A x \in Blocks : HasInfo(x)' <=> HasInfo(x)
      BY <2>1 DEF HasInfo
    <2>6. ASSUME NEW v \in Workers
          PROVE  /\ pc'[v] \in {"save", "info"} => blk'[v] # Genesis
                 /\ pc'[v] = "info" => \A h \in Range(Links[blk'[v]]) : HasInfo(h)'
                 /\ pc'[v] \in {"tail", "write"} => info'[blk'[v]].tmpMax
      <3>1. CASE v = w
        BY <1>0, <2>1, <2>4, <3>1
      <3>2. CASE v # w
        <4>1. pc'[v] = pc[v] /\ blk'[v] = blk[v] /\ blk[v] \in Blocks
          BY <1>0, <2>1, <3>2
        <4> QED
          BY <1>0, <1>1, <2>1, <2>5, <4>1 DEF WorkersInv
      <3> QED
        BY <3>1, <3>2
    <2>7. WorkersInv'
      BY <2>6 DEF WorkersInv
    <2>8. TailLeads'
      BY <1>0, <2>1, <2>4 DEF TailLeads
    <2> QED
      BY <1>2, <2>1, <2>2, <2>3, <2>7, <2>8 DEF IInv
  <1> QED
    BY <1>3, <1>4, <1>5, <1>6

LEMMA EnvironmentKeeps ==
  ASSUME IInv, Tick \/ CrashRestart
  PROVE  IInv' /\ GraphFixed
  <1>0. TypeOK /\ GraphInv /\ WorkersInv /\ ConfInv /\ TailLeads
    BY DEF IInv
  <1>1. /\ UNCHANGED <<rlp, info, tail, mainTail, mainBlock, blk>>
        /\ conf' = conf \/ conf' = IdleConf
        /\ pc' = pc \/ pc' = [w \in Workers |-> "idle"]
    BY DEF Tick, CrashRestart
  <1>2. GraphFixed /\ GraphInv'
    BY <1>1, RecordsKept
  <1>3. ConfSound(conf')
    BY <1>0, <1>1, IdleSound DEF ConfInv
  <1>4. ConfInv' /\ conf' \in Conf
    BY <1>2, <1>3, ConfKept DEF ConfSound
  <1>5. WorkersInv' /\ TailLeads'
    <2>1. CASE Tick
      BY <1>2, <2>1, WorkersKept DEF Tick
    <2>2. CASE CrashRestart
      <3>1. /\ UNCHANGED <<info, tail, blk>> /\ pc' = [w \in Workers |-> "idle"]
            /\ pervTail' = RestartPervTail
        BY <2>2 DEF CrashRestart
      <3>2. WorkersInv'
        BY <3>1 DEF WorkersInv
      <3>3. tail \in Blocks /\ info[tail].tmpMax
        BY <1>0 DEF TypeOK, TailLeads
      <3>4. HasInfo(tail)
        BY <3>3 DEF HasInfo, NoInfo
      <3>5. RestartPervTail \in Blocks /\ info[RestartPervTail].tmpMax
        <4>1. CASE info[tail].main
          BY <3>3, <4>1 DEF RestartPervTail
        <4>2. CASE ~info[tail].main
          <5>1. tail # Genesis
            BY <1>0, <4>2 DEF GraphInv, InfoSound
          <5> QED
            BY <1>0, <3>3, <3>4, <4>2, <5>1 DEF RestartPervTail, GraphInv, ChainShape
        <4> QED
          BY <4>1, <4>2
      <3> QED
        BY <3>1, <3>2, <3>3, <3>5 DEF TailLeads
    <2> QED
      BY <2>1, <2>2
  <1>6. TypeOK'
    <2>1. CASE Tick
      BY <1>0, <1>1, <1>4, <2>1 DEF TypeOK, Tick
    <2>2. CASE CrashRestart
      <3>1. RestartPervTail \in Blocks \cup {None}
        BY <1>0 DEF RestartPervTail, TypeOK, Info
      <3> QED
        BY <1>0, <1>1, <1>4, <2>2, <3>1 DEF TypeOK, CrashRestart
    <2> QED
      BY <2>1, <2>2
  <1> QED
    BY <1>2, <1>4, <1>5, <1>6 DEF IInv
------------------------------------------------------------------------------
(* The theorems *)

LEMMA InitInv == Init => IInv
  <1> SUFFICES ASSUME Init PROVE IInv
    OBVIOUS
  <1>0. /\ Genesis \in Blocks /\ Slice[Genesis] \in Nat /\ Diff[Genesis] \in Nat \ {0}
        /\ Links[Genesis] = << >>
    BY BlocksAssumption
  <1>1. GenesisInfo \in Info /\ NoInfo \in Info /\ GenesisInfo # NoInfo
    BY <1>0 DEF GenesisInfo, NoInfo, Info
  <1>2. info \in [Blocks -> Info] /\ info[Genesis] = GenesisInfo
    BY <1>0, <1>1 DEF Init
  <1>3. \A b \in Blocks \ {Genesis} : ~HasInfo(b)
    BY DEF Init, HasInfo
  <1>4. HasInfo(Genesis)
    BY <1>1, <1>2 DEF HasInfo
  <1>5. ConfSound(conf)
    BY IdleSound DEF Init
  <1>6. GenesisLedger \in Ledger
    BY <1>0 DEF GenesisLedger, Ledger
  <1>7. TypeOK
    BY <1>0, <1>2, <1>5, <1>6 DEF Init, TypeOK, ConfSound
  <1>8. InfoSound
    BY <1>0, <1>2, <1>3, <1>4 DEF Init, InfoSound, GenesisInfo
  <1>9. LinksHaveInfo
    BY <1>0, <1>3 DEF LinksHaveInfo, Range
  <1>10. ChainShape /\ Recomputable
    BY <1>3 DEF ChainShape, Recomputable
  <1>11. WorkersInv
    BY DEF Init, WorkersInv
  <1>12. TailLeads
    BY <1>0, <1>2 DEF Init, TailLeads, GenesisInfo
  <1> QED
    BY <1>5, <1>7, <1>8, <1>9, <1>10, <1>11, <1>12 DEF IInv, GraphInv, ConfInv

LEMMA NextInv ==
  ASSUME LinksInOrder
  PROVE  IInv /\ [Next]_vars => IInv' /\ GraphFixed
  <1> SUFFICES ASSUME IInv, [Next]_vars PROVE IInv' /\ GraphFixed
    OBVIOUS
  <1>1. CASE \E w \in Workers :
               \/ \E b \in Blocks : AddBlock(w, b)
               \/ SaveRlp(w) \/ SaveInfo(w) \/ UpdateTailCheck(w) \/ UpdateTailWrite(w)
    BY <1>1, WorkerKeeps
  <1>2. CASE ConfirmStep
    BY <1>2, ConfirmKeeps
  <1>3. CASE Tick \/ CrashRestart
    BY <1>3, EnvironmentKeeps
  <1>4. CASE UNCHANGED vars
    <2>1. UNCHANGED <<rlp, info, tail, pervTail, pc, blk, conf>>
      BY <1>4 DEF vars
    <2>2. GraphFixed /\ GraphInv'
      BY <2>1, RecordsKept
    <2>3. WorkersInv' /\ TailLeads'
      BY <2>1, <2>2, WorkersKept
    <2>4. ConfSound(conf')
      BY <2>1 DEF IInv, ConfInv
    <2>5. ConfInv'
      BY <2>2, <2>4, ConfKept
    <2>6. TypeOK'
      BY <1>4 DEF IInv, TypeOK, vars
    <2> QED
      BY <2>2, <2>3, <2>5, <2>6 DEF IInv
  <1> QED
    BY <1>1, <1>2, <1>3, <1>4 DEF Next

(* The inductive invariant holds in every reachable state. *)
THEOREM Inductive ==
  ASSUME LinksInOrder
  PROVE  Spec => []IInv
  BY InitInv, NextInv, PTL DEF Spec

(* Confirm's recursion, the workers and the database keep their types, in     *)
(* particular every frame of RollBackStatus and singleBlockConfirm            *)
(* (main_chain.go:573-695) stands on a block and every list head exists.      *)
THEOREM TypeCorrect ==
  ASSUME LinksInOrder
  PROVE  Spec => []TypeOK
  <1>1. IInv => TypeOK
    BY DEF IInv
  <1> QED
    BY <1>1, Inductive, PTL

(* ComputeCumulativeDiff (main_chain.go:370) builds a forest that goes back   *)
(* in time to the genesis block, whatever the order in which any number of    *)
(* workers store blocks, crashes and Confirm's writes included.               *)
THEOREM ChainShapeHolds ==
  ASSUME LinksInOrder
  PROVE  Spec => []ChainShape
  <1>1. IInv => ChainShape
    BY DEF IInv, GraphInv
  <1> QED
    BY <1>1, Inductive, PTL

(* UpdateTail (main_chain.go:266) and setPerv (main_chain.go:84) only ever     *)
(* install leaders of their slices as Tail and PervTail.                       *)
THEOREM TailLeadsHolds ==
  ASSUME LinksInOrder
  PROVE  Spec => []TailLeads
  <1>1. IInv => TailLeads
    BY DEF IInv
  <1> QED
    BY <1>1, Inductive, PTL

(* A block weighs at least as much as every block it links to                 *)
(* (main_chain.go:417).                                                       *)
THEOREM CumMonotoneHolds ==
  ASSUME LinksInOrder
  PROVE  Spec => []CumMonotone
  <1>1. IInv => CumMonotone
    <2> SUFFICES ASSUME IInv, NEW b \in Blocks, HasInfo(b), NEW h \in Range(Links[b])
                 PROVE  HasInfo(h) /\ info[h].cum <= info[b].cum
      BY DEF CumMonotone
    <2>0. /\ TypeOK /\ InfoSound /\ ChainShape /\ Recomputable
          /\ \A x \in Range(Links[b]) : HasInfo(x)
          /\ Links[Genesis] = << >> /\ Links[b] \in Seq(Blocks)
      BY BlocksAssumption DEF IInv, GraphInv, LinksHaveInfo
    <2>1. b # Genesis
      BY <2>0 DEF Range
    <2>2. /\ \A i \in DOMAIN Links[b] : /\ LinkCum(b, i) \in Nat
                                         /\ info[Links[b][i]].cum <= LinkCum(b, i)
      BY <2>0, <2>1, ComputeShape
    <2>3. PICK i \in DOMAIN Links[b] : IsBestLink(b, i) /\ info[b].cum = LinkCum(b, i)
      BY <2>0, <2>1 DEF Recomputable, LinkCum
    <2>4. PICK j \in DOMAIN Links[b] : h = Links[b][j]
      BY DEF Range
    <2>5. LinkCum(b, j) <= LinkCum(b, i)
      BY <2>3, <2>4 DEF IsBestLink
    <2>6. h \in Blocks /\ info[h].cum \in Nat
      BY <2>0, <2>4 DEF TypeOK, Info
    <2> QED
      BY <2>0, <2>2, <2>3, <2>4, <2>5, <2>6
  <1> QED
    BY <1>1, Inductive, PTL

(* Once written, a block's record keeps its place in the graph: not even a    *)
(* second worker that stores the same block again (block_pool.go:504) or a    *)
(* rollback changes its leader, its cumulative difficulty or its flag.        *)
THEOREM PlaceNeverMovesHolds ==
  ASSUME LinksInOrder
  PROVE  Spec => PlaceNeverMoves
  BY Inductive, NextInv, PTL DEF Spec, PlaceNeverMoves
------------------------------------------------------------------------------
(* Only SaveInfo writes the first record of a block. *)
LEMMA NewRecord ==
  ASSUME IInv, [Next]_vars, NEW b \in Blocks, ~HasInfo(b), HasInfo(b)'
  PROVE  \E w \in Workers : SaveInfo(w) /\ blk[w] = b
  <1>0. info \in [Blocks -> Info] /\ info' # info
    BY DEF IInv, TypeOK, HasInfo
  <1>1. CASE \E w \in Workers : SaveInfo(w)
    <2>1. PICK w \in Workers : SaveInfo(w)
      BY <1>1
    <2>2. info' = [info EXCEPT ![blk[w]] = ComputeCumulativeDiff(blk[w])]
      BY <2>1 DEF SaveInfo
    <2>3. blk[w] # b => info'[b] = info[b]
      BY <1>0, <2>2
    <2> QED
      BY <2>1, <2>3 DEF HasInfo
  <1>2. CASE UnwindBlock \/ VisitBlock
    <2>1. PICK x \in Blocks, r \in Info : HasInfo(x) /\ info' = [info EXCEPT ![x] = r]
      BY <1>2, WritingSteps
    <2>2. x # b
      BY <2>1
    <2>3. info'[b] = info[b]
      BY <1>0, <2>1, <2>2
    <2> QED
      BY <2>3 DEF HasInfo
  <1>3. CASE UNCHANGED info
    BY <1>0, <1>3
  <1>4. \/ \E w \in Workers : SaveInfo(w)
        \/ UnwindBlock \/ VisitBlock
        \/ UNCHANGED info
    BY DEF Next, vars, AddBlock, SaveRlp, UpdateTailCheck, UpdateTailWrite, ConfirmStep,
           ConfirmBegin, FindStep, RollbackNext, UnwindLink, LoadState, NextMain, VisitLink,
           CommitMain, MoveMainTail, Tick, CrashRestart
  <1> QED
    BY <1>1, <1>2, <1>3, <1>4
------------------------------------------------------------------------------
(* The weight of a leader. The leaders of a slice that hang on one leader are   *)
(* rivals; a new one takes over the excess of the one it replaces, and adds the  *)
(* excess of that one itself if it replaces it through a follower.              *)

LeadersOn(s, m) == {x \in Blocks : info[x].tmpMax /\ Slice[x] = s /\ info[x].maxLink = m}

LEMMA ExcessTyped ==
  ASSUME NEW S \in SUBSET Blocks, IsFiniteSet(S)
  PROVE  /\ \A x \in S : Excess[x] \in Int
         /\ Sum(Excess, S) \in Int
  <1>1. \A x \in Blocks : Excess[x] \in Int
    BY BlocksAssumption DEF Excess
  <1>2. \A x \in S : Excess[x] \in Int
    BY <1>1
  <1>3. Int \in {Int, Nat}
    OBVIOUS
  <1>4. Sum(Excess, S) \in Int
    BY <1>2, <1>3, SumTyped
  <1> QED
    BY <1>2, <1>4

(* what CumIsChainWork says of one leader *)
LEMMA LeaderWork ==
  ASSUME CumIsChainWork, NEW x \in Blocks \ {Genesis}, info[x].tmpMax
  PROVE  \E S \in SUBSET LeadersOn(Slice[x], info[x].maxLink) :
           /\ x \notin S /\ IsFiniteSet(S)
           /\ info[x].cum = info[info[x].maxLink].cum + Diff[x] + Sum(Excess, S)
  <1>1. PICK S \in SUBSET Rivals(x) :
          /\ IsFiniteSet(S)
          /\ info[x].cum = info[info[x].maxLink].cum + Diff[x] + SumFunctionOnSet(Excess, S)
    BY DEF CumIsChainWork
  <1>2. S \in SUBSET LeadersOn(Slice[x], info[x].maxLink) /\ x \notin S
    BY <1>1 DEF Rivals, LeadersOn
  <1>3. Sum(Excess, S) = SumFunctionOnSet(Excess, S)
    BY DEF Sum
  <1> QED
    BY <1>1, <1>2, <1>3

LEMMA ChainLinkWork ==
  ASSUME LinksInOrder, TypeOK, InfoSound, ChainShape, CumIsChainWork,
         NEW b \in Blocks \ {Genesis}, NEW h \in Blocks,
         HasInfo(h), Slice[h] <= Slice[b],
         NEW c, c = ChainLink(b, h), c.update
  PROVE  \E S \in SUBSET LeadersOn(Slice[b], c.maxLink) :
           /\ IsFiniteSet(S)
           /\ c.cum = info[c.maxLink].cum + Diff[b] + Sum(Excess, S)
  <1> DEFINE m == info[h].maxLink
  <1>0. /\ \A x \in Blocks : info[x] \in Info /\ info[x].cum \in Nat
        /\ \A x \in Blocks : Diff[x] \in Nat /\ Work[x] \in Nat
        /\ Slice[Genesis] < Slice[b] /\ Slice[Genesis] \in Nat /\ Slice[b] \in Nat
    BY BlocksAssumption DEF TypeOK, Info, LinksInOrder
  <1>1. ASSUME NEW x \in Blocks, c.maxLink = x, c.cum = info[x].cum + Diff[b]
        PROVE  \E S \in SUBSET LeadersOn(Slice[b], c.maxLink) :
                 /\ IsFiniteSet(S)
                 /\ c.cum = info[c.maxLink].cum + Diff[b] + Sum(Excess, S)
    <2>1. IsFiniteSet({}) /\ Sum(Excess, {}) = 0
      BY FS_EmptySet, SumEmpty
    <2>2. c.cum = info[c.maxLink].cum + Diff[b] + Sum(Excess, {})
      BY <1>0, <1>1, <2>1
    <2> WITNESS {} \in SUBSET LeadersOn(Slice[b], c.maxLink)
    <2> QED
      BY <2>1, <2>2
  <1>2. CASE info[h].tmpMax /\ Slice[b] # Slice[h]
    <2>1. c.maxLink = h /\ c.cum = info[h].cum + Diff[b]
      BY <1>2 DEF ChainLink
    <2> QED
      BY <1>1, <2>1
  <1>3. CASE info[h].tmpMax /\ Slice[b] = Slice[h]
    <2>1. h # Genesis
      BY <1>0, <1>3
    <2>2. m \in Blocks
      BY <1>3, <2>1 DEF ChainShape
    <2>3. PICK S \in SUBSET LeadersOn(Slice[h], m) :
            IsFiniteSet(S) /\ info[h].cum = info[m].cum + Diff[h] + Sum(Excess, S)
      BY <1>3, <2>1, LeaderWork
    <2>4. c.cum = info[h].cum - Diff[h] + Diff[b] /\ c.maxLink = m
      BY <1>3 DEF ChainLink
    <2>5. Sum(Excess, S) \in Int
      BY <2>3, ExcessTyped DEF LeadersOn
    <2>6. /\ info[m].cum \in Nat /\ Diff[h] \in Nat /\ Diff[b] \in Nat /\ info[h].cum \in Nat
      BY <1>0, <2>2
    <2>7. c.cum = info[m].cum + Diff[b] + Sum(Excess, S)
      <3> HIDE DEF m
      <3> QED
        BY <2>3, <2>4, <2>5, <2>6
    <2>8. S \in SUBSET LeadersOn(Slice[b], c.maxLink)
      BY <1>3, <2>3, <2>4
    <2> HIDE DEF m
    <2> QED
      BY <2>3, <2>4, <2>7, <2>8
  <1>4. CASE ~info[h].tmpMax
    <2>1. h # Genesis
      BY <1>4 DEF InfoSound
    <2>2. m \in Blocks /\ info[m].tmpMax /\ Slice[m] = Slice[h] /\ info[m].cum = info[h].cum
      BY <1>4, <2>1 DEF ChainShape
    <2>3. CASE Slice[b] # Slice[h]
      <3>1. c.maxLink = m /\ c.cum = info[m].cum + Diff[b]
        BY <1>4, <2>2, <2>3 DEF ChainLink
      <3> QED
        BY <1>1, <2>2, <3>1
    <2>4. CASE Slice[b] = Slice[h]
      <3>1. m # Genesis
        BY <1>0, <2>2, <2>4
      <3> DEFINE n == info[m].maxLink
      <3>2. HasInfo(m)
        BY <2>2 DEF HasInfo, NoInfo
      <3>3. n \in Blocks
        BY <2>2, <3>1, <3>2 DEF ChainShape
      <3>4. PICK S \in SUBSET LeadersOn(Slice[m], n) :
              /\ m \notin S /\ IsFiniteSet(S)
              /\ info[m].cum = info[n].cum + Diff[m] + Sum(Excess, S)
        BY <2>2, <3>1, LeaderWork
      <3>5. c.cum = info[h].cum - Work[m] + Diff[b] /\ c.maxLink = n
        BY <1>4, <2>4 DEF ChainLink
      <3> DEFINE T == S \cup {m}
      <3>6. /\ T \in SUBSET Blocks /\ T \in SUBSET LeadersOn(Slice[b], n)
            /\ IsFiniteSet(T)
        BY <2>2, <2>4, <3>4, FS_AddElement DEF LeadersOn
      <3>7. Sum(Excess, T) = Excess[m] + Sum(Excess, S)
        BY <3>4, <3>6, ExcessTyped, SumAdd
      <3>8. Sum(Excess, S) \in Int
        BY <3>4, ExcessTyped DEF LeadersOn
      <3>9. /\ info[n].cum \in Nat /\ Diff[m] \in Nat /\ Diff[b] \in Nat /\ Work[m] \in Nat
            /\ info[h].cum = info[n].cum + Diff[m] + Sum(Excess, S)
            /\ Excess[m] = Diff[m] - Work[m]
        BY <1>0, <2>2, <3>3, <3>4 DEF Excess
      <3>10. c.cum = info[n].cum + Diff[b] + Sum(Excess, T)
        <4> HIDE DEF m, n, T
        <4> QED
          BY <3>5, <3>7, <3>8, <3>9
      <3> HIDE DEF n, T
      <3> QED
        BY <3>5, <3>6, <3>10
    <2> QED
      BY <2>3, <2>4
  <1> QED
    BY <1>2, <1>3, <1>4


LEMMA ChainWorkStep ==
  ASSUME LinksInOrder, IInv, CumIsChainWork, [Next]_vars
  PROVE  CumIsChainWork'
  <1>0. /\ TypeOK /\ InfoSound /\ LinksHaveInfo /\ ChainShape /\ GraphFixed
    BY NextInv DEF IInv, GraphInv
  <1>1. \A y \in Blocks : info[y].tmpMax => HasInfo(y) /\ info'[y].cum = info[y].cum
    BY <1>0 DEF GraphFixed, HasInfo, NoInfo
  <1>2. ASSUME NEW b \in Blocks \ {Genesis}, info'[b].tmpMax
        PROVE  /\ info'[b].maxLink \in Blocks /\ info[info'[b].maxLink].tmpMax
               /\ \E S \in SUBSET LeadersOn(Slice[b], info'[b].maxLink) :
                    /\ b \notin S /\ IsFiniteSet(S)
                    /\ info'[b].cum = info[info'[b].maxLink].cum + Diff[b] + Sum(Excess, S)
    <2>1. CASE HasInfo(b)
      <3>1. /\ info[b].tmpMax /\ info'[b].cum = info[b].cum
            /\ info'[b].maxLink = info[b].maxLink
        BY <1>0, <1>2, <2>1 DEF GraphFixed
      <3>2. info[b].maxLink \in Blocks /\ info[info[b].maxLink].tmpMax
        BY <1>0, <2>1 DEF ChainShape
      <3> QED
        BY <3>1, <3>2, LeaderWork
    <2>2. CASE ~HasInfo(b)
      <3>1. HasInfo(b)'
        BY <1>2 DEF HasInfo, NoInfo
      <3>2. PICK w \in Workers : SaveInfo(w) /\ blk[w] = b
        BY <2>2, <3>1, NewRecord
      <3>3. /\ \A h \in Range(Links[b]) : HasInfo(h)
            /\ info' = [info EXCEPT ![b] = ComputeCumulativeDiff(b)]
        BY <3>2 DEF SaveInfo, IInv, WorkersInv
      <3>4. PICK i \in DOMAIN Links[b] :
              LET c == ChainLink(b, Links[b][i])
              IN  /\ ComputeCumulativeDiff(b) =
                       [NoInfo EXCEPT !.tmpMax = c.update, !.cum = c.cum,
                                      !.maxLink = c.maxLink]
                  /\ c.maxLink \in Blocks /\ info[c.maxLink].tmpMax
        BY <1>0, <3>3, ComputeShape
      <3> DEFINE c == ChainLink(b, Links[b][i])
      <3> HIDE DEF c
      <3>5. /\ info'[b] = [tmpMax |-> c.update, confirm |-> FALSE, apply |-> FALSE,
                           main |-> FALSE, number |-> 0, cum |-> c.cum,
                           maxLink |-> c.maxLink]
            /\ c.maxLink \in Blocks /\ info[c.maxLink].tmpMax
        BY <1>0, <3>3, <3>4 DEF c, NoInfo, TypeOK
      <3>6. c.update /\ info'[b].cum = c.cum /\ info'[b].maxLink = c.maxLink
        BY <1>2, <3>5
      <3>7. Links[b][i] \in Blocks /\ HasInfo(Links[b][i]) /\ Slice[Links[b][i]] <= Slice[b]
        BY <3>3, LinksShape, LinksEarlier
      <3>8. \E S \in SUBSET LeadersOn(Slice[b], c.maxLink) :
              /\ IsFiniteSet(S)
              /\ c.cum = info[c.maxLink].cum + Diff[b] + Sum(Excess, S)
        BY <1>0, <3>6, <3>7, ChainLinkWork DEF c
      <3>9. \A m : b \notin LeadersOn(Slice[b], m)
        BY <1>1, <2>2 DEF LeadersOn
      <3> QED
        BY <3>5, <3>6, <3>8, <3>9
    <2> QED
      BY <2>1, <2>2
  <1> SUFFICES ASSUME NEW b \in Blocks \ {Genesis}, info'[b].tmpMax
               PROVE  \E S \in SUBSET Rivals(b)' :
                        /\ IsFiniteSet(S)
                        /\ info'[b].cum = info'[info'[b].maxLink].cum + Diff[b]
                                            + SumFunctionOnSet(Excess, S)
    BY DEF CumIsChainWork, Excess
  <1> DEFINE n == info'[b].maxLink
  <1>3. PICK S \in SUBSET LeadersOn(Slice[b], n) :
          /\ b \notin S /\ IsFiniteSet(S)
          /\ info'[b].cum = info[n].cum + Diff[b] + Sum(Excess, S)
    BY <1>2
  <1>4. info'[n].cum = info[n].cum
    BY <1>1, <1>2
  <1>5. S \in SUBSET Rivals(b)'
    <2>1. \A x \in S : /\ x \in Blocks \ {b} /\ info[x].tmpMax
                       /\ Slice[x] = Slice[b] /\ info[x].maxLink = n
      BY <1>3 DEF LeadersOn
    <2>2. \A x \in S : info'[x].tmpMax /\ info'[x].maxLink = n
      BY <1>0, <1>1, <2>1 DEF GraphFixed
    <2> QED
      BY <2>1, <2>2 DEF Rivals
  <1>6. Sum(Excess, S) = SumFunctionOnSet(Excess, S)
    BY DEF Sum
  <1> QED
    BY <1>3, <1>4, <1>5, <1>6

(* ComputeCumulativeDiff (main_chain.go:392-412) sums the difficulties along    *)
(* the chain of leaders, but for the excess of leaders of the same slice that    *)
(* were replaced through their followers (:404); no other order of storing, no   *)
(* second copy and no crash adds an error.                                      *)
THEOREM CumIsChainWorkHolds ==
  ASSUME LinksInOrder
  PROVE  Spec => []CumIsChainWork
  <1>1. Init => CumIsChainWork
    BY DEF Init, CumIsChainWork, NoInfo
  <1>2. IInv /\ CumIsChainWork /\ [Next]_vars => CumIsChainWork'
    BY ChainWorkStep
  <1> QED
    BY <1>1, <1>2, Inductive, PTL DEF Spec
------------------------------------------------------------------------------
(* The blocks a block reaches through its links *)

LEMMA AncestorsLeast ==
  ASSUME NEW b \in Blocks, NEW S \in SUBSET Blocks, b \in S,
         \A x \in S : Range(Links[x]) \subseteq S
  PROVE  Ancestors[b] \subseteq S
  BY DEF Ancestors

LEMMA AncestorsClosed ==
  ASSUME NEW b \in Blocks
  PROVE  /\ Ancestors[b] \in SUBSET Blocks
         /\ b \in Ancestors[b]
         /\ \A x \in Ancestors[b] : Range(Links[x]) \subseteq Ancestors[b]
  <1>1. Ancestors[b] \in SUBSET Blocks /\ b \in Ancestors[b]
    BY DEF Ancestors
  <1>2. ASSUME NEW x \in Ancestors[b], NEW h \in Range(Links[x]) PROVE h \in Ancestors[b]
    <2>1. h \in Blocks
      BY <1>1, BlocksAssumption DEF Range
    <2>2. ASSUME NEW S \in SUBSET Blocks, b \in S, \A y \in S : Range(Links[y]) \subseteq S
          PROVE  h \in S
      <3>1. x \in S
        BY <2>2, AncestorsLeast
      <3> QED
        BY <2>2, <3>1
    <2> QED
      BY <2>1, <2>2 DEF Ancestors
  <1> QED
    BY <1>1, <1>2

LEMMA AncestorsTransitive ==
  ASSUME NEW b \in Blocks, NEW x \in Ancestors[b]
  PROVE  x \in Blocks /\ Ancestors[x] \subseteq Ancestors[b]
  BY AncestorsClosed, AncestorsLeast

(* A block reaches no later block. *)
LEMMA AncestorsEarlier ==
  ASSUME LinksInOrder, NEW b \in Blocks, NEW x \in Ancestors[b]
  PROVE  Time[x] <= Time[b] /\ Slice[x] <= Slice[b]
  <1> DEFINE S == {y \in Blocks : Time[y] <= Time[b]}
  <1>1. \A y \in Blocks : Time[y] \in Nat
    BY BlocksAssumption
  <1>2. ASSUME NEW y \in S, NEW h \in Range(Links[y]) PROVE h \in S
    <2>1. y # Genesis
      BY BlocksAssumption DEF Range
    <2>2. PICK i \in DOMAIN Links[y] : h = Links[y][i]
      BY DEF Range
    <2>3. h \in Blocks /\ Time[h] <= Time[y]
      BY <2>1, <2>2, BlocksAssumption DEF LinksInOrder
    <2> QED
      BY <1>1, <2>3
  <1>3. b \in S
    BY <1>1
  <1>4. Ancestors[b] \subseteq S
    <2>1. S \in SUBSET Blocks /\ \A y \in S : Range(Links[y]) \subseteq S
      BY <1>2
    <2> HIDE DEF S
    <2> QED
      BY <1>3, <2>1, AncestorsLeast
  <1>5. x \in Blocks /\ Time[x] <= Time[b]
    BY <1>4
  <1> QED
    BY <1>5, BlocksAssumption

(* What a block reaches, other than itself, is a link of something it reaches. *)
LEMMA AncestorsParent ==
  ASSUME NEW b \in Blocks, NEW x \in Ancestors[b], x # b
  PROVE  \E p \in Ancestors[b] : x \in Range(Links[p])
  <1> SUFFICES ASSUME \A p \in Ancestors[b] : x \notin Range(Links[p]) PROVE FALSE
    OBVIOUS
  <1> DEFINE S == Ancestors[b] \ {x}
  <1>1. S \in SUBSET Blocks /\ b \in S /\ \A y \in S : Range(Links[y]) \subseteq S
    BY AncestorsClosed
  <1> HIDE DEF S
  <1>2. Ancestors[b] \subseteq S
    BY <1>1, AncestorsLeast
  <1> QED
    BY <1>2 DEF S

(* MaxLinkHash names a block that the block reaches. *)
Reached ==
  \A b \in Blocks \ {Genesis} : HasInfo(b) => info[b].maxLink \in Ancestors[b]

LEMMA ChainLinkReached ==
  ASSUME TypeOK, InfoSound, ChainShape, Reached, NEW b \in Blocks, NEW h \in Blocks,
         HasInfo(h), ChainLink(b, h).maxLink \in Blocks
  PROVE  ChainLink(b, h).maxLink \in Ancestors[h]
  <1> DEFINE m == info[h].maxLink
             c == ChainLink(b, h).maxLink
  <1>0. h \in Ancestors[h] /\ None \notin Blocks /\ info[Genesis].maxLink = None
    BY AncestorsClosed, BlocksAssumption DEF InfoSound
  <1>1. CASE c = h
    BY <1>0, <1>1
  <1>2. CASE c = m
    BY <1>0, <1>2 DEF Reached
  <1>3. CASE ~info[h].tmpMax /\ c = info[m].maxLink
    <2>1. h # Genesis
      BY <1>3 DEF InfoSound
    <2>2. m \in Blocks /\ info[m].tmpMax /\ m \in Ancestors[h]
      BY <1>3, <2>1 DEF ChainShape, Reached
    <2>3. HasInfo(m) /\ m # Genesis
      BY <1>0, <1>3, <2>2 DEF HasInfo, NoInfo
    <2>4. c \in Ancestors[m]
      BY <1>3, <2>2, <2>3 DEF Reached
    <2> QED
      BY <2>2, <2>4, AncestorsTransitive
  <1>4. c = h \/ c = m \/ (~info[h].tmpMax /\ c = info[m].maxLink)
    BY DEF ChainLink
  <1> QED
    BY <1>1, <1>2, <1>3, <1>4

LEMMA ReachedStep ==
  ASSUME LinksInOrder, IInv, Reached, [Next]_vars
  PROVE  Reached'
  <1> SUFFICES ASSUME NEW b \in Blocks \ {Genesis}, HasInfo(b)'
               PROVE  info'[b].maxLink \in Ancestors[b]
    BY DEF Reached
  <1>0. TypeOK /\ InfoSound /\ LinksHaveInfo /\ ChainShape /\ GraphFixed
    BY NextInv DEF IInv, GraphInv
  <1>1. CASE HasInfo(b)
    BY <1>0, <1>1 DEF GraphFixed, Reached
  <1>2. CASE ~HasInfo(b)
    <2>1. PICK w \in Workers : SaveInfo(w) /\ blk[w] = b
      BY <1>2, NewRecord
    <2>2. /\ \A h \in Range(Links[b]) : HasInfo(h)
          /\ info' = [info EXCEPT ![b] = ComputeCumulativeDiff(b)]
      BY <2>1 DEF SaveInfo, IInv, WorkersInv
    <2>3. PICK i \in DOMAIN Links[b] :
            LET c == ChainLink(b, Links[b][i])
            IN  /\ ComputeCumulativeDiff(b) =
                     [NoInfo EXCEPT !.tmpMax = c.update, !.cum = c.cum,
                                    !.maxLink = c.maxLink]
                /\ c.maxLink \in Blocks
      BY <1>0, <2>2, ComputeShape
    <2> DEFINE h == Links[b][i]
               c == ChainLink(b, h)
    <2>4. h \in Blocks /\ HasInfo(h) /\ h \in Range(Links[b])
      BY <2>2, LinksShape
    <2>5. c.maxLink \in Ancestors[h]
      BY <1>0, <2>3, <2>4, ChainLinkReached
    <2>6. Ancestors[h] \subseteq Ancestors[b]
      BY <2>4, AncestorsClosed, AncestorsTransitive
    <2>7. info'[b].maxLink = c.maxLink
      <3> HIDE DEF c, h
      <3>1. info'[b] = [NoInfo EXCEPT !.tmpMax = c.update, !.cum = c.cum,
                                    !.maxLink = c.maxLink]
        BY <1>0, <2>2, <2>3 DEF TypeOK, c, h
      <3> QED
        BY <3>1 DEF NoInfo
    <2> QED
      BY <2>5, <2>6, <2>7
  <1> QED
    BY <1>1, <1>2
------------------------------------------------------------------------------
(* The numbering of main blocks: what holds at each step of Confirm, provided    *)
(* that no block is stored twice and no crash interrupts a rollback, since       *)
(* either leaves the database in a state Confirm does not repair.               *)

(* The main-block index up to number K is a chain along MaxLinkHash from the   *)
(* genesis block, of leaders of later and later slices that reach each other. *)
Index(K) ==
  /\ 0 .. K \subseteq DOMAIN mainBlock
  /\ mainBlock[0].hash = Genesis
  /\ \A n \in 0 .. K : /\ mainBlock[n].hash \in Blocks
                       /\ info[mainBlock[n].hash].tmpMax
                       /\ Slice[Genesis] + n <= Slice[mainBlock[n].hash]
  /\ \A n \in 1 .. K : info[mainBlock[n].hash].maxLink = mainBlock[n - 1].hash
  /\ \A m, n \in 0 .. K : m < n =>
       /\ Slice[mainBlock[m].hash] < Slice[mainBlock[n].hash]
       /\ mainBlock[m].hash \in Ancestors[mainBlock[n].hash]

(* The main blocks are those the index names up to number k, and those up to  *)
(* number j carry their number.                                               *)
Mains(k, j) ==
  /\ \A b \in Blocks : info[b].main <=> \E n \in 0 .. k : b = mainBlock[n].hash
  /\ \A n \in 0 .. k : n <= j => info[mainBlock[n].hash].number = n

(* MainTail may be ahead of the main blocks: a rollback that is not followed by *)
(* a new main block leaves it where it was.                                   *)
TailIndexed ==
  Index(mainTail.number) /\ mainTail.hash = mainBlock[mainTail.number].hash

(* The list of Confirm is a chain of leaders along MaxLinkHash; all of them    *)
(* from position f on are still to become main blocks.                        *)
Chained(f) ==
  /\ \A i \in DOMAIN conf.list : /\ info[conf.list[i]].tmpMax
                                 /\ f <= i => ~info[conf.list[i]].main
                                 /\ 1 < i => info[conf.list[i]].maxLink = conf.list[i - 1]
  /\ \A i, j \in DOMAIN conf.list : i < j => Slice[conf.list[i]] < Slice[conf.list[j]]

ListOn(b) == conf.list # << >> => info[conf.list[1]].maxLink = b

IdleNumbered ==
  /\ TailIndexed
  /\ \E k \in 0 .. mainTail.number : Mains(k, k)

FindNumbered ==
  /\ IdleNumbered
  /\ conf.number = mainTail.number
  /\ conf.at # None => info[conf.at].tmpMax
  /\ conf.list # << >> => conf.can
  /\ Chained(1) /\ ListOn(conf.at)

RollbackNumbered ==
  /\ TailIndexed
  /\ conf.number <= mainTail.number
  /\ conf.at = mainBlock[conf.number].hash
  /\ Chained(1) /\ ListOn(conf.locator)
  /\ \E k \in 0 .. conf.number : /\ Mains(k, k)
                                 /\ \E l \in 0 .. k : conf.locator = mainBlock[l].hash

UnwindNumbered ==
  /\ TailIndexed
  /\ 0 < conf.number /\ conf.number <= mainTail.number
  /\ conf.at = mainBlock[conf.number].hash
  /\ conf.stack[1].blk = conf.at
  /\ Chained(1) /\ ListOn(conf.locator)
  /\ \E k \in 0 .. conf.number :
       /\ Mains(k, conf.number - 1)
       /\ \E l \in 0 .. k : l < conf.number /\ conf.locator = mainBlock[l].hash
       /\ \A n \in 0 .. k, i \in DOMAIN conf.stack :
            n < conf.number => conf.stack[i].blk # mainBlock[n].hash

MainNumbered ==
  /\ Index(conf.number) /\ Mains(conf.number, conf.number)
  /\ Chained(1) /\ ListOn(mainBlock[conf.number].hash)

VisitNumbered ==
  /\ 0 < conf.number
  /\ Index(conf.number - 1) /\ Mains(conf.number - 1, conf.number - 1)
  /\ Chained(1) /\ ListOn(mainBlock[conf.number - 1].hash)
  /\ conf.stack[1].blk = conf.list[1]
  /\ \A i \in DOMAIN conf.stack : 1 < i => ~info[conf.stack[i].blk].main

CommitNumbered ==
  /\ 0 < conf.number
  /\ Index(conf.number - 1)
  /\ \A b \in Blocks : info[b].main <=>
       b = conf.list[1] \/ \E n \in 0 .. conf.number - 1 : b = mainBlock[n].hash
  /\ \A n \in 0 .. conf.number - 1 : info[mainBlock[n].hash].number = n
  /\ info[conf.list[1]].number = conf.number
  /\ Chained(2) /\ ListOn(mainBlock[conf.number - 1].hash)

TailNumbered ==
  /\ Index(conf.number) /\ Mains(conf.number, conf.number)
  /\ mainBlock[conf.number].hash = conf.list[1]
  /\ Chained(2)

(* What holds of main blocks, index and MainTail at each step of Confirm. *)
NumberInv ==
  /\ conf.step = "idle" => IdleNumbered
  /\ conf.step = "find" => FindNumbered
  /\ conf.step = "rollback" => RollbackNumbered
  /\ conf.step = "unwind" => UnwindNumbered
  /\ conf.step \in {"load", "main"} => MainNumbered
  /\ conf.step = "visit" => VisitNumbered
  /\ conf.step = "commit" => CommitNumbered
  /\ conf.step = "tail" => TailNumbered

(* No block is stored twice: what the pool's bound on takings and the test for *)
(* the block in the database give.                                            *)
StoredOnce ==
  /\ \A b \in Blocks : HasInfo(b) => b \in rlp
  /\ \A w \in Workers : pc[w] \in {"save", "info"} =>
       taken[blk[w]] > 0 /\ ~HasInfo(blk[w])
  /\ \A w \in Workers : pc[w] = "info" => blk[w] \in rlp
  /\ \A v, w \in Workers :
       v # w /\ pc[v] \in {"save", "info"} /\ pc[w] \in {"save", "info"} => blk[v] # blk[w]

NInv == IInv /\ Reached /\ StoredOnce /\ NumberInv

SlicesFit == \A b \in Blocks : Slice[b] < WordSize

(* Steps that move no record keep the index of main blocks in order. *)
LEMMA IndexKept ==
  ASSUME NEW K \in Nat, Index(K), GraphFixed, mainBlock' = mainBlock
  PROVE  Index(K)'
  <1>1. \A n \in 0 .. K : /\ mainBlock[n].hash \in Blocks
                          /\ HasInfo(mainBlock[n].hash)
    BY DEF Index, HasInfo, NoInfo
  <1>2. \A n \in 1 .. K : n \in 0 .. K
    OBVIOUS
  <1>3. \A n \in 0 .. K : /\ info'[mainBlock[n].hash].tmpMax
                          /\ info'[mainBlock[n].hash].maxLink
                               = info[mainBlock[n].hash].maxLink
    BY <1>1 DEF Index, GraphFixed
  <1> QED
    BY <1>1, <1>2, <1>3 DEF Index

(* An index numbers its blocks one by one. *)
LEMMA IndexDistinct ==
  ASSUME NEW K \in Nat, Index(K), NEW m \in 0 .. K, NEW n \in 0 .. K,
         mainBlock[m].hash = mainBlock[n].hash
  PROVE  m = n
  <1>1. Slice[mainBlock[m].hash] \in Nat /\ Slice[mainBlock[n].hash] \in Nat
    BY BlocksAssumption DEF Index
  <1> QED
    BY <1>1 DEF Index

(* An earlier main block is an earlier block. *)
LEMMA IndexTime ==
  ASSUME NEW K \in Nat, Index(K), NEW m \in 0 .. K, NEW n \in 0 .. K
  PROVE  /\ Time[mainBlock[m].hash] \in Nat
         /\ m < n <=> Time[mainBlock[m].hash] < Time[mainBlock[n].hash]
  <1> DEFINE a == mainBlock[m].hash
             b == mainBlock[n].hash
  <1>1. /\ a \in Blocks /\ b \in Blocks
        /\ m < n => Slice[a] < Slice[b]
        /\ n < m => Slice[b] < Slice[a]
    BY DEF Index
  <1>2. /\ Time[a] \in Nat /\ Time[b] \in Nat /\ Slice[a] \in Nat /\ Slice[b] \in Nat
        /\ Time[a] <= Time[b] => Slice[a] <= Slice[b]
        /\ Time[b] <= Time[a] => Slice[b] <= Slice[a]
    BY <1>1, BlocksAssumption
  <1>3. m < n \/ m = n \/ n < m
    OBVIOUS
  <1> QED
    BY <1>1, <1>2, <1>3

(* The pool's bound on takings excludes a second record. *)
LEMMA OnceStep ==
  ASSUME Copies <= 1, MaxCrashes = 0, IInv, StoredOnce, [Next]_vars
  PROVE  StoredOnce'
  <1>0. /\ info \in [Blocks -> Info] /\ taken \in [Blocks -> Nat] /\ rlp \subseteq Blocks
        /\ pc \in [Workers -> {"idle", "save", "info", "tail", "write"}]
        /\ blk \in [Workers -> Blocks]
        /\ crashes \in Nat
    BY DEF IInv, TypeOK
  <1>1. ASSUME NEW w \in Workers, NEW b \in Blocks, AddBlock(w, b) PROVE StoredOnce'
    <2>1. /\ b \notin rlp /\ taken[b] < Copies /\ UNCHANGED <<info, rlp>>
          /\ taken' = [taken EXCEPT ![b] = @ + 1]
          /\ pc' = [pc EXCEPT ![w] = "save"] /\ blk' = [blk EXCEPT ![w] = b]
      BY <1>1 DEF AddBlock
    <2>2. taken[b] = 0 /\ ~HasInfo(b)
      BY <1>0, <2>1, NumbersAssumption DEF StoredOnce
    <2>3. taken'[b] > 0 /\ \A x \in Blocks : taken[x] > 0 => taken'[x] > 0
      BY <1>0, <2>1
    <2>4. \A v \in Workers \ {w} : pc[v] \in {"save", "info"} => blk[v] # b
      BY <2>2 DEF StoredOnce
    <2>5. /\ pc'[w] = "save" /\ blk'[w] = b
          /\ \A v \in Workers \ {w} : pc'[v] = pc[v] /\ blk'[v] = blk[v]
      BY <1>0, <2>1
    <2> QED
      BY <1>0, <2>1, <2>2, <2>3, <2>4, <2>5 DEF StoredOnce, HasInfo
  <1>2. ASSUME NEW w \in Workers, SaveRlp(w) PROVE StoredOnce'
    <2>1. /\ pc[w] = "save" /\ UNCHANGED <<info, taken, blk>>
          /\ rlp \subseteq rlp' /\ pc' \in {[pc EXCEPT ![w] = "info"], [pc EXCEPT ![w] = "idle"]}
      BY <1>2 DEF SaveRlp
    <2>2. \A v \in Workers : pc'[v] \in {"save", "info"} => pc[v] \in {"save", "info"}
      BY <1>0, <2>1
    <2>3. \A v \in Workers : pc'[v] = "info" => blk[v] \in rlp'
      <3>1. pc'[w] = "info" => blk[w] \in rlp'
        BY <1>0, <1>2 DEF SaveRlp
      <3>2. \A v \in Workers \ {w} : pc'[v] = pc[v]
        BY <1>0, <2>1
      <3> QED
        BY <2>1, <3>1, <3>2 DEF StoredOnce
    <2> QED
      BY <2>1, <2>2, <2>3 DEF StoredOnce, HasInfo
  <1>3. ASSUME NEW w \in Workers, SaveInfo(w) PROVE StoredOnce'
    <2>1. /\ pc[w] = "info" /\ UNCHANGED <<rlp, taken, blk>>
          /\ info' = [info EXCEPT ![blk[w]] = ComputeCumulativeDiff(blk[w])]
          /\ pc' \in {[pc EXCEPT ![w] = "tail"], [pc EXCEPT ![w] = "idle"]}
      BY <1>3 DEF SaveInfo
    <2>2. pc'[w] \notin {"save", "info"} /\ \A v \in Workers \ {w} : pc'[v] = pc[v]
      BY <1>0, <2>1
    <2>3. \A x \in Blocks : x # blk[w] => info'[x] = info[x]
      BY <1>0, <2>1
    <2>4. blk[w] \in rlp
      BY <2>1 DEF StoredOnce
    <2> QED
      BY <1>0, <2>1, <2>2, <2>3, <2>4 DEF StoredOnce, HasInfo
  <1>4. ASSUME UnwindBlock \/ VisitBlock PROVE StoredOnce'
    <2>1. PICK x \in Blocks, r \in Info : HasInfo(x) /\ info' = [info EXCEPT ![x] = r]
      BY <1>4, WritingSteps
    <2>2. \A b \in Blocks : HasInfo(b)' => HasInfo(b)
      BY <1>0, <2>1 DEF HasInfo
    <2>3. UNCHANGED <<rlp, taken, pc, blk>>
      BY <1>4 DEF UnwindBlock, VisitBlock, ConfUnchanged
    <2> QED
      BY <1>0, <2>2, <2>3 DEF StoredOnce
  <1>5. ASSUME UNCHANGED <<info, rlp, taken, blk>>,
               \A v \in Workers : pc'[v] \in {"save", "info"} => pc[v] = pc'[v]
        PROVE  StoredOnce'
    BY <1>5 DEF StoredOnce, HasInfo
  <1>6. ~CrashRestart
    BY <1>0 DEF CrashRestart
  <1>7. \/ \E w \in Workers : \/ \E b \in Blocks : AddBlock(w, b)
                              \/ SaveRlp(w) \/ SaveInfo(w)
        \/ UnwindBlock \/ VisitBlock
        \/ /\ UNCHANGED <<info, rlp, taken, blk>>
           /\ \A v \in Workers : pc'[v] \in {"save", "info"} => pc[v] = pc'[v]
    <2>1. ASSUME NEW w \in Workers, UpdateTailCheck(w) \/ UpdateTailWrite(w)
          PROVE  /\ UNCHANGED <<info, rlp, taken, blk>>
                 /\ \A v \in Workers : pc'[v] \in {"save", "info"} => pc[v] = pc'[v]
      <3>1. /\ UNCHANGED <<info, rlp, taken, blk>>
            /\ pc' \in {[pc EXCEPT ![w] = "write"], [pc EXCEPT ![w] = "idle"]}
        BY <2>1 DEF UpdateTailCheck, UpdateTailWrite
      <3> QED
        BY <1>0, <3>1
    <2>2. ASSUME ConfirmStep, ~UnwindBlock, ~VisitBlock
          PROVE  UNCHANGED <<info, rlp, taken, blk, pc>>
      BY <2>2 DEF ConfirmStep, ConfirmBegin, FindStep, RollbackNext, UnwindLink, LoadState,
           NextMain, VisitLink, CommitMain, MoveMainTail, ConfUnchanged
    <2>3. Tick => UNCHANGED <<info, rlp, taken, blk, pc>>
      BY DEF Tick
    <2>4. UNCHANGED vars => UNCHANGED <<info, rlp, taken, blk, pc>>
      BY DEF vars
    <2> QED
      BY <1>6, <2>1, <2>2, <2>3, <2>4 DEF Next
  <1> QED
    BY <1>1, <1>2, <1>3, <1>4, <1>5, <1>7
------------------------------------------------------------------------------
(* Steps outside Confirm leave its picture of the main blocks as it is. *)

(* The main blocks up to a number stay while the records the index names keep  *)
(* their status and no other block becomes a main block.                      *)
LEMMA MainsKept ==
  ASSUME NEW K \in Nat, NEW k \in 0 .. K, NEW j \in Int, Index(K), Mains(k, j),
         mainBlock' = mainBlock,
         \A b \in Blocks : info'[b].main <=> info[b].main,
         \A n \in 0 .. k : n <= j =>
           info'[mainBlock[n].hash].number = info[mainBlock[n].hash].number
  PROVE  Mains(k, j)'
  BY DEF Index, Mains

LEMMA ChainedKept ==
  ASSUME ConfInv, NEW f \in {1, 2}, Chained(f), GraphFixed, conf'.list = conf.list,
         \A b \in Blocks : HasInfo(b) => (info'[b].main => info[b].main)
  PROVE  /\ Chained(f)'
         /\ conf.list # << >> => info'[conf.list[1]].maxLink = info[conf.list[1]].maxLink
  <1>1. /\ conf.list \in Seq(Blocks)
        /\ \A i \in DOMAIN conf.list : HasInfo(conf.list[i])
    BY DEF ConfInv, ConfSound, Conf
  <1>2. \A i \in DOMAIN conf.list :
          /\ conf.list[i] \in Blocks
          /\ info'[conf.list[i]].tmpMax = info[conf.list[i]].tmpMax
          /\ info'[conf.list[i]].maxLink = info[conf.list[i]].maxLink
          /\ info'[conf.list[i]].main => info[conf.list[i]].main
    BY <1>1 DEF GraphFixed
  <1>3. conf.list # << >> => 1 \in DOMAIN conf.list
    BY <1>1
  <1> QED
    BY <1>2, <1>3 DEF Chained

LEMMA QuietKeeps ==
  ASSUME NInv, GraphFixed, UNCHANGED <<conf, mainTail, mainBlock>>,
         \A b \in Blocks : HasInfo(b) => info'[b] = info[b],
         \A b \in Blocks : ~HasInfo(b) => ~info'[b].main
  PROVE  NumberInv'
  <1>0. /\ ConfInv /\ mainTail.number \in Nat /\ conf.number \in Nat
        /\ conf \in Conf
        /\ \A b \in Blocks : info[b].main => HasInfo(b)
    <2>1. TypeOK /\ ConfInv
      BY DEF NInv, IInv
    <2>2. conf \in Conf /\ conf.number \in Nat
      BY <2>1 DEF ConfInv, ConfSound, Conf
    <2>3. \A b \in Blocks : info[b].main => HasInfo(b)
      BY DEF HasInfo, NoInfo
    <2> QED
      BY <2>1, <2>2, <2>3 DEF TypeOK
  <1>1. \A b \in Blocks : info'[b].main <=> info[b].main
    BY <1>0 DEF NInv
  <1>2. ASSUME NEW K \in Nat, Index(K)
        PROVE  /\ Index(K)'
               /\ \A k \in 0 .. K, j \in Int : Mains(k, j) => Mains(k, j)'
    <2>1. Index(K)'
      BY <1>2, IndexKept
    <2>2. \A n \in 0 .. K : HasInfo(mainBlock[n].hash) /\ mainBlock[n].hash \in Blocks
      BY <1>2 DEF Index, HasInfo, NoInfo
    <2>3. ASSUME NEW k \in 0 .. K, NEW j \in Int, Mains(k, j) PROVE Mains(k, j)'
      <3>1. \A n \in 0 .. k : n \in 0 .. K
        OBVIOUS
      <3> QED
        BY <1>1, <1>2, <2>2, <2>3, <3>1, MainsKept
    <2> QED
      BY <2>1, <2>3
  <1>3. \A f \in {1, 2} : Chained(f) => Chained(f)'
    BY <1>0, <1>1, ChainedKept
  <1>4. Chained(1) \/ Chained(2) =>
          \A b \in Blocks \cup {None} : ListOn(b) => ListOn(b)'
    BY <1>0, <1>1, ChainedKept DEF ListOn
  <1>5. PICK K \in Nat, N \in Nat : K = mainTail.number /\ N = conf.number
    BY <1>0
  <1>6. TailIndexed => TailIndexed' /\ \A k \in 0 .. K, j \in Int : Mains(k, j) => Mains(k, j)'
    BY <1>2, <1>5 DEF TailIndexed
  <1>7. IdleNumbered => IdleNumbered'
    BY <1>5, <1>6 DEF IdleNumbered
  <1>8. FindNumbered => FindNumbered'
    <2> SUFFICES ASSUME FindNumbered PROVE FindNumbered'
      OBVIOUS
    <2>1. IdleNumbered' /\ Chained(1)'
      BY <1>3, <1>7 DEF FindNumbered
    <2>2. conf.at \in Blocks \cup {None} /\ (conf.at # None => info[conf.at].tmpMax)
      BY <1>0 DEF FindNumbered, Conf
    <2>3. conf'.at # None => info'[conf'.at].tmpMax
      BY <2>2 DEF GraphFixed, HasInfo, NoInfo
    <2>4. ListOn(conf.at)'
      BY <1>4, <2>2 DEF FindNumbered, ListOn
    <2> QED
      BY <2>1, <2>3, <2>4 DEF FindNumbered
  <1>9. \A b \in Blocks : ListOn(b) /\ (Chained(1) \/ Chained(2)) => ListOn(b)'
    BY <1>4
  <1>10. conf.locator \in Blocks
    BY <1>0 DEF Conf
  <1>11. RollbackNumbered => RollbackNumbered'
    <2> SUFFICES ASSUME RollbackNumbered PROVE RollbackNumbered'
      OBVIOUS
    <2>1. TailIndexed' /\ Chained(1)'
      BY <1>3, <1>6 DEF RollbackNumbered
    <2>2. PICK L \in Blocks : L = conf.locator
      BY <1>10
    <2>3. ListOn(L)'
      BY <1>9, <2>2 DEF RollbackNumbered
    <2>4. ListOn(conf.locator)'
      BY <2>2, <2>3 DEF ListOn
    <2>5. PICK k \in 0 .. N : /\ Mains(k, k)
                              /\ \E l \in 0 .. k : conf.locator = mainBlock[l].hash
      BY <1>5 DEF RollbackNumbered
    <2>6. k \in 0 .. K /\ N <= K
      BY <1>5 DEF RollbackNumbered
    <2>7. Mains(k, k)'
      BY <1>6, <2>5, <2>6 DEF RollbackNumbered
    <2> QED
      BY <1>5, <2>1, <2>4, <2>5, <2>6, <2>7 DEF RollbackNumbered
  <1>12. UnwindNumbered => UnwindNumbered'
    <2> SUFFICES ASSUME UnwindNumbered PROVE UnwindNumbered'
      OBVIOUS
    <2>1. TailIndexed' /\ Chained(1)'
      BY <1>3, <1>6 DEF UnwindNumbered
    <2>2. PICK L \in Blocks : L = conf.locator
      BY <1>10
    <2>3. ListOn(L)'
      BY <1>9, <2>2 DEF UnwindNumbered
    <2>4. ListOn(conf.locator)'
      BY <2>2, <2>3 DEF ListOn
    <2>5. PICK k \in 0 .. N :
            /\ Mains(k, N - 1)
            /\ \E l \in 0 .. k : l < N /\ conf.locator = mainBlock[l].hash
            /\ \A n \in 0 .. k, i \in DOMAIN conf.stack :
                 n < N => conf.stack[i].blk # mainBlock[n].hash
      BY <1>5 DEF UnwindNumbered
    <2>6. k \in 0 .. K /\ N <= K
      BY <1>5 DEF UnwindNumbered
    <2>7. Mains(k, N - 1)'
      BY <1>6, <2>5, <2>6 DEF UnwindNumbered
    <2>8. Mains(k, conf.number - 1)'
      BY <1>5, <2>7 DEF Mains
    <2> QED
      BY <1>5, <2>1, <2>4, <2>5, <2>6, <2>8 DEF UnwindNumbered
  <1>13. MainNumbered => MainNumbered'
    <2> SUFFICES ASSUME MainNumbered PROVE MainNumbered'
      OBVIOUS
    <2>1. Index(N) /\ Mains(N, N) /\ Chained(1) /\ ListOn(mainBlock[N].hash)
      BY <1>5 DEF MainNumbered
    <2>2. PICK B \in Blocks : B = mainBlock[N].hash
      BY <2>1 DEF Index
    <2>3. Index(N)' /\ Mains(N, N)' /\ Chained(1)' /\ ListOn(B)'
      BY <1>2, <1>3, <1>9, <2>1, <2>2
    <2>4. ListOn(mainBlock[conf.number].hash)'
      BY <1>5, <2>2, <2>3 DEF ListOn
    <2>5. Index(conf.number)' /\ Mains(conf.number, conf.number)'
      BY <1>5, <2>3 DEF Index, Mains
    <2> QED
      BY <2>3, <2>4, <2>5 DEF MainNumbered
  <1>14. VisitNumbered => VisitNumbered'
    <2> SUFFICES ASSUME VisitNumbered PROVE VisitNumbered'
      OBVIOUS
    <2>0. PICK M \in Nat : M = conf.number - 1 /\ conf.number > 0
      BY <1>0 DEF VisitNumbered
    <2>1. Index(M) /\ Mains(M, M) /\ Chained(1) /\ ListOn(mainBlock[M].hash)
      BY <2>0 DEF VisitNumbered
    <2>2. PICK B \in Blocks : B = mainBlock[M].hash
      BY <2>1 DEF Index
    <2>3. Index(M)' /\ Mains(M, M)' /\ Chained(1)' /\ ListOn(B)'
      BY <1>2, <1>3, <1>9, <2>1, <2>2
    <2>4. ListOn(mainBlock[conf.number - 1].hash)'
      BY <2>0, <2>2, <2>3 DEF ListOn
    <2>5. Index(conf.number - 1)' /\ Mains(conf.number - 1, conf.number - 1)'
      BY <2>0, <2>3 DEF Index, Mains
    <2>6. \A i \in DOMAIN conf'.stack : 1 < i => ~info'[conf'.stack[i].blk].main
      <3>0. conf.stack \in Seq(Frame) /\ \A f \in Frame : f.blk \in Blocks
        BY <1>0 DEF Conf, Frame
      <3>1. \A i \in DOMAIN conf.stack : conf.stack[i].blk \in Blocks
        BY <3>0
      <3> QED
        BY <1>1, <3>1 DEF VisitNumbered
    <2>7. conf'.stack[1].blk = conf'.list[1] /\ 0 < conf'.number
      BY DEF VisitNumbered
    <2> QED
      BY <2>3, <2>4, <2>5, <2>6, <2>7 DEF VisitNumbered
  <1>15. conf.list # << >> => conf.list[1] \in Blocks
    BY <1>0 DEF Conf
  <1>16. conf.step = "commit" => (CommitNumbered => CommitNumbered')
    <2> SUFFICES ASSUME conf.step = "commit", CommitNumbered PROVE CommitNumbered'
      OBVIOUS
    <2>0. /\ \E M \in Nat : M = conf.number - 1 /\ conf.number > 0
          /\ conf.list # << >>
      BY <1>0 DEF CommitNumbered, ConfInv, ConfSound
    <2>00. PICK M \in Nat : M = conf.number - 1 /\ conf.number > 0
      BY <2>0
    <2>1. Index(M) /\ Chained(2) /\ ListOn(mainBlock[M].hash)
      BY <2>00 DEF CommitNumbered
    <2>2. PICK B \in Blocks : B = mainBlock[M].hash
      BY <2>1 DEF Index
    <2>3. Index(M)' /\ Chained(2)' /\ ListOn(B)'
      BY <1>2, <1>3, <1>9, <2>1, <2>2
    <2>4. ListOn(mainBlock[conf.number - 1].hash)'
      BY <2>00, <2>2, <2>3 DEF ListOn
    <2>5. Index(conf.number - 1)'
      BY <2>00, <2>3 DEF Index
    <2>6. PICK H \in Blocks : H = conf.list[1]
      BY <1>15, <2>0
    <2>7. /\ \A b \in Blocks : info[b].main <=> b = H \/ \E n \in 0 .. M : b = mainBlock[n].hash
          /\ \A n \in 0 .. M : info[mainBlock[n].hash].number = n
          /\ info[H].number = conf.number
      BY <2>00, <2>6 DEF CommitNumbered
    <2>8. \A n \in 0 .. M : mainBlock[n].hash \in Blocks
      BY <2>1 DEF Index
    <2>9. /\ info'[H] = info[H]
          /\ \A n \in 0 .. M : info'[mainBlock[n].hash] = info[mainBlock[n].hash]
      BY <1>0, <2>7, <2>8
    <2>10. /\ \A b \in Blocks : info'[b].main <=> b = H \/ \E n \in 0 .. M : b = mainBlock[n].hash
           /\ \A n \in 0 .. M : info'[mainBlock[n].hash].number = n
           /\ info'[H].number = conf.number
      BY <1>1, <2>7, <2>9
    <2> QED
      BY <2>00, <2>3, <2>4, <2>5, <2>6, <2>10 DEF CommitNumbered
  <1>17. TailNumbered => TailNumbered'
    <2> SUFFICES ASSUME TailNumbered PROVE TailNumbered'
      OBVIOUS
    <2>1. Index(N) /\ Mains(N, N) /\ Chained(2)
      BY <1>5 DEF TailNumbered
    <2>2. Index(N)' /\ Mains(N, N)' /\ Chained(2)'
      BY <1>2, <1>3, <2>1
    <2>3. Index(conf.number)' /\ Mains(conf.number, conf.number)'
      BY <1>5, <2>2 DEF Index, Mains
    <2> QED
      BY <2>2, <2>3 DEF TailNumbered
  <1> QED
    BY <1>7, <1>8, <1>11, <1>12, <1>13, <1>14, <1>16, <1>17 DEF NInv, NumberInv
------------------------------------------------------------------------------
(* The walk and the rollback *)

(* What every step of Confirm that writes no record leaves alone. *)
LEMMA ReadingKeeps ==
  ASSUME UNCHANGED <<info, mainTail, mainBlock>>
  PROVE  /\ TailIndexed => TailIndexed'
         /\ \A K \in Nat : Index(K) => Index(K)'
         /\ \A k, j \in Int : Mains(k, j) => Mains(k, j)'
         /\ conf'.list = conf.list =>
              /\ \A f \in {1, 2} : Chained(f) => Chained(f)'
              /\ \A b \in Blocks \cup {None} : ListOn(b) => ListOn(b)'
  <1>1. \A K \in Nat : Index(K) => Index(K)'
    BY DEF Index
  <1>2. \A k, j \in Int : Mains(k, j) => Mains(k, j)'
    BY DEF Mains
  <1>3. TailIndexed => TailIndexed'
    BY DEF TailIndexed, Index
  <1>4. conf'.list = conf.list =>
              /\ \A f \in {1, 2} : Chained(f) => Chained(f)'
              /\ \A b \in Blocks \cup {None} : ListOn(b) => ListOn(b)'
    BY DEF Chained, ListOn
  <1> QED
    BY <1>1, <1>2, <1>3, <1>4

LEMMA BeginKeeps ==
  ASSUME NInv, ConfirmBegin
  PROVE  NumberInv'
  <1>1. /\ conf.step = "idle" /\ UNCHANGED <<info, mainTail, mainBlock>>
        /\ conf' = [IdleConf EXCEPT !.step = "find", !.at = tail, !.now = now,
                                    !.number = mainTail.number]
    BY DEF ConfirmBegin, ConfUnchanged
  <1>2. /\ conf'.step = "find" /\ conf'.at = tail /\ conf'.number = mainTail.number
        /\ conf'.list = << >>
    BY <1>1 DEF IdleConf
  <1>3. IdleNumbered' 
    <2>1. IdleNumbered
      BY <1>1 DEF NInv, NumberInv
    <2>2. TailIndexed'
      BY <1>1, <2>1, ReadingKeeps DEF IdleNumbered
    <2>3. PICK k \in 0 .. mainTail.number : Mains(k, k)
      BY <2>1 DEF IdleNumbered
    <2>4. Mains(k, k)'
      BY <1>1, <2>3, ReadingKeeps
    <2> QED
      BY <1>1, <2>2, <2>4 DEF IdleNumbered
  <1>4. info[tail].tmpMax
    BY DEF NInv, IInv, TailLeads
  <1>5. Chained(1)' /\ ListOn(conf.at)'
    <2>1. DOMAIN << >> = 1 .. 0
      BY EmptySeq, LenProperties
    <2> QED
      BY <1>2, <2>1 DEF Chained, ListOn
  <1>6. FindNumbered'
    BY <1>1, <1>2, <1>3, <1>4, <1>5 DEF FindNumbered
  <1> QED
    BY <1>2, <1>6 DEF NumberInv

(* The walk prepends a leader that hangs before its list. *)
LEMMA PrependChained ==
  ASSUME NInv, Chained(1), NEW b \in Blocks, ListOn(b), info[b].tmpMax, ~info[b].main,
         info' = info, conf'.list = <<b>> \o conf.list
  PROVE  Chained(1)' /\ conf'.list # << >> /\ conf'.list[1] = b
  <1> DEFINE s == conf.list
             t == <<b>> \o s
  <1>1. s \in Seq(Blocks)
    BY DEF NInv, IInv, ConfInv, ConfSound, Conf
  <1>2. /\ Len(t) = Len(s) + 1 /\ DOMAIN t = 1 .. Len(s) + 1 /\ DOMAIN s = 1 .. Len(s)
        /\ t[1] = b /\ \A i \in 2 .. Len(s) + 1 : t[i] = s[i - 1]
        /\ Len(s) \in Nat /\ t # << >>
    BY <1>1
  <1>3. \A x \in Blocks : Slice[x] \in Nat
    BY BlocksAssumption
  <1>4. \A i \in 1 .. Len(s) : Slice[b] < Slice[s[i]]
    <2> SUFFICES ASSUME NEW i \in 1 .. Len(s) PROVE Slice[b] < Slice[s[i]]
      OBVIOUS
    <2>1. 1 \in 1 .. Len(s) /\ s # << >>
      BY <1>2
    <2>2. s[1] \in Blocks /\ s[i] \in Blocks
      BY <1>1, <2>1
    <2>3. info[s[1]].maxLink = b /\ info[s[1]].tmpMax
      BY <1>2, <2>1 DEF ListOn, Chained
    <2>4. s[1] # Genesis
      BY <2>3, BlocksAssumption DEF NInv, IInv, GraphInv, InfoSound
    <2>5. HasInfo(s[1])
      BY <2>3 DEF HasInfo, NoInfo
    <2>6. Slice[b] < Slice[s[1]]
      BY <2>2, <2>3, <2>4, <2>5 DEF NInv, IInv, GraphInv, ChainShape
    <2>7. 1 < i => Slice[s[1]] < Slice[s[i]]
      BY <1>2, <2>1 DEF Chained
    <2> QED
      BY <1>3, <2>2, <2>6, <2>7
  <1>5. \A i \in 2 .. Len(s) + 1 : i - 1 \in DOMAIN s
    BY <1>2
  <1>6. ASSUME NEW i \in DOMAIN t
        PROVE  /\ info[t[i]].tmpMax /\ ~info[t[i]].main
               /\ 1 < i => info[t[i]].maxLink = t[i - 1]
    <2>1. CASE i = 1
      BY <1>2, <2>1
    <2>2. CASE i # 1
      <3>1. i \in 2 .. Len(s) + 1 /\ i - 1 \in DOMAIN s /\ t[i] = s[i - 1]
        BY <1>2, <2>2
      <3>2. info[t[i]].tmpMax /\ ~info[t[i]].main
        BY <3>1 DEF Chained
      <3>3. CASE i = 2
        <4>1. t[i] = s[1] /\ t[i - 1] = b /\ s # << >>
          BY <1>2, <3>1, <3>3
        <4>2. info[s[1]].maxLink = b
          BY <4>1 DEF ListOn
        <4> QED
          BY <3>2, <4>1, <4>2
      <3>4. CASE i # 2
        <4>1. i - 1 \in 2 .. Len(s) + 1 /\ t[i - 1] = s[(i - 1) - 1]
          BY <1>2, <3>1, <3>4
        <4>2. 1 < i - 1
          BY <3>1, <3>4
        <4>3. info[s[i - 1]].maxLink = s[(i - 1) - 1]
          BY <3>1, <4>2 DEF Chained
        <4> QED
          BY <3>1, <3>2, <4>1, <4>3
      <3> QED
        BY <3>2, <3>3, <3>4
    <2> QED
      BY <2>1, <2>2
  <1>7. ASSUME NEW i \in DOMAIN t, NEW j \in DOMAIN t, i < j
        PROVE  Slice[t[i]] < Slice[t[j]]
    <2>1. j \in 2 .. Len(s) + 1 /\ t[j] = s[j - 1] /\ j - 1 \in 1 .. Len(s)
      BY <1>2, <1>7
    <2>2. CASE i = 1
      BY <1>2, <1>4, <2>1, <2>2
    <2>3. CASE i # 1
      <3>1. i \in 2 .. Len(s) + 1 /\ t[i] = s[i - 1] /\ i - 1 \in DOMAIN s /\ j - 1 \in DOMAIN s
        BY <1>2, <2>1, <2>3
      <3>2. i - 1 < j - 1
        BY <1>2, <1>7
      <3> QED
        BY <2>1, <3>1, <3>2 DEF Chained
    <2> QED
      BY <2>2, <2>3
  <1>8. Chained(1)'
    <2> HIDE DEF t
    <2>1. conf'.list = t
      BY DEF t
    <2> QED
      BY <1>6, <1>7, <2>1 DEF Chained
  <1> QED
    BY <1>2, <1>8

LEMMA FindKeeps ==
  ASSUME NInv, FindStep
  PROVE  NumberInv'
  <1> DEFINE b == conf.at
             can == conf.can \/ TimeSliceDifference(conf.now, Slice[b]) > ConfirmBlock
  <1> PICK T \in Nat : T = mainTail.number
    BY DEF NInv, IInv, TypeOK
  <1>0. /\ conf.step = "find" /\ UNCHANGED <<info, mainTail, mainBlock>>
        /\ conf \in Conf /\ T \in Nat /\ TypeOK
        /\ conf.list \in Seq(Blocks)
    BY DEF FindStep, ConfUnchanged, NInv, IInv, TypeOK, ConfInv, ConfSound, Conf
  <1>1. FindNumbered /\ TailIndexed /\ Index(T) /\ mainTail.hash = mainBlock[T].hash
    BY <1>0 DEF NInv, NumberInv, FindNumbered, IdleNumbered, TailIndexed
  <1>2. PICK k \in 0 .. T : Mains(k, k)
    BY <1>1 DEF FindNumbered, IdleNumbered
  <1>3. TailIndexed' /\ Index(T)' /\ Mains(k, k)'
    <2>1. k \in Int
      OBVIOUS
    <2>2. /\ TailIndexed => TailIndexed'
          /\ \A K \in Nat : Index(K) => Index(K)'
          /\ \A i, j \in Int : Mains(i, j) => Mains(i, j)'
      BY <1>0, ReadingKeeps
    <2> QED
      BY <1>1, <1>2, <2>1, <2>2
  <1>4. IdleNumbered'
    BY <1>0, <1>2, <1>3 DEF IdleNumbered
  <1>5. IdleConf.step = "idle"
    BY DEF IdleConf
  <1>6. CASE b = None \/ ~Stored(b)
    <2>1. conf' = IdleConf
      BY <1>6 DEF FindStep
    <2> QED
      BY <1>4, <1>5, <2>1 DEF NumberInv
  <1>7. ASSUME ~(b = None \/ ~Stored(b)) PROVE b \in Blocks /\ HasInfo(b) /\ info[b].tmpMax
    BY <1>0, <1>1, <1>7 DEF Conf, Stored, FindNumbered
  <1>8. CASE ~(b = None \/ ~Stored(b)) /\ can /\ IsLocator(b)
    <2>1. PICK l \in 0 .. k : b = mainBlock[l].hash
      BY <1>2, <1>7, <1>8 DEF IsLocator, Mains
    <2>2. l \in 0 .. T /\ T \in 0 .. T
      BY <1>0
    <2> PICK B \in Blocks : B = b
      BY <1>7, <1>8
    <2>3. CASE Time[b] < Time[mainTail.hash]
      <3>1. conf' = [conf EXCEPT !.step = "rollback", !.locator = b, !.at = mainTail.hash]
        BY <1>8, <2>3 DEF FindStep
      <3>2. /\ conf'.step = "rollback" /\ conf'.locator = b /\ conf'.at = mainTail.hash
            /\ conf'.list = conf.list /\ conf'.number = conf.number
        BY <1>0, <3>1 DEF Conf
      <3>3. conf.number = T
        BY <1>1 DEF FindNumbered
      <3>4. Chained(1)' /\ ListOn(B)'
        BY <1>0, <1>1, <1>7, <1>8, <3>2, ReadingKeeps DEF FindNumbered
      <3>5. ListOn(conf.locator)'
        BY <3>2, <3>4 DEF ListOn
      <3>6. RollbackNumbered'
        BY <1>0, <1>1, <1>2, <1>3, <2>1, <3>2, <3>3, <3>4, <3>5 DEF RollbackNumbered
      <3> QED
        BY <3>2, <3>6 DEF NumberInv
    <2>4. CASE ~(Time[b] < Time[mainTail.hash])
      <3>1. conf' = AfterRollback([conf EXCEPT !.locator = b])
        BY <1>8, <2>4 DEF FindStep
      <3>2. CASE conf.list = << >>
        <4>1. conf' = IdleConf
          BY <1>0, <3>1, <3>2 DEF AfterRollback, Conf
        <4> QED
          BY <1>4, <1>5, <4>1 DEF NumberInv
      <3>3. CASE conf.list # << >>
        <4>1. conf' = [[conf EXCEPT !.locator = b] EXCEPT !.step = "load", !.at = None]
          BY <1>0, <3>1, <3>3 DEF AfterRollback, Conf
        <4>2. /\ conf'.step = "load" /\ conf'.number = conf.number
              /\ conf'.list = conf.list
          BY <1>0, <4>1 DEF Conf
        <4>3. l = T
          <5>1. ~(l < T)
            BY <1>0, <1>1, <2>1, <2>2, <2>4, IndexTime
          <5> QED
            BY <1>0, <2>2, <5>1
        <4>4. k = T
          BY <1>0, <4>3
        <4>5. conf.number = T
          BY <1>1 DEF FindNumbered
        <4>6. Chained(1)' /\ ListOn(B)'
          BY <1>0, <1>1, <1>7, <1>8, <4>2, ReadingKeeps DEF FindNumbered
        <4>7. ListOn(mainBlock[conf.number].hash)'
          BY <1>0, <2>1, <4>2, <4>3, <4>5, <4>6 DEF ListOn
        <4>8. Index(conf.number)' /\ Mains(conf.number, conf.number)'
          BY <1>0, <1>3, <4>2, <4>4, <4>5 DEF Index, Mains
        <4>9. MainNumbered'
          BY <4>6, <4>7, <4>8 DEF MainNumbered
        <4> QED
          BY <4>2, <4>9 DEF NumberInv
      <3> QED
        BY <3>2, <3>3
    <2> QED
      BY <2>3, <2>4
  <1>9. CASE ~(b = None \/ ~Stored(b)) /\ ~(can /\ IsLocator(b))
    <2> DEFINE l == IF can THEN <<b>> \o conf.list ELSE conf.list
               a == IF can /\ info[b].apply THEN conf.applied \cup {b} ELSE conf.applied
    <2>1. conf' = [conf EXCEPT !.can = can, !.list = l, !.applied = a,
                               !.at = info[b].maxLink]
      BY <1>9 DEF FindStep
    <2>2. /\ conf'.step = "find" /\ conf'.can = can /\ conf'.list = l
          /\ conf'.at = info[b].maxLink /\ conf'.number = conf.number
      BY <1>0, <2>1 DEF Conf
    <2>3. b \in Blocks /\ HasInfo(b) /\ info[b].tmpMax
      BY <1>7, <1>9
    <2>4. info'[info[b].maxLink].tmpMax \/ info[b].maxLink = None
      <3>1. b = Genesis => info[b].maxLink = None
        BY DEF NInv, IInv, GraphInv, InfoSound
      <3>2. b # Genesis => info[info[b].maxLink].tmpMax
        BY <2>3 DEF NInv, IInv, GraphInv, ChainShape
      <3> QED
        BY <1>0, <3>1, <3>2
    <2>5. CASE can
      <3>1. ~info[b].main
        <4> SUFFICES ASSUME info[b].main PROVE FALSE
          OBVIOUS
        <4>1. PICK n \in 0 .. k : b = mainBlock[n].hash
          BY <1>2, <2>3 DEF Mains
        <4>2. n \in 0 .. T /\ T \in 0 .. T
          BY <1>0
        <4>3. Time[b] \in Nat /\ Time[mainTail.hash] \in Nat /\ ~(T < n)
          BY <1>0, <1>1, <4>1, <4>2, IndexTime
        <4>4. ~(Time[mainTail.hash] < Time[b])
          BY <1>0, <1>1, <4>1, <4>2, <4>3, IndexTime
        <4>5. IsLocator(b)
          BY <4>3, <4>4 DEF IsLocator
        <4> QED
          BY <1>9, <2>5, <4>5
      <3>2. l = <<b>> \o conf.list
        BY <2>5
      <3>3. Chained(1)' /\ conf'.list # << >> /\ conf'.list[1] = b
        BY <1>0, <1>1, <2>2, <2>3, <3>1, <3>2, PrependChained DEF FindNumbered
      <3>4. ListOn(conf.at)'
        BY <1>0, <2>2, <3>3 DEF ListOn
      <3>5. FindNumbered'
        <4> HIDE DEF can, l, a
        <4> QED
          BY <1>0, <1>1, <1>4, <2>2, <2>4, <2>5, <3>3, <3>4 DEF FindNumbered
      <3> QED
        BY <2>2, <3>5 DEF NumberInv
    <2>6. CASE ~can
      <3>1. conf.list = << >> /\ conf'.list = << >>
        BY <1>1, <2>2, <2>6 DEF FindNumbered
      <3>2. Chained(1)' /\ ListOn(conf.at)'
        <4>1. DOMAIN << >> = 1 .. 0
          BY EmptySeq, LenProperties
        <4> QED
          BY <3>1, <4>1 DEF Chained, ListOn
      <3>3. FindNumbered'
        <4> HIDE DEF can, l, a
        <4> QED
          BY <1>0, <1>1, <1>4, <2>2, <2>4, <3>1, <3>2 DEF FindNumbered
      <3> QED
        BY <2>2, <3>3 DEF NumberInv
    <2> QED
      BY <2>5, <2>6
  <1> QED
    BY <1>6, <1>8, <1>9

(* Where the rollback stops it stands on the locator. *)
LEMMA RollbackStops ==
  ASSUME NInv, conf.step = "rollback", NEW N \in Nat, N = conf.number
  PROVE  /\ conf.at \in Blocks /\ Stored(conf.at)
         /\ \E k \in 0 .. N, l \in 0 .. N :
              /\ Mains(k, k) /\ l <= k /\ conf.locator = mainBlock[l].hash
              /\ Time[conf.locator] >= Time[conf.at] => l = N /\ k = N
              /\ ~(Time[conf.locator] >= Time[conf.at]) => l < N
  <1>0. /\ RollbackNumbered /\ StoredOnce /\ TypeOK /\ rlp \subseteq Blocks
    BY DEF NInv, NumberInv, IInv, TypeOK
  <1>1. PICK T \in Nat : T = mainTail.number /\ Index(T) /\ N \in 0 .. T
    BY <1>0 DEF RollbackNumbered, TailIndexed, TypeOK
  <1>2. PICK k \in 0 .. N : /\ Mains(k, k)
                            /\ \E l \in 0 .. k : conf.locator = mainBlock[l].hash
    BY <1>0 DEF RollbackNumbered
  <1>3. PICK l \in 0 .. k : conf.locator = mainBlock[l].hash
    BY <1>2
  <1>4. conf.at = mainBlock[N].hash
    BY <1>0 DEF RollbackNumbered
  <1>5. conf.at \in Blocks /\ info[conf.at].tmpMax
    BY <1>1, <1>4 DEF Index
  <1>6. HasInfo(conf.at)
    BY <1>5 DEF HasInfo, NoInfo
  <1>7. Stored(conf.at)
    BY <1>0, <1>5, <1>6 DEF StoredOnce, Stored
  <1>8. l \in 0 .. N /\ l \in 0 .. T
    BY <1>1
  <1>9. /\ Time[conf.locator] \in Nat /\ Time[conf.at] \in Nat
        /\ l < N <=> Time[conf.locator] < Time[conf.at]
    BY <1>1, <1>3, <1>4, <1>8, IndexTime
  <1>10. Time[conf.locator] >= Time[conf.at] => l = N /\ k = N
    BY <1>8, <1>9
  <1>11. ~(Time[conf.locator] >= Time[conf.at]) => l < N
    BY <1>9
  <1> QED
    BY <1>2, <1>3, <1>5, <1>7, <1>8, <1>10, <1>11

LEMMA RollbackKeeps ==
  ASSUME NInv, RollbackNext
  PROVE  NumberInv'
  <1>0. /\ conf.step = "rollback" /\ UNCHANGED <<info, mainTail, mainBlock>>
        /\ conf \in Conf /\ TypeOK /\ RollbackNumbered
    BY DEF RollbackNext, ConfUnchanged, NInv, NumberInv, IInv, TypeOK, ConfInv, ConfSound
  <1> PICK N \in Nat, T \in Nat : N = conf.number /\ T = mainTail.number
    BY <1>0 DEF Conf, TypeOK
  <1>1. PICK k \in 0 .. N, l \in 0 .. N :
          /\ Mains(k, k) /\ l <= k /\ conf.locator = mainBlock[l].hash
          /\ Time[conf.locator] >= Time[conf.at] => l = N /\ k = N
          /\ ~(Time[conf.locator] >= Time[conf.at]) => l < N
    BY <1>0, RollbackStops
  <1>2. conf.at \in Blocks /\ Stored(conf.at) /\ conf.at # None
    BY <1>0, RollbackStops, BlocksAssumption
  <1>3. /\ TailIndexed => TailIndexed'
        /\ \A K \in Nat : Index(K) => Index(K)'
        /\ \A i, j \in Int : Mains(i, j) => Mains(i, j)'
        /\ conf'.list = conf.list =>
              /\ \A f \in {1, 2} : Chained(f) => Chained(f)'
              /\ \A b \in Blocks \cup {None} : ListOn(b) => ListOn(b)'
    BY <1>0, ReadingKeeps
  <1>4. /\ TailIndexed /\ Index(T) /\ N <= T /\ conf.at = mainBlock[N].hash
        /\ Chained(1) /\ ListOn(conf.locator)
    BY <1>0 DEF RollbackNumbered, TailIndexed
  <1>5. Index(T)' /\ TailIndexed' /\ Mains(k, k)'
    <2>1. k \in Int
      OBVIOUS
    <2> QED
      BY <1>1, <1>3, <1>4, <2>1
  <1>6. PICK L \in Blocks : L = conf.locator
    BY <1>0 DEF Conf
  <1>7. CASE Time[conf.locator] >= Time[conf.at]
    <2>1. conf' = AfterRollback(conf)
      BY <1>2, <1>7 DEF RollbackNext
    <2>2. k = N /\ l = N
      BY <1>1, <1>7
    <2>3. CASE conf.list = << >>
      <3>1. conf'.step = "idle"
        BY <2>1, <2>3 DEF AfterRollback, IdleConf
      <3>2. k \in 0 .. mainTail'.number
        BY <1>0, <1>4
      <3> QED
        BY <1>5, <3>1, <3>2 DEF NumberInv, IdleNumbered
    <2>4. CASE conf.list # << >>
      <3>1. conf' = [conf EXCEPT !.step = "load", !.at = None]
        BY <2>1, <2>4 DEF AfterRollback
      <3>2. /\ conf'.step = "load" /\ conf'.number = conf.number
            /\ conf'.list = conf.list
        BY <1>0, <3>1 DEF Conf
      <3>3. Chained(1)' /\ ListOn(L)'
        BY <1>3, <1>4, <1>6, <3>2
      <3>4. ListOn(mainBlock[conf.number].hash)'
        BY <1>0, <1>1, <1>6, <2>2, <3>2, <3>3 DEF ListOn
      <3>5. Index(N)'
        <4>1. N \in 0 .. T
          BY <1>4
        <4> QED
          BY <1>5, <4>1 DEF Index
      <3>6. Index(conf.number)' /\ Mains(conf.number, conf.number)'
        BY <1>0, <1>5, <2>2, <3>2, <3>5 DEF Index, Mains
      <3>7. MainNumbered'
        BY <3>3, <3>4, <3>6 DEF MainNumbered
      <3> QED
        BY <3>2, <3>7 DEF NumberInv
    <2> QED
      BY <2>3, <2>4
  <1>8. CASE ~(Time[conf.locator] >= Time[conf.at])
    <2>1. conf' = [conf EXCEPT !.step = "unwind",
                               !.stack = <<[blk |-> conf.at, next |-> 1]>>]
      BY <1>2, <1>8 DEF RollbackNext
    <2>2. l < N
      BY <1>1, <1>8
    <2>3. /\ conf'.step = "unwind" /\ conf'.number = conf.number /\ conf'.at = conf.at
          /\ conf'.list = conf.list /\ conf'.locator = conf.locator
          /\ conf'.stack = <<[blk |-> conf.at, next |-> 1]>>
      BY <1>0, <2>1 DEF Conf
    <2>4. DOMAIN conf'.stack = {1} /\ conf'.stack[1].blk = conf.at
      BY <2>3
    <2>5. Chained(1)' /\ ListOn(L)'
      BY <1>3, <1>4, <1>6, <2>3
    <2>6. ListOn(conf.locator)'
      BY <1>6, <2>3, <2>5 DEF ListOn
    <2>7. Mains(k, conf.number - 1)'
      BY <1>0, <1>5, <2>3 DEF Mains
    <2>8. \A n \in 0 .. k : n < N => mainBlock[N].hash # mainBlock[n].hash
      <3>1. ASSUME NEW n \in 0 .. k, n < N, mainBlock[N].hash = mainBlock[n].hash
            PROVE  FALSE
        <4>1. n \in 0 .. T /\ N \in 0 .. T
          BY <1>4
        <4> QED
          BY <1>4, <3>1, <4>1, IndexDistinct
      <3> QED
        BY <3>1
    <2>9. UnwindNumbered'
      BY <1>0, <1>1, <1>4, <1>5, <2>2, <2>3, <2>4, <2>5, <2>6, <2>7, <2>8 DEF UnwindNumbered
    <2> QED
      BY <2>3, <2>9 DEF NumberInv
  <1> QED
    BY <1>7, <1>8

(* What the links and the calls of RollBackStatus leave alone. *)
LEMMA UnwindLinkKeeps ==
  ASSUME NInv, UnwindLink
  PROVE  NumberInv'
  <1> DEFINE h == Links[Top.blk][Top.next]
  <1>0. /\ conf.step = "unwind" /\ UNCHANGED <<info, mainTail, mainBlock>>
        /\ conf \in Conf /\ TypeOK /\ UnwindNumbered /\ ConfInv /\ IInv
        /\ conf.stack # << >> /\ Top.next <= Len(Links[Top.blk])
    BY DEF UnwindLink, ConfUnchanged, NInv, NumberInv, IInv, TypeOK, ConfInv, ConfSound
  <1> PICK N \in Nat, T \in Nat : N = conf.number /\ T = mainTail.number
    BY <1>0 DEF Conf, TypeOK
  <1>1. h \in Blocks /\ HasInfo(h)
    BY <1>0, TopLink
  <1>2. PICK t : /\ t = IF info[h].number < conf.number THEN Advance ELSE Descend(h)
                 /\ conf' = [conf EXCEPT !.stack = t]
    BY DEF UnwindLink
  <1>3. conf' = [conf EXCEPT !.stack = t]
    BY <1>2
  <1>4. /\ conf'.step = "unwind" /\ conf'.number = conf.number /\ conf'.at = conf.at
        /\ conf'.list = conf.list /\ conf'.locator = conf.locator
        /\ conf'.stack = t
    BY <1>0, <1>3 DEF Conf
  <1>5. t[1].blk = conf.stack[1].blk
    BY <1>0, <1>1, <1>2, StackFacts
  <1>6. \A i \in DOMAIN t : \/ i \in DOMAIN conf.stack /\ t[i].blk = conf.stack[i].blk
                            \/ t[i].blk = h /\ ~(info[h].number < conf.number)
    <2>1. conf.stack \in Seq(Frame)
      BY <1>0 DEF Conf
    <2>2. \A i \in DOMAIN Advance : i \in DOMAIN conf.stack /\ Advance[i].blk = conf.stack[i].blk
      BY <1>0, <2>1 DEF Advance, Frame
    <2>3. Advance \in Seq(Frame)
      BY <1>0, StackFacts
    <2>4. Descend(h) = Append(Advance, [blk |-> h, next |-> 1])
      BY DEF Descend, Advance
    <2>5. \A i \in DOMAIN Descend(h) : \/ i \in DOMAIN Advance /\ Descend(h)[i] = Advance[i]
                                       \/ Descend(h)[i].blk = h
      BY <2>3, <2>4
    <2> QED
      BY <1>2, <2>2, <2>5
  <1>7. PICK k \in 0 .. N :
          /\ Mains(k, N - 1)
          /\ \E l \in 0 .. k : l < N /\ conf.locator = mainBlock[l].hash
          /\ \A n \in 0 .. k, i \in DOMAIN conf.stack :
               n < N => conf.stack[i].blk # mainBlock[n].hash
    BY <1>0 DEF UnwindNumbered
  <1>8. \A n \in 0 .. k, i \in DOMAIN t : n < N => t[i].blk # mainBlock[n].hash
    <2> SUFFICES ASSUME NEW n \in 0 .. k, NEW i \in DOMAIN t, n < N
                 PROVE  t[i].blk # mainBlock[n].hash
      OBVIOUS
    <2>1. info[mainBlock[n].hash].number = n
      BY <1>7 DEF Mains
    <2> QED
      BY <1>6, <1>7, <2>1
  <1>9. PICK L \in Blocks : L = conf.locator
    BY <1>0 DEF Conf
  <1>10. TailIndexed' /\ Chained(1)' /\ ListOn(L)' /\ Mains(k, N - 1)'
    <2>1. k \in Int /\ N - 1 \in Int
      OBVIOUS
    <2> QED
      BY <1>0, <1>4, <1>7, <1>9, <2>1, ReadingKeeps DEF UnwindNumbered
  <1>11. ListOn(conf.locator)' /\ Mains(k, conf.number - 1)'
    BY <1>4, <1>9, <1>10 DEF ListOn, Mains
  <1>12. UnwindNumbered'
    <2> HIDE DEF h
    <2> QED
      BY <1>0, <1>4, <1>5, <1>7, <1>8, <1>10, <1>11 DEF UnwindNumbered
  <1> QED
    BY <1>4, <1>12 DEF NumberInv

LEMMA UnwindBlockKeeps ==
  ASSUME SlicesFit, NInv, UnwindBlock, GraphFixed
  PROVE  NumberInv'
  <1>0. /\ conf.step = "unwind" /\ UNCHANGED <<mainTail, mainBlock>>
        /\ conf \in Conf /\ TypeOK /\ UnwindNumbered /\ ConfInv /\ IInv
        /\ conf.stack # << >> /\ info \in [Blocks -> Info]
    BY DEF UnwindBlock, ConfUnchanged, NInv, NumberInv, IInv, TypeOK, ConfInv, ConfSound
  <1> PICK N \in Nat, T \in Nat : N = conf.number /\ T = mainTail.number
    BY <1>0 DEF Conf, TypeOK
  <1>1. /\ TailIndexed /\ Index(T) /\ 0 < N /\ N <= T /\ conf.at = mainBlock[N].hash
        /\ Chained(1) /\ ListOn(conf.locator) /\ conf.stack[1].blk = conf.at
        /\ mainTail.hash = mainBlock[T].hash
    BY <1>0 DEF UnwindNumbered, TailIndexed
  <1>2. PICK k \in 0 .. N, l \in 0 .. N :
          /\ Mains(k, N - 1)
          /\ l <= k /\ l < N /\ conf.locator = mainBlock[l].hash
          /\ \A n \in 0 .. k, i \in DOMAIN conf.stack :
               n < N => conf.stack[i].blk # mainBlock[n].hash
    BY <1>0 DEF UnwindNumbered
  <1>3. PICK b \in Blocks : b = Top.blk
    BY <1>0, StackFacts DEF Frame
  <1> DEFINE isMain == Len(conf.stack) = 1
  <1>4. /\ conf.stack \in Seq(Frame) /\ Len(conf.stack) \in Nat \ {0}
        /\ Len(conf.stack) \in DOMAIN conf.stack
        /\ Top = conf.stack[Len(conf.stack)]
    BY <1>0 DEF Conf, Top
  <1>5. /\ info'[b].number = 0
        /\ info'[b].main = IF isMain THEN FALSE ELSE info[b].main
        /\ \A x \in Blocks : x # b => info'[x] = info[x]
    <2>1. info' = [info EXCEPT ![b] = RolledBack(info[b], isMain)]
      BY <1>3 DEF UnwindBlock
    <2>2. info'[b] = RolledBack(info[b], isMain) /\ info[b] \in Info
      BY <1>0, <2>1
    <2>3. \A x \in Blocks : x # b => info'[x] = info[x]
      BY <1>0, <2>1
    <2> QED
      BY <2>2, <2>3 DEF RolledBack, Info
  <1>6. \A n \in 0 .. k : n < N => b # mainBlock[n].hash
    BY <1>2, <1>3, <1>4
  <1>7. \A n \in 0 .. T : mainBlock[n].hash \in Blocks
    BY <1>1 DEF Index
  <1>8. Index(T)' /\ TailIndexed'
    BY <1>0, <1>1, IndexKept DEF TailIndexed, Index
  <1>9. PICK L \in Blocks : L = conf.locator
    BY <1>0 DEF Conf
  <1>10. \A x \in Blocks : info'[x].main => info[x].main
    BY <1>5
  <1>11. CASE isMain
    <2>1. /\ conf'.step = "rollback" /\ conf'.number = (N - 1) % WordSize
          /\ conf'.at = info[b].maxLink /\ conf'.list = conf.list
          /\ conf'.locator = conf.locator
      BY <1>0, <1>3, <1>11 DEF UnwindBlock, Conf
    <2>2. b = mainBlock[N].hash
      BY <1>1, <1>3, <1>4, <1>11
    <2>3. (N - 1) % WordSize = N - 1
      <3>1. Slice[mainBlock[N].hash] \in Nat /\ Slice[Genesis] \in Nat
            /\ Slice[Genesis] + N <= Slice[mainBlock[N].hash]
            /\ Slice[mainBlock[N].hash] < WordSize
        <4>1. N \in 0 .. T
          BY <1>1
        <4> QED
          BY <1>1, <1>7, <4>1, BlocksAssumption DEF Index, SlicesFit
      <3>2. N - 1 \in Nat /\ N - 1 < WordSize /\ WordSize \in Nat \ {0}
        BY <1>1, <3>1, NumbersAssumption
      <3> QED
        BY <3>2
    <2>4. info[b].maxLink = mainBlock[N - 1].hash
      BY <1>1, <2>2 DEF Index
    <2> PICK j \in 0 .. N - 1 : j = IF k = N THEN N - 1 ELSE k
      BY <1>1
    <2>5. l \in 0 .. j
      BY <1>2
    <2>6. Mains(j, j)'
      <3>1. ASSUME NEW x \in Blocks
            PROVE  info'[x].main <=> \E n \in 0 .. j : x = mainBlock[n].hash
        <4>1. CASE x = b
          <5>1. ~info'[x].main
            BY <1>5, <1>11, <4>1
          <5>2. \A n \in 0 .. j : n \in 0 .. k /\ n < N
            OBVIOUS
          <5> QED
            BY <1>6, <4>1, <5>1, <5>2
        <4>2. CASE x # b
          <5>1. info'[x].main <=> \E n \in 0 .. k : x = mainBlock[n].hash
            BY <1>2, <1>5, <4>2 DEF Mains
          <5>2. \A n \in 0 .. k : n \in 0 .. j \/ n = N
            OBVIOUS
          <5>3. \A n \in 0 .. j : n \in 0 .. k
            OBVIOUS
          <5> QED
            BY <2>2, <4>2, <5>1, <5>2, <5>3
        <4> QED
          BY <4>1, <4>2
      <3>2. ASSUME NEW n \in 0 .. j PROVE info'[mainBlock[n].hash].number = n
        <4>1. n \in 0 .. k /\ n <= N - 1 /\ n < N /\ n \in 0 .. T
          BY <1>1
        <4>2. info[mainBlock[n].hash].number = n
          BY <1>2, <4>1 DEF Mains
        <4> QED
          BY <1>5, <1>6, <1>7, <4>1, <4>2
      <3> QED
        BY <1>0, <3>1, <3>2 DEF Mains
    <2>7. Chained(1)' /\ (conf.list # << >> => info'[conf.list[1]].maxLink = info[conf.list[1]].maxLink)
      BY <1>0, <1>1, <1>10, <2>1, ChainedKept
    <2>8. ListOn(conf.locator)'
      BY <1>1, <2>1, <2>7 DEF ListOn
    <2>9. RollbackNumbered'
      <3>1. conf'.number = N - 1 /\ conf'.at = mainBlock[N - 1].hash
        BY <2>1, <2>3, <2>4
      <3> QED
        BY <1>0, <1>1, <1>2, <1>8, <2>1, <2>5, <2>6, <2>7, <2>8, <3>1 DEF RollbackNumbered
    <2> QED
      BY <2>1, <2>9 DEF NumberInv
  <1>12. CASE ~isMain
    <2>1. conf' = [conf EXCEPT !.stack = Pop(conf.stack)]
      BY <1>12 DEF UnwindBlock
    <2>2. /\ conf'.step = "unwind" /\ conf'.number = conf.number /\ conf'.at = conf.at
          /\ conf'.list = conf.list /\ conf'.locator = conf.locator
          /\ conf'.stack = Pop(conf.stack)
      BY <1>0, <2>1 DEF Conf
    <2>3. /\ Pop(conf.stack)[1].blk = conf.stack[1].blk
      BY <1>0, <1>12, StackFacts
    <2>4. \A i \in DOMAIN Pop(conf.stack) : /\ i \in DOMAIN conf.stack
                                            /\ Pop(conf.stack)[i] = conf.stack[i]
      BY <1>4 DEF Pop
    <2>5. \A x \in Blocks : info'[x].main <=> info[x].main
      BY <1>5, <1>12
    <2>6. Mains(k, N - 1)'
      <3>1. \A n \in 0 .. k : n <= N - 1 => info'[mainBlock[n].hash].number = info[mainBlock[n].hash].number
        <4>1. \A n \in 0 .. k : n \in 0 .. T
          BY <1>1
        <4> QED
          BY <1>5, <1>6, <1>7, <4>1
      <3>2. k \in 0 .. T /\ N - 1 \in Int
        BY <1>1
      <3> QED
        BY <1>0, <1>1, <1>2, <2>5, <3>1, <3>2, MainsKept
    <2>7. Mains(k, conf.number - 1)'
      BY <2>2, <2>6 DEF Mains
    <2>8. Chained(1)' /\ (conf.list # << >> => info'[conf.list[1]].maxLink = info[conf.list[1]].maxLink)
      BY <1>0, <1>1, <1>10, <2>2, ChainedKept
    <2>9. ListOn(conf.locator)'
      BY <1>1, <2>2, <2>8 DEF ListOn
    <2>10. \A n \in 0 .. k, i \in DOMAIN conf'.stack :
               n < N => conf'.stack[i].blk # mainBlock[n].hash
      BY <1>2, <2>2, <2>4
    <2>11. UnwindNumbered'
      BY <1>0, <1>1, <1>2, <1>8, <2>2, <2>3, <2>7, <2>8, <2>9, <2>10 DEF UnwindNumbered
    <2> QED
      BY <2>2, <2>11 DEF NumberInv
  <1> QED
    BY <1>11, <1>12
------------------------------------------------------------------------------
(* The confirmation of new main blocks *)

LEMMA LoadKeeps ==
  ASSUME NInv, LoadState
  PROVE  NumberInv'
  <1>0. /\ conf.step = "load" /\ UNCHANGED <<info, mainTail, mainBlock>>
        /\ conf \in Conf /\ MainNumbered
    BY DEF LoadState, ConfUnchanged, NInv, NumberInv, IInv, ConfInv, ConfSound
  <1> PICK N \in Nat : N = conf.number
    BY <1>0 DEF Conf
  <1>1. Index(N) /\ Mains(N, N) /\ Chained(1) /\ ListOn(mainBlock[N].hash)
    BY <1>0 DEF MainNumbered
  <1>2. PICK B \in Blocks : B = mainBlock[N].hash
    BY <1>1 DEF Index
  <1>3. conf' = [conf EXCEPT !.step = "main", !.state = mainBlock[conf.number].state]
    BY <1>1 DEF LoadState, Index
  <1>4. conf'.step = "main" /\ conf'.number = conf.number /\ conf'.list = conf.list
    BY <1>0, <1>3 DEF Conf
  <1>5. Index(N)' /\ Mains(N, N)' /\ Chained(1)' /\ ListOn(B)'
    <2>1. N \in Int
      OBVIOUS
    <2> QED
      BY <1>0, <1>1, <1>2, <1>4, <2>1, ReadingKeeps
  <1>6. /\ Index(conf.number)' /\ Mains(conf.number, conf.number)'
        /\ ListOn(mainBlock[conf.number].hash)'
    <2>1. conf'.number = N /\ mainBlock' = mainBlock
      BY <1>0, <1>4
    <2>2. Index(conf.number)'
      BY <1>5, <2>1 DEF Index
    <2>3. Mains(conf.number, conf.number)'
      BY <1>5, <2>1 DEF Mains
    <2>4. ListOn(mainBlock[conf.number].hash)'
      BY <1>2, <1>5, <2>1 DEF ListOn
    <2> QED
      BY <2>2, <2>3, <2>4
  <1> QED
    BY <1>4, <1>5, <1>6 DEF MainNumbered, NumberInv

LEMMA NextMainKeeps ==
  ASSUME SlicesFit, NInv, NextMain
  PROVE  NumberInv'
  <1>0. /\ conf.step = "main" /\ UNCHANGED <<info, mainTail, mainBlock>>
        /\ conf \in Conf /\ MainNumbered /\ conf.list # << >> /\ conf.list \in Seq(Blocks)
    BY DEF NextMain, ConfUnchanged, NInv, NumberInv, IInv, ConfInv, ConfSound, Conf
  <1> PICK N \in Nat : N = conf.number
    BY <1>0 DEF Conf
  <1>1. Index(N) /\ Mains(N, N) /\ Chained(1) /\ ListOn(mainBlock[N].hash)
    BY <1>0 DEF MainNumbered
  <1>2. PICK B \in Blocks : B = mainBlock[N].hash
    BY <1>1 DEF Index
  <1>3. Head(conf.list) = conf.list[1] /\ 1 \in DOMAIN conf.list /\ conf.list[1] \in Blocks
    BY <1>0
  <1>4. (N + 1) % WordSize = N + 1
    <2> DEFINE H == conf.list[1]
    <2>1. info[H].tmpMax /\ info[H].maxLink = B
      BY <1>0, <1>1, <1>2, <1>3 DEF Chained, ListOn
    <2>2. H # Genesis
      BY <2>1, BlocksAssumption DEF NInv, IInv, GraphInv, InfoSound
    <2>3. HasInfo(H)
      BY <2>1 DEF HasInfo, NoInfo
    <2>4. Slice[B] < Slice[H]
      BY <1>3, <2>1, <2>2, <2>3 DEF NInv, IInv, GraphInv, ChainShape
    <2>5. Slice[Genesis] + N <= Slice[B]
      BY <1>1, <1>2 DEF Index
    <2>6. /\ Slice[H] < WordSize /\ Slice[H] \in Nat /\ Slice[B] \in Nat
          /\ Slice[Genesis] \in Nat
      BY <1>3, BlocksAssumption DEF SlicesFit
    <2>7. N + 1 < WordSize /\ N + 1 \in Nat /\ WordSize \in Nat \ {0}
      BY <2>4, <2>5, <2>6, NumbersAssumption
    <2> QED
      BY <2>7
  <1>5. conf' = [conf EXCEPT !.step = "visit", !.number = N + 1,
                             !.stack = <<[blk |-> Head(conf.list), next |-> 1]>>]
    BY <1>4 DEF NextMain
  <1>6. /\ conf'.step = "visit" /\ conf'.number = N + 1 /\ conf'.list = conf.list
        /\ conf'.stack = <<[blk |-> Head(conf.list), next |-> 1]>>
    BY <1>0, <1>5 DEF Conf
  <1>7. DOMAIN conf'.stack = {1} /\ conf'.stack[1].blk = conf'.list[1]
    BY <1>3, <1>6
  <1>8. Index(N)' /\ Mains(N, N)' /\ Chained(1)' /\ ListOn(B)'
    <2>1. N \in Int
      OBVIOUS
    <2> QED
      BY <1>0, <1>1, <1>2, <1>6, <2>1, ReadingKeeps
  <1>9. conf'.number - 1 = N
    BY <1>6
  <1>10. /\ Index(conf.number - 1)' /\ Mains(conf.number - 1, conf.number - 1)'
         /\ ListOn(mainBlock[conf.number - 1].hash)'
    BY <1>0, <1>2, <1>8, <1>9 DEF Index, Mains, ListOn
  <1>11. VisitNumbered'
    BY <1>6, <1>7, <1>8, <1>10 DEF VisitNumbered
  <1> QED
    BY <1>6, <1>11 DEF NumberInv

LEMMA VisitLinkKeeps ==
  ASSUME NInv, VisitLink
  PROVE  NumberInv'
  <1> DEFINE h == Links[Top.blk][Top.next]
  <1>0. /\ conf.step = "visit" /\ UNCHANGED <<info, mainTail, mainBlock>>
        /\ conf \in Conf /\ VisitNumbered /\ ConfInv /\ IInv
        /\ conf.stack # << >> /\ Top.next <= Len(Links[Top.blk])
    BY DEF VisitLink, ConfUnchanged, NInv, NumberInv, IInv, ConfInv, ConfSound
  <1>1. h \in Blocks /\ HasInfo(h)
    BY <1>0, TopLink
  <1>2. PICK t : /\ t = IF info[h].confirm \/ info[h].main THEN Advance ELSE Descend(h)
                 /\ conf' = [conf EXCEPT !.stack = t]
    BY DEF VisitLink
  <1>4. /\ conf'.step = "visit" /\ conf'.number = conf.number
        /\ conf'.list = conf.list /\ conf'.stack = t
    BY <1>0, <1>2 DEF Conf
  <1>5. t[1].blk = conf.stack[1].blk
    BY <1>0, <1>1, <1>2, StackFacts
  <1>6. \A i \in DOMAIN t : \/ i \in DOMAIN conf.stack /\ t[i].blk = conf.stack[i].blk
                            \/ t[i].blk = h /\ ~info[h].main
    <2>1. conf.stack \in Seq(Frame)
      BY <1>0 DEF Conf
    <2>2. \A i \in DOMAIN Advance : i \in DOMAIN conf.stack /\ Advance[i].blk = conf.stack[i].blk
      BY <1>0, <2>1 DEF Advance, Frame
    <2>3. Advance \in Seq(Frame)
      BY <1>0, StackFacts
    <2>4. Descend(h) = Append(Advance, [blk |-> h, next |-> 1])
      BY DEF Descend, Advance
    <2>5. \A i \in DOMAIN Descend(h) : \/ i \in DOMAIN Advance /\ Descend(h)[i] = Advance[i]
                                       \/ Descend(h)[i].blk = h
      BY <2>3, <2>4
    <2> QED
      BY <1>2, <2>2, <2>5
  <1>7. PICK M \in Nat : M = conf.number - 1
    BY <1>0 DEF VisitNumbered, Conf
  <1>8. Index(M) /\ Mains(M, M) /\ Chained(1) /\ ListOn(mainBlock[M].hash)
    BY <1>0, <1>7 DEF VisitNumbered
  <1>9. PICK B \in Blocks : B = mainBlock[M].hash
    BY <1>8 DEF Index
  <1>10. Index(M)' /\ Mains(M, M)' /\ Chained(1)' /\ ListOn(B)'
    <2>1. M \in Int
      OBVIOUS
    <2> QED
      BY <1>0, <1>4, <1>8, <1>9, <2>1, ReadingKeeps
  <1>11. /\ Index(conf.number - 1)' /\ Mains(conf.number - 1, conf.number - 1)'
         /\ ListOn(mainBlock[conf.number - 1].hash)'
    BY <1>0, <1>4, <1>7, <1>9, <1>10 DEF Index, Mains, ListOn
  <1>12. \A i \in DOMAIN t : 1 < i => ~info[t[i].blk].main
    BY <1>0, <1>6 DEF VisitNumbered
  <1>13. VisitNumbered'
    <2> HIDE DEF h
    <2> QED
      BY <1>0, <1>4, <1>5, <1>10, <1>11, <1>12 DEF VisitNumbered
  <1> QED
    BY <1>4, <1>13 DEF NumberInv

LEMMA VisitBlockKeeps ==
  ASSUME NInv, VisitBlock, GraphFixed
  PROVE  NumberInv'
  <1>0. /\ conf.step = "visit" /\ UNCHANGED <<mainTail, mainBlock>>
        /\ conf \in Conf /\ TypeOK /\ VisitNumbered /\ ConfInv /\ IInv
        /\ conf.stack # << >> /\ info \in [Blocks -> Info]
        /\ conf.list # << >> /\ conf.list \in Seq(Blocks)
    BY DEF VisitBlock, ConfUnchanged, NInv, NumberInv, IInv, TypeOK, ConfInv, ConfSound, Conf
  <1>1. PICK M \in Nat : M = conf.number - 1 /\ conf.number = M + 1
    BY <1>0 DEF VisitNumbered, Conf
  <1>2. Index(M) /\ Mains(M, M) /\ Chained(1) /\ ListOn(mainBlock[M].hash)
    BY <1>0, <1>1 DEF VisitNumbered
  <1>3. PICK b \in Blocks : b = Top.blk
    BY <1>0, StackFacts DEF Frame
  <1> DEFINE isMain == Len(conf.stack) = 1
  <1>4. /\ conf.stack \in Seq(Frame) /\ Len(conf.stack) \in Nat \ {0}
        /\ Len(conf.stack) \in DOMAIN conf.stack
        /\ Top = conf.stack[Len(conf.stack)]
    BY <1>0 DEF Conf, Top
  <1>5. /\ info'[b].number = M + 1
        /\ info'[b].main = IF isMain THEN TRUE ELSE info[b].main
        /\ \A x \in Blocks : x # b => info'[x] = info[x]
    <2>1. PICK a : info' = [info EXCEPT ![b] = Confirmed(info[b], isMain, a)]
      BY <1>3 DEF VisitBlock
    <2>2. info'[b] = Confirmed(info[b], isMain, a) /\ info[b] \in Info
      BY <1>0, <2>1
    <2>3. \A x \in Blocks : x # b => info'[x] = info[x]
      BY <1>0, <2>1
    <2> QED
      BY <1>1, <2>2, <2>3 DEF Confirmed, Info
  <1>6. \A n \in 0 .. M : mainBlock[n].hash \in Blocks /\ info[mainBlock[n].hash].main
    BY <1>2 DEF Index, Mains
  <1>7. ~info[b].main
    <2>1. CASE isMain
      <3>1. b = conf.list[1] /\ 1 \in DOMAIN conf.list
        BY <1>0, <1>3, <1>4, <2>1 DEF VisitNumbered
      <3> QED
        BY <1>2, <3>1 DEF Chained
    <2>2. CASE ~isMain
      <3>0. PICK n \in Nat \ {0} : n = Len(conf.stack)
        BY <1>4
      <3>00. n # 1
        BY <2>2, <3>0
      <3>01. 1 < n
        BY <3>00
      <3>1. 1 < Len(conf.stack)
        BY <3>0, <3>01
      <3> QED
        BY <1>0, <1>3, <1>4, <3>1 DEF VisitNumbered
    <2> QED
      BY <2>1, <2>2
  <1>8. \A n \in 0 .. M : b # mainBlock[n].hash /\ info'[mainBlock[n].hash] = info[mainBlock[n].hash]
    BY <1>5, <1>6, <1>7
  <1>9. Index(M)'
    BY <1>0, <1>2, IndexKept
  <1>10. /\ conf'.list = conf.list /\ conf'.number = conf.number
         /\ conf'.stack = Pop(conf.stack)
         /\ conf'.step = IF isMain THEN "commit" ELSE "visit"
    BY <1>0 DEF VisitBlock, Conf
  <1>11. \A i \in DOMAIN conf.list : HasInfo(conf.list[i]) /\ conf.list[i] \in Blocks
    BY <1>0 DEF ConfInv, ConfSound
  <1>12. \A i \in DOMAIN conf.list : /\ info'[conf.list[i]].tmpMax = info[conf.list[i]].tmpMax
                                     /\ info'[conf.list[i]].maxLink = info[conf.list[i]].maxLink
    BY <1>11 DEF GraphFixed
  <1>13. 1 \in DOMAIN conf.list
    BY <1>0
  <1>14. ListOn(mainBlock[conf.number - 1].hash)'
    BY <1>0, <1>1, <1>2, <1>10, <1>12, <1>13 DEF ListOn
  <1>15. CASE isMain
    <2>1. b = conf.list[1]
      BY <1>0, <1>3, <1>4, <1>15 DEF VisitNumbered
    <2>2. ASSUME NEW i \in DOMAIN conf.list, 2 <= i PROVE info'[conf.list[i]] = info[conf.list[i]]
      <3>0. 1 < i
        BY <1>0, <2>2
      <3>1. /\ Slice[conf.list[1]] < Slice[conf.list[i]]
            /\ Slice[conf.list[i]] \in Nat /\ Slice[conf.list[1]] \in Nat
        BY <1>2, <1>11, <1>13, <3>0, BlocksAssumption DEF Chained
      <3>2. conf.list[i] # b
        BY <2>1, <3>1
      <3> QED
        BY <1>5, <1>11, <3>2
    <2>3. Chained(2)'
      BY <1>0, <1>2, <1>10, <1>12, <2>2 DEF Chained
    <2>4. \A x \in Blocks : info'[x].main <=>
             x = conf.list[1] \/ \E n \in 0 .. M : x = mainBlock[n].hash
      BY <1>2, <1>5, <1>8, <1>15, <2>1 DEF Mains
    <2>5. \A n \in 0 .. M : info'[mainBlock[n].hash].number = n
      BY <1>2, <1>8 DEF Mains
    <2>6. conf'.number - 1 = M /\ 0 < conf'.number
      BY <1>1, <1>10
    <2>7. Index(conf.number - 1)'
      BY <1>9, <2>6 DEF Index
    <2>8. CommitNumbered'
      BY <1>0, <1>1, <1>5, <1>10, <1>14, <2>1, <2>3, <2>4, <2>5, <2>6, <2>7 DEF CommitNumbered
    <2> QED
      BY <1>10, <1>15, <2>8 DEF NumberInv
  <1>16. CASE ~isMain
    <2>1. \A x \in Blocks : info'[x].main <=> info[x].main
      BY <1>5, <1>16
    <2>2. Chained(1)'
      BY <1>0, <1>2, <1>10, <2>1, ChainedKept
    <2>3. Mains(M, M)'
      BY <1>0, <1>2, <1>8, <2>1 DEF Mains
    <2>4. conf'.number - 1 = M /\ 0 < conf'.number
      BY <1>1, <1>10
    <2>5. Index(conf.number - 1)' /\ Mains(conf.number - 1, conf.number - 1)'
      BY <1>9, <2>3, <2>4 DEF Index, Mains
    <2>6. conf'.stack[1].blk = conf'.list[1]
      BY <1>0, <1>10, <1>16, StackFacts DEF VisitNumbered
    <2>7. \A i \in DOMAIN Pop(conf.stack) : /\ i \in DOMAIN conf.stack
                                            /\ Pop(conf.stack)[i] = conf.stack[i]
      BY <1>4 DEF Pop
    <2>8. \A i \in DOMAIN conf.stack : conf.stack[i].blk \in Blocks
      <3>1. \A f \in Frame : f.blk \in Blocks
        BY DEF Frame
      <3> QED
        BY <1>4, <3>1
    <2>9. \A i \in DOMAIN conf'.stack : 1 < i => ~info'[conf'.stack[i].blk].main
      BY <1>0, <1>10, <2>1, <2>7, <2>8 DEF VisitNumbered
    <2>10. VisitNumbered'
      BY <1>14, <2>2, <2>4, <2>5, <2>6, <2>9 DEF VisitNumbered
    <2> QED
      BY <1>10, <1>16, <2>10 DEF NumberInv
  <1> QED
    BY <1>15, <1>16

LEMMA CommitKeeps ==
  ASSUME NInv, CommitMain
  PROVE  NumberInv'
  <1>0. /\ conf.step = "commit" /\ UNCHANGED <<info, mainTail>>
        /\ conf \in Conf /\ TypeOK /\ CommitNumbered /\ ConfInv /\ IInv
        /\ conf.list # << >> /\ conf.list \in Seq(Blocks)
    BY DEF CommitMain, ConfUnchanged, NInv, NumberInv, IInv, TypeOK, ConfInv, ConfSound, Conf
  <1>1. PICK M \in Nat : M = conf.number - 1 /\ conf.number = M + 1
    BY <1>0 DEF CommitNumbered, Conf
  <1>2. Index(M) /\ Chained(2) /\ ListOn(mainBlock[M].hash)
    BY <1>0, <1>1 DEF CommitNumbered
  <1>3. PICK H \in Blocks : H = conf.list[1] /\ H = Head(conf.list) /\ 1 \in DOMAIN conf.list
    BY <1>0
  <1>4. /\ DOMAIN mainBlock' = DOMAIN mainBlock \cup {M + 1}
        /\ mainBlock'[M + 1].hash = H
        /\ \A n \in 0 .. M : mainBlock'[n] = mainBlock[n]
    <2>1. mainBlock' = [n \in DOMAIN mainBlock \cup {M + 1} |->
                          IF n = M + 1 THEN [hash |-> H, state |-> conf.state]
                                       ELSE mainBlock[n]]
      BY <1>1, <1>3 DEF CommitMain
    <2>2. \A n \in 0 .. M : n \in DOMAIN mainBlock /\ n # M + 1
      BY <1>2 DEF Index
    <2> QED
      BY <2>1, <2>2
  <1>5. conf'.step = "tail" /\ conf'.number = conf.number /\ conf'.list = conf.list
    BY <1>0 DEF CommitMain, Conf
  <1>6. /\ \A b \in Blocks : info[b].main <=> b = H \/ \E n \in 0 .. M : b = mainBlock[n].hash
        /\ \A n \in 0 .. M : info[mainBlock[n].hash].number = n
        /\ info[H].number = M + 1
    BY <1>0, <1>1, <1>3 DEF CommitNumbered
  <1>7. info[H].tmpMax /\ info[H].maxLink = mainBlock[M].hash
    BY <1>0, <1>2, <1>3 DEF Chained, ListOn
  <1>8. mainBlock[M].hash \in Blocks
    BY <1>2 DEF Index
  <1>9. Slice[mainBlock[M].hash] < Slice[H]
    <2>1. H # Genesis
      BY <1>7, <1>8, BlocksAssumption DEF IInv, GraphInv, InfoSound, NInv
    <2>2. HasInfo(H)
      BY <1>7 DEF HasInfo, NoInfo
    <2> QED
      BY <1>7, <2>1, <2>2 DEF NInv, IInv, GraphInv, ChainShape
  <1>10. \A n \in 0 .. M + 1 : n \in 0 .. M \/ n = M + 1
    OBVIOUS
  <1>11. \A x \in Blocks : Slice[x] \in Nat
    BY BlocksAssumption
  <1>12. Index(M + 1)'
    <2>1. 0 .. (M + 1) \subseteq DOMAIN mainBlock'
      BY <1>2, <1>4, <1>10 DEF Index
    <2>2. mainBlock'[0].hash = Genesis
      BY <1>2, <1>4 DEF Index
    <2>3. ASSUME NEW n \in 0 .. M + 1
          PROVE  /\ mainBlock'[n].hash \in Blocks
                 /\ info'[mainBlock'[n].hash].tmpMax
                 /\ Slice[Genesis] + n <= Slice[mainBlock'[n].hash]
      <3>1. CASE n \in 0 .. M
        BY <1>0, <1>2, <1>4, <3>1 DEF Index
      <3>2. CASE n = M + 1
        <4>1. Slice[Genesis] + M <= Slice[mainBlock[M].hash]
          BY <1>2 DEF Index
        <4>2. Slice[Genesis] \in Nat
          BY <1>11, BlocksAssumption
        <4> QED
          BY <1>0, <1>4, <1>7, <1>8, <1>9, <1>11, <3>2, <4>1, <4>2
      <3> QED
        BY <1>10, <3>1, <3>2
    <2>4. ASSUME NEW n \in 1 .. M + 1
          PROVE  info'[mainBlock'[n].hash].maxLink = mainBlock'[n - 1].hash
      <3>1. CASE n \in 1 .. M
        <4>1. n \in 0 .. M /\ n - 1 \in 0 .. M
          BY <3>1
        <4> QED
          BY <1>0, <1>2, <1>4, <3>1, <4>1 DEF Index
      <3>2. CASE n = M + 1
        <4>1. n - 1 = M /\ M \in 0 .. M
          BY <3>2
        <4> QED
          BY <1>0, <1>4, <1>7, <3>2, <4>1
      <3> QED
        BY <3>1, <3>2
    <2>5. ASSUME NEW m \in 0 .. M + 1, NEW n \in 0 .. M + 1, m < n
          PROVE  Slice[mainBlock'[m].hash] < Slice[mainBlock'[n].hash]
      <3>1. m \in 0 .. M
        BY <2>5
      <3>2. CASE n \in 0 .. M
        BY <1>2, <1>4, <2>5, <3>1, <3>2 DEF Index
      <3>3. CASE n = M + 1
        <4>1. m = M \/ Slice[mainBlock[m].hash] < Slice[mainBlock[M].hash]
          BY <1>2, <3>1 DEF Index
        <4>2. mainBlock[m].hash \in Blocks
          BY <1>2, <3>1 DEF Index
        <4> QED
          BY <1>4, <1>8, <1>9, <1>11, <3>1, <3>3, <4>1, <4>2
      <3> QED
        BY <1>10, <3>2, <3>3
    <2>6. ASSUME NEW m \in 0 .. M + 1, NEW n \in 0 .. M + 1, m < n
          PROVE  mainBlock'[m].hash \in Ancestors[mainBlock'[n].hash]
      <3>1. m \in 0 .. M
        BY <2>6
      <3>2. CASE n \in 0 .. M
        BY <1>2, <1>4, <2>6, <3>1, <3>2 DEF Index
      <3>3. CASE n = M + 1
        <4>1. mainBlock[M].hash \in Ancestors[H]
          <5>1. H # Genesis
            BY <1>7, <1>8, BlocksAssumption DEF IInv, GraphInv, InfoSound, NInv
          <5>2. HasInfo(H)
            BY <1>7 DEF HasInfo, NoInfo
          <5> QED
            BY <1>7, <5>1, <5>2 DEF NInv, Reached
        <4>2. m = M \/ mainBlock[m].hash \in Ancestors[mainBlock[M].hash]
          BY <1>2, <3>1 DEF Index
        <4> QED
          BY <1>4, <1>8, <3>1, <3>3, <4>1, <4>2, AncestorsTransitive
      <3> QED
        BY <1>10, <3>2, <3>3
    <2> QED
      BY <2>1, <2>2, <2>3, <2>4, <2>5, <2>6 DEF Index
  <1>13. Mains(M + 1, M + 1)'
    <2>1. ASSUME NEW b \in Blocks
          PROVE  info'[b].main <=> \E n \in 0 .. M + 1 : b = mainBlock'[n].hash
      <3>1. (\E n \in 0 .. M + 1 : b = mainBlock'[n].hash) <=>
              b = H \/ \E n \in 0 .. M : b = mainBlock[n].hash
        <4>1. M + 1 \in 0 .. M + 1 /\ \A n \in 0 .. M : n \in 0 .. M + 1
          OBVIOUS
        <4> QED
          BY <1>4, <1>10, <4>1
      <3> QED
        BY <1>0, <1>6, <3>1
    <2>2. ASSUME NEW n \in 0 .. M + 1 PROVE info'[mainBlock'[n].hash].number = n
      BY <1>0, <1>4, <1>6, <1>10
    <2> QED
      BY <2>1, <2>2 DEF Mains
  <1>14. Chained(2)'
    BY <1>0, <1>2, <1>5 DEF Chained
  <1>15. Index(conf.number)' /\ Mains(conf.number, conf.number)'
    BY <1>1, <1>5, <1>12, <1>13 DEF Index, Mains
  <1>16. TailNumbered'
    BY <1>1, <1>3, <1>4, <1>5, <1>14, <1>15 DEF TailNumbered
  <1> QED
    BY <1>5, <1>16 DEF NumberInv

LEMMA MoveKeeps ==
  ASSUME NInv, MoveMainTail
  PROVE  NumberInv'
  <1>0. /\ conf.step = "tail" /\ UNCHANGED <<info, mainBlock>>
        /\ conf \in Conf /\ TailNumbered
        /\ conf.list # << >> /\ conf.list \in Seq(Blocks)
    BY DEF MoveMainTail, ConfUnchanged, NInv, NumberInv, IInv, ConfInv, ConfSound, Conf
  <1> PICK N \in Nat : N = conf.number
    BY <1>0 DEF Conf
  <1>1. /\ Index(N) /\ Mains(N, N) /\ mainBlock[N].hash = conf.list[1] /\ Chained(2)
    BY <1>0 DEF TailNumbered
  <1>2. /\ mainTail' = [hash |-> Head(conf.list), number |-> N]
        /\ Head(conf.list) = conf.list[1]
    BY <1>0 DEF MoveMainTail
  <1>3. Index(N)' /\ Mains(N, N)'
    BY <1>0, <1>1 DEF Index, Mains
  <1>4. CASE Len(conf.list) = 1
    <2>1. conf'.step = "idle"
      BY <1>4 DEF MoveMainTail, IdleConf
    <2>2. mainTail'.number = N /\ mainTail'.hash = mainBlock[N].hash /\ N \in 0 .. N
      BY <1>1, <1>2
    <2>3. TailIndexed'
      BY <1>0, <1>3, <2>2 DEF TailIndexed, Index
    <2>4. IdleNumbered'
      BY <1>3, <2>2, <2>3 DEF IdleNumbered
    <2> QED
      BY <2>1, <2>4 DEF NumberInv
  <1>5. CASE Len(conf.list) # 1
    <2>1. conf' = [conf EXCEPT !.step = "main", !.list = Tail(conf.list)]
      BY <1>5 DEF MoveMainTail
    <2>2. conf'.step = "main" /\ conf'.list = Tail(conf.list) /\ conf'.number = N
      BY <1>0, <2>1 DEF Conf
    <2> DEFINE t == Tail(conf.list)
               s == conf.list
    <2>3. /\ \A i \in DOMAIN t : i + 1 \in DOMAIN s /\ t[i] = s[i + 1]
          /\ DOMAIN t = 1 .. Len(s) - 1 /\ 2 \in DOMAIN s /\ Len(s) \in Nat
          /\ 1 \in DOMAIN t
      <3>0. PICK n \in Nat \ {0} : n = Len(s)
        BY <1>0
      <3>1. n \in Nat \ {0, 1} /\ n = Len(s)
        BY <1>5, <3>0
      <3>2. DOMAIN s = 1 .. n /\ DOMAIN t = 1 .. n - 1
        BY <1>0, <3>1
      <3>3. \A i \in 1 .. n - 1 : t[i] = s[i + 1]
        BY <1>0, <3>1
      <3>4. \A m \in Nat \ {0, 1} :
              2 \in 1 .. m /\ 1 \in 1 .. m - 1 /\ \A i \in 1 .. m - 1 : i + 1 \in 1 .. m
        OBVIOUS
      <3> HIDE DEF t, s
      <3> QED
        BY <3>1, <3>2, <3>3, <3>4
    <2> HIDE DEF t
    <2>4. ASSUME NEW i \in DOMAIN t
          PROVE  /\ info[t[i]].tmpMax /\ ~info[t[i]].main
                 /\ 1 < i => info[t[i]].maxLink = t[i - 1]
      <3>1. i \in Nat /\ i >= 1 /\ i + 1 \in DOMAIN s /\ t[i] = s[i + 1]
        BY <2>3
      <3>2. 2 <= i + 1 /\ 1 < i + 1 /\ (i + 1) - 1 = i
        BY <3>1
      <3>3. info[t[i]].tmpMax /\ ~info[t[i]].main /\ info[t[i]].maxLink = s[i]
        BY <1>1, <3>1, <3>2 DEF Chained
      <3>4. 1 < i => t[i - 1] = s[i]
        <4>1. 1 < i => i - 1 \in DOMAIN t /\ (i - 1) + 1 = i
          BY <2>3, <3>1
        <4> QED
          BY <2>3, <4>1
      <3> QED
        BY <3>3, <3>4
    <2>5. ASSUME NEW i \in DOMAIN t, NEW j \in DOMAIN t, i < j
          PROVE  Slice[t[i]] < Slice[t[j]]
      <3>1. i + 1 \in DOMAIN s /\ j + 1 \in DOMAIN s /\ i + 1 < j + 1
        BY <2>3, <2>5
      <3> QED
        BY <1>1, <2>3, <3>1 DEF Chained
    <2>6. Chained(1)'
      <3>1. conf'.list = t
        BY <2>2 DEF t
      <3> QED
        BY <1>0, <2>4, <2>5, <3>1 DEF Chained
    <2>7. info[t[1]].maxLink = mainBlock[N].hash
      <3>1. 1 \in DOMAIN t /\ t[1] = s[2]
        BY <2>3
      <3>2. info[s[2]].maxLink = s[1]
        BY <1>1, <2>3 DEF Chained
      <3> QED
        BY <1>1, <3>1, <3>2
    <2>8. ListOn(mainBlock[conf.number].hash)'
      BY <1>0, <2>2, <2>7 DEF ListOn, t
    <2>9. MainNumbered'
      BY <1>3, <2>2, <2>6, <2>8 DEF MainNumbered, Index, Mains
    <2> QED
      BY <2>2, <2>9 DEF NumberInv
  <1> QED
    BY <1>4, <1>5
------------------------------------------------------------------------------
LEMMA NumberInit == Init => StoredOnce /\ NumberInv
  <1> SUFFICES ASSUME Init PROVE StoredOnce /\ NumberInv
    OBVIOUS
  <1>0. Genesis \in Blocks /\ Slice[Genesis] \in Nat
    BY BlocksAssumption
  <1>1. /\ info[Genesis] = GenesisInfo
        /\ \A b \in Blocks : b # Genesis => info[b] = NoInfo
    BY <1>0 DEF Init
  <1>2. StoredOnce
    BY <1>1 DEF Init, StoredOnce, HasInfo
  <1>3. /\ mainTail.number = 0 /\ mainTail.hash = Genesis
        /\ DOMAIN mainBlock = {0} /\ mainBlock[0].hash = Genesis
    BY DEF Init
  <1>4. 0 .. 0 = {0} /\ 1 .. 0 = {}
    OBVIOUS
  <1>5. Index(0)
    BY <1>0, <1>1, <1>3, <1>4 DEF Index, GenesisInfo
  <1>6. Mains(0, 0)
    BY <1>0, <1>1, <1>3, <1>4 DEF Mains, GenesisInfo, NoInfo
  <1>7. IdleNumbered
    BY <1>3, <1>4, <1>5, <1>6 DEF IdleNumbered, TailIndexed
  <1>8. conf.step = "idle"
    BY DEF Init, IdleConf
  <1> QED
    BY <1>2, <1>7, <1>8 DEF NumberInv

LEMMA NumberStep ==
  ASSUME LinksInOrder, SlicesFit, Copies <= 1, MaxCrashes = 0, NInv, [Next]_vars
  PROVE  StoredOnce' /\ NumberInv'
  <1>0. IInv /\ StoredOnce /\ GraphFixed /\ StoredOnce'
    BY NextInv, OnceStep DEF NInv
  <1>1. CASE ConfirmStep
    <2>1. CASE ConfirmBegin
      BY <1>0, <2>1, BeginKeeps
    <2>2. CASE FindStep
      BY <1>0, <2>2, FindKeeps
    <2>3. CASE RollbackNext
      BY <1>0, <2>3, RollbackKeeps
    <2>4. CASE UnwindLink
      BY <1>0, <2>4, UnwindLinkKeeps
    <2>5. CASE UnwindBlock
      BY <1>0, <2>5, UnwindBlockKeeps
    <2>6. CASE LoadState
      BY <1>0, <2>6, LoadKeeps
    <2>7. CASE NextMain
      BY <1>0, <2>7, NextMainKeeps
    <2>8. CASE VisitLink
      BY <1>0, <2>8, VisitLinkKeeps
    <2>9. CASE VisitBlock
      BY <1>0, <2>9, VisitBlockKeeps
    <2>10. CASE CommitMain
      BY <1>0, <2>10, CommitKeeps
    <2>11. CASE MoveMainTail
      BY <1>0, <2>11, MoveKeeps
    <2> QED
      BY <1>0, <1>1, <2>1, <2>2, <2>3, <2>4, <2>5, <2>6, <2>7, <2>8, <2>9, <2>10, <2>11
         DEF ConfirmStep
  <1>2. ASSUME NEW w \in Workers, SaveInfo(w) PROVE NumberInv'
    <2>1. /\ info' = [info EXCEPT ![blk[w]] = ComputeCumulativeDiff(blk[w])]
          /\ UNCHANGED <<conf, mainTail, mainBlock>> /\ pc[w] = "info"
      BY <1>2 DEF SaveInfo
    <2>2. info \in [Blocks -> Info] /\ blk[w] \in Blocks /\ ~HasInfo(blk[w])
      BY <1>0, <2>1 DEF IInv, TypeOK, StoredOnce
    <2>3. /\ \A b \in Blocks : b # blk[w] => info'[b] = info[b]
          /\ info'[blk[w]] = ComputeCumulativeDiff(blk[w])
      BY <2>1, <2>2
    <2>4. ~ComputeCumulativeDiff(blk[w]).main
      BY DEF ComputeCumulativeDiff, NoInfo
    <2>5. /\ \A b \in Blocks : HasInfo(b) => info'[b] = info[b]
          /\ \A b \in Blocks : ~HasInfo(b) => ~info'[b].main
      BY <2>2, <2>3, <2>4 DEF HasInfo, NoInfo
    <2> QED
      BY <1>0, <2>1, <2>5, QuietKeeps
  <1>3. ASSUME UNCHANGED <<info, conf, mainTail, mainBlock>> PROVE NumberInv'
    <2>1. /\ \A b \in Blocks : HasInfo(b) => info'[b] = info[b]
          /\ \A b \in Blocks : ~HasInfo(b) => ~info'[b].main
      BY <1>3 DEF HasInfo, NoInfo
    <2> QED
      BY <1>0, <1>3, <2>1, QuietKeeps
  <1>4. ~CrashRestart
    BY <1>0 DEF CrashRestart, IInv, TypeOK
  <1>5. \/ ConfirmStep \/ \E w \in Workers : SaveInfo(w)
        \/ UNCHANGED <<info, conf, mainTail, mainBlock>>
    BY <1>4 DEF Next, AddBlock, SaveRlp, UpdateTailCheck, UpdateTailWrite, Tick, vars
  <1> QED
    BY <1>0, <1>1, <1>2, <1>3, <1>5

LEMMA NumberAlways ==
  ASSUME LinksInOrder, SlicesFit, Copies <= 1, MaxCrashes = 0
  PROVE  Spec => []NInv
  <1>1. Init => NInv
    BY InitInv, NumberInit DEF NInv, Init, Reached, HasInfo
  <1>2. NInv /\ [Next]_vars => NInv'
    BY NextInv, ReachedStep, NumberStep DEF NInv
  <1> QED
    BY <1>1, <1>2, PTL DEF Spec

(* Between two calls of Confirm the main blocks are one chain, numbered       *)
(* without a gap (main_chain.go:469-571), whatever reorganisations and        *)
(* rollbacks came before, for every graph whose links go back: provided that the *)
(* process does not crash and no block is stored twice, and that slices fit    *)
(* the word their differences are computed in.                                *)
THEOREM MainChainNumberedHolds ==
  ASSUME LinksInOrder, SlicesFit, Copies <= 1, MaxCrashes = 0
  PROVE  Spec => []MainChainNumbered
  <1>1. NInv => MainChainNumbered
    <2> SUFFICES ASSUME NInv, conf.step = "idle", NEW b \in Blocks, info[b].main
                 PROVE  /\ info[b].number \in DOMAIN mainBlock
                        /\ mainBlock[info[b].number].hash = b
                        /\ b # Genesis =>
                             LET m == info[b].maxLink
                             IN  info[m].main /\ info[b].number = info[m].number + 1
      BY DEF MainChainNumbered
    <2>1. PICK T \in Nat : Index(T) /\ \E k \in 0 .. T : Mains(k, k)
      BY DEF NInv, NumberInv, IdleNumbered, TailIndexed, IInv, TypeOK
    <2> PICK k \in 0 .. T : Mains(k, k)
      BY <2>1
    <2>2. PICK n \in 0 .. k : b = mainBlock[n].hash /\ info[b].number = n
      BY <2>1 DEF Mains
    <2>3. n \in 0 .. T /\ n \in DOMAIN mainBlock
      BY <2>1 DEF Index
    <2>4. ASSUME b # Genesis
          PROVE  info[info[b].maxLink].main /\ info[b].number = info[info[b].maxLink].number + 1
      <3>1. n # 0
        BY <2>1, <2>2, <2>4 DEF Index
      <3>2. n \in 1 .. T /\ n - 1 \in 0 .. k /\ n - 1 \in 0 .. T
        BY <2>3, <3>1
      <3>3. info[b].maxLink = mainBlock[n - 1].hash /\ mainBlock[n - 1].hash \in Blocks
        BY <2>1, <2>2, <3>2 DEF Index
      <3>4. info[mainBlock[n - 1].hash].main /\ info[mainBlock[n - 1].hash].number = n - 1
        BY <2>1, <3>2, <3>3 DEF Mains
      <3> QED
        BY <2>2, <3>2, <3>3, <3>4
    <2> QED
      BY <2>2, <2>3, <2>4
  <1> QED
    BY <1>1, NumberAlways, PTL

(* Confirm's rollback stops at the locator and nowhere else: its error        *)
(* "locatorBlock!=block" (main_chain.go:491) is never returned, unless a crash *)
(* interrupts a rollback.                                                     *)
THEOREM LocatorHolds ==
  ASSUME LinksInOrder, SlicesFit, Copies <= 1, MaxCrashes = 0
  PROVE  Spec => []LocatorOnMainChain
  <1>1. NInv => LocatorOnMainChain
    <2> SUFFICES ASSUME NInv, conf.step = "rollback", Time[conf.locator] >= Time[conf.at]
                 PROVE  conf.at = conf.locator
      BY DEF LocatorOnMainChain
    <2>1. PICK N \in Nat : N = conf.number
      BY DEF NInv, IInv, ConfInv, ConfSound, Conf
    <2>2. conf.locator = mainBlock[N].hash
      BY <2>1, RollbackStops
    <2>3. conf.at = mainBlock[N].hash
      BY <2>1 DEF NInv, NumberInv, RollbackNumbered
    <2> QED
      BY <2>2, <2>3
  <1> QED
    BY <1>1, NumberAlways, PTL
------------------------------------------------------------------------------
(* The depth of main blocks *)

(* The clock fits the word slices are kept in. *)
ClockFits == MaxNow < WordSize /\ Slice[Genesis] + 1 < WordSize

(* the slice of the first block that the walk could confirm *)
LastSlice(l) == Slice[l[Len(l)]]

(* The list goes back in time from its last block, on which the walk compared the *)
(* slice with the clock it had read; the list's head is what is visited.          *)
ListDeep(l, t) ==
  l # << >> => /\ LastSlice(l) > t \/ t - LastSlice(l) > ConfirmBlock
               /\ \A i \in DOMAIN l : Slice[l[i]] <= LastSlice(l)

ConfDeep(c, t) ==
  /\ c.step # "idle" => c.now <= t
  /\ ListDeep(c.list, c.now)
  /\ c.step = "find" =>
       IF c.can THEN /\ c.list # << >>
                     /\ c.at # None => Slice[c.at] <= LastSlice(c.list)
                ELSE c.list = << >>
  /\ c.step = "visit" => c.stack[1].blk = c.list[1]

DeepInv == now < WordSize /\ ConfDeep(conf, now)

DInv == IInv /\ DeepInv

LEMMA IdleDeep ==
  ASSUME NEW t
  PROVE  ConfDeep(IdleConf, t)
  BY DEF ConfDeep, ListDeep, IdleConf

(* The list keeps its last block when the walk adds an earlier one in front. *)
LEMMA ListGrows ==
  ASSUME NEW l \in Seq(Blocks), NEW b \in Blocks, NEW t \in Nat, ListDeep(l, t),
         IF l = << >> THEN Slice[b] > t \/ t - Slice[b] > ConfirmBlock
                      ELSE Slice[b] <= LastSlice(l)
  PROVE  /\ ListDeep(<<b>> \o l, t) /\ <<b>> \o l # << >>
         /\ Slice[b] <= LastSlice(<<b>> \o l)
  <1> DEFINE k == <<b>> \o l
  <1>1. /\ k \in Seq(Blocks) /\ Len(k) = Len(l) + 1 /\ Len(l) \in Nat
        /\ k[1] = b /\ \A i \in 1 .. Len(l) : k[i + 1] = l[i]
        /\ DOMAIN k = 1 .. Len(k) /\ DOMAIN l = 1 .. Len(l)
    OBVIOUS
  <1>2. \A x \in Blocks : Slice[x] \in Nat
    BY BlocksAssumption
  <1>3. \A i \in DOMAIN k : k[i] = b \/ \E j \in DOMAIN l : k[i] = l[j]
    <2> SUFFICES ASSUME NEW i \in DOMAIN k, i # 1 PROVE \E j \in DOMAIN l : k[i] = l[j]
      BY <1>1
    <2>1. i - 1 \in 1 .. Len(l) /\ (i - 1) + 1 = i
      BY <1>1
    <2> QED
      BY <1>1, <2>1
  <1> HIDE DEF k
  <1>4. CASE l = << >>
    <2>1. Len(k) = 1 /\ DOMAIN l = {}
      BY <1>1, <1>4
    <2> QED
      BY <1>1, <1>2, <1>3, <1>4, <2>1 DEF ListDeep, LastSlice, k
  <1>5. CASE l # << >>
    <2>1. Len(l) \in 1 .. Len(l) /\ LastSlice(k) = LastSlice(l) /\ k # << >>
      BY <1>1, <1>5 DEF LastSlice
    <2> QED
      BY <1>1, <1>2, <1>3, <1>5, <2>1 DEF ListDeep, k
  <1> QED
    BY <1>4, <1>5

(* ... and when Confirm takes a main block off its front. *)
LEMMA ListShrinks ==
  ASSUME NEW l \in Seq(Blocks), NEW t, l # << >>, ListDeep(l, t)
  PROVE  ListDeep(Tail(l), t)
  <1> SUFFICES ASSUME Tail(l) # << >> PROVE ListDeep(Tail(l), t)
    BY DEF ListDeep
  <1> DEFINE k == Tail(l)
  <1>1. k \in Seq(Blocks) /\ Len(k) = Len(l) - 1 /\ Len(k) \in Nat
    OBVIOUS
  <1>2. DOMAIN k = 1 .. Len(k) /\ DOMAIN l = 1 .. Len(l) /\ Len(k) # 0
    BY <1>1, EmptySeq
  <1>3. \A i \in 1 .. Len(k) : k[i] = l[i + 1] /\ i + 1 \in 1 .. Len(l)
    BY <1>1
  <1> HIDE DEF k
  <1>4. LastSlice(k) = LastSlice(l)
    BY <1>1, <1>2, <1>3 DEF LastSlice
  <1> QED
    BY <1>1, <1>2, <1>3, <1>4 DEF ListDeep, k

LEMMA ConfirmDeep ==
  ASSUME ClockFits, IInv, DeepInv, ConfirmStep
  PROVE  ConfDeep(conf', now)
  <1>0. /\ conf \in Conf /\ now \in Nat /\ ConfirmBlock \in Nat /\ tail \in Blocks
        /\ conf.now \in Nat /\ conf.list \in Seq(Blocks)
        /\ \A b \in Blocks : Slice[b] \in Nat
        /\ ConfDeep(conf, now)
    BY BlocksAssumption, NumbersAssumption
       DEF IInv, TypeOK, ConfInv, ConfSound, Conf, DeepInv, ConfDeep
  <1>1. CASE ConfirmBegin
    <2>1. /\ conf'.step = "find" /\ conf'.now = now /\ ~conf'.can /\ conf'.list = << >>
      BY <1>1 DEF ConfirmBegin, IdleConf
    <2> QED
      BY <1>0, <2>1 DEF ConfDeep, ListDeep
  <1>2. CASE FindStep
    <2> DEFINE b == conf.at
               can == conf.can \/ TimeSliceDifference(conf.now, Slice[b]) > ConfirmBlock
    <2>1. CASE b = None \/ ~Stored(b)
      BY <1>2, <2>1, IdleDeep DEF FindStep
    <2>2. CASE ~(b = None \/ ~Stored(b)) /\ can /\ IsLocator(b)
      <3>1. CASE Time[b] < Time[mainTail.hash]
        <4>1. conf' = [conf EXCEPT !.step = "rollback", !.locator = b, !.at = mainTail.hash]
          BY <1>2, <2>2, <3>1 DEF FindStep
        <4>2. conf'.step = "rollback" /\ conf'.now = conf.now /\ conf'.list = conf.list
          BY <1>0, <4>1 DEF Conf
        <4> QED
          BY <1>0, <1>2, <4>2 DEF ConfDeep, FindStep
      <3>2. CASE ~(Time[b] < Time[mainTail.hash])
        <4>1. conf' = AfterRollback([conf EXCEPT !.locator = b])
          BY <1>2, <2>2, <3>2 DEF FindStep
        <4>2. \/ conf' = IdleConf
              \/ conf'.step = "load" /\ conf'.now = conf.now /\ conf'.list = conf.list
          BY <1>0, <4>1 DEF AfterRollback, Conf
        <4> QED
          BY <1>0, <1>2, <4>2, IdleDeep DEF ConfDeep, FindStep
      <3> QED
        BY <3>1, <3>2
    <2>3. CASE ~(b = None \/ ~Stored(b)) /\ ~(can /\ IsLocator(b))
      <3> DEFINE l == IF can THEN <<b>> \o conf.list ELSE conf.list
                 a == IF can /\ info[b].apply THEN conf.applied \cup {b} ELSE conf.applied
      <3>1. conf' = [conf EXCEPT !.can = can, !.list = l, !.applied = a,
                                 !.at = info[b].maxLink]
        BY <1>2, <2>3 DEF FindStep
      <3>2. /\ conf'.step = "find" /\ conf'.can = can /\ conf'.list = l
            /\ conf'.at = info[b].maxLink /\ conf'.now = conf.now /\ conf.step = "find"
        BY <1>0, <1>2, <3>1 DEF Conf, FindStep
      <3>3. b \in Blocks /\ HasInfo(b) /\ b # None
        BY <1>0, <2>3 DEF Conf, Stored
      <3>4. conf.now <= now /\ conf.now < WordSize /\ ListDeep(conf.list, conf.now)
        BY <1>0, <3>2, NumbersAssumption DEF DeepInv, ConfDeep
      <3>5. info[b].maxLink # None =>
              /\ info[b].maxLink \in Blocks
              /\ Slice[info[b].maxLink] <= Slice[b]
        <4>1. b = Genesis => info[b].maxLink = None
          BY DEF IInv, GraphInv, InfoSound
        <4>2. b # Genesis => /\ info[b].maxLink \in Blocks
                             /\ \/ Slice[info[b].maxLink] < Slice[b]
                                \/ Slice[info[b].maxLink] = Slice[b]
          BY <3>3 DEF IInv, GraphInv, ChainShape
        <4> QED
          BY <1>0, <3>3, <4>1, <4>2
      <3>6. CASE can
        <4>1. IF conf.list = << >> THEN Slice[b] > conf.now \/ conf.now - Slice[b] > ConfirmBlock
                                   ELSE Slice[b] <= LastSlice(conf.list)
          <5>1. CASE conf.can
            BY <1>0, <3>2, <3>3, <5>1 DEF ConfDeep
          <5>2. CASE ~conf.can
            <6>1. conf.list = << >> /\ TimeSliceDifference(conf.now, Slice[b]) > ConfirmBlock
              BY <1>0, <3>2, <3>6, <5>2 DEF ConfDeep
            <6>2. CASE Slice[b] <= conf.now
              <7>1. conf.now - Slice[b] \in Nat /\ conf.now - Slice[b] < WordSize
                    /\ WordSize \in Nat \ {0}
                BY <1>0, <3>3, <3>4, <6>2, NumbersAssumption
              <7>2. TimeSliceDifference(conf.now, Slice[b]) = conf.now - Slice[b]
                BY <7>1 DEF TimeSliceDifference
              <7> QED
                BY <6>1, <7>2
            <6>3. CASE ~(Slice[b] <= conf.now)
              BY <1>0, <3>3, <6>1, <6>3
            <6> QED
              BY <6>2, <6>3
          <5> QED
            BY <5>1, <5>2
        <4>2. l = <<b>> \o conf.list
          BY <3>6
        <4>3. ListDeep(l, conf.now) /\ l # << >> /\ Slice[b] <= LastSlice(l)
          BY <1>0, <3>3, <3>4, <4>1, <4>2, ListGrows
        <4>4. l \in Seq(Blocks) /\ LastSlice(l) \in Nat
          <5>1. l \in Seq(Blocks)
            BY <1>0, <3>3, <4>2
          <5> HIDE DEF l
          <5>2. Len(l) \in 1 .. Len(l) /\ l[Len(l)] \in Blocks
            BY <4>3, <5>1
          <5> QED
            BY <1>0, <5>1, <5>2 DEF LastSlice
        <4> HIDE DEF l, a, can
        <4> QED
          BY <1>0, <3>2, <3>3, <3>4, <3>5, <3>6, <4>3, <4>4 DEF ConfDeep
      <3>7. CASE ~can
        <4>1. l = conf.list /\ ~conf.can
          BY <3>7
        <4> HIDE DEF l, a, can
        <4> QED
          BY <1>0, <3>2, <3>4, <3>7, <4>1 DEF ConfDeep
      <3> QED
        BY <3>6, <3>7
    <2> QED
      BY <2>1, <2>2, <2>3
  <1>3. CASE RollbackNext \/ LoadState
    <2>1. \/ conf' = IdleConf
          \/ /\ conf'.step \in {"load", "unwind", "main"} /\ conf'.now = conf.now
             /\ conf'.list = conf.list /\ conf.step # "idle"
      BY <1>0, <1>3 DEF RollbackNext, LoadState, AfterRollback, Conf
    <2> QED
      BY <1>0, <2>1, IdleDeep DEF ConfDeep
  <1>4. CASE UnwindLink \/ VisitLink
    <2> DEFINE h == Links[Top.blk][Top.next]
    <2>1. conf.stack # << >> /\ conf.step \in {"unwind", "visit"}
      BY <1>4 DEF UnwindLink, VisitLink, IInv, ConfInv, ConfSound
    <2>2. h \in Blocks /\ HasInfo(h)
      BY <1>4, <2>1, TopLink DEF UnwindLink, VisitLink
    <2>3. PICK t \in {Advance, Descend(h)} : conf' = [conf EXCEPT !.stack = t]
      BY <1>4 DEF UnwindLink, VisitLink
    <2>4. t[1].blk = conf.stack[1].blk
      BY <2>1, <2>2, <2>3, StackFacts DEF IInv
    <2>5. /\ conf'.step = conf.step /\ conf'.now = conf.now /\ conf'.list = conf.list
          /\ conf'.stack = t
      BY <1>0, <2>3 DEF Conf
    <2> QED
      BY <1>0, <2>1, <2>4, <2>5 DEF ConfDeep
  <1>5. CASE UnwindBlock
    <2>1. /\ conf'.step \in {"unwind", "rollback"} /\ conf'.now = conf.now
          /\ conf'.list = conf.list /\ conf.step # "idle"
      BY <1>0, <1>5 DEF UnwindBlock, Conf
    <2> QED
      BY <1>0, <2>1 DEF ConfDeep
  <1>6. CASE NextMain
    <2>1. /\ conf'.step = "visit" /\ conf'.now = conf.now
          /\ conf'.list = conf.list /\ conf.step # "idle"
          /\ conf'.stack = <<[blk |-> Head(conf.list), next |-> 1]>>
      BY <1>0, <1>6 DEF NextMain, Conf
    <2>2. conf.list # << >>
      BY <1>6 DEF NextMain, IInv, ConfInv, ConfSound
    <2>3. Head(conf.list) = conf.list[1]
      BY <1>0, <2>2
    <2> QED
      BY <1>0, <2>1, <2>3 DEF ConfDeep
  <1>7. CASE VisitBlock
    <2>1. /\ conf'.now = conf.now /\ conf'.list = conf.list /\ conf.step = "visit"
          /\ conf'.stack = Pop(conf.stack)
          /\ conf'.step = IF Len(conf.stack) = 1 THEN "commit" ELSE "visit"
      BY <1>0, <1>7 DEF VisitBlock, Conf
    <2>2. Len(conf.stack) # 1 => conf'.stack[1].blk = conf.stack[1].blk
      BY <2>1, StackFacts DEF IInv, ConfInv, ConfSound
    <2> QED
      BY <1>0, <2>1, <2>2 DEF ConfDeep
  <1>8. CASE CommitMain \/ MoveMainTail
    <2>1. \/ conf' = IdleConf
          \/ /\ conf'.step \in {"tail", "main"} /\ conf'.now = conf.now
             /\ conf'.list \in {conf.list, Tail(conf.list)} /\ conf.step # "idle"
             /\ conf.list # << >>
      BY <1>0, <1>8 DEF CommitMain, MoveMainTail, Conf, IInv, ConfInv, ConfSound
    <2>2. conf.list # << >> => ListDeep(Tail(conf.list), conf.now)
      BY <1>0, ListShrinks DEF ConfDeep
    <2> QED
      BY <1>0, <2>1, <2>2, IdleDeep DEF ConfDeep
  <1> QED
    BY <1>1, <1>2, <1>3, <1>4, <1>5, <1>6, <1>7, <1>8 DEF ConfirmStep

LEMMA DeepStep ==
  ASSUME ClockFits, DInv, [Next]_vars
  PROVE  DeepInv'
  <1>0. /\ IInv /\ DeepInv /\ now \in Nat /\ now < WordSize
        /\ MaxNow \in Nat /\ WordSize \in Nat /\ conf \in Conf
    BY NumbersAssumption DEF DInv, DeepInv, IInv, TypeOK, ConfInv, ConfSound
  <1>1. CASE ConfirmStep
    <2>1. ConfDeep(conf', now)
      BY <1>0, <1>1, ConfirmDeep
    <2>2. UNCHANGED now
      BY <1>1 DEF ConfirmStep, ConfUnchanged, ConfirmBegin, FindStep, RollbackNext, UnwindLink,
         UnwindBlock, LoadState, NextMain, VisitLink, VisitBlock, CommitMain, MoveMainTail
    <2> QED
      BY <1>0, <2>1, <2>2 DEF DeepInv, ConfDeep
  <1>2. CASE UNCHANGED <<now, conf>>
    BY <1>0, <1>2 DEF DeepInv, ConfDeep
  <1>3. CASE Tick
    <2>1. now' = now + 1 /\ now < MaxNow /\ UNCHANGED conf
      BY <1>3 DEF Tick
    <2>2. now' \in Nat /\ now <= now' /\ now' < WordSize
      BY <1>0, <2>1 DEF ClockFits
    <2>3. conf.now \in Nat
      BY <1>0 DEF Conf
    <2> QED
      BY <1>0, <2>1, <2>2, <2>3 DEF DeepInv, ConfDeep
  <1>4. CASE CrashRestart
    <2>1. conf' = IdleConf /\ UNCHANGED now
      BY <1>4 DEF CrashRestart
    <2>2. ConfDeep(conf', now)
      BY <2>1, IdleDeep
    <2> QED
      BY <1>0, <2>1, <2>2 DEF DeepInv
  <1>5. ConfirmStep \/ UNCHANGED <<now, conf>> \/ Tick \/ CrashRestart
    BY DEF Next, vars, AddBlock, SaveRlp, SaveInfo, UpdateTailCheck, UpdateTailWrite
  <1> QED
    BY <1>1, <1>2, <1>3, <1>4, <1>5

LEMMA DeepInit == ASSUME ClockFits, Init PROVE DeepInv
  <1>1. now = Slice[Genesis] + 1 /\ Slice[Genesis] \in Nat
    BY BlocksAssumption DEF Init
  <1>2. ConfDeep(conf, now)
    BY IdleDeep DEF Init
  <1> QED
    BY <1>1, <1>2 DEF DeepInv, ClockFits

(* Only singleBlockConfirm's last write makes a block a main block. *)
LEMMA NewMain ==
  ASSUME IInv, [Next]_vars, NEW b \in Blocks, info'[b].main, ~info[b].main
  PROVE  /\ conf.step = "visit" /\ conf.stack # << >>
         /\ Len(conf.stack) = 1 /\ b = Top.blk
  <1>0. /\ info \in [Blocks -> Info] /\ conf \in Conf
        /\ conf.step \in {"unwind", "visit"} => conf.stack # << >>
    BY DEF IInv, TypeOK, ConfInv, ConfSound
  <1>1. ASSUME NEW w \in Workers, SaveInfo(w) PROVE FALSE
    <2>1. info' = [info EXCEPT ![blk[w]] = ComputeCumulativeDiff(blk[w])]
      BY <1>1 DEF SaveInfo
    <2>2. ~ComputeCumulativeDiff(blk[w]).main
      BY DEF ComputeCumulativeDiff, NoInfo
    <2> QED
      BY <1>0, <2>1, <2>2
  <1>2. CASE UnwindBlock
    <2> DEFINE r == RolledBack(info[Top.blk], Len(conf.stack) = 1)
    <2>1. info' = [info EXCEPT ![Top.blk] = r]
      BY <1>2 DEF UnwindBlock
    <2>2. Top.blk \in Blocks
      BY <1>0, <1>2, StackFacts DEF IInv, UnwindBlock, Frame
    <2>3. r.main => info[Top.blk].main
      BY <1>0, <2>2 DEF RolledBack, Info
    <2> HIDE DEF r
    <2> QED
      BY <1>0, <2>1, <2>3
  <1>3. CASE VisitBlock
    <2>1. PICK a : info' = [info EXCEPT ![Top.blk] = Confirmed(info[Top.blk], Len(conf.stack) = 1, a)]
      BY <1>3 DEF VisitBlock
    <2>2. Top.blk \in Blocks /\ conf.step = "visit" /\ conf.stack # << >>
      BY <1>0, <1>3, StackFacts DEF IInv, VisitBlock, Frame
    <2>3. b = Top.blk
      BY <1>0, <2>1
    <2>4. Confirmed(info[b], Len(conf.stack) = 1, a).main
            = IF Len(conf.stack) = 1 THEN TRUE ELSE info[b].main
      <3>1. info[b] \in Info
        BY <1>0
      <3> QED
        BY <3>1 DEF Confirmed, Info
    <2>5. info'[b] = Confirmed(info[b], Len(conf.stack) = 1, a)
      BY <1>0, <2>1, <2>3
    <2> QED
      BY <2>2, <2>3, <2>4, <2>5
  <1>4. \/ \E w \in Workers : SaveInfo(w)
        \/ UnwindBlock \/ VisitBlock \/ info' = info
    BY DEF Next, vars, AddBlock, SaveRlp, UpdateTailCheck, UpdateTailWrite, ConfirmStep,
           ConfirmBegin, FindStep, RollbackNext, UnwindLink, LoadState, NextMain, VisitLink,
           CommitMain, MoveMainTail, Tick, CrashRestart
  <1> QED
    BY <1>1, <1>2, <1>3, <1>4

(* The walk (main_chain.go:452) lets a block become a main block before it is    *)
(* more than ConfirmBlock slices old only if the walk began on a block ahead of   *)
(* the clock, however long after the clock was read the block is confirmed, and   *)
(* whatever was stored, rolled back or lost in a crash in between.               *)
THEOREM EarlyOnlyAheadHolds ==
  ASSUME LinksInOrder, ClockFits
  PROVE  Spec => EarlyOnlyAhead
  <1>1. Init => DInv
    BY InitInv, DeepInit DEF DInv
  <1>2. DInv /\ [Next]_vars => DInv'
    BY NextInv, DeepStep DEF DInv
  <1>3. DInv /\ [Next]_vars =>
          \A b \in Blocks : info'[b].main /\ ~info[b].main =>
            WalkedAhead \/ now - Slice[b] > ConfirmBlock
    <2> SUFFICES ASSUME DInv, [Next]_vars, NEW b \in Blocks, info'[b].main, ~info[b].main,
                        ~WalkedAhead
                 PROVE  now - Slice[b] > ConfirmBlock
      OBVIOUS
    <2>1. /\ conf.step = "visit" /\ conf.stack # << >>
          /\ Len(conf.stack) = 1 /\ b = Top.blk
      BY NewMain DEF DInv
    <2>2. b = conf.list[1] /\ conf.list # << >> /\ conf.list \in Seq(Blocks)
          /\ conf.now \in Nat /\ conf.now <= now
      BY <2>1, StackFacts DEF DInv, DeepInv, ConfDeep, IInv, ConfInv, ConfSound, Conf
    <2>3. 1 \in DOMAIN conf.list /\ conf.list[Len(conf.list)] \in Blocks
      BY <2>2
    <2>4. /\ now \in Nat /\ Slice[b] \in Nat /\ ConfirmBlock \in Nat
          /\ LastSlice(conf.list) \in Nat
      BY <2>3, BlocksAssumption, NumbersAssumption DEF DInv, IInv, TypeOK, LastSlice
    <2>5. /\ Slice[b] <= LastSlice(conf.list)
          /\ ~(LastSlice(conf.list) > conf.now)
          /\ LastSlice(conf.list) > conf.now \/ conf.now - LastSlice(conf.list) > ConfirmBlock
      BY <2>2, <2>3 DEF DInv, DeepInv, ConfDeep, ListDeep, WalkedAhead, LastSlice
    <2> QED
      BY <2>2, <2>4, <2>5
  <1> QED
    BY <1>1, <1>2, <1>3, PTL DEF Spec, EarlyOnlyAhead
------------------------------------------------------------------------------
(* What is confirmed, and the state of main blocks: the two recursions over the   *)
(* graph, under the same conditions as the numbering.                          *)

(* Every set of stored blocks has a member that no member links to: a block is  *)
(* stored after the blocks it links to.                                       *)
LinksGoBack ==
  \A S \in SUBSET Blocks :
    S # {} /\ (\A x \in S : HasInfo(x)) =>
      \E x \in S : \A y \in S : x \notin Range(Links[y])

(* The confirmed blocks are those that a main block reaches, each under the     *)
(* number of the first one; leaving aside the main block a, which is being       *)
(* rolled back, and what is confirmed under the number N.                     *)
FirstMain(a, N) ==
  \A x \in Blocks :
    /\ ~info[x].confirm => info[x].number = 0
    /\ info[x].confirm /\ info[x].number # N =>
         \E b \in Blocks \ {a} : /\ info[b].main /\ x \in Ancestors[b]
                                 /\ info[b].number = info[x].number
    /\ \A b \in Blocks \ {a} : info[b].main /\ x \in Ancestors[b] =>
         info[x].confirm /\ info[x].number <= info[b].number

(* x still stands confirmed under number N, the one that is being rolled back. *)
Remains(x, N) == info[x].confirm /\ info[x].number = N

(* RollBackStatus below the main block conf.at: what earlier main blocks         *)
(* confirmed is untouched, and each block that remains is being visited or will *)
(* be met as a link of another that remains.                                  *)
Unwinding ==
  /\ FirstMain(conf.at, conf.number)
  /\ \A x \in Blocks : info[x].confirm => info[x].number <= conf.number
  /\ \A i \in DOMAIN conf.stack :
       LET x == conf.stack[i].blk
       IN  info[x].confirm => info[x].number >= conf.number
  /\ \A x \in Blocks : Remains(x, conf.number) =>
       \/ \E i \in DOMAIN conf.stack : conf.stack[i].blk = x
       \/ \E p \in Blocks : Remains(p, conf.number) /\ \E j \in DOMAIN Links[p] :
            /\ Links[p][j] = x
            /\ \A i \in DOMAIN conf.stack : conf.stack[i].blk = p => conf.stack[i].next <= j

(* singleBlockConfirm below the head of the list: the blocks settled so far are   *)
(* the confirmed ones, they are closed under links, and the links a frame has    *)
(* passed are confirmed or being visited above it.                            *)
Visiting ==
  /\ FirstMain(None, conf.number)
  /\ \A x \in Blocks :
       /\ info[x].confirm <=> x \in conf.state.done
       /\ info[x].confirm => /\ x \in Ancestors[conf.list[1]]
                             /\ \A h \in Range(Links[x]) : info[h].confirm
  /\ \A i \in DOMAIN conf.stack :
       LET f == conf.stack[i]
       IN  /\ f.blk \in Ancestors[conf.list[1]]
           /\ \A b \in Blocks : info[b].main => f.blk \notin Ancestors[b]
           /\ \A j \in DOMAIN Links[f.blk] : j < f.next =>
                \/ info[Links[f.blk][j]].confirm
                \/ \E k \in DOMAIN conf.stack : i < k /\ conf.stack[k].blk = Links[f.blk][j]

(* What takes effect on top of the state of the main block below. *)
OnTop ==
  LET base == mainBlock[conf.number - 1].state
  IN  /\ base.ok \subseteq conf.state.ok
      /\ conf.state.ok \ base.ok \subseteq conf.state.done \ base.done

StateInv ==
  /\ StateOfMainBlock
  /\ conf.step \notin {"unwind", "visit"} => FirstMain(None, -1)
  /\ conf.step = "unwind" => Unwinding
  /\ conf.step = "visit" => Visiting
  /\ conf.step \in {"commit", "tail"} => conf.state.done = Ancestors[conf.list[1]]
  /\ conf.step \in {"main", "tail"} => conf.state = mainBlock[conf.number].state
  /\ conf.step \in {"visit", "commit"} => OnTop
  /\ conf.step \in {"load", "main"} => conf.number <= mainTail.number
  /\ conf.step \in {"visit", "commit"} => conf.number <= mainTail.number + 1

SInv == NInv /\ LinksGoBack /\ StateInv

LEMMA LinksGoBackStep ==
  ASSUME IInv, LinksGoBack, [Next]_vars
  PROVE  LinksGoBack'
  <1> SUFFICES ASSUME NEW S \in SUBSET Blocks, S # {}, \A x \in S : HasInfo(x)'
               PROVE  \E x \in S : \A y \in S : x \notin Range(Links[y])
    BY DEF LinksGoBack
  <1>1. CASE \A x \in S : HasInfo(x)
    BY <1>1 DEF LinksGoBack
  <1>2. CASE \E x \in S : ~HasInfo(x)
    <2>1. PICK b \in S : ~HasInfo(b)
      BY <1>2
    <2>2. PICK w \in Workers : SaveInfo(w) /\ blk[w] = b
      BY <2>1, NewRecord
    <2>3. /\ \A h \in Range(Links[b]) : HasInfo(h)
          /\ info' = [info EXCEPT ![b] = ComputeCumulativeDiff(b)]
      BY <2>2 DEF SaveInfo, IInv, WorkersInv
    <2>4. \A y \in S : y # b => HasInfo(y)
      <3> SUFFICES ASSUME NEW y \in S, y # b PROVE HasInfo(y)
        OBVIOUS
      <3>1. info'[y] = info[y]
        BY <2>3 DEF IInv, TypeOK
      <3>2. HasInfo(y)'
        OBVIOUS
      <3> QED
        BY <3>1, <3>2 DEF HasInfo
    <2>5. \A y \in S : \A h \in Range(Links[y]) : HasInfo(h)
      BY <2>3, <2>4 DEF IInv, GraphInv, LinksHaveInfo
    <2> QED
      BY <2>1, <2>5
  <1> QED
    BY <1>1, <1>2

LEMMA FirstMainKept ==
  ASSUME NEW a, NEW N, FirstMain(a, N),
         \A x \in Blocks : /\ info'[x].confirm = info[x].confirm
                           /\ info'[x].number = info[x].number
                           /\ info'[x].main = info[x].main
  PROVE  FirstMain(a, N)'
  BY DEF FirstMain

(* The recursion's stack, frame by frame. *)
LEMMA StackShape ==
  ASSUME ConfInv, conf.stack # << >>
  PROVE  \E n \in Nat \ {0} :
           /\ n = Len(conf.stack) /\ Top = conf.stack[n] /\ DOMAIN conf.stack = 1 .. n
           /\ n \in 1 .. n /\ n + 1 \notin 1 .. n
           /\ \A i \in 1 .. n : /\ conf.stack[i].blk \in Blocks
                                /\ conf.stack[i].next \in Nat \ {0}
           /\ DOMAIN Advance = 1 .. n
           /\ \A i \in 1 .. n : Advance[i].blk = conf.stack[i].blk
           /\ \A i \in 1 .. n : i # n => Advance[i].next = conf.stack[i].next
           /\ Advance[n].next = conf.stack[n].next + 1
           /\ \A h \in Blocks :
                /\ DOMAIN Descend(h) = 1 .. (n + 1)
                /\ \A i \in 1 .. n : Descend(h)[i] = Advance[i]
                /\ Descend(h)[n + 1].blk = h /\ Descend(h)[n + 1].next = 1
           /\ DOMAIN Pop(conf.stack) = 1 .. (n - 1)
           /\ \A i \in 1 .. (n - 1) : /\ i \in 1 .. n /\ i < n
                                      /\ Pop(conf.stack)[i] = conf.stack[i]
  <1> PICK s : s = conf.stack
    OBVIOUS
  <1>1. s \in Seq(Frame) /\ s # << >>
    BY DEF ConfInv, ConfSound, Conf
  <1> PICK n \in Nat \ {0} : n = Len(s)
    BY <1>1
  <1>2. DOMAIN s = 1 .. n
    BY <1>1
  <1>3. \A i \in 1 .. n : s[i] \in Frame
    BY <1>1, <1>2
  <1>4. \A f \in Frame : f.blk \in Blocks /\ f.next \in Nat \ {0}
    BY DEF Frame
  <1>5. n \in 1 .. n /\ n + 1 \notin 1 .. n /\ \A i \in 1 .. (n - 1) : i \in 1 .. n /\ i < n
    OBVIOUS
  <1>6. Top = s[n]
    BY DEF Top
  <1>7. Advance = [s EXCEPT ![n].next = @ + 1]
    BY DEF Advance
  <1>8. /\ DOMAIN Advance = 1 .. n /\ Len(Advance) = n /\ Advance \in Seq(Frame)
        /\ \A i \in 1 .. n : i # n => Advance[i] = s[i]
        /\ Advance[n] = [s[n] EXCEPT !.next = @ + 1]
    <2>1. Advance \in Seq(Frame)
      BY StackFacts
    <2>2. DOMAIN Advance = 1 .. n
      BY <1>2, <1>7
    <2> QED
      BY <1>2, <1>5, <1>7, <2>1, <2>2
  <1>9. Advance[n].blk = s[n].blk /\ Advance[n].next = s[n].next + 1
    BY <1>3, <1>5, <1>8 DEF Frame
  <1>10. ASSUME NEW h \in Blocks
         PROVE  /\ DOMAIN Descend(h) = 1 .. (n + 1)
                /\ \A i \in 1 .. n : Descend(h)[i] = Advance[i]
                /\ Descend(h)[n + 1].blk = h /\ Descend(h)[n + 1].next = 1
    <2>1. Descend(h) = Append(Advance, [blk |-> h, next |-> 1])
      BY DEF Descend, Advance
    <2>2. [blk |-> h, next |-> 1] \in Frame
      BY DEF Frame
    <2>3. /\ DOMAIN Descend(h) = 1 .. (n + 1)
          /\ \A i \in 1 .. n : Descend(h)[i] = Advance[i]
          /\ Descend(h)[n + 1] = [blk |-> h, next |-> 1]
      BY <1>8, <2>1, <2>2
    <2> QED
      BY <2>3
  <1>11. /\ DOMAIN Pop(s) = 1 .. (n - 1)
         /\ \A i \in 1 .. (n - 1) : Pop(s)[i] = s[i]
    BY <1>1, <1>5 DEF Pop
  <1>12. \A i \in 1 .. n : Advance[i].blk = s[i].blk
    BY <1>8, <1>9
  <1> WITNESS n \in Nat \ {0}
  <1>13. \A i \in 1 .. n : s[i].blk \in Blocks /\ s[i].next \in Nat \ {0}
    BY <1>3, <1>4
  <1> QED
    BY <1>2, <1>5, <1>6, <1>8, <1>9, <1>10, <1>11, <1>12, <1>13

LEMMA StateQuiet ==
  ASSUME StateInv, UNCHANGED <<conf, mainTail, mainBlock>>,
         \A x \in Blocks : /\ info'[x].confirm = info[x].confirm
                           /\ info'[x].number = info[x].number
                           /\ info'[x].main = info[x].main,
         \A i \in DOMAIN conf.stack : conf.stack[i].blk \in Blocks
  PROVE  StateInv'
  <1>1. \A a, N : FirstMain(a, N) => FirstMain(a, N)'
    BY FirstMainKept
  <1>2. \A p \in Blocks : Range(Links[p]) \subseteq Blocks
    BY BlocksAssumption DEF Range
  <1>3. \A p \in Blocks : \A j \in DOMAIN Links[p] : Links[p][j] \in Blocks
    BY BlocksAssumption
  <1>4. Unwinding => Unwinding'
    <2>1. FirstMain(conf.at, conf.number) => FirstMain(conf.at, conf.number)'
      BY <1>1 DEF FirstMain
    <2> QED
      BY <2>1 DEF Unwinding, Remains
  <1>5. Visiting => Visiting'
    <2>1. FirstMain(None, conf.number) => FirstMain(None, conf.number)'
      BY <1>1 DEF FirstMain
    <2> QED
      BY <1>2, <1>3, <2>1 DEF Visiting
  <1> QED
    BY <1>1, <1>4, <1>5 DEF StateInv, StateOfMainBlock, OnTop

LEMMA MainIs ==
  ASSUME NEW K \in Nat, NEW k \in 0 .. K, NEW j \in Int, Index(K), Mains(k, j),
         NEW b \in Blocks, info[b].main
  PROVE  \E n \in 0 .. k : /\ n \in 0 .. K /\ b = mainBlock[n].hash
                           /\ n <= j => info[b].number = n
  <1>1. PICK n \in 0 .. k : b = mainBlock[n].hash
    BY DEF Mains
  <1>2. n \in 0 .. K
    OBVIOUS
  <1>3. n <= j => info[b].number = n
    BY <1>1 DEF Mains
  <1> QED
    BY <1>1, <1>2, <1>3

LEMMA MainEarlier ==
  ASSUME LinksInOrder, NEW K \in Nat, Index(K), NEW m \in 0 .. K, NEW n \in 0 .. K,
         mainBlock[m].hash \in Ancestors[mainBlock[n].hash]
  PROVE  m <= n
  <1>1. mainBlock[m].hash \in Blocks /\ mainBlock[n].hash \in Blocks
    BY DEF Index
  <1>2. Slice[mainBlock[m].hash] <= Slice[mainBlock[n].hash]
    BY <1>1, AncestorsEarlier
  <1>3. n < m => Slice[mainBlock[n].hash] < Slice[mainBlock[m].hash]
    BY DEF Index
  <1>4. Slice[mainBlock[m].hash] \in Nat /\ Slice[mainBlock[n].hash] \in Nat
    BY <1>1, BlocksAssumption
  <1> QED
    BY <1>2, <1>3, <1>4

LEMMA FirstMainRead ==
  ASSUME FirstMain(None, -1), UNCHANGED info
  PROVE  FirstMain(None, -1)'
  BY DEF FirstMain

LEMMA LinkIndex ==
  ASSUME NEW p \in Blocks, NEW j \in DOMAIN Links[p]
  PROVE  /\ Links[p][j] \in Blocks /\ Links[p][j] \in Range(Links[p])
         /\ j \in Nat /\ 1 <= j /\ j <= Len(Links[p]) /\ Len(Links[p]) \in Nat
  <1> PICK s \in Seq(Blocks) : s = Links[p]
    BY BlocksAssumption
  <1>1. j \in DOMAIN s /\ DOMAIN s = 1 .. Len(s) /\ Len(s) \in Nat
    OBVIOUS
  <1>2. s[j] \in Blocks
    BY <1>1
  <1> QED
    BY <1>1, <1>2 DEF Range

(* A call of the recursion looks at a link: it goes on, or calls itself on h. *)
LEMMA LinkStack ==
  ASSUME ConfInv, conf.stack # << >>, NEW h \in Blocks, NEW t, NEW go \in BOOLEAN,
         t = IF go THEN Advance ELSE Descend(h)
  PROVE  \E n \in Nat \ {0} :
           /\ Top = conf.stack[n] /\ DOMAIN conf.stack = 1 .. n /\ n \in 1 .. n
           /\ \A i \in 1 .. n : /\ i \in DOMAIN t /\ t[i].blk = conf.stack[i].blk
                                /\ conf.stack[i].blk \in Blocks
                                /\ conf.stack[i].next \in Nat \ {0}
                                /\ i # n => t[i].next = conf.stack[i].next
                                /\ i = n => t[i].next = conf.stack[i].next + 1
           /\ \A i \in DOMAIN t : i \in 1 .. n \/ (~go /\ t[i].blk = h /\ t[i].next = 1)
           /\ ~go => \E k \in DOMAIN t : t[k].blk = h /\ n < k
  <1>1. PICK n \in Nat \ {0} :
           /\ n = Len(conf.stack) /\ Top = conf.stack[n] /\ DOMAIN conf.stack = 1 .. n
           /\ n \in 1 .. n /\ n + 1 \notin 1 .. n
           /\ \A i \in 1 .. n : /\ conf.stack[i].blk \in Blocks
                                /\ conf.stack[i].next \in Nat \ {0}
           /\ DOMAIN Advance = 1 .. n
           /\ \A i \in 1 .. n : Advance[i].blk = conf.stack[i].blk
           /\ \A i \in 1 .. n : i # n => Advance[i].next = conf.stack[i].next
           /\ Advance[n].next = conf.stack[n].next + 1
           /\ DOMAIN Descend(h) = 1 .. (n + 1)
           /\ \A i \in 1 .. n : Descend(h)[i] = Advance[i]
           /\ Descend(h)[n + 1].blk = h /\ Descend(h)[n + 1].next = 1
    BY StackShape
  <1>2. /\ \A i \in 1 .. (n + 1) : i \in 1 .. n \/ i = n + 1
        /\ \A i \in 1 .. n : i \in 1 .. (n + 1)
        /\ n < n + 1
        /\ n + 1 \in 1 .. (n + 1)
    OBVIOUS
  <1>3. /\ \A i \in 1 .. n : i \in DOMAIN t /\ t[i] = Advance[i]
        /\ go => DOMAIN t = 1 .. n
        /\ ~go => DOMAIN t = 1 .. (n + 1) /\ t[n + 1].blk = h /\ t[n + 1].next = 1
    BY <1>1, <1>2
  <1>4. \A i \in DOMAIN t : i \in 1 .. n \/ (~go /\ t[i].blk = h /\ t[i].next = 1)
    BY <1>2, <1>3
  <1>5. ~go => \E k \in DOMAIN t : t[k].blk = h /\ n < k
    BY <1>2, <1>3
  <1>6. \A i \in 1 .. n : /\ t[i].blk = conf.stack[i].blk
                          /\ i # n => t[i].next = conf.stack[i].next
                          /\ i = n => t[i].next = conf.stack[i].next + 1
    BY <1>1, <1>3
  <1> WITNESS n \in Nat \ {0}
  <1> QED
    BY <1>1, <1>3, <1>4, <1>5, <1>6

LEMMA FirstMainCovers ==
  ASSUME NEW N, FirstMain(None, N), NEW b \in Blocks, info[b].main, NEW x \in Ancestors[b]
  PROVE  x \in Blocks /\ info[x].confirm /\ info[x].number <= info[b].number
  <1>1. x \in Blocks /\ b \in Blocks \ {None}
    BY AncestorsClosed, BlocksAssumption
  <1> QED
    BY <1>1 DEF FirstMain

(* The walk and the choice of the locator move nothing. *)
LEMMA FindState ==
  ASSUME SInv, ConfirmBegin \/ FindStep
  PROVE  StateInv'
  <1>0. /\ UNCHANGED <<info, mainTail, mainBlock>> /\ conf \in Conf
        /\ conf.step \in {"idle", "find"} /\ FirstMain(None, -1) /\ StateOfMainBlock
        /\ conf.step = "find" => conf.number = mainTail.number
        /\ mainTail.number \in Nat
    BY DEF ConfirmBegin, FindStep, SInv, NInv, NumberInv, FindNumbered, StateInv, IInv,
           ConfInv, ConfSound, TypeOK
  <1>1. FirstMain(None, -1)' /\ StateOfMainBlock'
    BY <1>0, FirstMainRead DEF StateOfMainBlock
  <1>2. /\ conf'.step \in {"idle", "find", "rollback", "load"}
        /\ conf'.step = "load" => conf'.number = mainTail.number
    <2>1. CASE ConfirmBegin
      BY <2>1 DEF ConfirmBegin, IdleConf
    <2>2. CASE FindStep
      <3>1. conf.step = "find"
        BY <2>2 DEF FindStep
      <3>2. \/ conf' = IdleConf
            \/ \E b : conf' = [conf EXCEPT !.step = "rollback", !.locator = b,
                                           !.at = mainTail.hash]
            \/ \E b : conf' = AfterRollback([conf EXCEPT !.locator = b])
            \/ \E c, l, a, m : conf' = [conf EXCEPT !.can = c, !.list = l, !.applied = a,
                                                    !.at = m]
        BY <2>2 DEF FindStep
      <3>3. CASE conf' = IdleConf
        BY <3>3 DEF IdleConf
      <3>4. ASSUME NEW b, conf' = AfterRollback([conf EXCEPT !.locator = b])
            PROVE  \/ conf'.step = "idle"
                   \/ conf'.step = "load" /\ conf'.number = conf.number
        <4> PICK c : c = [conf EXCEPT !.locator = b]
          OBVIOUS
        <4>1. DOMAIN c = DOMAIN conf /\ c.number = conf.number
          BY <1>0 DEF Conf
        <4>2. conf' = IdleConf \/ conf' = [c EXCEPT !.step = "load", !.at = None]
          BY <3>4 DEF AfterRollback
        <4>3. CASE conf' = IdleConf
          BY <4>3 DEF IdleConf
        <4>4. CASE conf' = [c EXCEPT !.step = "load", !.at = None]
          BY <1>0, <4>1, <4>4 DEF Conf
        <4> QED
          BY <4>2, <4>3, <4>4
      <3> QED
        BY <1>0, <3>1, <3>2, <3>3, <3>4 DEF Conf
    <2> QED
      BY <2>1, <2>2
  <1> QED
    BY <1>0, <1>1, <1>2 DEF StateInv

(* RollBackStatus starts on a main block, or on one that is already rolled back. *)
LEMMA RollbackState ==
  ASSUME LinksInOrder, SInv, RollbackNext
  PROVE  StateInv'
  <1>0. /\ conf.step = "rollback" /\ UNCHANGED <<info, mainTail, mainBlock>>
        /\ conf \in Conf /\ TypeOK /\ RollbackNumbered /\ NInv
        /\ FirstMain(None, -1) /\ StateOfMainBlock
    BY DEF RollbackNext, ConfUnchanged, SInv, StateInv, NInv, NumberInv, IInv, TypeOK,
           ConfInv, ConfSound
  <1> PICK N \in Nat, T \in Nat : N = conf.number /\ T = mainTail.number
    BY <1>0 DEF Conf, TypeOK
  <1>1. PICK k \in 0 .. N : Mains(k, k)
    BY <1>0 DEF RollbackNumbered
  <1>2. Index(T) /\ N <= T /\ N \in 0 .. T /\ k \in 0 .. T /\ k \in Int
    BY <1>0 DEF RollbackNumbered, TailIndexed
  <1>3. PICK a \in Blocks : a = conf.at /\ a = mainBlock[N].hash
    BY <1>0, <1>2 DEF RollbackNumbered, Index
  <1>4. FirstMain(None, -1)' /\ StateOfMainBlock'
    BY <1>0, FirstMainRead DEF StateOfMainBlock
  <1>5. \A x \in Blocks : info[x].number \in Nat
    BY <1>0 DEF TypeOK, Info
  <1>6. CASE conf' = IdleConf \/ conf' = AfterRollback(conf)
    <2>1. \/ conf'.step = "idle"
          \/ conf'.step = "load" /\ conf'.number = N
      <3>1. \/ conf' = IdleConf
            \/ conf' = [conf EXCEPT !.step = "load", !.at = None]
        BY <1>6 DEF AfterRollback
      <3>2. CASE conf' = IdleConf
        BY <3>2 DEF IdleConf
      <3>3. CASE conf' = [conf EXCEPT !.step = "load", !.at = None]
        BY <1>0, <3>3 DEF Conf
      <3> QED
        BY <3>1, <3>2, <3>3
    <2> QED
      BY <1>0, <1>2, <1>4, <2>1 DEF StateInv
  <1>7. CASE conf' = [conf EXCEPT !.step = "unwind",
                                  !.stack = <<[blk |-> conf.at, next |-> 1]>>]
    <2>1. /\ conf'.step = "unwind" /\ conf'.number = N /\ conf'.at = a
          /\ conf'.stack = <<[blk |-> a, next |-> 1]>>
      BY <1>0, <1>3, <1>7 DEF Conf
    <2>2. DOMAIN conf'.stack = {1} /\ conf'.stack[1].blk = a /\ conf'.stack[1].next = 1
      BY <2>1
    <2>3. ASSUME NEW x \in Blocks, info[x].confirm
          PROVE  \E b \in Blocks : \E n \in 0 .. k :
                   /\ info[b].main /\ x \in Ancestors[b] /\ info[b].number = info[x].number
                   /\ b = mainBlock[n].hash /\ info[x].number = n /\ n \in 0 .. T
      <3>1. info[x].number # -1
        BY <1>5
      <3>2. PICK b \in Blocks : /\ info[b].main /\ x \in Ancestors[b]
                                /\ info[b].number = info[x].number
        BY <1>0, <2>3, <3>1 DEF FirstMain
      <3>3. PICK n \in 0 .. k : /\ n \in 0 .. T /\ b = mainBlock[n].hash
                                /\ n <= k => info[b].number = n
        BY <1>1, <1>2, <3>2, MainIs
      <3> QED
        BY <3>2, <3>3
    <2>4. ASSUME NEW x \in Blocks, info[x].confirm PROVE info[x].number <= N
      BY <2>3, <2>4
    <2>5. ASSUME NEW x \in Blocks, info[x].confirm, info[x].number # N
          PROVE  \E b \in Blocks \ {a} : /\ info[b].main /\ x \in Ancestors[b]
                                         /\ info[b].number = info[x].number
      <3>1. PICK b \in Blocks, n \in 0 .. k :
                   /\ info[b].main /\ x \in Ancestors[b] /\ info[b].number = info[x].number
                   /\ b = mainBlock[n].hash /\ info[x].number = n /\ n \in 0 .. T
        BY <2>3, <2>5
      <3>2. b # a
        <4> SUFFICES ASSUME b = a PROVE FALSE
          OBVIOUS
        <4>1. mainBlock[n].hash = mainBlock[N].hash
          BY <1>3, <3>1
        <4>2. n = N
          BY <1>2, <3>1, <4>1, IndexDistinct
        <4> QED
          BY <2>5, <3>1, <4>2
      <3> QED
        BY <3>1, <3>2
    <2>6. FirstMain(conf.at, conf.number)'
      <3>1. \A x \in Blocks : ~info[x].confirm => info[x].number = 0
        BY <1>0 DEF FirstMain
      <3>2. \A x \in Blocks : \A b \in Blocks \ {a} : info[b].main /\ x \in Ancestors[b] =>
               info[x].confirm /\ info[x].number <= info[b].number
        BY <1>0, BlocksAssumption DEF FirstMain
      <3> QED
        BY <1>0, <2>1, <2>5, <3>1, <3>2 DEF FirstMain
    <2>7. info[a].confirm => info[a].number >= N
      <3> SUFFICES ASSUME info[a].confirm PROVE info[a].number >= N
        OBVIOUS
      <3>1. PICK n \in 0 .. k : /\ mainBlock[N].hash \in Ancestors[mainBlock[n].hash]
                                /\ info[a].number = n /\ n \in 0 .. T
        BY <1>3, <2>3
      <3>2. N <= n
        BY <1>2, <3>1, MainEarlier
      <3> QED
        BY <3>1, <3>2
    <2>8. ASSUME NEW x \in Blocks, Remains(x, N), x # a
          PROVE  \E p \in Blocks : Remains(p, N) /\ \E j \in DOMAIN Links[p] : Links[p][j] = x
      <3>1. PICK b \in Blocks, n \in 0 .. k :
                   /\ info[b].main /\ x \in Ancestors[b] /\ info[b].number = info[x].number
                   /\ b = mainBlock[n].hash /\ info[x].number = n /\ n \in 0 .. T
        BY <2>3, <2>8 DEF Remains
      <3>2. b = a /\ info[a].main /\ info[a].number = N
        BY <1>3, <2>8, <3>1 DEF Remains
      <3>3. PICK p \in Ancestors[a] : x \in Range(Links[p])
        BY <2>8, <3>1, <3>2, AncestorsParent
      <3>4. p \in Blocks
        BY <3>3, AncestorsClosed
      <3>5. info[p].confirm /\ info[p].number <= N
        BY <1>0, <3>2, <3>3, <3>4, FirstMainCovers
      <3>6. info[p].number = N
        <4> SUFFICES ASSUME info[p].number # N PROVE FALSE
          OBVIOUS
        <4>1. PICK c \in Blocks \ {a} : /\ info[c].main /\ p \in Ancestors[c]
                                        /\ info[c].number = info[p].number
          BY <2>5, <3>4, <3>5
        <4>2. x \in Ancestors[c]
          BY <3>3, <4>1, AncestorsClosed
        <4>3. info[x].number <= info[c].number
          BY <1>0, <4>1, <4>2, FirstMainCovers
        <4> QED
          BY <1>5, <2>8, <3>4, <3>5, <4>1, <4>3 DEF Remains
      <3> QED
        BY <3>3, <3>4, <3>5, <3>6 DEF Remains, Range
    <2>9. Unwinding'
      <3>1. \A p \in Blocks : \A j \in DOMAIN Links[p] : j >= 1
        BY BlocksAssumption
      <3>2. \A x \in Blocks : Remains(x, N)' <=> Remains(x, N)
        BY <1>0 DEF Remains
      <3> QED
        BY <1>0, <2>1, <2>2, <2>4, <2>6, <2>7, <2>8, <3>1, <3>2 DEF Unwinding, Remains
    <2> QED
      BY <1>4, <2>1, <2>9 DEF StateInv
  <1> QED
    BY <1>6, <1>7 DEF RollbackNext

LEMMA UnwindLinkState ==
  ASSUME SInv, UnwindLink
  PROVE  StateInv'
  <1>0. /\ conf.step = "unwind" /\ UNCHANGED <<info, mainTail, mainBlock>>
        /\ conf \in Conf /\ TypeOK /\ ConfInv /\ IInv /\ StateOfMainBlock /\ Unwinding
        /\ conf.stack # << >> /\ Top.next <= Len(Links[Top.blk])
    BY DEF UnwindLink, ConfUnchanged, SInv, StateInv, NInv, IInv, ConfInv, ConfSound
  <1>n. PICK N \in Nat : N = conf.number
    BY <1>0 DEF Conf
  <1>h. PICK h \in Blocks : h = Links[Top.blk][Top.next]
    BY <1>0, TopLink
  <1>go. PICK go \in BOOLEAN : go <=> info[h].number < N
    OBVIOUS
  <1>t. PICK t : /\ t = IF go THEN Advance ELSE Descend(h)
                 /\ conf' = [conf EXCEPT !.stack = t]
    BY <1>n, <1>h, <1>go DEF UnwindLink
  <1>1. /\ conf'.step = "unwind" /\ conf'.number = N /\ conf'.at = conf.at
        /\ conf'.stack = t
    BY <1>0, <1>n, <1>t DEF Conf
  <1>s. PICK n \in Nat \ {0} :
           /\ Top = conf.stack[n] /\ DOMAIN conf.stack = 1 .. n /\ n \in 1 .. n
           /\ \A i \in 1 .. n : /\ i \in DOMAIN t /\ t[i].blk = conf.stack[i].blk
                                /\ conf.stack[i].blk \in Blocks
                                /\ conf.stack[i].next \in Nat \ {0}
                                /\ i # n => t[i].next = conf.stack[i].next
                                /\ i = n => t[i].next = conf.stack[i].next + 1
           /\ \A i \in DOMAIN t : i \in 1 .. n \/ (~go /\ t[i].blk = h /\ t[i].next = 1)
           /\ ~go => \E k \in DOMAIN t : t[k].blk = h /\ n < k
    <2>1. ConfInv /\ conf.stack # << >> /\ t = IF go THEN Advance ELSE Descend(h)
      BY <1>0, <1>t
    <2> QED
      BY <2>1, LinkStack
  <1>2. FirstMain(conf.at, conf.number)'
    <2>1. FirstMain(conf.at, conf.number)
      BY <1>0 DEF Unwinding
    <2>2. conf'.number = conf.number
      BY <1>1, <1>n
    <2> QED
      BY <1>0, <1>1, <2>1, <2>2 DEF FirstMain
  <1>3. \A x \in Blocks : info[x].number \in Nat
    BY <1>0 DEF TypeOK, Info
  <1>7. ASSUME NEW i \in DOMAIN t, info[t[i].blk].confirm PROVE info[t[i].blk].number >= N
    <2>1. CASE i \in 1 .. n
      <3>1. t[i].blk = conf.stack[i].blk /\ i \in DOMAIN conf.stack
        BY <1>s, <2>1
      <3> QED
        BY <1>0, <1>n, <1>7, <3>1 DEF Unwinding
    <2>2. CASE t[i].blk = h /\ ~go
      BY <1>3, <1>go, <2>2
    <2> QED
      BY <1>s, <2>1, <2>2
  <1>8. ASSUME NEW x \in Blocks, Remains(x, N), ~\E i \in DOMAIN t : t[i].blk = x
        PROVE  \E p \in Blocks : Remains(p, N) /\ \E j \in DOMAIN Links[p] :
                    /\ Links[p][j] = x
                    /\ \A i \in DOMAIN t : t[i].blk = p => t[i].next <= j
    <2>1. x # h
      <3>1. info[x].number = N
        BY <1>8 DEF Remains
      <3>2. go => info[h].number # N
        BY <1>3, <1>go
      <3> QED
        BY <1>8, <1>s, <3>1, <3>2
    <2>2. ~\E i \in DOMAIN conf.stack : conf.stack[i].blk = x
      BY <1>8, <1>s
    <2>3. PICK p \in Blocks : Remains(p, N) /\ \E j \in DOMAIN Links[p] :
            /\ Links[p][j] = x
            /\ \A i \in DOMAIN conf.stack : conf.stack[i].blk = p => conf.stack[i].next <= j
      BY <1>0, <1>n, <1>8, <2>2 DEF Unwinding
    <2>4. PICK j \in DOMAIN Links[p] :
            /\ Links[p][j] = x
            /\ \A i \in DOMAIN conf.stack : conf.stack[i].blk = p => conf.stack[i].next <= j
      BY <2>3
    <2>5. j \in Nat /\ j >= 1
      BY LinkIndex
    <2>6. ASSUME NEW i \in DOMAIN t, t[i].blk = p PROVE t[i].next <= j
      <3>1. CASE i \in 1 .. n /\ i # n
        BY <1>s, <2>4, <2>6, <3>1
      <3>2. CASE i = n
        <4>1. conf.stack[n].blk = p /\ conf.stack[n].next <= j
          BY <1>s, <2>4, <2>6, <3>2
        <4>2. conf.stack[n].next # j
          BY <1>s, <1>h, <2>1, <2>4, <4>1
        <4>3. t[i].next = conf.stack[n].next + 1 /\ conf.stack[n].next \in Nat
          BY <1>s, <3>2
        <4> QED
          BY <2>5, <4>1, <4>2, <4>3
      <3>3. CASE i \notin 1 .. n
        <4>1. t[i].next = 1
          BY <1>s, <3>3
        <4> QED
          BY <2>5, <4>1
      <3> QED
        BY <3>1, <3>2, <3>3
    <2> QED
      BY <2>3, <2>4, <2>6
  <1>9. Unwinding'
    <2>1. \A x \in Blocks : Remains(x, conf.number)' <=> Remains(x, N)
      BY <1>0, <1>1 DEF Remains
    <2>2. \A x \in Blocks : info'[x].confirm => info'[x].number <= conf'.number
      BY <1>0, <1>1, <1>n DEF Unwinding
    <2>3. \A i \in DOMAIN conf'.stack :
            info'[conf'.stack[i].blk].confirm => info'[conf'.stack[i].blk].number >= conf'.number
      BY <1>0, <1>1, <1>7
    <2>4. \A x \in Blocks : Remains(x, conf.number)' =>
            \/ \E i \in DOMAIN conf'.stack : conf'.stack[i].blk = x
            \/ \E p \in Blocks : Remains(p, conf.number)' /\ \E j \in DOMAIN Links[p] :
                 /\ Links[p][j] = x
                 /\ \A i \in DOMAIN conf'.stack : conf'.stack[i].blk = p => conf'.stack[i].next <= j
      BY <1>1, <1>8, <2>1
    <2> QED
      BY <1>2, <2>2, <2>3, <2>4 DEF Unwinding
  <1> QED
    BY <1>0, <1>1, <1>9 DEF StateInv, StateOfMainBlock

(* The end of a call of RollBackStatus takes one block out of what remains; the   *)
(* last one leaves nothing.                                                   *)
LEMMA UnwindBlockState ==
  ASSUME SInv, UnwindBlock
  PROVE  StateInv'
  <1>0. /\ conf.step = "unwind" /\ UNCHANGED <<mainTail, mainBlock>>
        /\ conf \in Conf /\ TypeOK /\ UnwindNumbered /\ ConfInv /\ IInv
        /\ StateOfMainBlock /\ Unwinding /\ LinksGoBack
        /\ conf.stack # << >> /\ info \in [Blocks -> Info] /\ Top.next > Len(Links[Top.blk])
    BY DEF UnwindBlock, ConfUnchanged, SInv, StateInv, NInv, NumberInv, IInv, TypeOK,
           ConfInv, ConfSound
  <1>n. PICK N \in Nat, T \in Nat : N = conf.number /\ T = mainTail.number
    BY <1>0 DEF Conf, TypeOK
  <1>1. PICK a : /\ a = conf.at /\ Index(T) /\ 0 < N /\ N <= T
                 /\ a = mainBlock[N].hash /\ conf.stack[1].blk = a
    BY <1>0, <1>n DEF UnwindNumbered, TailIndexed
  <1>2. PICK k \in 0 .. N :
          /\ Mains(k, N - 1)
          /\ \A m \in 0 .. k, i \in DOMAIN conf.stack :
               m < N => conf.stack[i].blk # mainBlock[m].hash
    BY <1>0, <1>n DEF UnwindNumbered
  <1>s. PICK n \in Nat \ {0} :
           /\ n = Len(conf.stack) /\ Top = conf.stack[n] /\ DOMAIN conf.stack = 1 .. n
           /\ n \in 1 .. n
           /\ \A i \in 1 .. n : /\ conf.stack[i].blk \in Blocks
                                /\ conf.stack[i].next \in Nat \ {0}
           /\ DOMAIN Pop(conf.stack) = 1 .. (n - 1)
           /\ \A i \in 1 .. (n - 1) : /\ i \in 1 .. n /\ i < n
                                      /\ Pop(conf.stack)[i] = conf.stack[i]
    BY <1>0, StackShape
  <1>b. PICK b \in Blocks : b = Top.blk
    BY <1>s
  <1>3. /\ ~info'[b].confirm /\ info'[b].number = 0
        /\ info'[b].main = IF n = 1 THEN FALSE ELSE info[b].main
        /\ \A x \in Blocks : x # b => info'[x] = info[x]
    <2>1. info' = [info EXCEPT ![b] = RolledBack(info[b], n = 1)]
      BY <1>s, <1>b DEF UnwindBlock
    <2>2. info'[b] = RolledBack(info[b], n = 1) /\ info[b] \in Info
      BY <1>0, <2>1
    <2>3. \A x \in Blocks : x # b => info'[x] = info[x]
      BY <1>0, <2>1
    <2> QED
      BY <2>2, <2>3 DEF RolledBack, Info
  <1>4. \A x \in Blocks : info[x].number \in Nat
    BY <1>0 DEF Info
  <1>5. ASSUME NEW c \in Blocks \ {a}, info[c].main
        PROVE  c # b /\ b \notin Ancestors[c] /\ info'[c] = info[c] /\ info[c].number < N
    <2>1. k \in 0 .. T /\ N - 1 \in Int /\ c \in Blocks
      BY <1>1
    <2>1a. Index(T) /\ Mains(k, N - 1)
      BY <1>1, <1>2
    <2>2. PICK m \in 0 .. k : /\ m \in 0 .. T /\ c = mainBlock[m].hash
                              /\ m <= N - 1 => info[c].number = m
      BY <1>5, <2>1, <2>1a, MainIs
    <2>3. m # N
      BY <1>1, <2>2
    <2>4. m < N /\ info[c].number = m
      BY <2>2, <2>3
    <2>5. c # b
      BY <1>2, <1>s, <1>b, <2>2, <2>4
    <2>6. b \notin Ancestors[c]
      <3> SUFFICES ASSUME b \in Ancestors[c] PROVE FALSE
        OBVIOUS
      <3>1. info[b].confirm /\ info[b].number <= info[c].number
        BY <1>0, <1>1, <1>5 DEF Unwinding, FirstMain
      <3>2. info[b].number >= N
        BY <1>0, <1>n, <1>s, <1>b, <3>1 DEF Unwinding
      <3> QED
        BY <1>4, <2>4, <3>1, <3>2
    <2> QED
      BY <1>3, <2>4, <2>5, <2>6
  <1>6. \A x \in Blocks : ~info'[x].confirm => info'[x].number = 0
    BY <1>0, <1>3 DEF Unwinding, FirstMain
  <1>7. ASSUME NEW x \in Blocks, info'[x].confirm, info'[x].number # N
        PROVE  \E c \in Blocks \ {a} : /\ info'[c].main /\ x \in Ancestors[c]
                                       /\ info'[c].number = info'[x].number
    <2>1. x # b /\ info'[x] = info[x]
      BY <1>3, <1>7
    <2>2. PICK c \in Blocks \ {a} : /\ info[c].main /\ x \in Ancestors[c]
                                    /\ info[c].number = info[x].number
      BY <1>0, <1>n, <1>1, <1>7, <2>1 DEF Unwinding, FirstMain
    <2> QED
      BY <1>5, <2>1, <2>2
  <1>8. ASSUME NEW x \in Blocks, NEW c \in Blocks \ {a}, info'[c].main, x \in Ancestors[c]
        PROVE  info'[x].confirm /\ info'[x].number <= info'[c].number
    <2>1. info[c].main
      BY <1>3, <1>8
    <2>2. x # b /\ info'[c] = info[c]
      BY <1>5, <1>8, <2>1
    <2>3. info[x].confirm /\ info[x].number <= info[c].number
      BY <1>0, <1>1, <1>8, <2>1 DEF Unwinding, FirstMain
    <2> QED
      BY <1>3, <2>2, <2>3
  <1>9. \A x \in Blocks : Remains(x, N)' <=> x # b /\ Remains(x, N)
    <2>1. ~Remains(b, N)'
      BY <1>3 DEF Remains
    <2> QED
      BY <1>3, <2>1 DEF Remains
  <1>10. ASSUME NEW x \in Blocks, Remains(x, N)'
         PROVE  \/ \E i \in DOMAIN Pop(conf.stack) : Pop(conf.stack)[i].blk = x
                \/ \E p \in Blocks : Remains(p, N)' /\ \E j \in DOMAIN Links[p] :
                     /\ Links[p][j] = x
                     /\ \A i \in DOMAIN Pop(conf.stack) :
                          Pop(conf.stack)[i].blk = p => Pop(conf.stack)[i].next <= j
    <2>1. x # b /\ Remains(x, N)
      BY <1>9, <1>10
    <2>2. CASE \E i \in DOMAIN conf.stack : conf.stack[i].blk = x
      <3>1. PICK i \in 1 .. n : conf.stack[i].blk = x
        BY <1>s, <2>2
      <3>2. i # n
        BY <1>s, <1>b, <2>1, <3>1
      <3>3. i \in 1 .. (n - 1)
        BY <3>2
      <3> QED
        BY <1>s, <3>1, <3>3
    <2>3. CASE ~\E i \in DOMAIN conf.stack : conf.stack[i].blk = x
      <3>1. PICK p \in Blocks : Remains(p, N) /\ \E j \in DOMAIN Links[p] :
              /\ Links[p][j] = x
              /\ \A i \in DOMAIN conf.stack : conf.stack[i].blk = p => conf.stack[i].next <= j
        BY <1>0, <1>n, <2>1, <2>3 DEF Unwinding
      <3>2. PICK j \in DOMAIN Links[p] :
              /\ Links[p][j] = x
              /\ \A i \in DOMAIN conf.stack : conf.stack[i].blk = p => conf.stack[i].next <= j
        BY <3>1
      <3>3. p # b
        <4> SUFFICES ASSUME p = b PROVE FALSE
          OBVIOUS
        <4>1. Top.next <= j /\ j \in DOMAIN Links[b] /\ Top.next \in Nat
          BY <1>s, <1>b, <3>2
        <4>2. j \in Nat /\ j <= Len(Links[b]) /\ Len(Links[b]) \in Nat
          BY <4>1, LinkIndex
        <4> QED
          BY <1>0, <1>b, <4>1, <4>2
      <3>4. Remains(p, N)'
        BY <1>9, <3>1, <3>3
      <3>5. \A i \in DOMAIN Pop(conf.stack) :
              Pop(conf.stack)[i].blk = p => Pop(conf.stack)[i].next <= j
        BY <1>s, <3>2
      <3> QED
        BY <3>2, <3>4, <3>5
    <2> QED
      BY <2>2, <2>3
  <1>11. CASE n # 1
    <2>1. conf' = [conf EXCEPT !.stack = Pop(conf.stack)]
      BY <1>s, <1>11 DEF UnwindBlock
    <2>2. /\ conf'.step = "unwind" /\ conf'.number = N /\ conf'.at = a
          /\ conf'.stack = Pop(conf.stack)
      BY <1>0, <1>n, <1>1, <2>1 DEF Conf
    <2>3. FirstMain(conf.at, conf.number)'
      BY <1>6, <1>7, <1>8, <2>2 DEF FirstMain
    <2>4. \A x \in Blocks : info'[x].confirm => info'[x].number <= N
      BY <1>0, <1>n, <1>3 DEF Unwinding
    <2>5. ASSUME NEW i \in 1 .. (n - 1), info'[conf.stack[i].blk].confirm
          PROVE  info'[conf.stack[i].blk].number >= N
      <3>1. info'[conf.stack[i].blk] = info[conf.stack[i].blk] /\ i \in DOMAIN conf.stack
        BY <1>3, <1>s, <2>5
      <3> QED
        BY <1>0, <1>n, <2>5, <3>1 DEF Unwinding
    <2>6. \A i \in DOMAIN conf'.stack :
            info'[conf'.stack[i].blk].confirm => info'[conf'.stack[i].blk].number >= conf'.number
      BY <1>s, <2>2, <2>5
    <2>7. \A x \in Blocks : Remains(x, conf.number)' <=> Remains(x, N)'
      BY <2>2 DEF Remains
    <2>8. \A x \in Blocks : Remains(x, conf.number)' =>
            \/ \E i \in DOMAIN conf'.stack : conf'.stack[i].blk = x
            \/ \E p \in Blocks : Remains(p, conf.number)' /\ \E j \in DOMAIN Links[p] :
                 /\ Links[p][j] = x
                 /\ \A i \in DOMAIN conf'.stack : conf'.stack[i].blk = p => conf'.stack[i].next <= j
      BY <1>10, <2>2, <2>7
    <2>9. Unwinding'
      BY <2>2, <2>3, <2>4, <2>6, <2>8 DEF Unwinding
    <2> QED
      BY <1>0, <2>2, <2>9 DEF StateInv, StateOfMainBlock
  <1>12. CASE n = 1
    <2>1. conf'.step = "rollback"
      BY <1>0, <1>s, <1>12 DEF UnwindBlock, Conf
    <2>2. b = a /\ 1 .. (n - 1) = {}
      BY <1>1, <1>s, <1>b, <1>12
    <2> DEFINE R == {x \in Blocks : Remains(x, N)'}
    <2>3. \A x \in R : \E p \in R : x \in Range(Links[p])
      BY <1>10, <1>s, <2>2 DEF Range
    <2>4. \A x \in R : HasInfo(x)
      <3>1. \A x \in Blocks : Remains(x, N) => HasInfo(x)
        BY DEF Remains, HasInfo, NoInfo
      <3> QED
        BY <1>9, <3>1
    <2>5. R = {}
      <3>1. R \in SUBSET Blocks
        OBVIOUS
      <3> HIDE DEF R
      <3> QED
        BY <1>0, <2>3, <2>4, <3>1 DEF LinksGoBack
    <2>6. \A x \in Blocks : info'[x].confirm => info'[x].number # N
      BY <2>5 DEF Remains
    <2>7. ~info'[a].main
      BY <1>3, <1>12, <2>2
    <2>8. FirstMain(None, -1)'
      <3>1. ASSUME NEW x \in Blocks, info'[x].confirm
            PROVE  \E c \in Blocks \ {None} : /\ info'[c].main /\ x \in Ancestors[c]
                                              /\ info'[c].number = info'[x].number
        BY <1>7, <2>6, <3>1, BlocksAssumption
      <3>2. ASSUME NEW x \in Blocks, NEW c \in Blocks \ {None}, info'[c].main, x \in Ancestors[c]
            PROVE  info'[x].confirm /\ info'[x].number <= info'[c].number
        BY <1>8, <2>7, <3>2
      <3> QED
        BY <1>6, <3>1, <3>2 DEF FirstMain
    <2> QED
      BY <1>0, <2>1, <2>8 DEF StateInv, StateOfMainBlock
  <1> QED
    BY <1>11, <1>12

LEMMA LoadKeepsState ==
  ASSUME SInv, LoadState
  PROVE  StateInv'
  <1>0. /\ conf.step = "load" /\ UNCHANGED <<info, mainTail, mainBlock>>
        /\ conf \in Conf /\ FirstMain(None, -1) /\ StateOfMainBlock
        /\ conf.number <= mainTail.number
    BY DEF LoadState, ConfUnchanged, SInv, StateInv, NInv, IInv, ConfInv, ConfSound
  <1>1. FirstMain(None, -1)' /\ StateOfMainBlock'
    BY <1>0, FirstMainRead DEF StateOfMainBlock
  <1>2. \/ conf' = IdleConf
        \/ conf' = [conf EXCEPT !.step = "main", !.state = mainBlock[conf.number].state]
    BY DEF LoadState
  <1>3. CASE conf' = IdleConf
    <2>1. conf'.step = "idle"
      BY <1>3 DEF IdleConf
    <2> QED
      BY <1>1, <2>1 DEF StateInv
  <1>4. CASE conf' = [conf EXCEPT !.step = "main", !.state = mainBlock[conf.number].state]
    <2>1. /\ conf'.step = "main" /\ conf'.state = mainBlock[conf.number].state
          /\ conf'.number = conf.number
      BY <1>0, <1>4 DEF Conf
    <2> QED
      BY <1>0, <1>1, <2>1 DEF StateInv
  <1> QED
    BY <1>2, <1>3, <1>4

(* The next main block is reached by no earlier one, and reaches all that is      *)
(* confirmed.                                                                 *)
LEMMA NextMainState ==
  ASSUME LinksInOrder, SlicesFit, SInv, NextMain
  PROVE  StateInv'
  <1>0. /\ conf.step = "main" /\ UNCHANGED <<info, mainTail, mainBlock>>
        /\ conf \in Conf /\ MainNumbered /\ conf.list # << >> /\ conf.list \in Seq(Blocks)
        /\ NInv /\ TypeOK /\ FirstMain(None, -1) /\ StateOfMainBlock
        /\ conf.state = mainBlock[conf.number].state /\ conf.number <= mainTail.number
    BY DEF NextMain, ConfUnchanged, SInv, StateInv, NInv, NumberInv, IInv, ConfInv, ConfSound, Conf
  <1>n. PICK N \in Nat, T \in Nat : N = conf.number /\ T = mainTail.number
    BY <1>0 DEF Conf, TypeOK
  <1>1. Index(N) /\ Mains(N, N) /\ Chained(1) /\ ListOn(mainBlock[N].hash)
    BY <1>0, <1>n DEF MainNumbered
  <1>2. PICK B \in Blocks : B = mainBlock[N].hash /\ N \in DOMAIN mainBlock
    BY <1>1 DEF Index
  <1>3. PICK H \in Blocks : H = conf.list[1] /\ Head(conf.list) = H /\ 1 \in DOMAIN conf.list
    BY <1>0
  <1>4. /\ info[H].tmpMax /\ info[H].maxLink = B
    BY <1>0, <1>1, <1>2, <1>3 DEF Chained, ListOn
  <1>5. H # Genesis /\ HasInfo(H)
    <2>1. H # Genesis
      BY <1>0, <1>4, BlocksAssumption DEF NInv, IInv, GraphInv, InfoSound
    <2>2. HasInfo(H)
      BY <1>4 DEF HasInfo, NoInfo
    <2> QED
      BY <2>1, <2>2
  <1>6. Slice[B] < Slice[H] /\ B \in Ancestors[H]
    BY <1>0, <1>2, <1>3, <1>4, <1>5 DEF NInv, IInv, GraphInv, ChainShape, Reached
  <1>7. conf'.number = N + 1
    <2>1. conf'.number = (N + 1) % WordSize
      BY <1>0, <1>n DEF NextMain, Conf
    <2>2. Slice[Genesis] + N <= Slice[B]
      BY <1>1, <1>2 DEF Index
    <2>3. /\ Slice[H] < WordSize /\ Slice[H] \in Nat /\ Slice[B] \in Nat
          /\ Slice[Genesis] \in Nat
      BY BlocksAssumption DEF SlicesFit
    <2>4. N + 1 < WordSize /\ N + 1 \in Nat /\ WordSize \in Nat \ {0}
      BY <1>6, <2>2, <2>3, NumbersAssumption
    <2> QED
      BY <2>1, <2>4
  <1>8. /\ conf'.step = "visit" /\ conf'.list = conf.list /\ conf'.state = conf.state
        /\ conf'.stack = <<[blk |-> H, next |-> 1]>>
    BY <1>0, <1>3 DEF NextMain, Conf
  <1>9. DOMAIN conf'.stack = {1} /\ conf'.stack[1].blk = H /\ conf'.stack[1].next = 1
    BY <1>8
  <1>10. \A b \in Blocks : info[b].main => b \in Ancestors[B] /\ Slice[b] <= Slice[B]
    <2> SUFFICES ASSUME NEW b \in Blocks, info[b].main
                 PROVE  b \in Ancestors[B] /\ Slice[b] <= Slice[B]
      OBVIOUS
    <2>1. PICK m \in 0 .. N : b = mainBlock[m].hash
      BY <1>1 DEF Mains
    <2>2. m = N \/ b \in Ancestors[B]
      BY <1>1, <1>2, <2>1 DEF Index
    <2>3. b \in Ancestors[B]
      BY <1>2, <2>1, <2>2, AncestorsClosed
    <2> QED
      BY <2>3, AncestorsEarlier
  <1>11. info[B].main
    BY <1>1, <1>2 DEF Mains
  <1>12. conf.state.done = Ancestors[B]
    BY <1>0, <1>n, <1>2 DEF StateOfMainBlock
  <1>13. \A x \in Blocks : info[x].number \in Nat
    BY <1>0 DEF TypeOK, Info
  <1>14. \A x \in Blocks : info[x].confirm <=> x \in Ancestors[B]
    <2>1. ASSUME NEW x \in Blocks, info[x].confirm PROVE x \in Ancestors[B]
      <3>1. info[x].number # -1
        BY <1>13
      <3>2. PICK b \in Blocks : info[b].main /\ x \in Ancestors[b]
        BY <1>0, <2>1, <3>1 DEF FirstMain
      <3> QED
        BY <1>10, <3>2, AncestorsTransitive
    <2>2. ASSUME NEW x \in Blocks, x \in Ancestors[B] PROVE info[x].confirm
      BY <1>0, <1>11, <2>2, FirstMainCovers
    <2> QED
      BY <2>1, <2>2
  <1>15. \A b \in Blocks : info[b].main => H \notin Ancestors[b]
    <2> SUFFICES ASSUME NEW b \in Blocks, info[b].main, H \in Ancestors[b] PROVE FALSE
      OBVIOUS
    <2>1. Slice[H] <= Slice[b] /\ Slice[b] <= Slice[B]
      BY <1>10, AncestorsEarlier
    <2>2. Slice[H] \in Nat /\ Slice[b] \in Nat /\ Slice[B] \in Nat
      BY BlocksAssumption
    <2> QED
      BY <1>6, <2>1, <2>2
  <1>16. FirstMain(None, conf.number)'
    <2>1. \A x \in Blocks : info[x].number # -1
      BY <1>13
    <2> QED
      BY <1>0, <2>1 DEF FirstMain
  <1>17. Visiting'
    <2>1. \A x \in Ancestors[B] : /\ x \in Ancestors[H]
                                  /\ \A h \in Range(Links[x]) : h \in Blocks /\ h \in Ancestors[B]
      BY <1>6, AncestorsClosed, AncestorsTransitive
    <2>2. H \in Ancestors[H]
      BY AncestorsClosed
    <2>3. \A x \in Blocks :
            /\ info'[x].confirm <=> x \in conf'.state.done
            /\ info'[x].confirm => /\ x \in Ancestors[conf'.list[1]]
                                   /\ \A h \in Range(Links[x]) : info'[h].confirm
      BY <1>0, <1>3, <1>8, <1>12, <1>14, <2>1
    <2>4. \A j \in DOMAIN Links[H] : ~(j < 1)
      BY LinkIndex
    <2> QED
      BY <1>0, <1>3, <1>8, <1>9, <1>15, <1>16, <2>2, <2>3, <2>4 DEF Visiting
  <1>18. OnTop'
    <2>1. conf'.number - 1 = N
      BY <1>7
    <2> QED
      BY <1>0, <1>n, <1>8, <2>1 DEF OnTop
  <1>19. conf'.number <= mainTail'.number + 1
    BY <1>0, <1>n, <1>7
  <1> QED
    BY <1>0, <1>8, <1>17, <1>18, <1>19 DEF StateInv, StateOfMainBlock

LEMMA VisitLinkState ==
  ASSUME SInv, VisitLink
  PROVE  StateInv'
  <1>0. /\ conf.step = "visit" /\ UNCHANGED <<info, mainTail, mainBlock>>
        /\ conf \in Conf /\ ConfInv /\ IInv /\ StateOfMainBlock /\ Visiting /\ OnTop
        /\ conf.number <= mainTail.number + 1
        /\ conf.stack # << >> /\ Top.next <= Len(Links[Top.blk])
    BY DEF VisitLink, ConfUnchanged, SInv, StateInv, NInv, IInv, ConfInv, ConfSound
  <1>h. PICK h \in Blocks : h = Links[Top.blk][Top.next]
    BY <1>0, TopLink
  <1>go. PICK go \in BOOLEAN : go <=> info[h].confirm \/ info[h].main
    OBVIOUS
  <1>t. PICK t : /\ t = IF go THEN Advance ELSE Descend(h)
                 /\ conf' = [conf EXCEPT !.stack = t]
    BY <1>h, <1>go DEF VisitLink
  <1>1. /\ conf'.step = "visit" /\ conf'.number = conf.number /\ conf'.list = conf.list
        /\ conf'.state = conf.state /\ conf'.stack = t
    BY <1>0, <1>t DEF Conf
  <1>s. PICK n \in Nat \ {0} :
           /\ Top = conf.stack[n] /\ DOMAIN conf.stack = 1 .. n /\ n \in 1 .. n
           /\ \A i \in 1 .. n : /\ i \in DOMAIN t /\ t[i].blk = conf.stack[i].blk
                                /\ conf.stack[i].blk \in Blocks
                                /\ conf.stack[i].next \in Nat \ {0}
                                /\ i # n => t[i].next = conf.stack[i].next
                                /\ i = n => t[i].next = conf.stack[i].next + 1
           /\ \A i \in DOMAIN t : i \in 1 .. n \/ (~go /\ t[i].blk = h /\ t[i].next = 1)
           /\ ~go => \E k \in DOMAIN t : t[k].blk = h /\ n < k
    <2>1. ConfInv /\ conf.stack # << >> /\ t = IF go THEN Advance ELSE Descend(h)
      BY <1>0, <1>t
    <2> QED
      BY <2>1, LinkStack
  <1>2. PICK H \in Blocks : H = conf.list[1]
    <2>1. conf.list # << >> /\ conf.list \in Seq(Blocks)
      BY <1>0 DEF ConfInv, ConfSound, Conf
    <2> QED
      BY <2>1
  <1>3. FirstMain(None, conf.number)
    BY <1>0 DEF Visiting
  <1>4. FirstMain(None, conf.number)'
    BY <1>0, <1>1, <1>3 DEF FirstMain
  <1>5. \A b \in Blocks : info[b].main => \A x \in Ancestors[b] : info[x].confirm
    BY <1>3, FirstMainCovers
  <1>6. go <=> info[h].confirm
    BY <1>go, <1>5, AncestorsClosed
  <1>7. h \in Ancestors[H]
    <2>1. Top.blk \in Ancestors[H] /\ Top.blk \in Blocks
      BY <1>0, <1>2, <1>s DEF Visiting
    <2>2. h \in Range(Links[Top.blk])
      <3>1. Links[Top.blk] \in Seq(Blocks)
        BY <2>1, BlocksAssumption
      <3>2. Top.next \in Nat \ {0}
        BY <1>s
      <3>3. Top.next \in DOMAIN Links[Top.blk]
        BY <1>0, <3>1, <3>2
      <3> QED
        BY <1>h, <3>3 DEF Range
    <2> QED
      BY <2>1, <2>2, AncestorsClosed
  <1>8. ASSUME NEW i \in DOMAIN t
        PROVE  /\ t[i].blk \in Ancestors[H]
               /\ \A b \in Blocks : info[b].main => t[i].blk \notin Ancestors[b]
               /\ \A j \in DOMAIN Links[t[i].blk] : j < t[i].next =>
                    \/ info[Links[t[i].blk][j]].confirm
                    \/ \E k \in DOMAIN t : i < k /\ t[k].blk = Links[t[i].blk][j]
    <2>1. CASE i \in 1 .. n
      <3>1. t[i].blk = conf.stack[i].blk /\ i \in DOMAIN conf.stack /\ t[i].blk \in Blocks
        BY <1>s, <2>1
      <3>2. /\ t[i].blk \in Ancestors[H]
            /\ \A b \in Blocks : info[b].main => t[i].blk \notin Ancestors[b]
            /\ \A j \in DOMAIN Links[t[i].blk] : j < conf.stack[i].next =>
                 \/ info[Links[t[i].blk][j]].confirm
                 \/ \E k \in DOMAIN conf.stack :
                      i < k /\ conf.stack[k].blk = Links[t[i].blk][j]
        BY <1>0, <1>2, <3>1 DEF Visiting
      <3>3. ASSUME NEW j \in DOMAIN Links[t[i].blk], j < t[i].next
            PROVE  \/ info[Links[t[i].blk][j]].confirm
                   \/ \E k \in DOMAIN t : i < k /\ t[k].blk = Links[t[i].blk][j]
        <4>0. j \in Nat
          BY <3>1, LinkIndex
        <4>1. CASE j < conf.stack[i].next
          <5>1. \A k \in DOMAIN conf.stack : k \in DOMAIN t /\ t[k].blk = conf.stack[k].blk
            BY <1>s
          <5> QED
            BY <3>2, <4>1, <5>1
        <4>2. CASE ~(j < conf.stack[i].next)
          <5>1. i = n /\ j = conf.stack[n].next
            BY <1>s, <2>1, <3>3, <4>0, <4>2
          <5>2. Links[t[i].blk][j] = h
            BY <1>s, <1>h, <3>1, <5>1
          <5>3. CASE go
            BY <1>6, <5>2, <5>3
          <5>4. CASE ~go
            BY <1>s, <5>1, <5>2, <5>4
          <5> QED
            BY <5>3, <5>4
        <4> QED
          BY <4>1, <4>2
      <3> QED
        BY <3>2, <3>3
    <2>2. CASE ~go /\ t[i].blk = h /\ t[i].next = 1
      <3>1. \A b \in Blocks : info[b].main => h \notin Ancestors[b]
        BY <1>5, <1>6, <2>2
      <3>2. \A j \in DOMAIN Links[h] : ~(j < 1)
        BY LinkIndex
      <3> QED
        BY <1>7, <2>2, <3>1, <3>2
    <2> QED
      BY <1>s, <2>1, <2>2
  <1>9. Visiting'
    <2>1. \A x \in Blocks :
            /\ info'[x].confirm <=> x \in conf'.state.done
            /\ info'[x].confirm => /\ x \in Ancestors[conf'.list[1]]
                                   /\ \A y \in Range(Links[x]) : info'[y].confirm
      BY <1>0, <1>1 DEF Visiting
    <2> QED
      BY <1>0, <1>1, <1>2, <1>4, <1>8, <2>1 DEF Visiting
  <1>10. OnTop'
    BY <1>0, <1>1 DEF OnTop
  <1> QED
    BY <1>0, <1>1, <1>9, <1>10 DEF StateInv, StateOfMainBlock

(* A call of singleBlockConfirm ends: its block joins what is settled. The last   *)
(* one completes the main block, which is then the first to reach the rest.      *)
LEMMA VisitBlockState ==
  ASSUME SInv, VisitBlock
  PROVE  StateInv'
  <1>0. /\ conf.step = "visit" /\ UNCHANGED <<mainTail, mainBlock>>
        /\ conf \in Conf /\ TypeOK /\ VisitNumbered /\ ConfInv /\ IInv
        /\ StateOfMainBlock /\ Visiting /\ OnTop /\ conf.number <= mainTail.number + 1
        /\ conf.stack # << >> /\ info \in [Blocks -> Info] /\ Top.next > Len(Links[Top.blk])
    BY DEF VisitBlock, ConfUnchanged, SInv, StateInv, NInv, NumberInv, IInv, TypeOK,
           ConfInv, ConfSound
  <1>1. PICK M \in Nat : M = conf.number - 1 /\ conf.number = M + 1
    BY <1>0 DEF VisitNumbered, Conf
  <1>2. Index(M) /\ Mains(M, M) /\ conf.stack[1].blk = conf.list[1]
    BY <1>0, <1>1 DEF VisitNumbered
  <1>H. PICK H \in Blocks : H = conf.list[1]
    <2>1. conf.list # << >> /\ conf.list \in Seq(Blocks)
      BY <1>0 DEF ConfInv, ConfSound, Conf
    <2> QED
      BY <2>1
  <1>s. PICK n \in Nat \ {0} :
           /\ n = Len(conf.stack) /\ Top = conf.stack[n] /\ DOMAIN conf.stack = 1 .. n
           /\ n \in 1 .. n
           /\ \A i \in 1 .. n : /\ conf.stack[i].blk \in Blocks
                                /\ conf.stack[i].next \in Nat \ {0}
           /\ DOMAIN Pop(conf.stack) = 1 .. (n - 1)
           /\ \A i \in 1 .. (n - 1) : /\ i \in 1 .. n /\ i < n
                                      /\ Pop(conf.stack)[i] = conf.stack[i]
    BY <1>0, StackShape
  <1>b. PICK b \in Blocks : b = Top.blk
    BY <1>s
  <1>3. /\ info'[b].confirm /\ info'[b].number = M + 1
        /\ info'[b].main = IF n = 1 THEN TRUE ELSE info[b].main
        /\ \A x \in Blocks : x # b => info'[x] = info[x]
    <2>1. PICK a : info' = [info EXCEPT ![b] = Confirmed(info[b], n = 1, a)]
      BY <1>s, <1>b DEF VisitBlock
    <2>2. info'[b] = Confirmed(info[b], n = 1, a) /\ info[b] \in Info
      BY <1>0, <2>1
    <2>3. \A x \in Blocks : x # b => info'[x] = info[x]
      BY <1>0, <2>1
    <2> QED
      BY <1>1, <2>2, <2>3 DEF Confirmed, Info
  <1>4. PICK ok \in SUBSET Blocks :
          /\ conf'.list = conf.list /\ conf'.number = M + 1
          /\ conf'.stack = Pop(conf.stack)
          /\ conf'.step = IF n = 1 THEN "commit" ELSE "visit"
          /\ conf'.state = [done |-> conf.state.done \cup {b}, ok |-> ok]
          /\ conf.state.ok \subseteq ok /\ ok \subseteq conf.state.ok \cup {b}
    <2>1. conf.state \in Ledger
      BY <1>0 DEF Conf
    <2>2. PICK ok \in SUBSET Blocks :
            /\ ok = IF Accepts(b, conf.state.ok) THEN conf.state.ok \cup {b} ELSE conf.state.ok
      BY <2>1 DEF Ledger
    <2>3. conf' = [conf EXCEPT !.stack = Pop(conf.stack),
                               !.step = IF n = 1 THEN "commit" ELSE conf.step,
                               !.state = [done |-> conf.state.done \cup {b}, ok |-> ok]]
      BY <1>s, <1>b, <2>2 DEF VisitBlock
    <2>4. conf.state.ok \subseteq ok /\ ok \subseteq conf.state.ok \cup {b}
      BY <2>2
    <2> QED
      BY <1>0, <1>1, <2>3, <2>4 DEF Conf
  <1>5. \A x \in Blocks : info[x].number \in Nat
    BY <1>0 DEF Info
  <1>6. FirstMain(None, M + 1)
    BY <1>0, <1>1 DEF Visiting
  <1>7. /\ b \in Ancestors[H]
        /\ \A c \in Blocks : info[c].main => b \notin Ancestors[c]
        /\ ~info[b].main
    <2>1. /\ b \in Ancestors[H]
          /\ \A c \in Blocks : info[c].main => b \notin Ancestors[c]
      BY <1>0, <1>H, <1>s, <1>b DEF Visiting
    <2> QED
      BY <2>1, AncestorsClosed
  <1>8. \A h \in Range(Links[b]) : info[h].confirm
    <2> SUFFICES ASSUME NEW j \in DOMAIN Links[b] PROVE info[Links[b][j]].confirm
      BY DEF Range
    <2>1. j < Top.next
      <3>1. j \in Nat /\ j <= Len(Links[b]) /\ Len(Links[b]) \in Nat
        BY LinkIndex
      <3>2. Top.next \in Nat
        BY <1>s
      <3> QED
        BY <1>0, <1>b, <3>1, <3>2
    <2>2. \/ info[Links[b][j]].confirm
          \/ \E k \in DOMAIN conf.stack : n < k /\ conf.stack[k].blk = Links[b][j]
      <3>1. n \in DOMAIN conf.stack /\ conf.stack[n].blk = b /\ j < conf.stack[n].next
        BY <1>s, <1>b, <2>1
      <3>2. \A l \in DOMAIN Links[conf.stack[n].blk] : l < conf.stack[n].next =>
              \/ info[Links[conf.stack[n].blk][l]].confirm
              \/ \E k \in DOMAIN conf.stack :
                   n < k /\ conf.stack[k].blk = Links[conf.stack[n].blk][l]
        BY <1>0, <3>1 DEF Visiting
      <3> QED
        BY <3>1, <3>2
    <2>3. \A k \in DOMAIN conf.stack : ~(n < k)
      BY <1>s
    <2> QED
      BY <2>2, <2>3
  <1>9. \A x \in Blocks : info'[x].confirm <=> info[x].confirm \/ x = b
    BY <1>3
  <1>10. \A x \in Blocks :
           /\ info'[x].confirm <=> x \in conf'.state.done
           /\ info'[x].confirm => /\ x \in Ancestors[H]
                                  /\ \A h \in Range(Links[x]) : info'[h].confirm
    <2>1. conf'.state.done = conf.state.done \cup {b}
      BY <1>4
    <2>2. \A x \in Blocks : Range(Links[x]) \subseteq Blocks
      BY LinkIndex DEF Range
    <2>3. \A x \in Blocks :
           /\ info[x].confirm <=> x \in conf.state.done
           /\ info[x].confirm => /\ x \in Ancestors[H]
                                 /\ \A h \in Range(Links[x]) : info[h].confirm
      BY <1>0, <1>H DEF Visiting
    <2> QED
      BY <1>7, <1>8, <1>9, <2>1, <2>2, <2>3
  <1>11. OnTop'
    <2>1. PICK base : base = mainBlock[M].state
      OBVIOUS
    <2>2. /\ base.ok \subseteq conf.state.ok
          /\ conf.state.ok \ base.ok \subseteq conf.state.done \ base.done
      BY <1>0, <1>1, <2>1 DEF OnTop
    <2>3. b \notin base.done
      <3>1. M \in DOMAIN mainBlock /\ mainBlock[M].hash \in Blocks
        BY <1>2 DEF Index
      <3>2. info[mainBlock[M].hash].main
        BY <1>2, <3>1 DEF Mains
      <3> QED
        BY <1>0, <1>7, <2>1, <3>1, <3>2 DEF StateOfMainBlock
    <2>4. conf'.state.ok = ok /\ conf'.state.done = conf.state.done \cup {b}
      BY <1>4
    <2>5. base.ok \subseteq ok /\ ok \ base.ok \subseteq (conf.state.done \cup {b}) \ base.done
      BY <1>4, <2>2, <2>3
    <2>6. mainBlock'[conf'.number - 1].state = base
      <3>1. conf'.number - 1 = M
        BY <1>4
      <3> QED
        BY <1>0, <2>1, <3>1
    <2> QED
      BY <2>4, <2>5, <2>6 DEF OnTop
  <1>12. conf'.number <= mainTail'.number + 1
    BY <1>0, <1>1, <1>4
  <1>13. \A x \in Blocks : ~info'[x].confirm => info'[x].number = 0
    BY <1>3, <1>6 DEF FirstMain
  <1>14. ASSUME NEW x \in Blocks, info'[x].confirm, info'[x].number # M + 1
         PROVE  \E c \in Blocks \ {None} :
                  /\ info'[c].main /\ x \in Ancestors[c] /\ info'[c].number = info'[x].number
                  /\ info[c].main
    <2>1. x # b /\ info'[x] = info[x]
      BY <1>3, <1>14
    <2>2. PICK c \in Blocks \ {None} : /\ info[c].main /\ x \in Ancestors[c]
                                       /\ info[c].number = info[x].number
      BY <1>6, <1>14, <2>1 DEF FirstMain
    <2>3. c # b
      BY <1>7, <2>2
    <2> QED
      BY <1>3, <2>1, <2>2, <2>3
  <1>15. ASSUME NEW x \in Blocks, NEW c \in Blocks, info[c].main, x \in Ancestors[c]
         PROVE  info'[x].confirm /\ info'[x].number <= info'[c].number
    <2>1. x # b /\ c # b
      BY <1>7, <1>15
    <2>2. info[x].confirm /\ info[x].number <= info[c].number
      BY <1>6, <1>15, FirstMainCovers
    <2> QED
      BY <1>3, <2>1, <2>2
  <1>16. CASE n # 1
    <2>1. \A c \in Blocks : info'[c].main <=> info[c].main
      BY <1>3, <1>16
    <2>2. FirstMain(None, conf.number)'
      BY <1>4, <1>13, <1>14, <1>15, <2>1 DEF FirstMain
    <2>3. ASSUME NEW i \in 1 .. (n - 1)
          PROVE  LET f == conf.stack[i]
                 IN  /\ f.blk \in Ancestors[H]
                     /\ \A c \in Blocks : info'[c].main => f.blk \notin Ancestors[c]
                     /\ \A j \in DOMAIN Links[f.blk] : j < f.next =>
                          \/ info'[Links[f.blk][j]].confirm
                          \/ \E k \in 1 .. (n - 1) : i < k /\ conf.stack[k].blk = Links[f.blk][j]
      <3> PICK f : f = conf.stack[i]
        OBVIOUS
      <3>1. i \in DOMAIN conf.stack /\ f.blk \in Blocks
        BY <1>s
      <3>2. /\ f.blk \in Ancestors[H]
            /\ \A c \in Blocks : info[c].main => f.blk \notin Ancestors[c]
            /\ \A j \in DOMAIN Links[f.blk] : j < f.next =>
                 \/ info[Links[f.blk][j]].confirm
                 \/ \E k \in DOMAIN conf.stack : i < k /\ conf.stack[k].blk = Links[f.blk][j]
        BY <1>0, <1>H, <3>1 DEF Visiting
      <3>3. ASSUME NEW j \in DOMAIN Links[f.blk], j < f.next
            PROVE  \/ info'[Links[f.blk][j]].confirm
                   \/ \E k \in 1 .. (n - 1) : i < k /\ conf.stack[k].blk = Links[f.blk][j]
        <4>1. Links[f.blk][j] \in Blocks
          BY <3>1, LinkIndex
        <4>2. CASE info[Links[f.blk][j]].confirm
          BY <1>9, <4>1, <4>2
        <4>3. ASSUME NEW k \in DOMAIN conf.stack, i < k, conf.stack[k].blk = Links[f.blk][j]
              PROVE  \/ info'[Links[f.blk][j]].confirm
                     \/ k \in 1 .. (n - 1)
          <5>1. CASE k = n
            BY <1>s, <1>b, <1>9, <4>1, <4>3, <5>1
          <5>2. CASE k # n
            <6>1. k \in 1 .. n
              BY <1>s
            <6>2. k \in 1 .. (n - 1)
              BY <5>2, <6>1
            <6> QED
              BY <6>2
          <5> QED
            BY <5>1, <5>2
        <4> QED
          BY <3>2, <3>3, <4>2, <4>3
      <3> QED
        BY <2>1, <3>2, <3>3
    <2>4. Visiting'
      <3>1. /\ conf'.list[1] = H /\ conf'.stack = Pop(conf.stack)
            /\ DOMAIN conf'.stack = 1 .. (n - 1)
            /\ \A i \in 1 .. (n - 1) : conf'.stack[i] = conf.stack[i]
        BY <1>4, <1>H, <1>s
      <3>2. \A i \in DOMAIN conf'.stack :
              LET f == conf'.stack[i]
              IN  /\ f.blk \in Ancestors[conf'.list[1]]
                  /\ \A c \in Blocks : info'[c].main => f.blk \notin Ancestors[c]
                  /\ \A j \in DOMAIN Links[f.blk] : j < f.next =>
                       \/ info'[Links[f.blk][j]].confirm
                       \/ \E k \in DOMAIN conf'.stack :
                            i < k /\ conf'.stack[k].blk = Links[f.blk][j]
        BY <2>3, <3>1
      <3>3. \A x \in Blocks :
              /\ info'[x].confirm <=> x \in conf'.state.done
              /\ info'[x].confirm => /\ x \in Ancestors[conf'.list[1]]
                                     /\ \A h \in Range(Links[x]) : info'[h].confirm
        BY <1>10, <3>1
      <3> QED
        BY <2>2, <3>2, <3>3 DEF Visiting
    <2>5. conf'.step = "visit"
      BY <1>4, <1>16
    <2> QED
      BY <1>0, <1>11, <1>12, <2>4, <2>5 DEF StateInv, StateOfMainBlock
  <1>17. CASE n = 1
    <2>1. b = H /\ conf'.step = "commit"
      BY <1>2, <1>4, <1>H, <1>s, <1>b, <1>17
    <2>2. conf'.state.done = Ancestors[H]
      <3> DEFINE S == {x \in Blocks : info'[x].confirm}
      <3>1. conf'.state.done = S
        <4>1. conf'.state.done \subseteq Blocks
          <5>1. conf.state \in Ledger
            BY <1>0 DEF Conf
          <5> QED
            BY <1>4, <5>1 DEF Ledger
        <4> QED
          BY <1>10, <4>1
      <3>2. S \subseteq Ancestors[H]
        BY <1>10
      <3>3. S \in SUBSET Blocks /\ H \in S /\ \A x \in S : Range(Links[x]) \subseteq S
        <4>1. \A x \in Blocks : Range(Links[x]) \subseteq Blocks
          BY LinkIndex DEF Range
        <4> QED
          BY <1>3, <1>10, <2>1, <4>1
      <3>4. Ancestors[H] \subseteq S
        <4> HIDE DEF S
        <4> QED
          BY <3>3, AncestorsLeast
      <3> QED
        BY <3>1, <3>2, <3>4
    <2>3. \A x \in Blocks : info'[x].confirm <=> x \in Ancestors[H]
      BY <1>10, <2>2
    <2>4. info'[H].main /\ info'[H].number = M + 1 /\ H \in Blocks \ {None}
      BY <1>3, <1>17, <2>1, BlocksAssumption
    <2>5. ASSUME NEW x \in Blocks, x \in Ancestors[H] PROVE info'[x].number <= M + 1
      <3>1. CASE info'[x].number = M + 1
        BY <3>1
      <3>2. CASE info'[x].number # M + 1
        <4>1. PICK c \in Blocks : info[c].main /\ info'[c].number = info'[x].number
          BY <1>14, <2>3, <2>5, <3>2
        <4>2. c # b /\ info[c].number = info'[x].number
          BY <1>3, <1>7, <4>1
        <4>3. PICK m \in 0 .. M : c = mainBlock[m].hash /\ info[c].number = m
          BY <1>2, <4>1 DEF Mains
        <4> QED
          BY <4>2, <4>3
      <3> QED
        BY <3>1, <3>2
    <2>6. FirstMain(None, -1)'
      <3>1. ASSUME NEW x \in Blocks, info'[x].confirm
            PROVE  \E c \in Blocks \ {None} : /\ info'[c].main /\ x \in Ancestors[c]
                                              /\ info'[c].number = info'[x].number
        <4>1. CASE info'[x].number = M + 1
          BY <2>3, <2>4, <3>1, <4>1
        <4>2. CASE info'[x].number # M + 1
          BY <1>14, <3>1, <4>2
        <4> QED
          BY <4>1, <4>2
      <3>2. ASSUME NEW x \in Blocks, NEW c \in Blocks \ {None}, info'[c].main, x \in Ancestors[c]
            PROVE  info'[x].confirm /\ info'[x].number <= info'[c].number
        <4>1. CASE c = H
          BY <2>3, <2>4, <2>5, <3>2, <4>1
        <4>2. CASE c # H
          BY <1>3, <1>15, <2>1, <3>2, <4>2
        <4> QED
          BY <4>1, <4>2
      <3> QED
        BY <1>13, <3>1, <3>2 DEF FirstMain
    <2>7. conf'.state.done = Ancestors[conf'.list[1]]
      BY <1>4, <1>H, <2>2
    <2> QED
      BY <1>0, <1>11, <1>12, <2>1, <2>6, <2>7 DEF StateInv, StateOfMainBlock
  <1> QED
    BY <1>16, <1>17

LEMMA CommitState ==
  ASSUME SInv, CommitMain
  PROVE  StateInv'
  <1>0. /\ conf.step = "commit" /\ UNCHANGED <<info, mainTail>> /\ conf \in Conf
        /\ conf.list # << >> /\ conf.list \in Seq(Blocks)
        /\ FirstMain(None, -1) /\ StateOfMainBlock
        /\ conf.state.done = Ancestors[conf.list[1]]
    BY DEF CommitMain, ConfUnchanged, SInv, StateInv, NInv, IInv, ConfInv, ConfSound, Conf
  <1>1. Head(conf.list) = conf.list[1]
    BY <1>0
  <1>2. /\ conf'.step = "tail" /\ conf'.state = conf.state /\ conf'.number = conf.number
        /\ conf'.list = conf.list
    BY <1>0 DEF CommitMain, Conf
  <1>3. mainBlock' = [n \in DOMAIN mainBlock \cup {conf.number} |->
                        IF n = conf.number
                        THEN [hash |-> conf.list[1], state |-> conf.state]
                        ELSE mainBlock[n]]
    BY <1>1 DEF CommitMain
  <1>4. /\ DOMAIN mainBlock' = DOMAIN mainBlock \cup {conf.number}
        /\ mainBlock'[conf.number].hash = conf.list[1]
        /\ mainBlock'[conf.number].state = conf.state
        /\ \A n \in DOMAIN mainBlock : n # conf.number => mainBlock'[n] = mainBlock[n]
    BY <1>3
  <1>5. StateOfMainBlock'
    BY <1>0, <1>4 DEF StateOfMainBlock
  <1>6. FirstMain(None, -1)'
    BY <1>0, FirstMainRead
  <1> QED
    BY <1>0, <1>2, <1>4, <1>5, <1>6 DEF StateInv

LEMMA MoveState ==
  ASSUME SInv, MoveMainTail
  PROVE  StateInv'
  <1>0. /\ conf.step = "tail" /\ UNCHANGED <<info, mainBlock>> /\ conf \in Conf
        /\ FirstMain(None, -1) /\ StateOfMainBlock
        /\ conf.state = mainBlock[conf.number].state /\ conf.number \in Nat
    BY DEF MoveMainTail, ConfUnchanged, SInv, StateInv, NInv, IInv, ConfInv, ConfSound, Conf
  <1>1. FirstMain(None, -1)' /\ StateOfMainBlock'
    BY <1>0, FirstMainRead DEF StateOfMainBlock
  <1>2. mainTail'.number = conf.number
    BY DEF MoveMainTail
  <1>3. \/ conf' = IdleConf
        \/ conf' = [conf EXCEPT !.step = "main", !.list = Tail(conf.list)]
    BY DEF MoveMainTail
  <1>4. CASE conf' = IdleConf
    <2>1. conf'.step = "idle"
      BY <1>4 DEF IdleConf
    <2> QED
      BY <1>1, <2>1 DEF StateInv
  <1>5. CASE conf' = [conf EXCEPT !.step = "main", !.list = Tail(conf.list)]
    <2>1. conf'.step = "main" /\ conf'.state = conf.state /\ conf'.number = conf.number
      BY <1>0, <1>5 DEF Conf
    <2> QED
      BY <1>0, <1>1, <1>2, <2>1 DEF StateInv
  <1> QED
    BY <1>3, <1>4, <1>5

LEMMA StateInit == Init => LinksGoBack /\ StateInv
  <1> SUFFICES ASSUME Init PROVE LinksGoBack /\ StateInv
    OBVIOUS
  <1>0. Genesis \in Blocks /\ Genesis # None /\ Range(Links[Genesis]) = {}
    <2>1. Genesis \in Blocks /\ Genesis # None /\ Links[Genesis] = << >>
      BY BlocksAssumption
    <2> QED
      BY <2>1 DEF Range
  <1>1. /\ info[Genesis] = GenesisInfo
        /\ \A b \in Blocks : b # Genesis => info[b] = NoInfo
    BY <1>0 DEF Init
  <1>2. LinksGoBack
    <2> SUFFICES ASSUME NEW S \in SUBSET Blocks, S # {}, \A x \in S : HasInfo(x)
                 PROVE  \E x \in S : \A y \in S : x \notin Range(Links[y])
      BY DEF LinksGoBack
    <2>1. \A x \in S : x = Genesis
      BY <1>1 DEF HasInfo
    <2> QED
      BY <1>0, <2>1
  <1>3. Ancestors[Genesis] = {Genesis}
    BY <1>0, AncestorsClosed, AncestorsLeast
  <1>4. FirstMain(None, -1)
    <2>1. /\ info[Genesis].confirm /\ info[Genesis].main /\ info[Genesis].number = 0
          /\ \A b \in Blocks : b # Genesis =>
               ~info[b].confirm /\ ~info[b].main /\ info[b].number = 0
      BY <1>1 DEF GenesisInfo, NoInfo
    <2> QED
      BY <1>0, <1>3, <2>1 DEF FirstMain
  <1>5. StateOfMainBlock
    <2>1. /\ DOMAIN mainBlock = {0} /\ mainBlock[0].hash = Genesis
          /\ mainBlock[0].state.done = {Genesis}
      BY DEF Init, GenesisLedger
    <2> QED
      BY <1>3, <2>1 DEF StateOfMainBlock
  <1>6. conf.step = "idle"
    BY DEF Init, IdleConf
  <1> QED
    BY <1>2, <1>4, <1>5, <1>6 DEF StateInv

LEMMA StateStep ==
  ASSUME LinksInOrder, SlicesFit, Copies <= 1, MaxCrashes = 0, SInv, [Next]_vars
  PROVE  StateInv'
  <1>0. NInv /\ IInv /\ StoredOnce /\ StateInv /\ TypeOK /\ ConfInv
    BY DEF SInv, NInv, IInv
  <1>1. CASE ConfirmStep
    <2>1. CASE ConfirmBegin \/ FindStep
      BY <2>1, FindState
    <2>2. CASE RollbackNext
      BY <2>2, RollbackState
    <2>3. CASE UnwindLink
      BY <2>3, UnwindLinkState
    <2>4. CASE UnwindBlock
      BY <2>4, UnwindBlockState
    <2>5. CASE LoadState
      BY <2>5, LoadKeepsState
    <2>6. CASE NextMain
      BY <2>6, NextMainState
    <2>7. CASE VisitLink
      BY <2>7, VisitLinkState
    <2>8. CASE VisitBlock
      BY <2>8, VisitBlockState
    <2>9. CASE CommitMain
      BY <2>9, CommitState
    <2>10. CASE MoveMainTail
      BY <2>10, MoveState
    <2> QED
      BY <1>1, <2>1, <2>2, <2>3, <2>4, <2>5, <2>6, <2>7, <2>8, <2>9, <2>10 DEF ConfirmStep
  <1>2. \A i \in DOMAIN conf.stack : conf.stack[i].blk \in Blocks
    <2>1. conf.stack \in Seq(Frame)
      BY <1>0 DEF ConfInv, ConfSound, Conf
    <2>2. \A f \in Frame : f.blk \in Blocks
      BY DEF Frame
    <2> QED
      BY <2>1, <2>2
  <1>3. ASSUME NEW w \in Workers, SaveInfo(w) PROVE StateInv'
    <2>1. /\ info' = [info EXCEPT ![blk[w]] = ComputeCumulativeDiff(blk[w])]
          /\ UNCHANGED <<conf, mainTail, mainBlock>> /\ pc[w] = "info"
      BY <1>3 DEF SaveInfo
    <2>2. info \in [Blocks -> Info] /\ blk[w] \in Blocks /\ info[blk[w]] = NoInfo
      BY <1>0, <2>1 DEF TypeOK, StoredOnce, HasInfo
    <2>3. /\ \A b \in Blocks : b # blk[w] => info'[b] = info[b]
          /\ info'[blk[w]] = ComputeCumulativeDiff(blk[w])
      BY <2>1, <2>2
    <2>4. /\ ComputeCumulativeDiff(blk[w]).main = NoInfo.main
          /\ ComputeCumulativeDiff(blk[w]).confirm = NoInfo.confirm
          /\ ComputeCumulativeDiff(blk[w]).number = NoInfo.number
      BY DEF ComputeCumulativeDiff, NoInfo
    <2>5. \A x \in Blocks : /\ info'[x].confirm = info[x].confirm
                            /\ info'[x].number = info[x].number
                            /\ info'[x].main = info[x].main
      BY <2>2, <2>3, <2>4
    <2> QED
      BY <1>0, <1>2, <2>1, <2>5, StateQuiet
  <1>4. ASSUME UNCHANGED <<info, conf, mainTail, mainBlock>> PROVE StateInv'
    BY <1>0, <1>2, <1>4, StateQuiet
  <1>5. ~CrashRestart
    BY <1>0 DEF CrashRestart, TypeOK
  <1>6. \/ ConfirmStep \/ \E w \in Workers : SaveInfo(w)
        \/ UNCHANGED <<info, conf, mainTail, mainBlock>>
    BY <1>5 DEF Next, AddBlock, SaveRlp, UpdateTailCheck, UpdateTailWrite, Tick, vars
  <1> QED
    BY <1>1, <1>3, <1>4, <1>6

LEMMA StateAlways ==
  ASSUME LinksInOrder, SlicesFit, Copies <= 1, MaxCrashes = 0
  PROVE  Spec => []SInv
  <1>1. Init => SInv
    BY InitInv, NumberInit, StateInit DEF SInv, NInv, Init, Reached, HasInfo
  <1>2. SInv /\ [Next]_vars => SInv'
    BY NextInv, ReachedStep, NumberStep, LinksGoBackStep, StateStep DEF SInv, NInv
  <1> QED
    BY <1>1, <1>2, PTL DEF Spec

(* The state committed for a main block settles exactly the blocks it reaches      *)
(* through links (main_chain.go:543), for every graph in order and every sequence of  *)
(* reorganisations: two nodes with the same main block settle the same blocks,       *)
(* whatever each of them confirmed and rolled back before.                        *)
THEOREM StateOfMainBlockHolds ==
  ASSUME LinksInOrder, SlicesFit, Copies <= 1, MaxCrashes = 0
  PROVE  Spec => []StateOfMainBlock
  <1>1. SInv => StateOfMainBlock
    BY DEF SInv, StateInv
  <1> QED
    BY <1>1, StateAlways, PTL

(* Between two calls of Confirm a block is confirmed iff a main block reaches it,   *)
(* and carries the number of the first one: the rollback takes back exactly what      *)
(* the main blocks it passes have confirmed (main_chain.go:471-490).               *)
THEOREM ConfirmedByFirstMainHolds ==
  ASSUME LinksInOrder, SlicesFit, Copies <= 1, MaxCrashes = 0
  PROVE  Spec => []ConfirmedByFirstMain
  <1>1. SInv => ConfirmedByFirstMain
    <2> SUFFICES ASSUME SInv, conf.step = "idle", NEW x \in Blocks
                 PROVE  LET over == {info[b].number :
                                       b \in {c \in Blocks : info[c].main /\ x \in Ancestors[c]}}
                        IN  IF info[x].confirm
                            THEN info[x].number \in over /\ \A n \in over : info[x].number <= n
                            ELSE over = {}
      BY DEF ConfirmedByFirstMain
    <2>1. FirstMain(None, -1) /\ info[x].number \in Nat
      BY DEF SInv, StateInv, NInv, IInv, TypeOK, Info
    <2>2. \A b \in Blocks : info[b].main /\ x \in Ancestors[b] =>
             info[x].confirm /\ info[x].number <= info[b].number
      BY <2>1, FirstMainCovers
    <2>3. info[x].confirm => \E b \in Blocks : /\ info[b].main /\ x \in Ancestors[b]
                                               /\ info[b].number = info[x].number
      <3>1. info[x].number # -1
        BY <2>1
      <3> QED
        BY <2>1, <3>1 DEF FirstMain
    <2> QED
      BY <2>2, <2>3
  <1> QED
    BY <1>1, StateAlways, PTL
------------------------------------------------------------------------------
(* The main chain implements the abstract ledger. *)

(* The main-block index as the abstract ledger sees it. *)
Seen == [i \in 1 .. MainSoFar + 1 |-> mainBlock[i - 1]]

LEMMA OnlyCommitWrites ==
  ASSUME conf \in Conf, ConfirmStep, ~CommitMain, ~MoveMainTail
  PROVE  UNCHANGED <<mainTail, mainBlock>> /\ conf.step # "tail" /\ conf'.step # "tail"
  <1>1. CASE ConfirmBegin
    BY <1>1 DEF ConfirmBegin, IdleConf
  <1>2. CASE FindStep
    <2>1. \/ conf' = IdleConf
          \/ \E b : conf' = [conf EXCEPT !.step = "rollback", !.locator = b,
                                         !.at = mainTail.hash]
          \/ \E b : conf' = AfterRollback([conf EXCEPT !.locator = b])
          \/ \E c, l, a, m : conf' = [conf EXCEPT !.can = c, !.list = l, !.applied = a,
                                                  !.at = m]
      BY <1>2 DEF FindStep
    <2>2. ASSUME NEW b, conf' = AfterRollback([conf EXCEPT !.locator = b])
          PROVE  conf'.step # "tail"
      <3> PICK c : c = [conf EXCEPT !.locator = b]
        OBVIOUS
      <3>1. DOMAIN c = DOMAIN conf
        OBVIOUS
      <3>2. conf' = IdleConf \/ conf' = [c EXCEPT !.step = "load", !.at = None]
        BY <2>2 DEF AfterRollback
      <3>3. CASE conf' = IdleConf
        BY <3>3 DEF IdleConf
      <3>4. CASE conf' = [c EXCEPT !.step = "load", !.at = None]
        BY <3>1, <3>4 DEF Conf
      <3> QED
        BY <3>2, <3>3, <3>4
    <2>3. conf.step = "find" /\ UNCHANGED <<mainTail, mainBlock>>
      BY <1>2 DEF FindStep
    <2>4. CASE conf' = IdleConf
      BY <2>3, <2>4 DEF IdleConf
    <2> QED
      BY <2>1, <2>2, <2>3, <2>4 DEF Conf
  <1>3. CASE RollbackNext
    <2>1. \/ conf' = IdleConf
          \/ conf' = [conf EXCEPT !.step = "load", !.at = None]
          \/ conf' = [conf EXCEPT !.step = "unwind",
                                  !.stack = <<[blk |-> conf.at, next |-> 1]>>]
      BY <1>3 DEF RollbackNext, AfterRollback
    <2>2. CASE conf' = IdleConf
      BY <1>3, <2>2 DEF IdleConf, RollbackNext
    <2>3. CASE conf' # IdleConf
      BY <1>3, <2>1, <2>3 DEF RollbackNext, Conf
    <2> QED
      BY <2>2, <2>3
  <1>4. CASE UnwindLink
    BY <1>4 DEF UnwindLink, Conf
  <1>5. CASE UnwindBlock
    BY <1>5 DEF UnwindBlock, Conf
  <1>6. CASE LoadState
    <2>1. \/ conf' = IdleConf
          \/ conf' = [conf EXCEPT !.step = "main", !.state = mainBlock[conf.number].state]
      BY <1>6 DEF LoadState
    <2>2. CASE conf' = IdleConf
      BY <1>6, <2>2 DEF IdleConf, LoadState
    <2>3. CASE conf' # IdleConf
      BY <1>6, <2>1, <2>3 DEF LoadState, Conf
    <2> QED
      BY <2>2, <2>3
  <1>7. CASE NextMain
    BY <1>7 DEF NextMain, Conf
  <1>8. CASE VisitLink
    BY <1>8 DEF VisitLink, Conf
  <1>9. CASE VisitBlock
    BY <1>9 DEF VisitBlock, Conf
  <1> QED
    BY <1>1, <1>2, <1>3, <1>4, <1>5, <1>6, <1>7, <1>8, <1>9 DEF ConfirmStep

(* The commit of a main block adds it above its predecessor. *)
LEMMA CommitAdds ==
  ASSUME LinksInOrder, SInv, CommitMain
  PROVE  Abstract!Next
  <1>0. /\ conf.step = "commit" /\ UNCHANGED <<info, mainTail>> /\ conf \in Conf /\ TypeOK
        /\ conf.list # << >> /\ conf.list \in Seq(Blocks)
        /\ CommitNumbered /\ StateOfMainBlock /\ OnTop /\ NInv
        /\ conf.state.done = Ancestors[conf.list[1]] /\ conf.number <= mainTail.number + 1
    BY DEF CommitMain, ConfUnchanged, SInv, StateInv, NInv, NumberInv, IInv, ConfInv, ConfSound,
           Conf
  <1>1. PICK M \in Nat, T \in Nat : /\ M = conf.number - 1 /\ conf.number = M + 1
                                    /\ T = mainTail.number /\ M <= T
    BY <1>0 DEF CommitNumbered, Conf, TypeOK
  <1>2. Index(M) /\ Chained(2) /\ ListOn(mainBlock[M].hash)
    BY <1>0, <1>1 DEF CommitNumbered
  <1>3. PICK H \in Blocks : H = conf.list[1] /\ H = Head(conf.list) /\ 1 \in DOMAIN conf.list
    BY <1>0
  <1>4. PICK B \in Blocks : B = mainBlock[M].hash /\ M \in DOMAIN mainBlock
    BY <1>2 DEF Index
  <1>5. mainBlock' = [n \in DOMAIN mainBlock \cup {M + 1} |->
                        IF n = M + 1 THEN [hash |-> H, state |-> conf.state] ELSE mainBlock[n]]
    BY <1>1, <1>3 DEF CommitMain
  <1>6. /\ mainBlock'[M + 1].hash = H /\ mainBlock'[M + 1].state = conf.state
        /\ \A n \in 0 .. M : mainBlock'[n] = mainBlock[n]
    <2>1. \A n \in 0 .. M : n \in DOMAIN mainBlock /\ n # M + 1
      BY <1>2 DEF Index
    <2> QED
      BY <1>5, <2>1
  <1>7. info[H].tmpMax /\ info[H].maxLink = B
    BY <1>0, <1>2, <1>3, <1>4 DEF Chained, ListOn
  <1>8. H # Genesis /\ HasInfo(H)
    <2>1. H # Genesis
      BY <1>0, <1>7, BlocksAssumption DEF NInv, IInv, GraphInv, InfoSound
    <2>2. HasInfo(H)
      BY <1>7 DEF HasInfo, NoInfo
    <2> QED
      BY <2>1, <2>2
  <1>9. Slice[B] < Slice[H] /\ B \in Ancestors[H]
    BY <1>0, <1>4, <1>7, <1>8 DEF NInv, IInv, GraphInv, ChainShape, Reached
  <1>10. H \notin Ancestors[B]
    <2>1. H \in Ancestors[B] => Slice[H] <= Slice[B]
      BY AncestorsEarlier
    <2>2. Slice[H] \in Nat /\ Slice[B] \in Nat
      BY BlocksAssumption
    <2> QED
      BY <1>9, <2>1, <2>2
  <1>11. mainBlock[M].state.done = Ancestors[B] /\ conf.state.done = Ancestors[H]
    BY <1>0, <1>3, <1>4 DEF StateOfMainBlock
  <1>12. Abstract!Follows(mainBlock[M], mainBlock'[M + 1])
    <2>1. H \in Ancestors[H] /\ Ancestors[B] \subseteq Ancestors[H]
      BY <1>9, AncestorsClosed, AncestorsTransitive
    <2>2. Abstract!Closed(Ancestors[H])
      BY AncestorsClosed, LinkIndex DEF Abstract!Closed
    <2>3. /\ mainBlock[M].state.ok \subseteq conf.state.ok
          /\ conf.state.ok \ mainBlock[M].state.ok \subseteq Ancestors[H] \ Ancestors[B]
      BY <1>0, <1>1, <1>11 DEF OnTop
    <2> QED
      BY <1>6, <1>10, <1>11, <2>1, <2>2, <2>3 DEF Abstract!Follows
  <1>13. /\ Seen = [i \in 1 .. T + 1 |-> mainBlock[i - 1]]
         /\ Seen' = [i \in 1 .. (M + 1) + 1 |-> mainBlock'[i - 1]]
    <2>1. MainSoFar = T
      BY <1>0, <1>1 DEF MainSoFar
    <2>2. conf'.step = "tail" /\ conf'.number = M + 1
      BY <1>0, <1>1 DEF CommitMain, Conf
    <2>3. MainSoFar' = M + 1
      BY <2>2 DEF MainSoFar
    <2> QED
      BY <2>1, <2>3 DEF Seen
  <1>14. /\ Len(Seen) = T + 1 /\ Len(Seen') = (M + 1) + 1
         /\ M + 1 \in 1 .. T + 1
         /\ Seen[M + 1] = mainBlock[M] /\ Seen'[(M + 1) + 1] = mainBlock'[M + 1]
         /\ \A i \in 1 .. M + 1 : Seen'[i] = Seen[i]
    <2>1. /\ M + 1 \in 1 .. T + 1 /\ (M + 1) + 1 \in 1 .. (M + 1) + 1 /\ (M + 1) - 1 = M
          /\ ((M + 1) + 1) - 1 = M + 1
          /\ \A i \in 1 .. M + 1 : /\ i \in 1 .. T + 1 /\ i \in 1 .. (M + 1) + 1
                                   /\ i - 1 \in 0 .. M
      BY <1>1
    <2>2. Len(Seen) = T + 1 /\ Len(Seen') = (M + 1) + 1
      BY <1>13
    <2>3. Seen[M + 1] = mainBlock[M] /\ Seen'[(M + 1) + 1] = mainBlock'[M + 1]
      BY <1>13, <2>1
    <2>4. \A i \in 1 .. M + 1 : Seen'[i] = Seen[i]
      BY <1>6, <1>13, <2>1
    <2> QED
      BY <2>1, <2>2, <2>3, <2>4
  <1>15. SubSeq(Seen', 1, M + 1) = SubSeq(Seen, 1, M + 1)
    BY <1>14
  <1>16. \E k \in 1 .. Len(Seen) : /\ Len(Seen') = k + 1
                                   /\ SubSeq(Seen', 1, k) = SubSeq(Seen, 1, k)
                                   /\ Abstract!Follows(Seen[k], Seen'[k + 1])
    BY <1>12, <1>14, <1>15
  <1> QED
    BY <1>16 DEF Abstract!Next, Abstract!AddAbove, Seen

(* Seen through the main-block index, the main chain is an abstract ledger          *)
(* (main_chain.go:469-571): only the commit of a main block is a step of it, which     *)
(* keeps a prefix, lets only blocks take effect that were not settled in it, and      *)
(* undoes nothing that took effect there. Rollbacks, the walk and the workers are     *)
(* stutters.                                                                       *)
THEOREM ImplementsLedgerHolds ==
  ASSUME LinksInOrder, SlicesFit, Copies <= 1, MaxCrashes = 0
  PROVE  Spec => ImplementsLedger
  <1>1. Init => Abstract!Init
    <2> SUFFICES ASSUME Init PROVE Abstract!Init
      OBVIOUS
    <2>1. MainSoFar = 0 /\ mainBlock[0] = [hash |-> Genesis, state |-> GenesisLedger]
      BY DEF Init, MainSoFar, IdleConf
    <2>2. Seen = <<mainBlock[0]>>
      <3>1. 1 .. 0 + 1 = {1}
        OBVIOUS
      <3>2. Seen = [i \in {1} |-> mainBlock[i - 1]]
        BY <2>1, <3>1 DEF Seen
      <3> QED
        BY <3>2
    <2> QED
      BY <2>1, <2>2 DEF Abstract!Init, Seen, GenesisLedger
  <1>2. SInv /\ [Next]_vars => [Abstract!Next]_Seen
    <2> SUFFICES ASSUME SInv, [Next]_vars, ~CommitMain PROVE Seen' = Seen
      BY CommitAdds
    <2>0. conf \in Conf /\ TypeOK
      BY DEF SInv, NInv, IInv, ConfInv, ConfSound
    <2>1. CASE MoveMainTail
      <3>1. conf.step = "tail" /\ mainBlock' = mainBlock /\ mainTail'.number = conf.number
        BY <2>1 DEF MoveMainTail
      <3>2. conf'.step # "tail"
        <4>1. \/ conf' = IdleConf
              \/ conf' = [conf EXCEPT !.step = "main", !.list = Tail(conf.list)]
          BY <2>1 DEF MoveMainTail
        <4>2. CASE conf' = IdleConf
          BY <4>2 DEF IdleConf
        <4>3. CASE conf' # IdleConf
          BY <2>0, <4>1, <4>3 DEF Conf
        <4> QED
          BY <4>2, <4>3
      <3> QED
        BY <3>1, <3>2 DEF Seen, MainSoFar
    <2>2. CASE ConfirmStep /\ ~MoveMainTail
      BY <2>0, <2>2, OnlyCommitWrites DEF Seen, MainSoFar
    <2>3. ~CrashRestart
      BY <2>0 DEF CrashRestart, TypeOK
    <2>4. CASE ~ConfirmStep
      <3>1. UNCHANGED <<conf, mainTail, mainBlock>>
        BY <2>3, <2>4 DEF Next, AddBlock, SaveRlp, SaveInfo, UpdateTailCheck, UpdateTailWrite,
                          Tick, vars
      <3> QED
        BY <3>1 DEF Seen, MainSoFar
    <2> QED
      BY <2>1, <2>2, <2>4
  <1>3. Abstract!Spec <=> Abstract!Init /\ [][Abstract!Next]_Seen
    BY DEF Abstract!Spec, Seen
  <1> QED
    BY <1>1, <1>2, <1>3, StateAlways, PTL DEF Spec, ImplementsLedger
==============================================================================
