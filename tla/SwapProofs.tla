----------------------------- MODULE SwapProofs -----------------------------
(***************************************************************************)
(* Proofs about Swap for any number of processes, pages and frames: every  *)
(* page in RAM can become a victim until an access fails for want of a     *)
(* swap frame; until a victim was missed, or the area grows over an entry  *)
(* in use, every frame of either device is free or holds exactly one page; *)
(* and a page that is swapped out never comes back.                        *)
(***************************************************************************)
EXTENDS Swap, FiniteSetTheorems, TLAPS

------------------------------------------------------------------------------
(* The list of pages and the lists of frames.                              *)

LEMMA DropHead ==
  ASSUME NEW S, NEW s \in Seq(S), s # <<>>
  PROVE  /\ Tail(s) \in Seq(S) /\ Head(s) \in S
         /\ 1 \in DOMAIN s /\ Head(s) = s[1]
         /\ \A k \in DOMAIN Tail(s) :
              k + 1 \in DOMAIN s /\ k + 1 # 1 /\ Tail(s)[k] = s[k + 1]
OBVIOUS

LEMMA AddPage ==
  ASSUME NEW list \in Seq(Pages), NEW g \in Pages
  PROVE  /\ Enlist(list, g) \in Seq(Pages)
         /\ Range(list) \union {g} \subseteq Range(Enlist(list, g))
<1> DEFINE t == <<g>> \o list
<1>1. /\ t \in Seq(Pages) /\ 1 \in DOMAIN t /\ t[1] = g
      /\ \A k \in DOMAIN list : k + 1 \in DOMAIN t /\ t[k + 1] = list[k]
  OBVIOUS
<1> HIDE DEF t
<1>2. Range(list) \union {g} \subseteq Range(t)
  BY <1>1 DEF Range
<1>3. QED
  BY <1>1, <1>2 DEF t, Enlist

LEMMA AddPages ==
  ASSUME NEW list \in Seq(Pages), NEW first \in Nat, NEW n \in Nat,
         first + n <= NumPages
  PROVE  /\ EnlistAll(list, first, n) \in Seq(Pages)
         /\ Range(list) \subseteq Range(EnlistAll(list, first, n))
         /\ first .. first + n - 1 \subseteq Range(EnlistAll(list, first, n))
<1> DEFINE new == [k \in 1..n |-> first + n - k]
           t == new \o list
<1>1. new \in Seq(Pages) /\ Len(new) = n
  <2>1. \A k \in 1..n : first + n - k \in Pages
    BY SwapAssumption DEF Pages
  <2>2. QED
    BY <2>1
<1>2. /\ t \in Seq(Pages)
      /\ \A k \in DOMAIN list : n + k \in DOMAIN t /\ t[n + k] = list[k]
      /\ \A k \in 1..n : k \in DOMAIN t /\ t[k] = new[k]
  <2> HIDE DEF new
  <2> QED BY <1>1
<1>3. \A g \in first .. first + n - 1 :
        first + n - g \in 1..n /\ new[first + n - g] = g
  OBVIOUS
<1> HIDE DEF t, new
<1>4. Range(list) \subseteq Range(t)
  BY <1>2 DEF Range
<1>5. first .. first + n - 1 \subseteq Range(t)
  <2> SUFFICES ASSUME NEW g \in first .. first + n - 1 PROVE g \in Range(t)
    OBVIOUS
  <2>1. first + n - g \in DOMAIN t /\ t[first + n - g] = g
    BY <1>2, <1>3
  <2>2. QED
    BY <2>1 DEF Range
<1>6. QED
  BY <1>2, <1>4, <1>5 DEF t, new, EnlistAll

LEMMA DropVictim ==
  ASSUME NEW list \in Seq(Pages)
  PROVE  /\ WithoutVictim(list) \in Seq(Pages)
         /\ list # <<>> => Last(list) \in Pages
         /\ list # <<>> =>
              Range(list) \subseteq Range(WithoutVictim(list)) \union {Last(list)}
<1>1. CASE list = <<>>
  BY <1>1 DEF WithoutVictim
<1>2. CASE list # <<>>
  <2> DEFINE t == SubSeq(list, 1, Len(list) - 1)
  <2>1. /\ t \in Seq(Pages) /\ Last(list) = list[Len(list)]
        /\ list[Len(list)] \in Pages
        /\ \A k \in DOMAIN list : k # Len(list) => k \in DOMAIN t /\ t[k] = list[k]
    BY <1>2 DEF Last
  <2> HIDE DEF t
  <2>2. Range(list) \subseteq Range(t) \union {Last(list)}
    BY <2>1 DEF Range
  <2>3. WithoutVictim(list) = t
    BY <1>2 DEF WithoutVictim, Front, t
  <2>4. QED
    BY <2>1, <2>2, <2>3
<1>3. QED
  BY <1>1, <1>2

LEMMA VictimIsPage ==
  ASSUME TypeOK, NEW p \in Procs, NEW v \in Victims(p)
  PROVE  v \in Pages
BY DropVictim DEF Victims, TypeOK

------------------------------------------------------------------------------
(* What the two steps that change a page table change.                     *)

LEMMA GrowTables ==
  ASSUME TypeOK, NEW p \in Procs, NEW n \in 1..NumFrames, Grow(p, n)
  PROVE  /\ n \in Nat \ {0} /\ npages[p] \in Nat /\ npages[p] + n <= NumPages
         /\ NewPages(p, n) \subseteq Pages
         /\ \A h \in NewPages(p, n) :
              /\ n - (h - npages[p]) \in 1..n
              /\ n - (h - npages[p]) \in DOMAIN mram_free
              /\ pgd'[p][h] =
                   pte_set_fpn(pgd[p][h], mram_free[n - (h - npages[p])])
         /\ \A h \in Pages \ NewPages(p, n) : pgd'[p][h] = pgd[p][h]
         /\ \A q \in Procs \ {p} : pgd'[q] = pgd[q]
<1>1. n \in Nat \ {0} /\ npages[p] \in Nat /\ npages[p] + n <= NumPages
  BY SwapAssumption DEF TypeOK, Grow
<1>2. NewPages(p, n) \subseteq Pages
  BY <1>1, SwapAssumption DEF NewPages, Pages
<1>3. Len(mram_free) \in Nat /\ DOMAIN mram_free = 1..Len(mram_free)
      /\ n <= Len(mram_free)
  BY DEF TypeOK, Grow
<1>4. \A h \in NewPages(p, n) : /\ n - (h - npages[p]) \in 1..n
                           /\ n - (h - npages[p]) \in DOMAIN mram_free
  BY <1>1, <1>3 DEF NewPages
<1>5. pgd' = [pgd EXCEPT ![p] = [g \in Pages |->
                IF g \in NewPages(p, n)
                THEN pte_set_fpn(pgd[p][g], mram_free[n - (g - npages[p])])
                ELSE pgd[p][g]]]
  BY DEF Grow, NewPages
<1>6. pgd \in [Procs -> [Pages -> Entry]]
  BY DEF TypeOK
<1>7. QED
  BY <1>1, <1>2, <1>4, <1>5, <1>6

FaultTo(p, g, v, f) ==
  /\ pgd' = [pgd EXCEPT ![p] =
                AfterSwapIn(AfterSwapOut(@, v, f), g, pgd[p][v].fpn)]
  /\ stale' = (stale \/ (fifo_pgn[p] # <<>> /\ ~InRam(pgd[p][v])))

LEMMA FaultTables ==
  ASSUME TypeOK, NEW p \in Procs, NEW g \in Pages, ~pgd[p][g].present,
         NEW v \in Pages, NEW f \in Frames, FaultTo(p, g, v, f)
  PROVE  /\ \A h \in Pages \ {g, v} : pgd'[p][h] = pgd[p][h]
         /\ \A q \in Procs \ {p} : pgd'[q] = pgd[q]
         /\ v # g => pgd'[p][v] = pte_set_swap(pgd[p][v], Head(mswp_free), f)
         /\ v # g => pgd'[p][g] = pte_set_fpn(pgd[p][g], pgd[p][v].fpn)
         /\ v = g => pgd'[p][g] =
              pte_set_fpn(pte_set_swap(pgd[p][g], Head(mswp_free), f),
                          pgd[p][g].fpn)
<1> DEFINE out == pte_set_swap(pgd[p][v], Head(mswp_free), f)
           T1 == AfterSwapOut(pgd[p], v, f)
           T2 == AfterSwapIn(T1, g, pgd[p][v].fpn)
<1>1. pgd[p] \in [Pages -> Entry] /\ DOMAIN pgd = Procs
  BY DEF TypeOK
<1>2. T1 = [pgd[p] EXCEPT ![v] = out]
  BY DEF AfterSwapOut
<1>3. /\ DOMAIN T1 = Pages /\ T1[v] = out
      /\ \A h \in Pages \ {v} : T1[h] = pgd[p][h]
  <2> HIDE DEF out, T1
  <2> QED BY <1>1, <1>2
<1> HIDE DEF T1
<1>4. /\ T2[g] = pte_set_fpn(T1[g], pgd[p][v].fpn)
      /\ \A h \in Pages \ {g} : T2[h] = T1[h]
  BY <1>3 DEF AfterSwapIn
<1>5. pgd' = [pgd EXCEPT ![p] = T2]
  BY DEF FaultTo, T1
<1> HIDE DEF T2
<1>6. pgd'[p] = T2 /\ \A q \in Procs \ {p} : pgd'[q] = pgd[q]
  BY <1>1, <1>5
<1>7. QED
  BY <1>3, <1>4, <1>6

LEMMA Entries1 ==
  ASSUME NEW e \in Entry, NEW f \in Frames, NEW s \in 0..NumSwapFrames
  PROVE  /\ pte_set_fpn(e, f) \in Entry
         /\ pte_set_fpn(e, f).present /\ ~pte_set_fpn(e, f).swapped
         /\ pte_set_fpn(e, f).fpn = f
         /\ pte_set_swap(e, s, f) \in Entry
         /\ pte_set_swap(e, s, f).present /\ pte_set_swap(e, s, f).swapped
         /\ pte_set_swap(e, s, f).swp = s
BY DEF Entry, pte_set_fpn, pte_set_swap

LEMMA TypeInit == Init => TypeOK
<1> SUFFICES ASSUME Init PROVE TypeOK
  OBVIOUS
<1>1. ZeroEntry \in Entry
  BY SwapAssumption DEF ZeroEntry, Entry, Frames
<1>2. 0 \in 0..NumPages
  BY SwapAssumption
<1>3. mram_free \in Seq(Frames)
  <2>1. \A k \in 1..NumFrames : k - 1 \in Frames
    BY SwapAssumption DEF Frames
  <2>2. QED
    BY <2>1, SwapAssumption DEF Init
<1>4. mswp_free \in Seq(SwapFrames)
  <2>1. \A k \in 1..NumSwapFrames : k - 1 \in SwapFrames
    BY SwapAssumption DEF SwapFrames
  <2>2. QED
    BY <2>1, SwapAssumption DEF Init
<1>5. pgd \in [Procs -> [Pages -> Entry]]
  BY <1>1 DEF Init
<1>6. fifo_pgn \in [Procs -> Seq(Pages)] /\ npages \in [Procs -> 0..NumPages]
  BY <1>2 DEF Init
<1>7. QED
  BY <1>3, <1>4, <1>5, <1>6 DEF Init, TypeOK

LEMMA TypeStep == TypeOK /\ [Next]_vars => TypeOK'
<1> SUFFICES ASSUME TypeOK, [Next]_vars PROVE TypeOK'
  OBVIOUS
<1> USE DEF TypeOK
<1>1. ASSUME NEW p \in Procs, NEW n \in 1..NumFrames, Grow(p, n)
      PROVE  TypeOK'
  <2>1. npages' \in [Procs -> 0..NumPages]
    <3>1. npages[p] + n \in 0..NumPages
      BY <1>1, GrowTables, SwapAssumption
    <3>2. QED
      BY <1>1, <3>1 DEF Grow
  <2>2. pgd' \in [Procs -> [Pages -> Entry]]
    <3>1. \A h \in NewPages(p, n) :
            pte_set_fpn(pgd[p][h], mram_free[n - (h - npages[p])]) \in Entry
      BY <1>1, GrowTables, Entries1, SwapAssumption
    <3>2. \A h \in NewPages(p, n) : pgd'[p][h] \in Entry
      BY <1>1, <3>1, GrowTables
    <3>3. \A h \in Pages : pgd'[p][h] \in Entry
      BY <1>1, <3>2, GrowTables
    <3>4. DOMAIN pgd' = Procs /\ pgd'[p] = [h \in Pages |-> pgd'[p][h]]
      BY <1>1 DEF Grow
    <3>5. pgd'[p] \in [Pages -> Entry]
      BY <3>3, <3>4
    <3>6. pgd' = [pgd EXCEPT ![p] = pgd'[p]]
      BY <1>1 DEF Grow
    <3>7. QED
      BY <3>5, <3>6
  <2>3. fifo_pgn' \in [Procs -> Seq(Pages)]
    BY <1>1, GrowTables, AddPages DEF Grow
  <2>4. mram_free' \in Seq(Frames)
    BY <1>1, GrowTables DEF Grow
  <2>5. QED
    BY <1>1, <2>1, <2>2, <2>3, <2>4 DEF Grow
<1>2. ASSUME NEW p \in Procs, NEW g \in Pages, Hit(p, g)
      PROVE  TypeOK'
  BY <1>2, AddPage DEF Hit, events
<1>3. ASSUME NEW p \in Procs, NEW g \in Pages, FaultFails(p, g)
      PROVE  TypeOK'
  BY <1>3, DropVictim DEF FaultFails
<1>4. ASSUME NEW p \in Procs, NEW g \in Pages, Fault(p, g)
      PROVE  TypeOK'
  <2>1. PICK v \in Victims(p), f \in Frames : FaultTo(p, g, v, f)
    BY <1>4 DEF Fault, FaultTo
  <2>2. v \in Pages
    BY VictimIsPage
  <2>3. /\ mswp_free' \in Seq(SwapFrames)
        /\ Head(mswp_free) \in 0..NumSwapFrames
    <3>1. mswp_free # <<>> /\ mswp_free' = Tail(mswp_free)
      BY <1>4 DEF Fault, FreeSwapLeft
    <3>2. Tail(mswp_free) \in Seq(SwapFrames) /\ Head(mswp_free) \in SwapFrames
      BY <3>1, DropHead
    <3>3. SwapFrames \subseteq 0..NumSwapFrames
      BY SwapAssumption DEF SwapFrames
    <3>4. QED
      BY <3>1, <3>2, <3>3
  <2>4. pgd' \in [Procs -> [Pages -> Entry]]
    <3>1. pgd[p][v] \in Entry /\ pgd[p][v].fpn \in Frames
      BY <2>2 DEF Entry
    <3>2. AfterSwapOut(pgd[p], v, f) \in [Pages -> Entry]
      BY <2>2, <2>3, Entries1 DEF AfterSwapOut
    <3>3. \A e \in Entry : pte_set_fpn(e, pgd[p][v].fpn) \in Entry
      BY <3>1 DEF Entry, pte_set_fpn
    <3>4. AfterSwapIn(AfterSwapOut(pgd[p], v, f), g, pgd[p][v].fpn)
            \in [Pages -> Entry]
      BY <3>2, <3>3 DEF AfterSwapIn
    <3>5. QED
      BY <2>1, <3>4 DEF FaultTo
  <2>5. fifo_pgn' \in [Procs -> Seq(Pages)]
    BY <1>4, AddPage, DropVictim DEF Fault
  <2>6. stale' \in BOOLEAN
    BY <2>1 DEF FaultTo
  <2>7. QED
    BY <1>4, <2>3, <2>4, <2>5, <2>6 DEF Fault
<1>5. CASE UNCHANGED vars
  BY <1>5 DEF vars, tables, events
<1>6. QED
  BY <1>1, <1>2, <1>3, <1>4, <1>5 DEF Next, pg_getpage

(* Every variable keeps its type: page tables hold entries, the lists hold *)
(* pages and frames of the devices (mm.c, mm-memphy.c).                    *)
THEOREM SwapTypeOK == Spec => []TypeOK
BY TypeInit, TypeStep, PTL DEF Spec

------------------------------------------------------------------------------
(* The list of a process covers its pages in RAM.                          *)

LEMMA CoversStep ==
  TypeOK /\ CoversUnlessDropped /\ [Next]_vars => CoversUnlessDropped'
<1> SUFFICES ASSUME TypeOK, CoversUnlessDropped, [Next]_vars,
                    ~dropped',
                    NEW q \in Procs, NEW h \in Pages, InRam(pgd'[q][h])
             PROVE  h \in Range(fifo_pgn'[q])
  BY DEF CoversUnlessDropped, FifoCoversRam
<1>1. ASSUME ~dropped, InRam(pgd[q][h])
      PROVE  h \in Range(fifo_pgn[q])
  BY <1>1 DEF CoversUnlessDropped, FifoCoversRam
<1>2. ASSUME NEW p \in Procs, NEW n \in 1..NumFrames, Grow(p, n)
      PROVE  h \in Range(fifo_pgn'[q])
  <2>1. /\ ~dropped
        /\ p # q => fifo_pgn'[q] = fifo_pgn[q]
        /\ p = q => fifo_pgn'[q] = EnlistAll(fifo_pgn[q], npages[q], n)
    BY <1>2 DEF Grow, TypeOK
  <2>2. CASE p # q
    BY <1>1, <1>2, <2>1, <2>2, GrowTables
  <2>3. CASE p = q
    <3>1. fifo_pgn[q] \in Seq(Pages)
      BY DEF TypeOK
    <3>2. /\ Range(fifo_pgn[q]) \subseteq Range(fifo_pgn'[q])
          /\ NewPages(q, n) \subseteq Range(fifo_pgn'[q])
      BY <1>2, <2>1, <2>3, <3>1, GrowTables, AddPages DEF NewPages
    <3>3. CASE h \in NewPages(q, n)
      BY <3>2, <3>3
    <3>4. CASE h \notin NewPages(q, n)
      BY <1>1, <1>2, <2>1, <2>3, <3>2, <3>4, GrowTables
    <3>5. QED
      BY <3>3, <3>4
  <2>4. QED
    BY <2>2, <2>3
<1>3. ASSUME NEW p \in Procs, NEW g \in Pages, Hit(p, g)
      PROVE  h \in Range(fifo_pgn'[q])
  <2>1. fifo_pgn[q] \in Seq(Pages)
    BY DEF TypeOK
  <2>2. h \in Range(fifo_pgn[q])
    BY <1>1, <1>3 DEF Hit, events
  <2>3. Range(fifo_pgn[q]) \subseteq Range(fifo_pgn'[q])
    BY <1>3, <2>1, AddPage DEF Hit, events, TypeOK
  <2>4. QED
    BY <2>2, <2>3
<1>4. ASSUME NEW p \in Procs, NEW g \in Pages, Fault(p, g)
      PROVE  h \in Range(fifo_pgn'[q])
  <2>1. PICK v \in Victims(p), f \in Frames : FaultTo(p, g, v, f)
    BY <1>4 DEF Fault, FaultTo
  <2>2. v \in Pages /\ ~pgd[p][g].present /\ mswp_free # <<>> /\ ~dropped
    BY <1>4, VictimIsPage DEF Fault
  <2>3. CASE p # q
    <3>1. pgd'[q] = pgd[q] /\ fifo_pgn'[q] = fifo_pgn[q]
      BY <1>4, <2>1, <2>2, <2>3, FaultTables DEF Fault, TypeOK
    <3>2. QED
      BY <1>1, <2>2, <3>1
  <2>4. CASE p = q
    <3> DEFINE left == WithoutVictim(fifo_pgn[q])
    <3>1. /\ fifo_pgn'[q] = Enlist(left, g)
          /\ fifo_pgn[q] \in Seq(Pages)
      BY <1>4, <2>4 DEF Fault, TypeOK
    <3>2. Range(left) \union {g} \subseteq Range(fifo_pgn'[q])
      BY <3>1, AddPage, DropVictim
    <3>3. CASE h = g
      BY <3>2, <3>3
    <3>4. CASE h = v /\ h # g
      <4>1. pgd'[q][h] = pte_set_swap(pgd[q][h], Head(mswp_free), f)
        BY <2>1, <2>2, <2>4, <3>4, FaultTables
      <4>2. Head(mswp_free) \in 0..NumSwapFrames /\ pgd[q][h] \in Entry
        BY <2>2, DropHead, SwapAssumption DEF TypeOK, SwapFrames
      <4>3. QED
        BY <4>1, <4>2, Entries1 DEF InRam
    <3>5. CASE h # v /\ h # g
      <4>1. pgd'[q][h] = pgd[q][h]
        BY <2>1, <2>2, <2>4, <3>5, FaultTables
      <4>2. h \in Range(fifo_pgn[q])
        BY <1>1, <2>2, <4>1
      <4>3. fifo_pgn[q] # <<>>
        BY <4>2 DEF Range
      <4>4. v = Last(fifo_pgn[q])
        BY <2>4, <4>3 DEF Victims
      <4>5. h \in Range(left)
        BY <3>1, <3>5, <4>2, <4>3, <4>4, DropVictim
      <4>6. QED
        BY <3>2, <4>5
    <3>6. QED
      BY <3>3, <3>4, <3>5
  <2>5. QED
    BY <2>3, <2>4
<1>5. CASE UNCHANGED vars
  BY <1>1, <1>5 DEF vars, tables, events
<1>6. QED
  BY <1>2, <1>3, <1>4, <1>5 DEF Next, pg_getpage, FaultFails

(* Until an access fails for want of a swap frame, find_victim_page can    *)
(* find every page that is in RAM: enlist_pgn_node has put it on fifo_pgn  *)
(* and only its replacement took it off.                                   *)
THEOREM RamCovered == Spec => []CoversUnlessDropped
<1>1. Init => CoversUnlessDropped
  BY DEF Init, ZeroEntry, CoversUnlessDropped, FifoCoversRam, InRam
<1>2. QED
  BY <1>1, TypeInit, TypeStep, CoversStep, PTL DEF Spec

------------------------------------------------------------------------------
(* Swapped pages.                                                          *)

(* An entry that is swapped says PRESENT too: only pte_set_swap swaps.     *)
SwappedPresent ==
  \A p \in Procs, g \in Pages : pgd[p][g].swapped => pgd[p][g].present

(* What a step can do to one entry.                                        *)
LEMMA EntryStep ==
  ASSUME TypeOK, Next, NEW q \in Procs, NEW h \in Pages
  PROVE  \/ pgd'[q][h] = pgd[q][h]
         \/ /\ pgd'[q][h].present /\ ~pgd'[q][h].swapped
            /\ UNCHANGED npages => ~pgd[q][h].present
         \/ pgd'[q][h].present /\ pgd'[q][h].swapped
<1>1. pgd[q][h] \in Entry
  BY DEF TypeOK
<1>2. ASSUME NEW p \in Procs, NEW n \in 1..NumFrames, Grow(p, n)
      PROVE  \/ pgd'[q][h] = pgd[q][h]
             \/ /\ pgd'[q][h].present /\ ~pgd'[q][h].swapped
                /\ npages' # npages
  <2>1. npages' # npages
    <3>1. npages'[p] = npages[p] + n
      BY <1>2 DEF Grow, TypeOK
    <3>2. npages[p] \in Nat /\ n \in Nat \ {0}
      BY <1>2, GrowTables
    <3>3. QED
      BY <3>1, <3>2
  <2>2. CASE q = p /\ h \in NewPages(p, n)
    <3>1. mram_free[n - (h - npages[p])] \in Frames
      BY <1>2, <2>2, GrowTables DEF TypeOK
    <3>2. QED
      BY <1>1, <1>2, <2>1, <2>2, <3>1, GrowTables, Entries1, SwapAssumption
  <2>3. CASE ~(q = p /\ h \in NewPages(p, n))
    BY <1>2, <2>3, GrowTables
  <2>4. QED
    BY <2>2, <2>3
<1>3. ASSUME NEW p \in Procs, NEW g \in Pages, Fault(p, g)
      PROVE  \/ pgd'[q][h] = pgd[q][h]
             \/ /\ pgd'[q][h].present /\ ~pgd'[q][h].swapped
                /\ ~pgd[q][h].present
             \/ pgd'[q][h].present /\ pgd'[q][h].swapped
  <2>1. PICK v \in Victims(p), f \in Frames : FaultTo(p, g, v, f)
    BY <1>3 DEF Fault, FaultTo
  <2>2. v \in Pages /\ ~pgd[p][g].present /\ mswp_free # <<>>
    BY <1>3, VictimIsPage DEF Fault
  <2>3. Head(mswp_free) \in 0..NumSwapFrames
    BY <2>2, DropHead, SwapAssumption DEF TypeOK, SwapFrames
  <2>4. CASE q # p \/ h \notin {g, v}
    BY <2>1, <2>2, <2>4, FaultTables
  <2>5. CASE q = p /\ h = v /\ v # g
    BY <1>1, <2>1, <2>2, <2>3, <2>5, FaultTables, Entries1
  <2>6. CASE q = p /\ h = g
    <3>1. pgd[p][v].fpn \in Frames
      BY <2>2 DEF TypeOK, Entry
    <3>2. CASE v # g
      BY <1>1, <2>1, <2>2, <2>6, <3>1, <3>2, FaultTables, Entries1, SwapAssumption
    <3>3. CASE v = g
      <4>1. pte_set_swap(pgd[p][g], Head(mswp_free), f) \in Entry
        BY <1>1, <2>3, <2>6, Entries1
      <4>2. pgd'[p][g] = pte_set_fpn(pte_set_swap(pgd[p][g], Head(mswp_free), f),
                                     pgd[p][g].fpn)
        BY <2>1, <2>2, <3>3, FaultTables
      <4>3. QED
        BY <2>2, <2>3, <2>6, <3>1, <3>3, <4>1, <4>2, Entries1
    <3>4. QED
      BY <3>2, <3>3
  <2>7. QED
    BY <2>4, <2>5, <2>6
<1>4. ASSUME NEW p \in Procs, NEW g \in Pages, Hit(p, g) \/ FaultFails(p, g)
      PROVE  pgd'[q][h] = pgd[q][h]
  BY <1>4 DEF Hit, FaultFails, events
<1>5. QED
  BY <1>2, <1>3, <1>4 DEF Next, pg_getpage

LEMMA SwappedPresentStep ==
  TypeOK /\ SwappedPresent /\ [Next]_vars => SwappedPresent'
<1> SUFFICES ASSUME TypeOK, SwappedPresent, [Next]_vars,
                    NEW q \in Procs, NEW h \in Pages, pgd'[q][h].swapped
             PROVE  pgd'[q][h].present
  BY DEF SwappedPresent
<1>1. CASE Next
  BY <1>1, EntryStep DEF SwappedPresent
<1>2. CASE UNCHANGED vars
  BY <1>2 DEF vars, tables, events, SwappedPresent
<1>3. QED
  BY <1>1, <1>2

(* No access ever brings a page back from the swap device: pg_getpage      *)
(* looks at PRESENT, which pte_set_swap leaves set (libmem.c:295, 348).    *)
THEOREM SwappedNeverReturns == Spec => SwappedStaysOut
<1>1. Init => SwappedPresent
  BY DEF Init, ZeroEntry, SwappedPresent
<1>2. ASSUME TypeOK, SwappedPresent, [Next]_vars, UNCHANGED npages,
             NEW x \in Entries, EntryOf(x).swapped
      PROVE  EntryOf(x)'.swapped
  <2>1. x[1] \in Procs /\ x[2] \in Pages
    BY DEF Entries
  <2>2. pgd[x[1]][x[2]].swapped /\ pgd[x[1]][x[2]].present
    BY <1>2, <2>1 DEF SwappedPresent, EntryOf
  <2>3. CASE Next
    BY <1>2, <2>1, <2>2, <2>3, EntryStep DEF EntryOf
  <2>4. CASE UNCHANGED vars
    BY <2>2, <2>4 DEF vars, tables, events, EntryOf
  <2>5. QED
    BY <1>2, <2>3, <2>4
<1>3. TypeOK /\ SwappedPresent /\ [Next]_vars
        => [UNCHANGED npages =>
              \A x \in Entries : EntryOf(x).swapped => EntryOf(x)'.swapped]_vars
  BY <1>2
<1>4. QED
  BY <1>1, <1>3, TypeInit, TypeStep, SwappedPresentStep, PTL
     DEF Spec, SwappedStaysOut

------------------------------------------------------------------------------
(* The frames of both devices.                                             *)

(* Counting to one.                                                        *)
LEMMA OneAtMost ==
  ASSUME NEW A, NEW B,
         \A x, y \in A : x = y, \A x, y \in B : x = y, A = {} \/ B = {}
  PROVE  /\ Cardinality(A) + Cardinality(B) <= 1
         /\ A # {} \/ B # {} => Cardinality(A) + Cardinality(B) = 1
<1>1. ASSUME NEW S, \A x, y \in S : x = y
      PROVE  Cardinality(S) = IF S = {} THEN 0 ELSE 1
  <2>1. CASE S = {}
    BY <2>1, FS_EmptySet
  <2>2. CASE S # {}
    <3>1. PICK x \in S : TRUE
      BY <2>2
    <3>2. S = {x}
      BY <1>1, <3>1
    <3>3. QED
      BY <2>2, <3>2, FS_Singleton
  <2>3. QED
    BY <2>1, <2>2
<1>2. /\ Cardinality(A) = IF A = {} THEN 0 ELSE 1
      /\ Cardinality(B) = IF B = {} THEN 0 ELSE 1
  BY <1>1
<1>3. QED
  BY <1>2

Distinct(list) == \A j, k \in DOMAIN list : list[j] = list[k] => j = k

LEMMA RestDistinct ==
  ASSUME NEW S, NEW s \in Seq(S), NEW n \in Nat, n <= Len(s), Distinct(s)
  PROVE  LET t == SubSeq(s, n + 1, Len(s))
         IN  /\ Distinct(t)
             /\ \A k \in DOMAIN t : \E j \in DOMAIN s : j > n /\ t[k] = s[j]
<1> DEFINE t == SubSeq(s, n + 1, Len(s))
<1>1. /\ \A k \in DOMAIN t : k \in Nat \ {0} /\ n + k \in DOMAIN s /\ t[k] = s[n + k]
  OBVIOUS
<1> HIDE DEF t
<1>2. Distinct(t)
  BY <1>1 DEF Distinct
<1>3. \A k \in DOMAIN t : n + k > n
  BY <1>1
<1>4. QED
  BY <1>1, <1>2, <1>3 DEF t

(* No frame of the swap device twice, seen from the list and the tables.   *)
SwapInv ==
  /\ Distinct(mswp_free)
  /\ \A k \in DOMAIN mswp_free, p \in Procs, g \in Pages :
       pgd[p][g].swapped => pgd[p][g].swp # mswp_free[k]
  /\ \A p, q \in Procs, g, h \in Pages :
       pgd[p][g].swapped /\ pgd[q][h].swapped /\ pgd[p][g].swp = pgd[q][h].swp
         => p = q /\ g = h

InSwapList(s) == \E k \in DOMAIN mswp_free : mswp_free[k] = s
HoldsPage(s)  == \E p \in Procs, g \in Pages : pgd[p][g].swapped /\ pgd[p][g].swp = s

LEMMA SwapCounts ==
  ASSUME SwapInv, NEW s \in SwapFrames
  PROVE  /\ SwapUses(s) <= 1
         /\ InSwapList(s) \/ HoldsPage(s) => SwapUses(s) = 1
<1> DEFINE A == {k \in DOMAIN mswp_free : mswp_free[k] = s}
           B == {x \in Entries : EntryOf(x).swapped /\ EntryOf(x).swp = s}
<1>1. \A x, y \in A : x = y
  BY DEF SwapInv, Distinct
<1>2. \A x, y \in B : x = y
  <2> SUFFICES ASSUME NEW x \in B, NEW y \in B PROVE x = y
    OBVIOUS
  <2>1. x = <<x[1], x[2]>> /\ y = <<y[1], y[2]>>
        /\ x[1] \in Procs /\ x[2] \in Pages /\ y[1] \in Procs /\ y[2] \in Pages
    BY DEF Entries
  <2>2. x[1] = y[1] /\ x[2] = y[2]
    BY <2>1 DEF EntryOf, SwapInv
  <2>3. QED
    BY <2>1, <2>2
<1>3. A = {} \/ B = {}
  BY DEF EntryOf, Entries, SwapInv
<1>4. InSwapList(s) => A # {}
  BY DEF InSwapList
<1>5. HoldsPage(s) => B # {}
  <2> SUFFICES ASSUME NEW p \in Procs, NEW g \in Pages,
                      pgd[p][g].swapped, pgd[p][g].swp = s
               PROVE  <<p, g>> \in B
    BY DEF HoldsPage
  <2>1. <<p, g>> \in Entries /\ EntryOf(<<p, g>>) = pgd[p][g]
    BY DEF Entries, EntryOf
  <2>2. QED
    BY <2>1
<1>6. SwapUses(s) = Cardinality(A) + Cardinality(B)
  BY DEF SwapUses
<1> HIDE DEF A, B
<1>7. QED
  BY <1>1, <1>2, <1>3, <1>4, <1>5, <1>6, OneAtMost

(* The swapped pages after a step: those of before, and after a Fault the  *)
(* victim, with the frame at the head of the list.                         *)
LEMMA SwappedStep ==
  ASSUME TypeOK, NEW p \in Procs, NEW g \in Pages, Fault(p, g)
  PROVE  \E v \in Pages : \A q \in Procs, h \in Pages :
           pgd'[q][h].swapped =>
             \/ pgd[q][h].swapped /\ pgd'[q][h].swp = pgd[q][h].swp
                /\ ~(q = p /\ h = v)
             \/ q = p /\ h = v /\ pgd'[q][h].swp = Head(mswp_free)
<1>1. PICK v \in Victims(p), f \in Frames : FaultTo(p, g, v, f)
  BY DEF Fault, FaultTo
<1>2. v \in Pages /\ ~pgd[p][g].present /\ mswp_free # <<>>
  BY VictimIsPage DEF Fault
<1>3. Head(mswp_free) \in 0..NumSwapFrames /\ pgd[p][v].fpn \in Frames
  BY <1>2, DropHead, SwapAssumption DEF TypeOK, SwapFrames, Entry
<1>4. ASSUME NEW q \in Procs, NEW h \in Pages, pgd'[q][h].swapped
      PROVE  \/ pgd[q][h].swapped /\ pgd'[q][h].swp = pgd[q][h].swp
                /\ ~(q = p /\ h = v)
             \/ q = p /\ h = v /\ pgd'[q][h].swp = Head(mswp_free)
  <2>1. pgd[q][h] \in Entry
    BY DEF TypeOK
  <2>2. CASE q # p \/ h \notin {g, v}
    BY <1>1, <1>2, <1>4, <2>2, FaultTables
  <2>3. CASE q = p /\ h = v /\ v # g
    BY <1>1, <1>2, <1>3, <2>1, <2>3, FaultTables, Entries1
  <2>4. CASE q = p /\ h = g /\ v # g
    BY <1>1, <1>2, <1>3, <1>4, <2>1, <2>4, FaultTables, Entries1, SwapAssumption
  <2>5. CASE q = p /\ h = g /\ v = g
    <3>1. pte_set_swap(pgd[p][g], Head(mswp_free), f) \in Entry
      BY <1>3, <2>1, <2>5, Entries1
    <3>2. ~pgd'[p][g].swapped
      BY <1>1, <1>2, <1>3, <2>5, <3>1, FaultTables, Entries1
    <3>3. QED
      BY <1>4, <2>5, <3>2
  <2>6. QED
    BY <2>2, <2>3, <2>4, <2>5
<1>5. QED
  BY <1>2, <1>4

LEMMA SwapInvStep == TypeOK /\ SwapInv /\ [Next]_vars => SwapInv'
<1> SUFFICES ASSUME TypeOK, SwapInv, [Next]_vars PROVE SwapInv'
  OBVIOUS
<1>1. ASSUME NEW p \in Procs, NEW n \in 1..NumFrames, Grow(p, n)
      PROVE  SwapInv'
  <2>1. \A q \in Procs, h \in Pages :
          pgd'[q][h].swapped => pgd[q][h].swapped /\ pgd'[q][h].swp = pgd[q][h].swp
    <3> SUFFICES ASSUME NEW q \in Procs, NEW h \in Pages, pgd'[q][h].swapped
                 PROVE  pgd[q][h].swapped /\ pgd'[q][h].swp = pgd[q][h].swp
      OBVIOUS
    <3>1. CASE q = p /\ h \in NewPages(p, n)
      <4>1. /\ mram_free[n - (h - npages[p])] \in Frames
            /\ pgd[q][h] \in Entry
        BY <1>1, <3>1, GrowTables DEF TypeOK
      <4>2. QED
        BY <1>1, <3>1, <4>1, GrowTables, Entries1, SwapAssumption
    <3>2. CASE ~(q = p /\ h \in NewPages(p, n))
      BY <1>1, <3>2, GrowTables
    <3>3. QED
      BY <3>1, <3>2
  <2>2. QED
    BY <1>1, <2>1 DEF SwapInv, Grow, Distinct
<1>2. ASSUME NEW p \in Procs, NEW g \in Pages, Fault(p, g)
      PROVE  SwapInv'
  <2>1. PICK v \in Pages : \A q \in Procs, h \in Pages :
          pgd'[q][h].swapped =>
            \/ pgd[q][h].swapped /\ pgd'[q][h].swp = pgd[q][h].swp
               /\ ~(q = p /\ h = v)
            \/ q = p /\ h = v /\ pgd'[q][h].swp = Head(mswp_free)
    BY <1>2, SwappedStep
  <2>2. mswp_free \in Seq(SwapFrames) /\ mswp_free # <<>>
        /\ mswp_free' = Tail(mswp_free)
    BY <1>2 DEF Fault, FreeSwapLeft, TypeOK
  <2>3. /\ 1 \in DOMAIN mswp_free /\ Head(mswp_free) = mswp_free[1]
        /\ \A k \in DOMAIN mswp_free' :
             /\ k + 1 \in DOMAIN mswp_free /\ k + 1 # 1
             /\ mswp_free'[k] = mswp_free[k + 1]
        /\ DOMAIN mswp_free' \subseteq Nat
    BY <2>2, DropHead
  <2>4. Distinct(mswp_free)'
    BY <2>3 DEF SwapInv, Distinct
  <2>5. \A k \in DOMAIN mswp_free', q \in Procs, h \in Pages :
          pgd'[q][h].swapped => pgd'[q][h].swp # mswp_free'[k]
    BY <2>1, <2>3 DEF SwapInv, Distinct
  <2>6. \A q, r \in Procs, h, i \in Pages :
          pgd'[q][h].swapped /\ pgd'[r][i].swapped /\ pgd'[q][h].swp = pgd'[r][i].swp
            => q = r /\ h = i
    BY <2>1, <2>3 DEF SwapInv
  <2>7. QED
    BY <2>4, <2>5, <2>6 DEF SwapInv
<1>3. ASSUME NEW p \in Procs, NEW g \in Pages, Hit(p, g) \/ FaultFails(p, g)
      PROVE  SwapInv'
  BY <1>3 DEF Hit, FaultFails, events, SwapInv, Distinct
<1>4. CASE UNCHANGED vars
  BY <1>4 DEF vars, tables, events, SwapInv, Distinct
<1>5. QED
  BY <1>1, <1>2, <1>3, <1>4 DEF Next, pg_getpage

LEMMA SwapInvInit == Init => SwapInv
<1> SUFFICES ASSUME Init PROVE SwapInv
  OBVIOUS
<1>1. mswp_free = [k \in 1..NumSwapFrames |-> k - 1]
  BY DEF Init
<1>2. Distinct(mswp_free)
  BY <1>1 DEF Distinct
<1>3. \A p \in Procs, g \in Pages : ~pgd[p][g].swapped
  BY DEF Init, ZeroEntry
<1>4. QED
  BY <1>2, <1>3 DEF SwapInv

(* No frame of the RAM twice.                                              *)
FrameInv ==
  /\ Distinct(mram_free)
  /\ \A k \in DOMAIN mram_free, p \in Procs, g \in Pages :
       InRam(pgd[p][g]) => pgd[p][g].fpn # mram_free[k]
  /\ \A p, q \in Procs, g, h \in Pages :
       InRam(pgd[p][g]) /\ InRam(pgd[q][h]) /\ pgd[p][g].fpn = pgd[q][h].fpn
         => p = q /\ g = h

FrameInvUnlessMissed == ~unset /\ ~stale => FrameInv

InRamList(f)    == \E k \in DOMAIN mram_free : mram_free[k] = f
BelongsTo(f)    == \E p \in Procs, g \in Pages : InRam(pgd[p][g]) /\ pgd[p][g].fpn = f

LEMMA RamCounts ==
  ASSUME FrameInv, NEW f \in Frames
  PROVE  /\ RamUses(f) <= 1
         /\ InRamList(f) \/ BelongsTo(f) => RamUses(f) = 1
<1> DEFINE A == {k \in DOMAIN mram_free : mram_free[k] = f}
           B == {x \in Entries : InRam(EntryOf(x)) /\ EntryOf(x).fpn = f}
<1>1. \A x, y \in A : x = y
  BY DEF FrameInv, Distinct
<1>2. \A x, y \in B : x = y
  <2> SUFFICES ASSUME NEW x \in B, NEW y \in B PROVE x = y
    OBVIOUS
  <2>1. x = <<x[1], x[2]>> /\ y = <<y[1], y[2]>>
        /\ x[1] \in Procs /\ x[2] \in Pages /\ y[1] \in Procs /\ y[2] \in Pages
    BY DEF Entries
  <2>2. x[1] = y[1] /\ x[2] = y[2]
    BY <2>1 DEF EntryOf, FrameInv
  <2>3. QED
    BY <2>1, <2>2
<1>3. A = {} \/ B = {}
  BY DEF EntryOf, Entries, FrameInv
<1>4. InRamList(f) => A # {}
  BY DEF InRamList
<1>5. BelongsTo(f) => B # {}
  <2> SUFFICES ASSUME NEW p \in Procs, NEW g \in Pages,
                      InRam(pgd[p][g]), pgd[p][g].fpn = f
               PROVE  <<p, g>> \in B
    BY DEF BelongsTo
  <2>1. <<p, g>> \in Entries /\ EntryOf(<<p, g>>) = pgd[p][g]
    BY DEF Entries, EntryOf
  <2>2. QED
    BY <2>1
<1>6. RamUses(f) = Cardinality(A) + Cardinality(B)
  BY DEF RamUses
<1> HIDE DEF A, B
<1>7. QED
  BY <1>1, <1>2, <1>3, <1>4, <1>5, <1>6, OneAtMost

(* alloc_pages_range takes the first n frames, one for each new page.      *)
LEMMA GrowFrames ==
  ASSUME TypeOK, FrameInv, NEW p \in Procs, NEW n \in 1..NumFrames, Grow(p, n)
  PROVE  FrameInv'
<1> DEFINE At(h) == n - (h - npages[p])
<1>1. /\ n \in Nat /\ n <= Len(mram_free) /\ mram_free \in Seq(Frames)
      /\ mram_free' = SubSeq(mram_free, n + 1, Len(mram_free))
      /\ npages[p] \in Nat
  BY GrowTables DEF Grow, TypeOK
<1>2. /\ Distinct(mram_free')
      /\ \A k \in DOMAIN mram_free' :
           \E j \in DOMAIN mram_free : j > n /\ mram_free'[k] = mram_free[j]
  BY <1>1, RestDistinct DEF FrameInv
<1>3. \A h \in NewPages(p, n) :
        /\ At(h) \in 1..n /\ At(h) \in DOMAIN mram_free
        /\ pgd'[p][h].fpn = mram_free[At(h)]
  <2> SUFFICES ASSUME NEW h \in NewPages(p, n)
               PROVE  /\ At(h) \in 1..n /\ At(h) \in DOMAIN mram_free
                      /\ pgd'[p][h].fpn = mram_free[At(h)]
    OBVIOUS
  <2>1. /\ At(h) \in 1..n /\ At(h) \in DOMAIN mram_free
        /\ pgd'[p][h] = pte_set_fpn(pgd[p][h], mram_free[At(h)])
        /\ h \in Pages
    BY GrowTables
  <2>2. mram_free[At(h)] \in Frames /\ pgd[p][h] \in Entry
    BY <1>1, <2>1 DEF TypeOK
  <2>3. QED
    BY <2>1, <2>2, Entries1, SwapAssumption
<1>4. \A h, i \in NewPages(p, n) : At(h) = At(i) => h = i
  BY <1>1 DEF NewPages
<1> HIDE DEF At
<1>5. \A q \in Procs, h \in Pages :
        ~(q = p /\ h \in NewPages(p, n)) => pgd'[q][h] = pgd[q][h]
  BY GrowTables
<1>6. ASSUME NEW k \in DOMAIN mram_free', NEW q \in Procs, NEW h \in Pages,
             InRam(pgd'[q][h])
      PROVE  pgd'[q][h].fpn # mram_free'[k]
  <2>1. PICK j \in DOMAIN mram_free : j > n /\ mram_free'[k] = mram_free[j]
    BY <1>2
  <2>2. CASE q = p /\ h \in NewPages(p, n)
    <3>1. At(h) # j
      BY <1>1, <1>3, <2>1, <2>2
    <3>2. QED
      BY <1>3, <2>1, <2>2, <3>1 DEF FrameInv, Distinct
  <2>3. CASE ~(q = p /\ h \in NewPages(p, n))
    BY <1>5, <1>6, <2>1, <2>3 DEF FrameInv
  <2>4. QED
    BY <2>2, <2>3
<1>7. ASSUME NEW q \in Procs, NEW r \in Procs, NEW h \in Pages, NEW i \in Pages,
             InRam(pgd'[q][h]), InRam(pgd'[r][i]),
             pgd'[q][h].fpn = pgd'[r][i].fpn
      PROVE  q = r /\ h = i
  <2>1. CASE q = p /\ h \in NewPages(p, n) /\ r = p /\ i \in NewPages(p, n)
    BY <1>3, <1>4, <1>7, <2>1 DEF FrameInv, Distinct
  <2>2. CASE ~(q = p /\ h \in NewPages(p, n)) /\ ~(r = p /\ i \in NewPages(p, n))
    BY <1>5, <1>7, <2>2 DEF FrameInv
  <2>3. CASE q = p /\ h \in NewPages(p, n) /\ ~(r = p /\ i \in NewPages(p, n))
    BY <1>3, <1>5, <1>7, <2>3 DEF FrameInv
  <2>4. CASE ~(q = p /\ h \in NewPages(p, n)) /\ r = p /\ i \in NewPages(p, n)
    BY <1>3, <1>5, <1>7, <2>4 DEF FrameInv
  <2>5. QED
    BY <2>1, <2>2, <2>3, <2>4
<1>8. Distinct(mram_free)'
  BY <1>2 DEF Distinct
<1>9. QED
  BY <1>6, <1>7, <1>8 DEF FrameInv

(* The page that comes in gets the frame of the victim, if that had one.   *)
LEMMA FaultFrames ==
  ASSUME TypeOK, FrameInv, NEW p \in Procs, NEW g \in Pages, Fault(p, g),
         ~unset', ~stale'
  PROVE  FrameInv'
<1>1. PICK v \in Victims(p), f \in Frames : FaultTo(p, g, v, f)
  BY DEF Fault, FaultTo
<1>2. v \in Pages /\ ~pgd[p][g].present /\ mswp_free # <<>>
      /\ UNCHANGED mram_free
  BY VictimIsPage DEF Fault
<1>3. InRam(pgd[p][v]) /\ v # g
  BY <1>1, <1>2 DEF FaultTo, Fault, InRam
<1>4. Head(mswp_free) \in 0..NumSwapFrames /\ pgd[p][v].fpn \in Frames
  BY <1>2, DropHead, SwapAssumption DEF TypeOK, SwapFrames, Entry
<1>5. pgd[p][v] \in Entry /\ pgd[p][g] \in Entry
  BY <1>2 DEF TypeOK
<1>6. ~InRam(pgd'[p][v])
  BY <1>1, <1>2, <1>3, <1>4, <1>5, FaultTables, Entries1 DEF InRam
<1>7. pgd'[p][g].fpn = pgd[p][v].fpn
  <2>1. pgd'[p][g] = pte_set_fpn(pgd[p][g], pgd[p][v].fpn)
    BY <1>1, <1>2, <1>3, FaultTables
  <2>2. QED
    BY <1>4, <1>5, <2>1, Entries1
<1>8. \A q \in Procs, h \in Pages :
        ~(q = p /\ h \in {g, v}) => pgd'[q][h] = pgd[q][h]
  BY <1>1, <1>2, FaultTables
<1>9. \A q \in Procs, h \in Pages :
        InRam(pgd'[q][h]) =>
          \/ /\ InRam(pgd[q][h]) /\ pgd'[q][h].fpn = pgd[q][h].fpn
             /\ ~(q = p /\ h = v) /\ ~(q = p /\ h = g)
          \/ q = p /\ h = g /\ pgd'[q][h].fpn = pgd[p][v].fpn
  BY <1>6, <1>7, <1>8
<1>10. QED
  BY <1>2, <1>3, <1>9 DEF FrameInv, Distinct

LEMMA FrameInvStep ==
  TypeOK /\ FrameInvUnlessMissed /\ [Next]_vars => FrameInvUnlessMissed'
<1> SUFFICES ASSUME TypeOK, FrameInvUnlessMissed, [Next]_vars, ~unset', ~stale'
             PROVE  FrameInv'
  BY DEF FrameInvUnlessMissed
<1>1. ASSUME NEW p \in Procs, NEW n \in 1..NumFrames, Grow(p, n)
      PROVE  FrameInv'
  BY <1>1, GrowFrames DEF Grow, FrameInvUnlessMissed
<1>2. ASSUME NEW p \in Procs, NEW g \in Pages, Fault(p, g)
      PROVE  FrameInv'
  <2>1. ~unset /\ ~stale
    BY <1>2 DEF Fault
  <2>2. QED
    BY <1>2, <2>1, FaultFrames DEF FrameInvUnlessMissed
<1>3. ASSUME NEW p \in Procs, NEW g \in Pages, Hit(p, g) \/ FaultFails(p, g)
      PROVE  FrameInv'
  BY <1>3 DEF Hit, FaultFails, events, FrameInvUnlessMissed, FrameInv, Distinct
<1>4. CASE UNCHANGED vars
  BY <1>4 DEF vars, tables, events, FrameInvUnlessMissed, FrameInv, Distinct
<1>5. QED
  BY <1>1, <1>2, <1>3, <1>4 DEF Next, pg_getpage

LEMMA FrameInvInit == Init => FrameInvUnlessMissed
<1> SUFFICES ASSUME Init PROVE FrameInv
  BY DEF FrameInvUnlessMissed
<1>1. mram_free = [k \in 1..NumFrames |-> k - 1]
  BY DEF Init
<1>2. Distinct(mram_free)
  BY <1>1 DEF Distinct
<1>3. \A p \in Procs, g \in Pages : ~InRam(pgd[p][g])
  BY DEF Init, ZeroEntry, InRam
<1>4. QED
  BY <1>2, <1>3 DEF FrameInv

------------------------------------------------------------------------------
(* No frame is lost.                                                       *)

Kept ==
  /\ \A s \in SwapFrames : InSwapList(s) \/ HoldsPage(s)
  /\ \A f \in Frames : InRamList(f) \/ BelongsTo(f)

Undisturbed == ~unset /\ ~stale /\ ~remapped

LEMMA KeptInit == Init => Kept
<1> SUFFICES ASSUME Init PROVE Kept
  OBVIOUS
<1>1. ASSUME NEW s \in SwapFrames PROVE InSwapList(s)
  <2>1. s + 1 \in 1..NumSwapFrames /\ (s + 1) - 1 = s
    BY SwapAssumption DEF SwapFrames
  <2>2. mswp_free = [k \in 1..NumSwapFrames |-> k - 1]
    BY DEF Init
  <2>3. QED
    BY <2>1, <2>2 DEF InSwapList
<1>2. ASSUME NEW f \in Frames PROVE InRamList(f)
  <2>1. f + 1 \in 1..NumFrames /\ (f + 1) - 1 = f
    BY SwapAssumption DEF Frames
  <2>2. mram_free = [k \in 1..NumFrames |-> k - 1]
    BY DEF Init
  <2>3. QED
    BY <2>1, <2>2 DEF InRamList
<1>3. QED
  BY <1>1, <1>2 DEF Kept

(* The new pages had no frame of either device, and get all those taken.   *)
LEMMA GrowKeeps ==
  ASSUME TypeOK, SwappedPresent, Kept, ~remapped',
         NEW p \in Procs, NEW n \in 1..NumFrames, Grow(p, n)
  PROVE  Kept'
<1>1. /\ n \in Nat /\ n <= Len(mram_free) /\ mram_free \in Seq(Frames)
      /\ mram_free' = SubSeq(mram_free, n + 1, Len(mram_free))
      /\ mswp_free' = mswp_free
      /\ npages[p] \in Nat
      /\ \A g \in NewPages(p, n) : g \in Pages /\ ~pgd[p][g].present
  BY GrowTables DEF Grow, TypeOK
<1>2. \A q \in Procs, h \in Pages :
        pgd[q][h].present => pgd'[q][h] = pgd[q][h]
  BY <1>1, GrowTables
<1>3. ASSUME NEW s \in SwapFrames PROVE (InSwapList(s) \/ HoldsPage(s))'
  BY <1>1, <1>2 DEF Kept, InSwapList, HoldsPage, SwappedPresent
<1>4. ASSUME NEW f \in Frames PROVE (InRamList(f) \/ BelongsTo(f))'
  <2>1. CASE BelongsTo(f)
    BY <1>2, <2>1 DEF BelongsTo, InRam
  <2>2. ASSUME NEW k \in DOMAIN mram_free, mram_free[k] = f, k > n
        PROVE  InRamList(f)'
    <3>1. k - n \in DOMAIN mram_free' /\ mram_free'[k - n] = f
      BY <1>1, <2>2
    <3>2. QED
      BY <3>1 DEF InRamList
  <2>3. ASSUME NEW k \in DOMAIN mram_free, mram_free[k] = f, ~(k > n)
        PROVE  BelongsTo(f)'
    <3> DEFINE g == npages[p] + n - k
    <3>1. k \in 1..n
      BY <1>1, <2>3
    <3>2. g \in NewPages(p, n) /\ n - (g - npages[p]) = k
      BY <1>1, <3>1 DEF NewPages
    <3> HIDE DEF g
    <3>3. /\ g \in Pages /\ pgd[p][g] \in Entry
          /\ pgd'[p][g] = pte_set_fpn(pgd[p][g], f)
      BY <1>1, <2>3, <3>2, GrowTables DEF TypeOK
    <3>4. InRam(pgd'[p][g]) /\ pgd'[p][g].fpn = f
      BY <3>3, Entries1, SwapAssumption DEF InRam
    <3>5. QED
      BY <3>3, <3>4 DEF BelongsTo
  <2>4. QED
    BY <2>1, <2>2, <2>3 DEF Kept, InRamList
<1>5. QED
  BY <1>3, <1>4 DEF Kept

(* The victim leaves its frame to the page that comes in, and takes the    *)
(* first free frame of the swap device.                                    *)
LEMMA FaultKeeps ==
  ASSUME TypeOK, SwappedPresent, Kept, ~unset', ~stale',
         NEW p \in Procs, NEW g \in Pages, Fault(p, g)
  PROVE  Kept'
<1>1. PICK v \in Victims(p), f \in Frames : FaultTo(p, g, v, f)
  BY DEF Fault, FaultTo
<1>2. v \in Pages /\ ~pgd[p][g].present /\ mswp_free # <<>>
      /\ mram_free' = mram_free /\ mswp_free' = Tail(mswp_free)
  BY VictimIsPage DEF Fault, FreeSwapLeft
<1>3. InRam(pgd[p][v]) /\ v # g /\ ~pgd[p][g].swapped
  BY <1>1, <1>2 DEF FaultTo, Fault, InRam, SwappedPresent
<1>4. Head(mswp_free) \in 0..NumSwapFrames /\ pgd[p][v].fpn \in Frames
      /\ pgd[p][v] \in Entry /\ pgd[p][g] \in Entry
  BY <1>2, DropHead, SwapAssumption DEF TypeOK, SwapFrames, Entry
<1>5. /\ pgd'[p][v].swapped /\ pgd'[p][v].swp = Head(mswp_free)
      /\ InRam(pgd'[p][g]) /\ pgd'[p][g].fpn = pgd[p][v].fpn
  <2>1. /\ pgd'[p][v] = pte_set_swap(pgd[p][v], Head(mswp_free), f)
        /\ pgd'[p][g] = pte_set_fpn(pgd[p][g], pgd[p][v].fpn)
    BY <1>1, <1>2, <1>3, FaultTables
  <2>2. pgd'[p][v].swapped /\ pgd'[p][v].swp = Head(mswp_free)
    BY <1>4, <2>1 DEF pte_set_swap, Entry
  <2>3. InRam(pgd'[p][g]) /\ pgd'[p][g].fpn = pgd[p][v].fpn
    BY <1>4, <2>1 DEF pte_set_fpn, Entry, InRam
  <2>4. QED
    BY <2>2, <2>3
<1>6. \A q \in Procs, h \in Pages :
        ~(q = p /\ h \in {g, v}) => pgd'[q][h] = pgd[q][h]
  BY <1>1, <1>2, FaultTables
<1>7. ASSUME NEW s \in SwapFrames PROVE (InSwapList(s) \/ HoldsPage(s))'
  <2>1. CASE HoldsPage(s)
    BY <1>3, <1>6, <2>1 DEF HoldsPage, InRam
  <2>2. CASE s = Head(mswp_free)
    BY <1>2, <1>5, <2>2 DEF HoldsPage
  <2>3. ASSUME NEW k \in DOMAIN mswp_free, mswp_free[k] = s, s # Head(mswp_free)
        PROVE  InSwapList(s)'
    <3>1. k # 1 /\ mswp_free \in Seq(SwapFrames)
      BY <1>2, <2>3, DropHead DEF TypeOK
    <3>2. k - 1 \in DOMAIN Tail(mswp_free) /\ Tail(mswp_free)[k - 1] = s
      BY <1>2, <2>3, <3>1
    <3>3. QED
      BY <1>2, <3>2 DEF InSwapList
  <2>4. QED
    BY <2>1, <2>2, <2>3 DEF Kept, InSwapList
<1>8. ASSUME NEW x \in Frames PROVE (InRamList(x) \/ BelongsTo(x))'
  <2>1. CASE InRamList(x)
    BY <1>2, <2>1 DEF InRamList
  <2>2. ASSUME NEW q \in Procs, NEW h \in Pages, InRam(pgd[q][h]), pgd[q][h].fpn = x
        PROVE  BelongsTo(x)'
    <3>1. ~(q = p /\ h = g)
      BY <1>2, <2>2 DEF InRam
    <3>2. CASE q = p /\ h = v
      BY <1>5, <2>2, <3>2 DEF BelongsTo
    <3>3. CASE ~(q = p /\ h = v)
      BY <1>6, <2>2, <3>1, <3>3 DEF BelongsTo
    <3>4. QED
      BY <3>2, <3>3
  <2>3. QED
    BY <2>1, <2>2 DEF Kept, BelongsTo
<1>9. QED
  BY <1>7, <1>8 DEF Kept

LEMMA KeptStep ==
  TypeOK /\ SwappedPresent /\ (Undisturbed => Kept) /\ [Next]_vars
    => (Undisturbed' => Kept')
<1> SUFFICES ASSUME TypeOK, SwappedPresent, Undisturbed => Kept, [Next]_vars,
                    ~unset', ~stale', ~remapped'
             PROVE  Kept'
  BY DEF Undisturbed
<1>1. ASSUME NEW p \in Procs, NEW n \in 1..NumFrames, Grow(p, n)
      PROVE  Kept'
  <2>1. Undisturbed
    BY <1>1 DEF Grow, Undisturbed
  <2>2. QED
    BY <1>1, <2>1, GrowKeeps
<1>2. ASSUME NEW p \in Procs, NEW g \in Pages, Fault(p, g)
      PROVE  Kept'
  <2>1. Undisturbed
    BY <1>2 DEF Fault, Undisturbed
  <2>2. QED
    BY <1>2, <2>1, FaultKeeps
<1>3. ASSUME UNCHANGED <<pgd, mram_free, mswp_free, unset, stale, remapped>>
      PROVE  Kept'
  BY <1>3 DEF Undisturbed, Kept, InSwapList, HoldsPage, InRamList, BelongsTo
<1>4. QED
  BY <1>1, <1>2, <1>3
     DEF Next, pg_getpage, Hit, FaultFails, vars, tables, events

------------------------------------------------------------------------------
(* The theorems about the frames.                                          *)

(* No frame of the swap device ever holds two pages, whatever happens to   *)
(* the RAM: MEMPHY_get_freefp takes it from the list for good.  And each   *)
(* one is free or holds a page, until a victim is taken from an empty      *)
(* fifo_pgn or was not in RAM, or vmap_page_range sets an entry in use.    *)
THEOREM SwapDeviceOnce == Spec => []SwapFramesOnce
<1> DEFINE Inv == TypeOK /\ SwappedPresent /\ SwapInv /\ (Undisturbed => Kept)
<1>1. Init => Inv
  BY TypeInit, SwapInvInit, KeptInit
     DEF Init, ZeroEntry, SwappedPresent
<1>2. Inv /\ [Next]_vars => Inv'
  BY TypeStep, SwappedPresentStep, SwapInvStep, KeptStep
<1>3. Inv => SwapFramesOnce
  BY SwapCounts DEF SwapFramesOnce, Kept, Undisturbed
<1>4. QED
  BY <1>1, <1>2, <1>3, PTL DEF Spec

(* Until pg_getpage takes a victim from an empty fifo_pgn, or one that is  *)
(* not in RAM, no frame of the RAM is used twice; and each one is free or  *)
(* belongs to one page, until vmap_page_range also sets an entry in use.   *)
THEOREM RamOnceUnlessMissed == Spec => []FramesOnceUnlessMissed
<1> DEFINE Inv == /\ TypeOK /\ SwappedPresent /\ FrameInvUnlessMissed
                  /\ Undisturbed => Kept
<1>1. Init => Inv
  BY TypeInit, FrameInvInit, KeptInit
     DEF Init, ZeroEntry, SwappedPresent
<1>2. Inv /\ [Next]_vars => Inv'
  BY TypeStep, SwappedPresentStep, FrameInvStep, KeptStep
<1>3. Inv => FramesOnceUnlessMissed
  BY RamCounts DEF FramesOnceUnlessMissed, FrameInvUnlessMissed, Kept, Undisturbed
<1>4. QED
  BY <1>1, <1>2, <1>3, PTL DEF Spec

==============================================================================
