--------------------------------- MODULE Swap ---------------------------------
(***************************************************************************)
(* Page replacement: pg_getpage and find_victim_page of libmem.c, the page *)
(* table entries and the list fifo_pgn of mm.c, the frames of the RAM and  *)
(* of the active swap device of mm-memphy.c.  Regions are left out: what a *)
(* process has here is the number of pages its area has grown to.          *)
(*                                                                         *)
(* Nothing compares the offset of a read or a write with its region, so a  *)
(* program can reach every page of its page table, and does here: inside   *)
(* its area Memory shows that no page is ever missing.  Each call holds    *)
(* mmvm_lock and is one step.                                              *)
(***************************************************************************)
EXTENDS Integers, FiniteSets, SequencesExt

CONSTANTS Procs,
          NumFrames,        \* frames of mram
          NumSwapFrames,    \* frames of the active swap device
          NumPages,         \* bound of the instance: entries of a page table
          MaxFifo           \* bound of the instance: length of fifo_pgn

ASSUME SwapAssumption ==
  /\ NumFrames \in Nat \ {0, 1} /\ NumSwapFrames \in Nat
  /\ NumPages \in Nat \ {0} /\ MaxFifo \in Nat

Frames     == 0 .. NumFrames - 1
SwapFrames == 0 .. NumSwapFrames - 1
Pages      == 0 .. NumPages - 1

VARIABLES
  npages,           \* pages of the area of each process (vm_end)
  pgd,              \* its page table
  fifo_pgn,         \* its list of pages, the last one added first
  mram_free,        \* free_fp_list of the RAM
  mswp_free,        \* free_fp_list of the swap device
  unset,            \* history: a victim came from an empty list
  stale,            \* history: a victim of a list was not in RAM
  remapped,         \* history: the area grew over a page with an entry
  dropped           \* history: an access failed after it took its victim

tables == <<npages, pgd, fifo_pgn>>
events == <<unset, stale, remapped, dropped>>
vars   == <<tables, mram_free, mswp_free, events>>

------------------------------------------------------------------------------
(* Page table entries.  The table comes zeroed from the heap.              *)

Entry == [present : BOOLEAN, swapped : BOOLEAN, fpn : Frames, swp : 0..NumSwapFrames]
ZeroEntry == [present |-> FALSE, swapped |-> FALSE, fpn |-> 0, swp |-> 0]

pte_set_fpn(pte, f) ==
  [pte EXCEPT !.present = TRUE, !.swapped = FALSE, !.fpn = f]

(* How the bits of the swap offset read as a frame number, which depends   *)
(* on masks of a header that is not in the repository: f.                  *)
pte_set_swap(pte, s, f) ==
  [pte EXCEPT !.present = TRUE, !.swapped = TRUE, !.swp = s, !.fpn = f]

InRam(pte) == pte.present /\ ~pte.swapped

Init ==
  /\ npages = [p \in Procs |-> 0]
  /\ pgd = [p \in Procs |-> [g \in Pages |-> ZeroEntry]]
  /\ fifo_pgn = [p \in Procs |-> <<>>]
  /\ mram_free = [k \in 1..NumFrames |-> k - 1]
  /\ mswp_free = [k \in 1..NumSwapFrames |-> k - 1]
  /\ unset = FALSE /\ stale = FALSE /\ remapped = FALSE /\ dropped = FALSE

------------------------------------------------------------------------------

(* enlist_pgn_node.                                                        *)
Enlist(list, pgn) == <<pgn>> \o list

(* vmap_page_range for n new pages, with the frames of alloc_pages_range:  *)
(* the last one it took first.  It does not look at the entries it sets: a *)
(* page beyond the area that was accessed before has one.  Without enough  *)
(* frames the call fails and nothing changes.  (Faulty variants: see       *)
(* Timer.)                                                                 *)
EnlistAll_OffByOne(list, first, n) == [k \in 1..n |-> first + n - k + 1] \o list
EnlistAll(list, first, n) == [k \in 1..n |-> first + n - k] \o list

NewPages(p, n) == npages[p] .. npages[p] + n - 1

Grow(p, n) ==
  /\ n <= Len(mram_free) /\ npages[p] + n <= NumPages
  /\ Len(fifo_pgn[p]) + n <= MaxFifo
  /\ npages' = [npages EXCEPT ![p] = @ + n]
  /\ pgd' = [pgd EXCEPT ![p] = [g \in Pages |->
       IF g \in NewPages(p, n)
       THEN pte_set_fpn(@[g], mram_free[n - (g - npages[p])])
       ELSE @[g]]]
  /\ fifo_pgn' = [fifo_pgn EXCEPT ![p] = EnlistAll(@, npages[p], n)]
  /\ mram_free' = SubSeq(mram_free, n + 1, Len(mram_free))
  /\ remapped' = (remapped \/ \E g \in NewPages(p, n) : pgd[p][g].present)
  /\ UNCHANGED <<mswp_free, unset, stale, dropped>>

(* pg_getpage of a page whose entry is PRESENT, be it swapped or not.      *)
Hit(p, g) ==
  /\ pgd[p][g].present
  /\ Len(fifo_pgn[p]) < MaxFifo
  /\ fifo_pgn' = [fifo_pgn EXCEPT ![p] = Enlist(@, g)]
  /\ UNCHANGED <<npages, pgd, mram_free, mswp_free, events>>

(* find_victim_page: the page added first; of an empty list, whatever is   *)
(* in the variable vicpgn, which nobody has set.                           *)
Victims(p) ==
  IF fifo_pgn[p] = <<>> THEN Pages ELSE {Last(fifo_pgn[p])}

WithoutVictim_Newest(list) == IF list = <<>> THEN <<>> ELSE Tail(list)
WithoutVictim(list) == IF list = <<>> THEN <<>> ELSE Front(list)

(* pg_getpage of a page that is not PRESENT, when the swap is full: it     *)
(* returns -1, the victim is out of the list.                              *)
FaultFails(p, g) ==
  /\ ~pgd[p][g].present
  /\ mswp_free = <<>>
  /\ fifo_pgn' = [fifo_pgn EXCEPT ![p] = WithoutVictim(@)]
  /\ dropped' = TRUE
  /\ UNCHANGED <<npages, pgd, mram_free, mswp_free, unset, stale, remapped>>

(* Otherwise victim v goes to the first free swap frame and page g gets    *)
(* its frame, whatever that is.                                            *)
AfterSwapOut_Kept(table, v, f) == table
AfterSwapOut(table, v, f) ==
  [table EXCEPT ![v] = pte_set_swap(@, Head(mswp_free), f)]

AfterSwapIn(table, g, frame) == [table EXCEPT ![g] = pte_set_fpn(@, frame)]

FreeSwapLeft_Same(list) == list
FreeSwapLeft(list) == Tail(list)

Fault(p, g) ==
  /\ ~pgd[p][g].present
  /\ mswp_free # <<>>
  /\ \E v \in Victims(p), f \in Frames :
       /\ pgd' = [pgd EXCEPT ![p] =
                     AfterSwapIn(AfterSwapOut(@, v, f), g, pgd[p][v].fpn)]
       /\ stale' = (stale \/ (fifo_pgn[p] # <<>> /\ ~InRam(pgd[p][v])))
  /\ unset' = (unset \/ fifo_pgn[p] = <<>>)
  /\ mswp_free' = FreeSwapLeft(mswp_free)
  /\ fifo_pgn' = [fifo_pgn EXCEPT ![p] = Enlist(WithoutVictim(@), g)]
  /\ UNCHANGED <<npages, mram_free, remapped, dropped>>

pg_getpage(p, g) == Hit(p, g) \/ FaultFails(p, g) \/ Fault(p, g)

Next ==
  \E p \in Procs :
    \/ \E n \in 1..NumFrames : Grow(p, n)
    \/ \E g \in Pages : pg_getpage(p, g)

Spec == Init /\ [][Next]_vars

------------------------------------------------------------------------------

TypeOK ==
  /\ npages \in [Procs -> 0..NumPages]
  /\ pgd \in [Procs -> [Pages -> Entry]]
  /\ fifo_pgn \in [Procs -> Seq(Pages)]
  /\ mram_free \in Seq(Frames) /\ mswp_free \in Seq(SwapFrames)
  /\ unset \in BOOLEAN /\ stale \in BOOLEAN
  /\ remapped \in BOOLEAN /\ dropped \in BOOLEAN

Entries == Procs \X Pages
EntryOf(x) == pgd[x[1]][x[2]]

(* mm.c:110, "add the page to the FIFO list, to replace it later": every   *)
(* page in RAM is on the list of its process and can become a victim.      *)
FifoCoversRam ==
  \A p \in Procs, g \in Pages : InRam(pgd[p][g]) => g \in Range(fifo_pgn[p])

(* It is so until an access fails for want of a swap frame.                *)
CoversUnlessDropped == ~dropped => FifoCoversRam

(* How often a frame of each device is in use: in its list of free frames, *)
(* or for a page.                                                          *)
SwapUses(s) ==
    Cardinality({k \in DOMAIN mswp_free : mswp_free[k] = s})
  + Cardinality({x \in Entries : EntryOf(x).swapped /\ EntryOf(x).swp = s})
RamUses(f) ==
    Cardinality({k \in DOMAIN mram_free : mram_free[k] = f})
  + Cardinality({x \in Entries : InRam(EntryOf(x)) /\ EntryOf(x).fpn = f})

(* No frame of the swap device is ever used twice: it is free, or it holds *)
(* at most one page.  And none is lost, each one is free or holds a page,  *)
(* until a victim is taken from an empty list or was not in RAM (when it   *)
(* is in swap it gets a second swap frame, and its first is lost), or the  *)
(* area grows over a page that is in swap.                                 *)
SwapFramesOnce ==
  \A s \in SwapFrames :
    /\ SwapUses(s) <= 1
    /\ ~unset /\ ~stale /\ ~remapped => SwapUses(s) = 1

(* libmem.c:321, "the empty frame (the frame of the victim just replaced)":*)
(* until a victim is taken from an empty list, or was not in RAM, no frame *)
(* of the RAM is used twice; and none is lost, each one is free or belongs *)
(* to one page, until the area also grows over a page that has a frame.    *)
FramesOnceUnlessMissed ==
  ~unset /\ ~stale =>
    \A f \in Frames :
      /\ RamUses(f) <= 1
      /\ ~remapped => RamUses(f) = 1

(* The entry of a page that was swapped out still says PRESENT, the next   *)
(* access takes it for one in RAM, and no access ever brings a page back   *)
(* from the swap device, whatever the processes do.                        *)
SwappedStaysOut ==
  [][UNCHANGED npages =>
       \A x \in Entries : EntryOf(x).swapped => EntryOf(x)'.swapped]_vars

(* libmem.c:348, "make sure the page is in RAM (swap it in if need be)":   *)
(* after an access that succeeds the page accessed is in RAM, as long as   *)
(* every victim was found on a list and in RAM itself.                     *)
AccessBringsIn ==
  [][~unset /\ ~stale =>
       \A p \in Procs, g \in Pages :
         Hit(p, g) \/ Fault(p, g) => InRam(pgd'[p][g])]_vars

==============================================================================
