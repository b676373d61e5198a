-------------------------------- MODULE Memory --------------------------------
(***************************************************************************)
(* Memory management: libmem.c (regions of a process: liballoc, libfree,   *)
(* libwrite, libread), mm-vm.c (its one vm area), mm.c (page table) and    *)
(* mm-memphy.c (frames of the RAM).                                        *)
(*                                                                         *)
(* Each library call holds mmvm_lock from start to end, so it is one step. *)
(* Programs are well behaved here: they read and write inside regions they *)
(* have, and free only identifiers that were initialised.  For them every  *)
(* page is in RAM (RegionsMapped below), so the swapping half of           *)
(* pg_getpage is not here but in module Swap.  They may call sys_memmap    *)
(* themselves; what that does without mmvm_lock is in module MemLock.      *)
(***************************************************************************)
EXTENDS Integers, Sequences, FiniteSets, SequencesExt

CONSTANTS Procs,
          Regions,          \* indices of symrgtbl used by the programs
          Vals,             \* what a byte can hold
          PAGING_PAGESZ,
          NumFrames,        \* frames of mram
          MaxPages,         \* bound of the instance: pages of an area
          MaxAlloc,         \* bound of the instance: size asked for
          IncSizes          \* sizes programs ask of sys_memmap themselves

ASSUME MemoryAssumption ==
  /\ 0 \in Vals
  /\ Regions \subseteq Nat
  /\ PAGING_PAGESZ \in Nat \ {0}
  /\ NumFrames \in Nat \ {0, 1}    \* MEMPHY_format ends no list of one frame
  /\ MaxPages \in Nat /\ MaxAlloc \in Nat
  /\ IncSizes \subseteq Nat

Frames  == 0 .. NumFrames - 1
Pages   == 0 .. MaxPages - 1
Unmapped == NumFrames               \* a page table entry without PRESENT

VARIABLES
  symrgtbl,         \* the region of each identifier
  named,            \* the identifiers whose entry of symrgtbl is initialised
  vm_freerg_list,   \* free regions of the vm area
  vm_end, sbrk,     \* its limit and its break
  pgd,              \* frame of each page
  free_fp_list,     \* free frames of mram
  storage,          \* its bytes
  lost,             \* history: addresses nobody can use any more
  call              \* history: the call served last, with its result

areaVars == <<symrgtbl, named, vm_freerg_list, vm_end, sbrk, lost>>
ramVars  == <<pgd, free_fp_list, storage>>
vars == <<areaVars, ramVars>>

------------------------------------------------------------------------------
(* Regions.                                                                *)

Region(first, last) == [rg_start |-> first, rg_end |-> last]
Bytes(rg) == rg.rg_start .. rg.rg_end - 1

(* The free list is kept in the order of addresses; an empty region is     *)
(* refused.                                                                *)
enlist_vm_freerg_list(list, rg) ==
  LET next == SelectInSeq(list, LAMBDA x : x.rg_start >= rg.rg_end)
  IN  IF rg.rg_start >= rg.rg_end THEN list
      ELSE IF next = 0 THEN Append(list, rg)
      ELSE InsertAt(list, next, rg)

(* The first free region that is large enough, 0 if there is none.         *)
FirstFit(list, size) ==
  SelectInSeq(list, LAMBDA x : x.rg_end - x.rg_start >= size)

(* The loop of __free: absorb the free regions next to rg.                 *)
(* (Faulty variants: see Timer.)                                           *)
Absorb_BelowOnly(acc, x) ==
  IF x.rg_end = acc.rg.rg_start
  THEN [acc EXCEPT !.rg.rg_start = x.rg_start]
  ELSE [acc EXCEPT !.rest = Append(@, x)]

Absorb(acc, x) ==
  IF x.rg_end = acc.rg.rg_start
  THEN [acc EXCEPT !.rg.rg_start = x.rg_start]
  ELSE IF x.rg_start = acc.rg.rg_end
  THEN [acc EXCEPT !.rg.rg_end = x.rg_end]
  ELSE [acc EXCEPT !.rest = Append(@, x)]

Coalesced(list, rg) ==
  LET acc[k \in 0..Len(list)] == IF k = 0 THEN [rg |-> rg, rest |-> <<>>]
                                 ELSE Absorb(acc[k - 1], list[k])
  IN  acc[Len(list)]

(* PAGING_PAGE_ALIGNSZ(size) / PAGING_PAGESZ                               *)
NumPages_Down(size) == size \div PAGING_PAGESZ
NumPages(size) == (size + PAGING_PAGESZ - 1) \div PAGING_PAGESZ

(* Where the byte at an address of process p is in the RAM.                *)
PhysAddr_Untranslated(p, addr) == addr

PhysAddr(p, addr) ==
  pgd[p][addr \div PAGING_PAGESZ] * PAGING_PAGESZ + (addr % PAGING_PAGESZ)

------------------------------------------------------------------------------

(* MEMPHY_format.                                                          *)
AllFrames == [k \in 1..NumFrames |-> k - 1]

(* init_memphy, and init_mm of every process.                              *)
Init ==
  /\ symrgtbl = [p \in Procs |-> [r \in Regions |-> Region(0, 0)]]
  /\ named = [p \in Procs |-> Regions \intersect {0}]
  /\ vm_freerg_list = [p \in Procs |-> <<>>]
  /\ vm_end = [p \in Procs |-> 0]
  /\ sbrk = [p \in Procs |-> 0]
  /\ pgd = [p \in Procs |-> [g \in Pages |-> Unmapped]]
  /\ free_fp_list = AllFrames
  /\ storage = [a \in 0 .. NumFrames * PAGING_PAGESZ - 1 |-> 0]
  /\ lost = [p \in Procs |-> {}]
  /\ call = <<>>

(* The page at the end of the area.                                        *)
FirstNewPage_OffByOne(p) == vm_end[p] \div PAGING_PAGESZ + 1
FirstNewPage(p) == vm_end[p] \div PAGING_PAGESZ

(* alloc_pages_range: the first frames of the free list, the last taken    *)
(* first.                                                                  *)
Taken(pages) == Reverse(SubSeq(free_fp_list, 1, pages))

(* vmap_page_range: the new pages of the area get these frames, in order.  *)
Mapped(p, frm_lst) ==
  [g \in Pages |-> LET k == g - FirstNewPage(p) + 1
                   IN  IF k \in DOMAIN frm_lst THEN frm_lst[k] ELSE pgd[p][g]]

(* inc_vma_limit: the area grows by whole pages, the break follows.        *)
Limit(p, size) == vm_end[p] + NumPages(size) * PAGING_PAGESZ
Break(p, size) == Limit(p, size)

(* MEMPHY_put_freefp of each frame of frm_lst, at the head of a free list  *)
(* that was empty.                                                         *)
PutBack_Nothing(frm_lst) == <<>>
PutBack(frm_lst) == Reverse(frm_lst)

(* The entry of symrgtbl once its region, merged into rg, has been freed:  *)
(* an empty region is refused by the free list and left alone.             *)
AfterFree_Kept(entry, rg) == entry
AfterFree(entry, rg) ==
  IF rg.rg_start < rg.rg_end THEN Region(0, 0) ELSE entry

(* symrgtbl[r] = rg; the region that was there is forgotten.               *)
Bind(p, r, rg) ==
  /\ symrgtbl' = [symrgtbl EXCEPT ![p][r] = rg]
  /\ named' = [named EXCEPT ![p] = @ \union {r}]
  /\ lost' = [lost EXCEPT ![p] = @ \union Bytes(symrgtbl[p][r])]

(* __alloc, served by get_free_vmrg_area.                                  *)
AllocFromFreeList(p, r, size) ==
  LET list == vm_freerg_list[p]
      fit  == FirstFit(list, size)
      rg   == list[fit]
  IN  /\ fit # 0
      /\ Bind(p, r, Region(rg.rg_start, rg.rg_start + size))
      /\ vm_freerg_list' =
           [vm_freerg_list EXCEPT ![p] =
              enlist_vm_freerg_list(RemoveAt(list, fit),
                                    Region(rg.rg_start + size, rg.rg_end))]
      /\ UNCHANGED <<vm_end, sbrk, ramVars>>

(* inc_vma_limit when there are enough frames.                             *)
Extend(p, size) ==
  /\ NumPages(size) <= Len(free_fp_list)
  /\ Limit(p, size) <= MaxPages * PAGING_PAGESZ
  /\ free_fp_list' = SubSeq(free_fp_list, NumPages(size) + 1, Len(free_fp_list))
  /\ pgd' = [pgd EXCEPT ![p] = Mapped(p, Taken(NumPages(size)))]
  /\ vm_end' = [vm_end EXCEPT ![p] = Limit(p, size)]
  /\ sbrk' = [sbrk EXCEPT ![p] = Break(p, size)]
  /\ UNCHANGED storage

(* __alloc, served by inc_vma_limit; what is left of the last page is a    *)
(* free region.                                                            *)
AllocByGrowing(p, r, size) ==
  /\ FirstFit(vm_freerg_list[p], size) = 0
  /\ Extend(p, size)
  /\ Bind(p, r, Region(sbrk[p], sbrk[p] + size))
  /\ vm_freerg_list' = [vm_freerg_list EXCEPT ![p] =
       enlist_vm_freerg_list(@, Region(sbrk[p] + size, Limit(p, size)))]

(* __alloc without enough frames: alloc_pages_range has taken them all and *)
(* puts them back, the last one first; __alloc restores the limits.        *)
AllocFails(p, r, size) ==
  /\ FirstFit(vm_freerg_list[p], size) = 0
  /\ NumPages(size) > Len(free_fp_list)
  /\ free_fp_list' = PutBack(Taken(Len(free_fp_list)))
  /\ UNCHANGED <<areaVars, pgd, storage>>

(* SYSMEM_INC_OP of sys_memmap, called by the program itself: the area     *)
(* grows, also when there are not enough frames for its new pages, and no  *)
(* region is made of what it gained.                                       *)
IncLimit(p, size) ==
  /\ \/ Extend(p, size)
     \/ /\ NumPages(size) > Len(free_fp_list)
        /\ Limit(p, size) <= MaxPages * PAGING_PAGESZ
        /\ vm_end' = [vm_end EXCEPT ![p] = Limit(p, size)]
        /\ sbrk' = [sbrk EXCEPT ![p] = Break(p, size)]
        /\ free_fp_list' = PutBack(Taken(Len(free_fp_list)))
        /\ UNCHANGED <<pgd, storage>>
  /\ lost' = [lost EXCEPT ![p] = @ \union (sbrk[p] .. sbrk'[p] - 1)]
  /\ UNCHANGED <<symrgtbl, named, vm_freerg_list>>

(* __free.  An identifier freed before has the region [0, 0).              *)
FreeRegion(p, r) ==
  LET freed == Coalesced(vm_freerg_list[p], symrgtbl[p][r])
  IN  /\ r \in named[p]
      /\ vm_freerg_list' = [vm_freerg_list EXCEPT ![p] =
                              enlist_vm_freerg_list(freed.rest, freed.rg)]
      /\ symrgtbl' = [symrgtbl EXCEPT ![p][r] = AfterFree(@, freed.rg)]
      /\ UNCHANGED <<named, vm_end, sbrk, lost, ramVars>>

(* __write inside a region.                                                *)
Write(p, r, offset, value) ==
  /\ r \in named[p]
  /\ symrgtbl[p][r].rg_start + offset \in Bytes(symrgtbl[p][r])
  /\ storage' = [storage EXCEPT
                   ![PhysAddr(p, symrgtbl[p][r].rg_start + offset)] = value]
  /\ UNCHANGED <<areaVars, pgd, free_fp_list>>

(* What __read inside a region returns; it changes nothing.                *)
Read(p, r, offset) == storage[PhysAddr(p, symrgtbl[p][r].rg_start + offset)]

ReadByte(p, r, offset) ==
  /\ r \in named[p]
  /\ symrgtbl[p][r].rg_start + offset \in Bytes(symrgtbl[p][r])
  /\ UNCHANGED vars

------------------------------------------------------------------------------
(* The calls: of which process, about which identifier, with which size or *)
(* offset, and the byte or the result of an allocation.                    *)

Served(op, p, r, n, v) == call' = <<op, p, r, n, v>>

liballoc(p, r, size) ==
  \/ /\ AllocFromFreeList(p, r, size) \/ AllocByGrowing(p, r, size)
     /\ Served("alloc", p, r, size, 0)
  \/ AllocFails(p, r, size) /\ Served("alloc", p, r, size, -1)

libfree(p, r) == FreeRegion(p, r) /\ Served("free", p, r, 0, 0)

libwrite(p, r, offset, value) ==
  Write(p, r, offset, value) /\ Served("write", p, r, offset, value)

libread(p, r, offset) ==
  ReadByte(p, r, offset) /\ Served("read", p, r, offset, Read(p, r, offset))

memmap(p, size) == IncLimit(p, size) /\ Served("memmap", p, 0, size, 0)

Next ==
  \E p \in Procs :
    \/ \E size \in IncSizes : memmap(p, size)
    \/ \E r \in Regions :
         \/ \E size \in 0..MaxAlloc : liballoc(p, r, size)
         \/ libfree(p, r)
         \/ \E offset \in 0..MaxAlloc-1 :
              libread(p, r, offset) \/ \E value \in Vals : libwrite(p, r, offset, value)

Spec == Init /\ [][Next]_<<vars, call>>

------------------------------------------------------------------------------

Limits == 0 .. MaxPages * PAGING_PAGESZ
RegionType == [rg_start : Limits, rg_end : Limits]

TypeOK ==
  /\ symrgtbl \in [Procs -> [Regions -> RegionType]]
  /\ named \in [Procs -> SUBSET Regions]
  /\ vm_freerg_list \in [Procs -> Seq(RegionType)]
  /\ vm_end \in [Procs -> Limits] /\ sbrk \in [Procs -> Limits]
  /\ pgd \in [Procs -> [Pages -> Frames \union {Unmapped}]]
  /\ free_fp_list \in Seq(Frames)
  /\ storage \in [0 .. NumFrames * PAGING_PAGESZ - 1 -> Vals]
  /\ lost \in [Procs -> SUBSET Limits]

(* Every address of the area belongs to exactly one free region, or one    *)
(* identifier, or was lost by allocating an identifier twice or growing    *)
(* the area directly: no two regions overlap and freeing and reusing loses *)
(* no memory, not even when an identifier is freed twice.                  *)
Owners(p, a) ==
    Cardinality({k \in DOMAIN vm_freerg_list[p] : a \in Bytes(vm_freerg_list[p][k])})
  + Cardinality({r \in Regions : a \in Bytes(symrgtbl[p][r])})
  + (IF a \in lost[p] THEN 1 ELSE 0)

AreaPartitioned ==
  \A p \in Procs, a \in Limits :
    Owners(p, a) = IF a < vm_end[p] THEN 1 ELSE 0

(* The free list is sorted and fully merged: no empty region and no two    *)
(* regions that touch, so a free block is never missed by the first fit    *)
(* because it is in two pieces.                                            *)
FreeListMerged ==
  \A p \in Procs :
    LET list == vm_freerg_list[p]
    IN  /\ \A k \in DOMAIN list : list[k].rg_start < list[k].rg_end
        /\ \A k \in 1 .. Len(list) - 1 : list[k].rg_end < list[k + 1].rg_start

(* Every frame of the RAM is either free, once, or mapped by one page of   *)
(* one process: processes share no frame, and a failed allocation that has *)
(* taken some of the frames it needs leaks none.                           *)
FramesConserved ==
  \A f \in Frames :
    Cardinality({k \in DOMAIN free_fp_list : free_fp_list[k] = f})
      + Cardinality({x \in Procs \X Pages : pgd[x[1]][x[2]] = f}) = 1

(* Every address of a region, in use or free, is on a mapped page: an      *)
(* access inside a region never reaches the swapping code, although a      *)
(* program that grows its area by itself can leave pages unmapped.         *)
RegionsMapped ==
  \A p \in Procs, a \in Limits :
    a < vm_end[p] /\ a \notin lost[p] => pgd[p][a \div PAGING_PAGESZ] # Unmapped

(* The bytes of each region as the program sees them.                      *)
storeBar ==
  [p \in Procs |-> [r \in Regions |->
     [k \in 0 .. symrgtbl[p][r].rg_end - symrgtbl[p][r].rg_start - 1 |->
        Read(p, r, k)]]]

Programs == INSTANCE ProcessMemory WITH store <- storeBar

(* Refinement: regions, free list, page tables and frames together give    *)
(* each process private regions that keep what is written to them, so that *)
(* every read returns the byte written there last.                         *)
ImplementsProcessMemory == Programs!PMSpec

==============================================================================
