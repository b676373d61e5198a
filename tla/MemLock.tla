-------------------------------- MODULE MemLock --------------------------------
(***************************************************************************)
(* mmvm_lock of libmem.c and the free frames it protects.  liballoc,       *)
(* libfree, libread and libwrite hold this one mutex, whatever the         *)
(* process, from their first statement to their return; who gives it back  *)
(* is the first question here.  What they do inside is in module Memory,   *)
(* but for alloc_pages_range of mm.c, which is here step by step: it takes *)
(* frames one at a time (MEMPHY_get_freefp) and gives them back when there *)
(* are too few (MEMPHY_put_freefp), and both functions of mm-memphy.c read *)
(* the head of mram->free_fp_list and assign it later.  A program's own    *)
(* system call memmap (SYSMEM_INC_OP) gets there without the mutex.        *)
(***************************************************************************)
EXTENDS Integers, Sequences, Functions, SequencesExt

CONSTANTS CPUs,
          Free,         \* the mutex has no owner
          Calls,        \* the calls the programs make
          NumFrames,    \* frames of mram
          MaxPages      \* bound of the instance: pages asked for at once

(* The calls, by how they end: with the identifier of a region in range,   *)
(* or out of range (__alloc does not test its identifier).                 *)
LibraryCalls == {"alloc", "free", "free_invalid", "access", "access_invalid"}

ASSUME MemLockAssumption ==
  /\ Free \notin CPUs
  /\ Calls \subseteq LibraryCalls \union {"memmap"}
  /\ NumFrames \in Nat \ {0, 1}    \* MEMPHY_format ends no list of one frame
  /\ MaxPages \in Nat

Frames == 0 .. NumFrames - 1

VARIABLES
  mmvm_lock,        \* owner of the mutex
  call,             \* the call each CPU is in, or None
  pc,               \* where it is
  req_pgnum,        \* the frames its alloc_pages_range is to take
  fp,               \* the free list as the CPU read it, until it assigns it
  frm_lst,          \* the frames it has taken
  free_fp_list,     \* free frames of mram
  owned,            \* the frames the processes of each CPU have mapped
  raced             \* history: a memmap took frames together with another call

listVars == <<req_pgnum, fp, frm_lst, free_fp_list, owned>>
vars == <<mmvm_lock, call, pc, listVars, raced>>

None == "none"

(* In no call, waiting for the mutex, about to return; and in              *)
(* alloc_pages_range: about to read the head to take a frame, to unlink    *)
(* the frame read, to read the head to give one back, to link it.          *)
Taking == {"get", "unlink", "put", "link"}
Steps  == {"idle", "lock", "return"} \union Taking

(* The calls that return without pthread_mutex_unlock: __read and __write  *)
(* when get_symrg_byid has refused the identifier (__free unlocks), and    *)
(* memmap, which has not locked.                                           *)
Unlocks(kind) == kind \notin {"access_invalid", "memmap"}

------------------------------------------------------------------------------

Init ==
  /\ mmvm_lock = Free
  /\ call = [c \in CPUs |-> None]
  /\ pc = [c \in CPUs |-> "idle"]
  /\ req_pgnum = [c \in CPUs |-> 0]
  /\ fp = [c \in CPUs |-> <<>>]
  /\ frm_lst = [c \in CPUs |-> <<>>]
  /\ free_fp_list = [k \in 1..NumFrames |-> k - 1]
  /\ owned = [c \in CPUs |-> {}]
  /\ raced = FALSE

At(c, step) == pc[c] = step
Goto(c, step) == pc' = [pc EXCEPT ![c] = step]

(* inc_vma_limit, vm_map_ram, alloc_pages_range.                           *)
TakeFrames(c, kind) ==
  /\ \E pages \in 0..MaxPages : req_pgnum' = [req_pgnum EXCEPT ![c] = pages]
  /\ Goto(c, "get")
  /\ raced' = (raced \/ \E d \in CPUs \ {c} :
                          pc[d] \in Taking /\ "memmap" \in {kind, call[d]})
  /\ UNCHANGED <<fp, frm_lst, free_fp_list, owned>>

CallLibrary(c) ==
  /\ At(c, "idle")
  /\ \E kind \in Calls \intersect LibraryCalls : call' = [call EXCEPT ![c] = kind]
  /\ Goto(c, "lock")
  /\ UNCHANGED <<mmvm_lock, listVars, raced>>

(* pthread_mutex_lock; then __alloc may find no free region and extend the *)
(* area, and every other call does what Memory says.                       *)
Lock_Passes(c) ==
  /\ At(c, "lock")
  /\ mmvm_lock' = c
  /\ \/ call[c] = "alloc" /\ TakeFrames(c, "alloc")
     \/ Goto(c, "return") /\ UNCHANGED <<listVars, raced>>
  /\ UNCHANGED call

Lock(c) ==
  /\ At(c, "lock")
  /\ mmvm_lock = Free /\ mmvm_lock' = c
  /\ \/ call[c] = "alloc" /\ TakeFrames(c, "alloc")
     \/ Goto(c, "return") /\ UNCHANGED <<listVars, raced>>
  /\ UNCHANGED call

(* Bound of the instance: the programs call memmap until the first race.   *)
MemmapBound == ~raced

CallMemmap(c) ==
  /\ At(c, "idle")
  /\ "memmap" \in Calls /\ MemmapBound
  /\ call' = [call EXCEPT ![c] = "memmap"]
  /\ TakeFrames(c, "memmap")
  /\ UNCHANGED mmvm_lock

(* MEMPHY_get_freefp: fp = mp->free_fp_list.  Without a frame the loop of  *)
(* alloc_pages_range is over.  (Faulty variants: see Timer.)               *)
AfterRead_TryAgain(list) == IF list = <<>> THEN "get" ELSE "unlink"
AfterRead(list) == IF list = <<>> THEN "put" ELSE "unlink"

ReadToTake(c) ==
  /\ At(c, "get") /\ Len(frm_lst[c]) < req_pgnum[c]
  /\ fp' = [fp EXCEPT ![c] = free_fp_list]
  /\ Goto(c, AfterRead(free_fp_list))
  /\ UNCHANGED <<mmvm_lock, call, req_pgnum, frm_lst, free_fp_list, owned, raced>>

(* mp->free_fp_list = fp->fp_next, and the frame goes to the head of       *)
(* frm_lst.                                                                *)
Unlink(c) ==
  /\ At(c, "unlink")
  /\ free_fp_list' = Tail(fp[c])
  /\ frm_lst' = [frm_lst EXCEPT ![c] = <<Head(fp[c])>> \o @]
  /\ fp' = [fp EXCEPT ![c] = <<>>]
  /\ Goto(c, "get")
  /\ UNCHANGED <<mmvm_lock, call, req_pgnum, owned, raced>>

(* The rollback.  MEMPHY_put_freefp: fp = mp->free_fp_list.                *)
ReadToGive(c) ==
  /\ At(c, "put") /\ frm_lst[c] # <<>>
  /\ fp' = [fp EXCEPT ![c] = free_fp_list]
  /\ Goto(c, "link")
  /\ UNCHANGED <<mmvm_lock, call, req_pgnum, frm_lst, free_fp_list, owned, raced>>

(* newnode->fp_next = fp; mp->free_fp_list = newnode.                      *)
Link_DropsRest(c) ==
  /\ At(c, "link")
  /\ free_fp_list' = <<Head(frm_lst[c])>>
  /\ frm_lst' = [frm_lst EXCEPT ![c] = Tail(@)]
  /\ fp' = [fp EXCEPT ![c] = <<>>]
  /\ Goto(c, "put")
  /\ UNCHANGED <<mmvm_lock, call, req_pgnum, owned, raced>>

Link(c) ==
  /\ At(c, "link")
  /\ free_fp_list' = <<Head(frm_lst[c])>> \o fp[c]
  /\ frm_lst' = [frm_lst EXCEPT ![c] = Tail(@)]
  /\ fp' = [fp EXCEPT ![c] = <<>>]
  /\ Goto(c, "put")
  /\ UNCHANGED <<mmvm_lock, call, req_pgnum, owned, raced>>

(* vmap_page_range maps the frames taken, or the rollback is over, or the  *)
(* call took none; it returns.                                             *)
Return(c) ==
  /\ \/ At(c, "get") /\ Len(frm_lst[c]) = req_pgnum[c]
     \/ At(c, "put") /\ frm_lst[c] = <<>>
     \/ At(c, "return")
  /\ owned' = [owned EXCEPT ![c] = @ \union Range(frm_lst[c])]
  /\ frm_lst' = [frm_lst EXCEPT ![c] = <<>>]
  /\ req_pgnum' = [req_pgnum EXCEPT ![c] = 0]
  /\ mmvm_lock' = IF Unlocks(call[c]) THEN Free ELSE mmvm_lock
  /\ call' = [call EXCEPT ![c] = None]
  /\ Goto(c, "idle")
  /\ UNCHANGED <<fp, free_fp_list, raced>>

Proceed(c) ==
  ReadToTake(c) \/ Unlink(c) \/ ReadToGive(c) \/ Link(c) \/ Return(c)

Next == \E c \in CPUs : CallLibrary(c) \/ Lock(c) \/ CallMemmap(c) \/ Proceed(c)

(* The host runs every CPU thread and hands a free mutex to each waiter    *)
(* some time.                                                              *)
Spec == /\ Init /\ [][Next]_vars
        /\ \A c \in CPUs : SF_vars(Lock(c)) /\ WF_vars(Proceed(c))

------------------------------------------------------------------------------

(* libmem.c:409 answers an invalid identifier with an error return, like   *)
(* __free does: every library call returns to its program.                 *)
CallsReturn == \A c \in CPUs : pc[c] # "idle" ~> pc[c] = "idle"

InHand(c, f) == f \in Range(frm_lst[c])
Has(c, f)    == InHand(c, f) \/ f \in owned[c]

(* Every frame is in one place, once: in the free list, in the hands of    *)
(* one CPU that is allocating, or in the page tables of one CPU's          *)
(* processes; a rollback in the middle of an allocation loses none.        *)
FramesHeldOnce ==
  /\ IsInjective(free_fp_list)
  /\ \A c \in CPUs : IsInjective(frm_lst[c])
  /\ \A f \in Frames :
       /\ f \in Range(free_fp_list) <=> \A c \in CPUs : ~Has(c, f)
       /\ \A c \in CPUs : ~(InHand(c, f) /\ f \in owned[c])
       /\ \A c, d \in CPUs : Has(c, f) /\ Has(d, f) => c = d

(* The mutex makes it so (libmem.c:100, "protect the memory with a mutex") *)
(* for every library call, also for those between which a program's own    *)
(* memmap ran: nothing goes wrong until a memmap takes frames while        *)
(* another CPU takes frames too.                                           *)
FramesOnceUnlessRaced == ~raced => FramesHeldOnce

(* Refinement: until then an allocation, with its reads, its assignments   *)
(* and its rollback, is a request that is granted in one step, all of it,  *)
(* with frames nobody has; or refused, and then there were not so many     *)
(* (mm.c:146-160).                                                         *)
Unowned == Frames \ UNION {owned[c] : c \in CPUs}
Wanted  == [c \in CPUs |-> IF pc[c] \in Taking THEN req_pgnum[c] ELSE -1]

Pool == INSTANCE FramePool WITH
          Holders <- CPUs, MaxRequest <- MaxPages,
          pool <- Unowned, held <- owned, want <- Wanted
ImplementsFramePool ==
  Pool!FPInit /\ [][raced' \/ Pool!FPNext]_<<Unowned, owned, Wanted>>

==============================================================================
