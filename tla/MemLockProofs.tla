---------------------------- MODULE MemLockProofs ----------------------------
(***************************************************************************)
(* Proofs about MemLock for any number of CPUs and frames: as long as no   *)
(* memmap takes frames together with another call, mmvm_lock lets one CPU  *)
(* at a time take frames, frames are held once, and each allocation is a   *)
(* request that FramePool answers in one step.                             *)
(***************************************************************************)
EXTENDS MemLock, FiniteSetTheorems, TLAPS

------------------------------------------------------------------------------
(* The two ends of MEMPHY_get_freefp and MEMPHY_put_freefp.                *)

LEMMA RangeOfNothing == Range(<<>>) = {}
BY DEF Range

(* MEMPHY_get_freefp takes one frame off, once.                            *)
LEMMA TakeHead ==
  ASSUME NEW s \in Seq(Frames), s # <<>>, IsInjective(s)
  PROVE  /\ Tail(s) \in Seq(Frames) /\ Head(s) \in Frames
         /\ IsInjective(Tail(s))
         /\ Head(s) \notin Range(Tail(s))
         /\ Range(s) = Range(Tail(s)) \union {Head(s)}
<1> DEFINE t == Tail(s)
<1>1. /\ t \in Seq(Frames) /\ Head(s) \in Frames
      /\ 1 \in DOMAIN s /\ Head(s) = s[1]
      /\ \A k \in DOMAIN t : k + 1 \in DOMAIN s /\ t[k] = s[k + 1]
      /\ \A k \in DOMAIN s : k # 1 => k - 1 \in DOMAIN t /\ t[k - 1] = s[k]
      /\ DOMAIN t \subseteq Nat \ {0} /\ DOMAIN s \subseteq Nat
  OBVIOUS
<1> HIDE DEF t
<1>2. IsInjective(t)
  BY <1>1 DEF IsInjective
<1>3. Head(s) \notin Range(t)
  <2> SUFFICES ASSUME NEW k \in DOMAIN t, t[k] = s[1] PROVE FALSE
    BY <1>1 DEF Range
  <2> QED
    BY <1>1 DEF IsInjective
<1>4. Range(s) \subseteq Range(t) \union {Head(s)}
  <2> SUFFICES ASSUME NEW k \in DOMAIN s PROVE s[k] \in Range(t) \union {Head(s)}
    BY DEF Range
  <2>1. CASE k = 1
    BY <1>1, <2>1
  <2>2. CASE k # 1
    BY <1>1, <2>2 DEF Range
  <2>3. QED
    BY <2>1, <2>2
<1>5. Range(t) \union {Head(s)} \subseteq Range(s)
  BY <1>1 DEF Range
<1>6. QED
  BY <1>1, <1>2, <1>3, <1>4, <1>5 DEF t

(* MEMPHY_put_freefp adds one.                                             *)
LEMMA PutHead ==
  ASSUME NEW s \in Seq(Frames), NEW x \in Frames
  PROVE  /\ <<x>> \o s \in Seq(Frames) /\ <<x>> \o s # <<>>
         /\ Range(<<x>> \o s) = Range(s) \union {x}
         /\ IsInjective(s) /\ x \notin Range(s) => IsInjective(<<x>> \o s)
<1> DEFINE t == <<x>> \o s
<1>1. /\ t \in Seq(Frames) /\ t # <<>>
      /\ 1 \in DOMAIN t /\ t[1] = x
      /\ \A k \in DOMAIN s : k + 1 \in DOMAIN t /\ t[k + 1] = s[k]
      /\ \A k \in DOMAIN t : k # 1 => k - 1 \in DOMAIN s /\ t[k] = s[k - 1]
      /\ DOMAIN t \subseteq Nat
  OBVIOUS
<1> HIDE DEF t
<1>2. Range(t) = Range(s) \union {x}
  BY <1>1 DEF Range
<1>3. ASSUME IsInjective(s), x \notin Range(s) PROVE IsInjective(t)
  BY <1>1, <1>3 DEF IsInjective, Range
<1>4. QED
  BY <1>1, <1>2, <1>3 DEF t

------------------------------------------------------------------------------
(* The inductive invariant.  A library call that takes frames owns the     *)
(* mutex, so two CPUs can take frames together only if one is in memmap,   *)
(* and then it has raced.                                                  *)

MLTypeOK ==
  /\ pc \in [CPUs -> Steps]
  /\ call \in [CPUs -> LibraryCalls \union {"memmap", None}]
  /\ req_pgnum \in [CPUs -> 0..MaxPages]
  /\ fp \in [CPUs -> Seq(Frames)]
  /\ frm_lst \in [CPUs -> Seq(Frames)]
  /\ free_fp_list \in Seq(Frames)
  /\ owned \in [CPUs -> SUBSET Frames]

TakesFrames(c) == pc[c] \in Taking

LockHeld ==
  \A c \in CPUs :
    /\ pc[c] = "lock" => call[c] \in LibraryCalls
    /\ pc[c] = "return" \/ (TakesFrames(c) /\ call[c] # "memmap") => mmvm_lock = c
    /\ pc[c] = "return" => call[c] # "memmap"

OneTakes ==
  ~raced => \A c, d \in CPUs : TakesFrames(c) /\ TakesFrames(d) => c = d

(* What a CPU has read is still the list when it assigns it, because       *)
(* nobody else takes frames.                                               *)
ReadFresh ==
  \A c \in CPUs :
    /\ ~TakesFrames(c) => frm_lst[c] = <<>>
    /\ pc[c] = "unlink" => fp[c] # <<>>
    /\ pc[c] = "link" => frm_lst[c] # <<>>
    /\ ~raced /\ pc[c] \in {"unlink", "link"} => fp[c] = free_fp_list

MLInv == MLTypeOK /\ LockHeld /\ OneTakes /\ ReadFresh /\ FramesOnceUnlessRaced

LEMMA MLInit == Init => MLInv
<1> SUFFICES ASSUME Init PROVE MLInv
  OBVIOUS
<1> DEFINE all == [k \in 1..NumFrames |-> k - 1]
<1>1. all \in Seq(Frames) /\ IsInjective(all)
  BY MemLockAssumption DEF Frames, IsInjective
<1>2. Range(all) = Frames
  <2>1. \A f \in Frames : f + 1 \in DOMAIN all /\ all[f + 1] = f
    BY MemLockAssumption DEF Frames
  <2>2. \A k \in DOMAIN all : all[k] \in Frames
    BY MemLockAssumption DEF Frames
  <2>3. QED
    BY <2>1, <2>2 DEF Range
<1> HIDE DEF all
<1>3. free_fp_list = all
  BY DEF Init, all
<1>4. MLTypeOK
  <2>1. <<>> \in Seq(Frames) /\ 0 \in 0..MaxPages
    BY MemLockAssumption
  <2>2. QED
    BY <1>1, <1>3, <2>1, MemLockAssumption DEF Init, MLTypeOK, Steps
<1>5. LockHeld /\ OneTakes /\ ReadFresh
  BY DEF Init, LockHeld, OneTakes, ReadFresh, TakesFrames, Taking
<1>6. FramesHeldOnce
  <2>1. \A c \in CPUs : frm_lst[c] = <<>> /\ owned[c] = {} /\ Range(frm_lst[c]) = {}
    BY RangeOfNothing DEF Init
  <2>2. \A c \in CPUs : IsInjective(frm_lst[c])
    BY <2>1 DEF IsInjective
  <2>3. QED
    BY <1>1, <1>2, <1>3, <2>1, <2>2 DEF FramesHeldOnce, Has, InHand
<1>7. QED
  BY <1>4, <1>5, <1>6 DEF MLInv, FramesOnceUnlessRaced

(* While one CPU takes frames, the others have none in hand.               *)
LEMMA OthersIdle ==
  ASSUME MLInv, ~raced, NEW c \in CPUs, NEW d \in CPUs \ {c}, TakesFrames(c)
  PROVE  ~TakesFrames(d) /\ frm_lst[d] = <<>> /\ Range(frm_lst[d]) = {}
<1>1. ~TakesFrames(d)
  BY DEF MLInv, OneTakes
<1>2. QED
  BY <1>1, RangeOfNothing DEF MLInv, ReadFresh

(* A call that begins to take frames finds nobody else doing so, or races. *)
LEMMA TakeFramesAlone ==
  ASSUME MLInv, NEW c \in CPUs, NEW kind \in {"alloc", "memmap"},
         pc[c] \in {"idle", "lock"}, TakeFrames(c, kind),
         call' = [call EXCEPT ![c] = kind],
         \/ kind = "alloc" /\ mmvm_lock = Free /\ mmvm_lock' = c
         \/ kind = "memmap" /\ UNCHANGED mmvm_lock
  PROVE  MLInv'
<1> USE DEF MLInv
<1>1. /\ pc' = [pc EXCEPT ![c] = "get"]
      /\ raced' = (raced \/ \E d \in CPUs \ {c} :
                      TakesFrames(d) /\ "memmap" \in {kind, call[d]})
      /\ UNCHANGED <<fp, frm_lst, free_fp_list, owned>>
      /\ \E n \in 0..MaxPages : req_pgnum' = [req_pgnum EXCEPT ![c] = n]
      /\ ~TakesFrames(c)
  BY DEF TakeFrames, Goto, TakesFrames, Taking
<1>2. MLTypeOK'
  BY <1>1 DEF MLTypeOK, Steps, Taking, LibraryCalls
<1>3. LockHeld'
  <2> SUFFICES ASSUME NEW d \in CPUs
               PROVE  /\ pc'[d] = "lock" => call'[d] \in LibraryCalls
                      /\ pc'[d] = "return" \/ (TakesFrames(d)' /\ call'[d] # "memmap")
                           => mmvm_lock' = d
                      /\ pc'[d] = "return" => call'[d] # "memmap"
    BY DEF LockHeld
  <2>1. CASE d = c
    BY <1>1, <2>1 DEF MLTypeOK
  <2>2. CASE d # c
    <3>1. pc'[d] = pc[d] /\ call'[d] = call[d]
      BY <1>1, <2>2 DEF MLTypeOK
    <3>2. mmvm_lock = d => mmvm_lock' = mmvm_lock
      BY MemLockAssumption
    <3>3. QED
      BY <3>1, <3>2 DEF LockHeld, TakesFrames
  <2>3. QED
    BY <2>1, <2>2
<1>4. OneTakes'
  <2> SUFFICES ASSUME ~raced', NEW d \in CPUs, NEW e \in CPUs,
                      TakesFrames(d)', TakesFrames(e)'
               PROVE  d = e
    BY DEF OneTakes
  <2>1. \A x \in CPUs \ {c} : TakesFrames(x)' <=> TakesFrames(x)
    BY <1>1 DEF TakesFrames, MLTypeOK
  <2>2. \A x \in CPUs \ {c} : ~TakesFrames(x)
    <3> SUFFICES ASSUME NEW x \in CPUs \ {c}, TakesFrames(x) PROVE FALSE
      OBVIOUS
    <3>1. kind # "memmap" /\ call[x] # "memmap"
      BY <1>1
    <3>2. mmvm_lock = Free /\ mmvm_lock = x
      BY <3>1 DEF LockHeld
    <3>3. QED
      BY <3>2, MemLockAssumption
  <2>3. QED
    BY <2>1, <2>2
<1>5. ReadFresh'
  <2>1. frm_lst[c] = <<>>
    BY <1>1 DEF ReadFresh
  <2>2. /\ pc'[c] = "get"
        /\ \A d \in CPUs \ {c} : pc'[d] = pc[d]
    BY <1>1 DEF MLTypeOK
  <2>3. QED
    BY <1>1, <2>1, <2>2 DEF ReadFresh, TakesFrames, Taking
<1>6. FramesOnceUnlessRaced'
  BY <1>1 DEF FramesOnceUnlessRaced, FramesHeldOnce, Has, InHand
<1>7. QED
  BY <1>2, <1>3, <1>4, <1>5, <1>6

(* A CPU that only goes where no frames are taken.                         *)
LEMMA OutsideKeeps ==
  ASSUME MLInv, NEW c \in CPUs,
         \/ CallLibrary(c)
         \/ Lock(c) /\ Goto(c, "return") /\ UNCHANGED <<listVars, raced>>
  PROVE  MLInv'
<1> USE DEF MLInv
<1>1. /\ ~TakesFrames(c) /\ UNCHANGED <<listVars, raced>>
      /\ \/ /\ pc[c] = "idle" /\ pc' = [pc EXCEPT ![c] = "lock"]
            /\ UNCHANGED mmvm_lock
            /\ \E kind \in LibraryCalls : call' = [call EXCEPT ![c] = kind]
         \/ /\ pc[c] = "lock" /\ pc' = [pc EXCEPT ![c] = "return"]
            /\ mmvm_lock = Free /\ mmvm_lock' = c /\ UNCHANGED call
  BY DEF CallLibrary, Lock, At, Goto, TakesFrames, Taking
<1>2. /\ ~TakesFrames(c)'
      /\ \A d \in CPUs \ {c} : /\ TakesFrames(d)' <=> TakesFrames(d)
                             /\ pc'[d] = pc[d] /\ call'[d] = call[d]
  BY <1>1 DEF TakesFrames, Taking, MLTypeOK
<1>3. MLTypeOK'
  BY <1>1 DEF MLTypeOK, Steps, listVars
<1>4. LockHeld'
  <2>1. \A d \in CPUs \ {c} : mmvm_lock = d => mmvm_lock' = d
    BY <1>1, MemLockAssumption
  <2>2. /\ pc'[c] = "lock" => call'[c] \in LibraryCalls
        /\ pc'[c] = "return" => mmvm_lock' = c /\ call'[c] # "memmap"
    BY <1>1 DEF MLTypeOK, LockHeld, LibraryCalls
  <2>3. QED
    BY <1>2, <2>1, <2>2 DEF LockHeld
<1>5. OneTakes'
  BY <1>1, <1>2 DEF OneTakes
<1>6. ReadFresh'
  <2>1. frm_lst[c] = <<>> /\ pc'[c] \notin {"unlink", "link"}
    BY <1>1, <1>2 DEF ReadFresh, TakesFrames, Taking
  <2>2. QED
    BY <1>1, <1>2, <2>1 DEF ReadFresh, listVars
<1>7. FramesOnceUnlessRaced'
  BY <1>1 DEF FramesOnceUnlessRaced, FramesHeldOnce, Has, InHand, listVars
<1>8. QED
  BY <1>3, <1>4, <1>5, <1>6, <1>7

(* What the steps inside alloc_pages_range have in common.                 *)
LEMMA InsideKeeps ==
  ASSUME MLInv, NEW c \in CPUs, NEW step \in Taking, TakesFrames(c),
         pc' = [pc EXCEPT ![c] = step],
         UNCHANGED <<mmvm_lock, call, raced>>
  PROVE  /\ LockHeld' /\ OneTakes'
         /\ \A d \in CPUs : TakesFrames(d)' <=> TakesFrames(d)
         /\ pc'[c] = step /\ \A d \in CPUs \ {c} : pc'[d] = pc[d]
<1> USE DEF MLInv
<1>1. pc'[c] = step /\ \A d \in CPUs \ {c} : pc'[d] = pc[d]
  BY DEF MLTypeOK
<1>2. \A d \in CPUs : TakesFrames(d)' <=> TakesFrames(d)
  BY <1>1 DEF TakesFrames
<1>3. pc'[c] \notin {"lock", "return"}
  BY <1>1 DEF Taking
<1>4. LockHeld'
  BY <1>1, <1>2, <1>3 DEF LockHeld
<1>5. OneTakes'
  BY <1>2 DEF OneTakes
<1>6. QED
  BY <1>1, <1>2, <1>4, <1>5

(* Reading the head changes nothing but what the CPU knows.                *)
LEMMA ReadKeeps ==
  ASSUME MLInv, NEW c \in CPUs, ReadToTake(c) \/ ReadToGive(c)
  PROVE  MLInv'
<1> USE DEF MLInv
<1>1. PICK step \in {"put", "unlink", "link"} :
        /\ pc' = [pc EXCEPT ![c] = step]
        /\ step = "unlink" => free_fp_list # <<>>
        /\ step = "link" => frm_lst[c] # <<>>
  BY DEF ReadToTake, AfterRead, ReadToGive, Goto
<1>2. /\ TakesFrames(c) /\ step \in Taking
      /\ fp' = [fp EXCEPT ![c] = free_fp_list]
      /\ UNCHANGED <<mmvm_lock, call, req_pgnum, free_fp_list, frm_lst, owned, raced>>
  BY DEF ReadToTake, AfterRead, ReadToGive, At, TakesFrames, Taking
<1>3. /\ LockHeld' /\ OneTakes'
      /\ \A d \in CPUs : TakesFrames(d)' <=> TakesFrames(d)
      /\ pc'[c] = step /\ \A d \in CPUs \ {c} : pc'[d] = pc[d]
  BY <1>1, <1>2, InsideKeeps
<1>4. MLTypeOK'
  BY <1>1, <1>2 DEF MLTypeOK, Steps, Taking
<1>5. ReadFresh'
  <2>1. /\ fp'[c] = free_fp_list /\ \A d \in CPUs \ {c} : fp'[d] = fp[d]
    BY <1>2 DEF MLTypeOK
  <2>2. QED
    BY <1>1, <1>2, <1>3, <2>1 DEF ReadFresh
<1>6. FramesOnceUnlessRaced'
  BY <1>2 DEF FramesOnceUnlessRaced, FramesHeldOnce, Has, InHand
<1>7. QED
  BY <1>3, <1>4, <1>5, <1>6

(* A frame goes from the free list to the CPU that allocates.              *)
LEMMA UnlinkMoves ==
  ASSUME MLInv, NEW c \in CPUs, Unlink(c)
  PROVE  MLInv'
<1> USE DEF MLInv
<1> DEFINE x == Head(fp[c])
<1>1. /\ pc[c] = "unlink" /\ pc' = [pc EXCEPT ![c] = "get"]
      /\ free_fp_list' = Tail(fp[c])
      /\ frm_lst' = [frm_lst EXCEPT ![c] = <<x>> \o @]
      /\ fp' = [fp EXCEPT ![c] = <<>>]
      /\ UNCHANGED <<mmvm_lock, call, req_pgnum, owned, raced>>
      /\ fp[c] \in Seq(Frames) /\ fp[c] # <<>> /\ frm_lst[c] \in Seq(Frames)
      /\ x \in Frames /\ free_fp_list' \in Seq(Frames)
  BY DEF Unlink, At, Goto, ReadFresh, MLTypeOK
<1>2. /\ TakesFrames(c) /\ "get" \in Taking
  BY <1>1 DEF TakesFrames, Taking
<1>3. /\ LockHeld' /\ OneTakes'
      /\ \A d \in CPUs : TakesFrames(d)' <=> TakesFrames(d)
      /\ pc'[c] = "get" /\ \A d \in CPUs \ {c} : pc'[d] = pc[d]
  BY <1>1, <1>2, InsideKeeps
<1>4. /\ frm_lst'[c] = <<x>> \o frm_lst[c]
      /\ \A d \in CPUs \ {c} : frm_lst'[d] = frm_lst[d] /\ fp'[d] = fp[d]
  BY <1>1 DEF MLTypeOK
<1> HIDE DEF x
<1>5. /\ frm_lst'[c] \in Seq(Frames)
      /\ Range(frm_lst'[c]) = Range(frm_lst[c]) \union {x}
      /\ IsInjective(frm_lst[c]) /\ x \notin Range(frm_lst[c]) => IsInjective(frm_lst'[c])
  BY <1>1, <1>4, PutHead
<1>6. MLTypeOK'
  <2>1. <<>> \in Seq(Frames)
    OBVIOUS
  <2>2. QED
    BY <1>1, <1>5, <2>1 DEF MLTypeOK, Steps, Taking
<1>7. ReadFresh'
  <2>1. ASSUME NEW d \in CPUs \ {c}, ~raced PROVE ~TakesFrames(d)
    BY <1>2, <2>1, OthersIdle
  <2>2. ASSUME NEW d \in CPUs \ {c}
        PROVE  /\ ~TakesFrames(d)' => frm_lst'[d] = <<>>
               /\ pc'[d] = "unlink" => fp'[d] # <<>>
               /\ pc'[d] = "link" => frm_lst'[d] # <<>>
               /\ ~raced' => pc'[d] \notin {"unlink", "link"}
    BY <1>1, <1>3, <1>4, <2>1 DEF ReadFresh, TakesFrames, Taking
  <2>3. QED
    BY <1>1, <1>2, <1>3, <2>2 DEF ReadFresh
<1>8. FramesOnceUnlessRaced'
  <2> SUFFICES ASSUME ~raced PROVE FramesHeldOnce'
    BY <1>1 DEF FramesOnceUnlessRaced
  <2>1. FramesHeldOnce /\ fp[c] = free_fp_list
    BY <1>1 DEF FramesOnceUnlessRaced, ReadFresh
  <2>2. /\ IsInjective(free_fp_list') /\ x \notin Range(free_fp_list')
        /\ Range(free_fp_list) = Range(free_fp_list') \union {x}
    BY <1>1, <2>1, TakeHead DEF FramesHeldOnce, x
  <2>3. \A d \in CPUs : ~Has(d, x)
    BY <1>1, <2>1, <2>2 DEF FramesHeldOnce
  <2>4. \A d \in CPUs : IsInjective(frm_lst'[d])
    BY <1>4, <1>5, <2>1, <2>3 DEF FramesHeldOnce, Has, InHand
  <2>5. /\ \A f : Has(c, f)' <=> Has(c, f) \/ f = x
        /\ \A d \in CPUs \ {c}, f \in Frames : Has(d, f)' <=> Has(d, f)
    BY <1>1, <1>4, <1>5 DEF Has, InHand
  <2>6. \A d \in CPUs, f \in Frames : ~(InHand(d, f)' /\ f \in owned'[d])
    <3>1. \A d \in CPUs, f \in Frames : InHand(d, f)' => InHand(d, f) \/ f = x
      BY <1>4, <1>5 DEF InHand
    <3>2. \A d \in CPUs : owned'[d] = owned[d] /\ x \notin owned[d]
      BY <1>1, <2>3 DEF Has
    <3>3. QED
      BY <2>1, <3>1, <3>2 DEF FramesHeldOnce
  <2>7. \A f \in Frames : f \in Range(free_fp_list)' <=> \A d \in CPUs : ~Has(d, f)'
    BY <2>1, <2>2, <2>3, <2>5 DEF FramesHeldOnce
  <2>8. \A f \in Frames, d, e \in CPUs : Has(d, f)' /\ Has(e, f)' => d = e
    BY <2>1, <2>3, <2>5 DEF FramesHeldOnce
  <2>9. QED
    BY <2>2, <2>4, <2>6, <2>7, <2>8 DEF FramesHeldOnce
<1>9. QED
  BY <1>3, <1>6, <1>7, <1>8

(* A frame goes back.                                                      *)
LEMMA LinkMoves ==
  ASSUME MLInv, NEW c \in CPUs, Link(c)
  PROVE  MLInv'
<1> USE DEF MLInv
<1> DEFINE x == Head(frm_lst[c])
<1>1. /\ pc[c] = "link" /\ pc' = [pc EXCEPT ![c] = "put"]
      /\ free_fp_list' = <<x>> \o fp[c]
      /\ frm_lst' = [frm_lst EXCEPT ![c] = Tail(@)]
      /\ fp' = [fp EXCEPT ![c] = <<>>]
      /\ UNCHANGED <<mmvm_lock, call, req_pgnum, owned, raced>>
      /\ fp[c] \in Seq(Frames) /\ frm_lst[c] \in Seq(Frames) /\ frm_lst[c] # <<>>
      /\ x \in Frames /\ Tail(frm_lst[c]) \in Seq(Frames)
  BY DEF Link, At, Goto, ReadFresh, MLTypeOK
<1>2. TakesFrames(c) /\ "put" \in Taking
  BY <1>1 DEF TakesFrames, Taking
<1>3. /\ LockHeld' /\ OneTakes'
      /\ \A d \in CPUs : TakesFrames(d)' <=> TakesFrames(d)
      /\ pc'[c] = "put" /\ \A d \in CPUs \ {c} : pc'[d] = pc[d]
  BY <1>1, <1>2, InsideKeeps
<1>4. /\ frm_lst'[c] = Tail(frm_lst[c])
      /\ \A d \in CPUs \ {c} : frm_lst'[d] = frm_lst[d] /\ fp'[d] = fp[d]
  BY <1>1 DEF MLTypeOK
<1>5. MLTypeOK'
  <2>1. <<>> \in Seq(Frames) /\ <<x>> \o fp[c] \in Seq(Frames)
    BY <1>1
  <2>2. QED
    BY <1>1, <2>1 DEF MLTypeOK, Steps, Taking
<1>6. ReadFresh'
  <2>1. ASSUME NEW d \in CPUs \ {c}, ~raced PROVE ~TakesFrames(d)
    BY <1>2, <2>1, OthersIdle
  <2>2. ASSUME NEW d \in CPUs \ {c}
        PROVE  /\ ~TakesFrames(d)' => frm_lst'[d] = <<>>
               /\ pc'[d] = "unlink" => fp'[d] # <<>>
               /\ pc'[d] = "link" => frm_lst'[d] # <<>>
               /\ ~raced' => pc'[d] \notin {"unlink", "link"}
    BY <1>1, <1>3, <1>4, <2>1 DEF ReadFresh, TakesFrames, Taking
  <2>3. QED
    BY <1>1, <1>2, <1>3, <2>2 DEF ReadFresh
<1>7. FramesOnceUnlessRaced'
  <2> SUFFICES ASSUME ~raced PROVE FramesHeldOnce'
    BY <1>1 DEF FramesOnceUnlessRaced
  <2>1. FramesHeldOnce /\ fp[c] = free_fp_list
    BY <1>1 DEF FramesOnceUnlessRaced, ReadFresh
  <2>2. /\ IsInjective(frm_lst'[c])
        /\ x \notin Range(frm_lst'[c])
        /\ Range(frm_lst[c]) = Range(frm_lst'[c]) \union {x}
    BY <1>1, <1>4, <2>1, TakeHead DEF FramesHeldOnce
  <2> HIDE DEF x
  <2>3. Has(c, x) /\ x \notin owned[c] /\ x \notin Range(free_fp_list)
    BY <1>1, <2>1, <2>2 DEF FramesHeldOnce, Has, InHand
  <2>4. /\ Range(free_fp_list') = Range(free_fp_list) \union {x}
        /\ IsInjective(free_fp_list')
    BY <1>1, <2>1, <2>3, PutHead DEF FramesHeldOnce
  <2>5. \A d \in CPUs : IsInjective(frm_lst'[d])
    BY <1>4, <2>1, <2>2 DEF FramesHeldOnce
  <2>6. /\ \A f : Has(c, f)' <=> Has(c, f) /\ f # x
        /\ \A d \in CPUs \ {c}, f \in Frames : Has(d, f)' <=> Has(d, f)
    BY <1>1, <1>4, <2>2, <2>3 DEF Has, InHand
  <2>7. \A d \in CPUs, f \in Frames : ~(InHand(d, f)' /\ f \in owned'[d])
    BY <1>1, <1>4, <2>1, <2>2 DEF FramesHeldOnce, Has, InHand
  <2>8. \A f \in Frames : f \in Range(free_fp_list)' <=> \A d \in CPUs : ~Has(d, f)'
    <3>1. \A f \in Frames :
            f \in Range(free_fp_list)' <=> f \in Range(free_fp_list) \/ f = x
      BY <2>4
    <3>2. \A f \in Frames \ {x} :
            (\A d \in CPUs : ~Has(d, f)') <=> (\A d \in CPUs : ~Has(d, f))
      BY <2>6
    <3>3. ASSUME NEW f \in Frames, f = x
          PROVE  f \in Range(free_fp_list)' /\ \A d \in CPUs : ~Has(d, f)'
      <4>1. ASSUME NEW d \in CPUs \ {c} PROVE ~Has(d, f)
        BY <2>1, <2>3, <3>3 DEF FramesHeldOnce
      <4>2. QED
        BY <2>6, <3>1, <3>3, <4>1
    <3>4. ASSUME NEW f \in Frames
          PROVE  f \in Range(free_fp_list) <=> \A d \in CPUs : ~Has(d, f)
      BY <2>1 DEF FramesHeldOnce
    <3>5. QED
      BY <3>1, <3>2, <3>3, <3>4
  <2>9. \A f \in Frames, d, e \in CPUs : Has(d, f)' /\ Has(e, f)' => d = e
    BY <2>1, <2>6 DEF FramesHeldOnce
  <2>10. QED
    BY <2>4, <2>5, <2>7, <2>8, <2>9 DEF FramesHeldOnce
<1>8. QED
  BY <1>3, <1>5, <1>6, <1>7

(* What was in hand is in a page table: for the others nothing changes.    *)
LEMMA ReturnKeeps ==
  ASSUME MLInv, NEW c \in CPUs, Return(c)
  PROVE  MLInv'
<1> USE DEF MLInv
<1>1. /\ pc[c] \in {"get", "put", "return"} /\ pc' = [pc EXCEPT ![c] = "idle"]
      /\ owned' = [owned EXCEPT ![c] = @ \union Range(frm_lst[c])]
      /\ frm_lst' = [frm_lst EXCEPT ![c] = <<>>]
      /\ mmvm_lock' = IF Unlocks(call[c]) THEN Free ELSE mmvm_lock
      /\ call' = [call EXCEPT ![c] = None]
      /\ req_pgnum' = [req_pgnum EXCEPT ![c] = 0]
      /\ UNCHANGED <<free_fp_list, fp, raced>>
  BY DEF Return, At, Goto
<1>2. /\ frm_lst'[c] = <<>> /\ owned'[c] = owned[c] \union Range(frm_lst[c])
      /\ pc'[c] = "idle"
      /\ \A d \in CPUs \ {c} : /\ frm_lst'[d] = frm_lst[d] /\ owned'[d] = owned[d]
                             /\ pc'[d] = pc[d] /\ call'[d] = call[d]
  BY <1>1 DEF MLTypeOK
<1>3. ~TakesFrames(c)' /\ \A d \in CPUs \ {c} : TakesFrames(d)' <=> TakesFrames(d)
  BY <1>2 DEF TakesFrames, Taking
<1>4. Range(frm_lst'[c]) = {} /\ IsInjective(frm_lst'[c])
  BY <1>2, RangeOfNothing DEF IsInjective
<1>5. MLTypeOK'
  <2>1. <<>> \in Seq(Frames)
    OBVIOUS
  <2>2. Range(frm_lst[c]) \subseteq Frames
    BY DEF MLTypeOK, Range
  <2>3. QED
    BY <1>1, <2>1, <2>2, MemLockAssumption DEF MLTypeOK, Steps
<1>6. LockHeld'
  <2>1. ASSUME NEW d \in CPUs \ {c}, mmvm_lock = d PROVE mmvm_lock' = d
    <3>1. CASE call[c] = "memmap"
      BY <1>1, <2>1, <3>1 DEF Unlocks
    <3>2. CASE call[c] # "memmap"
      BY <1>1, <2>1, <3>2 DEF LockHeld, TakesFrames, Taking
    <3>3. QED
      BY <3>1, <3>2
  <2>2. QED
    BY <1>2, <1>3, <2>1 DEF LockHeld
<1>7. OneTakes'
  BY <1>1, <1>3 DEF OneTakes
<1>8. ReadFresh'
  BY <1>1, <1>2, <1>3 DEF ReadFresh
<1>9. FramesOnceUnlessRaced'
  <2> SUFFICES ASSUME FramesHeldOnce PROVE FramesHeldOnce'
    BY <1>1 DEF FramesOnceUnlessRaced
  <2>1. \A d \in CPUs, f \in Frames : Has(d, f)' <=> Has(d, f)
    BY <1>2, <1>4 DEF Has, InHand
  <2>2. \A d \in CPUs, f \in Frames : ~(InHand(d, f)' /\ f \in owned'[d])
    BY <1>2, <1>4 DEF FramesHeldOnce, InHand
  <2>3. \A d \in CPUs : IsInjective(frm_lst'[d])
    BY <1>2, <1>4 DEF FramesHeldOnce
  <2>4. QED
    BY <1>1, <2>1, <2>2, <2>3 DEF FramesHeldOnce
<1>10. QED
  BY <1>5, <1>6, <1>7, <1>8, <1>9

LEMMA MLStep == MLInv /\ [Next]_vars => MLInv'
<1> SUFFICES ASSUME MLInv, [Next]_vars PROVE MLInv'
  OBVIOUS
<1>1. CASE UNCHANGED vars
  BY <1>1 DEF vars, listVars, MLInv, MLTypeOK, LockHeld, OneTakes, ReadFresh,
              TakesFrames, FramesOnceUnlessRaced, FramesHeldOnce, Has, InHand
<1>2. CASE Next
  <2>1. PICK c \in CPUs : CallLibrary(c) \/ Lock(c) \/ CallMemmap(c) \/ Proceed(c)
    BY <1>2 DEF Next
  <2>2. CASE CallLibrary(c)
    BY <2>2, OutsideKeeps
  <2>3. CASE Lock(c)
    <3>1. CASE Goto(c, "return") /\ UNCHANGED <<listVars, raced>>
      BY <2>3, <3>1, OutsideKeeps
    <3>2. CASE call[c] = "alloc" /\ TakeFrames(c, "alloc")
      <4>1. call' = [call EXCEPT ![c] = "alloc"]
        BY <2>3, <3>2 DEF Lock, MLInv, MLTypeOK
      <4>2. QED
        BY <2>3, <3>2, <4>1, TakeFramesAlone DEF Lock, At
    <3>3. QED
      BY <2>3, <3>1, <3>2 DEF Lock
  <2>4. CASE CallMemmap(c)
    BY <2>4, TakeFramesAlone DEF CallMemmap, At
  <2>5. CASE Proceed(c)
    BY <2>5, ReadKeeps, UnlinkMoves, LinkMoves, ReturnKeeps DEF Proceed
  <2>6. QED
    BY <2>1, <2>2, <2>3, <2>4, <2>5
<1>3. QED
  BY <1>1, <1>2

------------------------------------------------------------------------------

(* mmvm_lock (libmem.c:101) keeps every frame in one place, once, for any  *)
(* number of CPUs, frames and pages asked for, with any mix of library     *)
(* calls and memmaps, until a memmap takes frames together with another    *)
(* call.                                                                   *)
THEOREM FramesOnceUnlessRacedHolds == Spec => []FramesOnceUnlessRaced
<1>1. MLInv => FramesOnceUnlessRaced
  BY DEF MLInv
<1>2. QED
  BY <1>1, MLInit, MLStep, PTL DEF Spec

(* Programs that never call memmap never race (libmem.c:101).              *)
THEOREM LibraryNeverRaces ==
  ASSUME "memmap" \notin Calls
  PROVE  Spec => []FramesHeldOnce
<1> DEFINE J == MLInv /\ ~raced /\ \A c \in CPUs : call[c] # "memmap"
<1>1. Init => J
  BY MLInit DEF Init, None
<1>2. J /\ [Next]_vars => J'
  <2> SUFFICES ASSUME J, [Next]_vars PROVE J'
    OBVIOUS
  <2>1. MLInv'
    BY MLStep
  <2>2. CASE UNCHANGED vars
    BY <2>1, <2>2 DEF vars
  <2>3. CASE Next
    <3>1. PICK c \in CPUs : CallLibrary(c) \/ Lock(c) \/ Proceed(c)
      BY <2>3 DEF Next, CallMemmap
    <3>2. \A d \in CPUs : call'[d] # "memmap"
      BY <3>1 DEF CallLibrary, Lock, Proceed, ReadToTake, Unlink, ReadToGive, Link,
                  Return, None, MLInv, MLTypeOK, LibraryCalls
    <3>3. ~raced'
      BY <3>1 DEF CallLibrary, Lock, TakeFrames, Proceed, ReadToTake, Unlink,
                  ReadToGive, Link, Return
    <3>4. QED
      BY <2>1, <3>2, <3>3
  <2>4. QED
    BY <2>2, <2>3
<1>3. J => FramesHeldOnce
  BY DEF MLInv, FramesOnceUnlessRaced
<1>4. QED
  BY <1>1, <1>2, <1>3, PTL DEF Spec

------------------------------------------------------------------------------
(* Refinement of FramePool.                                                *)

(* A list of different frames has as many as it is long.                   *)
LEMMA DifferentFrames ==
  ASSUME NEW s \in Seq(Frames), IsInjective(s)
  PROVE  Cardinality(Range(s)) = Len(s)
<1>1. /\ Len(s) \in Nat /\ DOMAIN s = 1..Len(s)
      /\ \A k \in 1..Len(s) : s[k] \in Frames
  OBVIOUS
<1>2. \A n \in Nat : IsFiniteSet(1..n) /\ Cardinality(1..n) = n
  <2> SUFFICES ASSUME NEW n \in Nat PROVE IsFiniteSet(1..n) /\ Cardinality(1..n) = n
    OBVIOUS
  <2>1. 1 \in Int /\ n \in Int
    OBVIOUS
  <2>2. IsFiniteSet(1..n) /\ Cardinality(1..n) = IF 1 > n THEN 0 ELSE n - 1 + 1
    BY <2>1, FS_Interval
  <2>3. QED
    BY <2>2
<1>3. Range(s) \subseteq Frames
  BY <1>1 DEF Range
<1>4. s \in Bijection(1..Len(s), Range(s))
  <2>1. s \in [1..Len(s) -> Range(s)]
    BY <1>1 DEF Range
  <2>2. \A a, b \in 1..Len(s) : s[a] = s[b] => a = b
    BY <1>1 DEF IsInjective
  <2>3. \A f \in Range(s) : \E k \in 1..Len(s) : s[k] = f
    BY <1>1 DEF Range
  <2>4. QED
    BY <2>1, <2>2, <2>3 DEF Bijection, Injection, Surjection
<1>5. ExistsBijection(1..Len(s), Range(s))
  BY <1>4 DEF ExistsBijection
<1>6. QED
  BY <1>1, <1>2, <1>5, FS_Bijection

(* FramePool counts with the same Cardinality.                             *)
LEMMA SameCount == \A S : Pool!Cardinality(S) = Cardinality(S)
BY DEF Pool!Cardinality, Cardinality

(* raced is never reset.                                                   *)
LEMMA RacedStays == [Next]_vars /\ raced => raced'
BY DEF Next, vars, listVars, CallLibrary, Lock, CallMemmap, TakeFrames, Proceed,
       ReadToTake, Unlink, ReadToGive, Link, Return

(* Who rolls back has asked for more than there was.                       *)
Refused ==
  ~raced => \A c \in CPUs :
              pc[c] \in {"put", "link"} => req_pgnum[c] > Cardinality(Unowned)

(* The free list is empty: what nobody has mapped is in the hands of the   *)
(* only CPU that takes frames.                                             *)
LEMMA AllInHand ==
  ASSUME MLInv, ~raced, NEW c \in CPUs, TakesFrames(c), free_fp_list = <<>>
  PROVE  Cardinality(Unowned) = Len(frm_lst[c])
<1>1. /\ frm_lst[c] \in Seq(Frames) /\ IsInjective(frm_lst[c])
      /\ FramesHeldOnce /\ owned \in [CPUs -> SUBSET Frames]
  BY DEF MLInv, MLTypeOK, FramesOnceUnlessRaced, FramesHeldOnce
<1>2. Range(frm_lst[c]) \subseteq Frames
  BY <1>1 DEF Range
<1>3. \A f \in Range(frm_lst[c]) : f \in Unowned
  <2> SUFFICES ASSUME NEW f \in Range(frm_lst[c]), NEW d \in CPUs, f \in owned[d]
               PROVE  FALSE
    BY <1>2 DEF Unowned
  <2>1. f \in Frames /\ Has(c, f) /\ Has(d, f) /\ InHand(c, f)
    BY <1>2 DEF Has, InHand
  <2>2. QED
    BY <1>1, <2>1 DEF FramesHeldOnce
<1>4. \A f \in Unowned : f \in Range(frm_lst[c])
  <2> SUFFICES ASSUME NEW f \in Unowned PROVE f \in Range(frm_lst[c])
    OBVIOUS
  <2>1. f \in Frames /\ \A d \in CPUs : f \notin owned[d]
    BY DEF Unowned
  <2>2. PICK d \in CPUs : InHand(d, f)
    BY <1>1, <2>1, RangeOfNothing DEF FramesHeldOnce, Has
  <2>3. CASE d = c
    BY <2>2, <2>3 DEF InHand
  <2>4. CASE d # c
    BY <2>2, <2>4, OthersIdle DEF InHand
  <2>5. QED
    BY <2>3, <2>4
<1>5. Unowned = Range(frm_lst[c])
  BY <1>3, <1>4
<1>6. QED
  BY <1>1, <1>5, DifferentFrames

(* What another CPU does while c takes frames changes no page table.       *)
LEMMA OthersMapNothing ==
  ASSUME MLInv, ~raced, NEW c \in CPUs, TakesFrames(c),
         NEW d \in CPUs \ {c},
         CallLibrary(d) \/ Lock(d) \/ CallMemmap(d) \/ Proceed(d)
  PROVE  /\ owned' = owned
         /\ pc'[c] = pc[c] /\ req_pgnum'[c] = req_pgnum[c]
<1>1. /\ owned \in [CPUs -> SUBSET Frames] /\ pc \in [CPUs -> Steps]
      /\ req_pgnum \in [CPUs -> 0..MaxPages]
      /\ Range(frm_lst[d]) = {}
  BY OthersIdle DEF MLInv, MLTypeOK
<1>2. CASE Return(d)
  BY <1>1, <1>2 DEF Return, Goto
<1>3. CASE ~Return(d)
  BY <1>1, <1>3 DEF CallLibrary, Lock, CallMemmap, TakeFrames, Proceed, ReadToTake,
                    Unlink, ReadToGive, Link, Goto, listVars
<1>4. QED
  BY <1>2, <1>3

(* The rollback is decided on an empty list, when nobody else takes frames *)
(* (AllInHand); until it is over no page table changes.                    *)
LEMMA RefusedStep == MLInv /\ Refused /\ [Next]_vars => Refused'
<1> SUFFICES ASSUME MLInv, Refused, [Next]_vars, ~raced',
                    NEW c \in CPUs, pc'[c] \in {"put", "link"}
             PROVE  req_pgnum'[c] > Cardinality(Unowned')
  BY DEF Refused
<1>1. ~raced
  BY RacedStays
<1>2. owned' = owned => Unowned' = Unowned
  BY DEF Unowned
<1>3. CASE UNCHANGED vars
  BY <1>1, <1>2, <1>3 DEF vars, listVars, Refused
<1>4. ASSUME NEW d \in CPUs \ {c},
             CallLibrary(d) \/ Lock(d) \/ CallMemmap(d) \/ Proceed(d)
      PROVE  req_pgnum'[c] > Cardinality(Unowned')
  <2>1. pc'[c] = pc[c]
    BY <1>4 DEF MLInv, MLTypeOK, CallLibrary, Lock, CallMemmap, TakeFrames, Proceed,
                ReadToTake, Unlink, ReadToGive, Link, Return, Goto, listVars
  <2>2. TakesFrames(c)
    BY <2>1 DEF TakesFrames, Taking
  <2>3. QED
    BY <1>1, <1>2, <1>4, <2>1, <2>2, OthersMapNothing DEF Refused
<1>5. ASSUME CallLibrary(c) \/ Lock(c) \/ CallMemmap(c) \/ Proceed(c)
      PROVE  req_pgnum'[c] > Cardinality(Unowned')
  <2>1. pc \in [CPUs -> Steps]
    BY DEF MLInv, MLTypeOK
  <2>2. ReadToTake(c) \/ ReadToGive(c) \/ Link(c)
    BY <1>5, <2>1 DEF CallLibrary, Lock, CallMemmap, TakeFrames, Proceed, Unlink,
                      Return, Goto
  <2>3. CASE ReadToGive(c) \/ Link(c)
    <3>1. pc[c] \in {"put", "link"} /\ UNCHANGED <<req_pgnum, owned>>
      BY <2>3 DEF ReadToGive, Link, At
    <3>2. QED
      BY <1>1, <1>2, <3>1 DEF Refused
  <2>4. CASE ReadToTake(c)
    <3>1. /\ pc[c] = "get" /\ Len(frm_lst[c]) < req_pgnum[c]
          /\ UNCHANGED <<req_pgnum, owned>>
          /\ pc'[c] = AfterRead(free_fp_list)
      BY <2>1, <2>4 DEF ReadToTake, At, Goto
    <3>2. free_fp_list = <<>>
      BY <3>1 DEF AfterRead
    <3>3. TakesFrames(c)
      BY <3>1 DEF TakesFrames, Taking
    <3>4. Cardinality(Unowned) = Len(frm_lst[c])
      BY <1>1, <3>2, <3>3, AllInHand
    <3>5. req_pgnum[c] \in Nat /\ Len(frm_lst[c]) \in Nat
      BY DEF MLInv, MLTypeOK
    <3>6. QED
      BY <1>2, <3>1, <3>4, <3>5
  <2>5. QED
    BY <2>2, <2>3, <2>4
<1>6. QED
  BY <1>3, <1>4, <1>5 DEF Next

(* What a CPU asks for, before and after a step of its own.                *)
LEMMA WantedChanges ==
  ASSUME MLInv, NEW c \in CPUs, NEW step \in Steps, pc' = [pc EXCEPT ![c] = step],
         \A d \in CPUs \ {c} : req_pgnum'[d] = req_pgnum[d]
  PROVE  /\ Wanted[c] = IF TakesFrames(c) THEN req_pgnum[c] ELSE -1
         /\ Wanted' = [Wanted EXCEPT ![c] =
                         IF step \in Taking THEN req_pgnum'[c] ELSE -1]
<1>1. /\ pc'[c] = step
      /\ \A d \in CPUs \ {c} : pc'[d] = pc[d]
  BY DEF MLInv, MLTypeOK
<1>2. QED
  BY <1>1 DEF Wanted, TakesFrames

(* alloc_pages_range starts: a request.                                    *)
LEMMA Begins ==
  ASSUME MLInv, NEW c \in CPUs, NEW kind, pc[c] \in {"idle", "lock"},
         TakeFrames(c, kind)
  PROVE  Pool!Ask(c)
<1>1. PICK n \in 0..MaxPages : req_pgnum' = [req_pgnum EXCEPT ![c] = n]
  BY DEF TakeFrames
<1>2. /\ pc' = [pc EXCEPT ![c] = "get"] /\ owned' = owned
      /\ "get" \in Steps /\ "get" \in Taking /\ ~TakesFrames(c)
  BY DEF TakeFrames, Goto, Steps, TakesFrames, Taking
<1>3. /\ req_pgnum'[c] = n
      /\ \A d \in CPUs \ {c} : req_pgnum'[d] = req_pgnum[d]
  BY <1>1 DEF MLInv, MLTypeOK
<1>4. Wanted[c] = -1 /\ Wanted' = [Wanted EXCEPT ![c] = n]
  BY <1>2, <1>3, WantedChanges
<1>5. Unowned' = Unowned
  BY <1>2 DEF Unowned
<1>6. QED
  BY <1>2, <1>4, <1>5 DEF Pool!Ask, Pool!NoRequest

(* The return of alloc_pages_range with all the frames it was to take, or  *)
(* after the rollback.                                                     *)
LEMMA Ends ==
  ASSUME MLInv, Refused, ~raced, NEW c \in CPUs, TakesFrames(c), Return(c)
  PROVE  Pool!Grant(c) \/ Pool!Refuse(c)
<1> DEFINE S == Range(frm_lst[c])
<1>1. /\ pc' = [pc EXCEPT ![c] = "idle"] /\ "idle" \in Steps /\ "idle" \notin Taking
      /\ req_pgnum' = [req_pgnum EXCEPT ![c] = 0]
      /\ owned' = [owned EXCEPT ![c] = @ \union S]
      /\ owned \in [CPUs -> SUBSET Frames]
      /\ frm_lst[c] \in Seq(Frames)
      /\ req_pgnum[c] \in Nat
      /\ FramesHeldOnce
  BY DEF Return, Goto, Steps, Taking, MLInv, MLTypeOK, FramesOnceUnlessRaced
<1>2. \A d \in CPUs \ {c} : req_pgnum'[d] = req_pgnum[d]
  BY <1>1 DEF MLInv, MLTypeOK
<1>3. Wanted[c] = req_pgnum[c] /\ Wanted' = [Wanted EXCEPT ![c] = -1]
  BY <1>1, <1>2, WantedChanges
<1>4. Pool!Answered(c)
  BY <1>1, <1>3 DEF Pool!Answered, Pool!NoRequest
<1>5. S \subseteq Unowned
  <2>1. S \subseteq Frames
    BY <1>1 DEF Range
  <2>2. ASSUME NEW f \in S, NEW d \in CPUs PROVE f \notin owned[d]
    BY <1>1, <2>1, <2>2 DEF FramesHeldOnce, Has, InHand
  <2>3. QED
    BY <2>1, <2>2 DEF Unowned
<1>6. Unowned' = Unowned \ S
  <2>1. /\ owned'[c] = owned[c] \union S
        /\ \A d \in CPUs \ {c} : owned'[d] = owned[d]
    BY <1>1
  <2> HIDE DEF S
  <2>2. \A f \in Frames :
          (\E d \in CPUs : f \in owned'[d]) <=> (\E d \in CPUs : f \in owned[d]) \/ f \in S
    BY <2>1
  <2>3. QED
    BY <2>2 DEF Unowned
<1>7. CASE pc[c] = "get"
  <2>1. Len(frm_lst[c]) = req_pgnum[c]
    BY <1>7 DEF Return, At
  <2>2. Cardinality(S) = Wanted[c]
    BY <1>1, <1>3, <2>1, DifferentFrames DEF FramesHeldOnce
  <2> HIDE DEF S
  <2>3. \E T \in SUBSET Unowned :
          /\ Cardinality(T) = Wanted[c]
          /\ Unowned' = Unowned \ T
          /\ owned' = [owned EXCEPT ![c] = @ \union T]
    BY <1>1, <1>5, <1>6, <2>2
  <2>4. QED
    BY <1>4, <2>3, SameCount DEF Pool!Grant
<1>8. CASE pc[c] = "put"
  <2>1. S = {}
    BY <1>8, RangeOfNothing DEF Return, At
  <2>2. owned' = owned /\ Unowned' = Unowned
    BY <1>1, <1>6, <2>1
  <2>3. Wanted[c] > Cardinality(Unowned)
    BY <1>3, <1>8 DEF Refused
  <2>4. QED
    BY <1>4, <2>2, <2>3, SameCount DEF Pool!Refuse
<1>9. pc[c] \in {"get", "put"}
  BY DEF Return, At, TakesFrames, Taking
<1>10. QED
  BY <1>7, <1>8, <1>9

(* Every other step shows nothing.                                         *)
LEMMA Hidden ==
  ASSUME MLInv, NEW c \in CPUs,
         \/ CallLibrary(c)
         \/ Lock(c) /\ Goto(c, "return") /\ UNCHANGED <<listVars, raced>>
         \/ ReadToTake(c) \/ Unlink(c) \/ ReadToGive(c) \/ Link(c)
         \/ Return(c) /\ ~TakesFrames(c)
  PROVE  UNCHANGED <<Unowned, owned, Wanted>>
<1>1. /\ pc \in [CPUs -> Steps] /\ owned \in [CPUs -> SUBSET Frames]
      /\ req_pgnum \in [CPUs -> 0..MaxPages]
  BY DEF MLInv, MLTypeOK
<1>2. owned' = owned
  <2>1. CASE Return(c) /\ ~TakesFrames(c)
    <3>1. Range(frm_lst[c]) = {}
      BY <2>1, RangeOfNothing DEF MLInv, ReadFresh
    <3>2. QED
      BY <1>1, <2>1, <3>1 DEF Return
  <2>2. CASE ~(Return(c) /\ ~TakesFrames(c))
    BY <2>2 DEF CallLibrary, ReadToTake, Unlink, ReadToGive, Link, listVars
  <2>3. QED
    BY <2>1, <2>2
<1>3. PICK step \in Steps :
        /\ pc' = [pc EXCEPT ![c] = step]
        /\ TakesFrames(c) <=> step \in Taking
        /\ TakesFrames(c) => req_pgnum' = req_pgnum
        /\ \A d \in CPUs \ {c} : req_pgnum'[d] = req_pgnum[d]
  <2>1. CASE CallLibrary(c)
    BY <2>1 DEF CallLibrary, At, Goto, TakesFrames, Taking, Steps, listVars
  <2>2. CASE Lock(c) /\ Goto(c, "return") /\ UNCHANGED <<listVars, raced>>
    BY <2>2 DEF Lock, At, Goto, TakesFrames, Taking, Steps, listVars
  <2>3. CASE ReadToTake(c)
    BY <2>3 DEF ReadToTake, AfterRead, At, Goto, TakesFrames, Taking, Steps
  <2>4. CASE Unlink(c) \/ ReadToGive(c) \/ Link(c)
    BY <2>4 DEF Unlink, ReadToGive, Link, At, Goto, TakesFrames, Taking, Steps
  <2>5. CASE Return(c) /\ ~TakesFrames(c)
    BY <1>1, <2>5 DEF Return, At, Goto, TakesFrames, Taking, Steps
  <2>6. QED
    BY <2>1, <2>2, <2>3, <2>4, <2>5
<1>4. Wanted' = Wanted
  <2>1. Wanted' = [Wanted EXCEPT ![c] = Wanted[c]]
    BY <1>3, WantedChanges
  <2>2. Wanted = [d \in CPUs |-> Wanted[d]]
    BY DEF Wanted
  <2>3. QED
    BY <2>1, <2>2
<1>5. QED
  BY <1>2, <1>4 DEF Unowned

(* The steps of alloc_pages_range as seen from outside.                    *)
LEMMA AllocationIsAtomic ==
  MLInv /\ Refused /\ [Next]_vars
    => [raced' \/ Pool!FPNext]_<<Unowned, owned, Wanted>>
<1> SUFFICES ASSUME MLInv, Refused, [Next]_vars, ~raced'
             PROVE  Pool!FPNext \/ UNCHANGED <<Unowned, owned, Wanted>>
  OBVIOUS
<1>1. ~raced
  BY RacedStays
<1>2. CASE UNCHANGED vars
  BY <1>2 DEF vars, listVars, Unowned, Wanted
<1>3. ASSUME NEW c \in CPUs, Lock(c)
      PROVE  Pool!FPNext \/ UNCHANGED <<Unowned, owned, Wanted>>
  BY <1>3, Begins, Hidden DEF Lock, At, Pool!FPNext
<1>4. ASSUME NEW c \in CPUs, CallMemmap(c)
      PROVE  Pool!FPNext
  BY <1>4, Begins DEF CallMemmap, At, Pool!FPNext
<1>5. ASSUME NEW c \in CPUs, Proceed(c)
      PROVE  Pool!FPNext \/ UNCHANGED <<Unowned, owned, Wanted>>
  <2>1. CASE Return(c) /\ TakesFrames(c)
    BY <1>1, <2>1, Ends DEF Pool!FPNext
  <2>2. CASE ~(Return(c) /\ TakesFrames(c))
    BY <1>5, <2>2, Hidden DEF Proceed
  <2>3. QED
    BY <2>1, <2>2
<1>6. QED
  BY <1>2, <1>3, <1>4, <1>5, Hidden DEF Next

(* An allocation (mm.c:127), with its reads, its assignments and its       *)
(* rollback, implements a request to the pool until a memmap races: it is  *)
(* answered in one step, with as many frames as were asked for, all of     *)
(* them nobody's before, or with none, and then there were fewer.          *)
THEOREM MemLockRefinesFramePool == Spec => ImplementsFramePool
<1>1. Init => Pool!FPInit /\ Refused
  <2> SUFFICES ASSUME Init PROVE Pool!FPInit /\ Refused
    OBVIOUS
  <2>1. /\ owned = [c \in CPUs |-> {}] /\ UNION {owned[c] : c \in CPUs} = {}
        /\ \A c \in CPUs : pc[c] = "idle"
    BY DEF Init
  <2>2. Wanted = [c \in CPUs |-> -1]
    BY <2>1 DEF Wanted, Taking
  <2>3. QED
    BY <2>1, <2>2 DEF Pool!FPInit, Pool!NoRequest, Unowned, Refused
<1>2. QED
  BY <1>1, MLInit, MLStep, RefusedStep, AllocationIsAtomic, PTL
     DEF Spec, ImplementsFramePool

==============================================================================
