------------------------------ MODULE FramePool ------------------------------
(***************************************************************************)
(* What the frames of the RAM promise: who asks for a number of frames     *)
(* gets as many that nobody has, or none if there are not so many; and     *)
(* keeps them.  Module MemLock, the steps of alloc_pages_range, implements *)
(* this specification.                                                     *)
(***************************************************************************)
EXTENDS FiniteSets, Integers

CONSTANTS Holders, Frames,
          MaxRequest    \* bound of the instance: frames asked for at once

VARIABLES pool,         \* the frames nobody has
          held,         \* the frames each holder has
          want          \* how many each is asking for, or NoRequest

NoRequest == -1

FPInit ==
  /\ pool = Frames
  /\ held = [h \in Holders |-> {}]
  /\ want = [h \in Holders |-> NoRequest]

Ask(h) ==
  /\ want[h] = NoRequest
  /\ \E n \in 0..MaxRequest : want' = [want EXCEPT ![h] = n]
  /\ UNCHANGED <<pool, held>>

Answered(h) == want[h] # NoRequest /\ want' = [want EXCEPT ![h] = NoRequest]

Grant(h) ==
  /\ Answered(h)
  /\ \E S \in SUBSET pool :
       /\ Cardinality(S) = want[h]
       /\ pool' = pool \ S
       /\ held' = [held EXCEPT ![h] = @ \union S]

Refuse(h) ==
  /\ Answered(h)
  /\ want[h] > Cardinality(pool)
  /\ UNCHANGED <<pool, held>>

FPNext == \E h \in Holders : Ask(h) \/ Grant(h) \/ Refuse(h)

FPSpec == FPInit /\ [][FPNext]_<<pool, held, want>>

==============================================================================
