----------------------------- MODULE KernelProofs -----------------------------
(***************************************************************************)
(* Proofs about Kernel for every set of CPUs, every number of processes    *)
(* and every quantum, capacity and number of priorities.                   *)
(***************************************************************************)
EXTENDS Kernel, FiniteSetTheorems, TLAPS

------------------------------------------------------------------------------
(* The operations of the ready queue, in terms of who is queued.           *)

(* No process is queued twice: the first part of AtMostOnePlace.           *)
Distinct ==
  \A q1, q2 \in Prios : \A k1 \in DOMAIN mlq_ready_queue[q1],
                           k2 \in DOMAIN mlq_ready_queue[q2] :
    mlq_ready_queue[q1][k1] = mlq_ready_queue[q2][k2] => q1 = q2 /\ k1 = k2

QueueType ==
  /\ mlq_ready_queue \in [Prios -> Seq(Procs)]
  /\ slot \in [Prios -> 0..MAX_PRIO]

(* enqueue adds p at the end, or nothing.                                  *)
LEMMA EnqueueAtEnd ==
  ASSUME NEW q \in Seq(Procs), NEW p \in Procs
  PROVE  /\ Enqueue(q, p) \in Seq(Procs)
         /\ \A k \in DOMAIN Enqueue(q, p) :
              \/ k \in DOMAIN q /\ Enqueue(q, p)[k] = q[k]
              \/ k = Len(q) + 1 /\ Enqueue(q, p)[k] = p
<1>1. CASE Len(q) < MAX_QUEUE_SIZE
  <2>1. Enqueue(q, p) = Append(q, p)
    BY <1>1 DEF Enqueue
  <2>2. /\ Append(q, p) \in Seq(Procs)
        /\ Len(Append(q, p)) = Len(q) + 1
        /\ \A k \in 1..Len(q) : Append(q, p)[k] = q[k]
        /\ Append(q, p)[Len(q) + 1] = p
    OBVIOUS
  <2>3. QED
    BY <2>1, <2>2
<1>2. CASE ~(Len(q) < MAX_QUEUE_SIZE)
  BY <1>2 DEF Enqueue
<1>3. QED
  BY <1>1, <1>2

(* dequeue removes the head and moves the others up.                       *)
LEMMA DequeueHead ==
  ASSUME NEW q \in Seq(Procs), q # <<>>
  PROVE  /\ Dequeue(q) \in Seq(Procs)
         /\ Head(q) \in Procs
         /\ 1 \in DOMAIN q /\ Head(q) = q[1]
         /\ \A k \in DOMAIN Dequeue(q) :
              k + 1 \in DOMAIN q /\ k + 1 # 1 /\ Dequeue(q)[k] = q[k + 1]
BY DEF Dequeue

LEMMA QuotaType == Quota \in [Prios -> 0..MAX_PRIO]
BY MlqAssumption DEF Quota, Prios

LEMMA NullIsNoProc == NULL \notin Procs
BY KernelAssumption DEF NULL, Procs

(* get_proc returns NULL, or a process that was queued and now is not.     *)
LEMMA GetProcTakes ==
  ASSUME QueueType, NEW p, get_proc(p)
  PROVE  /\ QueueType'
         /\ \/ p = NULL /\ UNCHANGED mlq_ready_queue
            \/ p \in Procs /\ Queued(p) /\ (Distinct => ~Queued(p)')
         /\ \A r \in Procs : Queued(r)' => Queued(r)
         /\ Distinct => Distinct'
<1> USE DEF QueueType
<1>1. Quotas \in [Prios -> 0..MAX_PRIO]
  BY QuotaType DEF Quotas
<1>2. CASE p = NULL /\ slot' = Quotas /\ UNCHANGED mlq_ready_queue
  BY <1>1, <1>2 DEF Queued, Distinct
<1>3. ASSUME NEW i0 \in Servable(Quotas),
             p = Head(mlq_ready_queue[i0]),
             mlq_ready_queue' = [mlq_ready_queue EXCEPT ![i0] = Dequeue(@)],
             slot' = Charge(Quotas, i0)
      PROVE  /\ QueueType'
             /\ p \in Procs /\ Queued(p)
             /\ \A r \in Procs : Queued(r)' => Queued(r)
             /\ Distinct => Distinct' /\ ~Queued(p)'
  <2> DEFINE q == mlq_ready_queue[i0]
  <2>1. i0 \in Prios /\ Quotas[i0] > 0 /\ q # <<>> /\ q \in Seq(Procs)
    BY DEF Servable
  <2>2. /\ Dequeue(q) \in Seq(Procs)
        /\ p \in Procs
        /\ 1 \in DOMAIN q /\ p = q[1]
        /\ \A k \in DOMAIN Dequeue(q) :
             k + 1 \in DOMAIN q /\ k + 1 # 1 /\ Dequeue(q)[k] = q[k + 1]
    BY <2>1, <1>3, DequeueHead
  <2>3. /\ mlq_ready_queue'[i0] = Dequeue(q)
        /\ \A j \in Prios \ {i0} : mlq_ready_queue'[j] = mlq_ready_queue[j]
    BY <1>3, <2>1
  <2>4. QueueType'
    <3>1. mlq_ready_queue' \in [Prios -> Seq(Procs)]
      BY <1>3, <2>1, <2>2
    <3>2. slot' \in [Prios -> 0..MAX_PRIO]
      <4>1. Quotas[i0] \in 0..MAX_PRIO /\ Quotas[i0] - 1 \in 0..MAX_PRIO
        BY <1>1, <2>1, MlqAssumption
      <4>2. QED
        BY <1>3, <1>1, <4>1 DEF Charge
    <3>3. QED
      BY <3>1, <3>2
  <2>5. Queued(p)
    BY <2>1, <2>2 DEF Queued
  <2> DEFINE Old(j, k) == IF j = i0 THEN k + 1 ELSE k
  <2>6. ASSUME NEW j \in Prios, NEW k \in DOMAIN mlq_ready_queue'[j]
        PROVE  /\ Old(j, k) \in DOMAIN mlq_ready_queue[j]
               /\ mlq_ready_queue'[j][k] = mlq_ready_queue[j][Old(j, k)]
               /\ j = i0 => Old(j, k) # 1
    BY <2>2, <2>3
  <2>7. ASSUME NEW r \in Procs, Queued(r)' PROVE Queued(r)
    <3>1. PICK j \in Prios : \E k \in DOMAIN mlq_ready_queue'[j] :
                               mlq_ready_queue'[j][k] = r
      BY <2>7 DEF Queued
    <3>2. PICK k \in DOMAIN mlq_ready_queue'[j] : mlq_ready_queue'[j][k] = r
      BY <3>1
    <3>3. QED
      BY <2>6, <3>2 DEF Queued
  <2>8. ASSUME Distinct PROVE Distinct'
    <3> SUFFICES ASSUME NEW q1 \in Prios, NEW q2 \in Prios,
                        NEW k1 \in DOMAIN mlq_ready_queue'[q1],
                        NEW k2 \in DOMAIN mlq_ready_queue'[q2],
                        mlq_ready_queue'[q1][k1] = mlq_ready_queue'[q2][k2]
                 PROVE  q1 = q2 /\ k1 = k2
      BY DEF Distinct
    <3>1. q1 = q2 /\ Old(q1, k1) = Old(q2, k2)
      BY <2>6, <2>8 DEF Distinct
    <3>2. k1 \in Int /\ k2 \in Int
      BY <2>4
    <3>3. QED
      BY <3>1, <3>2
  <2>9. ASSUME Distinct PROVE ~Queued(p)'
    <3> SUFFICES ASSUME NEW j \in Prios, NEW k \in DOMAIN mlq_ready_queue'[j],
                        mlq_ready_queue'[j][k] = p
                 PROVE  FALSE
      BY DEF Queued
    <3>1. j = i0 /\ Old(j, k) = 1
      BY <2>1, <2>2, <2>6, <2>9 DEF Distinct
    <3>2. QED
      BY <3>1, <2>6
  <2>10. QED
    BY <2>2, <2>4, <2>5, <2>7, <2>8, <2>9
<1>4. QED
  BY <1>2, <1>3 DEF get_proc

(* put_proc queues p, which was not queued, and nobody else.               *)
LEMMA PutProcAdds ==
  ASSUME QueueType, NEW p \in Procs, NEW i0 \in Prios, put_proc(p, i0)
  PROVE  /\ QueueType'
         /\ \A r \in Procs : Queued(r)' => Queued(r) \/ r = p
         /\ Distinct /\ ~Queued(p) => Distinct'
<1> USE DEF QueueType
<1> DEFINE q == mlq_ready_queue[i0]
<1>1. /\ Enqueue(q, p) \in Seq(Procs)
      /\ \A k \in DOMAIN Enqueue(q, p) :
           \/ k \in DOMAIN q /\ Enqueue(q, p)[k] = q[k]
           \/ k = Len(q) + 1 /\ Enqueue(q, p)[k] = p
  BY EnqueueAtEnd
<1>2. /\ mlq_ready_queue'[i0] = Enqueue(q, p)
      /\ \A j \in Prios \ {i0} : mlq_ready_queue'[j] = mlq_ready_queue[j]
  BY DEF put_proc
<1>3. QueueType'
  BY <1>1 DEF put_proc
<1>4. ASSUME NEW j \in Prios, NEW k \in DOMAIN mlq_ready_queue'[j]
      PROVE  \/ /\ k \in DOMAIN mlq_ready_queue[j]
                /\ mlq_ready_queue'[j][k] = mlq_ready_queue[j][k]
             \/ j = i0 /\ k = Len(q) + 1 /\ mlq_ready_queue'[j][k] = p
  BY <1>1, <1>2
<1>5. ASSUME NEW r \in Procs, Queued(r)' PROVE Queued(r) \/ r = p
  BY <1>4, <1>5 DEF Queued
<1>6. ASSUME Distinct, ~Queued(p) PROVE Distinct'
  <2> SUFFICES ASSUME NEW q1 \in Prios, NEW q2 \in Prios,
                      NEW k1 \in DOMAIN mlq_ready_queue'[q1],
                      NEW k2 \in DOMAIN mlq_ready_queue'[q2],
                      mlq_ready_queue'[q1][k1] = mlq_ready_queue'[q2][k2]
               PROVE  q1 = q2 /\ k1 = k2
    BY DEF Distinct
  <2>1. ASSUME NEW j \in Prios, NEW k \in DOMAIN mlq_ready_queue'[j],
               mlq_ready_queue'[j][k] = p
        PROVE  j = i0 /\ k = Len(q) + 1
    BY <1>4, <1>6, <2>1 DEF Queued
  <2>2. ASSUME NEW j \in Prios, NEW k \in DOMAIN mlq_ready_queue'[j],
               mlq_ready_queue'[j][k] # p
        PROVE  /\ k \in DOMAIN mlq_ready_queue[j]
               /\ mlq_ready_queue'[j][k] = mlq_ready_queue[j][k]
    BY <1>4, <2>2
  <2>3. CASE mlq_ready_queue'[q1][k1] = p
    <3>1. mlq_ready_queue'[q2][k2] = p
      BY <2>3
    <3>2. q1 = i0 /\ k1 = Len(q) + 1
      BY <2>1, <2>3
    <3>3. q2 = i0 /\ k2 = Len(q) + 1
      BY <2>1, <3>1
    <3>4. QED
      BY <3>2, <3>3
  <2>4. CASE mlq_ready_queue'[q1][k1] # p
    <3>1. /\ k1 \in DOMAIN mlq_ready_queue[q1]
          /\ mlq_ready_queue'[q1][k1] = mlq_ready_queue[q1][k1]
      BY <2>2, <2>4
    <3>2. /\ k2 \in DOMAIN mlq_ready_queue[q2]
          /\ mlq_ready_queue'[q2][k2] = mlq_ready_queue[q2][k2]
      BY <2>2, <2>4
    <3>3. mlq_ready_queue[q1][k1] = mlq_ready_queue[q2][k2]
      BY <3>1, <3>2
    <3>4. QED
      BY <3>1, <3>2, <3>3, <1>6 DEF Distinct
  <2>5. QED
    BY <2>3, <2>4
<1>7. QED
  BY <1>3, <1>5, <1>6

LEMMA QueueUnchanged ==
  ASSUME UNCHANGED mlq_ready_queue
  PROVE  /\ \A r \in Procs : Queued(r)' <=> Queued(r)
         /\ Distinct' <=> Distinct
BY DEF Queued, Distinct

(* get_proc as cpu_routine uses it.                                        *)
LEMMA FetchTakes ==
  ASSUME QueueType, NEW c \in CPUs, Fetch(c)
  PROVE  /\ QueueType'
         /\ \A r \in Procs : Queued(r)' => Queued(r)
         /\ Distinct => Distinct'
         /\ ran' = [ran EXCEPT ![c] = 0]
         /\ \E p \in Procs \union {NULL} :
              /\ proc' = [proc EXCEPT ![c] = p]
              /\ p # NULL => Queued(p) /\ (Distinct => ~Queued(p)')
<1>1. PICK p \in Procs \union {NULL} :
        /\ get_proc(p)
        /\ proc' = [proc EXCEPT ![c] = p]
        /\ ran' = [ran EXCEPT ![c] = 0]
  BY DEF Fetch
<1>2. /\ QueueType'
      /\ \/ p = NULL /\ UNCHANGED mlq_ready_queue
         \/ p \in Procs /\ Queued(p) /\ (Distinct => ~Queued(p)')
      /\ \A r \in Procs : Queued(r)' => Queued(r)
      /\ Distinct => Distinct'
  BY <1>1, GetProcTakes
<1>3. QED
  BY <1>1, <1>2

------------------------------------------------------------------------------
(* Types.                                                                  *)

(* The type invariant, with the bound at which NewSlot stops counting.     *)
TypeInv == TypeOK /\ time <= MaxTime

LEMMA TypeInit == Init => TypeInv
<1> SUFFICES ASSUME Init PROVE TypeInv
  OBVIOUS
<1>1. QueueType
  BY QuotaType DEF Init, init_scheduler, QueueType
<1>2. 0 \in 0..TimeSlot /\ 0 \in 0..NumProcs /\ 0 \in 0..MaxTime
  BY KernelAssumption DEF MaxTime
<1>3. Clock!ClockTypeOK /\ time <= MaxTime
  BY <1>2 DEF Init, Clock!ClockInit, Clock!ClockTypeOK, Clock!Phases
<1>4. /\ prio \in [Procs -> Prios]
      /\ start_time \in [Procs -> 0..MaxStart]
      /\ size \in [Procs -> Sizes]
  BY DEF Init
<1>5. /\ cpc \in [CPUs -> {"check", "refetch", "recheck", "end_slot", "stopped"}]
      /\ proc \in [CPUs -> Procs \union {NULL}]
      /\ time_left \in [CPUs -> 0..TimeSlot]
      /\ ran \in [CPUs -> Nat]
  BY <1>2 DEF Init
<1>6. /\ i \in 0..NumProcs
      /\ lpc \in {"load", "end_slot", "detach", "stopped"}
      /\ done \in BOOLEAN
      /\ addedAt \in [Procs -> 0..MaxTime]
      /\ pc \in [Procs -> Nat]
      /\ freed \subseteq Procs
  BY <1>2 DEF Init
<1>7. QED
  BY <1>1, <1>3, <1>4, <1>5, <1>6 DEF TypeInv, TypeOK, QueueType

(* The steps of the queue, the clock and the program counters in the types.*)
LEMMA CPUTypeStep ==
  ASSUME TypeInv, NEW c \in CPUs, CPU(c)
  PROVE  TypeInv'
<1> USE KernelAssumption, NullIsNoProc
    DEF TypeInv, TypeOK, QueueType, At, Goto, HasFinished, MayStop, TimeOnFetch,
        Quantum, Run, config, cpuVars, ldVars, procVars, mlqVars, Devices,
        Clock!ClockTypeOK, Clock!Phases
<1>1. CASE FetchIdle(c)
  <2>1. Fetch(c)
    BY <1>1 DEF FetchIdle
  <2>2. QueueType'
    BY <2>1, FetchTakes
  <2>3. PICK p \in Procs \union {NULL} : proc' = [proc EXCEPT ![c] = p]
    BY <2>1 DEF Fetch
  <2>4. ran' = [ran EXCEPT ![c] = 0]
    BY <2>1 DEF Fetch
  <2>5. /\ proc' \in [CPUs -> Procs \union {NULL}]
        /\ ran' \in [CPUs -> Nat]
    BY <2>3, <2>4
  <2>6. cpc' \in [CPUs -> {"check", "refetch", "recheck", "end_slot", "stopped"}]
    BY <1>1 DEF FetchIdle
  <2>7. QED
    BY <1>1, <2>2, <2>5, <2>6 DEF FetchIdle
<1>2. CASE FinishProc(c)
  BY <1>2 DEF FinishProc
<1>3. CASE PutProc(c)
  BY <1>3, PutProcAdds DEF PutProc
<1>4. CASE KeepProc(c)
  BY <1>4 DEF KeepProc
<1>5. CASE FetchNext(c)
  <2>1. Fetch(c)
    BY <1>5 DEF FetchNext
  <2>2. QueueType'
    BY <2>1, FetchTakes
  <2>3. PICK p \in Procs \union {NULL} : proc' = [proc EXCEPT ![c] = p]
    BY <2>1 DEF Fetch
  <2>4. ran' = [ran EXCEPT ![c] = 0]
    BY <2>1 DEF Fetch
  <2>5. /\ proc' \in [CPUs -> Procs \union {NULL}]
        /\ ran' \in [CPUs -> Nat]
    BY <2>3, <2>4
  <2>6. time_left' \in [CPUs -> 0..TimeSlot]
    BY <1>5 DEF FetchNext
  <2>7. QED
    BY <1>5, <2>2, <2>5, <2>6 DEF FetchNext
<1>6. CASE StopCPU(c)
  BY <1>6 DEF StopCPU, Clock!Leave
<1>7. CASE SkipSlot(c)
  BY <1>7 DEF SkipSlot
<1>8. CASE RunProc(c)
  <2>1. time_left' \in [CPUs -> 0..TimeSlot]
    BY <1>8 DEF RunProc
  <2>2. pc' \in [Procs -> Nat]
    BY <1>8 DEF RunProc
  <2>3. ran' \in [CPUs -> Nat]
    BY <1>8 DEF RunProc
  <2>4. QED
    BY <1>8, <2>1, <2>2, <2>3 DEF RunProc
<1>9. CASE EndSlot(c)
  BY <1>9 DEF EndSlot, Clock!Arrive
<1>10. QED
  BY <1>1, <1>2, <1>3, <1>4, <1>5, <1>6, <1>7, <1>8, <1>9 DEF CPU

LEMMA LoaderTypeStep ==
  ASSUME TypeInv, Loader
  PROVE  TypeInv'
<1> USE KernelAssumption
    DEF TypeInv, TypeOK, QueueType, LoaderAt, Loaded, AfterAdd, config, cpuVars,
        ldVars, procVars, mlqVars, Devices, Clock!ClockTypeOK, Clock!Phases
<1>1. CASE AwaitStart
  BY <1>1 DEF AwaitStart, Clock!Arrive
<1>2. CASE AddProc
  <2>1. Loaded \in Procs /\ i' \in 0..NumProcs
    BY <1>2 DEF AddProc, Procs
  <2>2. QueueType'
    BY <1>2, <2>1, PutProcAdds DEF AddProc
  <2>3. time \in 0..MaxTime
    BY DEF MaxTime
  <2>4. QED
    BY <1>2, <2>1, <2>2, <2>3 DEF AddProc
<1>3. CASE LoaderEndSlot
  BY <1>3 DEF LoaderEndSlot, Clock!Arrive
<1>4. CASE SetDone
  BY <1>4 DEF SetDone
<1>5. CASE DetachLoader
  BY <1>5 DEF DetachLoader, Clock!Leave
<1>6. QED
  BY <1>1, <1>2, <1>3, <1>4, <1>5 DEF Loader

LEMMA TypeStep == TypeInv /\ [Next]_vars => TypeInv'
<1> SUFFICES ASSUME TypeInv, [Next]_vars
             PROVE  TypeInv'
  OBVIOUS
<1> USE DEF TypeInv, TypeOK, config, cpuVars, ldVars, procVars, mlqVars,
        Clock!ClockTypeOK, Clock!Phases
<1>1. CASE NewSlot
  <2>1. time' \in Nat /\ time' <= MaxTime
    BY <1>1, KernelAssumption DEF NewSlot, MaxTime
  <2>2. phase' \in [Devices -> Clock!Phases]
    BY <1>1 DEF NewSlot, Clock!Release
  <2>3. QED
    BY <1>1, <2>1, <2>2 DEF NewSlot
<1>2. ASSUME NEW c \in CPUs, CPU(c) PROVE TypeInv'
  BY <1>2, CPUTypeStep
<1>3. CASE Loader
  BY <1>3, LoaderTypeStep
<1>4. CASE UNCHANGED vars
  BY <1>4 DEF vars
<1>5. QED
  BY <1>1, <1>2, <1>3, <1>4 DEF Next, Finished

(* Every variable of os.c, sched.c and the clock keeps its type.           *)
THEOREM TypeCorrect == Spec => []TypeOK
<1>1. TypeInv => TypeOK
  BY DEF TypeInv
<1>2. QED
  BY <1>1, TypeInit, TypeStep, PTL DEF Spec

------------------------------------------------------------------------------
(* Where a process can be.                                                 *)

OneHolder ==
  \A p \in Procs : \A c1, c2 \in CPUs : Holds(c1, p) /\ Holds(c2, p) => c1 = c2

HeldNotQueued ==
  \A p \in Procs : \A c \in CPUs : Holds(c, p) => ~Queued(p)

LiveOnly ==
  \A p \in Procs : Queued(p) \/ (\E c \in CPUs : Holds(c, p)) =>
    p <= i /\ p \notin freed

(* AtMostOnePlace is inductive but for the process that is loaded next: it *)
(* has not been freed.                                                     *)
PlaceInv ==
  /\ Distinct
  /\ OneHolder
  /\ HeldNotQueued
  /\ LiveOnly
  /\ \A p \in freed : p <= i

LEMMA PlaceInvImplies == PlaceInv => AtMostOnePlace
BY DEF PlaceInv, Distinct, OneHolder, HeldNotQueued, LiveOnly, AtMostOnePlace

(* Steps that take nobody's process away and give nobody one.              *)
LEMMA PlaceKept ==
  ASSUME TypeInv, PlaceInv, freed' = freed, i' = i, Distinct',
         \A p \in Procs : Queued(p)' => Queued(p),
         \A c \in CPUs, p \in Procs : Holds(c, p)' => Holds(c, p)
  PROVE  PlaceInv'
<1>1. OneHolder'
  BY DEF PlaceInv, OneHolder
<1>2. HeldNotQueued'
  BY DEF PlaceInv, HeldNotQueued
<1>3. LiveOnly'
  BY DEF PlaceInv, LiveOnly
<1>4. QED
  BY <1>1, <1>2, <1>3 DEF PlaceInv

(* A CPU that had nothing in hand gets a process: it comes from a queue,   *)
(* so nobody has it.                                                       *)
LEMMA PlaceFetch ==
  ASSUME TypeInv, PlaceInv, NEW c \in CPUs, Fetch(c),
         proc[c] = NULL \/ cpc[c] = "refetch",
         NEW l, cpc' = [cpc EXCEPT ![c] = l], freed' = freed, i' = i
  PROVE  PlaceInv'
<1>1. QueueType
  BY DEF TypeInv, TypeOK, QueueType
<1>2. Distinct /\ Distinct' /\ \A r \in Procs : Queued(r)' => Queued(r)
  BY <1>1, FetchTakes DEF PlaceInv
<1>3. PICK p \in Procs \union {NULL} :
        /\ proc' = [proc EXCEPT ![c] = p]
        /\ p # NULL => Queued(p) /\ ~Queued(p)'
  BY <1>1, <1>2, FetchTakes
<1>4. ASSUME NEW d \in CPUs, NEW r \in Procs, Holds(d, r)'
      PROVE  (d = c /\ r = p) \/ (d # c /\ Holds(d, r))
  BY <1>3, <1>4 DEF Holds, TypeInv, TypeOK
<1>5. p \in Procs => Queued(p) /\ ~Queued(p)' /\ \A d \in CPUs : ~Holds(d, p)
  BY <1>3, NullIsNoProc DEF PlaceInv, HeldNotQueued
<1>6. OneHolder'
  BY <1>4, <1>5 DEF PlaceInv, OneHolder
<1>7. HeldNotQueued'
  BY <1>2, <1>4, <1>5 DEF PlaceInv, HeldNotQueued
<1>8. LiveOnly'
  BY <1>2, <1>4, <1>5 DEF PlaceInv, LiveOnly
<1>9. QED
  BY <1>2, <1>6, <1>7, <1>8 DEF PlaceInv

LEMMA PlaceCPUStep ==
  ASSUME TypeInv, PlaceInv, NEW c \in CPUs, CPU(c)
  PROVE  PlaceInv'
<1> USE DEF At, Goto, config, cpuVars, ldVars, procVars, mlqVars
<1>1. QueueType /\ proc \in [CPUs -> Procs \union {NULL}] /\ i \in Nat
      /\ cpc \in [CPUs -> {"check", "refetch", "recheck", "end_slot", "stopped"}]
  BY KernelAssumption DEF TypeInv, TypeOK, QueueType
<1>2. CASE FetchIdle(c)
  BY <1>2, PlaceFetch DEF FetchIdle
<1>3. CASE FinishProc(c)
  <2>1. Holds(c, proc[c]) /\ proc[c] \in Procs
    BY <1>1, <1>3 DEF FinishProc, Holds
  <2>2. /\ \A r \in Procs : Queued(r)' <=> Queued(r)
        /\ Distinct'
    BY <1>3, QueueUnchanged DEF FinishProc, PlaceInv
  <2>3. \A d \in CPUs, r \in Procs :
          Holds(d, r)' => d # c /\ Holds(d, r)
    BY <1>1, <1>3, NullIsNoProc DEF FinishProc, Holds
  <2>4. OneHolder'
    BY <2>3 DEF PlaceInv, OneHolder
  <2>5. HeldNotQueued'
    BY <2>2, <2>3 DEF PlaceInv, HeldNotQueued
  <2>6. /\ i' = i
        /\ freed' = freed \union {proc[c]}
    BY <1>3 DEF FinishProc
  <2>7. LiveOnly'
    <3> SUFFICES ASSUME NEW r \in Procs,
                        Queued(r)' \/ \E d \in CPUs : Holds(d, r)'
                 PROVE  r <= i' /\ r \notin freed'
      BY DEF LiveOnly
    <3>1. Queued(r) \/ \E d \in CPUs : d # c /\ Holds(d, r)
      BY <2>2, <2>3
    <3>2. r # proc[c]
      BY <2>1, <3>1 DEF PlaceInv, OneHolder, HeldNotQueued
    <3>3. r <= i /\ r \notin freed
      BY <3>1 DEF PlaceInv, LiveOnly
    <3>4. QED
      BY <2>6, <3>2, <3>3
  <2>8. \A r \in freed' : r <= i'
    BY <2>1, <2>6 DEF PlaceInv, LiveOnly
  <2>9. QED
    BY <2>2, <2>4, <2>5, <2>7, <2>8 DEF PlaceInv
<1>4. CASE PutProc(c)
  <2>1. Holds(c, proc[c]) /\ proc[c] \in Procs /\ prio[proc[c]] \in Prios
    BY <1>1, <1>4 DEF PutProc, Holds, TypeInv, TypeOK
  <2>2. ~Queued(proc[c])
    BY <2>1 DEF PlaceInv, HeldNotQueued
  <2>3. /\ \A r \in Procs : Queued(r)' => Queued(r) \/ r = proc[c]
        /\ Distinct'
    BY <1>1, <1>4, <2>1, <2>2, PutProcAdds DEF PutProc, PlaceInv
  <2>4. \A d \in CPUs, r \in Procs :
          Holds(d, r)' => d # c /\ Holds(d, r)
    BY <1>1, <1>4 DEF PutProc, Holds
  <2>5. OneHolder'
    BY <2>4 DEF PlaceInv, OneHolder
  <2>6. HeldNotQueued'
    BY <2>1, <2>3, <2>4 DEF PlaceInv, HeldNotQueued, OneHolder
  <2>7. i' = i /\ freed' = freed
    BY <1>4 DEF PutProc
  <2>8. LiveOnly'
    BY <2>1, <2>3, <2>4, <2>7 DEF PlaceInv, LiveOnly
  <2>9. QED
    BY <2>3, <2>5, <2>6, <2>7, <2>8 DEF PlaceInv
<1>5. CASE FetchNext(c)
  BY <1>5, PlaceFetch DEF FetchNext
<1>6. ASSUME UNCHANGED <<mlq_ready_queue, proc, freed, i>>,
             cpc[c] # "refetch",
             NEW l, cpc' = [cpc EXCEPT ![c] = l]
      PROVE  PlaceInv'
  <2>1. (\A r \in Procs : Queued(r)' => Queued(r)) /\ Distinct'
    BY <1>6, QueueUnchanged DEF PlaceInv
  <2>2. \A d \in CPUs, r \in Procs : Holds(d, r)' => Holds(d, r)
    BY <1>1, <1>6 DEF Holds
  <2>3. QED
    BY <1>6, <2>1, <2>2, PlaceKept
<1>7. CASE KeepProc(c)
  BY <1>6, <1>7 DEF KeepProc
<1>8. CASE StopCPU(c)
  BY <1>6, <1>8 DEF StopCPU
<1>9. CASE SkipSlot(c)
  BY <1>6, <1>9 DEF SkipSlot
<1>10. CASE RunProc(c)
  BY <1>6, <1>10 DEF RunProc
<1>11. CASE EndSlot(c)
  BY <1>6, <1>11 DEF EndSlot
<1>12. QED
  BY <1>2, <1>3, <1>4, <1>5, <1>7, <1>8, <1>9, <1>10, <1>11 DEF CPU

LEMMA PlaceStep == TypeInv /\ PlaceInv /\ [Next]_vars => PlaceInv'
<1> SUFFICES ASSUME TypeInv, PlaceInv, [Next]_vars
             PROVE  PlaceInv'
  OBVIOUS
<1> USE DEF config, cpuVars, ldVars, procVars, mlqVars
<1>1. ASSUME UNCHANGED <<mlq_ready_queue, cpc, proc, freed, i>>
      PROVE  PlaceInv'
  <2>1. (\A r \in Procs : Queued(r)' => Queued(r)) /\ Distinct'
    BY <1>1, QueueUnchanged DEF PlaceInv
  <2>2. \A d \in CPUs, r \in Procs : Holds(d, r)' => Holds(d, r)
    BY <1>1 DEF Holds
  <2>3. QED
    BY <1>1, <2>1, <2>2, PlaceKept
<1>2. CASE AddProc
  <2>1. i \in Nat /\ i' = i + 1 /\ Loaded \in Procs /\ freed' = freed
    BY <1>2, KernelAssumption DEF AddProc, Loaded, Procs, TypeInv, TypeOK
  <2>2. Loaded \notin freed /\ ~Queued(Loaded)
        /\ \A d \in CPUs : ~Holds(d, Loaded)
    BY <2>1 DEF Loaded, PlaceInv, LiveOnly
  <2>3. /\ \A r \in Procs : Queued(r)' => Queued(r) \/ r = Loaded
        /\ Distinct'
    BY <1>2, <2>1, <2>2, PutProcAdds
       DEF AddProc, PlaceInv, QueueType, TypeInv, TypeOK
  <2>4. \A d \in CPUs, r \in Procs : Holds(d, r)' => Holds(d, r)
    BY <1>2 DEF AddProc, Holds
  <2>5. OneHolder'
    BY <2>4 DEF PlaceInv, OneHolder
  <2>6. HeldNotQueued'
    BY <2>2, <2>3, <2>4 DEF PlaceInv, HeldNotQueued
  <2>7. \A r \in Procs : r <= i => r <= i'
    BY <2>1 DEF Procs
  <2>8. LiveOnly'
    BY <2>1, <2>2, <2>3, <2>4, <2>7 DEF PlaceInv, LiveOnly, Loaded
  <2>9. \A r \in freed' : r <= i'
    BY <2>1, <2>7 DEF PlaceInv, TypeInv, TypeOK
  <2>10. QED
    BY <2>3, <2>5, <2>6, <2>8, <2>9 DEF PlaceInv
<1>3. CASE Loader
  BY <1>1, <1>2, <1>3
     DEF Loader, AwaitStart, LoaderEndSlot, SetDone, DetachLoader
<1>4. QED
  BY <1>1, <1>3, PlaceCPUStep DEF Next, NewSlot, Finished, vars

LEMMA PlaceInit == Init => PlaceInv
<1> SUFFICES ASSUME Init PROVE PlaceInv
  OBVIOUS
<1>1. \A p \in Procs : ~Queued(p)
  BY DEF Init, init_scheduler, Queued
<1>2. \A c \in CPUs, p \in Procs : ~Holds(c, p)
  BY NullIsNoProc DEF Init, Holds
<1>3. Distinct /\ freed = {}
  BY DEF Init, init_scheduler, Distinct
<1>4. QED
  BY <1>1, <1>2, <1>3 DEF PlaceInv, OneHolder, HeldNotQueued, LiveOnly

(* No two CPUs run one process, and no CPU or queue keeps a process that   *)
(* was freed: get_proc and put_proc hand a process over without a gap in   *)
(* which two threads have it (os.c:58-76).                                 *)
THEOREM OnePlaceHolds == Spec => []AtMostOnePlace
<1>1. Init => TypeInv /\ PlaceInv
  BY TypeInit, PlaceInit
<1>2. TypeInv /\ PlaceInv /\ [Next]_vars => (TypeInv /\ PlaceInv)'
  BY TypeStep, PlaceStep
<1>3. QED
  BY <1>1, <1>2, PlaceInvImplies, PTL DEF Spec

------------------------------------------------------------------------------
(* Quanta.                                                                 *)

(* time_left between the steps of cpu_routine: a process that was put back *)
(* had nothing left, and one that is kept has something left.              *)
QuantumInv ==
  /\ QuantumKept
  /\ \A c \in CPUs : cpc[c] = "refetch" /\ proc[c] # NULL => time_left[c] = 0
  /\ \A c \in CPUs : cpc[c] = "recheck" /\ ran[c] > 0 => time_left[c] > 0

LEMMA QuantumInit == Init => QuantumInv
BY DEF Init, QuantumInv, QuantumKept

LEMMA QuantumStep == TypeInv /\ QuantumInv /\ [Next]_vars => QuantumInv'
<1> SUFFICES ASSUME TypeInv, QuantumInv, [Next]_vars
             PROVE  QuantumInv'
  OBVIOUS
<1> USE KernelAssumption, NullIsNoProc
    DEF QuantumInv, QuantumKept, At, Goto, TimeOnFetch, Quantum,
        config, cpuVars, ldVars, procVars, mlqVars
<1>1. /\ cpc \in [CPUs -> {"check", "refetch", "recheck", "end_slot", "stopped"}]
      /\ proc \in [CPUs -> Procs \union {NULL}]
      /\ time_left \in [CPUs -> 0..TimeSlot]
      /\ ran \in [CPUs -> Nat]
  BY DEF TypeInv, TypeOK
<1>2. ASSUME UNCHANGED <<cpc, proc, time_left, ran>> PROVE QuantumInv'
  BY <1>2
<1>3. ASSUME NEW c \in CPUs, CPU(c) PROVE QuantumInv'
  <2>1. CASE FetchIdle(c)
    <3>1. PICK p \in Procs \union {NULL} : proc' = [proc EXCEPT ![c] = p]
      BY <2>1 DEF FetchIdle, Fetch
    <3>2. ran' = [ran EXCEPT ![c] = 0] /\ time_left' = time_left
      BY <2>1 DEF FetchIdle, Fetch
    <3>3. PICK l \in {"end_slot", "recheck"} : cpc' = [cpc EXCEPT ![c] = l]
      BY <2>1 DEF FetchIdle
    <3>4. cpc[c] = "check" /\ proc[c] = NULL
      BY <2>1 DEF FetchIdle
    <3>5. QED
      BY <1>1, <3>1, <3>2, <3>3, <3>4
  <2>2. CASE FinishProc(c)
    BY <1>1, <2>2 DEF FinishProc
  <2>3. CASE PutProc(c)
    BY <1>1, <2>3 DEF PutProc
  <2>4. CASE KeepProc(c)
    BY <1>1, <2>4 DEF KeepProc
  <2>5. CASE FetchNext(c)
    <3>1. PICK p \in Procs \union {NULL} : proc' = [proc EXCEPT ![c] = p]
      BY <2>5 DEF FetchNext, Fetch
    <3>2. ran' = [ran EXCEPT ![c] = 0] /\ time_left' = [time_left EXCEPT ![c] = 0]
      BY <1>1, <2>5 DEF FetchNext, Fetch
    <3>3. cpc' = [cpc EXCEPT ![c] = "recheck"]
      BY <2>5 DEF FetchNext
    <3>4. QED
      BY <1>1, <3>1, <3>2, <3>3
  <2>6. CASE StopCPU(c)
    BY <1>1, <2>6 DEF StopCPU
  <2>7. CASE SkipSlot(c)
    BY <1>1, <2>7 DEF SkipSlot
  <2>8. CASE RunProc(c)
    BY <1>1, <2>8 DEF RunProc
  <2>9. CASE EndSlot(c)
    BY <1>1, <2>9 DEF EndSlot
  <2>10. QED
    BY <1>3, <2>1, <2>2, <2>3, <2>4, <2>5, <2>6, <2>7, <2>8, <2>9 DEF CPU
<1>4. CASE Loader
  BY <1>2, <1>4 DEF Loader, AwaitStart, AddProc, LoaderEndSlot, SetDone,
     DetachLoader
<1>5. QED
  BY <1>2, <1>3, <1>4 DEF Next, NewSlot, Finished, vars

(* A process that gets a CPU gets a whole quantum, although cpu_routine    *)
(* resets time_left in one of its three ways only (os.c:58-84).            *)
THEOREM QuantumHolds == Spec => []QuantumKept
<1>1. QuantumInv => QuantumKept
  BY DEF QuantumInv
<1>2. QED
  BY <1>1, TypeInit, TypeStep, QuantumInit, QuantumStep, PTL DEF Spec

------------------------------------------------------------------------------
(* Dispatch.                                                               *)

HasWork(p) == pc[p] < size[p] \/ size[p] = 0

(* Whoever is queued has something to run.                                 *)
ProgressInv ==
  /\ \A p \in Procs : pc[p] <= size[p]
  /\ \A p \in Procs : p > i => pc[p] = 0
  /\ \A p \in Procs : Queued(p) => HasWork(p)
  /\ NoIdleDispatch

LEMMA ProgressInit == Init => ProgressInv
<1> SUFFICES ASSUME Init PROVE ProgressInv
  OBVIOUS
<1>1. \A p \in Procs : size[p] \in Nat /\ pc[p] = 0
  BY KernelAssumption DEF Init
<1>2. QED
  BY <1>1 DEF Init, init_scheduler, ProgressInv, Queued, NoIdleDispatch

(* A CPU that gets a process from a queue finds work.                      *)
LEMMA ProgressFetch ==
  ASSUME TypeInv, ProgressInv, NEW c \in CPUs, Fetch(c), NEW l,
         cpc' = [cpc EXCEPT ![c] = l], UNCHANGED <<pc, size, i>>
  PROVE  ProgressInv'
<1>1. QueueType
  BY DEF TypeInv, TypeOK, QueueType
<1>2. \A r \in Procs : Queued(r)' => Queued(r)
  BY <1>1, FetchTakes
<1>3. PICK p \in Procs \union {NULL} :
        /\ proc' = [proc EXCEPT ![c] = p]
        /\ p # NULL => Queued(p)
  BY <1>1, FetchTakes
<1>4. p # NULL => HasWork(p)
  BY <1>3 DEF ProgressInv
<1>5. NoIdleDispatch'
  BY <1>3, <1>4 DEF ProgressInv, NoIdleDispatch, HasWork, TypeInv, TypeOK
<1>6. QED
  BY <1>2, <1>5 DEF ProgressInv, HasWork

LEMMA ProgressCPUStep ==
  ASSUME TypeInv, PlaceInv, ProgressInv, NEW c \in CPUs, CPU(c)
  PROVE  ProgressInv'
<1> USE DEF At, Goto, HasFinished, MayStop, config, cpuVars, ldVars, procVars,
        mlqVars
<1>1. /\ proc \in [CPUs -> Procs \union {NULL}] /\ QueueType
      /\ cpc \in [CPUs -> {"check", "refetch", "recheck", "end_slot", "stopped"}]
      /\ pc \in [Procs -> Nat]
      /\ \A p \in Procs : size[p] \in Nat
  BY KernelAssumption DEF TypeInv, TypeOK, QueueType
<1>2. CASE FetchIdle(c)
  BY <1>2, ProgressFetch DEF FetchIdle
<1>3. CASE FetchNext(c)
  BY <1>3, ProgressFetch DEF FetchNext
<1>4. CASE PutProc(c)
  <2>1. proc[c] \in Procs /\ HasWork(proc[c])
    BY <1>1, <1>4 DEF PutProc, ProgressInv, HasWork
  <2>2. \A r \in Procs : Queued(r)' => Queued(r) \/ r = proc[c]
    BY <1>1, <1>4, <2>1, PutProcAdds DEF PutProc, TypeInv, TypeOK
  <2>3. UNCHANGED <<pc, size, i, proc>> /\ cpc' = [cpc EXCEPT ![c] = "refetch"]
    BY <1>4 DEF PutProc
  <2>4. NoIdleDispatch'
    BY <1>1, <2>3 DEF ProgressInv, NoIdleDispatch
  <2>5. QED
    BY <2>1, <2>2, <2>3, <2>4 DEF ProgressInv, HasWork
<1>5. CASE RunProc(c)
  <2>1. proc[c] \in Procs /\ Holds(c, proc[c])
    BY <1>1, <1>5 DEF RunProc, Holds
  <2>2. proc[c] <= i /\ ~Queued(proc[c])
    BY <2>1 DEF PlaceInv, LiveOnly, HeldNotQueued
  <2>3. /\ \A r \in Procs \ {proc[c]} : pc'[r] = pc[r]
        /\ pc'[proc[c]] <= size[proc[c]]
    BY <1>1, <1>5, <2>1 DEF RunProc, Run, ProgressInv
  <2>4. UNCHANGED <<size, i, proc, mlq_ready_queue>>
        /\ cpc' = [cpc EXCEPT ![c] = "end_slot"]
    BY <1>5 DEF RunProc
  <2>5. \A r \in Procs : Queued(r)' => Queued(r) /\ r # proc[c]
    BY <2>2, <2>4, QueueUnchanged
  <2>6. ASSUME NEW d \in CPUs, cpc'[d] = "recheck", proc'[d] # NULL
        PROVE  pc'[proc'[d]] < size'[proc'[d]] \/ size'[proc'[d]] = 0
    <3>1. d # c /\ cpc[d] = "recheck" /\ proc[d] \in Procs /\ proc'[d] = proc[d]
      BY <1>1, <2>4, <2>6
    <3>2. proc[d] # proc[c]
      BY <2>1, <3>1 DEF PlaceInv, OneHolder, Holds
    <3>3. pc'[proc[d]] = pc[proc[d]]
      BY <2>3, <3>1, <3>2
    <3>4. pc[proc[d]] < size[proc[d]] \/ size[proc[d]] = 0
      BY <2>6, <2>4, <3>1 DEF ProgressInv, NoIdleDispatch
    <3>5. QED
      BY <2>4, <3>1, <3>3, <3>4
  <2>7. \A p \in Procs : pc'[p] <= size'[p] /\ (p > i' => pc'[p] = 0)
    <3> SUFFICES ASSUME NEW p \in Procs
                 PROVE  pc'[p] <= size'[p] /\ (p > i' => pc'[p] = 0)
      OBVIOUS
    <3>1. CASE p = proc[c]
      BY <2>2, <2>3, <2>4, <3>1, KernelAssumption DEF Procs, TypeInv, TypeOK
    <3>2. CASE p # proc[c]
      BY <2>3, <2>4, <3>2 DEF ProgressInv
    <3>3. QED
      BY <3>1, <3>2
  <2>8. \A p \in Procs : Queued(p)' => HasWork(p)'
    BY <2>3, <2>4, <2>5 DEF ProgressInv, HasWork
  <2>9. QED
    BY <2>6, <2>7, <2>8 DEF ProgressInv, NoIdleDispatch
<1>6. ASSUME UNCHANGED <<mlq_ready_queue, pc, size, i>>, NoIdleDispatch'
      PROVE  ProgressInv'
  BY <1>6, QueueUnchanged DEF ProgressInv, HasWork
<1>7. CASE FinishProc(c)
  BY <1>1, <1>6, <1>7 DEF FinishProc, ProgressInv, NoIdleDispatch
<1>8. CASE KeepProc(c)
  <2>1. pc[proc[c]] < size[proc[c]]
    BY <1>1, <1>8 DEF KeepProc, ProgressInv
  <2>2. NoIdleDispatch'
    BY <1>1, <1>8, <2>1 DEF KeepProc, ProgressInv, NoIdleDispatch
  <2>3. QED
    BY <1>6, <1>8, <2>2 DEF KeepProc
<1>9. CASE StopCPU(c)
  BY <1>1, <1>6, <1>9 DEF StopCPU, ProgressInv, NoIdleDispatch
<1>10. CASE SkipSlot(c)
  BY <1>1, <1>6, <1>10 DEF SkipSlot, ProgressInv, NoIdleDispatch
<1>11. CASE EndSlot(c)
  BY <1>1, <1>6, <1>11 DEF EndSlot, ProgressInv, NoIdleDispatch
<1>12. QED
  BY <1>2, <1>3, <1>4, <1>5, <1>7, <1>8, <1>9, <1>10, <1>11 DEF CPU

LEMMA ProgressStep ==
  TypeInv /\ PlaceInv /\ ProgressInv /\ [Next]_vars => ProgressInv'
<1> SUFFICES ASSUME TypeInv, PlaceInv, ProgressInv, [Next]_vars
             PROVE  ProgressInv'
  OBVIOUS
<1> USE DEF config, cpuVars, ldVars, procVars, mlqVars
<1>1. ASSUME UNCHANGED <<mlq_ready_queue, cpc, proc, pc, size, i>>
      PROVE  ProgressInv'
  BY <1>1, QueueUnchanged DEF ProgressInv, NoIdleDispatch, HasWork
<1>2. CASE AddProc
  <2>1. /\ i \in Nat /\ i' = i + 1 /\ Loaded \in Procs /\ Loaded > i
        /\ UNCHANGED <<pc, size, cpc, proc>>
    BY <1>2, KernelAssumption DEF AddProc, Loaded, Procs, TypeInv, TypeOK
  <2>2. size[Loaded] \in Nat /\ pc[Loaded] = 0
    BY <2>1, KernelAssumption DEF ProgressInv, TypeInv, TypeOK
  <2>3. \A r \in Procs : Queued(r)' => Queued(r) \/ r = Loaded
    BY <1>2, <2>1, PutProcAdds DEF AddProc, QueueType, TypeInv, TypeOK
  <2>4. \A p \in Procs : p > i' => p > i
    BY <2>1 DEF Procs
  <2>5. QED
    BY <2>1, <2>2, <2>3, <2>4 DEF ProgressInv, NoIdleDispatch, HasWork
<1>3. CASE Loader
  BY <1>1, <1>2, <1>3
     DEF Loader, AwaitStart, LoaderEndSlot, SetDone, DetachLoader
<1>4. QED
  BY <1>1, <1>3, ProgressCPUStep DEF Next, NewSlot, Finished, vars

(* A CPU spends a slot on a process only if it has an instruction to run   *)
(* (os.c:64-76): this rests on nobody else running the processes it holds  *)
(* or finds queued.                                                        *)
THEOREM NoIdleDispatchHolds == Spec => []NoIdleDispatch
<1>1. ProgressInv => NoIdleDispatch
  BY DEF ProgressInv
<1>2. QED
  BY <1>1, TypeInit, TypeStep, PlaceInit, PlaceStep, ProgressInit, ProgressStep,
     PTL DEF Spec

------------------------------------------------------------------------------
(* The loader.                                                             *)

Earliest(p) == IF p = 1 THEN 0 ELSE addedAt[p - 1] + 1
Due(p) == IF start_time[p] > Earliest(p) THEN start_time[p] ELSE Earliest(p)

(* The clock cannot run past the loader: while it works the slot does not  *)
(* end, and while it waits the next slot is not too late.                  *)
LoaderInv ==
  /\ LoadedOnTime
  /\ \A p \in 1..i : addedAt[p] <= MaxStart + p - 1
  /\ lpc = "end_slot" => i > 0 /\ time = addedAt[i] /\ phase[ld] = "working"
  /\ lpc = "load" /\ i < NumProcs =>
       \/ phase[ld] = "working" /\ Earliest(i + 1) <= time /\ time <= Due(i + 1)
       \/ phase[ld] = "waiting" /\ Earliest(i + 1) <= time + 1
                                /\ time + 1 <= Due(i + 1)

LEMMA LoaderInit == Init => LoaderInv
<1> SUFFICES ASSUME Init PROVE LoaderInv
  OBVIOUS
<1>1. i = 0 /\ lpc = "load" /\ time = 0 /\ phase[ld] = "working"
  BY DEF Init, Clock!ClockInit, Devices
<1>2. NumProcs > 0 => start_time[1] \in Nat
  BY KernelAssumption DEF Init, Procs
<1>3. 0 < NumProcs => Earliest(1) <= time /\ time <= Due(1)
  BY <1>1, <1>2 DEF Earliest, Due
<1>4. QED
  BY <1>1, <1>3 DEF LoaderInv, LoadedOnTime

LEMMA LoaderStep == TypeInv /\ LoaderInv /\ [Next]_vars => LoaderInv'
<1> SUFFICES ASSUME TypeInv, LoaderInv, [Next]_vars
             PROVE  LoaderInv'
  OBVIOUS
<1> USE KernelAssumption
    DEF LoaderAt, Loaded, AfterAdd, config, cpuVars, ldVars, procVars, mlqVars
<1>1. /\ time \in Nat /\ i \in 0..NumProcs
      /\ phase \in [Devices -> {"working", "waiting", "gone"}]
      /\ addedAt \in [Procs -> Nat]
      /\ start_time \in [Procs -> 0..MaxStart]
  BY DEF TypeInv, TypeOK, Clock!ClockTypeOK, Clock!Phases, MaxTime
<1>2. i < NumProcs =>
        /\ i + 1 \in Procs /\ i + 1 > 0
        /\ Earliest(i + 1) \in Nat /\ Due(i + 1) \in Nat
        /\ Earliest(i + 1) <= MaxStart + i /\ Due(i + 1) <= MaxStart + i
        /\ Earliest(i + 1) <= Due(i + 1) /\ start_time[i + 1] <= Due(i + 1)
  <2> SUFFICES ASSUME i < NumProcs
               PROVE  /\ i + 1 \in Procs
                      /\ Earliest(i + 1) \in Nat
                      /\ start_time[i + 1] \in 0..MaxStart
                      /\ Earliest(i + 1) <= MaxStart + i
    BY <1>1 DEF Due
  <2>1. i + 1 \in Procs
    BY <1>1 DEF Procs
  <2>2. i # 0 => i \in Procs /\ i \in 1..i /\ addedAt[i] \in Nat
    BY <1>1 DEF Procs
  <2>3. i # 0 => addedAt[i] <= MaxStart + i - 1
    BY <2>2 DEF LoaderInv
  <2>4. QED
    BY <1>1, <2>1, <2>2, <2>3 DEF Earliest
<1>3. ASSUME UNCHANGED <<time, i, lpc, start_time, addedAt>>,
             phase'[ld] = phase[ld]
      PROVE  LoaderInv'
  BY <1>3 DEF LoaderInv, LoadedOnTime, Earliest, Due
<1>4. CASE NewSlot
  <2>1. UNCHANGED <<i, lpc, start_time, addedAt>>
    BY <1>4 DEF NewSlot
  <2>2. phase[ld] # "working"
    BY <1>4 DEF NewSlot, Clock!Release, Devices
  <2>3. phase[ld] = "waiting" => phase'[ld] = "working"
    BY <1>4 DEF NewSlot, Clock!Release, Devices
  <2>4. ASSUME lpc = "load", i < NumProcs
        PROVE  /\ phase'[ld] = "working"
               /\ Earliest(i + 1) <= time' /\ time' <= Due(i + 1)
    <3>1. /\ phase[ld] = "waiting"
          /\ Earliest(i + 1) <= time + 1 /\ time + 1 <= Due(i + 1)
      BY <2>2, <2>4 DEF LoaderInv
    <3>2. time < MaxTime
      BY <1>1, <1>2, <2>4, <3>1 DEF MaxTime
    <3>3. time' = time + 1
      BY <1>4, <3>2 DEF NewSlot
    <3>4. QED
      BY <2>3, <3>1, <3>3
  <2>5. lpc # "end_slot"
    BY <2>2 DEF LoaderInv
  <2>6. QED
    BY <2>1, <2>4, <2>5 DEF LoaderInv, LoadedOnTime, Earliest, Due
<1>5. ASSUME NEW c \in CPUs, CPU(c) PROVE LoaderInv'
  <2>1. c # ld
    OBVIOUS
  <2>2. phase'[ld] = phase[ld] /\ UNCHANGED <<time, i, lpc, start_time, addedAt>>
    BY <1>1, <1>5, <2>1
       DEF CPU, FetchIdle, FinishProc, PutProc, KeepProc, FetchNext, StopCPU,
           SkipSlot, RunProc, EndSlot, Clock!Leave, Clock!Arrive, Devices
  <2>3. QED
    BY <1>3, <2>2
<1>6. CASE AwaitStart
  <2>1. /\ lpc = "load" /\ i < NumProcs /\ phase[ld] = "working"
        /\ time < start_time[i + 1]
        /\ phase' = [phase EXCEPT ![ld] = "waiting"]
        /\ UNCHANGED <<time, i, lpc, start_time, addedAt>>
    BY <1>6 DEF AwaitStart, Clock!Arrive
  <2>2. phase'[ld] = "waiting"
    BY <1>1, <2>1 DEF Devices
  <2>3. Earliest(i + 1) <= time + 1 /\ time + 1 <= Due(i + 1)
    BY <1>1, <1>2, <2>1 DEF LoaderInv
  <2>4. QED
    BY <2>1, <2>2, <2>3 DEF LoaderInv, LoadedOnTime, Earliest, Due
<1>7. CASE AddProc
  <2>1. /\ lpc = "load" /\ i < NumProcs /\ phase[ld] = "working"
        /\ time >= start_time[i + 1]
        /\ addedAt' = [addedAt EXCEPT ![i + 1] = time]
        /\ i' = i + 1 /\ lpc' = "end_slot"
        /\ UNCHANGED <<time, phase, start_time>>
    BY <1>7 DEF AddProc
  <2>2. time = Due(i + 1)
    BY <1>1, <1>2, <2>1 DEF LoaderInv, Due
  <2>3. addedAt'[i + 1] = time /\ \A p \in Procs \ {i + 1} : addedAt'[p] = addedAt[p]
    BY <1>1, <1>2, <2>1
  <2>4. \A p \in 1..(i + 1) : Earliest(p)' = Earliest(p)
    <3> SUFFICES ASSUME NEW p \in 1..(i + 1), p # 1
                 PROVE  addedAt'[p - 1] = addedAt[p - 1]
      BY DEF Earliest
    <3>1. p - 1 \in Procs /\ p - 1 # i + 1
      BY <1>1, <2>1 DEF Procs
    <3>2. QED
      BY <2>3, <3>1
  <2>5. \A p \in 1..(i + 1) : Due(p)' = Due(p)
    BY <2>1, <2>4 DEF Due
  <2>6. \A p \in 1..(i + 1) : addedAt'[p] = Due(p) /\ addedAt'[p] <= MaxStart + p - 1
    <3> SUFFICES ASSUME NEW p \in 1..(i + 1)
                 PROVE  addedAt'[p] = Due(p) /\ addedAt'[p] <= MaxStart + p - 1
      OBVIOUS
    <3>1. CASE p = i + 1
      BY <1>1, <1>2, <2>1, <2>2, <2>3, <3>1
    <3>2. CASE p # i + 1
      <4>1. p \in 1..i /\ p \in Procs
        BY <1>1, <3>2 DEF Procs
      <4>2. addedAt[p] = Due(p) /\ addedAt[p] <= MaxStart + p - 1
        BY <4>1 DEF LoaderInv, LoadedOnTime, Due, Earliest
      <4>3. QED
        BY <2>3, <3>2, <4>1, <4>2
    <3>3. QED
      BY <3>1, <3>2
  <2>7. LoadedOnTime'
    BY <2>1, <2>5, <2>6 DEF LoadedOnTime, Due, Earliest
  <2>8. i' > 0 /\ time' = addedAt'[i'] /\ phase'[ld] = "working"
    BY <1>1, <2>1, <2>3
  <2>9. QED
    BY <2>1, <2>6, <2>7, <2>8 DEF LoaderInv
<1>8. CASE LoaderEndSlot
  <2>1. /\ lpc = "end_slot" /\ phase[ld] = "working" /\ lpc' = "load"
        /\ phase' = [phase EXCEPT ![ld] = "waiting"]
        /\ UNCHANGED <<time, i, start_time, addedAt>>
    BY <1>8 DEF LoaderEndSlot, Clock!Arrive
  <2>2. phase'[ld] = "waiting"
    BY <1>1, <2>1 DEF Devices
  <2>3. i > 0 /\ time = addedAt[i]
    BY <2>1 DEF LoaderInv
  <2>4. Earliest(i + 1) = time + 1
    BY <1>1, <2>3 DEF Earliest
  <2>5. QED
    BY <1>1, <1>2, <2>1, <2>2, <2>4 DEF LoaderInv, LoadedOnTime, Earliest, Due
<1>9. CASE SetDone
  BY <1>9 DEF SetDone, LoaderInv, LoadedOnTime
<1>10. CASE DetachLoader
  BY <1>10 DEF DetachLoader, Clock!Leave, LoaderInv, LoadedOnTime
<1>11. QED
  BY <1>3, <1>4, <1>5, <1>6, <1>7, <1>8, <1>9, <1>10
     DEF Next, Finished, Loader, vars

(* The loader adds each process in its start slot or right after the       *)
(* process before it: the slot clock never runs past a thread that has not *)
(* ended its slot (os.c:126-158).                                          *)
THEOREM LoadedOnTimeHolds == Spec => []LoadedOnTime
<1>1. LoaderInv => LoadedOnTime
  BY DEF LoaderInv
<1>2. QED
  BY <1>1, TypeInit, TypeStep, LoaderInit, LoaderStep, PTL DEF Spec

------------------------------------------------------------------------------
(* How a run of Kernel ends: with room in the ready queues no process is   *)
(* lost, and CPUs that stop leave nothing behind.                          *)

(* The hypothesis of these proofs: a queue can hold every process (run      *)
(* kernel_full shows what happens otherwise).                              *)
Roomy == NumProcs <= MAX_QUEUE_SIZE

------------------------------------------------------------------------------
(* What the operations of the ready queue keep.                            *)

(* Pigeonhole: a queue without p and without duplicates is not full.       *)
LEMMA RoomLeft ==
  ASSUME QueueType, Distinct, Roomy, NEW p \in Procs, ~Queued(p),
         NEW j \in Prios
  PROVE  Len(mlq_ready_queue[j]) < MAX_QUEUE_SIZE
<1> DEFINE q == mlq_ready_queue[j]
           others == Procs \ {p}
<1>1. q \in Seq(Procs) /\ Len(q) \in Nat /\ DOMAIN q = 1..Len(q)
  BY DEF QueueType
<1>2. q \in [1..Len(q) -> others]
  BY <1>1 DEF Queued
<1>3. \A a, b \in 1..Len(q) : q[a] = q[b] => a = b
  BY <1>1 DEF Distinct
<1>4. q \in Injection(1..Len(q), others)
  BY <1>1, <1>2, <1>3 DEF Injection, IsInjective
<1>5. IsFiniteSet(Procs) /\ Cardinality(Procs) = NumProcs
  BY FS_Interval, KernelAssumption DEF Procs
<1>6. IsFiniteSet(others) /\ Cardinality(others) = NumProcs - 1
  BY <1>5, FS_RemoveElement
<1>7. Cardinality(1..Len(q)) <= NumProcs - 1
  BY <1>4, <1>6, FS_Injection
<1>8. Cardinality(1..Len(q)) = Len(q)
  BY <1>1, FS_Interval
<1>9. QED
  BY <1>1, <1>7, <1>8, KernelAssumption, MlqAssumption DEF Roomy

(* put_proc with room in the queue loses nobody.                           *)
LEMMA PutProcKeeps ==
  ASSUME QueueType, Distinct, Roomy, NEW p \in Procs, ~Queued(p),
         NEW j \in Prios, put_proc(p, j)
  PROVE  Queued(p)' /\ \A r \in Procs : Queued(r) => Queued(r)'
<1> DEFINE q == mlq_ready_queue[j]
<1>1. q \in Seq(Procs) /\ mlq_ready_queue \in [Prios -> Seq(Procs)]
  BY DEF QueueType
<1>2. mlq_ready_queue' = [mlq_ready_queue EXCEPT ![j] = Append(q, p)]
  BY RoomLeft DEF put_proc, Enqueue
<1>3. /\ Len(q) + 1 \in DOMAIN Append(q, p)
      /\ Append(q, p)[Len(q) + 1] = p
      /\ \A k \in DOMAIN q : k \in DOMAIN Append(q, p) /\ Append(q, p)[k] = q[k]
  BY <1>1
<1>4. /\ mlq_ready_queue'[j] = Append(q, p)
      /\ \A l \in Prios \ {j} : mlq_ready_queue'[l] = mlq_ready_queue[l]
  BY <1>1, <1>2
<1>5. Queued(p)'
  BY <1>3, <1>4 DEF Queued
<1>6. ASSUME NEW r \in Procs, NEW l \in Prios, NEW k \in DOMAIN mlq_ready_queue[l],
             mlq_ready_queue[l][k] = r
      PROVE  k \in DOMAIN mlq_ready_queue'[l] /\ mlq_ready_queue'[l][k] = r
  BY <1>3, <1>4, <1>6
<1>7. QED
  BY <1>5, <1>6 DEF Queued

(* get_proc removes nobody but the process it returns, and returns NULL    *)
(* only when every queue is empty: the second attempt has all quotas.      *)
LEMMA GetProcKeeps ==
  ASSUME QueueType, NEW p, get_proc(p)
  PROVE  /\ \A r \in Procs : Queued(r) => Queued(r)' \/ r = p
         /\ p = NULL => \A r \in Procs : ~Queued(r)
<1>1. CASE Servable(Quotas) = {} /\ p = NULL /\ UNCHANGED mlq_ready_queue
  <2>1. Servable(Quota) = {}
    BY <1>1 DEF Quotas
  <2>2. \A l \in Prios : Quota[l] > 0
    BY MlqAssumption DEF Quota, Prios
  <2>3. \A l \in Prios : mlq_ready_queue[l] = <<>>
    BY <2>1, <2>2 DEF Servable
  <2>4. QED
    BY <2>3 DEF Queued
<1>2. ASSUME NEW i0 \in Servable(Quotas),
             p = Head(mlq_ready_queue[i0]),
             mlq_ready_queue' = [mlq_ready_queue EXCEPT ![i0] = Dequeue(@)]
      PROVE  (\A r \in Procs : Queued(r) => Queued(r)' \/ r = p) /\ p # NULL
  <2> DEFINE q == mlq_ready_queue[i0]
  <2>1. i0 \in Prios /\ q # <<>> /\ q \in Seq(Procs)
    BY DEF Servable, QueueType
  <2>2. p \in Procs /\ p = q[1]
    BY <1>2, <2>1, DequeueHead
  <2>3. \A k \in DOMAIN q : k # 1 =>
          k - 1 \in DOMAIN Dequeue(q) /\ Dequeue(q)[k - 1] = q[k]
    BY <2>1 DEF Dequeue
  <2>4. /\ mlq_ready_queue'[i0] = Dequeue(q)
        /\ \A l \in Prios \ {i0} : mlq_ready_queue'[l] = mlq_ready_queue[l]
    BY <1>2, <2>1 DEF QueueType
  <2>5. ASSUME NEW r \in Procs, r # p,
               NEW l \in Prios, NEW k \in DOMAIN mlq_ready_queue[l],
               mlq_ready_queue[l][k] = r
        PROVE  Queued(r)'
    <3>1. CASE l = i0
      <4>1. k # 1
        BY <2>2, <2>5, <3>1
      <4>2. k - 1 \in DOMAIN mlq_ready_queue'[l] /\ mlq_ready_queue'[l][k - 1] = r
        BY <2>3, <2>4, <2>5, <3>1, <4>1
      <4>3. QED
        BY <4>2 DEF Queued
    <3>2. CASE l # i0
      BY <2>4, <2>5, <3>2 DEF Queued
    <3>3. QED
      BY <3>1, <3>2
  <2>6. QED
    BY <2>2, <2>5, NullIsNoProc DEF Queued
<1>3. QED
  BY <1>1, <1>2 DEF get_proc

------------------------------------------------------------------------------
(* No process is lost.                                                     *)

(* Steps that drop nobody from a queue or a CPU.                           *)
LEMMA KeptByAll ==
  ASSUME NoProcessLost, i' = i, freed' = freed,
         \A p \in Procs : Queued(p) => Queued(p)',
         \A c \in CPUs, p \in Procs : Holds(c, p) => Holds(c, p)'
  PROVE  NoProcessLost'
BY DEF NoProcessLost

LEMMA KeptFetch ==
  ASSUME TypeInv, PlaceInv, NoProcessLost, NEW c \in CPUs, Fetch(c),
         proc[c] = NULL \/ cpc[c] = "refetch",
         NEW l, cpc' = [cpc EXCEPT ![c] = l], proc'[c] # NULL => l # "refetch",
         freed' = freed, i' = i
  PROVE  NoProcessLost'
<1>1. /\ QueueType
      /\ proc \in [CPUs -> Procs \union {NULL}]
      /\ cpc \in [CPUs -> {"check", "refetch", "recheck", "end_slot", "stopped"}]
  BY DEF TypeInv, TypeOK, QueueType
<1>2. PICK p \in Procs \union {NULL} :
        get_proc(p) /\ proc' = [proc EXCEPT ![c] = p]
  BY DEF Fetch
<1>3. \A r \in Procs : Queued(r) => Queued(r)' \/ r = p
  BY <1>1, <1>2, GetProcKeeps
<1>4. p \in Procs => Holds(c, p)'
  BY <1>1, <1>2, NullIsNoProc DEF Holds
<1>5. \A d \in CPUs, r \in Procs : Holds(d, r) => Holds(d, r)'
  BY <1>1, <1>2, NullIsNoProc DEF Holds
<1>6. QED
  BY <1>3, <1>4, <1>5 DEF NoProcessLost

LEMMA KeptCPUStep ==
  ASSUME Roomy, TypeInv, PlaceInv, NoProcessLost, NEW c \in CPUs, CPU(c)
  PROVE  NoProcessLost'
<1> USE DEF At, Goto, config, cpuVars, ldVars, procVars, mlqVars
<1>1. /\ QueueType
      /\ proc \in [CPUs -> Procs \union {NULL}]
      /\ cpc \in [CPUs -> {"check", "refetch", "recheck", "end_slot", "stopped"}]
  BY DEF TypeInv, TypeOK, QueueType
<1>2. CASE FetchIdle(c)
  BY <1>2, KeptFetch DEF FetchIdle
<1>3. CASE FinishProc(c)
  <2>1. \A r \in Procs : Queued(r)' <=> Queued(r)
    BY <1>3, QueueUnchanged DEF FinishProc
  <2>2. \A d \in CPUs, r \in Procs :
          Holds(d, r) => Holds(d, r)' \/ r = proc[c]
    BY <1>1, <1>3 DEF FinishProc, Holds
  <2>3. i' = i /\ freed' = freed \union {proc[c]}
    BY <1>3 DEF FinishProc
  <2>4. QED
    BY <2>1, <2>2, <2>3 DEF NoProcessLost
<1>4. CASE PutProc(c)
  <2>1. Holds(c, proc[c]) /\ proc[c] \in Procs /\ prio[proc[c]] \in Prios
    BY <1>1, <1>4 DEF PutProc, Holds, TypeInv, TypeOK
  <2>2. ~Queued(proc[c]) /\ Distinct
    BY <2>1 DEF PlaceInv, HeldNotQueued
  <2>3. PICK p \in Procs : p = proc[c]
    BY <2>1
  <2>4. Queued(p)' /\ \A r \in Procs : Queued(r) => Queued(r)'
    BY <1>1, <1>4, <2>1, <2>2, <2>3, PutProcKeeps DEF PutProc
  <2>5. \A d \in CPUs, r \in Procs : Holds(d, r) => Holds(d, r)' \/ r = p
    BY <1>1, <1>4, <2>3 DEF PutProc, Holds
  <2>6. i' = i /\ freed' = freed
    BY <1>4 DEF PutProc
  <2>7. QED
    BY <2>4, <2>5, <2>6 DEF NoProcessLost
<1>5. CASE FetchNext(c)
  BY <1>5, KeptFetch DEF FetchNext
<1>6. ASSUME UNCHANGED <<mlq_ready_queue, proc, freed, i>>,
             NEW l, cpc' = [cpc EXCEPT ![c] = l], l # "refetch"
      PROVE  NoProcessLost'
  <2>1. \A r \in Procs : Queued(r) => Queued(r)'
    BY <1>6, QueueUnchanged
  <2>2. \A d \in CPUs, r \in Procs : Holds(d, r) => Holds(d, r)'
    BY <1>1, <1>6 DEF Holds
  <2>3. QED
    BY <1>6, <2>1, <2>2, KeptByAll
<1>7. CASE KeepProc(c)
  BY <1>6, <1>7 DEF KeepProc
<1>8. CASE StopCPU(c)
  BY <1>6, <1>8 DEF StopCPU
<1>9. CASE SkipSlot(c)
  BY <1>6, <1>9 DEF SkipSlot
<1>10. CASE RunProc(c)
  BY <1>6, <1>10 DEF RunProc
<1>11. CASE EndSlot(c)
  BY <1>6, <1>11 DEF EndSlot
<1>12. QED
  BY <1>2, <1>3, <1>4, <1>5, <1>7, <1>8, <1>9, <1>10, <1>11 DEF CPU

LEMMA KeptStep ==
  Roomy /\ TypeInv /\ PlaceInv /\ NoProcessLost /\ [Next]_vars => NoProcessLost'
<1> SUFFICES ASSUME Roomy, TypeInv, PlaceInv, NoProcessLost, [Next]_vars
             PROVE  NoProcessLost'
  OBVIOUS
<1> USE DEF config, cpuVars, ldVars, procVars, mlqVars
<1>1. ASSUME UNCHANGED <<mlq_ready_queue, cpc, proc, freed, i>>
      PROVE  NoProcessLost'
  <2>1. \A r \in Procs : Queued(r) => Queued(r)'
    BY <1>1, QueueUnchanged
  <2>2. \A d \in CPUs, r \in Procs : Holds(d, r) => Holds(d, r)'
    BY <1>1 DEF Holds
  <2>3. QED
    BY <1>1, <2>1, <2>2, KeptByAll
<1>2. CASE AddProc
  <2>1. i \in Nat /\ i' = i + 1 /\ Loaded = i + 1 /\ Loaded \in Procs /\ freed' = freed
    BY <1>2, KernelAssumption DEF AddProc, Loaded, Procs, TypeInv, TypeOK
  <2>2. PICK p \in Procs : p = Loaded
    BY <2>1
  <2>3. ~Queued(p) /\ Distinct /\ QueueType /\ prio[p] \in Prios
    BY <2>1, <2>2 DEF PlaceInv, LiveOnly, QueueType, TypeInv, TypeOK
  <2>4. put_proc(p, prio[p])
    BY <1>2, <2>2 DEF AddProc
  <2>5. Queued(p)' /\ \A r \in Procs : Queued(r) => Queued(r)'
    BY <2>3, <2>4, PutProcKeeps
  <2>6. \A d \in CPUs, r \in Procs : Holds(d, r) => Holds(d, r)'
    BY <1>2 DEF AddProc, Holds
  <2>7. \A r \in Procs : r <= i' => r <= i \/ r = p
    BY <2>1, <2>2 DEF Procs
  <2>8. QED
    BY <2>1, <2>5, <2>6, <2>7 DEF NoProcessLost
<1>3. CASE Loader
  BY <1>1, <1>2, <1>3
     DEF Loader, AwaitStart, LoaderEndSlot, SetDone, DetachLoader
<1>4. QED
  BY <1>1, <1>3, KeptCPUStep DEF Next, NewSlot, Finished, vars

LEMMA KeptInit == Init => NoProcessLost
BY KernelAssumption DEF Init, NoProcessLost, Procs

(* When the queues have room for every process, put_proc and add_proc drop *)
(* none (queue.c:12), and get_proc takes none that a CPU does not run.     *)
THEOREM NoProcessLostHolds ==
  ASSUME Roomy
  PROVE  Spec => []NoProcessLost
<1>1. Init => TypeInv /\ PlaceInv /\ NoProcessLost
  BY TypeInit, PlaceInit, KeptInit
<1>2. TypeInv /\ PlaceInv /\ NoProcessLost /\ [Next]_vars
        => (TypeInv /\ PlaceInv /\ NoProcessLost)'
  BY Roomy, TypeStep, PlaceStep, KeptStep
<1>3. QED
  BY <1>1, <1>2, PTL DEF Spec

------------------------------------------------------------------------------
(* The CPUs stop.                                                          *)

(* A CPU that will look at the queues again before it can stop.            *)
Awake(c) == cpc[c] # "stopped" /\ ~(cpc[c] = "recheck" /\ proc[c] = NULL)

(* Whoever is queued after the loader's last slot has a CPU to wait for.   *)
Tended ==
  CPUs # {} /\ (\E p \in Procs : Queued(p)) => \E c \in CPUs : Awake(c)

(* Where the threads are in a slot, and the order done, detached, stopped. *)
ThreadInv ==
  /\ \A c \in CPUs : /\ phase[c] = "waiting" => cpc[c] = "check"
                     /\ phase[c] = "gone" => cpc[c] = "stopped"
                     /\ cpc[c] = "stopped" => proc[c] = NULL /\ done
  /\ done => i = NumProcs /\ lpc \in {"detach", "stopped"}

EndInv ==
  /\ ThreadInv
  /\ done \/ (i = NumProcs /\ lpc = "load" /\ phase[ld] = "working") => Tended

LEMMA EndInit == Init => EndInv
<1> SUFFICES ASSUME Init PROVE EndInv
  OBVIOUS
<1>1. \A p \in Procs : ~Queued(p)
  BY DEF Init, init_scheduler, Queued
<1>2. QED
  BY <1>1 DEF Init, Clock!ClockInit, Devices, EndInv, ThreadInv, Tended

LEMMA ThreadStep == TypeInv /\ ThreadInv /\ [Next]_vars => ThreadInv'
<1> SUFFICES ASSUME TypeInv, ThreadInv, [Next]_vars
             PROVE  ThreadInv'
  OBVIOUS
<1> USE KernelAssumption
    DEF ThreadInv, At, Goto, MayStop, LoaderAt, AfterAdd, Devices, config,
        cpuVars, ldVars, procVars, mlqVars
<1>1. /\ phase \in [Devices -> {"working", "waiting", "gone"}]
      /\ cpc \in [CPUs -> {"check", "refetch", "recheck", "end_slot", "stopped"}]
      /\ proc \in [CPUs -> Procs \union {NULL}]
      /\ i \in Nat
  BY DEF TypeInv, TypeOK, Clock!ClockTypeOK, Clock!Phases
<1>2. CASE NewSlot
  BY <1>1, <1>2 DEF NewSlot, Clock!Release
<1>3. ASSUME NEW c \in CPUs, CPU(c) PROVE ThreadInv'
  <2>1. UNCHANGED <<i, lpc, done>> /\ phase[c] = "working" /\ cpc[c] # "stopped"
    BY <1>3 DEF CPU, FetchIdle, FinishProc, PutProc, KeepProc, FetchNext,
       StopCPU, SkipSlot, RunProc, EndSlot
  <2>2. CASE StopCPU(c)
    BY <1>1, <2>1, <2>2 DEF StopCPU, Clock!Leave
  <2>3. CASE EndSlot(c)
    BY <1>1, <2>1, <2>3 DEF EndSlot, Clock!Arrive
  <2>4. ASSUME phase' = phase,
               \A d \in CPUs \ {c} : cpc'[d] = cpc[d] /\ proc'[d] = proc[d],
               cpc'[c] # "stopped"
        PROVE  ThreadInv'
    BY <2>1, <2>4
  <2>5. CASE FetchIdle(c)
    BY <1>1, <2>4, <2>5 DEF FetchIdle, Fetch
  <2>6. CASE FetchNext(c)
    BY <1>1, <2>4, <2>6 DEF FetchNext, Fetch
  <2>7. CASE FinishProc(c)
    BY <1>1, <2>4, <2>7 DEF FinishProc
  <2>8. CASE PutProc(c)
    BY <1>1, <2>4, <2>8 DEF PutProc
  <2>9. CASE KeepProc(c)
    BY <1>1, <2>4, <2>9 DEF KeepProc
  <2>10. CASE SkipSlot(c)
    BY <1>1, <2>4, <2>10 DEF SkipSlot
  <2>11. CASE RunProc(c)
    BY <1>1, <2>4, <2>11 DEF RunProc
  <2>12. QED
    BY <1>3, <2>2, <2>3, <2>5, <2>6, <2>7, <2>8, <2>9, <2>10, <2>11 DEF CPU
<1>4. CASE Loader
  <2>1. \A c \in CPUs : phase'[c] = phase[c]
    BY <1>1, <1>4 DEF Loader, AwaitStart, AddProc, LoaderEndSlot, SetDone,
       DetachLoader, Clock!Arrive, Clock!Leave
  <2>2. UNCHANGED <<cpc, proc>>
    BY <1>4 DEF Loader, AwaitStart, AddProc, LoaderEndSlot, SetDone, DetachLoader
  <2>3. done' => i' = NumProcs /\ lpc' \in {"detach", "stopped"}
    BY <1>1, <1>4 DEF Loader, AwaitStart, AddProc, LoaderEndSlot, SetDone,
       DetachLoader
  <2>4. done => done'
    BY <1>4 DEF Loader, AwaitStart, AddProc, LoaderEndSlot, SetDone, DetachLoader
  <2>5. QED
    BY <2>1, <2>2, <2>3, <2>4
<1>5. QED
  BY <1>2, <1>3, <1>4 DEF Next, Finished, vars

(* A CPU goes blind only by a get_proc that found every queue empty.       *)
LEMMA TendedCPUStep ==
  ASSUME TypeInv, Tended, NEW c \in CPUs, CPU(c)
  PROVE  Tended'
<1> USE DEF At, Goto, MayStop, config, cpuVars, ldVars, procVars, mlqVars
<1>1. /\ QueueType
      /\ proc \in [CPUs -> Procs \union {NULL}]
      /\ cpc \in [CPUs -> {"check", "refetch", "recheck", "end_slot", "stopped"}]
  BY DEF TypeInv, TypeOK, QueueType
<1>2. ASSUME Awake(c)' PROVE Tended'
  BY <1>2 DEF Tended
<1>3. ASSUME Fetch(c), NEW l \in {"recheck", "end_slot"},
             cpc' = [cpc EXCEPT ![c] = l]
      PROVE  Tended'
  <2>1. PICK p \in Procs \union {NULL} :
          get_proc(p) /\ proc' = [proc EXCEPT ![c] = p]
    BY <1>3 DEF Fetch
  <2>2. CASE p = NULL
    <3>1. \A r \in Procs : ~Queued(r)
      BY <1>1, <2>1, <2>2, GetProcKeeps
    <3>2. \A r \in Procs : Queued(r)' => Queued(r)
      BY <1>1, <2>1, GetProcTakes
    <3>3. QED
      BY <3>1, <3>2 DEF Tended
  <2>3. CASE p # NULL
    BY <1>1, <1>2, <1>3, <2>1, <2>3 DEF Awake
  <2>4. QED
    BY <2>2, <2>3
<1>4. CASE FetchIdle(c)
  BY <1>3, <1>4 DEF FetchIdle
<1>5. CASE FetchNext(c)
  BY <1>3, <1>5 DEF FetchNext
<1>6. ASSUME NEW l \in {"check", "refetch", "end_slot"},
             cpc' = [cpc EXCEPT ![c] = l]
      PROVE  Tended'
  BY <1>1, <1>2, <1>6 DEF Awake
<1>7. CASE FinishProc(c)
  BY <1>6, <1>7 DEF FinishProc
<1>8. CASE PutProc(c)
  BY <1>6, <1>8 DEF PutProc
<1>9. CASE KeepProc(c)
  BY <1>1, <1>2, <1>9 DEF KeepProc, Awake
<1>10. CASE StopCPU(c)
  <2>1. ~Awake(c)
    BY <1>10 DEF StopCPU, Awake
  <2>2. \A d \in CPUs : Awake(d) => Awake(d)'
    BY <1>1, <1>10, <2>1 DEF StopCPU, Awake
  <2>3. \A r \in Procs : Queued(r)' => Queued(r)
    BY <1>10, QueueUnchanged DEF StopCPU
  <2>4. QED
    BY <2>2, <2>3 DEF Tended
<1>11. CASE SkipSlot(c)
  BY <1>6, <1>11 DEF SkipSlot
<1>12. CASE RunProc(c)
  BY <1>6, <1>12 DEF RunProc
<1>13. CASE EndSlot(c)
  BY <1>6, <1>13 DEF EndSlot
<1>14. QED
  BY <1>4, <1>5, <1>7, <1>8, <1>9, <1>10, <1>11, <1>12, <1>13 DEF CPU

LEMMA EndStep == TypeInv /\ EndInv /\ [Next]_vars => EndInv'
<1> SUFFICES ASSUME TypeInv, EndInv, [Next]_vars
             PROVE  EndInv'
  OBVIOUS
<1> USE KernelAssumption DEF config, cpuVars, ldVars, procVars, mlqVars
<1> DEFINE Closing == done \/ (i = NumProcs /\ lpc = "load" /\ phase[ld] = "working")
<1>1. ThreadInv'
  BY ThreadStep DEF EndInv
<1>2. SUFFICES ASSUME Closing' PROVE Tended'
  BY <1>1 DEF EndInv
<1>3. ASSUME Closing, UNCHANGED <<mlq_ready_queue, cpc, proc>> PROVE Tended'
  <2>1. Tended
    BY <1>3 DEF EndInv
  <2>2. \A r \in Procs : Queued(r)' => Queued(r)
    BY <1>3, QueueUnchanged
  <2>3. \A c \in CPUs : Awake(c) => Awake(c)'
    BY <1>3 DEF Awake
  <2>4. QED
    BY <2>1, <2>2, <2>3 DEF Tended
<1>4. CASE NewSlot
  <2>1. CASE done
    BY <1>3, <1>4, <2>1 DEF NewSlot
  <2>2. CASE ~done
    <3>1. \A c \in CPUs : cpc[c] = "check"
      <4> SUFFICES ASSUME NEW c \in CPUs PROVE cpc[c] = "check"
        OBVIOUS
      <4>1. phase[c] \in {"waiting", "gone"}
        BY <1>4 DEF NewSlot, Clock!Release, Devices, TypeInv, TypeOK,
           Clock!ClockTypeOK, Clock!Phases
      <4>2. QED
        BY <2>2, <4>1 DEF EndInv, ThreadInv
    <3>2. \A c \in CPUs : Awake(c)'
      BY <1>4, <3>1 DEF NewSlot, Awake
    <3>3. QED
      BY <3>2 DEF Tended
  <2>3. QED
    BY <2>1, <2>2
<1>5. ASSUME NEW c \in CPUs, CPU(c) PROVE Tended'
  <2>1. phase'[ld] = phase[ld] /\ UNCHANGED <<i, lpc, done>>
    BY <1>5
       DEF CPU, FetchIdle, FinishProc, PutProc, KeepProc, FetchNext, StopCPU,
           SkipSlot, RunProc, EndSlot, Clock!Leave, Clock!Arrive, Devices,
           TypeInv, TypeOK, Clock!ClockTypeOK
  <2>2. Tended
    BY <1>2, <2>1 DEF EndInv
  <2>3. QED
    BY <1>5, <2>2, TendedCPUStep
<1>6. CASE Loader
  <2>1. phase[ld] = "working" /\ phase \in [Devices -> {"working", "waiting", "gone"}]
    BY <1>6 DEF Loader, AwaitStart, AddProc, LoaderEndSlot, SetDone, DetachLoader,
       LoaderAt, TypeInv, TypeOK, Clock!ClockTypeOK, Clock!Phases
  <2>2. ~done => ~AwaitStart /\ ~AddProc /\ ~LoaderEndSlot
    BY <1>2, <2>1 DEF AwaitStart, AddProc, AfterAdd, LoaderEndSlot, Devices,
       Clock!Arrive
  <2>3. CASE SetDone \/ DetachLoader
    <3>1. Closing
      BY <1>2, <2>1, <2>3 DEF SetDone, DetachLoader, LoaderAt, EndInv
    <3>2. QED
      BY <1>3, <2>3, <3>1 DEF SetDone, DetachLoader
  <2>4. done => ~AwaitStart /\ ~AddProc /\ ~LoaderEndSlot
    BY DEF EndInv, ThreadInv, AwaitStart, AddProc, LoaderEndSlot, LoaderAt
  <2>5. QED
    BY <1>6, <2>2, <2>3, <2>4 DEF Loader
<1>7. CASE UNCHANGED vars
  BY <1>2, <1>3, <1>7 DEF vars
<1>8. QED
  BY <1>4, <1>5, <1>6, <1>7 DEF Next, Finished

LEMMA EndImplies ==
  TypeInv /\ NoProcessLost /\ EndInv => NothingLeftBehind
<1> SUFFICES ASSUME TypeInv, NoProcessLost, EndInv, CPUs # {},
                    \A c \in CPUs : cpc[c] = "stopped"
             PROVE  freed = Procs
  BY DEF NothingLeftBehind
<1>1. done /\ i = NumProcs /\ \A c \in CPUs : proc[c] = NULL
  BY DEF EndInv, ThreadInv
<1>2. \A p \in Procs : ~Queued(p)
  BY <1>1 DEF EndInv, Tended, Awake
<1>3. \A c \in CPUs, p \in Procs : ~Holds(c, p)
  BY <1>1, NullIsNoProc DEF Holds
<1>4. \A p \in Procs : p <= i
  BY <1>1 DEF Procs
<1>5. \A p \in Procs : p \in freed
  BY <1>2, <1>3, <1>4 DEF NoProcessLost
<1>6. QED
  BY <1>5 DEF TypeInv, TypeOK

(* The test of `done' after a get_proc that returned NULL is safe, although*)
(* the two are separate steps and other CPUs hold processes in between: the*)
(* slot the loader ends between its last add_proc and done = 1 makes every *)
(* CPU look again (os.c:78-85, 135-140).                                   *)
THEOREM NothingLeftBehindHolds ==
  ASSUME Roomy
  PROVE  Spec => []NothingLeftBehind
<1>1. Init => TypeInv /\ PlaceInv /\ NoProcessLost /\ EndInv
  BY TypeInit, PlaceInit, KeptInit, EndInit
<1>2. TypeInv /\ PlaceInv /\ NoProcessLost /\ EndInv /\ [Next]_vars
        => (TypeInv /\ PlaceInv /\ NoProcessLost /\ EndInv)'
  BY Roomy, TypeStep, PlaceStep, KeptStep, EndStep
<1>3. QED
  BY <1>1, <1>2, EndImplies, PTL DEF Spec

==============================================================================
