---------------------------- MODULE KillallProofs ----------------------------
(***************************************************************************)
(* Proofs about Killall for any number of CPUs and processes.  Whatever    *)
(* the threads do, a process stopped on a CPU stays at its end; as long as *)
(* no thread uses the ready queues between killall's finding a victim and  *)
(* the free, every process is in one place, the list is exact, and whoever *)
(* killall has not hit runs to the end of its program.                     *)
(***************************************************************************)
EXTENDS Killall, RunningListProofs

------------------------------------------------------------------------------
(* Types.                                                                  *)

Active == call.at \in {"running", "queue", "removal"}

Calls ==
  {NotCalled, Returned}
    \union {AtRunning(k) : k \in Nat \ {0}}
    \union {AtQueue(q, k) : q \in 0..MAX_PRIO, k \in Nat \ {0}}
    \union {AtRemoval(q, p) : q \in Prios, p \in Procs}

CallTypes ==
  /\ named \subseteq Procs
  /\ seen \in [CPUs -> Nat \union {NoPc}]
  /\ call \in Calls
  /\ killed \subseteq Procs
  /\ steps \in [Procs -> Nat]
  /\ disturbed \in BOOLEAN

KTypes == TypeInv /\ ListTypes /\ CallTypes

LEMMA CallFacts ==
  ASSUME call \in Calls
  PROVE  /\ call.at = "running" => call.k \in Nat \ {0}
         /\ call.at = "queue" => call.q \in 0..MAX_PRIO /\ call.k \in Nat \ {0}
         /\ call.at = "removal" => call.q \in Prios /\ call.p \in Procs
BY DEF Calls, NotCalled, Returned, AtRunning, AtQueue, AtRemoval

LEMMA NewCalls ==
  /\ NotCalled \in Calls /\ Returned \in Calls /\ AtRunning(1) \in Calls
  /\ AtQueue(0, 1) \in Calls
  /\ \A k \in Nat \ {0} : AtRunning(k + 1) \in Calls
  /\ \A q \in Prios : AtQueue(q + 1, 1) \in Calls
  /\ \A q \in 0..MAX_PRIO, k \in Nat \ {0} : AtQueue(q, k + 1) \in Calls
  /\ \A q \in Prios, p \in Procs : AtRemoval(q, p) \in Calls
<1>1. /\ 1 \in Nat \ {0} /\ 0 \in 0..MAX_PRIO
      /\ \A k \in Nat \ {0} : k + 1 \in Nat \ {0}
      /\ \A q \in Prios : q + 1 \in 0..MAX_PRIO
  BY MlqAssumption DEF Prios
<1>2. QED
  BY <1>1 DEF Calls

------------------------------------------------------------------------------
(* The steps of the other modules, as they are here.                       *)

(* A step of RunningList.  It changes no pc, and nothing of a CPU that has *)
(* read pc in run().                                                       *)
KernelStep ==
  /\ [RLNext]_rlVars
  /\ UseQueues
  /\ pc' = pc
  /\ \A c \in CPUs : AtRun(c) /\ seen[c] # NoPc =>
       /\ AtRun(c)'
       /\ proc'[c] = proc[c]
       /\ dq'[c] = dq[c]

(* Who moves outside run(), or in it with nothing to run.                  *)
Elsewhere(c) == cpc[c] # "recheck" \/ proc[c] = NULL \/ seen[c] = NoPc

LEMMA KernelSteps ==
  ASSUME KTypes, [KNext]_kVars
  PROVE  \/ KernelStep
         \/ \E c \in CPUs : ReadPc(c) \/ Instruction(c) \/ KillallStep(c)
<1>1. /\ cpc \in [CPUs -> {"check", "refetch", "recheck", "end_slot", "stopped"}]
      /\ proc \in [CPUs -> Procs \union {NULL}]
      /\ time_left \in [CPUs -> 0..TimeSlot] /\ ran \in [CPUs -> Nat]
      /\ pc \in [Procs -> Nat] /\ \A p \in Procs : size[p] \in Nat
      /\ phase \in [CPUs \union {ld} -> {"working", "waiting", "gone"}]
      /\ dq \in [CPUs -> RemovalTypes]
      /\ disturbed \in BOOLEAN
  BY KernelAssumption
     DEF KTypes, TypeInv, TypeOK, ListTypes, CallTypes, Clock!ClockTypeOK, Clock!Phases,
         Devices
<1>2. ASSUME UNCHANGED <<mlq_ready_queue, named, callVars>> PROVE UseQueues
  BY <1>1, <1>2 DEF UseQueues, callVars, history
(* Only c moves, and not inside run().                                     *)
<1>3. ASSUME NEW c \in CPUs, Elsewhere(c), [RLNext]_rlVars, UseQueues, pc' = pc,
             \A d \in CPUs \ {c} : /\ cpc'[d] = cpc[d] /\ proc'[d] = proc[d]
                                   /\ dq'[d] = dq[d] /\ phase'[d] = phase[d]
      PROVE  KernelStep
  <2>1. ~(AtRun(c) /\ seen[c] # NoPc)
    BY <1>3 DEF Elsewhere, AtRun, At
  <2>2. QED
    BY <1>3, <2>1 DEF KernelStep, AtRun, At
<1>4. ASSUME [RLNext]_rlVars, UseQueues, pc' = pc,
             UNCHANGED <<cpc, proc, dq>>,
             \A d \in CPUs : phase[d] = "working" => phase'[d] = "working"
      PROVE  KernelStep
  BY <1>4 DEF KernelStep, AtRun, At
<1>5. ASSUME NEW c \in CPUs, KCPU(c)
      PROVE  KernelStep \/ ReadPc(c) \/ Instruction(c) \/ KillallStep(c)
  <2>1. CASE (RunNext(c) \/ RunAgainLater(c)) /\ UseQueues
    <3>1. RLNext /\ cpc[c] # "recheck" /\ pc' = pc
      BY <2>1 DEF RLNext, RLCPU, RunNext, FetchIdle, FetchNext, RunAgainLater, PutProc,
                  At, procVars
    <3>2. UNCHANGED <<dq, phase>>
      BY <2>1 DEF RunNext, FetchIdle, FetchNext, RunAgainLater, PutProc
    <3>3. \A d \in CPUs \ {c} : cpc'[d] = cpc[d] /\ proc'[d] = proc[d]
      BY <1>1, <2>1 DEF RunNext, FetchIdle, FetchNext, Fetch, RunAgainLater, PutProc, Goto
    <3>4. QED
      BY <1>3, <2>1, <3>1, <3>2, <3>3 DEF Elsewhere
  <2>2. CASE /\ StartRemoval(c) \/ StepRemoval(c) \/ EndRemoval(c)
             /\ UNCHANGED <<named, callVars>>
    <3>1. RLNext /\ cpc[c] # "recheck" /\ UNCHANGED <<pc, phase, mlq_ready_queue>>
      BY <2>2 DEF RLNext, RLCPU, StartRemoval, StepRemoval, EndRemoval, FinishProc, At,
                  vars, procVars, mlqVars
    <3>2. \A d \in CPUs \ {c} : /\ cpc'[d] = cpc[d] /\ proc'[d] = proc[d]
                                /\ dq'[d] = dq[d]
      BY <1>1, <2>2 DEF StartRemoval, StepRemoval, EndRemoval, FinishProc, Goto, vars,
                        cpuVars
    <3>3. UseQueues
      BY <1>2, <2>2, <3>1
    <3>4. QED
      BY <1>3, <3>1, <3>2, <3>3 DEF Elsewhere
  <2>3. CASE /\ KeepProc(c) \/ StopCPU(c) \/ SkipSlot(c) \/ EndSlot(c)
             /\ UNCHANGED listVars
             /\ UNCHANGED <<named, callVars>>
    <3>1. RLNext /\ UNCHANGED <<pc, mlq_ready_queue, proc, dq>>
      BY <2>3 DEF RLNext, RLCPU, KeepProc, StopCPU, SkipSlot, EndSlot, procVars, mlqVars,
                  listVars
    <3>2. cpc[c] # "recheck" \/ proc[c] = NULL
      BY <2>3 DEF KeepProc, StopCPU, MayStop, SkipSlot, EndSlot, At
    <3>3. \A d \in CPUs \ {c} : cpc'[d] = cpc[d] /\ phase'[d] = phase[d]
      BY <1>1, <2>3 DEF KeepProc, StopCPU, SkipSlot, EndSlot, Goto, Clock!Leave,
                        Clock!Arrive
    <3>4. UseQueues
      BY <1>2, <2>3, <3>1
    <3>5. QED
      BY <1>3, <3>1, <3>2, <3>3, <3>4 DEF Elsewhere
  <2>4. CASE NothingToRun(c)
    <3>1. RLNext /\ UNCHANGED <<mlq_ready_queue, proc, dq, phase>> /\ seen[c] = NoPc
      BY <2>4 DEF NothingToRun, RLNext, RLCPU, RunProc, mlqVars, listVars
    <3>2. pc' = pc
      BY <1>1, <2>4 DEF NothingToRun, RunProc, Run, AtRun
    <3>3. \A d \in CPUs \ {c} : cpc'[d] = cpc[d]
      BY <1>1, <2>4 DEF NothingToRun, RunProc, Goto
    <3>4. UseQueues
      BY <1>2, <2>4, <3>1 DEF NothingToRun
    <3>5. QED
      BY <1>3, <3>1, <3>2, <3>3, <3>4 DEF Elsewhere
  <2>5. QED
    BY <1>5, <2>1, <2>2, <2>3, <2>4 DEF KCPU
<1>6. CASE KLoader
  <2>1. [RLNext]_rlVars /\ UseQueues
    BY <1>6 DEF KLoader, RLNext
  <2>2. UNCHANGED <<pc, cpc, proc, dq>>
    BY <1>6 DEF KLoader, RLLoader, AddProc, AwaitStart, LoaderEndSlot, SetDone,
                DetachLoader, procVars, cpuVars, listVars
  <2>3. \A d \in CPUs : phase'[d] = phase[d]
    BY <1>1, <1>6, KernelAssumption
       DEF KLoader, RLLoader, AddProc, AwaitStart, LoaderEndSlot, SetDone,
           DetachLoader, Clock!Arrive, Clock!Leave
  <2>4. QED
    BY <1>4, <2>1, <2>2, <2>3
<1>7. CASE KNewSlot
  <2>1. RLNext /\ UNCHANGED <<pc, cpc, proc, dq, mlq_ready_queue>>
    BY <1>7 DEF KNewSlot, RLNext, NewSlot, procVars, cpuVars, mlqVars, listVars
  <2>2. UseQueues
    BY <1>2, <1>7, <2>1 DEF KNewSlot
  <2>3. \A d \in CPUs : phase[d] # "working"
    BY <1>7 DEF KNewSlot, NewSlot, Clock!Release, Devices
  <2>4. QED
    BY <1>4, <2>1, <2>2, <2>3
<1>8. CASE UNCHANGED kVars
  <2>1. UNCHANGED rlVars /\ UNCHANGED <<pc, cpc, proc, dq, mlq_ready_queue, phase>>
    BY <1>8 DEF kVars, rlVars, vars, procVars, cpuVars, mlqVars, listVars
  <2>2. UseQueues
    BY <1>2, <1>8, <2>1 DEF kVars
  <2>3. QED
    BY <1>4, <2>1, <2>2
<1>9. QED
  BY <1>5, <1>6, <1>7, <1>8 DEF KNext

LEMMA KTypesInit == KInit => KTypes
<1> SUFFICES ASSUME KInit PROVE KTypes
  OBVIOUS
<1>1. TypeInv /\ ListTypes
  BY ListInitIsKernelInit, TypeInit, ListInvInit DEF KInit, ListInv, ListSide
<1>2. /\ named \subseteq Procs /\ killed = {}
      /\ seen = [c \in CPUs |-> NoPc] /\ steps = [p \in Procs |-> 0]
      /\ call = NotCalled
  BY DEF KInit
<1>3. disturbed \in BOOLEAN
  <2>1. disturbed = FALSE
    BY DEF KInit
  <2>2. QED
    BY <2>1, Zenon
<1>4. call \in Calls
  BY <1>2, NewCalls
<1>5. QED
  BY <1>1, <1>2, <1>3, <1>4 DEF KTypes, CallTypes

LEMMA ListTypesKept ==
  ASSUME TypeInv, ListTypes, [RLNext]_rlVars
  PROVE  ListTypes'
<1>1. ASSUME UNCHANGED listVars PROVE ListTypes'
  BY <1>1 DEF ListTypes, listVars
<1>2. CASE RLLoader
  BY <1>1, <1>2, WithoutType DEF RLLoader, ListTypes
<1>3. QED
  BY <1>1, <1>2, ListTypesStep DEF RLNext, RLCPU, ListStep, rlVars

LEMMA EndRunTypes ==
  ASSUME TypeInv, CallTypes, NEW c \in CPUs, EndRun(c)
  PROVE  /\ time_left' \in [CPUs -> 0..TimeSlot]
         /\ ran' \in [CPUs -> Nat]
         /\ seen' \in [CPUs -> Nat \union {NoPc}]
         /\ cpc' \in [CPUs -> {"check", "refetch", "recheck", "end_slot", "stopped"}]
<1>1. /\ time_left \in [CPUs -> 0..TimeSlot] /\ ran \in [CPUs -> Nat]
      /\ cpc \in [CPUs -> {"check", "refetch", "recheck", "end_slot", "stopped"}]
      /\ seen \in [CPUs -> Nat \union {NoPc}]
  BY DEF TypeInv, TypeOK, CallTypes
<1>2. Quantum(c) - 1 \in 0..TimeSlot
  BY <1>1, KernelAssumption DEF Quantum
<1>3. QED
  BY <1>1, <1>2 DEF EndRun, Goto

(* What killall and the instructions change, by type.                      *)
LEMMA KTypesFrom ==
  ASSUME KTypes,
         UNCHANGED <<slot, config, time, phase, proc, ldVars, running_list, raced, named,
                     disturbed>>,
         mlq_ready_queue' \in [Prios -> Seq(Procs)],
         cpc' \in [CPUs -> {"check", "refetch", "recheck", "end_slot", "stopped"}],
         time_left' \in [CPUs -> 0..TimeSlot], ran' \in [CPUs -> Nat],
         pc' \in [Procs -> Nat], freed' \subseteq Procs,
         dq' \in [CPUs -> RemovalTypes],
         seen' \in [CPUs -> Nat \union {NoPc}], call' \in Calls,
         killed' \subseteq Procs, steps' \in [Procs -> Nat]
  PROVE  KTypes'
<1>1. TypeInv'
  BY DEF KTypes, TypeInv, TypeOK, config, ldVars, Clock!ClockTypeOK
<1>2. ListTypes'
  BY DEF KTypes, ListTypes
<1>3. CallTypes'
  BY DEF KTypes, CallTypes
<1>4. QED
  BY <1>1, <1>2, <1>3 DEF KTypes

LEMMA KillallTypes ==
  ASSUME KTypes, NEW c \in CPUs, KillallStep(c)
  PROVE  KTypes'
<1>1. /\ mlq_ready_queue \in [Prios -> Seq(Procs)]
      /\ cpc \in [CPUs -> {"check", "refetch", "recheck", "end_slot", "stopped"}]
      /\ time_left \in [CPUs -> 0..TimeSlot] /\ ran \in [CPUs -> Nat]
      /\ pc \in [Procs -> Nat] /\ freed \subseteq Procs
      /\ dq \in [CPUs -> RemovalTypes] /\ running_list \in Seq(Procs)
      /\ seen \in [CPUs -> Nat \union {NoPc}] /\ call \in Calls
      /\ killed \subseteq Procs /\ steps \in [Procs -> Nat]
      /\ \A p \in Procs : size[p] \in Nat
  BY KernelAssumption DEF KTypes, TypeInv, TypeOK, ListTypes, CallTypes
<1>2. CASE WalkRunning(c)
  <2>1. call' \in Calls
    BY <1>1, <1>2, NewCalls, CallFacts DEF WalkRunning
  <2>2. pc' \in [Procs -> Nat] /\ killed' \subseteq Procs
    <3>1. CASE UNCHANGED <<pc, killed>>
      BY <1>1, <3>1
    <3>2. CASE /\ call.k <= Len(running_list)
               /\ pc' = [pc EXCEPT ![running_list[call.k]] = StopAt(running_list[call.k])]
               /\ killed' = killed \union {running_list[call.k]}
      <4>1. running_list[call.k] \in Procs
        BY <1>1, <1>2, <3>2, CallFacts DEF WalkRunning
      <4>2. QED
        BY <1>1, <3>2, <4>1 DEF StopAt
    <3>3. QED
      BY <1>2, <3>1, <3>2 DEF WalkRunning
  <2>3. UNCHANGED <<mlqVars, config, time, phase, cpuVars, ldVars, freed, listVars,
                    named, seen, steps, disturbed>>
    BY <1>2 DEF WalkRunning
  <2>4. QED
    BY <1>1, <2>1, <2>2, <2>3, KTypesFrom DEF mlqVars, cpuVars, listVars
<1>3. CASE WalkQueue(c)
  <2>1. call' \in Calls /\ dq' \in [CPUs -> RemovalTypes]
    <3>1. call.q \in Prios /\ call.q \in 0..MAX_PRIO /\ call.k \in Nat \ {0}
      BY <1>1, <1>3, CallFacts DEF WalkQueue
    <3>2. call.k <= Len(mlq_ready_queue[call.q]) =>
            mlq_ready_queue[call.q][call.k] \in Procs
      BY <1>1, <3>1
    <3>3. dq' = dq \/ dq' = [dq EXCEPT ![c] = Start]
      BY <1>3 DEF WalkQueue
    <3>4. dq' \in [CPUs -> RemovalTypes]
      BY <1>1, <3>3, IdleType
    <3>5. call' \in Calls
      BY <1>3, <3>1, <3>2, NewCalls DEF WalkQueue
    <3>6. QED
      BY <3>4, <3>5
  <2>2. UNCHANGED <<vars, running_list, raced, named, seen, history>>
    BY <1>3 DEF WalkQueue
  <2>3. QED
    BY <1>1, <2>1, <2>2, KTypesFrom DEF vars, mlqVars, cpuVars, procVars, history
<1>4. CASE StepKillRemoval(c)
  <2>1. call.q \in Prios /\ mlq_ready_queue[call.q] \in Seq(Procs)
        /\ dq[c] \in RemovalTypes /\ dq[c].at \in {"find", "shift", "clear"}
    BY <1>1, <1>4, CallFacts DEF StepKillRemoval, Removing
  <2>2. PICK d \in RemovalTypes : d = dq[c]
    BY <2>1
  <2>3. PICK list \in Seq(Procs) : list = mlq_ready_queue[call.q]
    BY <2>1
  <2>4. /\ NextPosition(list, call.p, d) \in RemovalTypes
        /\ NextList(list, d) \in Seq(Procs)
    BY <2>1, <2>2, RemovalType
  <2>5. dq' \in [CPUs -> RemovalTypes] /\ mlq_ready_queue' \in [Prios -> Seq(Procs)]
    BY <1>1, <1>4, <2>1, <2>2, <2>3, <2>4 DEF StepKillRemoval
  <2>6. UNCHANGED <<slot, config, time, phase, cpuVars, ldVars, procVars,
                    running_list, raced, named, callVars>>
    BY <1>4 DEF StepKillRemoval
  <2>7. QED
    BY <1>1, <2>5, <2>6, KTypesFrom DEF cpuVars, procVars, callVars, history
<1>5. CASE FreeVictim(c)
  <2>1. call.q \in Prios /\ call.p \in Procs
    BY <1>1, <1>5, CallFacts DEF FreeVictim
  <2>2. call' \in Calls /\ freed' \subseteq Procs /\ killed' \subseteq Procs
    BY <1>1, <1>5, <2>1, NewCalls DEF FreeVictim, AfterVictim
  <2>3. dq' \in [CPUs -> RemovalTypes]
    BY <1>1, <1>5, IdleType DEF FreeVictim
  <2>4. UNCHANGED <<mlqVars, config, time, phase, cpuVars, ldVars, pc,
                    running_list, raced, named, seen, steps, disturbed>>
    BY <1>5 DEF FreeVictim
  <2>5. QED
    BY <1>1, <2>2, <2>3, <2>4, KTypesFrom DEF mlqVars, cpuVars
<1>6. CASE EndCall(c)
  <2>1. EndRun(c) /\ call' \in Calls
    BY <1>6, NewCalls DEF EndCall
  <2>2. UNCHANGED <<mlqVars, config, time, phase, proc, ldVars, procVars, listVars,
                    named, history>>
    BY <1>6 DEF EndCall
  <2>3. QED
    BY <1>1, <2>1, <2>2, EndRunTypes, KTypesFrom
       DEF KTypes, mlqVars, procVars, listVars, history
<1>7. QED
  BY <1>2, <1>3, <1>4, <1>5, <1>6 DEF KillallStep

LEMMA KTypesStep == KTypes /\ [KNext]_kVars => KTypes'
<1> SUFFICES ASSUME KTypes, [KNext]_kVars PROVE KTypes'
  OBVIOUS
<1>1. CASE KernelStep
  <2>1. TypeInv' /\ ListTypes'
    BY <1>1, ListStepIsKernelStep, TypeStep, ListTypesKept DEF KernelStep, KTypes
  <2>2. disturbed' \in BOOLEAN
    BY <1>1, Zenon DEF KernelStep, UseQueues
  <2>3. QED
    BY <1>1, <2>1, <2>2 DEF KernelStep, UseQueues, KTypes, CallTypes
<1>2. ASSUME NEW c \in CPUs, ReadPc(c) PROVE KTypes'
  <2>1. pc[proc[c]] \in Nat
    BY <1>2 DEF KTypes, TypeInv, TypeOK, ReadPc, AtRun
  <2>2. seen' \in [CPUs -> Nat \union {NoPc}]
    BY <1>2, <2>1 DEF KTypes, CallTypes, ReadPc
  <2>3. UNCHANGED vars /\ UNCHANGED listVars
    BY <1>2 DEF ReadPc, rlVars
  <2>4. TypeInv'
    BY <2>3, TypeStep DEF KTypes
  <2>5. QED
    BY <1>2, <2>2, <2>3, <2>4 DEF KTypes, ListTypes, CallTypes, listVars, ReadPc, history
<1>3. ASSUME NEW c \in CPUs, Instruction(c) PROVE KTypes'
  <2>1. proc[c] \in Procs /\ pc \in [Procs -> Nat] /\ steps \in [Procs -> Nat]
        /\ seen[c] \in Nat
    BY <1>3 DEF KTypes, TypeInv, TypeOK, CallTypes, Instruction, AtRun
  <2>2. pc' \in [Procs -> Nat] /\ steps' \in [Procs -> Nat]
    BY <1>3, <2>1 DEF Instruction, NextPc
  <2>3. /\ call' \in Calls
        /\ time_left' \in [CPUs -> 0..TimeSlot] /\ ran' \in [CPUs -> Nat]
        /\ seen' \in [CPUs -> Nat \union {NoPc}]
        /\ cpc' \in [CPUs -> {"check", "refetch", "recheck", "end_slot", "stopped"}]
    BY <1>3, NewCalls, EndRunTypes DEF KTypes, TypeInv, TypeOK, CallTypes, Instruction
  <2>4. /\ UNCHANGED <<mlqVars, config, time, phase, proc, ldVars, freed, listVars,
                       named, killed, disturbed>>
    BY <1>3 DEF Instruction
  <2>5. TypeInv'
    BY <2>2, <2>3, <2>4 DEF KTypes, TypeInv, TypeOK, mlqVars, config, ldVars,
                            Clock!ClockTypeOK
  <2>6. QED
    BY <2>2, <2>3, <2>4, <2>5 DEF KTypes, ListTypes, CallTypes, listVars
<1>4. QED
  BY <1>1, <1>2, <1>3, KernelSteps, KillallTypes

------------------------------------------------------------------------------
(* The process that calls killall is in one place, whatever becomes of the *)
(* others: it is on its CPU while it disturbs the queues.                  *)

QueuedOnce(p) ==
  \A q1, q2 \in Prios : \A k1 \in DOMAIN mlq_ready_queue[q1],
                           k2 \in DOMAIN mlq_ready_queue[q2] :
    mlq_ready_queue[q1][k1] = p /\ mlq_ready_queue[q2][k2] = p => q1 = q2 /\ k1 = k2

InOnePlace(p) ==
  /\ QueuedOnce(p)
  /\ \A c1, c2 \in CPUs : Holds(c1, p) /\ Holds(c2, p) => c1 = c2
  /\ \A c \in CPUs : Holds(c, p) => ~Queued(p)
  /\ Queued(p) \/ (\E c \in CPUs : Holds(c, p)) => p <= i

KillerOnce == InOnePlace(Killer)

LEMMA GetProcOnce ==
  ASSUME QueueType, NEW p, get_proc(p), NEW r \in Procs, QueuedOnce(r)
  PROVE  QueuedOnce(r)' /\ (p = r => ~Queued(r)')
<1> USE DEF QueueType
<1>1. CASE p = NULL /\ UNCHANGED mlq_ready_queue
  BY <1>1, NullIsNoProc DEF QueuedOnce
<1>2. ASSUME NEW i0 \in Servable(Quotas),
             p = Head(mlq_ready_queue[i0]),
             mlq_ready_queue' = [mlq_ready_queue EXCEPT ![i0] = Dequeue(@)]
      PROVE  QueuedOnce(r)' /\ (p = r => ~Queued(r)')
  <2> DEFINE q == mlq_ready_queue[i0]
             Old(j, k) == IF j = i0 THEN k + 1 ELSE k
  <2>1. i0 \in Prios /\ q # <<>> /\ q \in Seq(Procs)
    BY DEF Servable
  <2>2. /\ p = q[1] /\ 1 \in DOMAIN q
        /\ \A k \in DOMAIN Dequeue(q) :
             k + 1 \in DOMAIN q /\ k + 1 # 1 /\ Dequeue(q)[k] = q[k + 1]
    BY <1>2, <2>1, DequeueHead
  <2>3. /\ mlq_ready_queue'[i0] = Dequeue(q) /\ Dequeue(q) \in Seq(Procs)
        /\ \A j \in Prios \ {i0} : mlq_ready_queue'[j] = mlq_ready_queue[j]
    BY <1>2, <2>1, DequeueHead
  <2>4. ASSUME NEW j \in Prios, NEW k \in DOMAIN mlq_ready_queue'[j]
        PROVE  /\ Old(j, k) \in DOMAIN mlq_ready_queue[j]
               /\ mlq_ready_queue'[j][k] = mlq_ready_queue[j][Old(j, k)]
               /\ j = i0 => Old(j, k) # 1
               /\ k \in Int
    BY <2>2, <2>3
  <2>5. QueuedOnce(r)'
    <3> SUFFICES ASSUME NEW q1 \in Prios, NEW q2 \in Prios,
                        NEW k1 \in DOMAIN mlq_ready_queue'[q1],
                        NEW k2 \in DOMAIN mlq_ready_queue'[q2],
                        mlq_ready_queue'[q1][k1] = r, mlq_ready_queue'[q2][k2] = r
                 PROVE  q1 = q2 /\ k1 = k2
      BY DEF QueuedOnce
    <3>1. q1 = q2 /\ Old(q1, k1) = Old(q2, k2)
      BY <2>4 DEF QueuedOnce
    <3>2. k1 \in Int /\ k2 \in Int
      BY <2>4
    <3>3. QED
      BY <3>1, <3>2
  <2>6. ASSUME p = r PROVE ~Queued(r)'
    <3> SUFFICES ASSUME NEW j \in Prios, NEW k \in DOMAIN mlq_ready_queue'[j],
                        mlq_ready_queue'[j][k] = r
                 PROVE  FALSE
      BY DEF Queued
    <3>1. mlq_ready_queue[j][Old(j, k)] = r /\ Old(j, k) \in DOMAIN mlq_ready_queue[j]
      BY <2>4
    <3>2. mlq_ready_queue[i0][1] = r /\ 1 \in DOMAIN mlq_ready_queue[i0]
      BY <2>2, <2>6
    <3> HIDE DEF Old
    <3>3. j = i0 /\ Old(j, k) = 1
      BY <2>1, <3>1, <3>2 DEF QueuedOnce
    <3>4. QED
      BY <2>4, <3>3
  <2>7. QED
    BY <2>5, <2>6
<1>3. QED
  BY <1>1, <1>2 DEF get_proc

LEMMA PutProcOnce ==
  ASSUME QueueType, NEW p \in Procs, NEW i0 \in Prios, put_proc(p, i0),
         NEW r \in Procs, QueuedOnce(r), p = r => ~Queued(r)
  PROVE  QueuedOnce(r)'
<1> USE DEF QueueType
<1> DEFINE q == mlq_ready_queue[i0]
<1>1. /\ Enqueue(q, p) \in Seq(Procs)
      /\ \A k \in DOMAIN Enqueue(q, p) :
           \/ k \in DOMAIN q /\ Enqueue(q, p)[k] = q[k]
           \/ k = Len(q) + 1 /\ Enqueue(q, p)[k] = p
  BY EnqueueAtEnd
<1>2. /\ mlq_ready_queue'[i0] = Enqueue(q, p)
      /\ \A j \in Prios \ {i0} : mlq_ready_queue'[j] = mlq_ready_queue[j]
  BY DEF put_proc
<1>3. ASSUME NEW j \in Prios, NEW k \in DOMAIN mlq_ready_queue'[j],
             mlq_ready_queue'[j][k] = r
      PROVE  \/ k \in DOMAIN mlq_ready_queue[j] /\ mlq_ready_queue[j][k] = r
             \/ j = i0 /\ k = Len(q) + 1 /\ p = r
  BY <1>1, <1>2, <1>3
<1>4. CASE p = r
  <2>1. \A j \in Prios : \A k \in DOMAIN mlq_ready_queue[j] : mlq_ready_queue[j][k] # r
    BY <1>4 DEF Queued
  <2>2. QED
    BY <1>3, <2>1 DEF QueuedOnce
<1>5. CASE p # r
  BY <1>3, <1>5 DEF QueuedOnce
<1>6. QED
  BY <1>4, <1>5

LEMMA OnceKept ==
  ASSUME NEW r \in Procs, InOnePlace(r), QueuedOnce(r)', i' = i,
         Queued(r)' => Queued(r),
         \A c \in CPUs : Holds(c, r)' => Holds(c, r)
  PROVE  InOnePlace(r)'
BY DEF InOnePlace

LEMMA OnceFetch ==
  ASSUME TypeInv, NEW r \in Procs, InOnePlace(r), NEW c \in CPUs, Fetch(c),
         proc[c] = NULL \/ cpc[c] = "refetch",
         NEW l, cpc' = [cpc EXCEPT ![c] = l], i' = i
  PROVE  InOnePlace(r)'
<1>1. QueueType /\ proc \in [CPUs -> Procs \union {NULL}]
      /\ cpc \in [CPUs -> {"check", "refetch", "recheck", "end_slot", "stopped"}]
  BY DEF TypeInv, TypeOK, QueueType
<1>2. PICK p \in Procs \union {NULL} : get_proc(p) /\ proc' = [proc EXCEPT ![c] = p]
  BY DEF Fetch
<1>3. QueuedOnce(r)' /\ (p = r => ~Queued(r)')
  BY <1>1, <1>2, GetProcOnce DEF InOnePlace
<1>4. (Queued(r)' => Queued(r)) /\ (p = r => Queued(r))
  BY <1>1, <1>2, GetProcTakes, NullIsNoProc
<1>5. \A d \in CPUs : Holds(d, r)' => (d = c /\ p = r) \/ (d # c /\ Holds(d, r))
  BY <1>1, <1>2 DEF Holds
<1>6. CASE p = r
  <2>1. /\ ~Queued(r)' /\ r <= i'
        /\ \A d \in CPUs : Holds(d, r)' => d = c
    BY <1>3, <1>4, <1>5, <1>6 DEF InOnePlace
  <2>2. QED
    BY <1>3, <2>1 DEF InOnePlace
<1>7. CASE p # r
  BY <1>3, <1>4, <1>5, <1>7, OnceKept
<1>8. QED
  BY <1>6, <1>7

LEMMA OnceStep ==
  ASSUME TypeInv, NEW r \in Procs, InOnePlace(r), [Next]_vars
  PROVE  InOnePlace(r)'
<1> USE DEF At, Goto
<1>1. /\ QueueType
      /\ proc \in [CPUs -> Procs \union {NULL}]
      /\ cpc \in [CPUs -> {"check", "refetch", "recheck", "end_slot", "stopped"}]
      /\ prio \in [Procs -> Prios] /\ i \in 0..NumProcs
  BY DEF TypeInv, TypeOK, QueueType
<1>2. ASSUME UNCHANGED <<mlq_ready_queue, i>>,
             \A c \in CPUs : Holds(c, r)' => Holds(c, r)
      PROVE  InOnePlace(r)'
  <2>1. QueuedOnce(r)' /\ (Queued(r)' => Queued(r))
    BY <1>2 DEF InOnePlace, QueuedOnce, Queued
  <2>2. QED
    BY <1>2, <2>1, OnceKept
<1>3. ASSUME NEW c \in CPUs, CPU(c) PROVE InOnePlace(r)'
  <2>1. CASE FetchIdle(c)
    BY <2>1, OnceFetch DEF FetchIdle, ldVars
  <2>2. CASE FetchNext(c)
    BY <2>2, OnceFetch DEF FetchNext, ldVars
  <2>3. CASE PutProc(c)
    <3>1. proc[c] \in Procs /\ prio[proc[c]] \in Prios /\ Holds(c, proc[c])
      BY <1>1, <2>3 DEF PutProc, Holds
    <3>2. PICK p \in Procs : p = proc[c] /\ put_proc(p, prio[p])
      BY <2>3, <3>1 DEF PutProc
    <3>3. \A d \in CPUs : Holds(d, r)' => d # c /\ Holds(d, r)
      BY <1>1, <2>3 DEF PutProc, Holds
    <3>4. /\ Queued(r)' => Queued(r) \/ r = p
          /\ QueuedOnce(r)' /\ i' = i
      BY <1>1, <2>3, <3>1, <3>2, PutProcAdds, PutProcOnce DEF PutProc, InOnePlace, ldVars
    <3>5. CASE r = p
      BY <3>1, <3>2, <3>3, <3>4, <3>5 DEF InOnePlace
    <3>6. CASE r # p
      BY <3>3, <3>4, <3>6, OnceKept
    <3>7. QED
      BY <3>5, <3>6
  <2>4. CASE FinishProc(c)
    BY <1>1, <1>2, <2>4, NullIsNoProc DEF FinishProc, Holds, mlqVars, ldVars
  <2>5. CASE KeepProc(c) \/ StopCPU(c) \/ SkipSlot(c) \/ RunProc(c) \/ EndSlot(c)
    <3>1. UNCHANGED <<mlq_ready_queue, i>>
      BY <2>5 DEF KeepProc, StopCPU, SkipSlot, RunProc, EndSlot, mlqVars, ldVars
    <3>2. \A d \in CPUs : Holds(d, r)' => Holds(d, r)
      BY <1>1, <2>5 DEF KeepProc, StopCPU, SkipSlot, RunProc, EndSlot, Holds
    <3>3. QED
      BY <1>2, <3>1, <3>2
  <2>6. QED
    BY <1>3, <2>1, <2>2, <2>3, <2>4, <2>5 DEF CPU
<1>4. CASE AddProc
  <2>1. /\ Loaded \in Procs /\ i' = i + 1 /\ i < Loaded /\ i \in Nat
        /\ put_proc(Loaded, prio[Loaded]) /\ UNCHANGED <<cpc, proc>>
    BY <1>1, <1>4, KernelAssumption DEF AddProc, Loaded, Procs, cpuVars
  <2>2. PICK p \in Procs : p = Loaded /\ put_proc(p, prio[p]) /\ prio[p] \in Prios
    BY <1>1, <2>1
  <2>3. p = r => ~Queued(r) /\ \A c \in CPUs : ~Holds(c, r)
    BY <2>1, <2>2 DEF InOnePlace, Procs
  <2>4. QueuedOnce(r)' /\ (Queued(r)' => Queued(r) \/ r = p)
    BY <1>1, <2>2, <2>3, PutProcAdds, PutProcOnce DEF InOnePlace
  <2>5. \A c \in CPUs : Holds(c, r)' <=> Holds(c, r)
    BY <2>1 DEF Holds
  <2>6. r <= i \/ r = p => r <= i'
    BY <2>1, <2>2 DEF Procs, Loaded
  <2>7. QED
    BY <2>3, <2>4, <2>5, <2>6 DEF InOnePlace
<1>5. CASE Loader /\ ~AddProc
  BY <1>2, <1>5 DEF Loader, AwaitStart, LoaderEndSlot, SetDone, DetachLoader, mlqVars,
                    cpuVars, ldVars, Holds
<1>6. CASE NewSlot \/ Finished \/ UNCHANGED vars
  BY <1>2, <1>6 DEF NewSlot, Finished, vars, mlqVars, cpuVars, ldVars, Holds
<1>7. QED
  BY <1>3, <1>4, <1>5, <1>6 DEF Next

(* The removal adds nobody to a list.                                      *)
LEMMA NextListFrom ==
  ASSUME NEW list \in Seq(Procs), NEW d \in RemovalTypes,
         NEW j \in DOMAIN NextList(list, d)
  PROVE  \E k \in DOMAIN list : NextList(list, d)[j] = list[k]
<1>1. d.k \in Nat /\ Len(list) \in Nat /\ DOMAIN list = 1..Len(list)
  BY DEF RemovalTypes
<1>2. CASE Shifting(list, d)
  <2>1. d.k \in DOMAIN list /\ d.k + 1 \in DOMAIN list
    BY <1>1, <1>2 DEF Shifting, RemovalTypes
  <2>2. NextList(list, d) = [list EXCEPT ![d.k] = list[d.k + 1]]
    BY <1>2, RemovalSteps
  <2>3. QED
    BY <1>1, <2>1, <2>2
<1>3. CASE d.at = "clear"
  <2>1. NextList(list, d) = SubSeq(list, 1, Len(list) - 1)
    BY <1>3, RemovalSteps
  <2>2. /\ DOMAIN SubSeq(list, 1, Len(list) - 1) \subseteq DOMAIN list
        /\ \A k \in DOMAIN SubSeq(list, 1, Len(list) - 1) :
             SubSeq(list, 1, Len(list) - 1)[k] = list[k]
    BY <1>1
  <2>3. QED
    BY <2>1, <2>2
<1>4. CASE ~Shifting(list, d) /\ d.at # "clear"
  BY <1>4 DEF NextList
<1>5. QED
  BY <1>2, <1>3, <1>4

LEMMA KillerStep == KTypes /\ KillerOnce /\ [KNext]_kVars => KillerOnce'
<1> SUFFICES ASSUME KTypes, KillerOnce, [KNext]_kVars PROVE KillerOnce'
  OBVIOUS
<1>1. /\ mlq_ready_queue \in [Prios -> Seq(Procs)] /\ dq \in [CPUs -> RemovalTypes]
      /\ call \in Calls
      /\ cpc \in [CPUs -> {"check", "refetch", "recheck", "end_slot", "stopped"}]
  BY DEF KTypes, TypeInv, TypeOK, ListTypes, CallTypes
<1>2. Killer \in Procs
  BY KillallAssumption
<1>3. ASSUME UNCHANGED <<mlq_ready_queue, i>>,
             \A c \in CPUs : Holds(c, Killer)' => Holds(c, Killer)
      PROVE  KillerOnce'
  <2>1. QueuedOnce(Killer)' /\ (Queued(Killer)' => Queued(Killer))
    BY <1>3 DEF KillerOnce, InOnePlace, QueuedOnce, Queued
  <2>2. QED
    BY <1>2, <1>3, <2>1, OnceKept DEF KillerOnce
<1>4. CASE KernelStep
  BY <1>2, <1>4, ListStepIsKernelStep, OnceStep DEF KernelStep, KTypes, KillerOnce
<1>5. ASSUME NEW c \in CPUs, ReadPc(c) \/ Instruction(c) PROVE KillerOnce'
  <2>1. UNCHANGED <<mlq_ready_queue, i, proc>>
    BY <1>5 DEF ReadPc, Instruction, rlVars, vars, mlqVars, ldVars, cpuVars
  <2>2. cpc' = cpc \/ (cpc' = [cpc EXCEPT ![c] = "end_slot"] /\ cpc[c] = "recheck")
    BY <1>5 DEF ReadPc, Instruction, rlVars, vars, cpuVars, AtRun, At, EndRun, Goto
  <2>3. QED
    BY <1>1, <1>3, <2>1, <2>2 DEF Holds
<1>6. ASSUME NEW c \in CPUs, KillallStep(c) PROVE KillerOnce'
  <2>1. CASE WalkRunning(c) \/ WalkQueue(c) \/ FreeVictim(c)
    <3>1. UNCHANGED <<mlq_ready_queue, i, proc, cpc>>
      BY <2>1 DEF WalkRunning, WalkQueue, FreeVictim, vars, mlqVars, ldVars, cpuVars
    <3>2. QED
      BY <1>3, <3>1 DEF Holds
  <2>2. CASE StepKillRemoval(c)
    <3>1. Holds(c, Killer) /\ call.q \in Prios /\ UNCHANGED <<i, proc, cpc>>
      BY <1>1, <2>2, CallFacts
         DEF StepKillRemoval, InCall, AtRun, At, Holds, ldVars, cpuVars
    <3>2. ~Queued(Killer)
      BY <3>1 DEF KillerOnce, InOnePlace
    <3>3. PICK list \in Seq(Procs), d \in RemovalTypes :
            /\ list = mlq_ready_queue[call.q]
            /\ mlq_ready_queue' = [mlq_ready_queue EXCEPT ![call.q] = NextList(list, d)]
      BY <1>1, <2>2, <3>1 DEF StepKillRemoval
    <3>4. ASSUME NEW q \in Prios, NEW k \in DOMAIN mlq_ready_queue'[q]
          PROVE  mlq_ready_queue'[q][k] # Killer
      BY <1>1, <3>1, <3>2, <3>3, NextListFrom DEF Queued
    <3>5. ~Queued(Killer)' /\ QueuedOnce(Killer)'
      BY <3>4 DEF Queued, QueuedOnce
    <3>6. QED
      BY <1>2, <3>1, <3>5, OnceKept DEF KillerOnce, Holds
  <2>3. CASE EndCall(c)
    <3>1. UNCHANGED <<mlq_ready_queue, i, proc>>
      BY <2>3 DEF EndCall, mlqVars, ldVars
    <3>2. cpc' = [cpc EXCEPT ![c] = "end_slot"] /\ cpc[c] = "recheck"
      BY <2>3 DEF EndCall, InCall, AtRun, At, EndRun, Goto
    <3>3. QED
      BY <1>1, <1>3, <3>1, <3>2 DEF Holds
  <2>4. QED
    BY <1>6, <2>1, <2>2, <2>3 DEF KillallStep
<1>7. QED
  BY <1>4, <1>5, <1>6, KernelSteps

LEMMA KillerInit == KInit => KillerOnce
<1> SUFFICES ASSUME KInit PROVE KillerOnce
  OBVIOUS
<1>1. \A p \in Procs : ~Queued(p) /\ QueuedOnce(p)
  BY DEF KInit, RLInit, Init, init_scheduler, Queued, QueuedOnce
<1>2. \A c \in CPUs, p \in Procs : ~Holds(c, p)
  BY NullIsNoProc DEF KInit, RLInit, Init, Holds
<1>3. QED
  BY <1>1, <1>2, KillallAssumption DEF KillerOnce, InOnePlace

------------------------------------------------------------------------------
(* Inside run().                                                           *)

(* A CPU has read pc only inside run(), and the one in the call has.       *)
RunInv ==
  /\ \A c \in CPUs : seen[c] # NoPc => AtRun(c)
  /\ Active => \E c \in CPUs : InCall(c) /\ seen[c] # NoPc

LEMMA InCallActive ==
  ASSUME NEW c \in CPUs, InCall(c)
  PROVE  Active /\ proc[c] = Killer /\ AtRun(c) /\ Holds(c, Killer)
BY DEF InCall, Active, AtRun, At, Holds

LEMMA OneInCall ==
  ASSUME KillerOnce, NEW c \in CPUs, InCall(c), NEW d \in CPUs, InCall(d)
  PROVE  c = d
BY InCallActive DEF KillerOnce, InOnePlace

(* So the CPU in the call has read pc.                                     *)
LEMMA InCallSeen ==
  ASSUME KillerOnce, RunInv, NEW c \in CPUs, InCall(c)
  PROVE  seen[c] # NoPc
BY InCallActive, OneInCall DEF RunInv

LEMMA RunInvInit == KInit => RunInv
BY DEF KInit, RunInv, Active, NotCalled

(* The steps inside the call, but for its last.                            *)
InsideStep(c) ==
  WalkRunning(c) \/ WalkQueue(c) \/ StepKillRemoval(c) \/ FreeVictim(c)

LEMMA InsideKeeps ==
  ASSUME NEW c \in CPUs, InsideStep(c)
  PROVE  /\ UNCHANGED <<phase, cpc, proc, seen, steps, named, i, size, running_list, raced,
                        disturbed>>
         /\ InCall(c) /\ Active'
         /\ \A d \in CPUs : InCall(d)' <=> InCall(d)
<1>1. UNCHANGED <<phase, cpc, proc, seen, steps, named, i, size, running_list, raced,
                  disturbed>>
  BY DEF InsideStep, WalkRunning, WalkQueue, StepKillRemoval, FreeVictim, vars, cpuVars,
         callVars, history, ldVars, config, listVars
<1>2. InCall(c)
  BY DEF InsideStep, WalkRunning, WalkQueue, StepKillRemoval, FreeVictim
<1>3. Active'
  <2>1. call'.at \in {"running", "queue", "removal"}
    BY DEF InsideStep, WalkRunning, WalkQueue, StepKillRemoval, FreeVictim, AtRunning,
           AtQueue, AtRemoval, AfterVictim, callVars, InCall
  <2>2. QED
    BY <2>1 DEF Active
<1>4. Active
  BY <1>2 DEF InCall, Active
<1>5. QED
  BY <1>1, <1>2, <1>3, <1>4 DEF InCall, AtRun, At, Active

LEMMA RunInvStep == KTypes /\ RunInv /\ [KNext]_kVars => RunInv'
<1> SUFFICES ASSUME KTypes, RunInv, [KNext]_kVars PROVE RunInv'
  OBVIOUS
<1>1. /\ cpc \in [CPUs -> {"check", "refetch", "recheck", "end_slot", "stopped"}]
      /\ seen \in [CPUs -> Nat \union {NoPc}]
      /\ pc \in [Procs -> Nat] /\ proc \in [CPUs -> Procs \union {NULL}]
  BY DEF KTypes, TypeInv, TypeOK, CallTypes
<1>2. CASE KernelStep
  <2>1. UNCHANGED <<seen, call>> /\ (Active' <=> Active)
    BY <1>2 DEF KernelStep, UseQueues, Active
  <2>2. \A c \in CPUs : seen[c] # NoPc => AtRun(c)' /\ proc'[c] = proc[c]
    BY <1>2 DEF KernelStep, RunInv
  <2>3. QED
    BY <2>1, <2>2 DEF RunInv, InCall, Active
<1>3. ASSUME NEW c \in CPUs, ReadPc(c) PROVE RunInv'
  <2>1. /\ UNCHANGED <<phase, cpc, proc, call>>
        /\ seen' = [seen EXCEPT ![c] = pc[proc[c]]] /\ seen[c] = NoPc /\ AtRun(c)
    BY <1>3 DEF ReadPc, rlVars, vars, cpuVars
  <2>2. \A d \in CPUs : /\ AtRun(d)' <=> AtRun(d)
                        /\ InCall(d)' <=> InCall(d)
                        /\ seen[d] # NoPc => seen'[d] # NoPc
                        /\ seen'[d] # NoPc => seen[d] # NoPc \/ d = c
    BY <1>1, <2>1 DEF AtRun, At, InCall
  <2>3. Active' <=> Active
    BY <2>1 DEF Active
  <2>4. QED
    BY <2>1, <2>2, <2>3 DEF RunInv
<1>4. ASSUME NEW c \in CPUs, Instruction(c) PROVE RunInv'
  <2>1. AtRun(c) /\ seen[c] # NoPc /\ ~InCall(c) /\ UNCHANGED <<phase, proc>>
    BY <1>4 DEF Instruction
  <2>2. CASE IsKillall(c) /\ call' = AtRunning(1) /\ UNCHANGED <<cpc, seen>>
    <3>1. \A d \in CPUs : AtRun(d)' <=> AtRun(d)
      BY <2>1, <2>2 DEF AtRun, At
    <3>2. InCall(c)'
      BY <2>1, <2>2, <3>1 DEF InCall, AtRunning, IsKillall
    <3>3. QED
      BY <2>1, <2>2, <3>1, <3>2 DEF RunInv
  <2>3. CASE EndRun(c) /\ UNCHANGED call
    <3>1. /\ cpc' = [cpc EXCEPT ![c] = "end_slot"]
          /\ seen' = [seen EXCEPT ![c] = NoPc]
      BY <2>3 DEF EndRun, Goto
    <3>2. \A d \in CPUs \ {c} : /\ AtRun(d)' <=> AtRun(d)
                                /\ InCall(d)' <=> InCall(d)
                                /\ seen'[d] = seen[d]
      BY <1>1, <2>1, <2>3, <3>1 DEF AtRun, At, InCall
    <3>3. seen'[c] = NoPc /\ (Active' <=> Active)
      BY <1>1, <2>3, <3>1 DEF Active
    <3>4. QED
      BY <2>1, <3>2, <3>3 DEF RunInv
  <2>4. QED
    BY <1>4, <2>2, <2>3 DEF Instruction
<1>5. ASSUME NEW c \in CPUs, InsideStep(c) PROVE RunInv'
  <2>1. \A d \in CPUs : AtRun(d)' <=> AtRun(d)
    BY <1>5, InsideKeeps DEF AtRun, At
  <2>2. Active
    BY <1>5, InsideKeeps, InCallActive
  <2>3. QED
    BY <1>5, <2>1, <2>2, InsideKeeps DEF RunInv
<1>6. ASSUME NEW c \in CPUs, EndCall(c) PROVE RunInv'
  <2>1. /\ ~Active' /\ UNCHANGED <<phase, proc>>
        /\ cpc' = [cpc EXCEPT ![c] = "end_slot"]
        /\ seen' = [seen EXCEPT ![c] = NoPc]
    BY <1>6 DEF EndCall, EndRun, Goto, Active, Returned
  <2>2. \A d \in CPUs \ {c} : (AtRun(d)' <=> AtRun(d)) /\ seen'[d] = seen[d]
    BY <1>1, <2>1 DEF AtRun, At
  <2>3. QED
    BY <1>1, <2>1, <2>2 DEF RunInv
<1>7. QED
  BY <1>2, <1>3, <1>4, <1>5, <1>6, KernelSteps DEF KillallStep, InsideStep

------------------------------------------------------------------------------
(* A process that is stopped stays stopped.                                *)

(* A process that killall has stopped: nobody has read its pc, but for the *)
(* CPU that is in the call.                                                *)
StopInv ==
  \A p \in killed \ (freed \union midway) :
    /\ pc[p] = size[p]
    /\ \A c \in CPUs : proc[c] = p /\ seen[c] # NoPc => InCall(c)

LEMMA StopInvInit == KInit => StopInv
BY DEF KInit, StopInv

LEMMA FreedGrows ==
  ASSUME [RLNext]_rlVars
  PROVE  freed \subseteq freed' /\ UNCHANGED size
<1>1. [Next]_vars
  BY ListStepIsKernelStep
<1>2. ASSUME NEW c \in CPUs, CPU(c) PROVE freed \subseteq freed' /\ UNCHANGED size
  BY <1>2 DEF CPU, FetchIdle, FinishProc, PutProc, KeepProc, FetchNext, StopCPU, SkipSlot,
              RunProc, EndSlot, procVars, config
<1>3. CASE Loader
  BY <1>3 DEF Loader, AwaitStart, AddProc, LoaderEndSlot, SetDone, DetachLoader, procVars,
              config
<1>4. QED
  BY <1>1, <1>2, <1>3 DEF Next, NewSlot, Finished, vars, procVars, config

LEMMA StopInvStep ==
  KTypes /\ KillerOnce /\ RunInv /\ StopInv /\ [KNext]_kVars => StopInv'
<1> SUFFICES ASSUME KTypes, KillerOnce, RunInv, StopInv, [KNext]_kVars PROVE StopInv'
  OBVIOUS
<1>1. /\ seen \in [CPUs -> Nat \union {NoPc}] /\ pc \in [Procs -> Nat]
      /\ killed \subseteq Procs
      /\ proc \in [CPUs -> Procs \union {NULL}] /\ running_list \in Seq(Procs)
      /\ \A p \in Procs : size[p] \in Nat
  BY KernelAssumption DEF KTypes, TypeInv, TypeOK, CallTypes, ListTypes
<1>2. CASE KernelStep
  <2>1. /\ UNCHANGED <<seen, call, killed, midway, pc, size>> /\ freed \subseteq freed'
        /\ \A c \in CPUs : seen[c] # NoPc => /\ AtRun(c)' /\ AtRun(c)
                                             /\ proc'[c] = proc[c]
    BY <1>2, FreedGrows DEF KernelStep, UseQueues, RunInv
  <2>2. \A c \in CPUs : seen[c] # NoPc => (InCall(c)' <=> InCall(c))
    BY <2>1 DEF InCall
  <2>3. QED
    BY <2>1, <2>2 DEF StopInv
<1>3. ASSUME NEW c \in CPUs, ReadPc(c) PROVE StopInv'
  <2>1. /\ UNCHANGED <<killed, midway, freed, pc, size, proc, phase, cpc, call>>
        /\ seen' = [seen EXCEPT ![c] = pc[proc[c]]]
        /\ pc[proc[c]] < size[proc[c]] /\ proc[c] \in Procs
    BY <1>1, <1>3 DEF ReadPc, AtRun, rlVars, vars, cpuVars, procVars, config, history
  <2>2. proc[c] \notin killed \ (freed \union midway)
    BY <1>1, <2>1 DEF StopInv
  <2>3. \A d \in CPUs : /\ InCall(d)' <=> InCall(d)
                        /\ d # c => seen'[d] = seen[d]
    BY <1>1, <2>1 DEF InCall, AtRun, At
  <2>4. QED
    BY <2>1, <2>2, <2>3 DEF StopInv
<1>4. ASSUME NEW c \in CPUs, Instruction(c) PROVE StopInv'
  <2>1. /\ UNCHANGED <<killed, midway, freed, size, proc, phase>>
        /\ \E n \in NextPc(c) : pc' = [pc EXCEPT ![proc[c]] = n]
        /\ seen[c] # NoPc /\ ~InCall(c) /\ AtRun(c)
    BY <1>4 DEF Instruction, config
  <2>2. proc[c] \notin killed \ (freed \union midway)
    BY <2>1 DEF StopInv
  <2>3. \A p \in killed \ (freed \union midway) : pc'[p] = pc[p]
    BY <1>1, <2>1, <2>2
  <2>4. \A d \in CPUs : /\ seen'[d] # NoPc => seen[d] # NoPc
                        /\ d # c /\ InCall(d) => InCall(d)'
    <3>1. CASE call' = AtRunning(1) /\ UNCHANGED <<cpc, seen>>
      BY <2>1, <3>1 DEF InCall, AtRun, At, AtRunning
    <3>2. CASE EndRun(c) /\ UNCHANGED call
      <4>1. cpc' = [cpc EXCEPT ![c] = "end_slot"] /\ seen' = [seen EXCEPT ![c] = NoPc]
        BY <3>2 DEF EndRun, Goto
      <4>2. \A d \in CPUs : d # c => cpc'[d] = cpc[d] /\ seen'[d] = seen[d]
        BY <1>1, <4>1 DEF KTypes, TypeInv, TypeOK
      <4>3. seen'[c] = NoPc
        BY <1>1, <4>1
      <4>4. QED
        BY <2>1, <3>2, <4>2, <4>3 DEF InCall, AtRun, At
    <3>3. QED
      BY <1>4, <3>1, <3>2 DEF Instruction
  <2>5. QED
    BY <2>1, <2>2, <2>3, <2>4 DEF StopInv
<1>5. ASSUME NEW c \in CPUs, WalkRunning(c) PROVE StopInv'
  <2>1. /\ UNCHANGED <<freed, size, proc, seen>>
        /\ \A d \in CPUs : InCall(d)' <=> InCall(d)
    BY <1>5, InsideKeeps DEF InsideStep, WalkRunning
  <2>2. CASE UNCHANGED <<pc, killed, midway>>
    BY <2>1, <2>2 DEF StopInv
  <2>3. CASE LET p == running_list[call.k]
             IN  /\ call.k <= Len(running_list)
                 /\ pc' = [pc EXCEPT ![p] = StopAt(p)]
                 /\ killed' = killed \union {p}
                 /\ midway' = IF \E d \in CPUs \ {c} : proc[d] = p /\ seen[d] # NoPc
                              THEN midway \union {p} ELSE midway
    <3> DEFINE p == running_list[call.k]
    <3>1. p \in Procs
      BY <1>1, <1>5, <2>3, CallFacts DEF WalkRunning, KTypes, CallTypes
    <3>2. /\ pc'[p] = size[p] /\ \A r \in Procs \ {p} : pc'[r] = pc[r]
          /\ midway \subseteq midway'
      BY <1>1, <2>3, <3>1 DEF StopAt
    <3>3. p \notin midway' => \A d \in CPUs \ {c} : ~(proc[d] = p /\ seen[d] # NoPc)
      BY <2>3
    <3>4. InCall(c)
      BY <1>5 DEF WalkRunning
    <3>5. killed' = killed \union {p}
      BY <2>3
    <3> HIDE DEF p
    <3>6. QED
      BY <1>1, <2>1, <3>1, <3>2, <3>3, <3>4, <3>5 DEF StopInv
  <2>4. QED
    BY <1>5, <2>2, <2>3 DEF WalkRunning
<1>6. ASSUME NEW c \in CPUs, WalkQueue(c) \/ StepKillRemoval(c) \/ FreeVictim(c)
      PROVE  StopInv'
  <2>1. /\ UNCHANGED <<pc, size, proc, seen, midway>>
        /\ freed \subseteq freed' /\ killed' \ freed' \subseteq killed
    BY <1>6 DEF WalkQueue, StepKillRemoval, FreeVictim, vars, cpuVars, procVars, config,
                history, callVars
  <2>2. \A d \in CPUs : InCall(d)' <=> InCall(d)
    BY <1>6, InsideKeeps DEF InsideStep
  <2>3. QED
    BY <2>1, <2>2 DEF StopInv
<1>7. ASSUME NEW c \in CPUs, EndCall(c) PROVE StopInv'
  <2>1. /\ UNCHANGED <<pc, size, proc, freed, killed, midway>>
        /\ seen' = [seen EXCEPT ![c] = NoPc] /\ InCall(c)
    BY <1>7 DEF EndCall, EndRun, procVars, config, history
  <2>2. \A d \in CPUs : seen'[d] # NoPc => d # c /\ seen[d] # NoPc
    BY <1>1, <2>1
  <2>3. \A d \in CPUs : d # c => ~InCall(d)
    BY <2>1, OneInCall
  <2>4. QED
    BY <2>1, <2>2, <2>3 DEF StopInv
<1>8. QED
  BY <1>2, <1>3, <1>4, <1>5, <1>6, <1>7, KernelSteps DEF KillallStep

(* sys_killall.c:46: whatever the other CPUs and the loader do, a process  *)
(* whose pc killall has set to the end of its program stays there, if no   *)
(* CPU was inside run() with it at that moment.                            *)
THEOREM StoppedStays == KSpec => []StoppedUnlessMidway
<1> DEFINE Inv == KTypes /\ KillerOnce /\ RunInv /\ StopInv
<1>1. KInit => Inv
  BY KTypesInit, KillerInit, RunInvInit, StopInvInit
<1>2. Inv /\ [KNext]_kVars => Inv'
  BY KTypesStep, KillerStep, RunInvStep, StopInvStep
<1>3. Inv => StoppedUnlessMidway
  BY DEF StopInv, StoppedUnlessMidway
<1>4. QED
  BY <1>1, <1>2, <1>3, PTL DEF KSpec

------------------------------------------------------------------------------
(* The ready queues while killall removes a process.                       *)

Caller == CHOOSE c \in CPUs : InCall(c)

(* The position that does not count: that of the victim until it is found, *)
(* and then the one whose entry is, or will be, that of the next.          *)
HoleAt(list, p, d) ==
  CASE d.at = "find"               -> CHOOSE k \in DOMAIN list : list[k] = p
    [] d.at \in {"shift", "clear"} -> d.k
    [] OTHER                       -> 0

Hole(q) ==
  IF call.at = "removal" /\ q = call.q
  THEN HoleAt(mlq_ready_queue[q], call.p, dq[Caller]) ELSE 0

Live(q) == DOMAIN mlq_ready_queue[q] \ {Hole(q)}

(* Where a process is: in a queue, on a CPU, or out of its queue with its  *)
(* pcb not freed yet.                                                      *)
Waiting(p) == \E q \in Prios : \E k \in Live(q) : mlq_ready_queue[q][k] = p
Held(p)    == \E c \in CPUs : Holds(c, p)
Victim(p)  == call.at = "removal" /\ p = call.p

Apart ==
  \A q1, q2 \in Prios : \A k1 \in Live(q1), k2 \in Live(q2) :
    mlq_ready_queue[q1][k1] = mlq_ready_queue[q2][k2] => q1 = q2 /\ k1 = k2

(* Every process that is loaded and not freed is in one of the three.      *)
CalmPlaces ==
  /\ Apart
  /\ OneHolder
  /\ \A p \in Procs : Held(p) => ~Waiting(p)
  /\ \A p \in Procs : Victim(p) => ~Waiting(p) /\ ~Held(p)
  /\ \A p \in Procs : Waiting(p) \/ Held(p) \/ Victim(p) => p <= i /\ p \notin freed
  /\ \A p \in freed : p <= i
  /\ \A p \in Procs : p <= i /\ p \notin freed => Waiting(p) \/ Held(p) \/ Victim(p)

(* Where the removal of p from a queue has come to.                        *)
OnItsWay(list, p, d) ==
  /\ d.at \in {"find", "shift", "clear", "done"}
  /\ d.at = "find" =>
       /\ \E k \in DOMAIN list : list[k] = p
       /\ \A k \in DOMAIN list : k < d.k => list[k] # p
  /\ d.at \in {"shift", "clear"} => d.k \in DOMAIN list
  /\ d.at = "clear" => d.k = Len(list)

RemovalInv ==
  call.at = "removal" => OnItsWay(mlq_ready_queue[call.q], call.p, dq[Caller])

(* Elsewhere than at the top of cpu_routine, only killall removes.         *)
KillallRemoves ==
  \A c \in CPUs : cpc[c] # "check" /\ dq[c] # Idle => InCall(c) /\ call.at = "removal"

Calm == CalmPlaces /\ RemovalInv /\ KillallRemoves /\ ListSide

CalmInv == disturbed \/ Calm

LEMMA CallerIs == KillerOnce => \A c \in CPUs : InCall(c) => Caller = c
<1> SUFFICES ASSUME KillerOnce, NEW c \in CPUs, InCall(c) PROVE Caller = c
  OBVIOUS
<1>1. \A d \in CPUs : InCall(d) <=> d = c
  BY OneInCall
<1>2. QED
  BY <1>1 DEF Caller

LEMMA CallerIsPrime == KillerOnce' => \A c \in CPUs : InCall(c)' => Caller' = c
<1>1. (KillerOnce => \A c \in CPUs : InCall(c) => Caller = c)'
  BY CallerIs, PTL
<1>2. QED
  BY <1>1

(* While killall removes nobody, the queues are as they look.              *)
LEMMA CalmOutside ==
  ASSUME mlq_ready_queue \in [Prios -> Seq(Procs)], call.at # "removal"
  PROVE  /\ \A q \in Prios : Live(q) = DOMAIN mlq_ready_queue[q]
         /\ \A p \in Procs : (Waiting(p) <=> Queued(p)) /\ ~Victim(p)
         /\ CalmPlaces <=> PlaceInv /\ NoProcessLost
<1>1. \A q \in Prios : Live(q) = DOMAIN mlq_ready_queue[q]
  <2>1. \A q \in Prios : Hole(q) = 0 /\ 0 \notin DOMAIN mlq_ready_queue[q]
    BY DEF Hole
  <2>2. QED
    BY <2>1 DEF Live
<1>2. \A p \in Procs : (Waiting(p) <=> Queued(p)) /\ ~Victim(p)
  BY <1>1 DEF Waiting, Queued, Victim
<1>3. Apart <=> Distinct
  BY <1>1 DEF Apart, Distinct
<1>4. CalmPlaces <=> PlaceInv /\ NoProcessLost
  BY <1>2, <1>3 DEF CalmPlaces, PlaceInv, HeldNotQueued, LiveOnly, NoProcessLost, Held
<1>5. QED
  BY <1>1, <1>2, <1>4

LEMMA CalmOutsidePrime ==
  ASSUME KTypes', call'.at # "removal"
  PROVE  CalmPlaces' <=> (PlaceInv /\ NoProcessLost)'
<1>1. (mlq_ready_queue \in [Prios -> Seq(Procs)] /\ call.at # "removal"
         => (CalmPlaces <=> PlaceInv /\ NoProcessLost))'
  BY CalmOutside, PTL
<1>2. QED
  BY <1>1 DEF KTypes, TypeInv, TypeOK

(* The queues, and how far the removal is, are the same.                   *)
LEMMA SameQueues ==
  ASSUME UNCHANGED mlq_ready_queue,
         \/ UNCHANGED call /\ (call.at = "removal" => dq'[Caller'] = dq[Caller])
         \/ call.at # "removal" /\ call'.at # "removal"
  PROVE  /\ \A p \in Procs : (Waiting(p)' <=> Waiting(p)) /\ (Victim(p)' <=> Victim(p))
         /\ Apart' <=> Apart
         /\ RemovalInv => RemovalInv'
<1>1. \A q \in Prios : Hole(q)' = Hole(q)
  BY DEF Hole
<1>2. \A q \in Prios : Live(q)' = Live(q)
  BY <1>1 DEF Live
<1>3. RemovalInv => RemovalInv'
  BY DEF RemovalInv
<1>4. QED
  BY <1>2, <1>3 DEF Waiting, Victim, Apart

LEMMA SamePlaces ==
  ASSUME CalmPlaces, UNCHANGED <<i, freed>>, Apart',
         \A p \in Procs : (Waiting(p)' <=> Waiting(p)) /\ (Victim(p)' <=> Victim(p)),
         \A c \in CPUs, p \in Procs : Holds(c, p)' <=> Holds(c, p)
  PROVE  CalmPlaces'
<1>1. OneHolder'
  BY DEF CalmPlaces, OneHolder
<1>2. \A p \in Procs : Held(p)' <=> Held(p)
  BY DEF Held
<1>3. QED
  BY <1>1, <1>2 DEF CalmPlaces

(* Pigeonhole: a queue has room for a process that is elsewhere, even when *)
(* the removal has not taken its victim off the array yet.                 *)
LEMMA RoomInCalm ==
  ASSUME Roomy, QueueType, CalmPlaces, call \in Calls, NEW p \in Procs,
         ~Waiting(p), ~Victim(p), NEW q \in Prios
  PROVE  Len(mlq_ready_queue[q]) < MAX_QUEUE_SIZE
<1> DEFINE L == mlq_ready_queue[q]
           h == Hole(q)
           others == Procs \ {p}
           f == [j \in 1..Len(L) |-> IF j = h THEN call.p ELSE L[j]]
<1>1. L \in Seq(Procs) /\ Len(L) \in Nat /\ DOMAIN L = 1..Len(L)
  BY DEF QueueType
<1>2. ASSUME NEW j \in 1..Len(L), j # h
      PROVE  L[j] \in others /\ j \in Live(q)
  <2>1. j \in Live(q)
    BY <1>1, <1>2 DEF Live
  <2>2. L[j] \in Procs /\ L[j] # p
    BY <1>1, <2>1 DEF Waiting
  <2>3. QED
    BY <2>1, <2>2
<1>3. ASSUME h \in 1..Len(L)
      PROVE  /\ call.p \in others
             /\ \A j \in 1..Len(L) : j # h => L[j] # call.p
  <2>1. call.at = "removal"
    BY <1>3 DEF Hole
  <2>2. call.p \in Procs /\ Victim(call.p) /\ call.p # p
    BY <2>1, CallFacts DEF Victim
  <2>3. ~Waiting(call.p)
    BY <2>2 DEF CalmPlaces
  <2>4. QED
    BY <1>2, <2>2, <2>3 DEF Waiting
<1> HIDE DEF h, L
<1>4. f \in [1..Len(L) -> others]
  BY <1>2, <1>3
<1>5. \A a, b \in 1..Len(L) : a # h /\ b # h /\ L[a] = L[b] => a = b
  BY <1>2 DEF CalmPlaces, Apart, L
<1>6. \A a, b \in 1..Len(L) : f[a] = f[b] => a = b
  BY <1>2, <1>3, <1>5
<1>7. f \in Injection(1..Len(L), others)
  BY <1>4, <1>6 DEF Injection, IsInjective
<1>8. IsFiniteSet(Procs) /\ Cardinality(Procs) = NumProcs
  BY FS_Interval, KernelAssumption DEF Procs
<1>9. IsFiniteSet(others) /\ Cardinality(others) = NumProcs - 1
  BY <1>8, FS_RemoveElement
<1>10. Cardinality(1..Len(L)) <= NumProcs - 1
  <2> HIDE DEF f, others
  <2> QED
    BY <1>7, <1>9, FS_Injection
<1>11. Cardinality(1..Len(L)) = Len(L)
  BY <1>1, FS_Interval
<1>12. QED
  BY <1>1, <1>10, <1>11, KernelAssumption, MlqAssumption DEF Roomy, L

------------------------------------------------------------------------------
(* The other threads, as long as they leave the queues alone during a      *)
(* removal.                                                                *)

(* get_proc that changes no queue returns NULL.                            *)
LEMMA FetchNothing ==
  ASSUME QueueType, NEW c \in CPUs, Fetch(c), UNCHANGED mlq_ready_queue
  PROVE  proc' = [proc EXCEPT ![c] = NULL]
<1>1. PICK p \in Procs \union {NULL} : get_proc(p) /\ proc' = [proc EXCEPT ![c] = p]
  BY DEF Fetch
<1>2. ASSUME NEW q \in Servable(Quotas),
             mlq_ready_queue' = [mlq_ready_queue EXCEPT ![q] = Dequeue(@)]
      PROVE  FALSE
  <2>1. mlq_ready_queue[q] \in Seq(Procs) /\ mlq_ready_queue[q] # <<>>
    BY DEF Servable, QueueType
  <2>2. Len(Tail(mlq_ready_queue[q])) # Len(mlq_ready_queue[q])
    BY <2>1
  <2>3. mlq_ready_queue'[q] = Tail(mlq_ready_queue[q])
    BY <1>2 DEF Dequeue, Servable, QueueType
  <2>4. QED
    BY <2>2, <2>3
<1>3. p = NULL
  BY <1>1, <1>2 DEF get_proc
<1>4. QED
  BY <1>1, <1>3

(* put_proc with room changes its queue.                                   *)
LEMMA PutChanges ==
  ASSUME QueueType, NEW p \in Procs, NEW q \in Prios, put_proc(p, q),
         Len(mlq_ready_queue[q]) < MAX_QUEUE_SIZE
  PROVE  mlq_ready_queue' # mlq_ready_queue
<1>1. mlq_ready_queue[q] \in Seq(Procs)
  BY DEF QueueType
<1>2. mlq_ready_queue'[q] = Append(mlq_ready_queue[q], p)
  BY DEF put_proc, Enqueue, QueueType
<1>3. Len(Append(mlq_ready_queue[q], p)) # Len(mlq_ready_queue[q])
  BY <1>1
<1>4. QED
  BY <1>2, <1>3

(* What a step of Kernel that changes no queue does to who has whom, when  *)
(* there is room in the queues for who is in no queue.                     *)
Hands(c) ==
  \/ /\ UNCHANGED <<i, freed>>
     /\ \A d \in CPUs, p \in Procs : Holds(d, p)' <=> Holds(d, p)
  \/ /\ Holds(c, proc[c]) /\ proc[c] \in Procs
     /\ UNCHANGED i /\ freed' = freed \union {proc[c]}
     /\ \A d \in CPUs, p \in Procs : Holds(d, p)' <=> d # c /\ Holds(d, p)

LEMMA HandsStep ==
  ASSUME Roomy, TypeInv, call \in Calls, CalmPlaces, [Next]_vars,
         UNCHANGED mlq_ready_queue
  PROVE  \/ /\ UNCHANGED <<i, freed>>
            /\ \A d \in CPUs, p \in Procs : Holds(d, p)' <=> Holds(d, p)
         \/ \E c \in CPUs : Hands(c)
<1> USE DEF At, Goto
<1>1. /\ QueueType
      /\ proc \in [CPUs -> Procs \union {NULL}]
      /\ cpc \in [CPUs -> {"check", "refetch", "recheck", "end_slot", "stopped"}]
      /\ prio \in [Procs -> Prios] /\ i \in Nat
  BY KernelAssumption DEF TypeInv, TypeOK, QueueType
<1>2. ASSUME NEW p \in Procs, put_proc(p, prio[p]), ~Waiting(p), ~Victim(p)
      PROVE  FALSE
  <2>1. prio[p] \in Prios
    BY <1>1
  <2>2. QED
    BY <1>1, <1>2, <2>1, RoomInCalm, PutChanges
<1>3. ASSUME NEW c \in CPUs, CPU(c) PROVE Hands(c)
  <2>1. CASE FetchIdle(c) \/ FetchNext(c)
    <3>1. proc' = [proc EXCEPT ![c] = NULL]
      BY <1>1, <2>1, FetchNothing DEF FetchIdle, FetchNext
    <3>2. UNCHANGED <<i, freed>> /\ (proc[c] = NULL \/ cpc[c] = "refetch")
      BY <2>1 DEF FetchIdle, FetchNext, ldVars, procVars
    <3>3. \A d \in CPUs \ {c} : cpc'[d] = cpc[d] /\ proc'[d] = proc[d]
      BY <1>1, <2>1, <3>1 DEF FetchIdle, FetchNext
    <3>4. QED
      BY <1>1, <3>1, <3>2, <3>3, NullIsNoProc DEF Hands, Holds
  <2>2. CASE FinishProc(c)
    <3>1. Holds(c, proc[c]) /\ proc[c] \in Procs
      BY <1>1, <2>2 DEF FinishProc, Holds
    <3>2. UNCHANGED i /\ freed' = freed \union {proc[c]}
      BY <2>2 DEF FinishProc, ldVars
    <3>3. \A d \in CPUs, p \in Procs : Holds(d, p)' <=> d # c /\ Holds(d, p)
      BY <1>1, <2>2, NullIsNoProc DEF FinishProc, Holds
    <3>4. QED
      BY <3>1, <3>2, <3>3 DEF Hands
  <2>3. CASE PutProc(c)
    <3>1. PICK p \in Procs : p = proc[c] /\ Holds(c, p)
      BY <1>1, <2>3 DEF PutProc, Holds
    <3>2. ~Waiting(p) /\ ~Victim(p)
      BY <3>1 DEF CalmPlaces, Held
    <3>3. QED
      BY <1>2, <2>3, <3>1, <3>2 DEF PutProc
  <2>4. CASE KeepProc(c) \/ StopCPU(c) \/ SkipSlot(c) \/ RunProc(c) \/ EndSlot(c)
    <3>1. UNCHANGED <<i, freed>>
      BY <2>4 DEF KeepProc, StopCPU, SkipSlot, RunProc, EndSlot, ldVars, procVars
    <3>2. \A d \in CPUs, p \in Procs : Holds(d, p)' <=> Holds(d, p)
      BY <1>1, <2>4 DEF KeepProc, StopCPU, SkipSlot, RunProc, EndSlot, Holds
    <3>3. QED
      BY <3>1, <3>2 DEF Hands
  <2>5. QED
    BY <1>3, <2>1, <2>2, <2>3, <2>4 DEF CPU
<1>4. CASE AddProc
  <2>1. PICK p \in Procs : p = Loaded /\ ~(p <= i)
    BY <1>1, <1>4, KernelAssumption DEF AddProc, Loaded, Procs
  <2>2. ~Waiting(p) /\ ~Victim(p)
    BY <2>1 DEF CalmPlaces
  <2>3. QED
    BY <1>2, <1>4, <2>1, <2>2 DEF AddProc
<1>5. CASE (Loader /\ ~AddProc) \/ NewSlot \/ Finished \/ UNCHANGED vars
  BY <1>5 DEF Loader, AwaitStart, LoaderEndSlot, SetDone, DetachLoader, NewSlot,
              Finished, vars, cpuVars, ldVars, procVars, Holds
<1>6. QED
  BY <1>3, <1>4, <1>5 DEF Next

LEMMA HandsPlaces ==
  ASSUME CalmPlaces, NEW c \in CPUs, Hands(c), Apart',
         \A p \in Procs : (Waiting(p)' <=> Waiting(p)) /\ (Victim(p)' <=> Victim(p))
  PROVE  CalmPlaces'
<1>1. CASE UNCHANGED <<i, freed>>
           /\ \A d \in CPUs, p \in Procs : Holds(d, p)' <=> Holds(d, p)
  BY <1>1, SamePlaces
<1>2. CASE /\ Holds(c, proc[c]) /\ proc[c] \in Procs
           /\ UNCHANGED i /\ freed' = freed \union {proc[c]}
           /\ \A d \in CPUs, p \in Procs : Holds(d, p)' <=> d # c /\ Holds(d, p)
  <2>1. OneHolder'
    BY <1>2 DEF CalmPlaces, OneHolder
  <2>2. \A p \in Procs : Held(p)' <=> Held(p) /\ p # proc[c]
    <3>1. \A p \in Procs : Holds(c, p) => p = proc[c]
      BY DEF Holds
    <3>2. \A d \in CPUs : Holds(d, proc[c]) => d = c
      BY <1>2 DEF CalmPlaces, OneHolder
    <3>3. QED
      BY <1>2, <3>1, <3>2 DEF Held
  <2>3. Held(proc[c])
    BY <1>2 DEF Held
  <2>4. ~Waiting(proc[c]) /\ ~Victim(proc[c]) /\ proc[c] <= i
    BY <1>2, <2>3 DEF CalmPlaces
  <2>5. QED
    BY <1>2, <2>1, <2>2, <2>4 DEF CalmPlaces
<1>3. QED
  BY <1>1, <1>2 DEF Hands

LEMMA CalmKernelStep ==
  ASSUME Roomy, KTypes, KillerOnce, RunInv, Calm, KernelStep, ~disturbed',
         KTypes', KillerOnce'
  PROVE  Calm'
<1>1. /\ [RLNext]_rlVars /\ [Next]_vars /\ UNCHANGED <<call, seen>>
      /\ TypeInv /\ ListSide /\ call \in Calls
      /\ mlq_ready_queue \in [Prios -> Seq(Procs)]
  BY ListStepIsKernelStep
     DEF KernelStep, UseQueues, KTypes, TypeInv, TypeOK, CallTypes, Calm
<1>2. CASE call.at # "removal"
  <2>1. PlaceInv /\ NoProcessLost
    BY <1>1, <1>2, CalmOutside DEF Calm
  <2>2. PlaceInv' /\ NoProcessLost'
    BY <1>1, <2>1, Roomy, PlaceStep, KeptStep
  <2>3. ListInv
    BY <1>2 DEF ListInv, Calm, KillallRemoves
  <2>4. ListInv'
    BY <1>1, <2>1, <2>3, Roomy, ListInvStep
  <2>5. CalmPlaces'
    BY <1>1, <1>2, <2>2, CalmOutsidePrime
  <2>6. QED
    BY <1>1, <1>2, <2>4, <2>5 DEF Calm, RemovalInv, KillallRemoves, ListInv
<1>3. CASE call.at = "removal"
  <2>1. UNCHANGED mlq_ready_queue
    BY <1>3 DEF KernelStep, UseQueues
  <2>2. PICK c \in CPUs : InCall(c)
    BY <1>3 DEF RunInv, Active
  <2>3. \A d \in CPUs : InCall(d) => InCall(d)' /\ dq'[d] = dq[d] /\ proc[d] = Killer
                                     /\ AtRun(d) /\ AtRun(d)'
    <3> SUFFICES ASSUME NEW d \in CPUs, InCall(d)
                 PROVE  InCall(d)' /\ dq'[d] = dq[d] /\ proc[d] = Killer
                        /\ AtRun(d) /\ AtRun(d)'
      OBVIOUS
    <3>1. seen[d] # NoPc /\ AtRun(d) /\ proc[d] = Killer
      BY InCallSeen, InCallActive
    <3>2. AtRun(d)' /\ proc'[d] = proc[d] /\ dq'[d] = dq[d]
      BY <3>1 DEF KernelStep
    <3>3. QED
      BY <1>1, <3>1, <3>2 DEF InCall
  <2>4. Caller = c /\ Caller' = c
    BY <2>2, <2>3, CallerIs, CallerIsPrime
  <2>5. /\ \A p \in Procs : (Waiting(p)' <=> Waiting(p)) /\ (Victim(p)' <=> Victim(p))
        /\ Apart' /\ RemovalInv'
    BY <1>1, <2>1, <2>2, <2>3, <2>4, SameQueues DEF Calm, CalmPlaces
  <2>6. CalmPlaces'
    <3>1. CalmPlaces
      BY DEF Calm
    <3>2. QED
      BY <1>1, <2>1, <2>5, <3>1, Roomy, HandsStep, HandsPlaces, SamePlaces
  <2>7. FromQueues
    <3>1. OneHolder /\ \A d \in CPUs, p \in Procs : Holds(d, p) => p <= i
      BY DEF Calm, CalmPlaces, Held
    <3>2. QueueType /\ proc \in [CPUs -> Procs \union {NULL}]
      BY <1>1 DEF TypeInv, TypeOK, QueueType
    <3>3. \A d \in CPUs, p \in Procs : RunNext(d) => proc'[d] # p
      BY <2>1, <3>2, FetchNothing, NullIsNoProc DEF RunNext, FetchIdle, FetchNext
    <3>4. QED
      BY <3>1, <3>3 DEF FromQueues
  <2>8. ASSUME NEW d \in CPUs,
               KeepProc(d) \/ StopCPU(d) \/ SkipSlot(d) \/ RunProc(d) \/ EndSlot(d)
        PROVE  dq[d] = Idle
    <3>1. CASE KeepProc(d)
      BY <1>1, <3>1 DEF KeepProc, At, ListSide, RemovesFinished
    <3>2. CASE StopCPU(d) \/ SkipSlot(d)
      <4>1. cpc[d] = "recheck" /\ proc[d] = NULL
        BY <3>2 DEF StopCPU, MayStop, SkipSlot, At
      <4>2. ~InCall(d)
        BY <4>1, InCallActive, KillallAssumption, NullIsNoProc
      <4>3. QED
        BY <4>1, <4>2 DEF Calm, KillallRemoves
    <3>3. CASE EndSlot(d)
      <4>1. cpc[d] = "end_slot"
        BY <3>3 DEF EndSlot, At
      <4>2. ~InCall(d)
        BY <4>1 DEF InCall, AtRun, At
      <4>3. QED
        BY <4>1, <4>2 DEF Calm, KillallRemoves
    <3>4. CASE RunProc(d)
      <4>1. cpc[d] = "recheck" /\ cpc'[d] = "end_slot"
        BY <1>1, <3>4 DEF RunProc, At, Goto, TypeInv, TypeOK
      <4>2. ~InCall(d)
        BY <2>3, <4>1 DEF AtRun, At
      <4>3. QED
        BY <4>1, <4>2 DEF Calm, KillallRemoves
    <3>5. QED
      BY <2>8, <3>1, <3>2, <3>3, <3>4
  <2>9. /\ ListSide'
        /\ \A d \in CPUs : cpc'[d] # "check" /\ dq'[d] # Idle =>
             cpc[d] # "check" /\ dq[d] # Idle
    BY <1>1, <2>7, <2>8, Roomy, ListSideStep
  <2>10. KillallRemoves'
    BY <1>1, <2>3, <2>9 DEF Calm, KillallRemoves
  <2>11. QED
    BY <2>5, <2>6, <2>9, <2>10 DEF Calm
<1>4. QED
  BY <1>2, <1>3

(* Steps that take no lock: nobody's place changes, only positions in the  *)
(* call.                                                                   *)
LEMMA CalmReadPc ==
  ASSUME KTypes, Calm, NEW c \in CPUs, ReadPc(c)
  PROVE  Calm'
<1>1. UNCHANGED <<mlq_ready_queue, cpc, proc, phase, i, freed, pc, size, call, running_list,
                  dq, raced>>
  BY DEF ReadPc, rlVars, vars, mlqVars, cpuVars, procVars, ldVars, config, listVars
<1>2. \A d \in CPUs : InCall(d)' <=> InCall(d)
  BY <1>1 DEF InCall, AtRun, At
<1>3. Caller' = Caller
  BY <1>2 DEF Caller
<1>4. /\ \A p \in Procs : (Waiting(p)' <=> Waiting(p)) /\ (Victim(p)' <=> Victim(p))
      /\ Apart' /\ RemovalInv'
  BY <1>1, <1>3, SameQueues DEF Calm, CalmPlaces
<1>5. CalmPlaces'
  BY <1>1, <1>4, SamePlaces DEF Calm, Holds
<1>6. ListSide'
  BY <1>1, ListSideKept DEF Calm, HasFinished, KTypes, ListTypes
<1>7. KillallRemoves'
  BY <1>1, <1>2 DEF Calm, KillallRemoves
<1>8. QED
  BY <1>4, <1>5, <1>6, <1>7 DEF Calm

(* A CPU leaves run(), or goes on in it with another call.                 *)
LEMMA CalmRunEnd ==
  ASSUME KTypes, KillerOnce, KillerOnce', RunInv, Calm, NEW c \in CPUs,
         UNCHANGED <<mlq_ready_queue, i, freed, running_list, dq, raced, proc, phase, size>>,
         cpc[c] = "recheck", dq[c] = Idle,
         NEW l \in {"recheck", "end_slot"}, cpc' = [cpc EXCEPT ![c] = l],
         \A p \in Procs : p = proc[c] \/ pc'[p] = pc[p],
         \/ UNCHANGED call
         \/ call.at # "removal" /\ call'.at # "removal"
  PROVE  Calm'
<1>1. cpc \in [CPUs -> {"check", "refetch", "recheck", "end_slot", "stopped"}]
  BY DEF KTypes, TypeInv, TypeOK
<1>2. \A d \in CPUs \ {c} : call.at = "removal" /\ InCall(d) => InCall(d)'
  BY <1>1 DEF InCall, AtRun, At
<1>3. call.at = "removal" => \E d \in CPUs \ {c} : InCall(d) /\ InCall(d)'
  <2>1. SUFFICES ASSUME call.at = "removal"
                 PROVE  \E d \in CPUs \ {c} : InCall(d) /\ InCall(d)'
    OBVIOUS
  <2>2. PICK d \in CPUs : InCall(d)
    BY <2>1 DEF RunInv, Active
  <2>3. Caller = d
    BY <2>2, CallerIs
  <2>4. dq[d].at # "idle"
    BY <2>1, <2>3 DEF Calm, RemovalInv, OnItsWay
  <2>5. d # c
    BY <2>4 DEF Idle
  <2>6. QED
    BY <1>2, <2>1, <2>2, <2>5
<1>4. call.at = "removal" => Caller' = Caller
  BY <1>3, CallerIs, CallerIsPrime
<1>5. /\ \A p \in Procs : (Waiting(p)' <=> Waiting(p)) /\ (Victim(p)' <=> Victim(p))
      /\ Apart' /\ RemovalInv'
  BY <1>4, SameQueues DEF Calm, CalmPlaces
<1>6. \A d \in CPUs, p \in Procs : Holds(d, p)' <=> Holds(d, p)
  BY <1>1 DEF Holds
<1>7. CalmPlaces'
  BY <1>5, <1>6, SamePlaces DEF Calm
<1>8. ListSide'
  BY ListSideMove DEF Calm, CalmPlaces, KTypes
<1>9. \A d \in CPUs : d # c => cpc'[d] = cpc[d]
  BY <1>1
<1>10. KillallRemoves'
  BY <1>2, <1>9 DEF Calm, KillallRemoves
<1>11. QED
  BY <1>5, <1>7, <1>8, <1>10 DEF Calm

LEMMA CalmInstruction ==
  ASSUME KTypes, KillerOnce, KillerOnce', RunInv, Calm, NEW c \in CPUs, Instruction(c)
  PROVE  Calm'
<1>1. /\ UNCHANGED <<mlq_ready_queue, i, freed, running_list, dq, raced, proc, phase, size>>
      /\ AtRun(c) /\ ~InCall(c) /\ seen[c] # NoPc
      /\ \E n \in NextPc(c) : pc' = [pc EXCEPT ![proc[c]] = n]
  BY DEF Instruction, mlqVars, ldVars, listVars, config
<1>2. cpc[c] = "recheck" /\ dq[c] = Idle
  BY <1>1 DEF AtRun, At, Calm, KillallRemoves
<1>3. \A p \in Procs : p = proc[c] \/ pc'[p] = pc[p]
  BY <1>1 DEF KTypes, TypeInv, TypeOK
<1>4. cpc \in [CPUs -> {"check", "refetch", "recheck", "end_slot", "stopped"}]
  BY DEF KTypes, TypeInv, TypeOK
<1>5. CASE IsKillall(c) /\ call' = AtRunning(1) /\ UNCHANGED cpc
  <2>1. call.at # "removal" /\ call'.at # "removal"
    BY <1>1, <1>5 DEF InCall, IsKillall, AtRunning
  <2>2. cpc' = [cpc EXCEPT ![c] = "recheck"]
    BY <1>2, <1>4, <1>5
  <2>3. QED
    BY <1>1, <1>2, <1>3, <2>1, <2>2, CalmRunEnd
<1>6. CASE EndRun(c) /\ UNCHANGED call
  BY <1>1, <1>2, <1>3, <1>6, CalmRunEnd DEF EndRun, Goto
<1>7. QED
  BY <1>5, <1>6 DEF Instruction

LEMMA CalmEndCall ==
  ASSUME KTypes, KillerOnce, KillerOnce', RunInv, Calm, NEW c \in CPUs, EndCall(c)
  PROVE  Calm'
<1>1. /\ UNCHANGED <<mlq_ready_queue, i, freed, running_list, dq, raced, proc, phase, size,
                     pc>>
      /\ InCall(c) /\ call.at = "queue" /\ call' = Returned
      /\ cpc' = [cpc EXCEPT ![c] = "end_slot"]
  BY DEF EndCall, mlqVars, ldVars, listVars, config, procVars, EndRun, Goto
<1>2. cpc[c] = "recheck" /\ dq[c] = Idle /\ call'.at # "removal"
  BY <1>1 DEF InCall, AtRun, At, Calm, KillallRemoves, Returned
<1>3. QED
  BY <1>1, <1>2, CalmRunEnd

------------------------------------------------------------------------------
(* Killall itself.                                                         *)

LEMMA CalmWalkRunning ==
  ASSUME KTypes, Calm, NEW c \in CPUs, WalkRunning(c)
  PROVE  Calm'
<1>1. /\ UNCHANGED <<mlq_ready_queue, i, freed, cpc, proc, running_list, dq, raced, size>>
      /\ call.at = "running" /\ call'.at # "removal"
  BY DEF WalkRunning, mlqVars, cpuVars, ldVars, listVars, config, AtRunning, AtQueue
<1>2. /\ proc \in [CPUs -> Procs \union {NULL}] /\ pc \in [Procs -> Nat]
      /\ dq \in [CPUs -> RemovalTypes]
  BY DEF KTypes, TypeInv, TypeOK, ListTypes
<1>3. /\ \A p \in Procs : (Waiting(p)' <=> Waiting(p)) /\ (Victim(p)' <=> Victim(p))
      /\ Apart' /\ RemovalInv'
  BY <1>1, SameQueues DEF Calm, CalmPlaces
<1>4. CalmPlaces'
  BY <1>1, <1>3, SamePlaces DEF Calm, Holds
<1>5. \A p \in Procs : pc[p] = size[p] => pc'[p] = size[p]
  BY <1>2 DEF WalkRunning, StopAt
<1>6. \A d \in CPUs : proc[d] # NULL /\ HasFinished(d) => HasFinished(d)'
  BY <1>1, <1>2, <1>5 DEF HasFinished
<1>7. ListSide'
  BY <1>1, <1>2, <1>6, ListSideKept DEF Calm
<1>8. KillallRemoves'
  BY <1>1 DEF Calm, KillallRemoves
<1>9. QED
  BY <1>3, <1>4, <1>7, <1>8 DEF Calm

(* The other steps of the call leave running_list, the CPUs and pc alone.  *)
LEMMA CallKeepsList ==
  ASSUME KTypes, KTypes', KillerOnce, Calm, NEW c \in CPUs,
         WalkQueue(c) \/ StepKillRemoval(c) \/ FreeVictim(c)
  PROVE  /\ ListSide'
         /\ \A d \in CPUs : d # c => dq'[d] = dq[d]
         /\ dq'[c] = Idle \/ call'.at = "removal" => KillallRemoves'
<1>1. /\ UNCHANGED <<running_list, raced, cpc, proc, size, pc, phase>>
      /\ InCall(c) /\ cpc[c] = "recheck"
      /\ \A d \in CPUs : InCall(d)' <=> InCall(d)
  BY InsideKeeps, InCallActive
     DEF InsideStep, WalkQueue, StepKillRemoval, FreeVictim, vars, cpuVars, procVars, config,
         AtRun, At
<1>2. dq \in [CPUs -> RemovalTypes] /\ dq' \in [CPUs -> RemovalTypes]
  BY DEF KTypes, ListTypes
<1>3. \A d \in CPUs : d # c => dq'[d] = dq[d]
  BY <1>2 DEF WalkQueue, StepKillRemoval, FreeVictim
<1>4. ListSide'
  BY <1>1, <1>2, <1>3, ListSideKept DEF Calm, HasFinished
<1>5. ASSUME dq'[c] = Idle \/ call'.at = "removal" PROVE KillallRemoves'
  <2> SUFFICES ASSUME NEW d \in CPUs, cpc'[d] # "check", dq'[d] # Idle
               PROVE  InCall(d)' /\ call'.at = "removal"
    BY DEF KillallRemoves
  <2>1. InCall(d) /\ InCall(d)'
    BY <1>1, <1>3 DEF Calm, KillallRemoves
  <2>2. d = c
    BY <1>1, <2>1, OneInCall
  <2>3. QED
    BY <1>5, <2>1, <2>2
<1>6. QED
  BY <1>3, <1>4, <1>5

LEMMA CalmWalkQueue ==
  ASSUME KTypes, KTypes', KillerOnce, KillerOnce', Calm, NEW c \in CPUs, WalkQueue(c)
  PROVE  Calm'
<1>1. /\ UNCHANGED <<mlq_ready_queue, i, freed, cpc, proc>>
      /\ InCall(c) /\ InCall(c)' /\ call.at = "queue" /\ call.q \in Prios
      /\ call.k \in Nat \ {0}
  BY InsideKeeps, CallFacts
     DEF InsideStep, WalkQueue, vars, mlqVars, cpuVars, ldVars, procVars, KTypes, CallTypes
<1>2. /\ mlq_ready_queue \in [Prios -> Seq(Procs)] /\ dq \in [CPUs -> RemovalTypes]
  BY DEF KTypes, TypeInv, TypeOK, ListTypes
<1>3. dq[c] = Idle
  BY <1>1 DEF Calm, KillallRemoves, InCall, AtRun, At
<1>4. ListSide' /\ (dq'[c] = Idle \/ call'.at = "removal" => KillallRemoves')
  BY CallKeepsList
<1>5. \A d \in CPUs, p \in Procs : Holds(d, p)' <=> Holds(d, p)
  BY <1>1 DEF Holds
<1>6. CASE call'.at # "removal" /\ UNCHANGED dq
  <2>1. /\ \A p \in Procs : (Waiting(p)' <=> Waiting(p)) /\ (Victim(p)' <=> Victim(p))
        /\ Apart' /\ RemovalInv'
    BY <1>1, <1>6, SameQueues DEF Calm, CalmPlaces
  <2>2. CalmPlaces'
    BY <1>1, <1>5, <2>1, SamePlaces DEF Calm
  <2>3. QED
    BY <1>3, <1>4, <1>6, <2>1, <2>2 DEF Calm
<1>7. CASE /\ call.k <= Len(mlq_ready_queue[call.q])
           /\ call' = AtRemoval(call.q, mlq_ready_queue[call.q][call.k])
           /\ dq' = [dq EXCEPT ![c] = Start]
  <2>0. mlq_ready_queue[call.q][call.k] \in Procs
        /\ call.k \in DOMAIN mlq_ready_queue[call.q]
    BY <1>1, <1>2, <1>7
  <2>1. PICK q0 \in Prios, k0 \in Nat, v \in Procs :
          /\ q0 = call.q /\ k0 = call.k /\ v = mlq_ready_queue[q0][k0]
          /\ k0 \in DOMAIN mlq_ready_queue[q0]
    BY <1>1, <2>0
  <2>2. \A q \in Prios : Live(q) = DOMAIN mlq_ready_queue[q]
    BY <1>1, <1>2, CalmOutside
  <2>3. call'.at = "removal" /\ call'.q = q0 /\ call'.p = v /\ dq'[c] = Start
        /\ Caller' = c
    <3>1. dq'[c] = Start
      BY <1>2, <1>7
    <3>2. call' = AtRemoval(q0, v)
      BY <1>7, <2>1
    <3>3. call'.at = "removal" /\ call'.q = q0 /\ call'.p = v
      BY <3>2 DEF AtRemoval
    <3>4. Caller' = c
      BY <1>1, CallerIsPrime
    <3>5. QED
      BY <3>1, <3>3, <3>4
  <2>4. \A k \in DOMAIN mlq_ready_queue[q0] : mlq_ready_queue[q0][k] = v <=> k = k0
    BY <2>1, <2>2 DEF Calm, CalmPlaces, Apart
  <2>5. Hole(q0)' = k0
    <3>1. HoleAt(mlq_ready_queue[q0], v, Start) = k0
      BY <2>1, <2>4 DEF HoleAt, Start
    <3>2. QED
      BY <1>1, <2>3, <3>1 DEF Hole
  <2>6. \A q \in Prios : q # q0 => Hole(q)' = 0
    BY <2>3 DEF Hole
  <2>7. /\ Live(q0)' = DOMAIN mlq_ready_queue[q0] \ {k0}
        /\ \A q \in Prios : q # q0 => Live(q)' = DOMAIN mlq_ready_queue[q]
    <3>1. \A q \in Prios : 0 \notin DOMAIN mlq_ready_queue[q]
      BY <1>2
    <3>2. QED
      BY <1>1, <2>1, <2>5, <2>6, <3>1 DEF Live
  <2>8. \A q \in Prios : Live(q)' \subseteq Live(q)
    BY <2>2, <2>7
  <2>9. Apart'
    BY <1>1, <2>8 DEF Calm, CalmPlaces, Apart
  <2>10. \A p \in Procs : Waiting(p)' <=> Waiting(p) /\ p # v
    <3>1. ASSUME NEW p \in Procs, Waiting(p)' PROVE Waiting(p) /\ p # v
      <4>0. PICK q \in Prios : \E k \in Live(q)' : mlq_ready_queue[q][k] = p
        BY <1>1, <3>1 DEF Waiting
      <4>1. PICK k \in Live(q)' : mlq_ready_queue[q][k] = p
        BY <4>0
      <4>2. k \in Live(q) /\ (q = q0 => k # k0)
        BY <2>7, <2>8, <4>1
      <4>3. p # v
        BY <2>1, <2>2, <4>1, <4>2 DEF Calm, CalmPlaces, Apart
      <4>4. QED
        BY <4>1, <4>2, <4>3 DEF Waiting
    <3>2. ASSUME NEW p \in Procs, Waiting(p), p # v PROVE Waiting(p)'
      <4>0. PICK q \in Prios : \E k \in Live(q) : mlq_ready_queue[q][k] = p
        BY <3>2 DEF Waiting
      <4>1. PICK k \in Live(q) : mlq_ready_queue[q][k] = p
        BY <4>0
      <4>2. k \in Live(q)'
        BY <2>1, <2>2, <2>7, <3>2, <4>1
      <4>3. QED
        BY <1>1, <4>1, <4>2 DEF Waiting
    <3>3. QED
      BY <3>1, <3>2
  <2>11. /\ Waiting(v)
         /\ \A p \in Procs : ~Victim(p) /\ (Victim(p)' <=> p = v)
         /\ \A p \in Procs : Held(p)' <=> Held(p)
    <3>1. Waiting(v)
      BY <2>1, <2>2 DEF Waiting
    <3>2. \A p \in Procs : ~Victim(p) /\ (Victim(p)' <=> p = v)
      BY <1>1, <2>3 DEF Victim
    <3>3. QED
      BY <1>5, <3>1, <3>2 DEF Held
  <2>12. OneHolder'
    BY <1>5 DEF Calm, CalmPlaces, OneHolder
  <2>13. CalmPlaces'
    BY <1>1, <2>1, <2>9, <2>10, <2>11, <2>12 DEF Calm, CalmPlaces
  <2>14. RemovalInv'
    <3>1. \A k \in DOMAIN mlq_ready_queue[q0] : ~(k < 1)
      BY <1>2, <2>1
    <3>2. \E k \in DOMAIN mlq_ready_queue[q0] : mlq_ready_queue[q0][k] = v
      BY <2>1
    <3>3. QED
      BY <1>1, <2>3, <3>1, <3>2 DEF RemovalInv, OnItsWay, Start
  <2>15. QED
    BY <1>4, <2>3, <2>13, <2>14 DEF Calm
<1>8. QED
  BY <1>6, <1>7 DEF WalkQueue, AtQueue

(* free(curr_proc_rdq): the victim was in no queue and on no CPU.          *)
LEMMA CalmFreeVictim ==
  ASSUME KTypes, KTypes', KillerOnce, Calm, NEW c \in CPUs, FreeVictim(c)
  PROVE  Calm'
<1>1. /\ UNCHANGED <<mlq_ready_queue, i, cpc, proc>>
      /\ InCall(c) /\ call.at = "removal" /\ dq[c] = Done /\ call.p \in Procs
      /\ freed' = freed \union {call.p} /\ call'.at = "queue" /\ dq'[c] = Idle
      /\ dq \in [CPUs -> RemovalTypes]
      /\ mlq_ready_queue \in [Prios -> Seq(Procs)]
  BY CallFacts
     DEF FreeVictim, mlqVars, cpuVars, ldVars, AfterVictim, AtQueue, KTypes, CallTypes,
         ListTypes, TypeInv, TypeOK
<1>2. Caller = c
  BY <1>1, CallerIs
<1>3. \A q \in Prios : Live(q)' = Live(q)
  <2>1. \A q \in Prios : Hole(q) = 0 /\ Hole(q)' = 0
    BY <1>1, <1>2 DEF Hole, HoleAt, Done
  <2>2. QED
    BY <1>1, <2>1 DEF Live
<1>4. \A p \in Procs : /\ Waiting(p)' <=> Waiting(p)
                       /\ Held(p)' <=> Held(p)
                       /\ Victim(p) <=> p = call.p
                       /\ ~Victim(p)'
  BY <1>1, <1>3 DEF Waiting, Held, Holds, Victim
<1>5. Apart' /\ OneHolder'
  BY <1>1, <1>3 DEF Calm, CalmPlaces, Apart, OneHolder, Holds
<1>6. CalmPlaces'
  BY <1>1, <1>4, <1>5 DEF Calm, CalmPlaces
<1>7. ListSide' /\ KillallRemoves'
  BY <1>1, CallKeepsList
<1>8. QED
  BY <1>1, <1>6, <1>7 DEF Calm, RemovalInv


(* A step of the removal from a queue: the entries that count stay.        *)
Advances(L, h, L2, h2) ==
  /\ \A k \in DOMAIN L2 \ {h2} : \E j \in DOMAIN L \ {h} : L2[k] = L[j]
  /\ \A j \in DOMAIN L \ {h} : \E k \in DOMAIN L2 \ {h2} : L2[k] = L[j]
  /\ \A j, k \in DOMAIN L2 \ {h2} : L2[j] = L2[k] => j = k

LEMMA RemovalAdvances ==
  ASSUME NEW L \in Seq(Procs), NEW d \in RemovalTypes, NEW p \in Procs,
         OnItsWay(L, p, d), d.at # "done",
         NEW h, h = HoleAt(L, p, d),
         \A j, k \in DOMAIN L \ {h} : L[j] = L[k] => j = k,
         \A k \in DOMAIN L \ {h} : L[k] # p
  PROVE  /\ Advances(L, h, NextList(L, d),
                     HoleAt(NextList(L, d), p, NextPosition(L, p, d)))
         /\ OnItsWay(NextList(L, d), p, NextPosition(L, p, d))
<1>1. /\ DOMAIN L = 1..Len(L) /\ Len(L) \in Nat /\ d.k \in Nat \ {0}
      /\ d.at \in {"find", "shift", "clear"}
  BY DEF OnItsWay, RemovalTypes
<1>2. d.at = "find" => /\ h \in DOMAIN L /\ L[h] = p
                       /\ \A k \in DOMAIN L : L[k] = p <=> k = h
  <2>1. d.at = "find" => h \in DOMAIN L /\ L[h] = p
    BY DEF OnItsWay, HoleAt
  <2>2. QED
    BY <2>1
<1>3. d.at \in {"shift", "clear"} => h = d.k /\ h \in DOMAIN L
  BY <1>1 DEF OnItsWay, HoleAt
<1>4. CASE Searching(L, p, d)
  <2>1. NextPosition(L, p, d) = [at |-> "find", k |-> d.k + 1] /\ NextList(L, d) = L
    BY <1>4, RemovalSteps
  <2>2. HoleAt(L, p, [at |-> "find", k |-> d.k + 1]) = h
    BY <1>4 DEF HoleAt, Searching
  <2>3. \A k \in DOMAIN L : k < d.k + 1 => L[k] # p
    BY <1>1, <1>4 DEF Searching, OnItsWay
  <2>4. OnItsWay(L, p, [at |-> "find", k |-> d.k + 1])
    BY <1>2, <1>4, <2>3 DEF OnItsWay, Searching
  <2>5. QED
    BY <2>1, <2>2, <2>4 DEF Advances
<1>5. CASE d.at = "find" /\ d.k > Len(L)
  <2>1. h < d.k
    BY <1>1, <1>2, <1>5
  <2>2. QED
    BY <1>2, <1>5, <2>1 DEF OnItsWay
<1>6. CASE Found(L, p, d)
  <2>1. NextPosition(L, p, d) = [at |-> "shift", k |-> d.k] /\ NextList(L, d) = L
    BY <1>6, RemovalSteps
  <2>2. d.k = h
    BY <1>1, <1>2, <1>6 DEF Found
  <2>3. HoleAt(L, p, [at |-> "shift", k |-> d.k]) = h
    BY <2>2 DEF HoleAt
  <2>4. OnItsWay(L, p, [at |-> "shift", k |-> d.k])
    BY <1>2, <1>6, <2>2 DEF OnItsWay, Found
  <2>5. QED
    BY <2>1, <2>3, <2>4 DEF Advances
<1>7. CASE Shifting(L, d)
  <2>1. /\ NextPosition(L, p, d) = [at |-> "shift", k |-> h + 1]
        /\ NextList(L, d) = [L EXCEPT ![h] = L[h + 1]]
        /\ h \in 1..Len(L) /\ h < Len(L)
    BY <1>1, <1>3, <1>7, RemovalSteps DEF Shifting
  <2> DEFINE M == [L EXCEPT ![h] = L[h + 1]]
             g(j) == IF j = h THEN h + 1 ELSE j
  <2>2. /\ DOMAIN M = 1..Len(L) /\ Len(M) = Len(L)
        /\ \A j \in 1..Len(L) : M[j] = L[g(j)]
    BY <1>1, <2>1
  <2>3. HoleAt(M, p, [at |-> "shift", k |-> h + 1]) = h + 1
    BY DEF HoleAt
  <2>4. OnItsWay(M, p, [at |-> "shift", k |-> h + 1])
    BY <2>1, <2>2 DEF OnItsWay
  <2> HIDE DEF M
  <2>5. /\ \A j \in 1..Len(L) : j # h + 1 => g(j) \in (1..Len(L)) \ {h}
        /\ \A j \in (1..Len(L)) \ {h} :
             \E k \in (1..Len(L)) \ {h + 1} : g(k) = j
        /\ \A j, k \in (1..Len(L)) \ {h + 1} : g(j) = g(k) => j = k
    <3>1. \A j \in 1..Len(L) : j # h + 1 => g(j) \in (1..Len(L)) \ {h}
      BY <1>1, <2>1
    <3>2. \A j, k \in (1..Len(L)) \ {h + 1} : g(j) = g(k) => j = k
      BY <1>1, <2>1
    <3>3. ASSUME NEW j \in (1..Len(L)) \ {h}
          PROVE  \E k \in (1..Len(L)) \ {h + 1} : g(k) = j
      <4>1. CASE j = h + 1
        BY <1>1, <2>1, <4>1
      <4>2. CASE j # h + 1
        BY <1>1, <2>1, <4>2
      <4>3. QED
        BY <4>1, <4>2
    <3>4. QED
      BY <3>1, <3>2, <3>3
  <2> HIDE DEF g
  <2>6. Advances(L, h, M, h + 1)
    BY <1>1, <2>2, <2>5 DEF Advances
  <2>7. QED
    BY <2>1, <2>3, <2>4, <2>6 DEF M
<1>8. CASE d.at = "shift" /\ d.k >= Len(L)
  <2>1. NextPosition(L, p, d) = [at |-> "clear", k |-> d.k] /\ NextList(L, d) = L
    BY <1>8, RemovalSteps
  <2>2. HoleAt(L, p, [at |-> "clear", k |-> d.k]) = h /\ d.k = Len(L)
    BY <1>1, <1>3, <1>8 DEF HoleAt
  <2>3. OnItsWay(L, p, [at |-> "clear", k |-> d.k])
    BY <1>3, <1>8, <2>2 DEF OnItsWay
  <2>4. QED
    BY <2>1, <2>2, <2>3 DEF Advances
<1>9. CASE d.at = "clear"
  <2> DEFINE M == SubSeq(L, 1, Len(L) - 1)
  <2>1. NextPosition(L, p, d) = Done /\ NextList(L, d) = M
    BY <1>9, RemovalSteps
  <2>2. h = Len(L) /\ h \in 1..Len(L)
    BY <1>1, <1>3, <1>9 DEF OnItsWay
  <2>3. DOMAIN M = 1..(Len(L) - 1) /\ \A j \in 1..(Len(L) - 1) : M[j] = L[j]
    BY <1>1, <2>2
  <2>4. HoleAt(M, p, Done) = 0 /\ OnItsWay(M, p, Done)
    BY DEF HoleAt, Done, OnItsWay
  <2> HIDE DEF M
  <2>5. (1..(Len(L) - 1)) \ {0} = (1..Len(L)) \ {h}
    BY <1>1, <2>2
  <2>6. \A j \in (1..(Len(L) - 1)) \ {0} : M[j] = L[j]
    BY <2>3
  <2>7. Advances(L, h, M, 0)
    BY <1>1, <2>3, <2>5, <2>6 DEF Advances
  <2>8. QED
    BY <2>1, <2>4, <2>7
<1>10. QED
  BY <1>1, <1>4, <1>5, <1>6, <1>7, <1>8, <1>9 DEF Searching, Found, Shifting

LEMMA CalmStepRemoval ==
  ASSUME KTypes, KTypes', KillerOnce, KillerOnce', Calm, NEW c \in CPUs, StepKillRemoval(c)
  PROVE  Calm'
<1>1. /\ UNCHANGED <<i, freed, cpc, proc, call>>
      /\ InCall(c) /\ InCall(c)' /\ call.at = "removal"
      /\ call.q \in Prios /\ call.p \in Procs
      /\ mlq_ready_queue \in [Prios -> Seq(Procs)] /\ dq \in [CPUs -> RemovalTypes]
  BY InsideKeeps, CallFacts
     DEF InsideStep, StepKillRemoval, cpuVars, ldVars, procVars, callVars, KTypes, CallTypes,
         TypeInv, TypeOK, ListTypes
<1>2. Caller = c /\ Caller' = c
  BY <1>1, CallerIs, CallerIsPrime
<1>3. PICK Q \in Prios, v \in Procs, L \in Seq(Procs), d \in RemovalTypes :
        Q = call.q /\ v = call.p /\ L = mlq_ready_queue[Q] /\ d = dq[c]
  BY <1>1
<1>4. PICK L2, d2 : L2 = NextList(L, d) /\ d2 = NextPosition(L, v, d)
  OBVIOUS
<1>5. /\ mlq_ready_queue' = [mlq_ready_queue EXCEPT ![Q] = L2]
      /\ dq' = [dq EXCEPT ![c] = d2]
      /\ d.at \in {"find", "shift", "clear"}
  BY <1>3, <1>4 DEF StepKillRemoval, Removing
<1>6. /\ mlq_ready_queue'[Q] = L2 /\ dq'[c] = d2
      /\ \A q \in Prios : q # Q => mlq_ready_queue'[q] = mlq_ready_queue[q]
  BY <1>1, <1>5
<1>7. PICK h, h2 : h = HoleAt(L, v, d) /\ h2 = HoleAt(L2, v, d2)
  OBVIOUS
<1>8. Hole(Q) = h /\ Hole(Q)' = h2
  BY <1>1, <1>2, <1>3, <1>6, <1>7 DEF Hole
<1>9. /\ Live(Q) = DOMAIN L \ {h} /\ Live(Q)' = DOMAIN L2 \ {h2}
      /\ \A q \in Prios : q # Q => Live(q)' = Live(q)
  <2>1. \A q \in Prios : q # Q => Hole(q)' = Hole(q)
    BY <1>1, <1>3 DEF Hole
  <2>2. QED
    BY <1>3, <1>6, <1>8, <2>1 DEF Live
<1>10. Victim(v) /\ ~Waiting(v)
  BY <1>1, <1>3 DEF Victim, Calm, CalmPlaces
<1>11. /\ \A j, k \in DOMAIN L \ {h} : L[j] = L[k] => j = k
       /\ \A k \in DOMAIN L \ {h} : L[k] # v
  BY <1>3, <1>9, <1>10 DEF Calm, CalmPlaces, Apart, Waiting
<1>12. OnItsWay(L, v, d)
  BY <1>1, <1>2, <1>3 DEF Calm, RemovalInv
<1>13. d.at # "done"
  BY <1>5
<1>14. Advances(L, h, L2, h2) /\ OnItsWay(L2, v, d2)
  BY <1>4, <1>7, <1>11, <1>12, <1>13, RemovalAdvances
<1>15. RemovalInv'
  BY <1>1, <1>2, <1>3, <1>6, <1>14 DEF RemovalInv
<1>16. \A p \in Procs : (Waiting(p)' <=> Waiting(p)) /\ (Victim(p)' <=> Victim(p))
  <2>1. ASSUME NEW p \in Procs PROVE Waiting(p)' <=> Waiting(p)
    <3>1. (\E k \in DOMAIN L2 \ {h2} : L2[k] = p) <=> \E k \in DOMAIN L \ {h} : L[k] = p
      BY <1>14 DEF Advances
    <3>2. \A q \in Prios :
            (\E k \in Live(q)' : mlq_ready_queue'[q][k] = p)
              <=> \E k \in Live(q) : mlq_ready_queue[q][k] = p
      BY <1>3, <1>6, <1>9, <3>1
    <3>3. QED
      BY <3>2 DEF Waiting
  <2>2. QED
    BY <1>1, <2>1 DEF Victim
<1>17. \A q \in Prios : \A k \in Live(q)' :
         \E j \in Live(q) : mlq_ready_queue'[q][k] = mlq_ready_queue[q][j]
  BY <1>3, <1>6, <1>9, <1>14 DEF Advances
<1>18. \A q \in Prios : \A j, k \in Live(q)' :
         mlq_ready_queue'[q][j] = mlq_ready_queue'[q][k] => j = k
  BY <1>3, <1>6, <1>9, <1>14 DEF Advances, Calm, CalmPlaces, Apart
<1>19. Apart'
  BY <1>17, <1>18 DEF Apart, Calm, CalmPlaces
<1>20. CalmPlaces'
  BY <1>1, <1>16, <1>19, SamePlaces DEF Calm, Holds
<1>21. ListSide' /\ KillallRemoves'
  BY <1>1, CallKeepsList
<1>22. QED
  BY <1>15, <1>20, <1>21 DEF Calm

------------------------------------------------------------------------------
(* What holds until the queues are disturbed.                              *)

LEMMA CalmInit == KInit => Calm
<1> SUFFICES ASSUME KInit PROVE Calm
  OBVIOUS
<1>1. RLInit /\ Init /\ call.at # "removal"
  BY ListInitIsKernelInit DEF KInit, NotCalled
<1>2. PlaceInv /\ NoProcessLost /\ ListInv /\ TypeInv
  BY <1>1, PlaceInit, KeptInit, ListInvInit, TypeInit
<1>3. CalmPlaces
  BY <1>1, <1>2, CalmOutside DEF TypeInv, TypeOK
<1>4. QED
  BY <1>1, <1>2, <1>3 DEF Calm, RemovalInv, KillallRemoves, ListInv

LEMMA CalmStep ==
  ASSUME Roomy, KTypes, KTypes', KillerOnce, KillerOnce', RunInv, CalmInv, [KNext]_kVars
  PROVE  CalmInv'
<1> SUFFICES ASSUME ~disturbed' PROVE Calm'
  BY DEF CalmInv
<1>1. disturbed \in BOOLEAN
  BY DEF KTypes, CallTypes
<1>2. CASE KernelStep
  <2>1. ~disturbed
    BY <1>1, <1>2 DEF KernelStep, UseQueues
  <2>2. QED
    BY <1>2, <2>1, CalmKernelStep DEF CalmInv
<1>3. ASSUME NEW c \in CPUs, ReadPc(c) PROVE Calm'
  <2>1. ~disturbed
    BY <1>3 DEF ReadPc, history
  <2>2. QED
    BY <1>3, <2>1, CalmReadPc DEF CalmInv
<1>4. ASSUME NEW c \in CPUs, Instruction(c) PROVE Calm'
  <2>1. ~disturbed
    BY <1>4 DEF Instruction
  <2>2. QED
    BY <1>4, <2>1, CalmInstruction DEF CalmInv
<1>5. ASSUME NEW c \in CPUs, InsideStep(c) PROVE Calm'
  <2>1. ~disturbed
    BY <1>5, InsideKeeps
  <2>2. QED
    BY <1>5, <2>1, CalmWalkRunning, CalmWalkQueue, CalmStepRemoval, CalmFreeVictim
       DEF CalmInv, InsideStep
<1>6. ASSUME NEW c \in CPUs, EndCall(c) PROVE Calm'
  <2>1. ~disturbed
    BY <1>6 DEF EndCall, history
  <2>2. QED
    BY <1>6, <2>1, CalmEndCall DEF CalmInv
<1>7. QED
  BY <1>2, <1>3, <1>4, <1>5, <1>6, KernelSteps DEF KillallStep, InsideStep

(* Between two removals, the places are those of Kernel.                   *)
LEMMA CalmSettled ==
  ASSUME KTypes, KillerOnce, RunInv, Calm, Settled
  PROVE  AtMostOnePlace /\ NoProcessLost
<1>1. call.at # "removal"
  <2> SUFFICES ASSUME call.at = "removal" PROVE FALSE
    OBVIOUS
  <2>1. PICK c \in CPUs : InCall(c)
    BY DEF RunInv, Active
  <2>2. Caller = c
    BY <2>1, CallerIs
  <2>3. QED
    BY <2>2 DEF Calm, RemovalInv, OnItsWay, Settled, Idle
<1>2. PlaceInv /\ NoProcessLost
  BY <1>1, CalmOutside DEF KTypes, TypeInv, TypeOK, Calm
<1>3. QED
  BY <1>2, PlaceInvImplies

KInv == KTypes /\ KillerOnce /\ RunInv /\ StopInv /\ CalmInv

LEMMA KInvInit == KInit => KInv
BY KTypesInit, KillerInit, RunInvInit, StopInvInit, CalmInit DEF KInv, CalmInv

LEMMA KInvStep == Roomy /\ KInv /\ [KNext]_kVars => KInv'
<1> SUFFICES ASSUME Roomy, KInv, [KNext]_kVars PROVE KInv'
  OBVIOUS
<1>1. KTypes' /\ KillerOnce' /\ RunInv' /\ StopInv'
  BY KTypesStep, KillerStep, RunInvStep, StopInvStep DEF KInv
<1>2. CalmInv'
  BY <1>1, CalmStep DEF KInv
<1>3. QED
  BY <1>1, <1>2 DEF KInv

(* sys_killall.c with os.c and sched.c, on any number of CPUs: however its *)
(* walks and removals interleave with the CPUs and the loader, between two *)
(* removals every process that is loaded and not freed is in one queue or  *)
(* on one CPU, and none whose pcb is freed is, until a thread uses the     *)
(* ready queues between killall's finding a victim and the free of it.     *)
THEOREM KillallSound ==
  ASSUME Roomy
  PROVE  KSpec => []SoundUnlessDisturbed
<1>1. KInv /\ [KNext]_kVars => KInv'
  BY Roomy, KInvStep
<1>2. KInv => SoundUnlessDisturbed
  BY CalmSettled DEF KInv, CalmInv, SoundUnlessDisturbed
<1>3. QED
  BY KInvInit, <1>1, <1>2, PTL DEF KSpec

(* The list killall goes through stays exact as long, and as long as no    *)
(* two CPUs use it together: killall itself, which removes from the ready  *)
(* queues and sets pc, does not harm it.                                   *)
THEOREM KillallListExact ==
  ASSUME Roomy
  PROVE  KSpec => []ListExactUnlessDisturbed
<1>1. KInv /\ [KNext]_kVars => KInv'
  BY Roomy, KInvStep
<1>2. KInv => ListExactUnlessDisturbed
  BY ListStateExact
     DEF KInv, CalmInv, Calm, ListSide, ListTypes, ListExactUnlessDisturbed, ExactUnlessRaced
<1>3. QED
  BY KInvInit, <1>1, <1>2, PTL DEF KSpec

(* A step that runs an instruction runs that of a CPU's process, and that  *)
(* one was not hit.                                                        *)
LEMMA KilledStays ==
  ASSUME KInv, [KNext]_kVars, ~disturbed
  PROVE  \A p \in killed \ midway : steps'[p] = steps[p]
<1>1. killed \subseteq Procs /\ steps \in [Procs -> Nat]
      /\ proc \in [CPUs -> Procs \union {NULL}]
  BY DEF KInv, KTypes, TypeInv, TypeOK, CallTypes
<1>2. CASE KernelStep
  BY <1>2 DEF KernelStep, UseQueues
<1>3. ASSUME NEW c \in CPUs, ReadPc(c) \/ KillallStep(c)
      PROVE  UNCHANGED steps
  BY <1>3, InsideKeeps DEF ReadPc, KillallStep, InsideStep, EndCall, history
<1>4. ASSUME NEW c \in CPUs, Instruction(c), NEW p \in killed \ midway
      PROVE  steps'[p] = steps[p]
  <2>1. /\ AtRun(c) /\ seen[c] # NoPc /\ ~InCall(c) /\ proc[c] \in Procs
        /\ steps' = [steps EXCEPT ![proc[c]] = @ + 1]
    BY <1>1, <1>4 DEF Instruction, AtRun
  <2>2. proc[c] \notin freed
    <3>1. Held(proc[c])
      BY <2>1 DEF AtRun, At, Held, Holds
    <3>2. QED
      BY <2>1, <3>1 DEF KInv, CalmInv, Calm, CalmPlaces
  <2>3. proc[c] # p
    BY <2>1, <2>2, <1>4 DEF KInv, StopInv
  <2>4. QED
    BY <1>1, <2>1, <2>3
<1>5. QED
  BY <1>2, <1>3, <1>4, KernelSteps DEF KInv

(* sys_killall.c:46 and :66, cpu.c: a process that killall has stopped or  *)
(* freed runs no instruction any more, with the two exceptions: its CPU    *)
(* was inside run(), or the ready queues were used during a removal.       *)
THEOREM KilledStaysKilled ==
  ASSUME Roomy
  PROVE  KSpec => KilledRunNoMore
<1>1. KInv /\ [KNext]_kVars => KInv'
  BY Roomy, KInvStep
<1>2. KInv /\ [KNext]_kVars =>
        [~disturbed => \A p \in killed \ midway : steps'[p] = steps[p]]_kVars
  BY KilledStays
<1>3. QED
  BY KInvInit, <1>1, <1>2, PTL DEF KSpec, KilledRunNoMore

------------------------------------------------------------------------------
(* Who ends early.                                                         *)

(* Killall hits only processes with the name.                              *)
NamedInv == killed \subseteq named /\ (call.at = "removal" => call.p \in named)

(* The instructions that a process has run, as long as it is not hit, are  *)
(* those before its pc, and a CPU that is to run one has the right pc.     *)
CountInv ==
  /\ \A p \in Procs \ killed : steps[p] = pc[p]
  /\ \A p \in freed \ killed : pc[p] = size[p]
  /\ \A c \in CPUs : seen[c] # NoPc /\ proc[c] \notin killed /\ ~InCall(c) =>
       seen[c] = pc[proc[c]] /\ pc[proc[c]] < size[proc[c]]

LEMMA EarlyInit == KInit => NamedInv /\ CountInv
BY DEF KInit, RLInit, Init, NamedInv, CountInv, NotCalled

LEMMA NamedStep == KTypes /\ NamedInv /\ [KNext]_kVars => NamedInv'
<1> SUFFICES ASSUME KTypes, NamedInv, [KNext]_kVars PROVE NamedInv'
  OBVIOUS
<1>1. CASE KernelStep
  <2>1. UNCHANGED <<named, killed, call>>
    BY <1>1 DEF KernelStep, UseQueues
  <2>2. QED
    BY <2>1 DEF NamedInv
<1>2. ASSUME NEW c \in CPUs, ReadPc(c) \/ Instruction(c) PROVE NamedInv'
  <2>1. UNCHANGED <<named, killed>> /\ (UNCHANGED call \/ call' = AtRunning(1))
    BY <1>2 DEF ReadPc, Instruction, history
  <2>2. QED
    BY <2>1 DEF NamedInv, AtRunning
<1>3. ASSUME NEW c \in CPUs, KillallStep(c) PROVE NamedInv'
  <2>1. named' = named
    BY <1>3, InsideKeeps DEF KillallStep, InsideStep, EndCall
  <2>2. CASE WalkRunning(c)
    BY <2>1, <2>2 DEF WalkRunning, NamedInv, HasName, AtRunning, AtQueue
  <2>3. CASE WalkQueue(c)
    <3>1. UNCHANGED killed
      BY <2>3 DEF WalkQueue, history
    <3>2. CASE call'.at = "queue"
      BY <2>1, <3>1, <3>2 DEF NamedInv
    <3>3. CASE /\ HasName(mlq_ready_queue[call.q][call.k])
               /\ call' = AtRemoval(call.q, mlq_ready_queue[call.q][call.k])
      BY <2>1, <3>1, <3>3 DEF NamedInv, HasName, AtRemoval
    <3>4. QED
      BY <2>3, <3>2, <3>3 DEF WalkQueue, AtQueue
  <2>4. CASE StepKillRemoval(c)
    BY <2>1, <2>4 DEF StepKillRemoval, NamedInv, callVars, history
  <2>5. CASE FreeVictim(c)
    BY <2>1, <2>5 DEF FreeVictim, NamedInv, AfterVictim, AtQueue
  <2>6. CASE EndCall(c)
    BY <2>1, <2>6 DEF EndCall, NamedInv, Returned, history
  <2>7. QED
    BY <1>3, <2>2, <2>3, <2>4, <2>5, <2>6 DEF KillallStep
<1>4. QED
  BY <1>1, <1>2, <1>3, KernelSteps

(* os.c:64: only a process at the end of its program is freed by its CPU.  *)
LEMMA FreedFinished ==
  ASSUME TypeInv, [RLNext]_rlVars
  PROVE  \A p \in freed' : p \in freed \/ pc[p] = size[p]
<1>1. [Next]_vars
  BY ListStepIsKernelStep
<1>2. ASSUME NEW c \in CPUs, CPU(c)
      PROVE  \A p \in freed' : p \in freed \/ pc[p] = size[p]
  BY <1>2 DEF CPU, FetchIdle, FinishProc, HasFinished, PutProc, KeepProc, FetchNext,
              StopCPU, SkipSlot, RunProc, EndSlot, procVars
<1>3. CASE Loader
  BY <1>3 DEF Loader, AwaitStart, AddProc, LoaderEndSlot, SetDone, DetachLoader, procVars
<1>4. QED
  BY <1>1, <1>2, <1>3 DEF Next, NewSlot, Finished, vars, procVars

(* No two CPUs have one process in hand: enough to keep the count.         *)
LEMMA CountStep ==
  ASSUME KTypes, KillerOnce, RunInv, OneHolder, CountInv, [KNext]_kVars
  PROVE  CountInv'
<1>1. /\ seen \in [CPUs -> Nat \union {NoPc}] /\ pc \in [Procs -> Nat]
      /\ steps \in [Procs -> Nat] /\ killed \subseteq Procs /\ freed \subseteq Procs
      /\ proc \in [CPUs -> Procs \union {NULL}] /\ running_list \in Seq(Procs)
      /\ cpc \in [CPUs -> {"check", "refetch", "recheck", "end_slot", "stopped"}]
      /\ \A p \in Procs : size[p] \in Nat
      /\ call \in Calls
  BY KernelAssumption DEF KTypes, TypeInv, TypeOK, CallTypes, ListTypes
<1>2. \A c, d \in CPUs : seen[c] # NoPc /\ AtRun(d) /\ proc[c] = proc[d] => c = d
  <2>1. \A c \in CPUs : AtRun(c) => proc[c] \in Procs /\ Holds(c, proc[c])
    BY <1>1 DEF AtRun, At, Holds
  <2>2. QED
    BY <2>1 DEF RunInv, OneHolder
<1>3. CASE KernelStep
  <2>1. /\ UNCHANGED <<seen, call, killed, steps, pc>> /\ UNCHANGED size
        /\ \A c \in CPUs : seen[c] # NoPc => AtRun(c) /\ AtRun(c)' /\ proc'[c] = proc[c]
    BY <1>3, FreedGrows DEF KernelStep, UseQueues, RunInv
  <2>2. \A c \in CPUs : seen[c] # NoPc => (InCall(c)' <=> InCall(c))
    BY <2>1 DEF InCall
  <2>3. \A p \in freed' \ killed : pc[p] = size[p]
    BY <1>3, FreedFinished DEF KernelStep, CountInv, KTypes
  <2>4. QED
    BY <2>1, <2>2, <2>3 DEF CountInv
<1>4. ASSUME NEW c \in CPUs, ReadPc(c) PROVE CountInv'
  <2>1. /\ UNCHANGED <<killed, freed, pc, size, steps, proc, phase, cpc, call>>
        /\ seen' = [seen EXCEPT ![c] = pc[proc[c]]]
        /\ pc[proc[c]] < size[proc[c]]
    BY <1>4 DEF ReadPc, rlVars, vars, cpuVars, procVars, config, history
  <2>2. \A d \in CPUs : /\ InCall(d)' <=> InCall(d)
                        /\ d # c => seen'[d] = seen[d]
    BY <1>1, <2>1 DEF InCall, AtRun, At
  <2>3. seen'[c] = pc[proc[c]]
    BY <1>1, <2>1
  <2>4. QED
    BY <2>1, <2>2, <2>3 DEF CountInv
<1>5. ASSUME NEW c \in CPUs, Instruction(c) PROVE CountInv'
  <2>1. /\ UNCHANGED <<killed, freed, size, proc, phase>>
        /\ seen[c] # NoPc /\ ~InCall(c) /\ AtRun(c) /\ proc[c] \in Procs
        /\ steps' = [steps EXCEPT ![proc[c]] = @ + 1]
    BY <1>1, <1>5 DEF Instruction, AtRun, config
  <2>2. PICK n \in NextPc(c) : pc' = [pc EXCEPT ![proc[c]] = n]
    BY <1>5 DEF Instruction
  <2>3. proc[c] \notin killed => n = pc[proc[c]] + 1 /\ pc[proc[c]] < size[proc[c]]
    BY <2>1, <2>2 DEF NextPc, CountInv
  <2>4. \A p \in Procs \ killed : steps'[p] = pc'[p]
    BY <1>1, <2>1, <2>2, <2>3 DEF CountInv
  <2>5. \A p \in freed \ killed : pc'[p] = size[p]
    <3>1. proc[c] \in killed \/ proc[c] \notin freed
      BY <1>1, <2>1, <2>3 DEF CountInv
    <3>2. QED
      BY <1>1, <2>1, <2>2, <3>1 DEF CountInv
  <2>6. ASSUME NEW d \in CPUs, seen'[d] # NoPc, proc[d] \notin killed, ~InCall(d)'
        PROVE  seen'[d] = pc'[proc[d]] /\ pc'[proc[d]] < size[proc[d]]
    <3>1. /\ d # c => cpc'[d] = cpc[d] /\ seen'[d] = seen[d]
          /\ d = c => IsKillall(c) /\ call' = AtRunning(1) /\ UNCHANGED cpc
      <4>1. CASE IsKillall(c) /\ call' = AtRunning(1) /\ UNCHANGED <<cpc, seen>>
        BY <4>1
      <4>2. CASE EndRun(c)
        <5>1. cpc' = [cpc EXCEPT ![c] = "end_slot"] /\ seen' = [seen EXCEPT ![c] = NoPc]
          BY <4>2 DEF EndRun, Goto
        <5>2. QED
          BY <1>1, <2>6, <5>1
      <4>3. QED
        BY <1>5, <4>1, <4>2 DEF Instruction
    <3>2. d # c
      BY <2>1, <2>6, <3>1 DEF InCall, AtRun, At, IsKillall, AtRunning
    <3>3. seen[d] # NoPc /\ proc[d] # proc[c] /\ AtRun(d)
      BY <1>2, <2>1, <2>6, <3>1, <3>2 DEF RunInv
    <3>4. proc[d] \in Procs /\ pc'[proc[d]] = pc[proc[d]]
      BY <1>1, <2>2, <3>3 DEF AtRun
    <3>5. ~InCall(d)
      <4>1. InCall(d) => UNCHANGED call
        BY <1>5, <2>1, <3>3 DEF Instruction, IsKillall, InCall
      <4>2. QED
        BY <2>1, <2>6, <3>1, <3>2, <4>1 DEF InCall, AtRun, At
    <3>6. QED
      BY <2>6, <3>1, <3>2, <3>3, <3>4, <3>5 DEF CountInv
  <2>7. QED
    BY <2>1, <2>4, <2>5, <2>6 DEF CountInv
<1>6. ASSUME NEW c \in CPUs, WalkRunning(c) PROVE CountInv'
  <2>1. /\ UNCHANGED <<freed, size, proc, seen, steps>>
        /\ \A d \in CPUs : InCall(d)' <=> InCall(d)
    BY <1>6, InsideKeeps DEF InsideStep, WalkRunning
  <2>2. killed \subseteq killed' /\ \A p \in Procs \ killed' : pc'[p] = pc[p]
    <3>1. call.at = "running" /\ call.k \in Nat \ {0}
      BY <1>1, <1>6, CallFacts DEF WalkRunning
    <3>2. CASE UNCHANGED <<pc, killed>>
      BY <3>2
    <3>3. CASE /\ call.k <= Len(running_list)
               /\ pc' = [pc EXCEPT ![running_list[call.k]] = StopAt(running_list[call.k])]
               /\ killed' = killed \union {running_list[call.k]}
      BY <1>1, <3>1, <3>3
    <3>4. QED
      BY <1>6, <3>2, <3>3 DEF WalkRunning
  <2>3. \A d \in CPUs : seen[d] # NoPc => proc[d] \in Procs
    BY <1>1 DEF RunInv, AtRun
  <2>4. QED
    BY <1>1, <2>1, <2>2, <2>3 DEF CountInv
<1>7. ASSUME NEW c \in CPUs, WalkQueue(c) \/ StepKillRemoval(c) \/ FreeVictim(c)
      PROVE  CountInv'
  <2>1. /\ UNCHANGED <<pc, size, proc, seen, steps>>
        /\ killed \subseteq killed' /\ freed' \ killed' \subseteq freed
    BY <1>7 DEF WalkQueue, StepKillRemoval, FreeVictim, vars, cpuVars, procVars, config,
                history, callVars
  <2>2. \A d \in CPUs : InCall(d)' <=> InCall(d)
    BY <1>7, InsideKeeps DEF InsideStep
  <2>3. QED
    BY <2>1, <2>2 DEF CountInv
<1>8. ASSUME NEW c \in CPUs, EndCall(c) PROVE CountInv'
  <2>1. /\ UNCHANGED <<pc, size, proc, freed, killed, steps>>
        /\ seen' = [seen EXCEPT ![c] = NoPc] /\ InCall(c)
    BY <1>8 DEF EndCall, EndRun, procVars, config, history
  <2>2. \A d \in CPUs : seen'[d] # NoPc => d # c /\ seen'[d] = seen[d]
    BY <1>1, <2>1
  <2>3. \A d \in CPUs : d # c => ~InCall(d)
    BY <2>1, OneInCall
  <2>4. QED
    BY <2>1, <2>2, <2>3 DEF CountInv
<1>9. QED
  BY <1>3, <1>4, <1>5, <1>6, <1>7, <1>8, KernelSteps DEF KillallStep

LEMMA CountEarly ==
  ASSUME KTypes, CountInv
  PROVE  RunToTheEnd
BY DEF KTypes, TypeInv, TypeOK, CountInv, RunToTheEnd

(* os.c:64, sys_killall.c: with one CPU a process that killall has not hit *)
(* is freed when it has run each instruction of its program, once, in every*)
(* state, whatever the loader does meanwhile.                              *)
THEOREM NamedEndEarlyAlone ==
  ASSUME NEW c, CPUs = {c}
  PROVE  KSpec => []RunToTheEnd
<1> DEFINE Inv == KTypes /\ KillerOnce /\ RunInv /\ CountInv
<1>1. KInit => Inv
  BY KTypesInit, KillerInit, RunInvInit, EarlyInit
<1>2. OneHolder
  BY DEF OneHolder
<1>3. Inv /\ [KNext]_kVars => Inv'
  BY <1>2, KTypesStep, KillerStep, RunInvStep, CountStep
<1>4. Inv => RunToTheEnd
  BY CountEarly
<1>5. QED
  BY <1>1, <1>3, <1>4, PTL DEF KSpec

(* With several CPUs killall hits only processes with the name, and a      *)
(* process it has not hit runs to its end, the latter until a thread uses  *)
(* the ready queues between killall's finding a victim and the free: then  *)
(* two CPUs may come to run one process, and each store the pc the other   *)
(* has stored.                                                             *)
THEOREM NamedEndEarly ==
  ASSUME Roomy
  PROVE  KSpec => []OnlyNamedEndEarly
<1> DEFINE Inv == KInv /\ NamedInv /\ (disturbed \/ CountInv)
<1>1. KInit => Inv
  BY KInvInit, EarlyInit
<1>2. Inv /\ [KNext]_kVars => Inv'
  <2> SUFFICES ASSUME Inv, [KNext]_kVars PROVE Inv'
    OBVIOUS
  <2>1. KInv' /\ NamedInv'
    BY Roomy, KInvStep, NamedStep DEF KInv
  <2>2. disturbed => disturbed'
    <3>1. CASE KernelStep
      BY <3>1 DEF KernelStep, UseQueues
    <3>2. ASSUME NEW c \in CPUs, ReadPc(c) \/ Instruction(c) \/ KillallStep(c)
          PROVE  UNCHANGED disturbed
      BY <3>2, InsideKeeps DEF ReadPc, Instruction, KillallStep, InsideStep, EndCall, history
    <3>3. QED
      BY <3>1, <3>2, KernelSteps DEF KInv
  <2>3. ~disturbed => CountInv'
    BY CountStep DEF KInv, CalmInv, Calm, CalmPlaces
  <2>4. QED
    BY <2>1, <2>2, <2>3
<1>3. Inv => OnlyNamedEndEarly
  BY CountEarly DEF KInv, NamedInv, OnlyNamedEndEarly
<1>4. QED
  BY <1>1, <1>2, <1>3, PTL DEF KSpec

------------------------------------------------------------------------------
(* One CPU, and killall called by the process that is loaded last.         *)

FirstNamed(list, f) ==
  /\ f \in DOMAIN list /\ list[f] \in named
  /\ \A k \in DOMAIN list : k < f => list[k] \notin named

LEMMA NamedIsCut ==
  ASSUME NEW L \in Seq(Procs)
  PROVE  /\ (\A k \in DOMAIN L : L[k] \notin named) => WithoutFirstNamed(L) = L
         /\ \A f \in DOMAIN L : FirstNamed(L, f) => WithoutFirstNamed(L) = Cut(L, f)
<1> DEFINE found == {k \in DOMAIN L : L[k] \in named}
<1>1. CASE \A k \in DOMAIN L : L[k] \notin named
  BY <1>1 DEF WithoutFirstNamed, FirstNamed
<1>2. ASSUME NEW f \in DOMAIN L, FirstNamed(L, f)
      PROVE  WithoutFirstNamed(L) = Cut(L, f)
  <2>1. found \subseteq Nat /\ f \in found /\ \A k \in found : f <= k
    BY <1>2 DEF FirstNamed
  <2>2. (CHOOSE j \in found : \A k \in found : j <= k) = f
    <3> HIDE DEF found
    <3>1. \A j \in found : (\A k \in found : j <= k) => j = f
      BY <2>1
    <3>2. QED
      BY <2>1, <3>1
  <2>3. QED
    BY <2>1, <2>2 DEF WithoutFirstNamed, Cut
<1>3. QED
  BY <1>1, <1>2 DEF FirstNamed

(* The removal of the entry f of L0, in steps: the list L at position d.   *)
PartlyCut(L0, L, f, d) ==
  /\ d.at \in {"find", "shift", "clear", "done"}
  /\ d.at = "find" => L = L0 /\ d.k <= f
  /\ d.at \in {"shift", "clear"} =>
       /\ Len(L) = Len(L0) /\ d.k \in DOMAIN L0 /\ f <= d.k
       /\ \A j \in DOMAIN L0 : L[j] = IF f <= j /\ j < d.k THEN L0[j + 1] ELSE L0[j]
  /\ d.at = "clear" => d.k = Len(L0)
  /\ d.at = "done" => L = Cut(L0, f)

LEMMA PartlyCutStep ==
  ASSUME NEW L0 \in Seq(Procs), NEW L \in Seq(Procs), NEW f, FirstNamed(L0, f),
         NEW d \in RemovalTypes, d.at # "done", PartlyCut(L0, L, f, d)
  PROVE  PartlyCut(L0, NextList(L, d), f, NextPosition(L, L0[f], d))
<1> DEFINE p == L0[f]
<1>1. /\ DOMAIN L0 = 1..Len(L0) /\ Len(L0) \in Nat /\ d.k \in Nat \ {0} /\ f \in DOMAIN L0
      /\ DOMAIN L = 1..Len(L) /\ Len(L) \in Nat
      /\ d.at \in {"find", "shift", "clear"}
  BY DEF PartlyCut, RemovalTypes, FirstNamed
<1>2. d.at \in {"shift", "clear"} => Len(L) = Len(L0)
  BY <1>1 DEF PartlyCut
<1>3. d.at = "find" => L = L0 /\ \A k \in DOMAIN L0 : k < f => L0[k] # p
  BY DEF PartlyCut, FirstNamed
<1> HIDE DEF p
<1>4. CASE Searching(L, p, d)
  <2>1. NextPosition(L, p, d) = [at |-> "find", k |-> d.k + 1] /\ NextList(L, d) = L
    BY <1>4, RemovalSteps
  <2>2. d.k # f /\ d.at = "find"
    BY <1>3, <1>4 DEF Searching, p
  <2>3. PartlyCut(L0, L, f, [at |-> "find", k |-> d.k + 1])
    BY <1>1, <1>3, <2>2 DEF PartlyCut
  <2>4. QED
    BY <2>1, <2>3 DEF p
<1>5. CASE d.at = "find" /\ d.k > Len(L)
  BY <1>1, <1>3, <1>5 DEF PartlyCut
<1>6. CASE Found(L, p, d)
  <2>1. NextPosition(L, p, d) = [at |-> "shift", k |-> d.k] /\ NextList(L, d) = L
    BY <1>6, RemovalSteps
  <2>2. d.at = "find" /\ d.k = f
    BY <1>1, <1>3, <1>6 DEF Found, PartlyCut
  <2>3. PartlyCut(L0, L, f, [at |-> "shift", k |-> d.k])
    BY <1>1, <1>3, <2>2 DEF PartlyCut
  <2>4. QED
    BY <2>1, <2>3 DEF p
<1>7. CASE Shifting(L, d)
  <2> DEFINE M == [L EXCEPT ![d.k] = L[d.k + 1]]
  <2>1. /\ NextPosition(L, p, d) = [at |-> "shift", k |-> d.k + 1]
        /\ NextList(L, d) = M
        /\ d.at = "shift" /\ d.k < Len(L)
    BY <1>7, RemovalSteps DEF Shifting
  <2>2. /\ \A j \in DOMAIN L0 : L[j] = IF f <= j /\ j < d.k THEN L0[j + 1] ELSE L0[j]
        /\ f <= d.k /\ Len(L) = Len(L0)
    BY <2>1 DEF PartlyCut
  <2>3. Len(M) = Len(L0) /\ \A j \in DOMAIN L0 : M[j] = IF j = d.k THEN L[j + 1] ELSE L[j]
    BY <1>1, <2>2
  <2>4. L[d.k + 1] = L0[d.k + 1]
    BY <1>1, <1>2, <2>1, <2>2
  <2> HIDE DEF M
  <2>5. \A j \in DOMAIN L0 : M[j] = IF f <= j /\ j < d.k + 1 THEN L0[j + 1] ELSE L0[j]
    BY <1>1, <2>2, <2>3, <2>4
  <2>6. PartlyCut(L0, M, f, [at |-> "shift", k |-> d.k + 1])
    BY <1>1, <1>2, <2>1, <2>2, <2>3, <2>5 DEF PartlyCut
  <2>7. QED
    BY <2>1, <2>6 DEF p
<1>8. CASE d.at = "shift" /\ d.k >= Len(L)
  <2>1. NextPosition(L, p, d) = [at |-> "clear", k |-> d.k] /\ NextList(L, d) = L
    BY <1>8, RemovalSteps
  <2>2. PartlyCut(L0, L, f, [at |-> "clear", k |-> d.k])
    BY <1>1, <1>2, <1>8 DEF PartlyCut
  <2>3. QED
    BY <2>1, <2>2 DEF p
<1>9. CASE d.at = "clear"
  <2> DEFINE M == SubSeq(L, 1, Len(L) - 1)
  <2>1. NextPosition(L, p, d) = Done /\ NextList(L, d) = M
    BY <1>9, RemovalSteps
  <2>2. /\ M \in Seq(Procs) /\ Len(M) = Len(L0) - 1
        /\ \A j \in 1..(Len(L0) - 1) : M[j] = L[j]
    BY <1>1, <1>2, <1>9 DEF PartlyCut
  <2> HIDE DEF M
  <2>3. \A j \in 1..(Len(L0) - 1) : M[j] = IF j < f THEN L0[j] ELSE L0[j + 1]
    <3>1. \A j \in DOMAIN L0 :
            L[j] = IF f <= j /\ j < Len(L0) THEN L0[j + 1] ELSE L0[j]
      BY <1>9 DEF PartlyCut
    <3>2. \A j \in 1..(Len(L0) - 1) :
            j \in DOMAIN L0 /\ j < Len(L0) /\ (f <= j <=> ~(j < f))
      BY <1>1
    <3>3. QED
      BY <2>2, <3>1, <3>2
  <2>4. M = Cut(L0, f)
    <3>1. /\ Cut(L0, f) \in Seq(Procs) /\ Len(Cut(L0, f)) = Len(L0) - 1
          /\ \A j \in 1..(Len(L0) - 1) : Cut(L0, f)[j] = M[j]
      BY <1>1, <2>3, CutIs
    <3>2. QED
      BY <1>1, <2>2, <3>1, SeqEqual
  <2>5. QED
    BY <2>1, <2>4 DEF PartlyCut, Done, p
<1>10. QED
  BY <1>1, <1>4, <1>5, <1>6, <1>7, <1>8, <1>9 DEF Searching, Found, Shifting, p

(* How far the walk has come: the queues before call.q are done, those     *)
(* after it are as they were.                                              *)
WalkInv(c) ==
  /\ before \in [Prios -> Seq(Procs)]
  /\ call.at = "running" => mlq_ready_queue = before
  /\ call.at \in {"queue", "removal"} =>
       /\ \A q \in Prios : q < call.q => mlq_ready_queue[q] = WithoutFirstNamed(before[q])
       /\ \A q \in Prios : q > call.q => mlq_ready_queue[q] = before[q]
  /\ call.at = "queue" /\ call.q \in Prios =>
       /\ mlq_ready_queue[call.q] = before[call.q]
       /\ \A k \in DOMAIN before[call.q] : k < call.k => before[call.q][k] \notin named
  /\ call.at = "removal" =>
       \E f \in DOMAIN before[call.q] :
         /\ FirstNamed(before[call.q], f) /\ call.p = before[call.q][f]
         /\ PartlyCut(before[call.q], mlq_ready_queue[call.q], f, dq[c])

LEMMA WalkInit ==
  ASSUME NEW c \in CPUs, KInit
  PROVE  WalkInv(c)
<1>1. mlq_ready_queue \in [Prios -> Seq(Procs)]
  BY KTypesInit DEF KTypes, TypeInv, TypeOK
<1>2. QED
  BY <1>1 DEF KInit, NotCalled, WalkInv

LEMMA WalkKept ==
  ASSUME NEW c, WalkInv(c), UNCHANGED <<mlq_ready_queue, call, before, named>>,
         dq'[c] = dq[c]
  PROVE  WalkInv(c)'
<1>1. \A q \in Prios : WithoutFirstNamed(before[q])' = WithoutFirstNamed(before[q])
  BY DEF WithoutFirstNamed
<1>2. \A f : FirstNamed(before[call.q], f)' <=> FirstNamed(before[call.q], f)
  BY DEF FirstNamed
<1>3. \A f : PartlyCut(before[call.q], mlq_ready_queue[call.q], f, dq[c])'
              <=> PartlyCut(before[call.q], mlq_ready_queue[call.q], f, dq[c])
  BY DEF PartlyCut
<1>4. QED
  BY <1>1, <1>2, <1>3 DEF WalkInv

(* Nothing else moves during the call.                                     *)
LEMMA AloneInCall ==
  ASSUME NEW c, CPUs = {c}, Killer = NumProcs, KTypes, KillerOnce, RunInv, Active,
         KernelStep
  PROVE  UNCHANGED <<mlq_ready_queue, call, before, named>> /\ dq'[c] = dq[c]
<1>1. AtRun(c) /\ seen[c] # NoPc /\ Holds(c, Killer)
  BY InCallActive DEF RunInv
<1>2. i = NumProcs
  <2>1. Killer <= i /\ i \in 0..NumProcs /\ NumProcs \in Nat
    BY <1>1, KernelAssumption DEF KillerOnce, InOnePlace, KTypes, TypeInv, TypeOK
  <2>2. QED
    BY <2>1
<1>3. cpc[c] = "recheck"
  BY <1>1 DEF AtRun, At
<1>4. UNCHANGED <<call, before, named>> /\ dq'[c] = dq[c]
  BY <1>1 DEF KernelStep, UseQueues
<1>5. UNCHANGED mlq_ready_queue
  <2>1. [Next]_vars
    BY ListStepIsKernelStep DEF KernelStep
  <2>2. CASE CPU(c)
    BY <1>3, <2>2 DEF CPU, At, FetchIdle, FinishProc, PutProc, KeepProc, FetchNext, StopCPU,
                      SkipSlot, RunProc, EndSlot, mlqVars
  <2>3. CASE Loader
    BY <1>2, <2>3, KernelAssumption
       DEF Loader, AwaitStart, AddProc, LoaderEndSlot, SetDone, DetachLoader, mlqVars
  <2>4. QED
    BY <2>1, <2>2, <2>3 DEF Next, NewSlot, Finished, vars, mlqVars
<1>6. QED
  BY <1>4, <1>5

LEMMA WalkStep ==
  ASSUME NEW c, CPUs = {c}, Killer = NumProcs, KTypes, KillerOnce, RunInv, WalkInv(c),
         [KNext]_kVars
  PROVE  WalkInv(c)'
<1>1. /\ mlq_ready_queue \in [Prios -> Seq(Procs)] /\ before \in [Prios -> Seq(Procs)]
      /\ dq \in [CPUs -> RemovalTypes] /\ call \in Calls /\ MAX_PRIO \in Nat
  BY MlqAssumption DEF KTypes, TypeInv, TypeOK, ListTypes, CallTypes, WalkInv
<1>2. CASE KernelStep
  <2>1. UNCHANGED <<call, before, named>>
    BY <1>2 DEF KernelStep, UseQueues
  <2>2. CASE Active
    <3>1. UNCHANGED <<mlq_ready_queue, call, before, named>> /\ dq'[c] = dq[c]
      BY <1>2, <2>2, AloneInCall
    <3>2. QED
      BY <3>1, WalkKept
  <2>3. CASE ~Active
    BY <1>1, <2>1, <2>3 DEF WalkInv, Active
  <2>4. QED
    BY <2>2, <2>3
<1>3. CASE ReadPc(c)
  <2>1. UNCHANGED <<mlq_ready_queue, call, before, named, dq>>
    BY <1>3 DEF ReadPc, rlVars, vars, mlqVars, listVars, history
  <2>2. QED
    BY <2>1, WalkKept
<1>4. CASE Instruction(c)
  <2>1. UNCHANGED mlq_ready_queue /\ ~Active
    BY <1>4 DEF Instruction, mlqVars, RunInv
  <2>2. CASE call' = AtRunning(1) /\ before' = mlq_ready_queue
    BY <1>1, <2>1, <2>2 DEF WalkInv, AtRunning
  <2>3. CASE UNCHANGED <<call, before>>
    BY <1>1, <2>1, <2>3 DEF WalkInv, Active
  <2>4. QED
    BY <1>4, <2>2, <2>3 DEF Instruction
<1>5. CASE EndCall(c)
  <2>1. UNCHANGED before /\ call' = Returned
    BY <1>5 DEF EndCall, history
  <2>2. QED
    BY <1>1, <2>1 DEF WalkInv, Returned
<1>6. CASE WalkRunning(c)
  <2>1. /\ UNCHANGED <<mlq_ready_queue, before, named>> /\ call.at = "running"
        /\ call' = AtQueue(0, 1) \/ call' = AtRunning(call.k + 1)
    BY <1>6 DEF WalkRunning, mlqVars
  <2>2. mlq_ready_queue = before
    BY <2>1 DEF WalkInv
  <2>3. CASE call' = AtRunning(call.k + 1)
    BY <1>1, <2>1, <2>2, <2>3 DEF WalkInv, AtRunning
  <2>4. CASE call' = AtQueue(0, 1)
    <3>1. \A q \in Prios : ~(q < 0)
      BY <1>1 DEF Prios
    <3>2. \A q \in Prios : \A k \in DOMAIN before[q] : ~(k < 1)
      BY <1>1
    <3>3. QED
      BY <1>1, <2>1, <2>2, <2>4, <3>1, <3>2 DEF WalkInv, AtQueue
  <2>5. QED
    BY <2>1, <2>3, <2>4
<1>7. CASE WalkQueue(c)
  <2>1. /\ UNCHANGED <<mlq_ready_queue, before, named>>
        /\ call.at = "queue" /\ call.q \in Prios /\ call.k \in Nat \ {0}
    BY <1>1, <1>7, CallFacts DEF WalkQueue, vars, mlqVars, history
  <2>2. PICK Q \in Prios, L \in Seq(Procs), K \in Nat \ {0} :
          Q = call.q /\ L = before[Q] /\ K = call.k
    BY <1>1, <2>1
  <2>3. /\ mlq_ready_queue[Q] = L
        /\ \A k \in DOMAIN L : k < K => L[k] \notin named
        /\ \A q \in Prios : q < Q => mlq_ready_queue[q] = WithoutFirstNamed(before[q])
        /\ \A q \in Prios : q > Q => mlq_ready_queue[q] = before[q]
    BY <2>1, <2>2 DEF WalkInv
  <2>4. DOMAIN L = 1..Len(L) /\ Len(L) \in Nat /\ Q \in Nat /\ \A q \in Prios : q \in Nat
    BY <1>1 DEF Prios
  <2>5. CASE K > Len(L) /\ call' = AtQueue(Q + 1, 1)
    <3>1. WithoutFirstNamed(L) = L
      BY <2>3, <2>4, <2>5, NamedIsCut
    <3>2. \A q \in Prios : q < Q + 1 => mlq_ready_queue[q] = WithoutFirstNamed(before[q])
      BY <2>2, <2>3, <2>4, <3>1
    <3>3. \A q \in Prios : q >= Q + 1 => mlq_ready_queue[q] = before[q]
      BY <2>3, <2>4
    <3>4. \A q \in Prios : \A k \in DOMAIN before[q] : ~(k < 1)
      BY <1>1
    <3>5. /\ WithoutFirstNamed(L)' = WithoutFirstNamed(L)
          /\ \A q \in Prios : WithoutFirstNamed(before[q])' = WithoutFirstNamed(before[q])
      BY <2>1 DEF WithoutFirstNamed
    <3>6. QED
      BY <1>1, <2>1, <2>4, <2>5, <3>2, <3>3, <3>4, <3>5 DEF WalkInv, AtQueue
  <2>6. CASE K <= Len(L) /\ ~HasName(L[K]) /\ call' = AtQueue(Q, K + 1)
    <3>1. \A k \in DOMAIN L : k < K + 1 => L[k] \notin named
      BY <2>3, <2>4, <2>6 DEF HasName
    <3>2. \A q \in Prios : WithoutFirstNamed(before[q])' = WithoutFirstNamed(before[q])
      BY <2>1 DEF WithoutFirstNamed
    <3>3. QED
      BY <1>1, <2>1, <2>2, <2>3, <2>6, <3>1, <3>2 DEF WalkInv, AtQueue
  <2>7. CASE /\ K <= Len(L) /\ HasName(L[K]) /\ call' = AtRemoval(Q, L[K])
             /\ dq' = [dq EXCEPT ![c] = Start]
    <3>1. FirstNamed(L, K) /\ K \in DOMAIN L
      BY <2>2, <2>3, <2>4, <2>7 DEF FirstNamed, HasName
    <3>2. PartlyCut(L, L, K, Start)
      BY <2>2, <2>4 DEF PartlyCut, Start
    <3>3. dq'[c] = Start /\ FirstNamed(L, K)'
      BY <1>1, <2>1, <2>7, <3>1 DEF FirstNamed
    <3>4. \A q \in Prios : WithoutFirstNamed(before[q])' = WithoutFirstNamed(before[q])
      BY <2>1 DEF WithoutFirstNamed
    <3>5. call'.at = "removal" /\ call'.q = Q /\ call'.p = L[K]
      BY <2>7 DEF AtRemoval
    <3>6. \E f \in DOMAIN before'[call'.q] :
            /\ FirstNamed(before[call.q], f)' /\ call'.p = before'[call'.q][f]
            /\ PartlyCut(before'[call'.q], mlq_ready_queue'[call'.q], f, dq'[c])
      BY <2>1, <2>2, <2>3, <3>1, <3>2, <3>3, <3>5 DEF FirstNamed
    <3>7. QED
      BY <1>1, <2>1, <2>2, <2>3, <3>4, <3>5, <3>6 DEF WalkInv, PartlyCut
  <2>8. QED
    BY <1>7, <2>2, <2>3, <2>5, <2>6, <2>7 DEF WalkQueue
<1>8. CASE StepKillRemoval(c)
  <2>1. /\ UNCHANGED <<call, before, named>>
        /\ call.at = "removal" /\ call.q \in Prios
    BY <1>1, <1>8, CallFacts DEF StepKillRemoval, callVars, history
  <2>2. PICK Q \in Prios, L0 \in Seq(Procs), L \in Seq(Procs), d \in RemovalTypes :
          Q = call.q /\ L0 = before[Q] /\ L = mlq_ready_queue[Q] /\ d = dq[c]
    BY <1>1, <2>1
  <2>3. PICK f \in DOMAIN L0 :
          FirstNamed(L0, f) /\ call.p = L0[f] /\ PartlyCut(L0, L, f, d)
    BY <2>1, <2>2 DEF WalkInv
  <2>4. /\ mlq_ready_queue' = [mlq_ready_queue EXCEPT ![Q] = NextList(L, d)]
        /\ dq' = [dq EXCEPT ![c] = NextPosition(L, L0[f], d)]
        /\ d.at # "done"
    BY <1>8, <2>2, <2>3 DEF StepKillRemoval, Removing
  <2>5. PICK L2, d2 : L2 = NextList(L, d) /\ d2 = NextPosition(L, L0[f], d)
    OBVIOUS
  <2>6. PartlyCut(L0, L2, f, d2)
    BY <2>3, <2>4, <2>5, PartlyCutStep
  <2>7. /\ mlq_ready_queue'[Q] = L2 /\ dq'[c] = d2
        /\ \A q \in Prios : q # Q => mlq_ready_queue'[q] = mlq_ready_queue[q]
    BY <1>1, <2>4, <2>5
  <2>8. /\ \A q \in Prios : q < Q => q # Q
        /\ \A q \in Prios : q > Q => q # Q
    BY <1>1 DEF Prios
  <2>9. /\ \A q \in Prios : q < Q => mlq_ready_queue[q] = WithoutFirstNamed(before[q])
        /\ \A q \in Prios : q > Q => mlq_ready_queue[q] = before[q]
    BY <2>1, <2>2 DEF WalkInv
  <2>10. \A q \in Prios : WithoutFirstNamed(before[q])' = WithoutFirstNamed(before[q])
    BY <2>1 DEF WithoutFirstNamed
  <2>11. FirstNamed(before[call.q], f)'
    BY <2>1, <2>2, <2>3 DEF FirstNamed
  <2>12. PartlyCut(before[call.q], mlq_ready_queue[call.q], f, dq[c])'
    BY <2>1, <2>2, <2>6, <2>7 DEF PartlyCut
  <2>13. QED
    BY <1>1, <2>1, <2>2, <2>3, <2>7, <2>8, <2>9, <2>10, <2>11, <2>12 DEF WalkInv
<1>9. CASE FreeVictim(c)
  <2>1. /\ UNCHANGED <<mlq_ready_queue, before, named>>
        /\ call.at = "removal" /\ call.q \in Prios /\ dq[c] = Done
        /\ call' = AtQueue(call.q + 1, 1)
    BY <1>1, <1>9, CallFacts DEF FreeVictim, AfterVictim, mlqVars
  <2>2. PICK Q \in Prios, L0 \in Seq(Procs) : Q = call.q /\ L0 = before[Q]
    BY <1>1, <2>1
  <2>3. mlq_ready_queue[Q] = WithoutFirstNamed(L0)
    <3>1. PICK f \in DOMAIN L0 : FirstNamed(L0, f) /\ mlq_ready_queue[Q] = Cut(L0, f)
      BY <2>1, <2>2 DEF WalkInv, PartlyCut, Done
    <3>2. QED
      BY <3>1, NamedIsCut
  <2>4. /\ \A q \in Prios : q < Q => mlq_ready_queue[q] = WithoutFirstNamed(before[q])
        /\ \A q \in Prios : q > Q => mlq_ready_queue[q] = before[q]
    BY <2>1, <2>2 DEF WalkInv
  <2>5. \A q \in Prios : q < Q + 1 => mlq_ready_queue[q] = WithoutFirstNamed(before[q])
    BY <1>1, <2>2, <2>3, <2>4 DEF Prios
  <2>6. \A q \in Prios : q >= Q + 1 => mlq_ready_queue[q] = before[q]
    BY <1>1, <2>4 DEF Prios
  <2>7. \A q \in Prios : WithoutFirstNamed(before[q])' = WithoutFirstNamed(before[q])
    BY <2>1 DEF WithoutFirstNamed
  <2>8. /\ \A q \in Prios : \A k \in DOMAIN before[q] : ~(k < 1)
        /\ \A q \in Prios : q > Q + 1 => q >= Q + 1
        /\ Q + 1 \in Prios => Q + 1 >= Q + 1
    BY <1>1 DEF Prios
  <2>9. call'.at = "queue" /\ call'.q = Q + 1 /\ call'.k = 1
    BY <2>1, <2>2 DEF AtQueue
  <2>10. QED
    BY <1>1, <2>1, <2>5, <2>6, <2>7, <2>8, <2>9 DEF WalkInv
<1>10. QED
  BY <1>2, <1>3, <1>4, <1>5, <1>6, <1>7, <1>8, <1>9, KernelSteps DEF KillallStep

LEMMA WalkDone ==
  ASSUME NEW c, KTypes, WalkInv(c)
  PROVE  FirstNamedRemoved
<1>1. MAX_PRIO \in Nat /\ \A q \in Prios : q < MAX_PRIO
  BY MlqAssumption DEF Prios
<1>2. QED
  BY <1>1 DEF WalkInv, FirstNamedRemoved

(* sys_killall.c:62: on one CPU, and when every process is loaded before   *)
(* killall is called, the call takes out of each ready queue exactly its   *)
(* first process with the name, keeps the others in their order, and so    *)
(* leaves every further one with the name (AllNamedRemoved is refuted).    *)
THEOREM FirstNamedOnly ==
  ASSUME NEW c, CPUs = {c}, Killer = NumProcs
  PROVE  KSpec => []FirstNamedRemoved
<1> DEFINE Inv == KTypes /\ KillerOnce /\ RunInv /\ WalkInv(c)
<1>1. KInit => Inv
  BY KTypesInit, KillerInit, RunInvInit, WalkInit
<1>2. Inv /\ [KNext]_kVars => Inv'
  BY Killer = NumProcs, KTypesStep, KillerStep, RunInvStep, WalkStep
<1>3. Inv => FirstNamedRemoved
  BY WalkDone
<1>4. QED
  BY <1>1, <1>2, <1>3, PTL DEF KSpec
=============================================================================
