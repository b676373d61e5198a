-------------------------------- MODULE Kernel --------------------------------
(***************************************************************************)
(* os.c: the CPU threads (cpu_routine) and the loader (ld_routine), over   *)
(* the ready queue of sched.c (module Mlq) and the slot clock of timer.c   *)
(* (module SlotClock).  Each step of a thread that touches what another    *)
(* thread can see is an action; what a thread does with its local          *)
(* variables in between goes with the step before or after it.             *)
(*                                                                         *)
(* An instruction only advances the program counter here: no instruction   *)
(* changes anything cpu_routine looks at, but for the system call killall, *)
(* which is in module Killall.                                             *)
(***************************************************************************)
EXTENDS Mlq, FiniteSets

CONSTANTS CPUs,
          ld,               \* the loader's device
          NumProcs,         \* num_processes
          TimeSlot,         \* time_slot
          Sizes,            \* bound of the instance: instructions of a program
          MaxStart          \* bound of the instance: start_time

ASSUME KernelAssumption ==
  /\ ld \notin CPUs
  /\ NumProcs \in Nat
  /\ TimeSlot \in Nat \ {0}
  /\ Sizes \subseteq Nat /\ MaxStart \in Nat

Procs   == 1..NumProcs
Devices == CPUs \union {ld}

(* Only the loader reads the clock, up to the start time of its last       *)
(* process: from here on the model's clock stands still.                   *)
MaxTime == MaxStart + NumProcs

VARIABLES
  prio, start_time, size,   \* the configuration file and the programs
  time, phase,              \* the slot clock
  cpc,                      \* where each CPU thread is
  proc, time_left,          \* its local variables
  i,                        \* the loader's index: processes added so far
  lpc,                      \* where the loader is
  done,                     \* the flag `done' of os.c
  pc,                       \* program counter of each process
  freed,                    \* processes whose pcb has been freed
  ran,                      \* history: instructions since the CPU got proc
  addedAt                   \* history: the slot each process was added in

config   == <<prio, start_time, size>>
cpuVars  == <<cpc, proc, time_left, ran>>
ldVars   == <<i, lpc, done, addedAt>>
procVars == <<pc, freed>>
vars == <<mlqVars, config, time, phase, cpuVars, ldVars, procVars>>

Clock == INSTANCE SlotClock

------------------------------------------------------------------------------

Init ==
  /\ init_scheduler
  /\ prio \in [Procs -> Prios]
  /\ start_time \in [Procs -> 0..MaxStart]
  /\ size \in [Procs -> Sizes]
  /\ Clock!ClockInit
  /\ cpc = [c \in CPUs |-> "check"]
  /\ proc = [c \in CPUs |-> NULL]
  /\ time_left = [c \in CPUs |-> 0]
  /\ ran = [c \in CPUs |-> 0]
  /\ i = 0 /\ lpc = "load" /\ done = FALSE
  /\ addedAt = [p \in Procs |-> 0]
  /\ pc = [p \in Procs |-> 0]
  /\ freed = {}

------------------------------------------------------------------------------
(* The clock.                                                              *)

NewSlot ==
  /\ \E d \in Devices : phase[d] = "waiting"
  /\ Clock!Release
  /\ time' = IF time < MaxTime THEN time + 1 ELSE time
  /\ UNCHANGED <<mlqVars, config, cpuVars, ldVars, procVars>>

------------------------------------------------------------------------------
(* A CPU thread (cpu_routine).                                             *)

At(c, label) == phase[c] = "working" /\ cpc[c] = label

Goto(c, label) == cpc' = [cpc EXCEPT ![c] = label]

(* The tests of cpu_routine on its process.  (Faulty variants: see Timer.) *)
HasFinished_Late(c) == pc[proc[c]] > size[proc[c]]
HasFinished(c) == pc[proc[c]] = size[proc[c]]

MayStop_Early(c) == proc[c] = NULL
MayStop(c) == proc[c] = NULL /\ done

(* time_left of a CPU that fetches: reset after a finished process (proc   *)
(* is NULL), not after one that was put back.                              *)
TimeOnFetch_Stale(c) == time_left[c]
TimeOnFetch(c) == IF proc[c] = NULL THEN 0 ELSE time_left[c]

(* A process that is new on the CPU is dispatched with a whole quantum.    *)
Quantum_None(c) == time_left[c]
Quantum(c) == IF time_left[c] = 0 THEN TimeSlot ELSE time_left[c]

(* run(p): one instruction, if there is one.                               *)
Run(p) == IF pc[p] < size[p] THEN [pc EXCEPT ![p] = @ + 1] ELSE pc

(* proc = get_proc()                                                       *)
Fetch(c) ==
  \E p \in Procs \union {NULL} :
    /\ get_proc(p)
    /\ proc' = [proc EXCEPT ![c] = p]
    /\ ran' = [ran EXCEPT ![c] = 0]

(* No process is running: load one; without one, skip the slot.            *)
FetchIdle(c) ==
  /\ At(c, "check") /\ proc[c] = NULL
  /\ Fetch(c)
  /\ Goto(c, IF proc'[c] = NULL THEN "end_slot" ELSE "recheck")
  /\ UNCHANGED <<config, time, phase, time_left, ldVars, procVars>>

(* The process has finished its job.                                       *)
FinishProc(c) ==
  /\ At(c, "check") /\ proc[c] # NULL
  /\ HasFinished(c)
  /\ freed' = freed \union {proc[c]}
  /\ proc' = [proc EXCEPT ![c] = NULL]
  /\ Goto(c, "refetch")
  /\ UNCHANGED <<mlqVars, config, time, phase, time_left, ran, ldVars, pc>>

(* Its quantum is over.                                                    *)
PutProc(c) ==
  /\ At(c, "check") /\ proc[c] # NULL
  /\ ~HasFinished(c) /\ time_left[c] = 0
  /\ put_proc(proc[c], prio[proc[c]])
  /\ Goto(c, "refetch")
  /\ UNCHANGED <<config, time, phase, proc, time_left, ran, ldVars, procVars>>

KeepProc(c) ==
  /\ At(c, "check") /\ proc[c] # NULL
  /\ ~HasFinished(c) /\ time_left[c] # 0
  /\ Goto(c, "recheck")
  /\ UNCHANGED <<mlqVars, config, time, phase, proc, time_left, ran, ldVars,
                 procVars>>

FetchNext(c) ==
  /\ At(c, "refetch")
  /\ Fetch(c)
  /\ time_left' = [time_left EXCEPT ![c] = TimeOnFetch(c)]
  /\ Goto(c, "recheck")
  /\ UNCHANGED <<config, time, phase, ldVars, procVars>>

(* No process to run, exit.                                                *)
StopCPU(c) ==
  /\ At(c, "recheck") /\ MayStop(c)
  /\ Clock!Leave(c)
  /\ Goto(c, "stopped")
  /\ UNCHANGED <<mlqVars, config, proc, time_left, ran, ldVars, procVars>>

(* There may be new processes to run in next time slots.                   *)
SkipSlot(c) ==
  /\ At(c, "recheck") /\ proc[c] = NULL /\ ~MayStop(c)
  /\ Goto(c, "end_slot")
  /\ UNCHANGED <<mlqVars, config, time, phase, proc, time_left, ran, ldVars,
                 procVars>>

RunProc(c) ==
  /\ At(c, "recheck") /\ proc[c] # NULL
  /\ time_left' = [time_left EXCEPT ![c] = Quantum(c) - 1]
  /\ pc' = Run(proc[c])
  /\ ran' = [ran EXCEPT ![c] = @ + 1]
  /\ Goto(c, "end_slot")
  /\ UNCHANGED <<mlqVars, config, time, phase, proc, ldVars, freed>>

(* next_slot(timer_id)                                                     *)
EndSlot(c) ==
  /\ At(c, "end_slot")
  /\ Clock!Arrive(c)
  /\ Goto(c, "check")
  /\ UNCHANGED <<mlqVars, config, proc, time_left, ran, ldVars, procVars>>

CPU(c) ==
  \/ FetchIdle(c) \/ FinishProc(c) \/ PutProc(c) \/ KeepProc(c) \/ FetchNext(c)
  \/ StopCPU(c) \/ SkipSlot(c) \/ RunProc(c) \/ EndSlot(c)

------------------------------------------------------------------------------
(* The loader (ld_routine).                                                *)

LoaderAt(label) == phase[ld] = "working" /\ lpc = label

(* load() numbers the processes in the order of the configuration file.    *)
Loaded == i + 1

(* The next process has been read from its file; its time has not come.    *)
AwaitStart ==
  /\ LoaderAt("load") /\ i < NumProcs
  /\ time < start_time[Loaded]
  /\ Clock!Arrive(ld)
  /\ UNCHANGED <<mlqVars, config, cpuVars, ldVars, procVars>>

AfterAdd_SameSlot == "load"
AfterAdd == "end_slot"

AddProc ==
  /\ LoaderAt("load") /\ i < NumProcs
  /\ time >= start_time[Loaded]
  /\ put_proc(Loaded, prio[Loaded])
  /\ i' = i + 1
  /\ addedAt' = [addedAt EXCEPT ![Loaded] = time]
  /\ lpc' = AfterAdd
  /\ UNCHANGED <<config, time, phase, cpuVars, done, procVars>>

LoaderEndSlot ==
  /\ LoaderAt("end_slot")
  /\ Clock!Arrive(ld)
  /\ lpc' = "load"
  /\ UNCHANGED <<mlqVars, config, cpuVars, i, done, addedAt, procVars>>

SetDone ==
  /\ LoaderAt("load") /\ i = NumProcs
  /\ done' = TRUE
  /\ lpc' = "detach"
  /\ UNCHANGED <<mlqVars, config, time, phase, cpuVars, i, addedAt, procVars>>

DetachLoader ==
  /\ LoaderAt("detach")
  /\ Clock!Leave(ld)
  /\ lpc' = "stopped"
  /\ UNCHANGED <<mlqVars, config, cpuVars, i, done, addedAt, procVars>>

Loader == AwaitStart \/ AddProc \/ LoaderEndSlot \/ SetDone \/ DetachLoader

------------------------------------------------------------------------------

(* Every thread has called pthread_exit.                                   *)
Finished == (\A d \in Devices : phase[d] = "gone") /\ UNCHANGED vars

Next ==
  \/ NewSlot
  \/ \E c \in CPUs : CPU(c)
  \/ Loader
  \/ Finished

(* Every thread is run by the host, and so is the timer thread.            *)
Spec == /\ Init /\ [][Next]_vars
        /\ WF_vars(NewSlot) /\ WF_vars(Loader)
        /\ \A c \in CPUs : WF_vars(CPU(c))

------------------------------------------------------------------------------

TypeOK ==
  /\ mlq_ready_queue \in [Prios -> Seq(Procs)]
  /\ slot \in [Prios -> 0..MAX_PRIO]
  /\ prio \in [Procs -> Prios]
  /\ start_time \in [Procs -> 0..MaxStart]
  /\ size \in [Procs -> Sizes]
  /\ Clock!ClockTypeOK
  /\ cpc \in [CPUs -> {"check", "refetch", "recheck", "end_slot", "stopped"}]
  /\ proc \in [CPUs -> Procs \union {NULL}]
  /\ time_left \in [CPUs -> 0..TimeSlot]
  /\ ran \in [CPUs -> Nat]
  /\ i \in 0..NumProcs
  /\ lpc \in {"load", "end_slot", "detach", "stopped"}
  /\ done \in BOOLEAN
  /\ addedAt \in [Procs -> 0..MaxTime]
  /\ pc \in [Procs -> Nat]
  /\ freed \subseteq Procs

(* Where a process can be: at a position of a ready queue, or on a CPU     *)
(* that has it in hand (after put_proc the CPU's pointer is stale).        *)
Queued(p) == \E q \in Prios : \E k \in DOMAIN mlq_ready_queue[q] :
               mlq_ready_queue[q][k] = p

Holds(c, p) == proc[c] = p /\ cpc[c] # "refetch"

(* No process is ever in two places, or in any place before it was loaded  *)
(* or after its pcb was freed: no two CPUs run one process, and no CPU or  *)
(* queue holds a dangling pointer.                                         *)
AtMostOnePlace ==
  /\ \A q1, q2 \in Prios : \A k1 \in DOMAIN mlq_ready_queue[q1],
                              k2 \in DOMAIN mlq_ready_queue[q2] :
       mlq_ready_queue[q1][k1] = mlq_ready_queue[q2][k2] => q1 = q2 /\ k1 = k2
  /\ \A p \in Procs : \A c1, c2 \in CPUs :
       Holds(c1, p) /\ Holds(c2, p) => c1 = c2
  /\ \A p \in Procs : \A c \in CPUs : Holds(c, p) => ~Queued(p)
  /\ \A p \in Procs : Queued(p) \/ (\E c \in CPUs : Holds(c, p)) =>
       p <= i /\ p \notin freed

(* No process is lost: loaded and not finished, it is in a queue or on a   *)
(* CPU.                                                                    *)
NoProcessLost ==
  \A p \in Procs : p <= i /\ p \notin freed =>
    Queued(p) \/ \E c \in CPUs : Holds(c, p)

(* cpu_routine relies on time_left = 0 to recognise a new process, although*)
(* only one of its three ways to get a process resets it: a process never  *)
(* inherits what was left of another's quantum.  What is left and what it  *)
(* has run since it got the CPU make one quantum.                          *)
QuantumKept ==
  \A c \in CPUs :
    LET p == proc[c]
    IN  IF p = NULL THEN cpc[c] # "refetch" => time_left[c] = 0
        ELSE \/ ran[c] = 0 /\ time_left[c] = 0
             \/ ran[c] > 0 /\ ran[c] + time_left[c] = TimeSlot

(* A CPU dispatches no finished process: a program that ends exactly with  *)
(* its quantum is not queued again (the order of the tests at the top of   *)
(* cpu_routine).  An empty program is the exception.                       *)
NoIdleDispatch ==
  \A c \in CPUs : cpc[c] = "recheck" /\ proc[c] # NULL =>
                    pc[proc[c]] < size[proc[c]] \/ size[proc[c]] = 0

(* The loader adds process p in its start slot, or in the slot after its   *)
(* predecessor's if that is later: slots are neither skipped nor shared.   *)
LoadedOnTime ==
  \A p \in 1..i :
    LET earliest == IF p = 1 THEN 0 ELSE addedAt[p - 1] + 1
    IN  addedAt[p] = IF start_time[p] > earliest THEN start_time[p] ELSE earliest

(* CPUs that stop leave nothing behind: when the last one has stopped every*)
(* process has been loaded and has run to its end.  The get_proc that      *)
(* returned NULL and the test of `done' are two steps, and other CPUs may  *)
(* hold processes they will put back.                                      *)
NothingLeftBehind ==
  CPUs # {} /\ (\A c \in CPUs : cpc[c] = "stopped") => freed = Procs

(* Every process is loaded and finishes.                                   *)
AllFinish == <>(freed = Procs)

(* os.c:82, "No process to run, exit": once every process has finished and *)
(* no more will come, the CPUs stop.                                       *)
CPUsStop ==
  (done /\ freed = Procs) ~> \A c \in CPUs : cpc[c] = "stopped"

==============================================================================
