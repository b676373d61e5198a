------------------------------- MODULE Killall -------------------------------
(***************************************************************************)
(* sys_killall.c: the system call killall, run by one of the processes, on *)
(* top of RunningList.  It holds no lock: it goes through running_list and *)
(* then through every ready queue in steps, and removes the process it     *)
(* finds in a queue with the unlocked dequeue_running.                     *)
(*                                                                         *)
(* run() is split here: it reads pc, and then stores the next one.  The    *)
(* locked operations of sched.c stay one step each, which gives killall    *)
(* fewer places to get in between than the code does.  How the name is     *)
(* read is left out: it is in a region of the caller's, ended by -1.       *)
(***************************************************************************)
EXTENDS RunningList

CONSTANTS Killer,           \* the process whose program calls killall
          KillAt            \* at this instruction

ASSUME KillallAssumption == Killer \in Procs /\ KillAt \in Nat

VARIABLES
  named,                    \* the processes whose path contains the name
  seen,                     \* the pc each CPU has read in run(), or NoPc
  call,                     \* where the call of killall is
  killed,                   \* history: processes stopped or freed by it
  steps,                    \* history: instructions each process has run
  before,                   \* history: the ready queues when it was called
  midway,                   \* history: stopped while their CPU was in run()
  disturbed                 \* history: a queue was used during its removal

history  == <<killed, steps, before, midway, disturbed>>
callVars == <<seen, call, history>>
kVars    == <<rlVars, named, callVars>>

NoPc == -1

(* The call goes through running_list, or through queue q, at entry k; or  *)
(* it removes p from queue q.                                              *)
AtRunning(k)    == [at |-> "running", q |-> 0, k |-> k, p |-> NULL]
AtQueue(q, k)   == [at |-> "queue", q |-> q, k |-> k, p |-> NULL]
AtRemoval(q, p) == [at |-> "removal", q |-> q, k |-> 0, p |-> p]
NotCalled       == [at |-> "not_called", q |-> 0, k |-> 0, p |-> NULL]
Returned        == [at |-> "returned", q |-> 0, k |-> 0, p |-> NULL]

KInit ==
  /\ RLInit
  /\ named \in SUBSET Procs
  /\ seen = [c \in CPUs |-> NoPc]
  /\ call = NotCalled
  /\ killed = {}
  /\ steps = [p \in Procs |-> 0]
  /\ before = mlq_ready_queue
  /\ midway = {} /\ disturbed = FALSE

------------------------------------------------------------------------------
(* run(proc), of a CPU that has a process.                                 *)

AtRun(c) == At(c, "recheck") /\ proc[c] # NULL

InCall(c) ==
  AtRun(c) /\ proc[c] = Killer /\ call.at \in {"running", "queue", "removal"}

NothingToRun(c) ==
  /\ AtRun(c) /\ seen[c] = NoPc
  /\ pc[proc[c]] >= size[proc[c]]
  /\ RunProc(c)
  /\ UNCHANGED <<listVars, named, callVars>>

ReadPc(c) ==
  /\ AtRun(c) /\ seen[c] = NoPc
  /\ pc[proc[c]] < size[proc[c]]
  /\ seen' = [seen EXCEPT ![c] = pc[proc[c]]]
  /\ UNCHANGED <<rlVars, named, call, history>>

(* proc->pc++: the build may use the value it has read, or read it again.  *)
NextPc(c) == {seen[c] + 1, pc[proc[c]] + 1}

(* After the instruction: time_left--.                                     *)
EndRun(c) ==
  /\ time_left' = [time_left EXCEPT ![c] = Quantum(c) - 1]
  /\ ran' = [ran EXCEPT ![c] = @ + 1]
  /\ seen' = [seen EXCEPT ![c] = NoPc]
  /\ Goto(c, "end_slot")

IsKillall(c) == proc[c] = Killer /\ seen[c] = KillAt

Instruction(c) ==
  /\ AtRun(c) /\ seen[c] # NoPc /\ ~InCall(c)
  /\ \E n \in NextPc(c) : pc' = [pc EXCEPT ![proc[c]] = n]
  /\ steps' = [steps EXCEPT ![proc[c]] = @ + 1]
  /\ \/ /\ IsKillall(c)
        /\ call' = AtRunning(1)
        /\ before' = mlq_ready_queue
        /\ UNCHANGED <<cpc, time_left, ran, seen>>
     \/ /\ ~IsKillall(c)
        /\ EndRun(c)
        /\ UNCHANGED <<call, before>>
  /\ UNCHANGED <<mlqVars, config, time, phase, proc, ldVars, freed, listVars,
                 named, killed, midway, disturbed>>

------------------------------------------------------------------------------
(* __sys_killall.                                                          *)

(* strstr(path, proc_name).  (Faulty variants: see Timer.)                 *)
HasName_Not(p) == p \notin named
HasName(p) == p \in named

(* The first entry of running_list with the name: its pc is set to the end *)
(* of its program.                                                         *)
StopAt_LastInstruction(p) == size[p] - 1
StopAt_PastTheEnd(p) == size[p] + 1
StopAt(p) == size[p]

WalkRunning(c) ==
  /\ InCall(c) /\ call.at = "running"
  /\ \/ /\ call.k > Len(running_list)
        /\ call' = AtQueue(0, 1)
        /\ UNCHANGED <<pc, killed, midway>>
     \/ /\ call.k <= Len(running_list) /\ ~HasName(running_list[call.k])
        /\ call' = AtRunning(call.k + 1)
        /\ UNCHANGED <<pc, killed, midway>>
     \/ /\ call.k <= Len(running_list) /\ HasName(running_list[call.k])
        /\ LET p == running_list[call.k]
           IN  /\ pc' = [pc EXCEPT ![p] = StopAt(p)]
               /\ killed' = killed \union {p}
               /\ midway' = IF \E d \in CPUs \ {c} : proc[d] = p /\ seen[d] # NoPc
                            THEN midway \union {p} ELSE midway
        /\ call' = AtQueue(0, 1)
  /\ UNCHANGED <<mlqVars, config, time, phase, cpuVars, ldVars, freed, listVars,
                 named, seen, steps, before, disturbed>>

(* The first entry of each ready queue with the name.                      *)
WalkQueue(c) ==
  /\ InCall(c) /\ call.at = "queue" /\ call.q \in Prios
  /\ LET queue == mlq_ready_queue[call.q]
     IN  \/ /\ call.k > Len(queue)
            /\ call' = AtQueue(call.q + 1, 1)
            /\ UNCHANGED dq
         \/ /\ call.k <= Len(queue) /\ ~HasName(queue[call.k])
            /\ call' = AtQueue(call.q, call.k + 1)
            /\ UNCHANGED dq
         \/ /\ call.k <= Len(queue) /\ HasName(queue[call.k])
            /\ call' = AtRemoval(call.q, queue[call.k])
            /\ dq' = [dq EXCEPT ![c] = Start]
  /\ UNCHANGED <<vars, running_list, raced, named, seen, history>>

(* dequeue_running(ready_list, curr_proc_rdq)                              *)
StepKillRemoval(c) ==
  /\ InCall(c) /\ call.at = "removal" /\ Removing(c)
  /\ dq' = [dq EXCEPT ![c] = NextPosition(mlq_ready_queue[call.q], call.p, @)]
  /\ mlq_ready_queue' =
       [mlq_ready_queue EXCEPT ![call.q] = NextList(@, dq[c])]
  /\ UNCHANGED <<slot, config, time, phase, cpuVars, ldVars, procVars,
                 running_list, raced, named, callVars>>

(* free(curr_proc_rdq), whatever the removal has returned.                 *)
AfterVictim == AtQueue(call.q + 1, 1)

FreeVictim(c) ==
  /\ InCall(c) /\ call.at = "removal" /\ dq[c] = Done
  /\ freed' = freed \union {call.p}
  /\ killed' = killed \union {call.p}
  /\ dq' = [dq EXCEPT ![c] = Idle]
  /\ call' = AfterVictim
  /\ UNCHANGED <<mlqVars, config, time, phase, cpuVars, ldVars, pc,
                 running_list, raced, named, seen, steps, before, midway,
                 disturbed>>

EndCall(c) ==
  /\ InCall(c) /\ call.at = "queue" /\ call.q = MAX_PRIO
  /\ call' = Returned
  /\ EndRun(c)
  /\ UNCHANGED <<mlqVars, config, time, phase, proc, ldVars, procVars, listVars,
                 named, history>>

KillallStep(c) ==
  \/ WalkRunning(c) \/ WalkQueue(c)
  \/ StepKillRemoval(c) \/ FreeVictim(c)
  \/ EndCall(c)

------------------------------------------------------------------------------

(* A thread takes queue_lock and changes a ready queue.                    *)
UseQueues ==
  /\ disturbed' = (disturbed \/ (call.at = "removal" /\
                                mlq_ready_queue' # mlq_ready_queue))
  /\ UNCHANGED <<named, seen, call, killed, steps, before, midway>>

KCPU(c) ==
  \/ (RunNext(c) \/ RunAgainLater(c)) /\ UseQueues
  \/ /\ \/ StartRemoval(c) \/ StepRemoval(c) \/ EndRemoval(c)
        \/ /\ KeepProc(c) \/ StopCPU(c) \/ SkipSlot(c) \/ EndSlot(c)
           /\ UNCHANGED listVars
     /\ UNCHANGED <<named, callVars>>
  \/ NothingToRun(c) \/ ReadPc(c) \/ Instruction(c) \/ KillallStep(c)

KLoader == RLLoader /\ UseQueues

KNewSlot == NewSlot /\ UNCHANGED <<listVars, named, callVars>>

KNext ==
  \/ \E c \in CPUs : KCPU(c)
  \/ KLoader
  \/ KNewSlot
  \/ Finished /\ UNCHANGED kVars

KSpec == /\ KInit /\ [][KNext]_kVars
         /\ WF_kVars(KNewSlot) /\ WF_kVars(KLoader)
         /\ \A c \in CPUs : WF_kVars(KCPU(c))

------------------------------------------------------------------------------

Settled == \A c \in CPUs : dq[c] = Idle

(* Killall takes its victims out of the queues, none of them stays in a    *)
(* queue or on a CPU after its pcb is freed, and no bystander is lost:     *)
(* between two removals every process is in exactly one place.  It is so   *)
(* until a thread uses the ready queues, under the lock that killall does  *)
(* not take (sched.c:112, "Remember to use lock to protect the queue"),    *)
(* between its finding a victim and the free.                              *)
SoundUnlessDisturbed ==
  ~disturbed /\ Settled => AtMostOnePlace /\ NoProcessLost

(* The list that killall goes through is exact, until two CPUs use it      *)
(* together, or what killall did to a queue put a process on two CPUs.     *)
ListExactUnlessDisturbed == ~disturbed => ExactUnlessRaced

(* sys_killall.c:46, "stop it by setting PC to the end of its code": a     *)
(* process found on running_list is at the end of its program, and stays   *)
(* there, unless its CPU had read pc and stores pc + 1 afterwards.         *)
StoppedUnlessMidway == \A p \in killed \ (freed \union midway) : pc[p] = size[p]

(* A process hit by killall never runs another instruction, with the same  *)
(* exceptions.                                                             *)
KilledRunNoMore ==
  [][~disturbed => \A p \in killed \ midway : steps'[p] = steps[p]]_kVars

(* Killall hits no process without the name, and a process it has not hit  *)
(* ends when it has run each instruction of its program, once; the latter  *)
(* until a removal was disturbed: then two CPUs may come to run a process. *)
RunToTheEnd == \A p \in freed \ killed : steps[p] = size[p]
OnlyNamedEndEarly == killed \subseteq named /\ (~disturbed => RunToTheEnd)

(* Every process ends, those killall has stopped and those it has passed,  *)
(* unless one was stopped while its CPU was in run(): such a process can   *)
(* have its pc beyond its end, which os.c:64 never finds; or unless a      *)
(* removal was disturbed.                                                  *)
AllFinishUnlessHit == AllFinish \/ <>(midway # {} \/ disturbed)

(* One CPU: when killall is through, each ready queue is what it was at    *)
(* the call without its first process with the name, the others in their   *)
(* order.                                                                  *)
WithoutFirstNamed(queue) ==
  LET found == {k \in DOMAIN queue : queue[k] \in named}
      first == CHOOSE k \in found : \A j \in found : k <= j
  IN  IF found = {} THEN queue
      ELSE SubSeq(queue, 1, first - 1) \o SubSeq(queue, first + 1, Len(queue))

FirstNamedRemoved ==
  call.at = "queue" /\ call.q = MAX_PRIO =>
    \A q \in Prios : mlq_ready_queue[q] = WithoutFirstNamed(before[q])

(* sys_killall.c:53, "walk the queues and remove the processes whose name  *)
(* matches": when killall is through, no process that was in a queue at    *)
(* the call, and has the name, is in that queue still.                     *)
AllNamedRemoved ==
  call.at = "queue" /\ call.q = MAX_PRIO =>
    \A q \in Prios :
      \A j \in DOMAIN before[q], k \in DOMAIN mlq_ready_queue[q] :
        mlq_ready_queue[q][k] = before[q][j] => before[q][j] \notin named

==============================================================================
