----------------------------- MODULE RunningList -----------------------------
(***************************************************************************)
(* Kernel with running_list: the list of the processes that the CPUs run,  *)
(* kept by sched.c for sys_killall.  get_proc appends to it, put_proc and  *)
(* add_proc remove from it, each under queue_lock and so in one step with  *)
(* the rest of what it does.  A CPU whose process has finished removes it  *)
(* without the lock (os.c:67): there dequeue_running goes through the      *)
(* array in the steps of its loops, and other threads come in between.     *)
(***************************************************************************)
EXTENDS Kernel

VARIABLES running_list,     \* its entries; size is its length
          dq,               \* where each CPU is in an unlocked dequeue_running
          raced             \* history: a CPU used the list during a removal

listVars == <<running_list, dq, raced>>
rlVars   == <<vars, listVars>>

Idle  == [at |-> "idle", k |-> 0]
Start == [at |-> "find", k |-> 1]
Done  == [at |-> "done", k |-> 0]

------------------------------------------------------------------------------
(* dequeue_running(list, p) in one step: the first entry of p goes.        *)
(* (Faulty variants: see Timer.)                                           *)
Without_Keeps(list, p) == list
Without(list, p) ==
  LET found == {k \in DOMAIN list : list[k] = p}
      first == CHOOSE k \in found : \A j \in found : k <= j
  IN  IF found = {} THEN list
      ELSE SubSeq(list, 1, first - 1) \o SubSeq(list, first + 1, Len(list))

(* The same in steps: the position d looks for p from the front, then      *)
(* moves the entries behind it down, then drops the last one (its NULL and *)
(* size--, taken together).  Every step reads the size again.              *)
Searching(list, p, d) == d.at = "find" /\ d.k <= Len(list) /\ list[d.k] # p
Found(list, p, d)     == d.at = "find" /\ d.k <= Len(list) /\ list[d.k] = p
Shifting(list, d)     == d.at = "shift" /\ d.k < Len(list)

NextPosition(list, p, d) ==
  CASE Searching(list, p, d) \/ Shifting(list, d) -> [d EXCEPT !.k = @ + 1]
    [] Found(list, p, d)                          -> [d EXCEPT !.at = "shift"]
    [] d.at = "find" /\ d.k > Len(list)           -> Done
    [] d.at = "shift" /\ d.k >= Len(list)         -> [d EXCEPT !.at = "clear"]
    [] d.at = "clear"                             -> Done

NextList_NoSizeDec(list, d) == IF Shifting(list, d) THEN [list EXCEPT ![d.k] = list[d.k + 1]] ELSE list
NextList(list, d) ==
  CASE Shifting(list, d) -> [list EXCEPT ![d.k] = list[d.k + 1]]
    [] d.at = "clear"    -> SubSeq(list, 1, Len(list) - 1)
    [] OTHER             -> list

Removing(c) == dq[c].at \in {"find", "shift", "clear"}

(* CPU c uses the list.                                                    *)
UseList(c) == raced' = (raced \/ \E d \in CPUs \ {c} : Removing(d))

------------------------------------------------------------------------------

RLInit ==
  /\ Init
  /\ running_list = <<>>
  /\ dq = [c \in CPUs |-> Idle]
  /\ raced = FALSE

(* get_mlq_proc puts what it returns on the list.                          *)
TakeRunning(p) == IF p = NULL THEN running_list ELSE Enqueue(running_list, p)

RunNext(c) ==
  /\ FetchIdle(c) \/ FetchNext(c)
  /\ running_list' = TakeRunning(proc'[c])
  /\ UseList(c)
  /\ UNCHANGED dq

RunAgainLater(c) ==
  /\ PutProc(c)
  /\ running_list' = Without(running_list, proc[c])
  /\ UseList(c)
  /\ UNCHANGED dq

(* The process has finished: dequeue_running(proc->running_list, proc),    *)
(* then free(proc).                                                        *)
StartRemoval(c) ==
  /\ At(c, "check") /\ proc[c] # NULL /\ HasFinished(c)
  /\ dq[c] = Idle
  /\ dq' = [dq EXCEPT ![c] = Start]
  /\ UNCHANGED <<vars, running_list, raced>>

StepRemoval(c) ==
  /\ At(c, "check") /\ Removing(c)
  /\ dq' = [dq EXCEPT ![c] = NextPosition(running_list, proc[c], @)]
  /\ running_list' = NextList(running_list, dq[c])
  /\ UseList(c)
  /\ UNCHANGED vars

EndRemoval(c) ==
  /\ dq[c] = Done
  /\ FinishProc(c)
  /\ dq' = [dq EXCEPT ![c] = Idle]
  /\ UNCHANGED <<running_list, raced>>

RLCPU(c) ==
  \/ RunNext(c) \/ RunAgainLater(c)
  \/ StartRemoval(c) \/ StepRemoval(c) \/ EndRemoval(c)
  \/ /\ KeepProc(c) \/ StopCPU(c) \/ SkipSlot(c) \/ RunProc(c) \/ EndSlot(c)
     /\ UNCHANGED listVars

(* add_proc also looks for the new process on the list, where it never is. *)
RLLoader ==
  \/ /\ AddProc
     /\ running_list' = Without(running_list, Loaded)
     /\ UNCHANGED <<dq, raced>>
  \/ /\ AwaitStart \/ LoaderEndSlot \/ SetDone \/ DetachLoader
     /\ UNCHANGED listVars

RLNext ==
  \/ \E c \in CPUs : RLCPU(c)
  \/ RLLoader
  \/ (NewSlot \/ Finished) /\ UNCHANGED listVars

RLSpec == /\ RLInit /\ [][RLNext]_rlVars
          /\ WF_rlVars(NewSlot /\ UNCHANGED listVars)
          /\ WF_rlVars(RLLoader)
          /\ \A c \in CPUs : WF_rlVars(RLCPU(c))

------------------------------------------------------------------------------

Entries(p) == {k \in DOMAIN running_list : running_list[k] = p}

(* sys_killall.c:38, "walk the list of the running processes": whenever no *)
(* CPU is inside the unlocked removal, the list holds every process that a *)
(* CPU has in hand, once, and nothing else: no process killall could not   *)
(* reach, and none whose pcb is freed.                                     *)
RunningExact ==
  (\A c \in CPUs : dq[c] = Idle) =>
    \A p \in Procs :
      Cardinality(Entries(p)) = IF \E c \in CPUs : Holds(c, p) THEN 1 ELSE 0

(* The steps of the removal themselves are right, and it is no matter that *)
(* the loader looks through the list meanwhile: the list is exact, for any *)
(* number of CPUs, until a CPU uses it while another removes its process.  *)
ExactUnlessRaced == ~raced => RunningExact

(* Keeping the list changes nothing of the scheduling: every step of sched.c *)
(* and os.c with the list is one of Kernel, or changes the list only.      *)
ImplementsKernel == Init /\ [][Next]_vars

==============================================================================
