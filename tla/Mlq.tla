--------------------------------- MODULE Mlq ---------------------------------
(***************************************************************************)
(* queue.c and the multi-level queue of sched.c: one bounded FIFO queue    *)
(* and one quota of slots for each priority, smaller number first.  Every  *)
(* operation holds queue_lock from start to end, so it is one step.        *)
(*                                                                         *)
(* running_list is in module RunningList: only sys_killall reads it, and   *)
(* cpu_routine removes finished processes from it without the lock.        *)
(***************************************************************************)
EXTENDS Integers, Sequences

CONSTANTS MAX_PRIO,         \* number of priorities
          MAX_QUEUE_SIZE    \* capacity of each queue

ASSUME MlqAssumption ==
  MAX_PRIO \in Nat \ {0} /\ MAX_QUEUE_SIZE \in Nat \ {0}

Prios == 0 .. MAX_PRIO - 1

NULL == 0                   \* processes are numbered from 1

VARIABLES mlq_ready_queue,  \* the queue of each priority
          slot              \* how often each priority may still be served

mlqVars == <<mlq_ready_queue, slot>>

Quota == [i \in Prios |-> MAX_PRIO - i]

init_scheduler ==
  /\ mlq_ready_queue = [i \in Prios |-> <<>>]
  /\ slot = Quota

(* A full queue drops the process.  (Faulty variants: see Timer.)          *)
Enqueue_OffByOne(q, p) ==
  IF Len(q) < MAX_QUEUE_SIZE - 1 THEN Append(q, p) ELSE q
Enqueue(q, p) == IF Len(q) < MAX_QUEUE_SIZE THEN Append(q, p) ELSE q

Dequeue_Keeps(q) == q
Dequeue(q) == Tail(q)

Charge_Nothing(s, i) == s
Charge(s, i) == [s EXCEPT ![i] = @ - 1]

(* The priorities an attempt of get_mlq_proc stops at, with quotas s.      *)
Servable_NoQuota(s) == {i \in Prios : mlq_ready_queue[i] # <<>>}
Servable(s) == {i \in Prios : s[i] > 0 /\ mlq_ready_queue[i] # <<>>}

(* The quotas of the attempt that counts: the second one, after the reset, *)
(* when the first finds nothing.                                           *)
Quotas == IF Servable(slot) # {} THEN slot ELSE Quota

(* get_proc returns p; NULL leaves every quota reset.                      *)
get_proc(p) ==
  \/ /\ Servable(Quotas) = {}
     /\ p = NULL
     /\ slot' = Quotas
     /\ UNCHANGED mlq_ready_queue
  \/ \E i \in Servable(Quotas) :
       /\ \A j \in Servable(Quotas) : i <= j
       /\ p = Head(mlq_ready_queue[i])
       /\ mlq_ready_queue' = [mlq_ready_queue EXCEPT ![i] = Dequeue(@)]
       /\ slot' = Charge(Quotas, i)

(* put_proc and add_proc of a process whose priority is i.                 *)
put_proc(p, i) ==
  /\ mlq_ready_queue' = [mlq_ready_queue EXCEPT ![i] = Enqueue(@, p)]
  /\ UNCHANGED slot

==============================================================================
