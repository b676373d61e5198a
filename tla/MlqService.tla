------------------------------ MODULE MlqService ------------------------------
(***************************************************************************)
(* The ready queue of sched.c under processes that never end: CPUs that    *)
(* get a process and put it back for ever, processes that are added at any *)
(* time.  It asks what the quotas of get_mlq_proc are for: does every      *)
(* ready process get its turn, and after how many others?                  *)
(***************************************************************************)
EXTENDS Mlq, FiniteSets

CONSTANTS CPUs, NumProcs

ASSUME ServiceAssumption == NumProcs \in 1 .. MAX_QUEUE_SIZE

Procs == 1..NumProcs

VARIABLES prio,         \* priority of each process, chosen by the user
          added,        \* the processes handed to add_proc
          held,         \* the process each CPU holds
          passed        \* history: processes served since p was queued last,
                        \* counted up to one more than MostPassed

vars == <<mlqVars, prio, added, held, passed>>

------------------------------------------------------------------------------

(* The processes served while p waits.  Between two resets each priority   *)
(* is served at most its quota, Round services in all.  p is behind at     *)
(* most Rivals others of its own priority, its priority is served `quota'  *)
(* times a round, and p may be queued when its own quota is used up.       *)
Round == (MAX_PRIO * (MAX_PRIO + 1)) \div 2

MostPassed(p) ==
  LET quota  == MAX_PRIO - prio[p]
      rivals == Cardinality({q \in Procs \ {p} : prio[q] = prio[p]})
  IN  rivals + (rivals \div quota + 2) * (Round - quota)

------------------------------------------------------------------------------

Init ==
  /\ init_scheduler
  /\ prio \in [Procs -> Prios]
  /\ added = {}
  /\ held = [c \in CPUs |-> NULL]
  /\ passed = [p \in Procs |-> 0]

Add(p) ==
  /\ p \notin added
  /\ put_proc(p, prio[p])
  /\ added' = added \union {p}
  /\ passed' = [passed EXCEPT ![p] = 0]
  /\ UNCHANGED <<prio, held>>

Ready(p) == \E k \in DOMAIN mlq_ready_queue[prio[p]] :
              mlq_ready_queue[prio[p]][k] = p

Get(c) ==
  /\ held[c] = NULL
  /\ \E p \in Procs \union {NULL} :
       /\ get_proc(p)
       /\ held' = [held EXCEPT ![c] = p]
       /\ passed' = [q \in Procs |->
                       IF Ready(q) /\ q # p /\ passed[q] <= MostPassed(q)
                       THEN passed[q] + 1 ELSE passed[q]]
  /\ UNCHANGED <<prio, added>>

Put(c) ==
  /\ held[c] # NULL
  /\ put_proc(held[c], prio[held[c]])
  /\ held' = [held EXCEPT ![c] = NULL]
  /\ passed' = [passed EXCEPT ![held[c]] = 0]
  /\ UNCHANGED <<prio, added>>

Next ==
  \/ \E p \in Procs : Add(p)
  \/ \E c \in CPUs : Get(c) \/ Put(c)

(* Every CPU keeps getting processes and giving them back when their       *)
(* quantum is over; nothing forces a process to be loaded.                 *)
Spec == Init /\ [][Next]_vars /\ \A c \in CPUs : WF_vars(Get(c) \/ Put(c))

------------------------------------------------------------------------------

TypeOK ==
  /\ mlq_ready_queue \in [Prios -> Seq(Procs)]
  /\ slot \in [Prios -> 0..MAX_PRIO]
  /\ prio \in [Procs -> Prios]
  /\ added \subseteq Procs
  /\ held \in [CPUs -> Procs \union {NULL}]
  /\ passed \in [Procs -> Nat]

(* A ready process of any priority is passed over a bounded number of      *)
(* times, whatever is added or put back in the meantime (the quotas of     *)
(* get_mlq_proc, sched.c).                                                 *)
WaitBounded == \A p \in Procs : Ready(p) => passed[p] <= MostPassed(p)

(* And it gets a CPU: strict priority would starve the low priorities.     *)
NoStarvation ==
  \A p \in Procs : Ready(p) ~> \E c \in CPUs : held[c] = p

==============================================================================
