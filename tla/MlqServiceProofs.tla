--------------------------- MODULE MlqServiceProofs ---------------------------
(***************************************************************************)
(* Proofs about the quotas of get_mlq_proc (sched.c) for any number of     *)
(* CPUs, processes and priorities: how many others are served before a     *)
(* process that is ready.                                                  *)
(***************************************************************************)
EXTENDS MlqService, FiniteSetTheorems, WellFoundedInduction, TLAPS

------------------------------------------------------------------------------
(* Adding up quotas.  Module Mlq has no operator for it: the sum of a      *)
(* function on Prios is the last of its partial sums.                      *)

Sums(S, s) ==
  /\ S[0] = 0
  /\ \A k \in Prios : S[k + 1] = S[k] + s[k]

AddUpTo(s, n) ==
  \E S \in [0..MAX_PRIO -> Int] : Sums(S, s) /\ S[MAX_PRIO] = n

(* A set of natural numbers has a least element.                           *)
LEMMA LeastNat ==
  ASSUME NEW T \in SUBSET Nat, T # {}
  PROVE  \E x \in T : \A y \in T : x <= y
<1> DEFINE R == OpToRel(<, Nat)
<1>1. IsWellFoundedOn(R, Nat)
  BY NatLessThanWellFounded
<1>2. \E x \in T : \A y \in T : ~(<<y, x>> \in R)
  <2> HIDE DEF R
  <2> QED
    BY <1>1, WFMin
<1>3. \A x, y \in Nat : <<y, x>> \in R <=> y < x
  BY DEF OpToRel
<1> HIDE DEF R
<1>4. QED
  <2>1. PICK x \in T : \A y \in T : ~(<<y, x>> \in R)
    BY <1>2
  <2>2. \A y \in T : ~(y < x)
    BY <1>3, <2>1
  <2>3. \A y \in T : x <= y
    BY <2>2
  <2>4. QED
    BY <2>3

LEMMA PriosIs ==
  /\ MAX_PRIO \in Nat \ {0}
  /\ \A k : k \in Prios <=> k \in Nat /\ k < MAX_PRIO
BY MlqAssumption DEF Prios

(* Partial sums of terms that are not negative rise.                       *)
LEMMA SumsRise ==
  ASSUME NEW S \in [0..MAX_PRIO -> Int], \A k \in Prios : S[k] <= S[k + 1],
         NEW j \in 0..MAX_PRIO
  PROVE  S[0] <= S[j] /\ S[j] <= S[MAX_PRIO]
<1>1. S[0] <= S[j]
  <2> DEFINE T == {k \in 0..MAX_PRIO : S[k] < S[0]}
  <2>1. CASE T = {}
    BY <2>1, PriosIs
  <2>2. CASE T # {}
    <3>1. T \in SUBSET Nat
      OBVIOUS
    <3>2. PICK x \in T : \A y \in T : x <= y
      BY <2>2, <3>1, LeastNat
    <3>3. x \in 0..MAX_PRIO /\ S[x] < S[0] /\ x # 0
      BY <3>2, PriosIs
    <3>4. x - 1 \in Prios /\ x - 1 \in 0..MAX_PRIO /\ x - 1 + 1 = x
      BY <3>3, PriosIs
    <3>5. S[x - 1] <= S[x]
      BY <3>4
    <3>6. x - 1 \in T
      BY <3>3, <3>4, <3>5, PriosIs
    <3>7. QED
      BY <3>2, <3>3, <3>6
  <2>3. QED
    BY <2>1, <2>2
<1>2. S[j] <= S[MAX_PRIO]
  <2> DEFINE T == {k \in 0..MAX_PRIO : S[MAX_PRIO] < S[MAX_PRIO - k]}
  <2>1. CASE T = {}
    <3>1. MAX_PRIO - j \in 0..MAX_PRIO /\ MAX_PRIO - (MAX_PRIO - j) = j
      BY PriosIs
    <3>2. ~(S[MAX_PRIO] < S[j])
      BY <2>1, <3>1
    <3>3. QED
      BY <3>2, PriosIs
  <2>2. CASE T # {}
    <3>1. T \in SUBSET Nat
      OBVIOUS
    <3>2. PICK x \in T : \A y \in T : x <= y
      BY <2>2, <3>1, LeastNat
    <3>3. x \in 0..MAX_PRIO /\ S[MAX_PRIO] < S[MAX_PRIO - x] /\ x # 0
      BY <3>2, PriosIs
    <3>4. /\ x - 1 \in 0..MAX_PRIO /\ MAX_PRIO - x \in Prios
          /\ MAX_PRIO - x + 1 = MAX_PRIO - (x - 1)
      BY <3>3, PriosIs
    <3>5. S[MAX_PRIO - x] <= S[MAX_PRIO - (x - 1)]
      BY <3>4
    <3>6. S[MAX_PRIO] \in Int /\ S[MAX_PRIO - x] \in Int /\ S[MAX_PRIO - (x - 1)] \in Int
      BY <3>4, PriosIs
    <3>7. x - 1 \in T
      BY <3>3, <3>4, <3>5, <3>6
    <3>8. QED
      BY <3>2, <3>3, <3>7
  <2>3. QED
    BY <2>1, <2>2
<1>3. QED
  BY <1>1, <1>2

(* MAX_PRIO + ... + 2 + 1.                                                 *)
Half(k) == (k * (k + 1)) \div 2

LEMMA HalfIs ==
  /\ Half(0) = 0
  /\ \A k \in Nat : Half(k) \in Nat /\ Half(k + 1) = Half(k) + (k + 1)
<1>1. ASSUME NEW k \in Nat PROVE Half(k) \in Nat /\ Half(k + 1) = Half(k) + (k + 1)
  <2> DEFINE x == k * (k + 1)
             y == k + 1
  <2>1. x \in Nat /\ y \in Nat
    OBVIOUS
  <2>2. (k + 1) * (k + 1 + 1) = x + 2 * y
    OBVIOUS
  <2>3. (x + 2 * y) \div 2 = x \div 2 + y /\ x \div 2 \in Nat
    <3> HIDE DEF x, y
    <3>1. QED
      BY <2>1
  <2>4. QED
    BY <2>2, <2>3 DEF Half
<1>2. Half(0) = 0
  BY DEF Half
<1>3. QED
  BY <1>1, <1>2

LEMMA RoundIs == Round = Half(MAX_PRIO) /\ Round \in Nat
BY PriosIs, HalfIs DEF Round, Half

(* The partial sums of the quotas after a reset.                           *)
QuotaSums == [k \in 0..MAX_PRIO |-> Half(MAX_PRIO) - Half(MAX_PRIO - k)]

LEMMA QuotaSumsIs ==
  /\ QuotaSums \in [0..MAX_PRIO -> Int]
  /\ Sums(QuotaSums, Quota)
  /\ QuotaSums[MAX_PRIO] = Round
<1>1. \A k \in 0..MAX_PRIO : MAX_PRIO - k \in Nat /\ Half(MAX_PRIO - k) \in Nat
  BY PriosIs, HalfIs
<1>2. 0 \in 0..MAX_PRIO /\ MAX_PRIO \in 0..MAX_PRIO /\ Half(MAX_PRIO) \in Nat
  BY PriosIs, HalfIs
<1>3. QuotaSums \in [0..MAX_PRIO -> Int]
  BY <1>1, <1>2 DEF QuotaSums
<1>4. QuotaSums[0] = 0 /\ QuotaSums[MAX_PRIO] = Round
  <2>1. MAX_PRIO - 0 = MAX_PRIO /\ MAX_PRIO - MAX_PRIO = 0
    BY PriosIs
  <2>2. QED
    BY <1>2, <2>1, HalfIs, RoundIs DEF QuotaSums
<1>5. ASSUME NEW k \in Prios PROVE QuotaSums[k + 1] = QuotaSums[k] + Quota[k]
  <2> DEFINE m == MAX_PRIO - (k + 1)
  <2>1. /\ m \in Nat /\ MAX_PRIO - k = m + 1
        /\ k \in 0..MAX_PRIO /\ k + 1 \in 0..MAX_PRIO /\ Quota[k] = m + 1
    BY PriosIs DEF Quota
  <2>2. Half(m + 1) = Half(m) + (m + 1) /\ Half(m) \in Nat
    BY <2>1, HalfIs
  <2>3. /\ QuotaSums[k] = Half(MAX_PRIO) - Half(m + 1)
        /\ QuotaSums[k + 1] = Half(MAX_PRIO) - Half(m)
    BY <2>1 DEF QuotaSums
  <2> HIDE DEF m
  <2>4. QED
    BY <1>2, <2>1, <2>2, <2>3
<1>6. QED
  BY <1>3, <1>4, <1>5 DEF Sums

LEMMA QuotaAddsUp == AddUpTo(Quota, Round)
BY QuotaSumsIs DEF AddUpTo

LEMMA ChargeAddsUp ==
  ASSUME NEW s \in [Prios -> Int], NEW n \in Int, AddUpTo(s, n), NEW i \in Prios
  PROVE  AddUpTo(Charge(s, i), n - 1)
<1>1. PICK S \in [0..MAX_PRIO -> Int] : Sums(S, s) /\ S[MAX_PRIO] = n
  BY DEF AddUpTo
<1> DEFINE S1 == [k \in 0..MAX_PRIO |-> IF i < k THEN S[k] - 1 ELSE S[k]]
<1>2. S1 \in [0..MAX_PRIO -> Int]
  OBVIOUS
<1>3. S1[0] = 0 /\ S1[MAX_PRIO] = n - 1
  BY <1>1, PriosIs DEF Sums
<1>4. ASSUME NEW k \in Prios PROVE S1[k + 1] = S1[k] + Charge(s, i)[k]
  <2>1. k \in 0..MAX_PRIO /\ k + 1 \in 0..MAX_PRIO /\ k \in Int /\ i \in Int
    BY PriosIs
  <2>2. S[k + 1] = S[k] + s[k] /\ S[k] \in Int /\ s[k] \in Int
    BY <1>1, <2>1 DEF Sums
  <2>3. Charge(s, i)[k] = IF k = i THEN s[k] - 1 ELSE s[k]
    BY DEF Charge
  <2>4. QED
    BY <2>1, <2>2, <2>3
<1>5. QED
  BY <1>2, <1>3, <1>4 DEF AddUpTo, Sums

(* What other priorities have left, and never more than a whole round.     *)
LEMMA OthersLeft ==
  ASSUME NEW s \in [Prios -> Nat], \A j \in Prios : s[j] <= MAX_PRIO - j,
         NEW n \in Int, AddUpTo(s, n), NEW i \in Prios
  PROVE  s[i] <= n /\ n - s[i] <= Round - (MAX_PRIO - i)
<1>1. PICK S \in [0..MAX_PRIO -> Int] : Sums(S, s) /\ S[MAX_PRIO] = n
  BY DEF AddUpTo
<1>2. \A k \in Prios : k \in 0..MAX_PRIO /\ k + 1 \in 0..MAX_PRIO
  BY PriosIs
<1>3. 0 \in 0..MAX_PRIO /\ MAX_PRIO \in 0..MAX_PRIO
  BY PriosIs
<1>4. s[i] <= n
  <2>1. \A k \in Prios : S[k] <= S[k + 1]
    BY <1>1, <1>2 DEF Sums
  <2>2. S[0] <= S[i] /\ S[i + 1] <= S[MAX_PRIO]
    BY <1>2, <2>1, SumsRise
  <2>3. QED
    BY <1>1, <1>2, <2>2 DEF Sums
<1>5. n - s[i] <= Round - (MAX_PRIO - i)
  <2> DEFINE D == [k \in 0..MAX_PRIO |-> QuotaSums[k] - S[k]]
  <2>1. /\ \A k \in 0..MAX_PRIO : QuotaSums[k] \in Int /\ S[k] \in Int
        /\ QuotaSums[0] = 0 /\ S[0] = 0
    BY <1>1, QuotaSumsIs DEF Sums
  <2>2. \A k \in Prios : /\ QuotaSums[k + 1] = QuotaSums[k] + (MAX_PRIO - k)
                         /\ S[k + 1] = S[k] + s[k] /\ s[k] \in Nat
                         /\ s[k] <= MAX_PRIO - k /\ MAX_PRIO - k \in Int
    BY <1>1, QuotaSumsIs, PriosIs DEF Sums, Quota
  <2>3. D \in [0..MAX_PRIO -> Int]
    BY <2>1
  <2>4. \A k \in Prios : D[k] <= D[k + 1]
    <3> TAKE k \in Prios
    <3>1. k \in 0..MAX_PRIO /\ k + 1 \in 0..MAX_PRIO
      BY <1>2
    <3>2. D[k] = QuotaSums[k] - S[k] /\ D[k + 1] = QuotaSums[k + 1] - S[k + 1]
      BY <3>1
    <3>3. /\ QuotaSums[k] \in Int /\ S[k] \in Int /\ s[k] \in Int /\ MAX_PRIO - k \in Int
          /\ QuotaSums[k + 1] = QuotaSums[k] + (MAX_PRIO - k)
          /\ S[k + 1] = S[k] + s[k] /\ s[k] <= MAX_PRIO - k
      BY <2>1, <2>2, <3>1
    <3> HIDE DEF D
    <3>4. QED
      BY <3>2, <3>3
  <2>5. D[0] = 0 /\ D[MAX_PRIO] = Round - n
    BY <1>1, <1>3, <2>1, QuotaSumsIs
  <2>6. D[i + 1] = D[i] + ((MAX_PRIO - i) - s[i])
    BY <1>2, <2>1, <2>2
  <2> HIDE DEF D
  <2>7. D[0] <= D[i] /\ D[i + 1] <= D[MAX_PRIO]
    BY <1>2, <2>3, <2>4, SumsRise
  <2>8. D[i] \in Int /\ D[i + 1] \in Int
    BY <1>2, <2>3
  <2>9. QED
    BY <2>2, <2>5, <2>6, <2>7, <2>8, RoundIs
<1>6. QED
  BY <1>4, <1>5

LEMMA OthersQuota ==
  ASSUME NEW i \in Prios
  PROVE  MAX_PRIO - i \in Nat \ {0} /\ Round - (MAX_PRIO - i) \in Nat
<1>1. Quota \in [Prios -> Nat] /\ \A j \in Prios : Quota[j] = MAX_PRIO - j
  BY PriosIs DEF Quota
<1>2. Quota[i] <= Round
  BY <1>1, QuotaAddsUp, RoundIs, OthersLeft, PriosIs
<1>3. QED
  BY <1>1, <1>2, RoundIs, PriosIs

------------------------------------------------------------------------------
(* The operations of the ready queue.                                      *)

QueueType ==
  /\ mlq_ready_queue \in [Prios -> Seq(Procs)]
  /\ slot \in [Prios -> Nat]
  /\ \A i \in Prios : slot[i] <= MAX_PRIO - i

LEMMA NullIsNoProc == NULL \notin Procs
BY DEF NULL, Procs

LEMMA QuotaIs ==
  /\ Quota \in [Prios -> Nat]
  /\ \A i \in Prios : Quota[i] = MAX_PRIO - i /\ Quota[i] > 0
BY PriosIs DEF Quota

(* dequeue: the others move up one place.                                  *)
LEMMA DequeueIs ==
  ASSUME NEW q \in Seq(Procs), q # <<>>
  PROVE  /\ Dequeue(q) \in Seq(Procs)
         /\ Len(q) \in Nat /\ 1 \in DOMAIN q /\ Head(q) = q[1] /\ Head(q) \in Procs
         /\ \A k \in DOMAIN Dequeue(q) :
              k \in Nat \ {0} /\ k + 1 \in DOMAIN q /\ Dequeue(q)[k] = q[k + 1]
BY DEF Dequeue

(* enqueue: at the end, or nowhere.                                        *)
LEMMA EnqueueIs ==
  ASSUME NEW q \in Seq(Procs), NEW p \in Procs
  PROVE  /\ Enqueue(q, p) \in Seq(Procs)
         /\ \A k \in DOMAIN Enqueue(q, p) :
              \/ k \in DOMAIN q /\ Enqueue(q, p)[k] = q[k]
              \/ k = Len(q) + 1 /\ Enqueue(q, p)[k] = p
<1>1. CASE Len(q) < MAX_QUEUE_SIZE
  <2>1. Enqueue(q, p) = Append(q, p)
    BY <1>1 DEF Enqueue
  <2>2. /\ Append(q, p) \in Seq(Procs)
        /\ Len(Append(q, p)) = Len(q) + 1
        /\ \A k \in 1..Len(q) : Append(q, p)[k] = q[k]
        /\ Append(q, p)[Len(q) + 1] = p
    OBVIOUS
  <2>3. QED
    BY <2>1, <2>2
<1>2. CASE ~(Len(q) < MAX_QUEUE_SIZE)
  BY <1>2 DEF Enqueue
<1>3. QED
  BY <1>1, <1>2

(* get_proc took the head of queue i, with the quotas it found or, when    *)
(* nobody could be served with them, those of a reset.                     *)
Served(i, p) ==
  /\ mlq_ready_queue[i] # <<>> /\ p = Head(mlq_ready_queue[i])
  /\ mlq_ready_queue' = [mlq_ready_queue EXCEPT ![i] = Dequeue(@)]
  /\ \/ slot[i] > 0 /\ slot' = Charge(slot, i)
     \/ /\ \A j \in Prios : mlq_ready_queue[j] # <<>> => slot[j] = 0
        /\ slot' = Charge(Quota, i)

LEMMA GetIs ==
  ASSUME QueueType, NEW p, get_proc(p)
  PROVE  \/ /\ p = NULL /\ UNCHANGED mlq_ready_queue
            /\ \A j \in Prios : mlq_ready_queue[j] = <<>>
            /\ slot' \in {slot, Quota}
         \/ \E i \in Prios : Served(i, p)
<1>1. Servable(slot) = {} =>
        \A j \in Prios : mlq_ready_queue[j] # <<>> => slot[j] = 0
  BY DEF Servable, QueueType
<1>2. CASE p = NULL /\ slot' = Quotas /\ UNCHANGED mlq_ready_queue /\ Servable(Quotas) = {}
  <2>1. Servable(slot) = {} /\ Quotas = Quota
    BY <1>2 DEF Quotas
  <2>2. \A j \in Prios : mlq_ready_queue[j] = <<>>
    BY <1>2, <2>1, QuotaIs DEF Servable
  <2>3. QED
    BY <1>2, <2>1, <2>2
<1>3. CASE \E i \in Servable(Quotas) :
             /\ p = Head(mlq_ready_queue[i])
             /\ mlq_ready_queue' = [mlq_ready_queue EXCEPT ![i] = Dequeue(@)]
             /\ slot' = Charge(Quotas, i)
  <2>1. PICK i \in Servable(Quotas) :
             /\ p = Head(mlq_ready_queue[i])
             /\ mlq_ready_queue' = [mlq_ready_queue EXCEPT ![i] = Dequeue(@)]
             /\ slot' = Charge(Quotas, i)
    BY <1>3
  <2>2. i \in Prios /\ Quotas[i] > 0 /\ mlq_ready_queue[i] # <<>>
    BY DEF Servable
  <2>3. CASE Servable(slot) = {}
    BY <1>1, <2>1, <2>2, <2>3 DEF Quotas, Served
  <2>4. CASE Servable(slot) # {}
    BY <2>1, <2>2, <2>4 DEF Quotas, Served
  <2>5. QED
    BY <2>3, <2>4
<1>4. QED
  BY <1>2, <1>3 DEF get_proc

LEMMA ServedTypes ==
  ASSUME QueueType, NEW i \in Prios, NEW p, Served(i, p)
  PROVE  QueueType' /\ p \in Procs
<1>1. mlq_ready_queue[i] \in Seq(Procs)
  BY DEF QueueType
<1>2. p \in Procs /\ Dequeue(mlq_ready_queue[i]) \in Seq(Procs)
  BY <1>1, DequeueIs DEF Served
<1>3. mlq_ready_queue' \in [Prios -> Seq(Procs)]
  BY <1>2 DEF Served, QueueType
<1>4. PICK s \in [Prios -> Nat] :
        s[i] > 0 /\ slot' = Charge(s, i) /\ \A j \in Prios : s[j] <= MAX_PRIO - j
  <2>1. CASE slot[i] > 0 /\ slot' = Charge(slot, i)
    BY <2>1 DEF QueueType
  <2>2. CASE slot' = Charge(Quota, i)
    <3>1. \A j \in Prios : Quota[j] <= MAX_PRIO - j
      BY QuotaIs, PriosIs
    <3>2. QED
      BY <2>2, <3>1, QuotaIs
  <2>3. QED
    BY <2>1, <2>2 DEF Served
<1>5. slot' \in [Prios -> Nat] /\ \A j \in Prios : slot'[j] <= MAX_PRIO - j
  <2>1. s[i] - 1 \in Nat /\ s[i] - 1 <= MAX_PRIO - i
    BY <1>4, PriosIs
  <2>2. QED
    BY <1>4, <2>1 DEF Charge
<1>6. QED
  BY <1>2, <1>3, <1>5 DEF QueueType

LEMMA PutIs ==
  ASSUME QueueType, NEW p \in Procs, NEW i \in Prios, put_proc(p, i)
  PROVE  /\ QueueType' /\ slot' = slot
         /\ \A j \in Prios : \A k \in DOMAIN mlq_ready_queue'[j] :
              \/ /\ k \in DOMAIN mlq_ready_queue[j]
                 /\ mlq_ready_queue'[j][k] = mlq_ready_queue[j][k]
              \/ /\ j = i /\ k = Len(mlq_ready_queue[i]) + 1
                 /\ mlq_ready_queue'[j][k] = p
<1>1. mlq_ready_queue[i] \in Seq(Procs)
  BY DEF QueueType
<1>2. /\ mlq_ready_queue' = [mlq_ready_queue EXCEPT ![i] = Enqueue(mlq_ready_queue[i], p)]
      /\ slot' = slot
  BY DEF put_proc
<1>3. mlq_ready_queue' \in [Prios -> Seq(Procs)]
  BY <1>1, <1>2, EnqueueIs DEF QueueType
<1>4. \A j \in Prios : mlq_ready_queue'[j] = IF j = i THEN Enqueue(mlq_ready_queue[i], p)
                                                     ELSE mlq_ready_queue[j]
  BY <1>2 DEF QueueType
<1>5. QED
  BY <1>1, <1>2, <1>3, <1>4, EnqueueIs DEF QueueType

------------------------------------------------------------------------------
(* Types, and where a process can be.                                      *)

(* A queue has processes of its priority, once each, and none of them is   *)
(* held by a CPU; no two CPUs hold the same.                               *)
PlaceInv ==
  /\ \A i \in Prios : \A k \in DOMAIN mlq_ready_queue[i] :
       mlq_ready_queue[i][k] \in added /\ prio[mlq_ready_queue[i][k]] = i
  /\ \A i \in Prios : \A k, l \in DOMAIN mlq_ready_queue[i] :
       mlq_ready_queue[i][k] = mlq_ready_queue[i][l] => k = l
  /\ \A c \in CPUs, i \in Prios : \A k \in DOMAIN mlq_ready_queue[i] :
       held[c] # mlq_ready_queue[i][k]
  /\ \A c \in CPUs : held[c] # NULL => held[c] \in added
  /\ \A c, d \in CPUs : held[c] # NULL /\ held[c] = held[d] => c = d

TypeInv ==
  /\ QueueType
  /\ prio \in [Procs -> Prios] /\ added \subseteq Procs
  /\ held \in [CPUs -> Procs \union {NULL}]
  /\ passed \in [Procs -> Nat]

LEMMA TypeImplies == TypeInv => TypeOK
<1> SUFFICES ASSUME TypeInv PROVE TypeOK
  OBVIOUS
<1>1. \A i \in Prios : slot[i] \in 0..MAX_PRIO
  BY PriosIs DEF TypeInv, QueueType
<1>2. slot \in [Prios -> 0..MAX_PRIO]
  BY <1>1 DEF TypeInv, QueueType
<1>3. QED
  BY <1>2 DEF TypeInv, QueueType, TypeOK

LEMMA TypeStep == TypeInv /\ [Next]_vars => TypeInv'
<1> SUFFICES ASSUME TypeInv, [Next]_vars PROVE TypeInv'
  OBVIOUS
<1>1. CASE UNCHANGED vars
  BY <1>1 DEF TypeInv, QueueType, vars, mlqVars
<1>2. ASSUME NEW p \in Procs, Add(p) PROVE TypeInv'
  <2>1. QueueType'
    BY <1>2, PutIs DEF TypeInv, Add
  <2>2. QED
    BY <1>2, <2>1 DEF TypeInv, Add
<1>3. ASSUME NEW c \in CPUs, Get(c) PROVE TypeInv'
  <2>1. PICK p \in Procs \union {NULL} :
          /\ get_proc(p)
          /\ held' = [held EXCEPT ![c] = p]
          /\ passed' = [q \in Procs |->
                          IF Ready(q) /\ q # p /\ passed[q] <= MostPassed(q)
                          THEN passed[q] + 1 ELSE passed[q]]
    BY <1>3 DEF Get
  <2>2. QueueType'
    <3>1. CASE UNCHANGED mlq_ready_queue /\ slot' \in {slot, Quota}
      BY <3>1, QuotaIs, PriosIs DEF TypeInv, QueueType
    <3>2. CASE \E i \in Prios : Served(i, p)
      BY <3>2, ServedTypes DEF TypeInv
    <3>3. QED
      BY <2>1, <3>1, <3>2, GetIs DEF TypeInv
  <2>3. passed' \in [Procs -> Nat]
    BY <2>1 DEF TypeInv
  <2>4. QED
    BY <1>3, <2>1, <2>2, <2>3 DEF TypeInv, Get
<1>4. ASSUME NEW c \in CPUs, Put(c) PROVE TypeInv'
  <2>1. held[c] \in Procs /\ prio[held[c]] \in Prios /\ put_proc(held[c], prio[held[c]])
    BY <1>4 DEF TypeInv, Put
  <2>2. QueueType'
    BY <2>1, PutIs DEF TypeInv
  <2>3. QED
    BY <1>4, <2>2 DEF TypeInv, Put
<1>5. QED
  BY <1>1, <1>2, <1>3, <1>4 DEF Next

(* A process that was nowhere is queued.                                   *)
LEMMA PlacePut ==
  ASSUME TypeInv, PlaceInv, NEW p \in Procs, put_proc(p, prio[p]),
         prio' = prio, added' = added \union {p},
         \A i \in Prios : \A k \in DOMAIN mlq_ready_queue[i] : mlq_ready_queue[i][k] # p,
         \A c \in CPUs : held'[c] # p /\ (held'[c] # NULL => held'[c] = held[c])
  PROVE  PlaceInv'
<1>1. prio[p] \in Prios
  BY DEF TypeInv
<1>2. \A i \in Prios : \A k \in DOMAIN mlq_ready_queue'[i] :
        \/ /\ k \in DOMAIN mlq_ready_queue[i]
           /\ mlq_ready_queue'[i][k] = mlq_ready_queue[i][k]
        \/ /\ i = prio[p] /\ k = Len(mlq_ready_queue[i]) + 1
           /\ mlq_ready_queue'[i][k] = p
  BY <1>1, PutIs DEF TypeInv
<1>3. \A i \in Prios : \A k \in DOMAIN mlq_ready_queue'[i] :
        mlq_ready_queue'[i][k] \in added' /\ prio'[mlq_ready_queue'[i][k]] = i
  BY <1>2 DEF PlaceInv
<1>4. \A i \in Prios : \A k, l \in DOMAIN mlq_ready_queue'[i] :
        mlq_ready_queue'[i][k] = mlq_ready_queue'[i][l] => k = l
  BY <1>2 DEF PlaceInv
<1>5. \A c \in CPUs, i \in Prios : \A k \in DOMAIN mlq_ready_queue'[i] :
        held'[c] # mlq_ready_queue'[i][k]
  <2> SUFFICES ASSUME NEW c \in CPUs, NEW i \in Prios, NEW k \in DOMAIN mlq_ready_queue'[i],
                      held'[c] = mlq_ready_queue'[i][k]
               PROVE  FALSE
    OBVIOUS
  <2>1. /\ k \in DOMAIN mlq_ready_queue[i]
        /\ held'[c] = mlq_ready_queue[i][k]
    BY <1>2
  <2>2. held'[c] # NULL
    BY <2>1, NullIsNoProc DEF TypeInv, QueueType
  <2>3. QED
    BY <2>1, <2>2 DEF PlaceInv
<1>6. /\ \A c \in CPUs : held'[c] # NULL => held'[c] \in added'
      /\ \A c, d \in CPUs : held'[c] # NULL /\ held'[c] = held'[d] => c = d
  BY DEF PlaceInv
<1>7. QED
  BY <1>3, <1>4, <1>5, <1>6 DEF PlaceInv

LEMMA PlaceServed ==
  ASSUME TypeInv, PlaceInv, NEW c \in CPUs, held[c] = NULL, NEW i \in Prios, NEW p,
         Served(i, p), held' = [held EXCEPT ![c] = p], UNCHANGED <<prio, added>>
  PROVE  PlaceInv'
<1> DEFINE q == mlq_ready_queue[i]
<1>1. q \in Seq(Procs) /\ q # <<>>
  BY DEF TypeInv, QueueType, Served
<1>2. /\ 1 \in DOMAIN q /\ p = q[1] /\ p \in Procs
      /\ \A k \in DOMAIN Dequeue(q) :
           k \in Nat \ {0} /\ k + 1 \in DOMAIN q /\ Dequeue(q)[k] = q[k + 1]
  BY <1>1, DequeueIs DEF Served
<1>3. /\ mlq_ready_queue'[i] = Dequeue(q)
      /\ \A j \in Prios : j # i => mlq_ready_queue'[j] = mlq_ready_queue[j]
  BY DEF Served, TypeInv, QueueType
<1> DEFINE Old(j, k) == IF j = i THEN k + 1 ELSE k
<1>4. \A j \in Prios : \A k \in DOMAIN mlq_ready_queue'[j] :
        /\ Old(j, k) \in DOMAIN mlq_ready_queue[j]
        /\ mlq_ready_queue'[j][k] = mlq_ready_queue[j][Old(j, k)]
        /\ j = i => k \in Nat \ {0}
  BY <1>2, <1>3
<1>5. \A j \in Prios : \A k \in DOMAIN mlq_ready_queue'[j] :
        mlq_ready_queue'[j][k] \in added' /\ prio'[mlq_ready_queue'[j][k]] = j
  BY <1>4 DEF PlaceInv
<1>6. ASSUME NEW j \in Prios, NEW k \in DOMAIN mlq_ready_queue'[j],
             NEW l \in DOMAIN mlq_ready_queue'[j],
             mlq_ready_queue'[j][k] = mlq_ready_queue'[j][l]
      PROVE  k = l
  <2>1. Old(j, k) = Old(j, l)
    BY <1>4, <1>6 DEF PlaceInv
  <2>2. j = i => k \in Nat /\ l \in Nat
    BY <1>4
  <2>3. QED
    BY <2>1, <2>2
<1>7. \A j \in Prios : \A k \in DOMAIN mlq_ready_queue'[j] : mlq_ready_queue'[j][k] # p
  <2> SUFFICES ASSUME NEW j \in Prios, NEW k \in DOMAIN mlq_ready_queue'[j],
                      mlq_ready_queue'[j][k] = p
               PROVE  FALSE
    OBVIOUS
  <2>1. mlq_ready_queue[j][Old(j, k)] = p /\ Old(j, k) \in DOMAIN mlq_ready_queue[j]
    BY <1>4
  <2>2. j = i
    BY <1>2, <2>1 DEF PlaceInv
  <2>3. k + 1 = 1
    BY <1>2, <2>1, <2>2 DEF PlaceInv
  <2>4. QED
    BY <1>4, <2>2, <2>3
<1>8. \A d \in CPUs, j \in Prios : \A k \in DOMAIN mlq_ready_queue'[j] :
        held'[d] # mlq_ready_queue'[j][k]
  BY <1>4, <1>7 DEF PlaceInv, TypeInv
<1>9. \A d \in CPUs : held'[d] # NULL => held'[d] \in added'
  BY <1>2 DEF PlaceInv, TypeInv
<1>10. \A d \in CPUs : held[d] # p
  BY <1>2 DEF PlaceInv
<1>11. \A d, e \in CPUs : held'[d] # NULL /\ held'[d] = held'[e] => d = e
  BY <1>10 DEF PlaceInv, TypeInv
<1>12. QED
  BY <1>5, <1>6, <1>8, <1>9, <1>11 DEF PlaceInv

LEMMA PlaceStep == TypeInv /\ PlaceInv /\ [Next]_vars => PlaceInv'
<1> SUFFICES ASSUME TypeInv, PlaceInv, [Next]_vars PROVE PlaceInv'
  OBVIOUS
<1>1. CASE UNCHANGED vars
  BY <1>1 DEF PlaceInv, vars, mlqVars
<1>2. ASSUME NEW p \in Procs, Add(p) PROVE PlaceInv'
  <2>1. /\ p \notin added /\ put_proc(p, prio[p]) /\ added' = added \union {p}
        /\ prio' = prio /\ held' = held
    BY <1>2 DEF Add
  <2>2. /\ \A i \in Prios : \A k \in DOMAIN mlq_ready_queue[i] : mlq_ready_queue[i][k] # p
        /\ \A c \in CPUs : held[c] # p
    BY <2>1, NullIsNoProc DEF PlaceInv
  <2>3. QED
    BY <2>1, <2>2, PlacePut
<1>3. ASSUME NEW c \in CPUs, Get(c) PROVE PlaceInv'
  <2>1. held[c] = NULL /\ UNCHANGED <<prio, added>>
    BY <1>3 DEF Get
  <2>2. PICK p \in Procs \union {NULL} : get_proc(p) /\ held' = [held EXCEPT ![c] = p]
    BY <1>3 DEF Get
  <2>3. CASE p = NULL /\ UNCHANGED mlq_ready_queue
    <3>1. held' = held
      BY <2>1, <2>2, <2>3 DEF TypeInv
    <3>2. QED
      BY <2>1, <2>3, <3>1 DEF PlaceInv
  <2>4. CASE \E i \in Prios : Served(i, p)
    BY <2>1, <2>2, <2>4, PlaceServed
  <2>5. QED
    BY <2>2, <2>3, <2>4, GetIs DEF TypeInv
<1>4. ASSUME NEW c \in CPUs, Put(c) PROVE PlaceInv'
  <2> DEFINE p == held[c]
  <2>1. /\ p # NULL /\ put_proc(p, prio[p]) /\ held' = [held EXCEPT ![c] = NULL]
        /\ prio' = prio /\ added' = added
    BY <1>4 DEF Put
  <2>2. p \in Procs /\ added' = added \union {p}
    BY <2>1 DEF TypeInv, PlaceInv
  <2>3. \A i \in Prios : \A k \in DOMAIN mlq_ready_queue[i] : mlq_ready_queue[i][k] # p
    BY DEF PlaceInv
  <2>4. \A d \in CPUs : held'[d] # p /\ (held'[d] # NULL => held'[d] = held[d])
    BY <2>1 DEF TypeInv, PlaceInv
  <2> HIDE DEF p
  <2>5. QED
    BY <2>1, <2>2, <2>3, <2>4, PlacePut
<1>5. QED
  BY <1>1, <1>2, <1>3, <1>4 DEF Next

LEMMA PlaceInit == Init => TypeInv /\ PlaceInv
<1> SUFFICES ASSUME Init PROVE TypeInv /\ PlaceInv
  OBVIOUS
<1>1. QueueType
  BY QuotaIs, PriosIs DEF Init, init_scheduler, QueueType
<1>2. \A i \in Prios : mlq_ready_queue[i] = <<>>
  BY DEF Init, init_scheduler
<1>3. QED
  BY <1>1, <1>2 DEF Init, TypeInv, PlaceInv

(* The type invariant, for every number of CPUs, processes and priorities. *)
THEOREM ServiceTypeOK == Spec => []TypeOK
BY PlaceInit, TypeStep, TypeImplies, PTL DEF Spec

------------------------------------------------------------------------------
(* How long a process waits.                                               *)

(* The resets of the quotas before a process is served that has `ahead'    *)
(* others before it in a queue that may be served s times until the next   *)
(* reset and `quota' times after each.                                     *)
Resets(ahead, s, quota) == IF ahead < s THEN 0 ELSE 1 + (ahead - s) \div quota

(* A bound on the processes served before the one at place k of queue i,   *)
(* when the quotas are s and add up to n: those before it in its queue,    *)
(* what the other priorities have left, and a round of theirs for each     *)
(* reset.                                                                  *)
Ahead(k, i, s, n) ==
  (k - 1) + (n - s[i])
    + Resets(k - 1, s[i], MAX_PRIO - i) * (Round - (MAX_PRIO - i))

(* What a process that waits has seen pass and what may still pass it stay *)
(* below the bound.  `passed' alone is not inductive: the bound on what is *)
(* to come must fall with every service, in whatever queue it is.          *)
WaitInv ==
  \E n \in Int :
    /\ AddUpTo(slot, n)
    /\ \A p \in Procs : \A k \in DOMAIN mlq_ready_queue[prio[p]] :
         mlq_ready_queue[prio[p]][k] = p =>
           passed[p] + Ahead(k, prio[p], slot, n) <= MostPassed(p)

LEMMA DivIs ==
  ASSUME NEW a \in Int, NEW quota \in Nat \ {0}
  PROVE  /\ a \div quota \in Int
         /\ a >= 0 => a \div quota >= 0
         /\ (a - quota) \div quota = (a \div quota) - 1
         /\ 0 <= a /\ a < quota => a \div quota = 0
         /\ \A b \in Int : a <= b => a \div quota <= b \div quota
OBVIOUS

LEMMA ResetsIs ==
  ASSUME NEW ahead \in Nat, NEW s \in Nat, NEW quota \in Nat \ {0}
  PROVE  /\ Resets(ahead, s, quota) \in Nat
         /\ Resets(ahead, s, quota) <= 1 + ahead \div quota
         /\ Resets(ahead, 0, quota) = 1 + Resets(ahead, quota, quota)
         /\ Resets(ahead - 1, s - 1, quota) = Resets(ahead, s, quota)
<1>1. Resets(ahead, s, quota) \in Nat /\ Resets(ahead, s, quota) <= 1 + ahead \div quota
  <2>1. ahead - s \in Int /\ ahead - s <= ahead
    OBVIOUS
  <2>2. (ahead - s) \div quota <= ahead \div quota /\ ahead \div quota >= 0
        /\ (ahead - s) \div quota \in Int /\ ahead \div quota \in Int
        /\ (ahead - s >= 0 => (ahead - s) \div quota >= 0)
    BY <2>1, DivIs
  <2>3. QED
    BY <2>2 DEF Resets
<1>2. Resets(ahead, 0, quota) = 1 + Resets(ahead, quota, quota)
  <2>1. /\ (ahead - quota) \div quota = (ahead \div quota) - 1
        /\ ahead < quota => ahead \div quota = 0
        /\ ahead \div quota \in Int
    <3>1. ahead \in Int /\ ahead >= 0
      OBVIOUS
    <3>2. (ahead - quota) \div quota = (ahead \div quota) - 1 /\ ahead \div quota \in Int
      BY <3>1, DivIs
    <3>3. ahead < quota => ahead \div quota = 0
      BY <3>1, DivIs
    <3>4. QED
      BY <3>2, <3>3
  <2>2. QED
    BY <2>1 DEF Resets
<1>3. Resets(ahead - 1, s - 1, quota) = Resets(ahead, s, quota)
  <2>1. (ahead - 1) - (s - 1) = ahead - s /\ (ahead - 1 < s - 1 <=> ahead < s)
    OBVIOUS
  <2>2. QED
    BY <2>1 DEF Resets
<1>4. QED
  BY <1>1, <1>2, <1>3

LEMMA OneRoundLess ==
  ASSUME NEW x \in Int, NEW others \in Int
  PROVE  (1 + x) * others = others + x * others /\ x * others \in Int
OBVIOUS

LEMMA AheadIs ==
  ASSUME NEW i \in Prios, NEW k \in Nat \ {0}, NEW s \in [Prios -> Nat], NEW n \in Int
  PROVE  Ahead(k, i, s, n) \in Int
<1>1. k - 1 \in Nat /\ s[i] \in Nat
  OBVIOUS
<1>2. Resets(k - 1, s[i], MAX_PRIO - i) \in Nat /\ Round - (MAX_PRIO - i) \in Nat
  BY <1>1, ResetsIs, OthersQuota
<1>3. Resets(k - 1, s[i], MAX_PRIO - i) * (Round - (MAX_PRIO - i)) \in Int
  BY <1>2, OneRoundLess
<1>4. QED
  BY <1>1, <1>3 DEF Ahead

(* A service within the quotas.                                            *)
LEMMA ServiceInRound ==
  ASSUME NEW s \in [Prios -> Nat], NEW n \in Int, NEW i \in Prios,
         NEW j \in Prios, NEW k \in Nat \ {0}, NEW k0 \in Nat \ {0},
         k0 = IF j = i THEN k + 1 ELSE k
  PROVE  Ahead(k, j, Charge(s, i), n - 1) + 1 <= Ahead(k0, j, s, n)
<1> DEFINE others == Round - (MAX_PRIO - j)
           quota == MAX_PRIO - j
<1>1. others \in Nat /\ quota \in Nat \ {0} /\ s[j] \in Nat
  BY OthersQuota
<1>2. CASE j = i
  <2>1. k0 = k + 1 /\ Charge(s, i)[j] = s[j] - 1
    BY <1>2 DEF Charge
  <2>2. Resets((k0 - 1) - 1, s[j] - 1, quota) = Resets(k0 - 1, s[j], quota)
        /\ Resets(k0 - 1, s[j], quota) \in Nat
    <3>1. k0 - 1 \in Nat
      BY <2>1
    <3> HIDE DEF quota
    <3>2. QED
      BY <1>1, <3>1, ResetsIs
  <2>3. k - 1 = (k0 - 1) - 1
    BY <2>1
  <2> DEFINE x == Resets(k0 - 1, s[j], quota) * others
  <2>4. x \in Int
    BY <1>1, <2>2, OneRoundLess
  <2>5. /\ Ahead(k, j, Charge(s, i), n - 1) = (k - 1) + ((n - 1) - (s[j] - 1)) + x
        /\ Ahead(k0, j, s, n) = (k0 - 1) + (n - s[j]) + x
    BY <2>1, <2>2, <2>3 DEF Ahead
  <2> HIDE DEF x
  <2>6. QED
    BY <1>1, <2>1, <2>4, <2>5
<1>3. CASE j # i
  <2>1. k0 = k /\ Charge(s, i)[j] = s[j]
    BY <1>3 DEF Charge
  <2>2. Resets(k - 1, s[j], quota) \in Nat
    <3>1. k - 1 \in Nat
      OBVIOUS
    <3> HIDE DEF quota
    <3>2. QED
      BY <1>1, <3>1, ResetsIs
  <2> DEFINE x == Resets(k - 1, s[j], quota) * others
  <2>3. x \in Int
    BY <1>1, <2>2, OneRoundLess
  <2>4. /\ Ahead(k, j, Charge(s, i), n - 1) = (k - 1) + ((n - 1) - s[j]) + x
        /\ Ahead(k0, j, s, n) = (k - 1) + (n - s[j]) + x
    BY <2>1 DEF Ahead
  <2> HIDE DEF x
  <2>5. QED
    BY <1>1, <2>3, <2>4
<1>4. QED
  BY <1>2, <1>3

(* A reset: the quota of whoever waits is used up.                         *)
LEMMA ResetStarts ==
  ASSUME NEW s \in [Prios -> Nat], NEW n \in Nat, NEW j \in Prios,
         NEW k \in Nat \ {0}, s[j] = 0
  PROVE  Ahead(k, j, Quota, Round) <= Ahead(k, j, s, n)
<1> DEFINE others == Round - (MAX_PRIO - j)
           quota == MAX_PRIO - j
           x == Resets(k - 1, quota, quota)
<1>1. others \in Nat /\ quota \in Nat \ {0} /\ k - 1 \in Nat /\ Quota[j] = quota
  BY OthersQuota, QuotaIs
<1>2. Resets(k - 1, 0, quota) = 1 + x /\ x \in Nat
  <2> HIDE DEF quota
  <2>1. quota \in Nat
    BY <1>1
  <2>2. Resets(k - 1, quota, quota) \in Nat
    BY <1>1, <2>1, ResetsIs
  <2>3. Resets(k - 1, 0, quota) = 1 + Resets(k - 1, quota, quota)
    BY <1>1, <2>1, ResetsIs
  <2>4. QED
    BY <2>2, <2>3
<1>3. (1 + x) * others = others + x * others /\ x * others \in Int
  <2>1. x \in Int /\ others \in Int
    BY <1>1, <1>2
  <2> HIDE DEF x, others
  <2>2. QED
    BY <2>1, OneRoundLess
<1>4. /\ Ahead(k, j, Quota, Round) = (k - 1) + others + x * others
      /\ Ahead(k, j, s, n) = (k - 1) + (n - 0) + (1 + x) * others
  BY <1>1, <1>2 DEF Ahead
<1> HIDE DEF others, x
<1>5. QED
  BY <1>1, <1>3, <1>4

(* A process that is queued behind no more than its rivals.                *)
LEMMA AheadAtFirst ==
  ASSUME NEW i \in Prios, NEW k \in Nat \ {0}, NEW s \in [Prios -> Nat], NEW n \in Int,
         NEW rivals \in Nat, k - 1 <= rivals, n - s[i] <= Round - (MAX_PRIO - i)
  PROVE  Ahead(k, i, s, n)
           <= rivals + (rivals \div (MAX_PRIO - i) + 2) * (Round - (MAX_PRIO - i))
<1> DEFINE others == Round - (MAX_PRIO - i)
           quota == MAX_PRIO - i
           x == Resets(k - 1, s[i], quota)
           y == rivals \div quota
<1>1. others \in Nat /\ quota \in Nat \ {0} /\ k - 1 \in Nat /\ s[i] \in Nat
  BY OthersQuota
<1>2. x \in Nat /\ y \in Int /\ x <= 1 + y
  <2> HIDE DEF quota
  <2>1. x \in Nat /\ x <= 1 + (k - 1) \div quota
    BY <1>1, ResetsIs
  <2>2. (k - 1) \div quota <= y /\ y \in Int /\ (k - 1) \div quota \in Int
    BY <1>1, DivIs
  <2>3. QED
    BY <2>1, <2>2
<1>3. Ahead(k, i, s, n) = (k - 1) + (n - s[i]) + x * others
  BY DEF Ahead
<1>4. rivals + (rivals \div (MAX_PRIO - i) + 2) * (Round - (MAX_PRIO - i))
        = rivals + (y + 2) * others
  OBVIOUS
<1>5. n - s[i] <= others
  OBVIOUS
<1> HIDE DEF others, x, y
<1>6. x * others <= (1 + y) * others
  BY <1>1, <1>2
<1>7. (1 + y) * others = others + y * others /\ (y + 2) * others = 2 * others + y * others
      /\ y * others \in Int /\ x * others \in Int
  BY <1>1, <1>2
<1>8. Ahead(k, i, s, n) <= rivals + (y + 2) * others
  BY <1>1, <1>3, <1>5, <1>6, <1>7
<1>9. QED
  BY <1>4, <1>8

(* Whoever waits has one service less to wait for.                         *)
LEMMA ServedNearer ==
  ASSUME QueueType, NEW i \in Prios, NEW p, Served(i, p),
         NEW n \in Int, AddUpTo(slot, n)
  PROVE  \E m \in Int :
           /\ AddUpTo(slot', m)
           /\ \A j \in Prios : \A k \in DOMAIN mlq_ready_queue'[j] :
                LET k0 == IF j = i THEN k + 1 ELSE k
                IN  /\ k0 \in DOMAIN mlq_ready_queue[j]
                    /\ mlq_ready_queue'[j][k] = mlq_ready_queue[j][k0]
                    /\ Ahead(k, j, slot', m) \in Int /\ Ahead(k0, j, slot, n) \in Int
                    /\ Ahead(k, j, slot', m) + 1 <= Ahead(k0, j, slot, n)
<1> DEFINE k0(j, k) == IF j = i THEN k + 1 ELSE k
<1>1. /\ mlq_ready_queue[i] \in Seq(Procs) /\ mlq_ready_queue[i] # <<>>
      /\ slot \in [Prios -> Nat] /\ \A j \in Prios : slot[j] <= MAX_PRIO - j
  BY DEF Served, QueueType
<1>2. ASSUME NEW j \in Prios, NEW k \in DOMAIN mlq_ready_queue'[j]
      PROVE  /\ k \in Nat \ {0} /\ k0(j, k) \in Nat \ {0}
             /\ k0(j, k) \in DOMAIN mlq_ready_queue[j]
             /\ mlq_ready_queue'[j][k] = mlq_ready_queue[j][k0(j, k)]
             /\ mlq_ready_queue[j] # <<>>
  <2>1. CASE j = i
    <3>1. mlq_ready_queue'[i] = Dequeue(mlq_ready_queue[i])
      BY DEF Served, QueueType
    <3>2. k \in DOMAIN Dequeue(mlq_ready_queue[i])
      BY <2>1, <3>1
    <3>3. /\ k \in Nat \ {0} /\ k + 1 \in DOMAIN mlq_ready_queue[i]
          /\ Dequeue(mlq_ready_queue[i])[k] = mlq_ready_queue[i][k + 1]
      BY <1>1, <3>2, DequeueIs
    <3>4. QED
      BY <1>1, <2>1, <3>1, <3>3
  <2>2. CASE j # i
    <3>1. mlq_ready_queue'[j] = mlq_ready_queue[j] /\ mlq_ready_queue[j] \in Seq(Procs)
      BY <2>2 DEF Served, QueueType
    <3>2. QED
      BY <2>2, <3>1
  <2>3. QED
    BY <2>1, <2>2
<1>3. PICK s \in [Prios -> Nat], m \in Int :
        /\ slot' = Charge(s, i) /\ AddUpTo(s, m)
        /\ \A j \in Prios, k \in Nat \ {0} :
             mlq_ready_queue[j] # <<>> => Ahead(k, j, s, m) <= Ahead(k, j, slot, n)
  <2>1. CASE slot' = Charge(slot, i)
    <3>1. \A j \in Prios, k \in Nat \ {0} : Ahead(k, j, slot, n) <= Ahead(k, j, slot, n)
      BY <1>1, AheadIs
    <3>2. QED
      BY <1>1, <2>1, <3>1
  <2>2. CASE /\ \A j \in Prios : mlq_ready_queue[j] # <<>> => slot[j] = 0
             /\ slot' = Charge(Quota, i)
    <3>1. n \in Nat
      <4>1. slot[i] <= n /\ slot[i] \in Nat
        BY <1>1, OthersLeft
      <4>2. QED
        BY <4>1
    <3>2. \A j \in Prios, k \in Nat \ {0} :
            mlq_ready_queue[j] # <<>> => Ahead(k, j, Quota, Round) <= Ahead(k, j, slot, n)
      BY <1>1, <2>2, <3>1, ResetStarts
    <3>3. Quota \in [Prios -> Nat] /\ AddUpTo(Quota, Round) /\ Round \in Int
      BY QuotaIs, QuotaAddsUp, RoundIs
    <3>4. QED
      BY <2>2, <3>2, <3>3
  <2>3. QED
    BY <2>1, <2>2 DEF Served
<1>4. AddUpTo(slot', m - 1)
  <2>1. s \in [Prios -> Int]
    OBVIOUS
  <2>2. QED
    BY <1>3, <2>1, ChargeAddsUp
<1>5. ASSUME NEW j \in Prios, NEW k \in DOMAIN mlq_ready_queue'[j]
      PROVE  /\ Ahead(k, j, slot', m - 1) \in Int /\ Ahead(k0(j, k), j, slot, n) \in Int
             /\ Ahead(k, j, slot', m - 1) + 1 <= Ahead(k0(j, k), j, slot, n)
  <2>1. k \in Nat \ {0} /\ k0(j, k) \in Nat \ {0} /\ mlq_ready_queue[j] # <<>>
    BY <1>2
  <2>2. Ahead(k, j, slot', m - 1) + 1 <= Ahead(k0(j, k), j, s, m)
    BY <1>3, <2>1, ServiceInRound
  <2>3. Ahead(k0(j, k), j, s, m) <= Ahead(k0(j, k), j, slot, n)
    BY <1>3, <2>1
  <2>4. /\ Ahead(k0(j, k), j, s, m) \in Int /\ Ahead(k0(j, k), j, slot, n) \in Int
    BY <1>1, <2>1, AheadIs
  <2>5. Ahead(k, j, slot', m - 1) \in Int
    <3>1. slot' \in [Prios -> Nat] /\ m - 1 \in Int
      BY ServedTypes DEF QueueType
    <3>2. QED
      BY <2>1, <3>1, AheadIs
  <2> HIDE DEF k0
  <2>6. QED
    BY <2>2, <2>3, <2>4, <2>5
<1>6. QED
  BY <1>2, <1>4, <1>5

Rivals(p) == {q \in Procs \ {p} : prio[q] = prio[p]}

LEMMA MostPassedIs ==
  ASSUME TypeInv, NEW p \in Procs
  PROVE  /\ Cardinality(Rivals(p)) \in Nat /\ IsFiniteSet(Rivals(p))
         /\ MostPassed(p) =
              Cardinality(Rivals(p))
                + (Cardinality(Rivals(p)) \div (MAX_PRIO - prio[p]) + 2)
                  * (Round - (MAX_PRIO - prio[p]))
         /\ MostPassed(p) \in Int
<1>1. IsFiniteSet(Procs)
  BY FS_Interval, ServiceAssumption, MlqAssumption DEF Procs
<1>2. Rivals(p) \subseteq Procs
  BY DEF Rivals
<1>3. IsFiniteSet(Rivals(p)) /\ Cardinality(Rivals(p)) \in Nat
  BY <1>1, <1>2, FS_Subset, FS_CardinalityType
<1> DEFINE V == Cardinality(Rivals(p))
           quota == MAX_PRIO - prio[p]
<1>4. MostPassed(p) = V + (V \div quota + 2) * (Round - quota)
  BY DEF MostPassed, Rivals
<1>5. quota \in Nat \ {0} /\ Round - quota \in Nat
  BY OthersQuota DEF TypeInv
<1>6. V + (V \div quota + 2) * (Round - quota) \in Int
  <2> DEFINE others == Round - quota
  <2>1. others \in Int
    BY <1>5
  <2> HIDE DEF others
  <2>2. V \div quota \in Int
    BY <1>3, <1>5, DivIs
  <2>3. V + (V \div quota + 2) * others \in Int
    BY <1>3, <2>1, <2>2
  <2>4. QED
    BY <2>3 DEF others
<1>7. QED
  BY <1>3, <1>4, <1>6

(* Pigeonhole: a queue without p holds rivals of p only, each once.        *)
LEMMA RivalsOnly ==
  ASSUME TypeInv, PlaceInv, NEW p \in Procs,
         \A k \in DOMAIN mlq_ready_queue[prio[p]] : mlq_ready_queue[prio[p]][k] # p
  PROVE  /\ Len(mlq_ready_queue[prio[p]]) \in Nat
         /\ Len(mlq_ready_queue[prio[p]]) <= Cardinality(Rivals(p))
<1> DEFINE q == mlq_ready_queue[prio[p]]
<1>1. prio[p] \in Prios /\ q \in Seq(Procs) /\ Len(q) \in Nat /\ DOMAIN q = 1..Len(q)
  BY DEF TypeInv, QueueType
<1>2. \A k \in 1..Len(q) : q[k] \in Rivals(p)
  BY <1>1 DEF PlaceInv, Rivals
<1>3. \A a, b \in 1..Len(q) : q[a] = q[b] => a = b
  BY <1>1 DEF PlaceInv
<1>4. q \in [1..Len(q) -> Rivals(p)]
  BY <1>1, <1>2
<1> HIDE DEF q
<1>5. q \in Injection(1..Len(q), Rivals(p))
  BY <1>3, <1>4 DEF Injection, IsInjective
<1>6. IsFiniteSet(Rivals(p))
  BY MostPassedIs
<1>7. Cardinality(1..Len(q)) <= Cardinality(Rivals(p))
  BY <1>5, <1>6, FS_Injection
<1>8. Cardinality(1..Len(q)) = Len(q)
  BY <1>1, FS_Interval
<1>9. QED
  BY <1>1, <1>7, <1>8 DEF q

(* add_proc and put_proc of a process that was nowhere.                    *)
LEMMA WaitPut ==
  ASSUME TypeInv, PlaceInv, WaitInv, NEW p \in Procs, put_proc(p, prio[p]),
         prio' = prio, passed' = [passed EXCEPT ![p] = 0],
         \A i \in Prios : \A k \in DOMAIN mlq_ready_queue[i] : mlq_ready_queue[i][k] # p
  PROVE  WaitInv'
<1>1. PICK n \in Int :
        /\ AddUpTo(slot, n)
        /\ \A r \in Procs : \A k \in DOMAIN mlq_ready_queue[prio[r]] :
             mlq_ready_queue[prio[r]][k] = r =>
               passed[r] + Ahead(k, prio[r], slot, n) <= MostPassed(r)
  BY DEF WaitInv
<1>2. prio[p] \in Prios /\ QueueType
  BY DEF TypeInv
<1>3. /\ slot' = slot
      /\ \A j \in Prios : \A k \in DOMAIN mlq_ready_queue'[j] :
           \/ /\ k \in DOMAIN mlq_ready_queue[j]
              /\ mlq_ready_queue'[j][k] = mlq_ready_queue[j][k]
           \/ /\ j = prio[p] /\ k = Len(mlq_ready_queue[prio[p]]) + 1
              /\ mlq_ready_queue'[j][k] = p
  BY <1>2, PutIs
<1>4. \A r \in Procs : MostPassed(r)' = MostPassed(r)
  BY DEF MostPassed
<1>5. AddUpTo(slot', n)
  BY <1>1, <1>3
<1>6. ASSUME NEW r \in Procs, NEW k \in DOMAIN mlq_ready_queue'[prio'[r]],
             mlq_ready_queue'[prio'[r]][k] = r
      PROVE  passed'[r] + Ahead(k, prio'[r], slot', n) <= MostPassed(r)'
  <2>1. prio[r] \in Prios
    BY DEF TypeInv
  <2>2. CASE r # p
    <3>1. k \in DOMAIN mlq_ready_queue[prio[r]] /\ mlq_ready_queue[prio[r]][k] = r
      BY <1>3, <1>6, <2>1, <2>2
    <3>2. passed[r] + Ahead(k, prio[r], slot, n) <= MostPassed(r)
      BY <1>1, <3>1
    <3>3. passed'[r] = passed[r]
      BY <2>2 DEF TypeInv
    <3>4. QED
      BY <1>3, <1>4, <3>2, <3>3
  <2>3. CASE r = p
    <3>1. k = Len(mlq_ready_queue[prio[p]]) + 1
      BY <1>3, <1>6, <2>1, <2>3
    <3>2. /\ Len(mlq_ready_queue[prio[p]]) \in Nat
          /\ Len(mlq_ready_queue[prio[p]]) <= Cardinality(Rivals(p))
      BY <1>2, RivalsOnly
    <3>3. Cardinality(Rivals(p)) \in Nat
      BY MostPassedIs
    <3>4. k \in Nat \ {0} /\ k - 1 <= Cardinality(Rivals(p))
      BY <3>1, <3>2
    <3>5. slot \in [Prios -> Nat] /\ \A j \in Prios : slot[j] <= MAX_PRIO - j
      BY <1>2 DEF QueueType
    <3>6. n - slot[prio[p]] <= Round - (MAX_PRIO - prio[p])
      BY <1>1, <1>2, <3>5, OthersLeft
    <3>7. Ahead(k, prio[p], slot, n) <=
            Cardinality(Rivals(p))
              + (Cardinality(Rivals(p)) \div (MAX_PRIO - prio[p]) + 2)
                * (Round - (MAX_PRIO - prio[p]))
      BY <1>2, <3>3, <3>4, <3>5, <3>6, AheadAtFirst
    <3>8. Ahead(k, prio[p], slot, n) <= MostPassed(p)
      BY <3>7, MostPassedIs
    <3>9. Ahead(k, prio[p], slot, n) \in Int /\ passed'[p] = 0
      BY <1>2, <3>4, <3>5, AheadIs DEF TypeInv
    <3>10. QED
      BY <1>3, <1>4, <2>3, <3>8, <3>9
  <2>4. QED
    BY <2>2, <2>3
<1>7. QED
  BY <1>5, <1>6 DEF WaitInv

LEMMA WaitGet ==
  ASSUME TypeInv, TypeInv', PlaceInv, WaitInv, NEW c \in CPUs, Get(c)
  PROVE  WaitInv'
<1>1. PICK p \in Procs \union {NULL} :
        /\ get_proc(p)
        /\ passed' = [q \in Procs |->
                        IF Ready(q) /\ q # p /\ passed[q] <= MostPassed(q)
                        THEN passed[q] + 1 ELSE passed[q]]
  BY DEF Get
<1>2. PICK n \in Int :
        /\ AddUpTo(slot, n)
        /\ \A r \in Procs : \A k \in DOMAIN mlq_ready_queue[prio[r]] :
             mlq_ready_queue[prio[r]][k] = r =>
               passed[r] + Ahead(k, prio[r], slot, n) <= MostPassed(r)
  BY DEF WaitInv
<1>3. prio' = prio /\ QueueType
  BY DEF Get, TypeInv
<1>4. \A r \in Procs : MostPassed(r)' = MostPassed(r)
  BY <1>3 DEF MostPassed
<1>5. \A r \in Procs : passed[r] \in Nat /\ passed'[r] \in Nat /\ passed'[r] <= passed[r] + 1
  BY <1>1 DEF TypeInv
<1>6. CASE /\ UNCHANGED mlq_ready_queue
           /\ \A j \in Prios : mlq_ready_queue[j] = <<>>
           /\ slot' \in {slot, Quota}
  <2>1. \E m \in Int : AddUpTo(slot', m)
    BY <1>2, <1>6, QuotaAddsUp, RoundIs
  <2>2. \A r \in Procs : mlq_ready_queue'[prio'[r]] = <<>>
    BY <1>3, <1>6 DEF TypeInv
  <2>3. QED
    BY <2>1, <2>2 DEF WaitInv
<1>7. ASSUME NEW i \in Prios, Served(i, p) PROVE WaitInv'
  <2>1. PICK m \in Int :
          /\ AddUpTo(slot', m)
          /\ \A j \in Prios : \A k \in DOMAIN mlq_ready_queue'[j] :
               LET k0 == IF j = i THEN k + 1 ELSE k
               IN  /\ k0 \in DOMAIN mlq_ready_queue[j]
                   /\ mlq_ready_queue'[j][k] = mlq_ready_queue[j][k0]
                   /\ Ahead(k, j, slot', m) \in Int /\ Ahead(k0, j, slot, n) \in Int
                   /\ Ahead(k, j, slot', m) + 1 <= Ahead(k0, j, slot, n)
    BY <1>2, <1>3, <1>7, ServedNearer
  <2>2. ASSUME NEW r \in Procs, NEW k \in DOMAIN mlq_ready_queue'[prio'[r]],
               mlq_ready_queue'[prio'[r]][k] = r
        PROVE  passed'[r] + Ahead(k, prio'[r], slot', m) <= MostPassed(r)'
    <3> DEFINE k0 == IF prio[r] = i THEN k + 1 ELSE k
    <3>1. prio[r] \in Prios
      BY DEF TypeInv
    <3>2. /\ k0 \in DOMAIN mlq_ready_queue[prio[r]]
          /\ mlq_ready_queue[prio[r]][k0] = r
          /\ Ahead(k, prio[r], slot', m) \in Int /\ Ahead(k0, prio[r], slot, n) \in Int
          /\ Ahead(k, prio[r], slot', m) + 1 <= Ahead(k0, prio[r], slot, n)
      BY <1>3, <2>1, <2>2, <3>1
    <3> HIDE DEF k0
    <3>3. passed[r] + Ahead(k0, prio[r], slot, n) <= MostPassed(r)
      BY <1>2, <3>2
    <3>4. MostPassed(r) \in Int
      BY MostPassedIs
    <3>5. passed'[r] + Ahead(k, prio[r], slot', m) <= MostPassed(r)
      BY <1>5, <3>2, <3>3, <3>4
    <3>6. QED
      BY <1>3, <1>4, <3>5
  <2>3. QED
    BY <2>1, <2>2 DEF WaitInv
<1>8. QED
  BY <1>1, <1>3, <1>6, <1>7, GetIs

LEMMA WaitStep == TypeInv /\ TypeInv' /\ PlaceInv /\ WaitInv /\ [Next]_vars => WaitInv'
<1> SUFFICES ASSUME TypeInv, TypeInv', PlaceInv, WaitInv, [Next]_vars PROVE WaitInv'
  OBVIOUS
<1>1. CASE UNCHANGED vars
  <2>1. \A p \in Procs : MostPassed(p)' = MostPassed(p)
    BY <1>1 DEF MostPassed, vars
  <2>2. QED
    BY <1>1, <2>1 DEF WaitInv, vars, mlqVars
<1>2. ASSUME NEW p \in Procs, Add(p) PROVE WaitInv'
  <2>1. /\ p \notin added /\ put_proc(p, prio[p]) /\ prio' = prio
        /\ passed' = [passed EXCEPT ![p] = 0]
    BY <1>2 DEF Add
  <2>2. \A i \in Prios : \A k \in DOMAIN mlq_ready_queue[i] : mlq_ready_queue[i][k] # p
    BY <2>1 DEF PlaceInv
  <2>3. QED
    BY <2>1, <2>2, WaitPut
<1>3. ASSUME NEW c \in CPUs, Get(c) PROVE WaitInv'
  BY <1>3, WaitGet
<1>4. ASSUME NEW c \in CPUs, Put(c) PROVE WaitInv'
  <2> DEFINE p == held[c]
  <2>1. /\ p # NULL /\ put_proc(p, prio[p]) /\ prio' = prio
        /\ passed' = [passed EXCEPT ![p] = 0]
    BY <1>4 DEF Put
  <2>2. /\ p \in Procs
        /\ \A i \in Prios : \A k \in DOMAIN mlq_ready_queue[i] : mlq_ready_queue[i][k] # p
    BY <2>1 DEF TypeInv, PlaceInv
  <2> HIDE DEF p
  <2>3. QED
    BY <2>1, <2>2, WaitPut
<1>5. QED
  BY <1>1, <1>2, <1>3, <1>4 DEF Next

LEMMA WaitInit == Init => WaitInv
<1> SUFFICES ASSUME Init PROVE WaitInv
  OBVIOUS
<1>1. AddUpTo(slot, Round) /\ Round \in Int
  BY QuotaAddsUp, RoundIs DEF Init, init_scheduler
<1>2. \A p \in Procs : mlq_ready_queue[prio[p]] = <<>>
  BY DEF Init, init_scheduler
<1>3. QED
  BY <1>1, <1>2 DEF WaitInv

LEMMA WaitImplies == TypeInv /\ WaitInv => WaitBounded
<1> SUFFICES ASSUME TypeInv, WaitInv, NEW p \in Procs, Ready(p)
             PROVE  passed[p] <= MostPassed(p)
  BY DEF WaitBounded
<1>1. PICK k \in DOMAIN mlq_ready_queue[prio[p]] : mlq_ready_queue[prio[p]][k] = p
  BY DEF Ready
<1>2. PICK n \in Int :
        AddUpTo(slot, n) /\ passed[p] + Ahead(k, prio[p], slot, n) <= MostPassed(p)
  BY <1>1 DEF WaitInv
<1>3. /\ prio[p] \in Prios /\ k \in Nat \ {0} /\ passed[p] \in Nat
      /\ slot \in [Prios -> Nat] /\ \A j \in Prios : slot[j] <= MAX_PRIO - j
  BY DEF TypeInv, QueueType
<1>4. slot[prio[p]] <= n /\ slot[prio[p]] \in Nat
  BY <1>2, <1>3, OthersLeft
<1>5. Ahead(k, prio[p], slot, n) \in Int /\ Ahead(k, prio[p], slot, n) >= 0
  <2> DEFINE x == Resets(k - 1, slot[prio[p]], MAX_PRIO - prio[p])
             others == Round - (MAX_PRIO - prio[p])
  <2>1. k - 1 \in Nat /\ MAX_PRIO - prio[p] \in Nat \ {0} /\ others \in Nat
    BY <1>3, OthersQuota
  <2>2. x \in Nat
    BY <1>4, <2>1, ResetsIs
  <2>3. Ahead(k, prio[p], slot, n) = (k - 1) + (n - slot[prio[p]]) + x * others
    BY DEF Ahead
  <2> HIDE DEF x, others
  <2>4. x * others \in Nat
    BY <2>1, <2>2
  <2>5. QED
    BY <1>4, <2>1, <2>3, <2>4
<1>6. MostPassed(p) \in Int
  BY MostPassedIs
<1>7. QED
  BY <1>2, <1>3, <1>5, <1>6

(* The quotas of get_mlq_proc serve a ready process of any priority after  *)
(* a bounded number of others, whatever is added or put back meanwhile.    *)
THEOREM WaitBoundedHolds == Spec => []WaitBounded
<1>1. Init => TypeInv /\ PlaceInv /\ WaitInv
  BY PlaceInit, WaitInit
<1>2. TypeInv /\ PlaceInv /\ WaitInv /\ [Next]_vars => (TypeInv /\ PlaceInv /\ WaitInv)'
  BY TypeStep, PlaceStep, WaitStep
<1>3. QED
  BY <1>1, <1>2, WaitImplies, PTL DEF Spec

==============================================================================
