-------------------------- MODULE RunningListProofs --------------------------
(***************************************************************************)
(* Proofs about RunningList for any number of CPUs and processes: keeping  *)
(* running_list, and the unlocked removal from it, disturb nothing of the  *)
(* kernel, so what KernelProofs shows of Kernel holds with the list as     *)
(* well; and the list is exact until a CPU uses it while another is inside *)
(* the unlocked dequeue_running.                                           *)
(***************************************************************************)
EXTENDS RunningList, KernelProofs, WellFoundedInduction, SequenceTheorems

LEMMA ListInitIsKernelInit == RLInit => Init
BY DEF RLInit

LEMMA ListStepIsKernelStep == [RLNext]_rlVars => [Next]_vars
<1> SUFFICES ASSUME [RLNext]_rlVars PROVE [Next]_vars
  OBVIOUS
<1>1. ASSUME NEW c \in CPUs, RLCPU(c) PROVE [Next]_vars
  <2>1. CASE RunNext(c) \/ RunAgainLater(c) \/ EndRemoval(c)
    BY <2>1 DEF RunNext, RunAgainLater, EndRemoval, Next, CPU
  <2>2. CASE StartRemoval(c) \/ StepRemoval(c)
    BY <2>2 DEF StartRemoval, StepRemoval
  <2>3. CASE KeepProc(c) \/ StopCPU(c) \/ SkipSlot(c) \/ RunProc(c) \/ EndSlot(c)
    BY <2>3 DEF Next, CPU
  <2>4. QED
    BY <1>1, <2>1, <2>2, <2>3 DEF RLCPU
<1>2. CASE RLLoader
  BY <1>2 DEF RLLoader, Next, Loader
<1>3. CASE NewSlot \/ Finished
  BY <1>3 DEF Next
<1>4. CASE UNCHANGED rlVars
  BY <1>4 DEF rlVars
<1>5. QED
  BY <1>1, <1>2, <1>3, <1>4 DEF RLNext

(* The list is kept beside the scheduling of os.c and sched.c: every step  *)
(* with it, the loops of the unlocked dequeue_running included, is a step  *)
(* of Kernel or leaves the variables of Kernel alone.                      *)
THEOREM ListRefinesKernel == RLSpec => ImplementsKernel
BY ListInitIsKernelInit, ListStepIsKernelStep, PTL DEF RLSpec, ImplementsKernel

(* So no process is in two ready queues or on two CPUs, however the        *)
(* removals of os.c:67 interleave with get_proc and put_proc.              *)
THEOREM ListKeepsOnePlace == RLSpec => []AtMostOnePlace
<1>1. RLInit => TypeInv /\ PlaceInv
  BY ListInitIsKernelInit, TypeInit, PlaceInit
<1>2. TypeInv /\ PlaceInv /\ [RLNext]_rlVars => (TypeInv /\ PlaceInv)'
  BY ListStepIsKernelStep, TypeStep, PlaceStep
<1>3. QED
  BY <1>1, <1>2, PlaceInvImplies, PTL DEF RLSpec

(* And no process that the loader has added is lost (sched.c's queues), if *)
(* the queues have room for all: the fault of os.c:67 stays in the list.   *)
THEOREM ListLosesNoProcess ==
  ASSUME Roomy
  PROVE  RLSpec => []NoProcessLost
<1>1. RLInit => TypeInv /\ PlaceInv /\ NoProcessLost
  BY ListInitIsKernelInit, TypeInit, PlaceInit, KeptInit
<1>2. TypeInv /\ PlaceInv /\ NoProcessLost /\ [RLNext]_rlVars
        => (TypeInv /\ PlaceInv /\ NoProcessLost)'
  BY Roomy, ListStepIsKernelStep, TypeStep, PlaceStep, KeptStep
<1>3. QED
  BY <1>1, <1>2, PTL DEF RLSpec

------------------------------------------------------------------------------
(* Lists that enumerate a set.                                             *)

(* list has each member of S once, if the entry at position k is left out. *)
EnumeratesBut(list, S, k) ==
  /\ \A j \in DOMAIN list : j # k => list[j] \in S
  /\ \A p \in S : \E j \in DOMAIN list : j # k /\ list[j] = p
  /\ \A j1, j2 \in DOMAIN list :
       j1 # k /\ j2 # k /\ list[j1] = list[j2] => j1 = j2

(* No position is left out: there is none with the number 0.               *)
Enumerates(list, S) == EnumeratesBut(list, S, 0)

LEMMA LeastNat ==
  ASSUME NEW T \in SUBSET Nat, T # {}
  PROVE  \E x \in T : \A y \in T : x <= y
<1> DEFINE R == OpToRel(<, Nat)
<1>1. IsWellFoundedOn(R, Nat)
  BY NatLessThanWellFounded
<1>2. \E x \in T : \A y \in T : ~(<<y, x>> \in R)
  <2> HIDE DEF R
  <2> QED
    BY <1>1, WFMin
<1>3. \A x, y \in Nat : <<y, x>> \in R <=> y < x
  BY DEF OpToRel
<1> HIDE DEF R
<1>4. PICK x \in T : \A y \in T : ~(<<y, x>> \in R)
  BY <1>2
<1>5. \A y \in T : ~(y < x)
  BY <1>3, <1>4
<1>6. \A y \in T : x <= y
  BY <1>5
<1>7. QED
  BY <1>6

(* Pigeonhole: there is room for a process that is not listed.             *)
LEMMA RoomOnList ==
  ASSUME Roomy, NEW L \in Seq(Procs), NEW S \in SUBSET Procs, Enumerates(L, S),
         NEW p \in Procs \ S
  PROVE  Len(L) < MAX_QUEUE_SIZE
<1> DEFINE others == Procs \ {p}
<1>1. Len(L) \in Nat /\ DOMAIN L = 1..Len(L) /\ 0 \notin DOMAIN L
  OBVIOUS
<1>2. L \in [1..Len(L) -> others]
  BY <1>1 DEF Enumerates, EnumeratesBut
<1>3. L \in Injection(1..Len(L), others)
  BY <1>1, <1>2 DEF Enumerates, EnumeratesBut, Injection, IsInjective
<1>4. IsFiniteSet(Procs) /\ Cardinality(Procs) = NumProcs
  BY FS_Interval, KernelAssumption DEF Procs
<1>5. IsFiniteSet(others) /\ Cardinality(others) = NumProcs - 1
  BY <1>4, FS_RemoveElement
<1>6. Cardinality(1..Len(L)) <= NumProcs - 1
  BY <1>3, <1>5, FS_Injection
<1>7. Cardinality(1..Len(L)) = Len(L)
  BY <1>1, FS_Interval
<1>8. QED
  BY <1>1, <1>6, <1>7, KernelAssumption, MlqAssumption DEF Roomy

(* enqueue of a process that is not listed.                                *)
LEMMA AppendEnumerates ==
  ASSUME Roomy, NEW L \in Seq(Procs), NEW S \in SUBSET Procs, Enumerates(L, S),
         NEW p \in Procs \ S
  PROVE  Enumerates(Enqueue(L, p), S \union {p})
<1> DEFINE A == Append(L, p)
<1>1. Enqueue(L, p) = A
  BY RoomOnList DEF Enqueue
<1>2. /\ Len(L) \in Nat /\ DOMAIN L = 1..Len(L)
      /\ DOMAIN A = 1..(Len(L) + 1)
      /\ A[Len(L) + 1] = p
      /\ \A j \in 1..Len(L) : A[j] = L[j]
  OBVIOUS
<1> HIDE DEF A
<1>3. \A j \in DOMAIN A : j # Len(L) + 1 => j \in DOMAIN L /\ j # 0
  BY <1>2
<1>4. Len(L) + 1 \in DOMAIN A /\ Len(L) + 1 # 0 /\ DOMAIN L \subseteq DOMAIN A
      /\ Len(L) + 1 \notin DOMAIN L
  BY <1>2
<1>5. \A j \in DOMAIN A : A[j] \in S \union {p}
  BY <1>2, <1>3, <1>4 DEF Enumerates, EnumeratesBut
<1>6. \A r \in S \union {p} : \E j \in DOMAIN A : j # 0 /\ A[j] = r
  BY <1>2, <1>3, <1>4 DEF Enumerates, EnumeratesBut
<1>7. \A j1, j2 \in DOMAIN A : A[j1] = A[j2] => j1 = j2
  BY <1>2, <1>3, <1>4 DEF Enumerates, EnumeratesBut
<1>8. QED
  BY <1>1, <1>5, <1>6, <1>7 DEF Enumerates, EnumeratesBut

(* dequeue_running of a process that is not there.                         *)
LEMMA WithoutAbsent ==
  ASSUME NEW L \in Seq(Procs), NEW p, \A j \in DOMAIN L : L[j] # p
  PROVE  Without(L, p) = L
BY DEF Without

(* The list without one of its positions.                                  *)
Cut(list, k) == SubSeq(list, 1, k - 1) \o SubSeq(list, k + 1, Len(list))

(* dequeue_running removes the first entry there is.                       *)
LEMMA WithoutFirst ==
  ASSUME NEW L \in Seq(Procs), NEW k \in DOMAIN L,
         \A j \in DOMAIN L : j < k => L[j] # L[k]
  PROVE  Without(L, L[k]) = Cut(L, k)
<1> DEFINE p == L[k]
           found == {j \in DOMAIN L : L[j] = p}
           first == CHOOSE j \in found : \A l \in found : j <= l
<1>1. found \subseteq Nat /\ k \in found /\ \A l \in found : k <= l
  OBVIOUS
<1>2. first \in found /\ \A l \in found : first <= l
  BY <1>1
<1>3. first = k
  BY <1>1, <1>2
<1>4. QED
  BY <1>1, <1>3 DEF Without, Cut

LEMMA ConcatFacts ==
  ASSUME NEW S, NEW a \in Seq(S), NEW b \in Seq(S)
  PROVE  /\ a \o b \in Seq(S)
         /\ Len(a) \in Nat /\ Len(b) \in Nat /\ Len(a \o b) = Len(a) + Len(b)
         /\ DOMAIN (a \o b) = 1..(Len(a) + Len(b))
         /\ \A j \in 1..Len(a) : (a \o b)[j] = a[j]
         /\ \A j \in 1..(Len(a) + Len(b)) :
              j > Len(a) => (a \o b)[j] = b[j - Len(a)]
OBVIOUS

LEMMA CutIs ==
  ASSUME NEW L \in Seq(Procs), NEW k \in DOMAIN L
  PROVE  /\ Cut(L, k) \in Seq(Procs) /\ Len(Cut(L, k)) = Len(L) - 1
         /\ k \in Nat /\ DOMAIN L = 1..Len(L) /\ Len(L) \in Nat
         /\ DOMAIN Cut(L, k) = 1..(Len(L) - 1)
         /\ \A j \in DOMAIN Cut(L, k) :
              Cut(L, k)[j] = IF j < k THEN L[j] ELSE L[j + 1]
<1> DEFINE B == SubSeq(L, 1, k - 1)
           C == SubSeq(L, k + 1, Len(L))
<1>1. k \in Nat \ {0} /\ DOMAIN L = 1..Len(L) /\ Len(L) \in Nat /\ k <= Len(L)
  OBVIOUS
<1>2. B \in Seq(Procs) /\ Len(B) = k - 1 /\ \A j \in 1..(k - 1) : B[j] = L[j]
  BY <1>1
<1>3. /\ C \in Seq(Procs) /\ Len(C) = Len(L) - k
      /\ \A j \in 1..(Len(L) - k) : C[j] = L[k + j]
  BY <1>1
<1> HIDE DEF B, C
<1>4. /\ DOMAIN (B \o C) = 1..((k - 1) + (Len(L) - k))
      /\ \A j \in 1..(k - 1) : (B \o C)[j] = B[j]
      /\ \A j \in 1..((k - 1) + (Len(L) - k)) :
           j > k - 1 => (B \o C)[j] = C[j - (k - 1)]
  <2>1. /\ DOMAIN (B \o C) = 1..(Len(B) + Len(C))
        /\ \A j \in 1..Len(B) : (B \o C)[j] = B[j]
        /\ \A j \in 1..(Len(B) + Len(C)) :
             j > Len(B) => (B \o C)[j] = C[j - Len(B)]
    <3>1. B \in Seq(Procs) /\ C \in Seq(Procs)
      BY <1>2, <1>3
    <3>2. QED
      BY <3>1, ConcatFacts
  <2>2. Len(B) = k - 1 /\ Len(C) = Len(L) - k
    BY <1>2, <1>3
  <2>3. QED
    BY <2>1, <2>2
<1>5. (k - 1) + (Len(L) - k) = Len(L) - 1
  BY <1>1
<1>6. \A j \in 1..(Len(L) - 1) :
        (B \o C)[j] = IF j < k THEN L[j] ELSE L[j + 1]
  <2> SUFFICES ASSUME NEW j \in 1..(Len(L) - 1)
               PROVE  (B \o C)[j] = IF j < k THEN L[j] ELSE L[j + 1]
    OBVIOUS
  <2>1. CASE j < k
    BY <1>1, <1>2, <1>4, <2>1
  <2>2. CASE ~(j < k)
    <3>1. j - (k - 1) \in 1..(Len(L) - k) /\ k + (j - (k - 1)) = j + 1
      BY <1>1, <2>2
    <3>2. (B \o C)[j] = C[j - (k - 1)]
      <4>1. j \in 1..((k - 1) + (Len(L) - k)) /\ j > k - 1
        BY <1>1, <1>5, <2>2
      <4>2. QED
        BY <1>4, <4>1
    <3>3. QED
      BY <1>3, <2>2, <3>1, <3>2
  <2>3. QED
    BY <2>1, <2>2
<1>7. B \o C \in Seq(Procs) /\ Len(B \o C) = Len(L) - 1
  <2>1. B \o C \in Seq(Procs) /\ Len(B \o C) = Len(B) + Len(C)
    BY <1>2, <1>3, ConcatFacts
  <2>2. QED
    BY <1>2, <1>3, <1>5, <2>1
<1>8. Cut(L, k) = B \o C
  BY DEF Cut, B, C
<1>9. QED
  BY <1>1, <1>4, <1>5, <1>6, <1>7, <1>8

LEMMA WithoutType ==
  ASSUME NEW L \in Seq(Procs), NEW p
  PROVE  Without(L, p) \in Seq(Procs)
<1> DEFINE found == {k \in DOMAIN L : L[k] = p}
<1>1. CASE found = {}
  BY <1>1 DEF Without
<1>2. CASE found # {}
  <2>1. found \subseteq Nat
    OBVIOUS
  <2>2. PICK k \in found : \A j \in found : k <= j
    BY <1>2, <2>1, LeastNat
  <2>3. k \in DOMAIN L /\ L[k] = p /\ \A j \in DOMAIN L : j < k => L[j] # L[k]
    BY <2>1, <2>2
  <2>4. Without(L, p) = Cut(L, k)
    BY <2>3, WithoutFirst
  <2>5. QED
    BY <2>3, <2>4, CutIs
<1>3. QED
  BY <1>1, <1>2

LEMMA CutEnumerates ==
  ASSUME NEW L \in Seq(Procs), NEW S, NEW k \in DOMAIN L, EnumeratesBut(L, S, k)
  PROVE  Enumerates(Cut(L, k), S)
<1> DEFINE A == Cut(L, k)
<1>1. /\ k \in Nat /\ DOMAIN L = 1..Len(L) /\ Len(L) \in Nat
      /\ DOMAIN A = 1..(Len(L) - 1)
      /\ \A j \in DOMAIN A : A[j] = IF j < k THEN L[j] ELSE L[j + 1]
  BY CutIs
<1> HIDE DEF A
<1> DEFINE Old(j) == IF j < k THEN j ELSE j + 1
           New(j) == IF j < k THEN j ELSE j - 1
<1>2. /\ \A j \in DOMAIN A : Old(j) \in DOMAIN L /\ Old(j) # k /\ A[j] = L[Old(j)]
                             /\ j # 0
      /\ \A j \in DOMAIN L : j # k => New(j) \in DOMAIN A /\ Old(New(j)) = j
      /\ \A j1, j2 \in DOMAIN A : Old(j1) = Old(j2) => j1 = j2
  BY <1>1
<1> HIDE DEF Old, New
<1>3. \A j \in DOMAIN A : A[j] \in S
  BY <1>2 DEF EnumeratesBut
<1>4. \A p \in S : \E j \in DOMAIN A : j # 0 /\ A[j] = p
  BY <1>2 DEF EnumeratesBut
<1>5. \A j1, j2 \in DOMAIN A : A[j1] = A[j2] => j1 = j2
  BY <1>2 DEF EnumeratesBut
<1>6. QED
  BY <1>3, <1>4, <1>5 DEF Enumerates, EnumeratesBut, A

(* A member is at one position, and the other positions enumerate the rest.*)
LEMMA LeaveOut ==
  ASSUME NEW L \in Seq(Procs), NEW S, Enumerates(L, S), NEW k \in DOMAIN L
  PROVE  /\ L[k] \in S
         /\ EnumeratesBut(L, S \ {L[k]}, k)
         /\ \A j \in DOMAIN L : j < k => L[j] # L[k]
<1>1. /\ 0 \notin DOMAIN L
      /\ \A j \in DOMAIN L : j < k => j # k
  OBVIOUS
<1>2. QED
  BY <1>1 DEF Enumerates, EnumeratesBut

LEMMA WithoutEnumerates ==
  ASSUME NEW L \in Seq(Procs), NEW S, Enumerates(L, S), NEW p \in S
  PROVE  Enumerates(Without(L, p), S \ {p})
<1>1. PICK k \in DOMAIN L : L[k] = p
  BY DEF Enumerates, EnumeratesBut
<1>2. /\ EnumeratesBut(L, S \ {p}, k)
      /\ \A j \in DOMAIN L : j < k => L[j] # p
  BY <1>1, LeaveOut
<1>3. QED
  BY <1>1, <1>2, WithoutFirst, CutEnumerates

------------------------------------------------------------------------------
(* The list while processes are removed.  What a CPU does in dq counts at  *)
(* "check" only: killall, elsewhere, removes from a ready queue.           *)

RemovalTypes == [at : {"idle", "done"}, k : Nat]
                  \union [at : {"find", "shift", "clear"}, k : Nat \ {0}]

ListTypes ==
  /\ running_list \in Seq(Procs)
  /\ dq \in [CPUs -> RemovalTypes]
  /\ raced \in BOOLEAN

(* Only a process that has finished is removed at "check".                 *)
RemovesFinished ==
  \A c \in CPUs :
    cpc[c] = "check" /\ dq[c] # Idle => proc[c] # NULL /\ HasFinished(c)

(* CPU c looks for its process, or moves the entries behind it.            *)
Looking(c) == cpc[c] = "check" /\ dq[c].at = "find"
Mid(c)     == cpc[c] = "check" /\ dq[c].at \in {"shift", "clear"}
Unlisted(c) == Mid(c) \/ (cpc[c] = "check" /\ dq[c].at = "done")

OnList == {p \in Procs : \E c \in CPUs : Holds(c, p) /\ ~Unlisted(c)}

(* One CPU at most is past its process, the list is exact but for the      *)
(* position it has come to, and who still looks has not missed his.        *)
ListState ==
  /\ \A c, d \in CPUs : Mid(c) /\ Mid(d) => c = d
  /\ (\A c \in CPUs : ~Mid(c)) => Enumerates(running_list, OnList)
  /\ \A c \in CPUs : Mid(c) =>
       /\ dq[c].k \in DOMAIN running_list
       /\ dq[c].at = "clear" => dq[c].k = Len(running_list)
       /\ running_list[dq[c].k] \in OnList \union {proc[c]}
       /\ EnumeratesBut(running_list, OnList, dq[c].k)
  /\ \A c \in CPUs : Looking(c) =>
       \A j \in DOMAIN running_list : j < dq[c].k => running_list[j] # proc[c]

------------------------------------------------------------------------------
(* What the steps do to the types.                                         *)

LEMMA IdleType == Idle \in RemovalTypes /\ Start \in RemovalTypes
BY DEF Idle, Start, RemovalTypes

LEMMA TakeType ==
  ASSUME running_list \in Seq(Procs), NEW p \in Procs \union {NULL}
  PROVE  TakeRunning(p) \in Seq(Procs)
BY EnqueueAtEnd, NullIsNoProc DEF TakeRunning

(* What each step of the unlocked removal does, by where it is.            *)
LEMMA RemovalSteps ==
  ASSUME NEW list \in Seq(Procs), NEW d \in RemovalTypes, NEW p
  PROVE  /\ Searching(list, p, d) =>
              NextPosition(list, p, d) = [at |-> "find", k |-> d.k + 1]
              /\ NextList(list, d) = list
         /\ d.at = "find" /\ d.k > Len(list) =>
              NextPosition(list, p, d) = Done /\ NextList(list, d) = list
         /\ Found(list, p, d) =>
              NextPosition(list, p, d) = [at |-> "shift", k |-> d.k]
              /\ NextList(list, d) = list
         /\ Shifting(list, d) =>
              NextPosition(list, p, d) = [at |-> "shift", k |-> d.k + 1]
              /\ NextList(list, d) = [list EXCEPT ![d.k] = list[d.k + 1]]
         /\ d.at = "shift" /\ d.k >= Len(list) =>
              NextPosition(list, p, d) = [at |-> "clear", k |-> d.k]
              /\ NextList(list, d) = list
         /\ d.at = "clear" =>
              NextPosition(list, p, d) = Done
              /\ NextList(list, d) = SubSeq(list, 1, Len(list) - 1)
<1>1. d.k \in Nat /\ Len(list) \in Nat /\ d = [at |-> d.at, k |-> d.k]
  BY DEF RemovalTypes
<1> USE <1>1 DEF NextPosition, NextList
<1>2. ASSUME Searching(list, p, d)
      PROVE  NextPosition(list, p, d) = [at |-> "find", k |-> d.k + 1]
             /\ NextList(list, d) = list
  <2>1. d.at = "find" /\ ~Shifting(list, d) /\ ~Found(list, p, d) /\ d.k <= Len(list)
    BY <1>2 DEF Searching, Found, Shifting
  <2>2. QED
    BY <1>2, <2>1
<1>3. ASSUME d.at = "find", d.k > Len(list)
      PROVE  NextPosition(list, p, d) = Done /\ NextList(list, d) = list
  <2>1. ~Searching(list, p, d) /\ ~Shifting(list, d) /\ ~Found(list, p, d)
    BY <1>3 DEF Searching, Found, Shifting
  <2>2. NextList(list, d) = list
    BY <1>3, <2>1
  <2>3. NextPosition(list, p, d) = Done
    BY <1>3, <2>1
  <2>4. QED
    BY <2>2, <2>3
<1>4. ASSUME Found(list, p, d)
      PROVE  NextPosition(list, p, d) = [at |-> "shift", k |-> d.k]
             /\ NextList(list, d) = list
  <2>1. d.at = "find" /\ ~Searching(list, p, d) /\ ~Shifting(list, d) /\ d.k <= Len(list)
    BY <1>4 DEF Searching, Found, Shifting
  <2>2. QED
    BY <1>4, <2>1
<1>5. ASSUME Shifting(list, d)
      PROVE  NextPosition(list, p, d) = [at |-> "shift", k |-> d.k + 1]
             /\ NextList(list, d) = [list EXCEPT ![d.k] = list[d.k + 1]]
  <2>1. ~Searching(list, p, d) /\ ~Found(list, p, d) /\ d.at = "shift" /\ d.k < Len(list)
    BY <1>5 DEF Searching, Found, Shifting
  <2>2. QED
    BY <1>5, <2>1
<1>6. ASSUME d.at = "shift", d.k >= Len(list)
      PROVE  NextPosition(list, p, d) = [at |-> "clear", k |-> d.k]
             /\ NextList(list, d) = list
  <2>1. ~Searching(list, p, d) /\ ~Shifting(list, d) /\ ~Found(list, p, d)
    BY <1>6 DEF Searching, Found, Shifting
  <2>2. QED
    BY <1>6, <2>1
<1>7. ASSUME d.at = "clear"
      PROVE  NextPosition(list, p, d) = Done
             /\ NextList(list, d) = SubSeq(list, 1, Len(list) - 1)
  <2>1. ~Searching(list, p, d) /\ ~Shifting(list, d) /\ ~Found(list, p, d)
    BY <1>7 DEF Searching, Found, Shifting
  <2>2. QED
    BY <1>7, <2>1
<1> HIDE DEF NextPosition, NextList
<1>8. QED
  BY <1>2, <1>3, <1>4, <1>5, <1>6, <1>7

LEMMA RemovalType ==
  ASSUME NEW list \in Seq(Procs), NEW d \in RemovalTypes, NEW p,
         d.at \in {"find", "shift", "clear"}
  PROVE  /\ NextPosition(list, p, d) \in RemovalTypes
         /\ NextList(list, d) \in Seq(Procs)
<1>1. /\ d.k \in Nat \ {0} /\ d.k + 1 \in Nat \ {0} /\ Len(list) \in Nat
      /\ Done \in RemovalTypes
  BY DEF RemovalTypes, Done
<1>2. \A k \in Nat \ {0}, a \in {"find", "shift", "clear"} :
        [at |-> a, k |-> k] \in RemovalTypes
  BY DEF RemovalTypes
<1>3. CASE Searching(list, p, d)
  BY <1>1, <1>2, <1>3, RemovalSteps
<1>4. CASE d.at = "find" /\ d.k > Len(list)
  BY <1>1, <1>2, <1>4, RemovalSteps
<1>5. CASE Found(list, p, d)
  BY <1>1, <1>2, <1>5, RemovalSteps DEF Found
<1>6. CASE Shifting(list, d)
  <2>1. list[d.k + 1] \in Procs /\ d.k \in 1..Len(list)
    BY <1>1, <1>6 DEF Shifting
  <2>2. [list EXCEPT ![d.k] = list[d.k + 1]] \in Seq(Procs)
    BY <2>1, ExceptSeq
  <2>3. QED
    BY <1>1, <1>2, <1>6, <2>2, RemovalSteps
<1>7. CASE d.at = "shift" /\ d.k >= Len(list)
  BY <1>1, <1>2, <1>7, RemovalSteps
<1>8. CASE d.at = "clear"
  <2>1. SubSeq(list, 1, Len(list) - 1) \in Seq(Procs)
    BY <1>1
  <2>2. QED
    BY <1>1, <1>8, <2>1, RemovalSteps
<1>9. QED
  BY <1>1, <1>3, <1>4, <1>5, <1>6, <1>7, <1>8 DEF Searching, Found, Shifting

------------------------------------------------------------------------------
(* What the steps do to the list.                                          *)

LEMMA NoOtherRemoves ==
  ASSUME ListTypes, NEW c \in CPUs, UseList(c), ~raced'
  PROVE  ~raced /\ \A d \in CPUs \ {c} : ~Mid(d) /\ ~Looking(d)
BY DEF UseList, Removing, Mid, Looking

(* Nothing that the state of the list is about has changed.                *)
LEMMA ListKept ==
  ASSUME ListState, UNCHANGED running_list, OnList' = OnList,
         \A d \in CPUs : Mid(d)' <=> Mid(d),
         \A d \in CPUs : Mid(d) => dq'[d] = dq[d] /\ proc'[d] = proc[d],
         \A d \in CPUs : Looking(d)' =>
           \/ Looking(d) /\ dq'[d] = dq[d] /\ proc'[d] = proc[d]
           \/ dq'[d] = Start,
         running_list \in Seq(Procs)
  PROVE  ListState'
<1>1. \A j \in DOMAIN running_list : ~(j < 1)
  OBVIOUS
<1>2. Start.k = 1
  BY DEF Start
<1>3. (\A c, d \in CPUs : Mid(c) /\ Mid(d) => c = d)'
  BY DEF ListState
<1>4. ((\A c \in CPUs : ~Mid(c)) => Enumerates(running_list, OnList))'
  BY DEF ListState
<1>5. ASSUME NEW d \in CPUs, Mid(d)'
      PROVE  /\ dq'[d].k \in DOMAIN running_list'
             /\ dq'[d].at = "clear" => dq'[d].k = Len(running_list')
             /\ running_list'[dq'[d].k] \in OnList' \union {proc'[d]}
             /\ EnumeratesBut(running_list', OnList', dq'[d].k)
  BY <1>5 DEF ListState
<1>6. ASSUME NEW d \in CPUs, Looking(d)', NEW j \in DOMAIN running_list', j < dq'[d].k
      PROVE  running_list'[j] # proc'[d]
  BY <1>1, <1>2, <1>6 DEF ListState
<1>7. QED
  BY <1>3, <1>4, <1>5, <1>6 DEF ListState

(* No CPU is in a removal that has found its process.                      *)
LEMMA ListSettled ==
  ASSUME \A d \in CPUs : ~Mid(d)' /\ ~Looking(d)',
         Enumerates(running_list', OnList')
  PROVE  ListState'
BY DEF ListState

(* A CPU that has finished nothing goes from one place to another.         *)
LEMMA ListMove ==
  ASSUME TypeInv, ListTypes, ListState, UNCHANGED <<running_list, dq, proc>>,
         NEW c \in CPUs, dq[c] = Idle, cpc[c] # "refetch",
         NEW l \in {"check", "recheck", "end_slot", "stopped"},
         cpc' = [cpc EXCEPT ![c] = l]
  PROVE  ListState'
<1>1. cpc \in [CPUs -> {"check", "refetch", "recheck", "end_slot", "stopped"}]
  BY DEF TypeInv, TypeOK
<1>2. \A d \in CPUs : d # c => cpc'[d] = cpc[d]
  BY <1>1
<1>3. cpc'[c] = l
  BY <1>1
<1>4. \A d \in CPUs : /\ Mid(d)' <=> Mid(d)
                      /\ Looking(d)' <=> Looking(d)
                      /\ Unlisted(d)' <=> Unlisted(d)
  BY <1>2 DEF Mid, Looking, Unlisted, Idle
<1>5. \A d \in CPUs, p \in Procs : Holds(d, p)' <=> Holds(d, p)
  BY <1>2, <1>3 DEF Holds
<1>6. OnList' = OnList
  BY <1>4, <1>5 DEF OnList
<1>7. QED
  BY <1>4, <1>6, ListKept DEF ListTypes

(* get_proc: the process was in no hands and is put on the list.           *)
LEMMA ListFetch ==
  ASSUME Roomy, TypeInv, ListTypes, RemovesFinished, ListState,
         NEW c \in CPUs, RunNext(c), ~raced',
         \A p \in Procs : proc'[c] = p => \A d \in CPUs : ~Holds(d, p)
  PROVE  ListState'
<1>1. /\ cpc \in [CPUs -> {"check", "refetch", "recheck", "end_slot", "stopped"}]
      /\ proc \in [CPUs -> Procs \union {NULL}]
      /\ running_list \in Seq(Procs)
  BY DEF TypeInv, TypeOK, ListTypes
<1>2. PICK p \in Procs \union {NULL}, l \in {"end_slot", "recheck"} :
        proc' = [proc EXCEPT ![c] = p] /\ cpc' = [cpc EXCEPT ![c] = l]
  BY DEF RunNext, FetchIdle, FetchNext, Fetch, Goto
<1>3. /\ proc[c] = NULL \/ cpc[c] = "refetch"
      /\ cpc[c] = "check" => dq[c] = Idle
      /\ dq' = dq
      /\ running_list' = TakeRunning(p)
  <2>1. proc'[c] = p
    BY <1>1, <1>2
  <2>2. QED
    BY <2>1 DEF RunNext, FetchIdle, FetchNext, At, RemovesFinished
<1>4. \A d \in CPUs \ {c} : ~Mid(d) /\ ~Looking(d)
  BY NoOtherRemoves DEF RunNext
<1>5. \A d \in CPUs : ~Mid(d) /\ ~Mid(d)' /\ ~Looking(d)'
  BY <1>1, <1>2, <1>3, <1>4 DEF Mid, Looking, Idle
<1>6. Enumerates(running_list, OnList) /\ OnList \in SUBSET Procs
  BY <1>5 DEF ListState, OnList
<1>7. \A d \in CPUs \ {c} : /\ Unlisted(d)' <=> Unlisted(d)
                            /\ \A r \in Procs : Holds(d, r)' <=> Holds(d, r)
  BY <1>1, <1>2, <1>3 DEF Unlisted, Mid, Holds
<1>8. /\ ~Unlisted(c)'
      /\ \A r \in Procs : ~Holds(c, r) /\ (Holds(c, r)' <=> r = p)
  BY <1>1, <1>2, <1>3, NullIsNoProc DEF Unlisted, Mid, Holds
<1>9. CASE p = NULL
  <2>1. OnList' = OnList
    BY <1>7, <1>8, <1>9, NullIsNoProc DEF OnList
  <2>2. running_list' = running_list
    BY <1>3, <1>9 DEF TakeRunning
  <2>3. QED
    BY <1>5, <1>6, <2>1, <2>2, ListSettled
<1>10. CASE p \in Procs
  <2>1. OnList' = OnList \union {p}
    BY <1>7, <1>8, <1>10 DEF OnList
  <2>2. proc'[c] = p
    BY <1>1, <1>2
  <2>3. p \notin OnList
    BY <1>10, <2>2 DEF OnList
  <2>4. running_list' = Enqueue(running_list, p)
    BY <1>3, <1>10, NullIsNoProc DEF TakeRunning
  <2>5. Enumerates(running_list', OnList')
    BY <1>1, <1>6, <1>10, <2>1, <2>3, <2>4, AppendEnumerates
  <2>6. QED
    BY <1>5, <2>5, ListSettled
<1>11. QED
  BY <1>9, <1>10

(* put_proc: the process leaves the list with its CPU.                     *)
LEMMA ListPut ==
  ASSUME TypeInv, ListTypes, RemovesFinished, ListState, OneHolder,
         NEW c \in CPUs, RunAgainLater(c), ~raced'
  PROVE  ListState'
<1> DEFINE p == proc[c]
<1>1. /\ cpc \in [CPUs -> {"check", "refetch", "recheck", "end_slot", "stopped"}]
      /\ proc \in [CPUs -> Procs \union {NULL}]
      /\ running_list \in Seq(Procs)
  BY DEF TypeInv, TypeOK, ListTypes
<1>2. /\ cpc[c] = "check" /\ p \in Procs /\ dq[c] = Idle
      /\ cpc' = [cpc EXCEPT ![c] = "refetch"] /\ proc' = proc /\ dq' = dq
      /\ running_list' = Without(running_list, p)
  BY <1>1 DEF RunAgainLater, PutProc, At, Goto, RemovesFinished
<1>3. \A d \in CPUs \ {c} : ~Mid(d) /\ ~Looking(d)
  BY NoOtherRemoves DEF RunAgainLater
<1>4. \A d \in CPUs : ~Mid(d) /\ ~Mid(d)' /\ ~Looking(d)'
  BY <1>1, <1>2, <1>3 DEF Mid, Looking, Idle
<1>5. Enumerates(running_list, OnList)
  BY <1>4 DEF ListState
<1>6. \A d \in CPUs \ {c} : /\ Unlisted(d)' <=> Unlisted(d)
                            /\ \A r \in Procs : Holds(d, r)' <=> Holds(d, r)
                            /\ ~Holds(d, p)
  BY <1>1, <1>2 DEF Unlisted, Mid, Holds, OneHolder
<1>7. /\ ~Unlisted(c)
      /\ \A r \in Procs : (Holds(c, r) <=> r = p) /\ ~Holds(c, r)'
  BY <1>1, <1>2 DEF Unlisted, Mid, Holds, Idle
<1>8. p \in OnList /\ OnList' = OnList \ {p}
  BY <1>2, <1>6, <1>7 DEF OnList
<1>9. Enumerates(running_list', OnList')
  BY <1>1, <1>2, <1>5, <1>8, WithoutEnumerates
<1>10. QED
  BY <1>4, <1>9, ListSettled

(* add_proc: the new process is on no CPU, so it is not on the list.       *)
LEMMA ListAdd ==
  ASSUME TypeInv, ListTypes, ListState,
         running_list' = Without(running_list, Loaded),
         UNCHANGED <<dq, cpc, proc>>,
         \A d \in CPUs, p \in Procs : Holds(d, p) => p <= i
  PROVE  ListState'
<1>1. i \in Nat /\ running_list \in Seq(Procs)
      /\ proc \in [CPUs -> Procs \union {NULL}]
  BY KernelAssumption DEF TypeInv, TypeOK, ListTypes
<1>2. \A p \in OnList : p # Loaded
  BY <1>1 DEF OnList, Loaded, Procs
<1>3. ASSUME NEW d \in CPUs, Mid(d) PROVE proc[d] # Loaded
  <2>1. CASE proc[d] = NULL
    BY <1>1, <2>1 DEF NULL, Loaded
  <2>2. CASE proc[d] \in Procs
    <3>1. Holds(d, proc[d])
      BY <1>3 DEF Holds, Mid
    <3>2. proc[d] <= i /\ proc[d] \in Nat
      BY <2>2, <3>1 DEF Procs
    <3>3. QED
      BY <1>1, <3>2 DEF Loaded
  <2>3. QED
    BY <1>1, <2>1, <2>2
<1>4. ASSUME NEW j \in DOMAIN running_list PROVE running_list[j] # Loaded
  <2>1. CASE \A d \in CPUs : ~Mid(d)
    <3>1. j # 0
      BY <1>1
    <3>2. QED
      BY <1>2, <2>1, <3>1 DEF ListState, Enumerates, EnumeratesBut
  <2>2. ASSUME NEW d \in CPUs, Mid(d) PROVE running_list[j] # Loaded
    BY <1>2, <1>3, <2>2 DEF ListState, EnumeratesBut
  <2>3. QED
    BY <2>1, <2>2
<1>5. running_list' = running_list
  BY <1>1, <1>4, WithoutAbsent
<1>6. OnList' = OnList
  BY DEF OnList, Holds, Unlisted, Mid
<1>7. QED
  BY <1>1, <1>5, <1>6, ListKept DEF Mid, Looking

(* A removal begins.                                                       *)
LEMMA ListStart ==
  ASSUME ListTypes, ListState, NEW c \in CPUs, StartRemoval(c)
  PROVE  ListState'
<1>1. /\ dq \in [CPUs -> RemovalTypes] /\ running_list \in Seq(Procs)
      /\ dq[c] = Idle /\ dq' = [dq EXCEPT ![c] = Start]
      /\ UNCHANGED <<cpc, proc, running_list>>
  BY DEF ListTypes, StartRemoval, vars, cpuVars
<1>2. \A d \in CPUs : /\ Mid(d)' <=> Mid(d)
                      /\ Unlisted(d)' <=> Unlisted(d)
                      /\ Mid(d) => dq'[d] = dq[d]
  BY <1>1 DEF Mid, Unlisted, Idle, Start
<1>3. OnList' = OnList
  BY <1>1, <1>2 DEF OnList, Holds
<1>4. \A d \in CPUs : Looking(d)' =>
        \/ Looking(d) /\ dq'[d] = dq[d] /\ proc'[d] = proc[d]
        \/ dq'[d] = Start
  BY <1>1 DEF Looking
<1>5. QED
  BY <1>1, <1>2, <1>3, <1>4, ListKept

(* A removal is over: its process left the list before.                    *)
LEMMA ListEnd ==
  ASSUME TypeInv, ListTypes, ListState, NEW c \in CPUs, EndRemoval(c)
  PROVE  ListState'
<1>1. /\ cpc \in [CPUs -> {"check", "refetch", "recheck", "end_slot", "stopped"}]
      /\ proc \in [CPUs -> Procs \union {NULL}]
      /\ dq \in [CPUs -> RemovalTypes] /\ running_list \in Seq(Procs)
  BY DEF TypeInv, TypeOK, ListTypes
<1>2. /\ cpc[c] = "check" /\ dq[c] = Done
      /\ dq' = [dq EXCEPT ![c] = Idle]
      /\ cpc' = [cpc EXCEPT ![c] = "refetch"]
      /\ proc' = [proc EXCEPT ![c] = NULL]
      /\ UNCHANGED running_list
  BY DEF EndRemoval, FinishProc, At, Goto
<1>3. \A d \in CPUs \ {c} : cpc'[d] = cpc[d] /\ dq'[d] = dq[d] /\ proc'[d] = proc[d]
  BY <1>1, <1>2
<1>4. Unlisted(c) /\ ~Mid(c) /\ ~Looking(c) /\ ~Mid(c)' /\ ~Looking(c)'
      /\ \A r \in Procs : ~Holds(c, r)'
  BY <1>1, <1>2 DEF Unlisted, Mid, Looking, Done, Holds
<1>5. OnList' = OnList
  BY <1>3, <1>4 DEF OnList, Holds, Unlisted, Mid
<1>6. QED
  BY <1>1, <1>2, <1>3, <1>4, <1>5, ListKept DEF Mid, Looking

(* One step of the unlocked removal, alone.                                *)
LEMMA ListRemove ==
  ASSUME TypeInv, ListTypes, RemovesFinished, ListState, OneHolder,
         NEW c \in CPUs, StepRemoval(c), ~raced'
  PROVE  ListState'
<1> DEFINE p == proc[c]
           L == running_list
           k == dq[c].k
<1>1. /\ cpc \in [CPUs -> {"check", "refetch", "recheck", "end_slot", "stopped"}]
      /\ proc \in [CPUs -> Procs \union {NULL}]
      /\ dq \in [CPUs -> RemovalTypes] /\ L \in Seq(Procs)
      /\ Len(L) \in Nat /\ DOMAIN L = 1..Len(L)
  BY DEF TypeInv, TypeOK, ListTypes
<1>2. /\ cpc[c] = "check" /\ dq[c].at \in {"find", "shift", "clear"}
      /\ UNCHANGED <<cpc, proc>>
      /\ dq' = [dq EXCEPT ![c] = NextPosition(L, p, dq[c])]
      /\ L' = NextList(L, dq[c])
  BY DEF StepRemoval, At, Removing, vars, cpuVars
<1>3. /\ p \in Procs /\ k \in Nat \ {0}
      /\ dq'[c] = NextPosition(L, p, dq[c])
      /\ \A d \in CPUs \ {c} : dq'[d] = dq[d]
  <2>1. dq[c] # Idle /\ k \in Nat \ {0}
    BY <1>1, <1>2 DEF Idle, RemovalTypes
  <2>2. QED
    BY <1>1, <1>2, <2>1 DEF RemovesFinished
<1>4. \A d \in CPUs \ {c} : ~Mid(d) /\ ~Looking(d) /\ ~Mid(d)' /\ ~Looking(d)'
  BY <1>2, <1>3, NoOtherRemoves DEF StepRemoval, Mid, Looking
<1>5. \A d \in CPUs, r \in Procs : Holds(d, r)' <=> Holds(d, r)
  BY <1>2 DEF Holds
<1>6. \A d \in CPUs \ {c} : Unlisted(d)' <=> Unlisted(d)
  BY <1>2, <1>3 DEF Unlisted, Mid
<1>7. /\ Holds(c, p)
      /\ \A r \in Procs : Holds(c, r) => r = p
      /\ \A d \in CPUs \ {c} : ~Holds(d, p)
  BY <1>2, <1>3 DEF Holds, OneHolder
<1>8. ASSUME dq[c].at = "find"
      PROVE  /\ Enumerates(L, OnList) /\ p \in OnList /\ ~Unlisted(c)
             /\ \A j \in DOMAIN L : j < k => L[j] # p
  <2>1. ~Mid(c) /\ ~Unlisted(c) /\ Looking(c)
    BY <1>2, <1>8 DEF Mid, Unlisted, Looking
  <2>2. QED
    BY <1>3, <1>4, <1>7, <2>1 DEF ListState, OnList
<1>9. ASSUME dq[c].at \in {"shift", "clear"}
      PROVE  /\ Mid(c) /\ Unlisted(c) /\ p \notin OnList
             /\ k \in DOMAIN L /\ EnumeratesBut(L, OnList, k)
             /\ dq[c].at = "clear" => k = Len(L)
             /\ L[k] \in OnList \union {p}
  <2>1. Mid(c) /\ Unlisted(c)
    BY <1>2, <1>9 DEF Mid, Unlisted
  <2>2. QED
    BY <1>7, <2>1 DEF ListState, OnList
<1>10. ASSUME Unlisted(c)' <=> Unlisted(c) PROVE OnList' = OnList
  BY <1>5, <1>6, <1>10 DEF OnList
<1>11. CASE Searching(L, p, dq[c])
  <2>1. /\ dq'[c] = [at |-> "find", k |-> k + 1] /\ L' = L
        /\ dq[c].at = "find" /\ k <= Len(L) /\ L[k] # p
    BY <1>1, <1>2, <1>3, <1>11, RemovalSteps DEF Searching
  <2>2. ~Mid(c)' /\ ~Unlisted(c)' /\ OnList' = OnList
    BY <1>2, <1>8, <1>10, <2>1 DEF Mid, Unlisted
  <2>3. \A j \in DOMAIN L : j < k + 1 => L[j] # p
    BY <1>1, <1>3, <1>8, <2>1
  <2>4. QED
    BY <1>2, <1>4, <1>8, <2>1, <2>2, <2>3 DEF ListState
<1>12. CASE dq[c].at = "find" /\ k > Len(L)
  <2>1. \A j \in DOMAIN L : L[j] # p
    BY <1>1, <1>3, <1>8, <1>12
  <2>2. QED
    BY <1>8, <1>12, <2>1 DEF Enumerates, EnumeratesBut
<1>13. CASE Found(L, p, dq[c])
  <2>1. /\ dq'[c] = [at |-> "shift", k |-> k] /\ L' = L
        /\ dq[c].at = "find" /\ k \in DOMAIN L /\ L[k] = p
    BY <1>1, <1>2, <1>3, <1>13, RemovalSteps DEF Found
  <2>2. Mid(c)' /\ Unlisted(c)' /\ ~Looking(c)'
    BY <1>2, <2>1 DEF Mid, Unlisted, Looking
  <2>3. OnList' = OnList \ {p}
    BY <1>3, <1>5, <1>6, <1>7, <1>8, <2>1, <2>2 DEF OnList
  <2>4. EnumeratesBut(L, OnList \ {p}, k)
    BY <1>1, <1>8, <2>1, LeaveOut
  <2>5. dq'[c].k = k /\ dq'[c].at = "shift" /\ proc'[c] = p
    BY <1>2, <2>1
  <2>6. L'[k] \in OnList' \union {p} /\ k \in DOMAIN L' /\ EnumeratesBut(L', OnList', k)
    BY <2>1, <2>3, <2>4
  <2>7. QED
    BY <1>4, <2>2, <2>5, <2>6 DEF ListState
<1>14. CASE Shifting(L, dq[c])
  <2>1. /\ dq'[c] = [at |-> "shift", k |-> k + 1]
        /\ L' = [L EXCEPT ![k] = L[k + 1]]
        /\ dq[c].at = "shift" /\ k < Len(L)
    BY <1>1, <1>2, <1>3, <1>14, RemovalSteps DEF Shifting
  <2>2. /\ k \in DOMAIN L /\ k + 1 \in DOMAIN L /\ k # k + 1 /\ k # 0
        /\ EnumeratesBut(L, OnList, k)
    BY <1>1, <1>3, <1>9, <2>1
  <2>3. /\ DOMAIN L' = DOMAIN L /\ L'[k] = L[k + 1]
        /\ \A j \in DOMAIN L : j # k => L'[j] = L[j]
    BY <1>1, <2>1, <2>2
  <2>4. Mid(c)' /\ Unlisted(c)' /\ ~Looking(c)'
    BY <1>2, <2>1 DEF Mid, Unlisted, Looking
  <2>5. OnList' = OnList
    BY <1>9, <1>10, <2>1, <2>4
  <2>6. EnumeratesBut(L', OnList, k + 1) /\ L'[k + 1] \in OnList
    <3> HIDE DEF L, k
    <3> QED
      BY <2>2, <2>3 DEF EnumeratesBut
  <2>7. dq'[c].k = k + 1 /\ dq'[c].at = "shift"
    BY <2>1
  <2>8. QED
    BY <1>2, <1>4, <2>2, <2>3, <2>4, <2>5, <2>6, <2>7 DEF ListState
<1>15. CASE dq[c].at = "shift" /\ k >= Len(L)
  <2>1. dq'[c] = [at |-> "clear", k |-> k] /\ L' = L /\ k = Len(L)
    BY <1>1, <1>2, <1>3, <1>9, <1>15, RemovalSteps
  <2>2. Mid(c)' /\ Unlisted(c)' /\ ~Looking(c)'
    BY <1>2, <2>1 DEF Mid, Unlisted, Looking
  <2>3. OnList' = OnList
    BY <1>9, <1>10, <1>15, <2>2
  <2>4. QED
    BY <1>2, <1>4, <1>9, <1>15, <2>1, <2>2, <2>3 DEF ListState
<1>16. CASE dq[c].at = "clear"
  <2>1. dq'[c] = Done /\ L' = SubSeq(L, 1, Len(L) - 1) /\ k = Len(L)
    BY <1>1, <1>2, <1>3, <1>9, <1>16, RemovalSteps
  <2>2. Unlisted(c)' /\ ~Mid(c)' /\ ~Looking(c)'
    BY <1>2, <2>1 DEF Mid, Unlisted, Looking, Done
  <2>3. OnList' = OnList
    BY <1>9, <1>10, <1>16, <2>2
  <2>4. L' = Cut(L, k)
    <3>1. SubSeq(L, k + 1, Len(L)) = <<>>
      BY <1>1, <2>1
    <3>2. SubSeq(L, 1, k - 1) \in Seq(Procs)
      BY <1>1, <1>3, <2>1
    <3>3. QED
      BY <2>1, <3>1, <3>2, ConcatEmptySeq DEF Cut
  <2>5. Enumerates(L', OnList)
    BY <1>1, <1>9, <1>16, <2>4, CutEnumerates
  <2>6. QED
    BY <1>4, <2>2, <2>3, <2>5, ListSettled
<1>17. QED
  BY <1>1, <1>2, <1>3, <1>11, <1>12, <1>13, <1>14, <1>15, <1>16
     DEF Searching, Found, Shifting

------------------------------------------------------------------------------
(* The list is exact.                                                      *)

(* The operations that touch the list or the removals.                     *)
ListStep(c) ==
  \/ RunNext(c) \/ RunAgainLater(c)
  \/ StartRemoval(c) \/ StepRemoval(c) \/ EndRemoval(c)

LEMMA ListTypesStep ==
  ASSUME TypeInv, ListTypes, NEW c \in CPUs, ListStep(c)
  PROVE  ListTypes'
<1> USE DEF ListTypes
<1>1. proc \in [CPUs -> Procs \union {NULL}]
  BY DEF TypeInv, TypeOK
<1>2. CASE RunNext(c)
  <2>1. proc'[c] \in Procs \union {NULL}
    BY <1>1, <1>2 DEF RunNext, FetchIdle, FetchNext, Fetch
  <2>2. running_list' \in Seq(Procs)
    BY <1>2, <2>1, TakeType DEF RunNext
  <2>3. QED
    BY <1>2, <2>2 DEF RunNext, UseList
<1>3. CASE RunAgainLater(c)
  BY <1>3, WithoutType DEF RunAgainLater, UseList
<1>4. CASE StartRemoval(c)
  BY <1>4, IdleType DEF StartRemoval
<1>5. CASE StepRemoval(c)
  <2>1. dq[c] \in RemovalTypes /\ dq[c].at \in {"find", "shift", "clear"}
    BY <1>5 DEF StepRemoval, Removing
  <2>2. /\ NextPosition(running_list, proc[c], dq[c]) \in RemovalTypes
        /\ NextList(running_list, dq[c]) \in Seq(Procs)
    BY <2>1, RemovalType
  <2>3. QED
    BY <1>5, <2>2 DEF StepRemoval, UseList
<1>6. CASE EndRemoval(c)
  BY <1>6, IdleType DEF EndRemoval
<1>7. QED
  BY <1>2, <1>3, <1>4, <1>5, <1>6 DEF ListStep

(* A removal at "check" stays one of a process that has finished.          *)
LEMMA RemovesKept ==
  ASSUME RemovesFinished, UNCHANGED size,
         \A d \in CPUs : cpc'[d] = "check" /\ dq'[d] # Idle =>
           /\ cpc[d] = "check" /\ dq[d] # Idle
           /\ proc'[d] = proc[d] /\ pc'[proc[d]] = pc[proc[d]]
  PROVE  RemovesFinished'
BY DEF RemovesFinished, HasFinished

LEMMA RemovesStep ==
  ASSUME TypeInv, ListTypes, RemovesFinished, NEW c \in CPUs, ListStep(c)
  PROVE  RemovesFinished'
<1>1. /\ cpc \in [CPUs -> {"check", "refetch", "recheck", "end_slot", "stopped"}]
      /\ proc \in [CPUs -> Procs \union {NULL}]
      /\ dq \in [CPUs -> RemovalTypes]
  BY DEF TypeInv, TypeOK, ListTypes
<1>2. CASE RunNext(c)
  <2>1. PICK p \in Procs \union {NULL}, l \in {"end_slot", "recheck"} :
          proc' = [proc EXCEPT ![c] = p] /\ cpc' = [cpc EXCEPT ![c] = l]
    BY <1>2 DEF RunNext, FetchIdle, FetchNext, Fetch, Goto
  <2>2. UNCHANGED <<size, pc, dq>>
    BY <1>2 DEF RunNext, FetchIdle, FetchNext, config, procVars
  <2>3. \A d \in CPUs : cpc'[d] = "check" =>
          cpc[d] = "check" /\ proc'[d] = proc[d]
    BY <1>1, <2>1
  <2>4. QED
    BY <2>2, <2>3, RemovesKept
<1>3. CASE RunAgainLater(c)
  <2>1. UNCHANGED <<size, pc, dq, proc>> /\ cpc' = [cpc EXCEPT ![c] = "refetch"]
    BY <1>3 DEF RunAgainLater, PutProc, Goto, config, procVars
  <2>2. QED
    BY <1>1, <2>1, RemovesKept
<1>4. CASE StartRemoval(c)
  BY <1>1, <1>4 DEF StartRemoval, RemovesFinished, HasFinished, At, vars, cpuVars,
                    procVars, config
<1>5. CASE StepRemoval(c)
  <2>1. /\ UNCHANGED <<size, pc, proc, cpc>> /\ cpc[c] = "check"
        /\ \A d \in CPUs \ {c} : dq'[d] = dq[d]
        /\ dq[c].at # "idle"
    BY <1>1, <1>5
       DEF StepRemoval, At, Removing, vars, cpuVars, procVars, config
  <2>2. dq[c] # Idle
    BY <2>1 DEF Idle
  <2>3. QED
    BY <2>1, <2>2, RemovesKept
<1>6. CASE EndRemoval(c)
  <2>1. /\ UNCHANGED <<size, pc>> /\ cpc' = [cpc EXCEPT ![c] = "refetch"]
        /\ \A d \in CPUs \ {c} : dq'[d] = dq[d] /\ proc'[d] = proc[d]
    BY <1>1, <1>6 DEF EndRemoval, FinishProc, Goto, config
  <2>2. QED
    BY <1>1, <2>1, RemovesKept
<1>7. QED
  BY <1>2, <1>3, <1>4, <1>5, <1>6 DEF ListStep

(* The list and the removals, whatever else becomes of the queues.         *)
ListSide ==
  /\ ListTypes
  /\ RemovesFinished
  /\ raced \/ ListState

(* All the list needs to know of the queues: who is loaded or comes from a *)
(* queue is on no CPU.                                                     *)
FromQueues ==
  /\ OneHolder
  /\ \A d \in CPUs, p \in Procs : Holds(d, p) => p <= i
  /\ \A c, d \in CPUs, p \in Procs : RunNext(c) /\ proc'[c] = p => ~Holds(d, p)

LEMMA ListSideKept ==
  ASSUME ListSide, UNCHANGED <<running_list, raced, cpc, proc>>,
         dq' \in [CPUs -> RemovalTypes],
         \A d \in CPUs : cpc[d] = "check" =>
           /\ dq'[d] = dq[d]
           /\ proc[d] # NULL /\ HasFinished(d) => HasFinished(d)'
  PROVE  ListSide'
<1>1. RemovesFinished' /\ ListTypes'
  BY DEF ListSide, RemovesFinished, ListTypes
<1>2. \A d \in CPUs : /\ Mid(d)' <=> Mid(d)
                      /\ Looking(d)' <=> Looking(d)
                      /\ Unlisted(d)' <=> Unlisted(d)
  BY DEF Mid, Looking, Unlisted
<1>3. OnList' = OnList
  BY <1>2 DEF OnList, Holds
<1>4. ListState => ListState'
  BY <1>2, <1>3, ListKept DEF Mid, Looking, ListSide, ListTypes
<1>5. QED
  BY <1>1, <1>4 DEF ListSide

(* A CPU goes on, and changes the pc of its own process at most.           *)
LEMMA ListSideMove ==
  ASSUME TypeInv, ListSide, OneHolder, UNCHANGED <<running_list, dq, raced, proc, size>>,
         NEW c \in CPUs, dq[c] = Idle, cpc[c] # "refetch",
         NEW l \in {"check", "recheck", "end_slot", "stopped"},
         cpc' = [cpc EXCEPT ![c] = l],
         \A p \in Procs : (p = proc[c] /\ cpc[c] # "check") \/ pc'[p] = pc[p]
  PROVE  ListSide'
<1>1. /\ cpc \in [CPUs -> {"check", "refetch", "recheck", "end_slot", "stopped"}]
      /\ proc \in [CPUs -> Procs \union {NULL}]
  BY DEF TypeInv, TypeOK
<1>2. ASSUME NEW d \in CPUs, cpc'[d] = "check", dq'[d] # Idle
      PROVE  /\ cpc[d] = "check" /\ dq[d] # Idle
             /\ proc'[d] = proc[d] /\ pc'[proc[d]] = pc[proc[d]]
  <2>1. d # c /\ cpc[d] = "check" /\ dq[d] # Idle /\ proc'[d] = proc[d]
    BY <1>1, <1>2
  <2>2. proc[d] \in Procs /\ Holds(d, proc[d])
    BY <1>1, <2>1 DEF ListSide, RemovesFinished, Holds
  <2>3. proc[c] # proc[d]
    BY <2>1, <2>2 DEF Holds, OneHolder
  <2>4. QED
    BY <2>1, <2>2, <2>3
<1>3. RemovesFinished'
  BY <1>2, RemovesKept DEF ListSide
<1>4. ListTypes'
  BY DEF ListSide, ListTypes
<1>5. raced' \/ ListState'
  BY ListMove DEF ListSide
<1>6. QED
  BY <1>3, <1>4, <1>5 DEF ListSide

LEMMA ListSideStep ==
  ASSUME Roomy, TypeInv, ListSide, FromQueues, [RLNext]_rlVars,
         \A c \in CPUs :
           KeepProc(c) \/ StopCPU(c) \/ SkipSlot(c) \/ RunProc(c) \/ EndSlot(c)
             => dq[c] = Idle
  PROVE  /\ ListSide'
         /\ \A d \in CPUs : cpc'[d] # "check" /\ dq'[d] # Idle =>
              cpc[d] # "check" /\ dq[d] # Idle
<1>1. /\ cpc \in [CPUs -> {"check", "refetch", "recheck", "end_slot", "stopped"}]
      /\ proc \in [CPUs -> Procs \union {NULL}]
      /\ dq \in [CPUs -> RemovalTypes]
      /\ OneHolder
  BY DEF TypeInv, TypeOK, ListSide, ListTypes, FromQueues
<1> DEFINE Where == \A d \in CPUs : cpc'[d] # "check" /\ dq'[d] # Idle =>
                      cpc[d] # "check" /\ dq[d] # Idle
<1>2. ASSUME NEW c \in CPUs, ListStep(c) PROVE ListSide' /\ Where
  <2>1. raced => raced'
    BY <1>2 DEF ListStep, RunNext, RunAgainLater, StartRemoval, StepRemoval,
                EndRemoval, UseList
  <2>2. ListTypes' /\ RemovesFinished'
    BY <1>2, ListTypesStep, RemovesStep DEF ListSide
  <2>3. ListState /\ ~raced' => ListState'
    BY <1>1, <1>2, ListFetch, ListPut, ListStart, ListRemove, ListEnd
       DEF ListStep, ListSide, FromQueues
  <2>4. Where
    <3>1. CASE RunNext(c) \/ RunAgainLater(c)
      <4>1. UNCHANGED dq /\ (cpc[c] = "check" => dq[c] = Idle)
        BY <3>1 DEF RunNext, FetchIdle, FetchNext, RunAgainLater, PutProc, At,
                    ListSide, RemovesFinished
      <4>2. \A d \in CPUs \ {c} : cpc'[d] = cpc[d]
        BY <1>1, <3>1 DEF RunNext, FetchIdle, FetchNext, RunAgainLater, PutProc, Goto
      <4>3. QED
        BY <4>1, <4>2
    <3>2. CASE StartRemoval(c) \/ StepRemoval(c)
      BY <1>1, <3>2 DEF StartRemoval, StepRemoval, At, vars, cpuVars
    <3>3. CASE EndRemoval(c)
      BY <1>1, <3>3 DEF EndRemoval, FinishProc, Goto
    <3>4. QED
      BY <1>2, <3>1, <3>2, <3>3 DEF ListStep
  <2>5. QED
    BY <2>1, <2>2, <2>3, <2>4 DEF ListSide
<1>3. ASSUME NEW c \in CPUs, UNCHANGED listVars,
             KeepProc(c) \/ StopCPU(c) \/ SkipSlot(c) \/ RunProc(c) \/ EndSlot(c)
      PROVE  ListSide' /\ Where
  <2>1. PICK l \in {"check", "recheck", "end_slot", "stopped"} :
          cpc' = [cpc EXCEPT ![c] = l]
    BY <1>3 DEF KeepProc, StopCPU, SkipSlot, RunProc, EndSlot, Goto
  <2>2. /\ UNCHANGED <<running_list, dq, raced, proc, size>>
        /\ cpc[c] # "refetch" /\ dq[c] = Idle
    BY <1>3 DEF listVars, KeepProc, StopCPU, SkipSlot, RunProc, EndSlot, At, config
  <2>3. \A p \in Procs : (p = proc[c] /\ cpc[c] # "check") \/ pc'[p] = pc[p]
    <3>1. CASE RunProc(c)
      BY <3>1 DEF RunProc, Run, At, TypeInv, TypeOK
    <3>2. CASE ~RunProc(c)
      BY <1>3, <3>2 DEF KeepProc, StopCPU, SkipSlot, EndSlot, procVars
    <3>3. QED
      BY <3>1, <3>2
  <2>4. ListSide'
    BY <1>1, <2>1, <2>2, <2>3, ListSideMove
  <2>5. Where
    BY <1>1, <2>1, <2>2
  <2>6. QED
    BY <2>4, <2>5
<1>4. ASSUME UNCHANGED <<running_list, dq, raced, cpc, proc, pc, size>>
      PROVE  ListSide' /\ Where
  BY <1>1, <1>4, ListSideKept DEF HasFinished
<1>5. CASE RLLoader
  <2>1. CASE AddProc /\ running_list' = Without(running_list, Loaded)
             /\ UNCHANGED <<dq, raced>>
    <3>1. UNCHANGED <<cpc, proc, pc, size>>
      BY <2>1 DEF AddProc, cpuVars, procVars, config
    <3>2. ListTypes'
      BY <2>1, WithoutType DEF ListSide, ListTypes
    <3>3. RemovesFinished' /\ Where
      BY <2>1, <3>1 DEF ListSide, RemovesFinished, HasFinished
    <3>4. ListState => ListState'
      BY <2>1, <3>1, ListAdd DEF ListSide, FromQueues
    <3>5. QED
      BY <2>1, <3>2, <3>3, <3>4 DEF ListSide
  <2>2. CASE (AwaitStart \/ LoaderEndSlot \/ SetDone \/ DetachLoader)
             /\ UNCHANGED listVars
    BY <1>4, <2>2 DEF AwaitStart, LoaderEndSlot, SetDone, DetachLoader, listVars,
                      cpuVars, procVars, config
  <2>3. QED
    BY <1>5, <2>1, <2>2 DEF RLLoader
<1>6. CASE (NewSlot \/ Finished) /\ UNCHANGED listVars
  BY <1>4, <1>6 DEF NewSlot, Finished, listVars, vars, cpuVars, procVars, config
<1>7. CASE UNCHANGED rlVars
  BY <1>4, <1>7 DEF rlVars, listVars, vars, cpuVars, procVars, config
<1>8. QED
  BY <1>2, <1>3, <1>5, <1>6, <1>7 DEF RLNext, RLCPU, ListStep

(* Who comes from a queue was in no hands: no process is in two places.    *)
LEMMA PlaceHandsOver ==
  ASSUME TypeInv, PlaceInv
  PROVE  FromQueues
<1>1. QueueType /\ proc \in [CPUs -> Procs \union {NULL}]
  BY DEF TypeInv, TypeOK, QueueType
<1>2. ASSUME NEW c \in CPUs, NEW d \in CPUs, NEW p \in Procs,
             RunNext(c), proc'[c] = p
      PROVE  ~Holds(d, p)
  <2>1. Queued(p)
    BY <1>1, <1>2, FetchTakes, NullIsNoProc DEF RunNext, FetchIdle, FetchNext
  <2>2. QED
    BY <2>1 DEF PlaceInv, HeldNotQueued
<1>3. QED
  BY <1>2 DEF FromQueues, PlaceInv, LiveOnly

ListInv ==
  /\ ListSide
  /\ \A c \in CPUs : cpc[c] # "check" => dq[c] = Idle

LEMMA ListInvInit == RLInit => ListInv
<1> SUFFICES ASSUME RLInit PROVE ListInv
  OBVIOUS
<1>1. running_list = <<>> /\ raced = FALSE /\ dq = [c \in CPUs |-> Idle]
      /\ proc = [c \in CPUs |-> NULL]
  BY DEF RLInit, Init
<1>2. ListTypes
  <2>1. running_list \in Seq(Procs) /\ raced \in BOOLEAN
    <3>1. raced \in BOOLEAN
      BY <1>1, Zenon
    <3>2. <<>> \in Seq(Procs)
      OBVIOUS
    <3>3. QED
      BY <1>1, <3>1, <3>2
  <2>2. dq \in [CPUs -> RemovalTypes]
    BY <1>1, IdleType
  <2>3. QED
    BY <2>1, <2>2 DEF ListTypes
<1>3. \A c \in CPUs : ~Mid(c) /\ ~Looking(c) /\ \A p \in Procs : ~Holds(c, p)
  BY <1>1, NullIsNoProc DEF Mid, Looking, Idle, Holds
<1>4. ListState
  BY <1>1, <1>3 DEF ListState, OnList, Enumerates, EnumeratesBut
<1>5. QED
  BY <1>1, <1>2, <1>4 DEF ListInv, ListSide, RemovesFinished

LEMMA ListInvStep ==
  Roomy /\ TypeInv /\ PlaceInv /\ ListInv /\ [RLNext]_rlVars => ListInv'
<1> SUFFICES ASSUME Roomy, TypeInv, PlaceInv, ListInv, [RLNext]_rlVars
             PROVE  ListInv'
  OBVIOUS
<1>1. \A c \in CPUs :
        KeepProc(c) \/ StopCPU(c) \/ SkipSlot(c) \/ RunProc(c) \/ EndSlot(c)
          => dq[c] = Idle
  BY DEF KeepProc, StopCPU, SkipSlot, RunProc, EndSlot, At, ListInv, ListSide,
         RemovesFinished
<1>2. QED
  BY <1>1, PlaceHandsOver, ListSideStep DEF ListInv

LEMMA CountOne ==
  ASSUME NEW A, \A x, y \in A : x = y
  PROVE  Cardinality(A) = IF A = {} THEN 0 ELSE 1
<1>1. CASE A = {}
  BY <1>1, FS_EmptySet
<1>2. CASE A # {}
  <2>1. PICK x \in A : TRUE
    BY <1>2
  <2>2. A = {x}
    BY <2>1
  <2>3. QED
    BY <1>2, <2>2, FS_Singleton
<1>3. QED
  BY <1>1, <1>2

LEMMA ListStateExact ==
  ASSUME running_list \in Seq(Procs), ListState
  PROVE  RunningExact
<1> SUFFICES ASSUME \A c \in CPUs : dq[c] = Idle, NEW p \in Procs
             PROVE  Cardinality(Entries(p)) =
                      IF \E c \in CPUs : Holds(c, p) THEN 1 ELSE 0
  BY DEF RunningExact
<1>1. \A c \in CPUs : ~Mid(c) /\ ~Unlisted(c)
  BY DEF Mid, Unlisted, Idle
<1>2. Enumerates(running_list, OnList)
  BY <1>1 DEF ListState
<1>3. p \in OnList <=> \E c \in CPUs : Holds(c, p)
  BY <1>1 DEF OnList
<1>4. 0 \notin DOMAIN running_list
  OBVIOUS
<1>5. /\ \A x, y \in Entries(p) : x = y
      /\ Entries(p) = {} <=> p \notin OnList
  BY <1>2, <1>4 DEF Enumerates, EnumeratesBut, Entries
<1>6. QED
  BY <1>3, <1>5, CountOne

(* sys_killall can rely on running_list until a CPU uses it while another  *)
(* is inside the dequeue_running of os.c:67: it has the processes that the *)
(* CPUs have in hand, each once, and no other, whenever no removal is      *)
(* under way.  The list has to have room for all processes.                *)
THEOREM ListExact ==
  ASSUME Roomy
  PROVE  RLSpec => []ExactUnlessRaced
<1>1. RLInit => TypeInv /\ PlaceInv /\ ListInv
  BY ListInitIsKernelInit, TypeInit, PlaceInit, ListInvInit
<1>2. TypeInv /\ PlaceInv /\ ListInv /\ [RLNext]_rlVars
        => (TypeInv /\ PlaceInv /\ ListInv)'
  BY Roomy, ListStepIsKernelStep, TypeStep, PlaceStep, ListInvStep
<1>3. ListInv => ExactUnlessRaced
  BY ListStateExact DEF ListInv, ListSide, ListTypes, ExactUnlessRaced
<1>4. QED
  BY <1>1, <1>2, <1>3, PTL DEF RLSpec

==============================================================================
