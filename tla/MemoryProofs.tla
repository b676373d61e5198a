---------------------------- MODULE MemoryProofs -----------------------------
(***************************************************************************)
(* Proofs about module Memory: for any number of processes, frames, pages  *)
(* and region identifiers and any sizes of the requests.                   *)
(***************************************************************************)
EXTENDS Memory, FiniteSetTheorems, WellFoundedInduction, TLAPS

------------------------------------------------------------------------------
(* Pages and addresses.                                                    *)

LEMMA PageOf ==
  ASSUME NEW a \in Nat
  PROVE  /\ a \div PAGING_PAGESZ \in Nat
         /\ a % PAGING_PAGESZ \in 0 .. PAGING_PAGESZ - 1
         /\ a = PAGING_PAGESZ * (a \div PAGING_PAGESZ) + (a % PAGING_PAGESZ)
  BY MemoryAssumption

LEMMA PageBelow ==
  ASSUME NEW a \in Nat, NEW n \in Nat, a < n * PAGING_PAGESZ
  PROVE  a \div PAGING_PAGESZ \in Nat /\ a \div PAGING_PAGESZ < n
  BY MemoryAssumption

LEMMA PageAbove ==
  ASSUME NEW a \in Nat, NEW n \in Nat, n * PAGING_PAGESZ <= a
  PROVE  a \div PAGING_PAGESZ \in Nat /\ n <= a \div PAGING_PAGESZ
  BY MemoryAssumption

LEMMA PageStart ==
  ASSUME NEW n \in Nat
  PROVE  n * PAGING_PAGESZ \in Nat /\ (n * PAGING_PAGESZ) \div PAGING_PAGESZ = n
  BY MemoryAssumption

LEMMA PagesAdd ==
  ASSUME NEW n \in Nat, NEW k \in Nat
  PROVE  /\ n * PAGING_PAGESZ + k * PAGING_PAGESZ = (n + k) * PAGING_PAGESZ
         /\ n <= k <=> n * PAGING_PAGESZ <= k * PAGING_PAGESZ
  BY MemoryAssumption

LEMMA NumPagesIs ==
  ASSUME NEW size \in Nat
  PROVE  /\ NumPages(size) \in Nat
         /\ size <= NumPages(size) * PAGING_PAGESZ
         /\ size = 0 => NumPages(size) = 0
  BY MemoryAssumption DEF NumPages

(* Two bytes of the RAM are the same only on the same frame.               *)
LEMMA ByteOfFrame ==
  ASSUME NEW f1 \in Nat, NEW f2 \in Nat,
         NEW o1 \in 0 .. PAGING_PAGESZ - 1, NEW o2 \in 0 .. PAGING_PAGESZ - 1,
         f1 * PAGING_PAGESZ + o1 = f2 * PAGING_PAGESZ + o2
  PROVE  f1 = f2 /\ o1 = o2
  BY MemoryAssumption

------------------------------------------------------------------------------
(* Sequences.                                                              *)

(* A set of natural numbers has a least element.                           *)
LEMMA LeastNat ==
  ASSUME NEW T \in SUBSET Nat, T # {}
  PROVE  \E x \in T : \A y \in T : x <= y
<1> DEFINE R == OpToRel(<, Nat)
<1>1. IsWellFoundedOn(R, Nat)
  BY NatLessThanWellFounded
<1>2. \E x \in T : \A y \in T : ~(<<y, x>> \in R)
  <2> HIDE DEF R
  <2> QED
    BY <1>1, WFMin
<1>3. \A x, y \in Nat : <<y, x>> \in R <=> y < x
  BY DEF OpToRel
<1> HIDE DEF R
<1>4. QED
  <2>1. PICK x \in T : \A y \in T : ~(<<y, x>> \in R)
    BY <1>2
  <2>2. \A y \in T : ~(y < x)
    BY <1>3, <2>1
  <2>3. \A y \in T : x <= y
    BY <2>2
  <2>4. QED
    BY <2>3

LEMMA MinIs ==
  ASSUME NEW T \in SUBSET Nat, T # {}
  PROVE  Min(T) \in T /\ \A y \in T : Min(T) <= y
  BY LeastNat DEF Min

(* The region a list gives to a request, and where a region is put in.     *)
LEMMA FirstFitIs ==
  ASSUME NEW L \in Seq(RegionType), NEW size \in Nat
  PROVE  FirstFit(L, size) # 0 =>
           /\ FirstFit(L, size) \in DOMAIN L
           /\ size <= L[FirstFit(L, size)].rg_end - L[FirstFit(L, size)].rg_start
<1> DEFINE T == {i \in 1..Len(L) : L[i].rg_end - L[i].rg_start >= size}
<1>1. FirstFit(L, size) = IF T # {} THEN Min(T) ELSE 0
  BY DEF FirstFit, SelectInSeq
<1>2. T \in SUBSET Nat /\ Len(L) \in Nat /\ DOMAIN L = 1..Len(L)
  OBVIOUS
<1>3. T # {} => Min(T) \in T
  BY <1>2, MinIs
<1>4. CASE T # {}
  <2>1. FirstFit(L, size) \in T
    BY <1>1, <1>3, <1>4
  <2>2. \A i \in T : i \in DOMAIN L /\ L[i] \in RegionType
                     /\ L[i].rg_end - L[i].rg_start >= size
    BY <1>2
  <2>3. L[FirstFit(L, size)].rg_end \in Int /\ L[FirstFit(L, size)].rg_start \in Int
    BY <2>1, <2>2 DEF RegionType, Limits
  <2>4. QED
    BY <2>1, <2>2, <2>3
<1>5. QED
  BY <1>1, <1>4

Glue(B, C) == B \o C

LEMMA ConcatIs ==
  ASSUME NEW B \in Seq(RegionType), NEW C \in Seq(RegionType)
  PROVE  /\ Glue(B, C) \in Seq(RegionType) /\ Len(Glue(B, C)) = Len(B) + Len(C)
         /\ DOMAIN Glue(B, C) = 1 .. Len(B) + Len(C)
         /\ \A j \in 1 .. Len(B) : Glue(B, C)[j] = B[j]
         /\ \A j \in 1 .. Len(B) + Len(C) : j > Len(B) => Glue(B, C)[j] = C[j - Len(B)]
  BY DEF Glue

LEMMA RemoveAtIs ==
  ASSUME NEW L \in Seq(RegionType), NEW n \in DOMAIN L
  PROVE  /\ RemoveAt(L, n) \in Seq(RegionType)
         /\ DOMAIN RemoveAt(L, n) = 1 .. Len(L) - 1
         /\ \A j \in 1 .. Len(L) - 1 :
              RemoveAt(L, n)[j] = IF j < n THEN L[j] ELSE L[j + 1]
<1> DEFINE B == SubSeq(L, 1, n - 1)
           C == SubSeq(L, n + 1, Len(L))
<1>1. Len(L) \in Nat /\ DOMAIN L = 1..Len(L) /\ n \in 1..Len(L)
  OBVIOUS
<1>2. B \in Seq(RegionType) /\ Len(B) = n - 1 /\ \A j \in 1 .. n - 1 : B[j] = L[j]
  BY <1>1
<1>3. C \in Seq(RegionType) /\ Len(C) = Len(L) - n /\ \A j \in 1 .. Len(L) - n : C[j] = L[n + j]
  BY <1>1
<1>4. RemoveAt(L, n) = Glue(B, C)
  BY DEF RemoveAt, Glue
<1> HIDE DEF B, C
<1>5. /\ RemoveAt(L, n) \in Seq(RegionType)
      /\ DOMAIN RemoveAt(L, n) = 1 .. Len(B) + Len(C)
      /\ \A j \in 1 .. Len(B) : RemoveAt(L, n)[j] = B[j]
      /\ \A j \in 1 .. Len(B) + Len(C) :
           j > Len(B) => RemoveAt(L, n)[j] = C[j - Len(B)]
  <2>1. B \in Seq(RegionType) /\ C \in Seq(RegionType)
    BY <1>2, <1>3
  <2>2. /\ Glue(B, C) \in Seq(RegionType)
        /\ DOMAIN Glue(B, C) = 1 .. Len(B) + Len(C)
        /\ \A j \in 1 .. Len(B) : Glue(B, C)[j] = B[j]
        /\ \A j \in 1 .. Len(B) + Len(C) : j > Len(B) => Glue(B, C)[j] = C[j - Len(B)]
    BY <2>1, ConcatIs
  <2>3. QED
    BY <1>4, <2>2
<1>6. DOMAIN RemoveAt(L, n) = 1 .. Len(L) - 1
  BY <1>1, <1>2, <1>3, <1>5
<1>7. ASSUME NEW j \in 1 .. Len(L) - 1
      PROVE  RemoveAt(L, n)[j] = IF j < n THEN L[j] ELSE L[j + 1]
  <2>1. CASE j < n
    BY <1>1, <1>2, <1>5, <2>1
  <2>2. CASE ~(j < n)
    <3>1. /\ j \in 1 .. Len(B) + Len(C) /\ j > Len(B) /\ j - Len(B) = j - n + 1
          /\ j - n + 1 \in 1 .. Len(L) - n /\ n + (j - n + 1) = j + 1
      BY <1>1, <1>2, <1>3, <2>2
    <3>2. QED
      BY <1>3, <1>5, <2>2, <3>1
  <2>3. QED
    BY <2>1, <2>2
<1>8. QED
  BY <1>5, <1>6, <1>7

LEMMA InsertAtIs ==
  ASSUME NEW L \in Seq(RegionType), NEW n \in DOMAIN L, NEW e \in RegionType
  PROVE  /\ InsertAt(L, n, e) \in Seq(RegionType)
         /\ DOMAIN InsertAt(L, n, e) = 1 .. Len(L) + 1
         /\ \A j \in 1 .. Len(L) + 1 :
              InsertAt(L, n, e)[j] =
                IF j < n THEN L[j] ELSE IF j = n THEN e ELSE L[j - 1]
<1> DEFINE B == SubSeq(L, 1, n - 1)
           C == SubSeq(L, n, Len(L))
           D == B \o <<e>>
<1>1. Len(L) \in Nat /\ DOMAIN L = 1..Len(L) /\ n \in 1..Len(L)
  OBVIOUS
<1>2. B \in Seq(RegionType) /\ Len(B) = n - 1 /\ \A j \in 1 .. n - 1 : B[j] = L[j]
  BY <1>1
<1>3. /\ C \in Seq(RegionType) /\ Len(C) = Len(L) - n + 1
      /\ \A j \in 1 .. Len(L) - n + 1 : C[j] = L[n + j - 1]
  BY <1>1
<1>4. InsertAt(L, n, e) = Glue(D, C)
  BY DEF InsertAt, Glue
<1> HIDE DEF B, C
<1>5. /\ D \in Seq(RegionType) /\ Len(D) = n
      /\ \A j \in 1 .. n - 1 : D[j] = L[j]
      /\ D[n] = e
  BY <1>1, <1>2
<1> HIDE DEF D
<1>6. /\ InsertAt(L, n, e) \in Seq(RegionType)
      /\ DOMAIN InsertAt(L, n, e) = 1 .. Len(D) + Len(C)
      /\ \A j \in 1 .. Len(D) : InsertAt(L, n, e)[j] = D[j]
      /\ \A j \in 1 .. Len(D) + Len(C) :
           j > Len(D) => InsertAt(L, n, e)[j] = C[j - Len(D)]
  <2>1. D \in Seq(RegionType) /\ C \in Seq(RegionType)
    BY <1>3, <1>5
  <2>2. /\ Glue(D, C) \in Seq(RegionType)
        /\ DOMAIN Glue(D, C) = 1 .. Len(D) + Len(C)
        /\ \A j \in 1 .. Len(D) : Glue(D, C)[j] = D[j]
        /\ \A j \in 1 .. Len(D) + Len(C) : j > Len(D) => Glue(D, C)[j] = C[j - Len(D)]
    BY <2>1, ConcatIs
  <2>3. QED
    BY <1>4, <2>2
<1>7. DOMAIN InsertAt(L, n, e) = 1 .. Len(L) + 1
  BY <1>1, <1>3, <1>5, <1>6
<1>8. ASSUME NEW j \in 1 .. Len(L) + 1
      PROVE  InsertAt(L, n, e)[j] =
               IF j < n THEN L[j] ELSE IF j = n THEN e ELSE L[j - 1]
  <2>1. CASE j <= n
    <3>1. j \in 1 .. Len(D) /\ (j < n => j \in 1 .. n - 1) /\ (~(j < n) => j = n)
      BY <1>1, <1>5, <2>1
    <3>2. QED
      BY <1>5, <1>6, <3>1
  <2>2. CASE n < j
    <3>1. /\ j \in 1 .. Len(D) + Len(C) /\ j > Len(D) /\ j - Len(D) = j - n
          /\ j - n \in 1 .. Len(L) - n + 1 /\ n + (j - n) - 1 = j - 1
          /\ ~(j < n) /\ j # n
      BY <1>1, <1>3, <1>5, <2>2
    <3>2. InsertAt(L, n, e)[j] = C[j - n]
      BY <1>6, <3>1
    <3>3. C[j - n] = L[j - 1]
      BY <1>3, <3>1
    <3>4. QED
      BY <3>1, <3>2, <3>3
  <2>3. QED
    BY <1>1, <2>1, <2>2
<1>9. QED
  BY <1>6, <1>7, <1>8

LEMMA RegionNat ==
  ASSUME NEW rg \in RegionType
  PROVE  rg.rg_start \in Nat /\ rg.rg_end \in Nat
  BY DEF RegionType, Limits

LEMMA RegionsNat ==
  ASSUME NEW L \in Seq(RegionType)
  PROVE  /\ Len(L) \in Nat /\ DOMAIN L = 1..Len(L)
         /\ \A k \in DOMAIN L : /\ L[k] \in RegionType
                                /\ L[k].rg_start \in Nat /\ L[k].rg_end \in Nat
<1>1. \A k \in DOMAIN L : L[k] \in RegionType
  OBVIOUS
<1>2. QED
  BY <1>1, RegionNat

(* An empty region is refused; another one is put in as element n.         *)
LEMMA EnlistPlace ==
  ASSUME NEW L \in Seq(RegionType), NEW rg \in RegionType,
         rg.rg_start < rg.rg_end
  PROVE  \E n \in 1 .. Len(L) + 1 :
           /\ enlist_vm_freerg_list(L, rg) \in Seq(RegionType)
           /\ DOMAIN enlist_vm_freerg_list(L, rg) = 1 .. Len(L) + 1
           /\ \A j \in 1 .. Len(L) + 1 :
                enlist_vm_freerg_list(L, rg)[j] =
                  IF j < n THEN L[j] ELSE IF j = n THEN rg ELSE L[j - 1]
           /\ \A j \in DOMAIN L : j < n => ~(L[j].rg_start >= rg.rg_end)
           /\ n \in DOMAIN L => L[n].rg_start >= rg.rg_end
<1> DEFINE T == {i \in 1..Len(L) : L[i].rg_start >= rg.rg_end}
           next == IF T # {} THEN Min(T) ELSE 0
<1>1. enlist_vm_freerg_list(L, rg) =
        IF rg.rg_start >= rg.rg_end THEN L
        ELSE IF next = 0 THEN Append(L, rg)
        ELSE InsertAt(L, next, rg)
  BY DEF enlist_vm_freerg_list, SelectInSeq
<1>2. T \in SUBSET Nat
  OBVIOUS
<1>3. /\ Len(L) \in Nat /\ DOMAIN L = 1..Len(L) /\ 0 \notin DOMAIN L
      /\ ~(rg.rg_start >= rg.rg_end)
      /\ \A j \in DOMAIN L : j \in Nat
  <2>1. rg.rg_start \in Nat /\ rg.rg_end \in Nat
    BY RegionNat
  <2>2. QED
    BY <2>1
<1>4. \A j : j \in T <=> j \in DOMAIN L /\ L[j].rg_start >= rg.rg_end
  BY <1>3
<1>5. \/ next = 0 /\ T = {}
      \/ next \in T /\ \A y \in T : next <= y
  <2> HIDE DEF T
  <2> QED
    BY <1>2, MinIs
<1> HIDE DEF next, T
<1>6. CASE next = 0
  <2>1. enlist_vm_freerg_list(L, rg) = Append(L, rg)
    BY <1>1, <1>3, <1>6, Zenon
  <2>2. /\ Append(L, rg) \in Seq(RegionType)
        /\ DOMAIN Append(L, rg) = 1 .. Len(L) + 1
        /\ \A j \in 1 .. Len(L) + 1 :
             Append(L, rg)[j] = IF j < Len(L) + 1 THEN L[j] ELSE rg
    BY <1>3
  <2>3. \A j \in DOMAIN L : ~(L[j].rg_start >= rg.rg_end)
    BY <1>3, <1>4, <1>5, <1>6
  <2>4. \A j \in 1 .. Len(L) + 1 :
          Append(L, rg)[j] = IF j < Len(L) + 1 THEN L[j]
                             ELSE IF j = Len(L) + 1 THEN rg ELSE L[j - 1]
    BY <2>2, <1>3
  <2>5. Len(L) + 1 \in 1 .. Len(L) + 1 /\ Len(L) + 1 \notin DOMAIN L
    BY <1>3
  <2>6. QED
    BY <2>1, <2>2, <2>3, <2>4, <2>5
<1>7. CASE next # 0
  <2>1. enlist_vm_freerg_list(L, rg) = InsertAt(L, next, rg)
    BY <1>1, <1>3, <1>7, Zenon
  <2>2. next \in DOMAIN L /\ next \in 1 .. Len(L) + 1 /\ L[next].rg_start >= rg.rg_end
    BY <1>3, <1>4, <1>5, <1>7
  <2>3. \A j \in DOMAIN L : j < next => ~(L[j].rg_start >= rg.rg_end)
    BY <1>3, <1>4, <1>5, <1>7, <2>2
  <2>4. /\ InsertAt(L, next, rg) \in Seq(RegionType)
        /\ DOMAIN InsertAt(L, next, rg) = 1 .. Len(L) + 1
        /\ \A j \in 1 .. Len(L) + 1 :
             InsertAt(L, next, rg)[j] =
               IF j < next THEN L[j] ELSE IF j = next THEN rg ELSE L[j - 1]
    <3>1. next \in DOMAIN L
      BY <2>2
    <3>2. QED
      BY <3>1, InsertAtIs
  <2>5. QED
    BY <2>1, <2>2, <2>3, <2>4
<1>8. QED
  BY <1>6, <1>7

------------------------------------------------------------------------------
(* Lists of free regions.                                                  *)

Within(list, a) == \E k \in DOMAIN list : a \in Bytes(list[k])

Merged(list) ==
  /\ \A k \in DOMAIN list : list[k].rg_start < list[k].rg_end
  /\ \A j, k \in DOMAIN list : j < k => list[j].rg_end < list[k].rg_start

Touchless(list, rg) ==
  \A k \in DOMAIN list : list[k].rg_end < rg.rg_start \/ rg.rg_end < list[k].rg_start

(* Putting a region in keeps a list merged that the region does not touch. *)
LEMMA EnlistIs ==
  ASSUME NEW L \in Seq(RegionType), NEW rg \in RegionType, Merged(L),
         rg.rg_start < rg.rg_end => Touchless(L, rg)
  PROVE  /\ enlist_vm_freerg_list(L, rg) \in Seq(RegionType)
         /\ Merged(enlist_vm_freerg_list(L, rg))
         /\ \A a : Within(enlist_vm_freerg_list(L, rg), a)
                    <=> Within(L, a) \/ a \in Bytes(rg)
<1> DEFINE A == enlist_vm_freerg_list(L, rg)
<1>1. /\ Len(L) \in Nat /\ DOMAIN L = 1..Len(L)
      /\ rg.rg_start \in Nat /\ rg.rg_end \in Nat
      /\ \A k \in DOMAIN L : L[k].rg_start \in Nat /\ L[k].rg_end \in Nat
  BY RegionNat, RegionsNat
<1>2. CASE rg.rg_start >= rg.rg_end
  <2>1. A = L
    BY <1>1, <1>2 DEF enlist_vm_freerg_list
  <2>2. \A a : a \notin Bytes(rg)
    BY <1>1, <1>2 DEF Bytes
  <2>3. QED
    BY <2>1, <2>2
<1>3. CASE rg.rg_start < rg.rg_end
  <2>1. PICK n \in 1 .. Len(L) + 1 :
          /\ A \in Seq(RegionType)
          /\ DOMAIN A = 1 .. Len(L) + 1
          /\ \A j \in 1 .. Len(L) + 1 :
               A[j] = IF j < n THEN L[j] ELSE IF j = n THEN rg ELSE L[j - 1]
          /\ \A j \in DOMAIN L : j < n => ~(L[j].rg_start >= rg.rg_end)
          /\ n \in DOMAIN L => L[n].rg_start >= rg.rg_end
    BY <1>3, EnlistPlace
  <2> HIDE DEF A
  <2>2. \A j \in DOMAIN L : j < n => L[j].rg_end < rg.rg_start
    BY <1>1, <1>3, <2>1 DEF Touchless, Merged
  <2>3. \A j \in DOMAIN L : n <= j => rg.rg_end < L[j].rg_start
    <3>1. n \in DOMAIN L => rg.rg_end < L[n].rg_start
      BY <1>1, <1>3, <2>1 DEF Touchless, Merged
    <3>2. \A j \in DOMAIN L : n < j => n \in DOMAIN L /\ L[n].rg_end < L[j].rg_start
                                        /\ L[n].rg_start < L[n].rg_end
      BY <1>1 DEF Merged
    <3>3. QED
      BY <1>1, <3>1, <3>2
  <2>4. \A k \in DOMAIN A : A[k].rg_start < A[k].rg_end
    <3> TAKE k \in DOMAIN A
    <3>1. \/ A[k] = L[k] /\ k \in DOMAIN L
          \/ A[k] = rg
          \/ A[k] = L[k - 1] /\ k - 1 \in DOMAIN L
      BY <1>1, <2>1
    <3>2. QED
      BY <1>3, <3>1 DEF Merged
  <2>5. ASSUME NEW j \in DOMAIN A, NEW k \in DOMAIN A, j < k
        PROVE  A[j].rg_end < A[k].rg_start
    <3>1. CASE k < n
      <4>1. A[j] = L[j] /\ A[k] = L[k] /\ j \in DOMAIN L /\ k \in DOMAIN L
        BY <1>1, <2>1, <2>5, <3>1
      <4>2. QED
        BY <2>5, <4>1 DEF Merged
    <3>2. CASE k = n
      BY <1>1, <2>1, <2>2, <2>5, <3>2
    <3>3. CASE n < k /\ j < n
      <4>1. /\ A[j] = L[j] /\ A[k] = L[k - 1] /\ j \in DOMAIN L /\ k - 1 \in DOMAIN L
            /\ j < k - 1
        BY <1>1, <2>1, <2>5, <3>3
      <4>2. QED
        BY <4>1 DEF Merged
    <3>4. CASE n < k /\ j = n
      <4>1. A[j] = rg /\ A[k] = L[k - 1] /\ k - 1 \in DOMAIN L /\ n <= k - 1
        BY <1>1, <2>1, <2>5, <3>4
      <4>2. QED
        BY <2>3, <4>1
    <3>5. CASE n < j
      <4>1. /\ A[j] = L[j - 1] /\ A[k] = L[k - 1]
            /\ j - 1 \in DOMAIN L /\ k - 1 \in DOMAIN L /\ j - 1 < k - 1
        BY <1>1, <2>1, <2>5, <3>5
      <4>2. QED
        BY <4>1 DEF Merged
    <3>6. QED
      BY <1>1, <2>1, <2>5, <3>1, <3>2, <3>3, <3>4, <3>5
  <2>6. ASSUME NEW a
        PROVE  Within(A, a) <=> Within(L, a) \/ a \in Bytes(rg)
    <3>1. ASSUME NEW k \in DOMAIN A, a \in Bytes(A[k])
          PROVE  Within(L, a) \/ a \in Bytes(rg)
      <4>1. A[k] = rg \/ \E j \in DOMAIN L : A[k] = L[j]
        <5>1. \/ k < n /\ k \in DOMAIN L
              \/ k = n
              \/ n < k /\ k - 1 \in DOMAIN L
          BY <1>1, <2>1
        <5>2. QED
          BY <2>1, <5>1
      <4>2. QED
        BY <3>1, <4>1 DEF Within
    <3>2. ASSUME NEW j \in DOMAIN L, a \in Bytes(L[j])
          PROVE  Within(A, a)
      <4>1. \E k \in DOMAIN A : A[k] = L[j]
        <5>1. \/ j < n /\ j \in DOMAIN A
              \/ ~(j + 1 < n) /\ j + 1 # n /\ j + 1 \in DOMAIN A /\ (j + 1) - 1 = j
          BY <1>1, <2>1
        <5>2. QED
          BY <2>1, <5>1
      <4>2. QED
        BY <3>2, <4>1 DEF Within
    <3>3. a \in Bytes(rg) => Within(A, a)
      <4>1. n \in DOMAIN A /\ A[n] = rg
        BY <1>1, <2>1
      <4>2. QED
        BY <4>1 DEF Within
    <3>4. QED
      BY <3>1, <3>2, <3>3 DEF Within
  <2>7. QED
    BY <2>1, <2>4, <2>5, <2>6 DEF Merged, A
<1>4. QED
  BY <1>1, <1>2, <1>3

------------------------------------------------------------------------------
(* The loop of __free, by induction over the elements it has gone through. *)

AccType == [rg : RegionType, rest : Seq(RegionType)]

LEMMA AbsorbIs ==
  ASSUME NEW acc \in AccType, NEW x \in RegionType
  PROVE  Absorb(acc, x) =
           IF x.rg_end = acc.rg.rg_start
           THEN [rg |-> Region(x.rg_start, acc.rg.rg_end), rest |-> acc.rest]
           ELSE IF x.rg_start = acc.rg.rg_end
           THEN [rg |-> Region(acc.rg.rg_start, x.rg_end), rest |-> acc.rest]
           ELSE [rg |-> acc.rg, rest |-> Append(acc.rest, x)]
<1>1. \A v : [acc EXCEPT !.rg.rg_start = v]
              = [rg |-> [acc.rg EXCEPT !.rg_start = v], rest |-> acc.rest]
  BY DEF AccType
<1>2. \A v : [acc EXCEPT !.rg.rg_end = v]
              = [rg |-> [acc.rg EXCEPT !.rg_end = v], rest |-> acc.rest]
  BY DEF AccType
<1>3. \A v : [acc EXCEPT !.rest = v] = [rg |-> acc.rg, rest |-> v]
  BY DEF AccType
<1>4. acc.rg \in RegionType
  BY DEF AccType
<1>5. \A v : /\ [acc.rg EXCEPT !.rg_start = v] = Region(v, acc.rg.rg_end)
             /\ [acc.rg EXCEPT !.rg_end = v] = Region(acc.rg.rg_start, v)
  BY <1>4 DEF RegionType, Region
<1>6. Absorb(acc, x) =
        IF x.rg_end = acc.rg.rg_start THEN [acc EXCEPT !.rg.rg_start = x.rg_start]
        ELSE IF x.rg_start = acc.rg.rg_end THEN [acc EXCEPT !.rg.rg_end = x.rg_end]
        ELSE [acc EXCEPT !.rest = Append(acc.rest, x)]
  BY Zenon DEF Absorb
<1>7. QED
  BY <1>1, <1>2, <1>3, <1>5, <1>6, Zenon

(* The recursive function of Coalesced exists and is what it says.         *)
Unfolds(f, L, rg, n) ==
  /\ DOMAIN f = 0..n
  /\ f[0] = [rg |-> rg, rest |-> <<>>]
  /\ \A k \in 1..n : f[k] = Absorb(f[k - 1], L[k])

LEMMA UnfoldingExists ==
  ASSUME NEW L, NEW rg, NEW n \in Nat
  PROVE  \E f : Unfolds(f, L, rg, n)
<1> DEFINE T == {m \in Nat : ~ \E f : Unfolds(f, L, rg, m)}
<1>1. SUFFICES ASSUME T # {} PROVE FALSE
  OBVIOUS
<1>2. PICK m \in T : \A y \in T : m <= y
  BY <1>1, LeastNat
<1>3. m \in Nat /\ ~ \E f : Unfolds(f, L, rg, m)
  BY <1>2
<1>4. m # 0
  <2>1. Unfolds([k \in 0..0 |-> [rg |-> rg, rest |-> <<>>]], L, rg, 0)
    BY DEF Unfolds
  <2>2. QED
    BY <1>3, <2>1
<1>5. m - 1 \in Nat /\ m - 1 \notin T
  BY <1>2, <1>3, <1>4
<1>6. PICK f : Unfolds(f, L, rg, m - 1)
  BY <1>5
<1> DEFINE g == [k \in 0..m |-> IF k < m THEN f[k] ELSE Absorb(f[m - 1], L[m])]
<1>7. Unfolds(g, L, rg, m)
  <2>1. DOMAIN g = 0..m /\ g[0] = f[0] /\ g[m] = Absorb(f[m - 1], L[m])
        /\ \A k \in 0 .. m - 1 : g[k] = f[k]
    BY <1>3, <1>4
  <2> HIDE DEF g
  <2>2. \A k \in 1..m : g[k] = Absorb(g[k - 1], L[k])
    <3> TAKE k \in 1..m
    <3>1. CASE k = m
      BY <1>3, <1>4, <2>1, <3>1
    <3>2. CASE k # m
      <4>1. k \in 1 .. m - 1 /\ k \in 0 .. m - 1 /\ k - 1 \in 0 .. m - 1
        BY <1>3, <3>2
      <4>2. f[k] = Absorb(f[k - 1], L[k])
        BY <1>6, <4>1 DEF Unfolds
      <4>3. QED
        BY <2>1, <4>1, <4>2
    <3>3. QED
      BY <3>1, <3>2
  <2>3. QED
    BY <1>6, <2>1, <2>2 DEF Unfolds
<1>8. QED
  BY <1>3, <1>7

LEMMA CoalescedUnfolds ==
  ASSUME NEW L \in Seq(RegionType), NEW rg \in RegionType
  PROVE  \E f : Unfolds(f, L, rg, Len(L)) /\ Coalesced(L, rg) = f[Len(L)]
<1> DEFINE IsAcc(f) == f = [k \in 0..Len(L) |-> IF k = 0 THEN [rg |-> rg, rest |-> <<>>]
                                                ELSE Absorb(f[k - 1], L[k])]
           acc == CHOOSE f : IsAcc(f)
<1>1. Len(L) \in Nat
  OBVIOUS
<1>2. Coalesced(L, rg) = acc[Len(L)]
  BY DEF Coalesced
<1>3. \E f : IsAcc(f)
  <2>1. PICK f : Unfolds(f, L, rg, Len(L)) /\ TRUE
    BY <1>1, UnfoldingExists
  <2> DEFINE g == [k \in 0..Len(L) |-> f[k]]
  <2>2. /\ g[0] = [rg |-> rg, rest |-> <<>>]
        /\ \A k \in 1..Len(L) : g[k] = Absorb(g[k - 1], L[k])
    <3>1. \A k \in 0..Len(L) : g[k] = f[k]
      OBVIOUS
    <3>2. \A k \in 1..Len(L) : k \in 0..Len(L) /\ k - 1 \in 0..Len(L)
      BY <1>1
    <3> HIDE DEF g
    <3>3. QED
      BY <1>1, <2>1, <3>1, <3>2 DEF Unfolds
  <2>3. IsAcc(g)
    <3> DEFINE h == [k \in 0..Len(L) |-> IF k = 0 THEN [rg |-> rg, rest |-> <<>>]
                                         ELSE Absorb(g[k - 1], L[k])]
    <3>1. \A k \in 0..Len(L) : g[k] = h[k]
      BY <1>1, <2>2
    <3>2. g = [k \in 0..Len(L) |-> g[k]] /\ h = [k \in 0..Len(L) |-> h[k]]
      OBVIOUS
    <3>3. g = h
      <4> HIDE DEF g, h
      <4> QED
        BY <3>1, <3>2
    <3>4. QED
      BY <3>3
  <2>4. QED
    BY <2>3
<1>4. IsAcc(acc)
  <2> HIDE DEF IsAcc
  <2> QED
    BY <1>3
<1> HIDE DEF acc
<1>5. Unfolds(acc, L, rg, Len(L))
  BY <1>1, <1>4 DEF Unfolds
<1>6. QED
  BY <1>2, <1>5

(* What the loop keeps; k elements have been gone through.                 *)
Overlapless(x, rg) ==
  rg.rg_start < rg.rg_end => x.rg_end <= rg.rg_start \/ rg.rg_end <= x.rg_start

Absorbing(acc, L, rg, k) ==
  /\ acc \in AccType /\ acc.rg.rg_start <= acc.rg.rg_end
  /\ Merged(acc.rest)
  /\ \A j \in DOMAIN acc.rest, m \in DOMAIN L :
       k < m => acc.rest[j].rg_end < L[m].rg_start
  /\ acc.rg.rg_start < acc.rg.rg_end => Touchless(acc.rest, acc.rg)
  /\ \A m \in DOMAIN L : k < m => Overlapless(L[m], acc.rg)
  /\ \A a \in Int : a \in Bytes(acc.rg) \/ Within(acc.rest, a)
                 <=> a \in Bytes(rg) \/ \E m \in DOMAIN L : m <= k /\ a \in Bytes(L[m])
  /\ \A a \in Int : a \in Bytes(rg) => a \in Bytes(acc.rg)

LEMMA AbsorbStep ==
  ASSUME NEW L \in Seq(RegionType), Merged(L), NEW rg \in RegionType,
         NEW acc, NEW k \in DOMAIN L, Absorbing(acc, L, rg, k - 1)
  PROVE  Absorbing(Absorb(acc, L[k]), L, rg, k)
<1> DEFINE x == L[k]
           new == Absorb(acc, x)
<1>1. /\ Len(L) \in Nat /\ DOMAIN L = 1..Len(L) /\ k \in Nat
      /\ x \in RegionType /\ x.rg_start \in Nat /\ x.rg_end \in Nat
      /\ \A m \in DOMAIN L : L[m].rg_start \in Nat /\ L[m].rg_end \in Nat
                             /\ L[m].rg_start < L[m].rg_end
  BY RegionsNat DEF Merged
<1>2. /\ acc \in AccType /\ acc.rg \in RegionType /\ acc.rest \in Seq(RegionType)
      /\ acc.rg.rg_start \in Nat /\ acc.rg.rg_end \in Nat
      /\ acc.rg.rg_start <= acc.rg.rg_end
  <2>1. acc \in AccType /\ acc.rg.rg_start <= acc.rg.rg_end
    BY DEF Absorbing
  <2>2. acc.rg \in RegionType /\ acc.rest \in Seq(RegionType)
    BY <2>1 DEF AccType
  <2>3. QED
    BY <2>1, <2>2, RegionNat
<1>3. /\ Len(acc.rest) \in Nat /\ DOMAIN acc.rest = 1..Len(acc.rest)
      /\ \A j \in DOMAIN acc.rest : acc.rest[j].rg_start \in Nat /\ acc.rest[j].rg_end \in Nat
                                    /\ acc.rest[j].rg_start < acc.rest[j].rg_end
  BY <1>2, RegionsNat DEF Absorbing, Merged
<1>4. /\ \A j \in DOMAIN acc.rest : acc.rest[j].rg_end < x.rg_start
      /\ x.rg_start < x.rg_end
      /\ \A m \in DOMAIN L : k < m => x.rg_end < L[m].rg_start
      /\ Overlapless(x, acc.rg)
  BY <1>1 DEF Absorbing, Merged
<1>5. \A a \in Int : a \in Bytes(acc.rg) \/ a \in Bytes(x) \/ Within(acc.rest, a)
        <=> a \in Bytes(rg) \/ \E m \in DOMAIN L : m <= k /\ a \in Bytes(L[m])
  <2> TAKE a \in Int
  <2>1. a \in Bytes(acc.rg) \/ Within(acc.rest, a)
        <=> a \in Bytes(rg) \/ \E m \in DOMAIN L : m <= k - 1 /\ a \in Bytes(L[m])
    BY DEF Absorbing
  <2>2. (\E m \in DOMAIN L : m <= k /\ a \in Bytes(L[m]))
        <=> a \in Bytes(x) \/ \E m \in DOMAIN L : m <= k - 1 /\ a \in Bytes(L[m])
    <3>1. \A m \in DOMAIN L : m <= k <=> m = k \/ m <= k - 1
      BY <1>1
    <3>2. QED
      BY <3>1
  <2>3. QED
    BY <2>1, <2>2
<1>6. \A a : a \in Bytes(acc.rg) <=> a \in Int /\ acc.rg.rg_start <= a /\ a < acc.rg.rg_end
  BY <1>2 DEF Bytes
<1>7. \A a : a \in Bytes(x) <=> a \in Int /\ x.rg_start <= a /\ a < x.rg_end
  BY <1>1 DEF Bytes
<1> HIDE DEF x
<1>8. CASE x.rg_end = acc.rg.rg_start \/ x.rg_start = acc.rg.rg_end
  <2> DEFINE wide == IF x.rg_end = acc.rg.rg_start THEN Region(x.rg_start, acc.rg.rg_end)
                     ELSE Region(acc.rg.rg_start, x.rg_end)
  <2>1. new = [rg |-> wide, rest |-> acc.rest]
    BY <1>1, <1>2, <1>8, AbsorbIs
  <2>2. /\ wide \in RegionType
        /\ \/ /\ x.rg_end = acc.rg.rg_start
              /\ wide.rg_start = x.rg_start /\ wide.rg_end = acc.rg.rg_end
           \/ /\ x.rg_start = acc.rg.rg_end
              /\ wide.rg_start = acc.rg.rg_start /\ wide.rg_end = x.rg_end
    BY <1>1, <1>2, <1>8 DEF RegionType, Region
  <2> HIDE DEF wide, new
  <2>3. new.rg = wide /\ new.rest = acc.rest /\ new \in AccType
    BY <1>2, <2>1, <2>2 DEF AccType
  <2>4. wide.rg_start \in Nat /\ wide.rg_end \in Nat /\ wide.rg_start < wide.rg_end
    BY <1>1, <1>2, <1>4, <2>2
  <2>5. Touchless(acc.rest, wide)
    <3> SUFFICES ASSUME NEW j \in DOMAIN acc.rest
                 PROVE  acc.rest[j].rg_end < wide.rg_start \/ wide.rg_end < acc.rest[j].rg_start
      BY DEF Touchless
    <3>1. acc.rest[j].rg_end < x.rg_start
      BY <1>4
    <3>2. acc.rg.rg_start < acc.rg.rg_end =>
            acc.rest[j].rg_end < acc.rg.rg_start \/ acc.rg.rg_end < acc.rest[j].rg_start
      BY DEF Absorbing, Touchless
    <3>3. acc.rest[j].rg_start \in Nat /\ acc.rest[j].rg_end \in Nat
          /\ acc.rest[j].rg_start < acc.rest[j].rg_end
      BY <1>3
    <3>4. QED
      BY <1>1, <1>2, <2>2, <3>1, <3>2, <3>3
  <2>6. ASSUME NEW m \in DOMAIN L, k < m
        PROVE  Overlapless(L[m], wide)
    <3>1. x.rg_end < L[m].rg_start /\ L[m].rg_start < L[m].rg_end
          /\ L[m].rg_start \in Nat /\ L[m].rg_end \in Nat
      BY <1>1, <1>4, <2>6
    <3>2. Overlapless(L[m], acc.rg)
      BY <1>1, <2>6 DEF Absorbing
    <3>3. QED
      BY <1>1, <1>2, <2>2, <3>1, <3>2 DEF Overlapless
  <2>7. \A a : a \in Bytes(wide) <=> a \in Bytes(acc.rg) \/ a \in Bytes(x)
    <3>1. \A a : a \in Bytes(wide) <=> a \in Int /\ wide.rg_start <= a /\ a < wide.rg_end
      BY <2>4 DEF Bytes
    <3>2. QED
      BY <1>1, <1>2, <1>4, <1>6, <1>7, <2>2, <3>1
  <2>8. \A j \in DOMAIN acc.rest, m \in DOMAIN L :
          k < m => acc.rest[j].rg_end < L[m].rg_start
    BY <1>1 DEF Absorbing
  <2>9. Merged(acc.rest)
    BY DEF Absorbing
  <2>10. \A a \in Int : a \in Bytes(rg) => a \in Bytes(wide)
    BY <2>7 DEF Absorbing
  <2>11. Absorbing(new, L, rg, k)
    BY <2>10, <1>5, <2>3, <2>4, <2>5, <2>6, <2>7, <2>8, <2>9 DEF Absorbing
  <2>12. QED
    BY <2>11 DEF new, x
<1>9. CASE ~(x.rg_end = acc.rg.rg_start \/ x.rg_start = acc.rg.rg_end)
  <2> DEFINE rest == Append(acc.rest, x)
  <2>1. new = [rg |-> acc.rg, rest |-> rest]
    BY <1>1, <1>2, <1>9, AbsorbIs
  <2>2. /\ rest \in Seq(RegionType) /\ DOMAIN rest = 1 .. Len(acc.rest) + 1
        /\ \A j \in 1 .. Len(acc.rest) + 1 :
             rest[j] = IF j \in DOMAIN acc.rest THEN acc.rest[j] ELSE x
    BY <1>1, <1>2, <1>3
  <2> HIDE DEF rest, new
  <2>3. new.rg = acc.rg /\ new.rest = rest /\ new \in AccType
    BY <1>2, <2>1, <2>2 DEF AccType
  <2>4. \A j \in DOMAIN rest :
          rest[j] = x \/ (j \in DOMAIN acc.rest /\ rest[j] = acc.rest[j])
    BY <2>2
  <2>5. Merged(rest)
    <3>1. \A j \in DOMAIN rest : rest[j].rg_start < rest[j].rg_end
      BY <1>3, <1>4, <2>4
    <3>2. ASSUME NEW j \in DOMAIN rest, NEW i \in DOMAIN rest, j < i
          PROVE  rest[j].rg_end < rest[i].rg_start
      <4>1. j \in DOMAIN acc.rest /\ rest[j] = acc.rest[j]
        BY <1>3, <2>2, <3>2
      <4>2. QED
        BY <1>4, <2>4, <3>2, <4>1 DEF Absorbing, Merged
    <3>3. QED
      BY <3>1, <3>2 DEF Merged
  <2>6. \A j \in DOMAIN rest, m \in DOMAIN L : k < m => rest[j].rg_end < L[m].rg_start
    <3>1. \A j \in DOMAIN acc.rest, m \in DOMAIN L :
            k < m => acc.rest[j].rg_end < L[m].rg_start
      BY <1>1 DEF Absorbing
    <3>2. QED
      BY <1>4, <2>4, <3>1
  <2>7. acc.rg.rg_start < acc.rg.rg_end => Touchless(rest, acc.rg)
    <3> SUFFICES ASSUME acc.rg.rg_start < acc.rg.rg_end, NEW j \in DOMAIN rest
                 PROVE  rest[j].rg_end < acc.rg.rg_start \/ acc.rg.rg_end < rest[j].rg_start
      BY DEF Touchless
    <3>1. x.rg_end < acc.rg.rg_start \/ acc.rg.rg_end < x.rg_start
      BY <1>1, <1>2, <1>4, <1>9 DEF Overlapless
    <3>2. Touchless(acc.rest, acc.rg)
      BY DEF Absorbing
    <3>3. QED
      BY <2>4, <3>1, <3>2 DEF Touchless
  <2>8. \A m \in DOMAIN L : k < m => Overlapless(L[m], acc.rg)
    BY <1>1 DEF Absorbing
  <2>9. \A a : Within(rest, a) <=> Within(acc.rest, a) \/ a \in Bytes(x)
    <3>1. \A j \in DOMAIN acc.rest : j \in DOMAIN rest /\ rest[j] = acc.rest[j]
      BY <1>3, <2>2
    <3>2. \E j \in DOMAIN rest : rest[j] = x
      <4>1. Len(acc.rest) + 1 \in DOMAIN rest /\ rest[Len(acc.rest) + 1] = x
        BY <1>3, <2>2
      <4>2. QED
        BY <4>1
    <3>3. QED
      BY <2>4, <3>1, <3>2 DEF Within
  <2>10. \A a \in Int : a \in Bytes(rg) => a \in Bytes(acc.rg)
    BY DEF Absorbing
  <2>11. Absorbing(new, L, rg, k)
    BY <2>10, <1>2, <1>5, <2>3, <2>5, <2>6, <2>7, <2>8, <2>9 DEF Absorbing
  <2>12. QED
    BY <2>11 DEF new, x
<1>10. QED
  BY <1>8, <1>9

(* What __free puts back: the freed region with the free regions that      *)
(* touch it, and the others.                                               *)
LEMMA CoalescedIs ==
  ASSUME NEW L \in Seq(RegionType), Merged(L), NEW rg \in RegionType,
         rg.rg_start <= rg.rg_end,
         \A a \in Int : ~(a \in Bytes(rg) /\ Within(L, a))
  PROVE  LET freed == Coalesced(L, rg)
         IN  /\ freed.rg \in RegionType /\ freed.rest \in Seq(RegionType)
             /\ Merged(freed.rest)
             /\ freed.rg.rg_start < freed.rg.rg_end => Touchless(freed.rest, freed.rg)
             /\ \A a \in Int : a \in Bytes(freed.rg) \/ Within(freed.rest, a)
                           <=> a \in Bytes(rg) \/ Within(L, a)
             /\ \A a \in Int : a \in Bytes(rg) => a \in Bytes(freed.rg)
<1>1. /\ Len(L) \in Nat /\ DOMAIN L = 1..Len(L)
      /\ rg.rg_start \in Nat /\ rg.rg_end \in Nat
      /\ \A m \in DOMAIN L : L[m].rg_start \in Nat /\ L[m].rg_end \in Nat
                             /\ L[m].rg_start < L[m].rg_end
  BY RegionNat, RegionsNat DEF Merged
<1>2. PICK f : Unfolds(f, L, rg, Len(L)) /\ Coalesced(L, rg) = f[Len(L)]
  BY CoalescedUnfolds
<1>3. Absorbing(f[0], L, rg, 0)
  <2>1. f[0] = [rg |-> rg, rest |-> <<>>]
    BY <1>2 DEF Unfolds
  <2>2. f[0].rg = rg /\ f[0].rest = <<>> /\ f[0] \in AccType
    BY <2>1 DEF AccType
  <2>3. DOMAIN f[0].rest = {}
    BY <2>2
  <2>4. ASSUME NEW m \in DOMAIN L
        PROVE  Overlapless(L[m], rg)
    <3>1. CASE rg.rg_start < rg.rg_end /\ ~(L[m].rg_end <= rg.rg_start)
                                       /\ ~(rg.rg_end <= L[m].rg_start)
      <4> DEFINE a == IF rg.rg_start <= L[m].rg_start THEN L[m].rg_start ELSE rg.rg_start
      <4>1. a \in Int /\ a \in Bytes(rg) /\ a \in Bytes(L[m])
        BY <1>1, <3>1 DEF Bytes
      <4>2. QED
        BY <4>1 DEF Within
    <3>2. QED
      BY <3>1 DEF Overlapless
  <2>5. \A m \in DOMAIN L : ~(m <= 0)
    BY <1>1
  <2>6. QED
    BY <2>2, <2>3, <2>4, <2>5 DEF Absorbing, Merged, Touchless, Within
<1> DEFINE T == {k \in Nat : k \in 0..Len(L) /\ ~Absorbing(f[k], L, rg, k)}
<1>4. T = {}
  <2>1. SUFFICES ASSUME T # {} PROVE FALSE
    OBVIOUS
  <2>2. PICK k \in T : \A y \in T : k <= y
    BY <2>1, LeastNat
  <2>3. k \in Nat /\ k \in 0..Len(L) /\ ~Absorbing(f[k], L, rg, k) /\ k # 0
    BY <1>3, <2>2
  <2>4. k \in DOMAIN L /\ k \in 1..Len(L) /\ k - 1 \in Nat /\ k - 1 \in 0..Len(L)
        /\ ~(k <= k - 1)
    BY <1>1, <2>3
  <2>5. Absorbing(f[k - 1], L, rg, k - 1)
    BY <2>2, <2>4
  <2>6. f[k] = Absorb(f[k - 1], L[k])
    BY <1>2, <2>4 DEF Unfolds
  <2>7. Absorbing(Absorb(f[k - 1], L[k]), L, rg, k)
    BY <2>4, <2>5, AbsorbStep
  <2>8. QED
    BY <2>3, <2>6, <2>7
<1> DEFINE freed == Coalesced(L, rg)
<1>5. Absorbing(freed, L, rg, Len(L))
  BY <1>1, <1>2, <1>4
<1> HIDE DEF freed
<1>6. \A a : Within(L, a) <=> \E m \in DOMAIN L : m <= Len(L) /\ a \in Bytes(L[m])
  BY <1>1 DEF Within
<1>7. freed.rg \in RegionType /\ freed.rest \in Seq(RegionType)
  BY <1>5 DEF Absorbing, AccType
<1>8. /\ Merged(freed.rest)
      /\ freed.rg.rg_start < freed.rg.rg_end => Touchless(freed.rest, freed.rg)
      /\ \A a \in Int : a \in Bytes(freed.rg) \/ Within(freed.rest, a)
                    <=> a \in Bytes(rg) \/ Within(L, a)
      /\ \A a \in Int : a \in Bytes(rg) => a \in Bytes(freed.rg)
  BY <1>5, <1>6 DEF Absorbing
<1>9. QED
  BY <1>7, <1>8 DEF freed

------------------------------------------------------------------------------
(* The area of one process: L is its free list, S its symrgtbl, X what it  *)
(* has lost and e its end.  Every address below e has exactly one owner.   *)

InTable(S, a) == \E r \in Regions : a \in Bytes(S[r])

AreaOK(L, S, X, e) ==
  /\ L \in Seq(RegionType) /\ S \in [Regions -> RegionType]
  /\ X \in SUBSET Limits /\ e \in Limits
  /\ Merged(L)
  /\ \A r \in Regions : S[r].rg_start <= S[r].rg_end
  /\ \A r, q \in Regions : \A a \in Int : a \in Bytes(S[r]) /\ a \in Bytes(S[q]) => r = q
  /\ \A a \in Int : ~(Within(L, a) /\ InTable(S, a))
  /\ \A a \in Int : a \in X => ~Within(L, a) /\ ~InTable(S, a)
  /\ \A a \in Int : 0 <= a /\ a < e <=> Within(L, a) \/ InTable(S, a) \/ a \in X

LEMMA LimitsNat == Limits \subseteq Nat /\ 0 \in Limits
<1>1. MaxPages * PAGING_PAGESZ \in Nat
  BY MemoryAssumption
<1>2. QED
  BY <1>1 DEF Limits

LEMMA LimitsBelow ==
  ASSUME NEW m \in Limits, NEW k \in Int, 0 <= k, k <= m
  PROVE  k \in Limits /\ k \in Nat
<1>1. MaxPages * PAGING_PAGESZ \in Nat
  BY MemoryAssumption
<1>2. QED
  BY <1>1 DEF Limits

LEMMA RegionIs ==
  ASSUME NEW first \in Limits, NEW last \in Limits
  PROVE  /\ Region(first, last) \in RegionType
         /\ Region(first, last).rg_start = first /\ Region(first, last).rg_end = last
         /\ \A a : a \in Bytes(Region(first, last)) <=> a \in Int /\ first <= a /\ a < last
  BY LimitsNat DEF Region, RegionType, Bytes

LEMMA BytesIs ==
  ASSUME NEW rg \in RegionType
  PROVE  \A a : a \in Bytes(rg) <=> a \in Int /\ rg.rg_start <= a /\ a < rg.rg_end
  BY RegionNat DEF Bytes

LEMMA BytesInLimits ==
  ASSUME NEW rg \in RegionType
  PROVE  Bytes(rg) \subseteq Limits
<1>1. rg.rg_end \in Limits /\ rg.rg_start \in Nat /\ rg.rg_end \in Nat
  BY LimitsNat DEF RegionType
<1>2. QED
  BY <1>1, BytesIs, LimitsBelow

(* The table once an identifier has another region.                        *)
LEMMA TableIs ==
  ASSUME NEW S \in [Regions -> RegionType], NEW r \in Regions, NEW rg \in RegionType,
         \A q1, q2 \in Regions :
           \A a \in Int : a \in Bytes(S[q1]) /\ a \in Bytes(S[q2]) => q1 = q2,
         \A q \in Regions : S[q].rg_start <= S[q].rg_end,
         rg.rg_start <= rg.rg_end
  PROVE  LET T == [S EXCEPT ![r] = rg]
         IN  /\ T \in [Regions -> RegionType]
             /\ \A q \in Regions : T[q].rg_start <= T[q].rg_end
             /\ \A a \in Int : InTable(T, a) <=>
                  a \in Bytes(rg) \/ (InTable(S, a) /\ a \notin Bytes(S[r]))
             /\ (\A a \in Int : a \in Bytes(rg) =>
                   ~InTable(S, a) \/ a \in Bytes(S[r]))
                => \A q1, q2 \in Regions : \A a \in Int :
                     a \in Bytes(T[q1]) /\ a \in Bytes(T[q2]) => q1 = q2
<1> DEFINE T == [S EXCEPT ![r] = rg]
<1>1. /\ T \in [Regions -> RegionType] /\ T[r] = rg
      /\ \A q \in Regions : q # r => T[q] = S[q]
  OBVIOUS
<1> HIDE DEF T
<1>2. \A q \in Regions : T[q].rg_start <= T[q].rg_end
  BY <1>1
<1>3. \A a \in Int : InTable(T, a) <=>
        a \in Bytes(rg) \/ (InTable(S, a) /\ a \notin Bytes(S[r]))
  BY <1>1 DEF InTable
<1>4. ASSUME \A a \in Int : a \in Bytes(rg) => ~InTable(S, a) \/ a \in Bytes(S[r]),
             NEW q1 \in Regions, NEW q2 \in Regions, NEW a \in Int,
             a \in Bytes(T[q1]), a \in Bytes(T[q2])
      PROVE  q1 = q2
  BY <1>1, <1>4 DEF InTable
<1>5. QED
  BY <1>1, <1>2, <1>3, <1>4 DEF T

(* __alloc from the free list.                                             *)
LEMMA AreaReused ==
  ASSUME NEW L, NEW S, NEW X, NEW e, AreaOK(L, S, X, e),
         NEW r \in Regions, NEW size \in Nat, FirstFit(L, size) # 0
  PROVE  LET fit == FirstFit(L, size)
             rg == L[fit]
         IN  AreaOK(enlist_vm_freerg_list(RemoveAt(L, fit),
                                          Region(rg.rg_start + size, rg.rg_end)),
                    [S EXCEPT ![r] = Region(rg.rg_start, rg.rg_start + size)],
                    X \union Bytes(S[r]), e)
<1> DEFINE fit == FirstFit(L, size)
           rg == L[fit]
           cut == RemoveAt(L, fit)
           use == Region(rg.rg_start, rg.rg_start + size)
           left == Region(rg.rg_start + size, rg.rg_end)
           L1 == enlist_vm_freerg_list(cut, left)
           S1 == [S EXCEPT ![r] = use]
           X1 == X \union Bytes(S[r])
<1>1. L \in Seq(RegionType) /\ S \in [Regions -> RegionType] /\ S[r] \in RegionType
      /\ X \in SUBSET Limits /\ e \in Limits /\ Merged(L)
  BY DEF AreaOK
<1>2. fit \in DOMAIN L /\ size <= rg.rg_end - rg.rg_start
  BY <1>1, FirstFitIs
<1>3. rg \in RegionType /\ rg.rg_start \in Limits /\ rg.rg_end \in Limits
      /\ rg.rg_start \in Nat /\ rg.rg_end \in Nat
  <2>1. rg \in RegionType
    BY <1>1, <1>2
  <2>2. QED
    BY <2>1, LimitsNat DEF RegionType
<1>4. rg.rg_start + size \in Limits /\ rg.rg_start + size \in Nat
  <2> HIDE DEF rg
  <2>1. rg.rg_start + size \in Int /\ 0 <= rg.rg_start + size
        /\ rg.rg_start + size <= rg.rg_end
    BY <1>2, <1>3
  <2>2. QED
    BY <1>3, <2>1, LimitsBelow
<1>5. /\ use \in RegionType /\ left \in RegionType
      /\ use.rg_start <= use.rg_end
      /\ left.rg_start = rg.rg_start + size /\ left.rg_end = rg.rg_end
      /\ \A a : a \in Bytes(use)
                  <=> a \in Int /\ rg.rg_start <= a /\ a < rg.rg_start + size
      /\ \A a : a \in Bytes(left)
                  <=> a \in Int /\ rg.rg_start + size <= a /\ a < rg.rg_end
  <2>1. use.rg_start = rg.rg_start /\ use.rg_end = rg.rg_start + size
    BY <1>3, <1>4, RegionIs
  <2>2. use.rg_start <= use.rg_end
    BY <1>3, <2>1
  <2>3. QED
    BY <1>3, <1>4, <2>2, RegionIs
<1>6. \A a : a \in Bytes(rg) <=> a \in Int /\ rg.rg_start <= a /\ a < rg.rg_end
  BY <1>3, BytesIs
<1>7. \A a \in Int : a \in Bytes(rg) <=> a \in Bytes(use) \/ a \in Bytes(left)
  BY <1>2, <1>3, <1>5, <1>6
<1>8. \A a \in Int : ~(a \in Bytes(use) /\ a \in Bytes(left))
  BY <1>3, <1>5
<1> HIDE DEF use, left
<1>9. /\ cut \in Seq(RegionType) /\ DOMAIN cut = 1 .. Len(L) - 1
      /\ \A j \in 1 .. Len(L) - 1 : cut[j] = IF j < fit THEN L[j] ELSE L[j + 1]
  BY <1>1, <1>2, RemoveAtIs
<1> HIDE DEF cut, fit
<1>10. /\ Len(L) \in Nat /\ DOMAIN L = 1..Len(L) /\ fit \in Nat /\ fit \in 1..Len(L)
       /\ \A j \in DOMAIN L : L[j].rg_start \in Nat /\ L[j].rg_end \in Nat
                              /\ L[j].rg_start < L[j].rg_end
  BY <1>1, <1>2, RegionsNat DEF Merged
<1>11. \A j \in DOMAIN cut : \E k \in DOMAIN L :
          k # fit /\ cut[j] = L[k] /\ (k = j \/ k = j + 1) /\ (k = j <=> j < fit)
  <2> TAKE j \in DOMAIN cut
  <2>1. CASE j < fit
    BY <1>9, <1>10, <2>1
  <2>2. CASE ~(j < fit)
    <3>1. j + 1 \in DOMAIN L /\ j + 1 # fit /\ cut[j] = L[j + 1] /\ j + 1 # j
      BY <1>9, <1>10, <2>2
    <3>2. QED
      BY <2>2, <3>1
  <2>3. QED
    BY <2>1, <2>2
<1>12. \A k \in DOMAIN L : k # fit => \E j \in DOMAIN cut : cut[j] = L[k]
  <2> TAKE k \in DOMAIN L
  <2>1. CASE k < fit
    BY <1>9, <1>10, <2>1
  <2>2. CASE fit < k
    <3>1. k - 1 \in DOMAIN cut /\ cut[k - 1] = L[k]
      BY <1>9, <1>10, <2>2
    <3>2. QED
      BY <3>1
  <2>3. QED
    BY <1>10, <2>1, <2>2
<1>13. Merged(cut)
  <2>1. \A j \in DOMAIN cut : cut[j].rg_start < cut[j].rg_end
    BY <1>10, <1>11
  <2>2. ASSUME NEW j \in DOMAIN cut, NEW i \in DOMAIN cut, j < i
        PROVE  cut[j].rg_end < cut[i].rg_start
    <3>1. PICK k \in DOMAIN L :
            cut[j] = L[k] /\ (k = j \/ k = j + 1) /\ (k = j <=> j < fit)
      BY <1>11
    <3>2. PICK m \in DOMAIN L :
            cut[i] = L[m] /\ (m = i \/ m = i + 1) /\ (m = i <=> i < fit)
      BY <1>11
    <3>3. k < m
      BY <1>9, <1>10, <2>2, <3>1, <3>2
    <3>4. QED
      BY <1>1, <3>1, <3>2, <3>3 DEF Merged
  <2>3. QED
    BY <2>1, <2>2 DEF Merged
<1>14. \A k \in DOMAIN L : k # fit => L[k].rg_end < rg.rg_start \/ rg.rg_end < L[k].rg_start
  BY <1>1, <1>2, <1>10 DEF Merged
<1>15. left.rg_start < left.rg_end => Touchless(cut, left)
  <2> SUFFICES ASSUME left.rg_start < left.rg_end, NEW j \in DOMAIN cut
               PROVE  cut[j].rg_end < left.rg_start \/ left.rg_end < cut[j].rg_start
    BY DEF Touchless
  <2>1. PICK k \in DOMAIN L : k # fit /\ cut[j] = L[k]
    BY <1>11
  <2>2. L[k].rg_end < rg.rg_start \/ rg.rg_end < L[k].rg_start
    BY <1>14, <2>1
  <2>3. QED
    BY <1>3, <1>5, <1>10, <2>1, <2>2
<1>16. \A a \in Int : Within(L, a) <=> Within(cut, a) \/ a \in Bytes(rg)
  BY <1>2, <1>11, <1>12 DEF Within
<1>17. \A a \in Int : ~(Within(cut, a) /\ a \in Bytes(rg))
  <2> SUFFICES ASSUME NEW a \in Int, Within(cut, a), a \in Bytes(rg)
               PROVE  FALSE
    OBVIOUS
  <2>1. PICK j \in DOMAIN cut : a \in Bytes(cut[j])
    BY DEF Within
  <2>2. PICK k \in DOMAIN L : k # fit /\ cut[j] = L[k]
    BY <1>11
  <2>3. L[k] \in RegionType
    BY <1>1
  <2>4. L[k].rg_start <= a /\ a < L[k].rg_end
    BY <2>1, <2>2, <2>3, BytesIs
  <2>5. rg.rg_start <= a /\ a < rg.rg_end
    BY <1>6
  <2>6. QED
    BY <1>3, <1>10, <1>14, <2>2, <2>4, <2>5
<1>18. /\ L1 \in Seq(RegionType) /\ Merged(L1)
       /\ \A a : Within(L1, a) <=> Within(cut, a) \/ a \in Bytes(left)
  BY <1>5, <1>9, <1>13, <1>15, EnlistIs
<1>19. /\ S1 \in [Regions -> RegionType]
       /\ \A q \in Regions : S1[q].rg_start <= S1[q].rg_end
       /\ \A a \in Int : InTable(S1, a) <=>
            a \in Bytes(use) \/ (InTable(S, a) /\ a \notin Bytes(S[r]))
       /\ \A q1, q2 \in Regions : \A a \in Int :
            a \in Bytes(S1[q1]) /\ a \in Bytes(S1[q2]) => q1 = q2
  <2>1. \A a \in Int : a \in Bytes(use) => ~InTable(S, a)
    BY <1>7, <1>16 DEF AreaOK
  <2>2. /\ \A q1, q2 \in Regions :
             \A a \in Int : a \in Bytes(S[q1]) /\ a \in Bytes(S[q2]) => q1 = q2
        /\ \A q \in Regions : S[q].rg_start <= S[q].rg_end
    BY DEF AreaOK
  <2>3. QED
    BY <1>1, <1>5, <2>1, <2>2, TableIs
<1>20. X1 \in SUBSET Limits
  BY <1>1, BytesInLimits
<1>21. \A a \in Int : a \in Bytes(S[r]) => InTable(S, a)
  BY DEF InTable
<1> HIDE DEF L1, S1
<1>22. AreaOK(L1, S1, X1, e)
  BY <1>1, <1>7, <1>8, <1>16, <1>17, <1>18, <1>19, <1>20, <1>21 DEF AreaOK
<1>23. QED
  BY <1>22 DEF L1, S1, X1, cut, use, left, fit

(* __alloc by growing the area to e1.                                      *)
LEMMA AreaGrown ==
  ASSUME NEW L, NEW S, NEW X, NEW e, AreaOK(L, S, X, e),
         NEW r \in Regions, NEW size \in Nat, NEW e1 \in Limits, e + size <= e1,
         size = 0 => e1 = e
  PROVE  AreaOK(enlist_vm_freerg_list(L, Region(e + size, e1)),
                [S EXCEPT ![r] = Region(e, e + size)],
                X \union Bytes(S[r]), e1)
<1> DEFINE use == Region(e, e + size)
           left == Region(e + size, e1)
           L1 == enlist_vm_freerg_list(L, left)
           S1 == [S EXCEPT ![r] = use]
           X1 == X \union Bytes(S[r])
<1>1. L \in Seq(RegionType) /\ S \in [Regions -> RegionType] /\ S[r] \in RegionType
      /\ X \in SUBSET Limits /\ e \in Limits /\ e \in Nat /\ e1 \in Nat /\ Merged(L)
  BY LimitsNat DEF AreaOK
<1>2. e + size \in Limits /\ e + size \in Nat
  BY <1>1, LimitsBelow
<1>3. /\ use \in RegionType /\ left \in RegionType
      /\ use.rg_start <= use.rg_end
      /\ left.rg_start = e + size /\ left.rg_end = e1
      /\ \A a : a \in Bytes(use) <=> a \in Int /\ e <= a /\ a < e + size
      /\ \A a : a \in Bytes(left) <=> a \in Int /\ e + size <= a /\ a < e1
  <2>1. use.rg_start = e /\ use.rg_end = e + size
    BY <1>1, <1>2, RegionIs
  <2>2. use.rg_start <= use.rg_end
    BY <1>1, <2>1
  <2>3. QED
    BY <1>1, <1>2, <2>2, RegionIs
<1>4. \A a \in Int : a \in Bytes(use) \/ a \in Bytes(left) <=> e <= a /\ a < e1
  BY <1>1, <1>2, <1>3
<1>5. \A a \in Int : ~(a \in Bytes(use) /\ a \in Bytes(left))
  BY <1>1, <1>3
<1> HIDE DEF use, left
<1>6. left.rg_start < left.rg_end => Touchless(L, left)
  <2> SUFFICES ASSUME left.rg_start < left.rg_end, NEW k \in DOMAIN L
               PROVE  L[k].rg_end < left.rg_start
    BY DEF Touchless
  <2>1. L[k] \in RegionType /\ L[k].rg_start \in Nat /\ L[k].rg_end \in Nat
        /\ L[k].rg_start < L[k].rg_end
    BY <1>1, RegionsNat DEF Merged
  <2>2. L[k].rg_end - 1 \in Int /\ L[k].rg_end - 1 \in Bytes(L[k])
    BY <2>1, BytesIs
  <2>3. L[k].rg_end - 1 < e
    BY <2>2 DEF AreaOK, Within
  <2>4. size # 0
    BY <1>1, <1>3
  <2>5. QED
    BY <1>1, <1>3, <2>1, <2>3, <2>4
<1>7. /\ L1 \in Seq(RegionType) /\ Merged(L1)
      /\ \A a : Within(L1, a) <=> Within(L, a) \/ a \in Bytes(left)
  BY <1>1, <1>3, <1>6, EnlistIs
<1>8. \A a \in Int : a \in Bytes(use) \/ a \in Bytes(left) =>
        ~Within(L, a) /\ ~InTable(S, a) /\ a \notin X
  <2> SUFFICES ASSUME NEW a \in Int, a \in Bytes(use) \/ a \in Bytes(left)
               PROVE  ~Within(L, a) /\ ~InTable(S, a) /\ a \notin X
    OBVIOUS
  <2>1. ~(a < e)
    BY <1>1, <1>4
  <2>2. QED
    BY <2>1 DEF AreaOK
<1>9. /\ S1 \in [Regions -> RegionType]
      /\ \A q \in Regions : S1[q].rg_start <= S1[q].rg_end
      /\ \A a \in Int : InTable(S1, a) <=>
           a \in Bytes(use) \/ (InTable(S, a) /\ a \notin Bytes(S[r]))
      /\ \A q1, q2 \in Regions : \A a \in Int :
           a \in Bytes(S1[q1]) /\ a \in Bytes(S1[q2]) => q1 = q2
  <2>1. /\ \A q1, q2 \in Regions :
             \A a \in Int : a \in Bytes(S[q1]) /\ a \in Bytes(S[q2]) => q1 = q2
        /\ \A q \in Regions : S[q].rg_start <= S[q].rg_end
    BY DEF AreaOK
  <2>2. QED
    BY <1>1, <1>3, <1>8, <2>1, TableIs
<1>10. X1 \in SUBSET Limits
  BY <1>1, BytesInLimits
<1>11. \A a \in Int : a \in Bytes(S[r]) => InTable(S, a)
  BY DEF InTable
<1> HIDE DEF L1, S1
<1>12. \A a \in Int : 0 <= a /\ a < e1
         <=> Within(L, a) \/ InTable(S, a) \/ a \in X
             \/ a \in Bytes(use) \/ a \in Bytes(left)
  <2> TAKE a \in Int
  <2>1. 0 <= a /\ a < e <=> Within(L, a) \/ InTable(S, a) \/ a \in X
    BY DEF AreaOK
  <2>2. a \in Bytes(use) \/ a \in Bytes(left) <=> e <= a /\ a < e1
    BY <1>4
  <2>3. e <= e1
    BY <1>1
  <2>4. QED
    BY <1>1, <2>1, <2>2, <2>3
<1>13. AreaOK(L1, S1, X1, e1)
  BY <1>1, <1>5, <1>7, <1>8, <1>9, <1>10, <1>11, <1>12 DEF AreaOK
<1>14. QED
  BY <1>13 DEF L1, S1, X1, use, left

(* sys_memmap called by the program.                                       *)
LEMMA AreaRaised ==
  ASSUME NEW L, NEW S, NEW X, NEW e, AreaOK(L, S, X, e),
         NEW e1 \in Limits, e <= e1
  PROVE  AreaOK(L, S, X \union (e .. e1 - 1), e1)
<1>1. e \in Nat /\ e1 \in Nat
  BY LimitsNat DEF AreaOK
<1>2. \A a : a \in e .. e1 - 1 <=> a \in Int /\ e <= a /\ a < e1
  BY <1>1
<1>3. X \union (e .. e1 - 1) \in SUBSET Limits
  BY <1>1, <1>2, LimitsBelow DEF AreaOK
<1>4. \A a \in Int : a \in e .. e1 - 1 =>
        ~Within(L, a) /\ ~InTable(S, a) /\ a \notin X
  <2> SUFFICES ASSUME NEW a \in Int, a \in e .. e1 - 1
               PROVE  ~Within(L, a) /\ ~InTable(S, a) /\ a \notin X
    OBVIOUS
  <2>1. ~(a < e)
    BY <1>1, <1>2
  <2>2. QED
    BY <2>1 DEF AreaOK
<1>5. \A a \in Int : 0 <= a /\ a < e1
         <=> Within(L, a) \/ InTable(S, a) \/ a \in X \/ a \in e .. e1 - 1
  <2> TAKE a \in Int
  <2>1. 0 <= a /\ a < e <=> Within(L, a) \/ InTable(S, a) \/ a \in X
    BY DEF AreaOK
  <2>2. QED
    BY <1>1, <1>2, <2>1
<1> DEFINE Y == e .. e1 - 1
<1>6. AreaOK(L, S, X \union Y, e1)
  <2> HIDE DEF Y
  <2>1. X \union Y \in SUBSET Limits
    BY <1>3 DEF Y
  <2>2. \A a \in Int : a \in Y => ~Within(L, a) /\ ~InTable(S, a) /\ a \notin X
    BY <1>4 DEF Y
  <2>3. \A a \in Int : 0 <= a /\ a < e1
           <=> Within(L, a) \/ InTable(S, a) \/ a \in X \/ a \in Y
    BY <1>5 DEF Y
  <2>4. QED
    BY <2>1, <2>2, <2>3 DEF AreaOK
<1>7. QED
  BY <1>6

(* __free.                                                                 *)
LEMMA AreaFreed ==
  ASSUME NEW L, NEW S, NEW X, NEW e, AreaOK(L, S, X, e), NEW r \in Regions
  PROVE  LET freed == Coalesced(L, S[r])
         IN  AreaOK(enlist_vm_freerg_list(freed.rest, freed.rg),
                    [S EXCEPT ![r] = AfterFree(S[r], freed.rg)], X, e)
<1> DEFINE freed == Coalesced(L, S[r])
           L1 == enlist_vm_freerg_list(freed.rest, freed.rg)
           entry == AfterFree(S[r], freed.rg)
           S1 == [S EXCEPT ![r] = entry]
<1>1. L \in Seq(RegionType) /\ S \in [Regions -> RegionType] /\ S[r] \in RegionType
      /\ Merged(L) /\ S[r].rg_start <= S[r].rg_end
  BY DEF AreaOK
<1>2. \A a \in Int : a \in Bytes(S[r]) => InTable(S, a)
  BY DEF InTable
<1>3. \A a \in Int : ~(a \in Bytes(S[r]) /\ Within(L, a))
  BY <1>2 DEF AreaOK
<1>4. /\ freed.rg \in RegionType /\ freed.rest \in Seq(RegionType)
      /\ Merged(freed.rest)
      /\ freed.rg.rg_start < freed.rg.rg_end => Touchless(freed.rest, freed.rg)
      /\ \A a \in Int : a \in Bytes(freed.rg) \/ Within(freed.rest, a)
                    <=> a \in Bytes(S[r]) \/ Within(L, a)
      /\ \A a \in Int : a \in Bytes(S[r]) => a \in Bytes(freed.rg)
  BY <1>1, <1>3, CoalescedIs
<1> HIDE DEF freed
<1>5. /\ L1 \in Seq(RegionType) /\ Merged(L1)
      /\ \A a : Within(L1, a) <=> Within(freed.rest, a) \/ a \in Bytes(freed.rg)
  BY <1>4, EnlistIs
<1>6. entry = S[r] \/ entry = Region(0, 0)
  BY DEF AfterFree
<1>7. /\ Region(0, 0) \in RegionType
      /\ Region(0, 0).rg_start <= Region(0, 0).rg_end
      /\ \A a : a \notin Bytes(Region(0, 0))
  <2>1. /\ Region(0, 0) \in RegionType
        /\ Region(0, 0).rg_start = 0 /\ Region(0, 0).rg_end = 0
        /\ \A a : a \in Bytes(Region(0, 0)) <=> a \in Int /\ 0 <= a /\ a < 0
    BY LimitsNat, RegionIs
  <2>2. QED
    BY <2>1
<1>8. /\ entry \in RegionType /\ entry.rg_start <= entry.rg_end
      /\ \A a \in Int : a \in Bytes(entry) => a \in Bytes(S[r])
  BY <1>1, <1>6, <1>7
<1>9. \A a \in Int : a \notin Bytes(entry)
  <2>1. CASE freed.rg.rg_start < freed.rg.rg_end
    BY <1>7, <2>1 DEF AfterFree
  <2>2. CASE ~(freed.rg.rg_start < freed.rg.rg_end)
    <3>1. \A a : a \notin Bytes(freed.rg)
      BY <1>4, <2>2, RegionNat, BytesIs
    <3>2. QED
      BY <1>4, <1>8, <3>1
  <2>3. QED
    BY <2>1, <2>2
<1> HIDE DEF entry
<1>10. /\ S1 \in [Regions -> RegionType]
       /\ \A q \in Regions : S1[q].rg_start <= S1[q].rg_end
       /\ \A a \in Int : InTable(S1, a) <=>
            a \in Bytes(entry) \/ (InTable(S, a) /\ a \notin Bytes(S[r]))
       /\ \A q1, q2 \in Regions : \A a \in Int :
            a \in Bytes(S1[q1]) /\ a \in Bytes(S1[q2]) => q1 = q2
  <2>1. /\ \A q1, q2 \in Regions :
             \A a \in Int : a \in Bytes(S[q1]) /\ a \in Bytes(S[q2]) => q1 = q2
        /\ \A q \in Regions : S[q].rg_start <= S[q].rg_end
    BY DEF AreaOK
  <2>2. QED
    BY <1>1, <1>8, <1>9, <2>1, TableIs
<1> HIDE DEF L1, S1
<1>11. \A a \in Int : Within(L1, a) <=> Within(L, a) \/ a \in Bytes(S[r])
  BY <1>4, <1>5
<1>12. AreaOK(L1, S1, X, e)
  BY <1>1, <1>2, <1>5, <1>9, <1>10, <1>11 DEF AreaOK
<1>13. QED
  BY <1>12 DEF L1, S1, entry, freed

(* Any owner of an address is its only one.                                *)
LEMMA CountOne ==
  ASSUME NEW T, \A x, y \in T : x = y
  PROVE  Cardinality(T) = IF T = {} THEN 0 ELSE 1
<1>1. CASE T = {}
  BY <1>1, FS_EmptySet
<1>2. CASE T # {}
  <2>1. PICK x \in T : TRUE
    BY <1>2
  <2>2. T = {x}
    BY <2>1
  <2>3. QED
    BY <1>2, <2>2, FS_Singleton
<1>3. QED
  BY <1>1, <1>2

LEMMA AreaCounted ==
  ASSUME NEW L, NEW S, NEW X, NEW e, AreaOK(L, S, X, e), NEW a \in Limits
  PROVE  Cardinality({k \in DOMAIN L : a \in Bytes(L[k])})
         + Cardinality({r \in Regions : a \in Bytes(S[r])})
         + (IF a \in X THEN 1 ELSE 0) = IF a < e THEN 1 ELSE 0
<1> DEFINE K == {k \in DOMAIN L : a \in Bytes(L[k])}
           R == {r \in Regions : a \in Bytes(S[r])}
<1>1. a \in Int /\ 0 <= a /\ e \in Int
  BY LimitsNat DEF AreaOK
<1>2. \A k, j \in K : k = j
  <2> SUFFICES ASSUME NEW k \in K, NEW j \in K
               PROVE  k = j
    OBVIOUS
  <2>1. /\ DOMAIN L = 1..Len(L) /\ Len(L) \in Nat
        /\ k \in DOMAIN L /\ j \in DOMAIN L
        /\ L[k] \in RegionType /\ L[j] \in RegionType
        /\ a \in Bytes(L[k]) /\ a \in Bytes(L[j])
    BY RegionsNat DEF AreaOK
  <2>2. /\ L[k].rg_start <= a /\ a < L[k].rg_end
        /\ L[j].rg_start <= a /\ a < L[j].rg_end
        /\ L[k].rg_start \in Nat /\ L[k].rg_end \in Nat
        /\ L[j].rg_start \in Nat /\ L[j].rg_end \in Nat
    BY <2>1, BytesIs, RegionNat
  <2>3. (k < j => L[k].rg_end < L[j].rg_start) /\ (j < k => L[j].rg_end < L[k].rg_start)
    BY <2>1 DEF AreaOK, Merged
  <2>4. QED
    BY <1>1, <2>1, <2>2, <2>3
<1>3. \A r, q \in R : r = q
  BY <1>1 DEF AreaOK
<1>4. (K # {} <=> Within(L, a)) /\ (R # {} <=> InTable(S, a))
  BY DEF Within, InTable
<1> HIDE DEF K, R
<1>5. /\ Cardinality(K) = IF Within(L, a) THEN 1 ELSE 0
      /\ Cardinality(R) = IF InTable(S, a) THEN 1 ELSE 0
  BY <1>2, <1>3, <1>4, CountOne
<1>6. /\ ~(Within(L, a) /\ InTable(S, a))
      /\ a \in X => ~Within(L, a) /\ ~InTable(S, a)
      /\ a < e <=> Within(L, a) \/ InTable(S, a) \/ a \in X
  BY <1>1 DEF AreaOK
<1>7. Cardinality(K) + Cardinality(R) + (IF a \in X THEN 1 ELSE 0)
        = IF a < e THEN 1 ELSE 0
  BY <1>5, <1>6
<1>8. QED
  BY <1>7 DEF K, R

------------------------------------------------------------------------------
(* The frames: G are the page tables, F is the free list, E the ends of    *)
(* the areas.                                                              *)

FramesOK(G, F, E) ==
  /\ G \in [Procs -> [Pages -> Frames \union {Unmapped}]] /\ F \in Seq(Frames)
  /\ \A j, k \in DOMAIN F : F[j] = F[k] => j = k
  /\ \A p, q \in Procs : \A g, h \in Pages :
       G[p][g] \in Frames /\ G[p][g] = G[q][h] => p = q /\ g = h
  /\ \A f \in Frames :
       (\E k \in DOMAIN F : F[k] = f) <=> ~ \E p \in Procs, g \in Pages : G[p][g] = f
  /\ \A p \in Procs, g \in Pages : E[p] <= g * PAGING_PAGESZ => G[p][g] = Unmapped

LEMMA UnmappedIs == Unmapped \notin Frames
  BY MemoryAssumption DEF Unmapped, Frames

LEMMA FramesCounted ==
  ASSUME NEW G, NEW F, NEW E, FramesOK(G, F, E), NEW f \in Frames
  PROVE  Cardinality({k \in DOMAIN F : F[k] = f})
         + Cardinality({x \in Procs \X Pages : G[x[1]][x[2]] = f}) = 1
<1> DEFINE K == {k \in DOMAIN F : F[k] = f}
           M == {x \in Procs \X Pages : G[x[1]][x[2]] = f}
<1>1. \A j, k \in K : j = k
  BY DEF FramesOK
<1>2. \A x, y \in M : x = y
  <2> SUFFICES ASSUME NEW x \in M, NEW y \in M
               PROVE  x = y
    OBVIOUS
  <2>1. /\ x[1] \in Procs /\ x[2] \in Pages /\ x = <<x[1], x[2]>>
        /\ y[1] \in Procs /\ y[2] \in Pages /\ y = <<y[1], y[2]>>
        /\ G[x[1]][x[2]] = f /\ G[y[1]][y[2]] = f
    OBVIOUS
  <2>2. x[1] = y[1] /\ x[2] = y[2]
    BY <2>1 DEF FramesOK
  <2>3. QED
    BY <2>1, <2>2
<1>3. K # {} <=> \E k \in DOMAIN F : F[k] = f
  OBVIOUS
<1>4. M # {} <=> \E p \in Procs, g \in Pages : G[p][g] = f
  <2>1. ASSUME NEW p \in Procs, NEW g \in Pages, G[p][g] = f
        PROVE  M # {}
    <3>1. <<p, g>> \in M
      BY <2>1
    <3>2. QED
      BY <3>1
  <2>2. ASSUME NEW x \in M
        PROVE  x[1] \in Procs /\ x[2] \in Pages /\ G[x[1]][x[2]] = f
    OBVIOUS
  <2>3. QED
    BY <2>1, <2>2
<1> HIDE DEF K, M
<1>5. K # {} <=> M = {}
  BY <1>3, <1>4 DEF FramesOK
<1>6. /\ Cardinality(K) = IF K = {} THEN 0 ELSE 1
      /\ Cardinality(M) = IF M = {} THEN 0 ELSE 1
  BY <1>1, <1>2, CountOne
<1>7. Cardinality(K) + Cardinality(M) = 1
  BY <1>5, <1>6
<1>8. QED
  BY <1>7 DEF K, M

LEMMA TakenIs ==
  ASSUME free_fp_list \in Seq(Frames), NEW n \in Nat, n <= Len(free_fp_list)
  PROVE  /\ DOMAIN Taken(n) = 1..n
         /\ \A k \in 1..n : Taken(n)[k] = free_fp_list[n - k + 1]
<1> DEFINE B == SubSeq(free_fp_list, 1, n)
<1>1. Len(free_fp_list) \in Nat /\ DOMAIN free_fp_list = 1..Len(free_fp_list)
  OBVIOUS
<1>2. Len(B) = n /\ \A k \in 1..n : B[k] = free_fp_list[k]
  BY <1>1
<1>3. Taken(n) = [i \in 1..Len(B) |-> B[(Len(B) - i) + 1]]
  BY DEF Taken, Reverse
<1> HIDE DEF B
<1>4. Taken(n) = [i \in 1..n |-> B[(n - i) + 1]]
  BY <1>2, <1>3
<1>5. \A k \in 1..n : n - k + 1 \in 1..n
  OBVIOUS
<1>6. QED
  BY <1>2, <1>4, <1>5

(* Frames taken and put back leave the free list as it was.                *)
LEMMA PutBackAll ==
  ASSUME free_fp_list \in Seq(Frames)
  PROVE  PutBack(Taken(Len(free_fp_list))) = free_fp_list
<1> DEFINE n == Len(free_fp_list)
           B == Taken(n)
<1>1. n \in Nat /\ DOMAIN free_fp_list = 1..n
      /\ free_fp_list = [k \in 1..n |-> free_fp_list[k]]
  OBVIOUS
<1>2. DOMAIN B = 1..n /\ \A k \in 1..n : B[k] = free_fp_list[n - k + 1]
  <2>1. n <= n
    BY <1>1
  <2> HIDE DEF n
  <2>2. QED
    BY <1>1, <2>1, TakenIs DEF n
<1>3. Len(B) = n
  <2>1. Taken(n) = [i \in 1..Len(SubSeq(free_fp_list, 1, n)) |->
                      SubSeq(free_fp_list, 1, n)[(Len(SubSeq(free_fp_list, 1, n)) - i) + 1]]
    BY DEF Taken, Reverse
  <2>2. Len(SubSeq(free_fp_list, 1, n)) = n
    BY <1>1
  <2>3. \E f : B = [i \in 1..n |-> f[i]]
    BY <1>2, <2>1, <2>2
  <2> HIDE DEF B, n
  <2>4. QED
    BY <1>1, <2>3
<1>4. PutBack(B) = [i \in 1..Len(B) |-> B[(Len(B) - i) + 1]]
  BY DEF PutBack, Reverse
<1> HIDE DEF B, n
<1>5. PutBack(B) = [i \in 1..n |-> B[(n - i) + 1]]
  BY <1>3, <1>4
<1>6. \A i \in 1..n : B[(n - i) + 1] = free_fp_list[i]
  <2> TAKE i \in 1..n
  <2>1. n - i + 1 \in 1..n /\ n - (n - i + 1) + 1 = i
    BY <1>1
  <2>2. QED
    BY <1>2, <2>1
<1>7. PutBack(B) = free_fp_list
  BY <1>1, <1>5, <1>6
<1>8. QED
  BY <1>7 DEF B, n

(* The first N frames of the free list become the pages n, n + 1, ... of p.*)
Grants(G, F, E, p, n, N, G1, F1, E1) ==
  /\ p \in Procs /\ n \in Nat /\ N \in Nat /\ N <= Len(F) /\ n + N <= MaxPages
  /\ E[p] = n * PAGING_PAGESZ
  /\ \A q \in Procs : E[q] \in Nat
  /\ G1 \in [Pages -> Frames \union {Unmapped}]
  /\ \A g \in Pages : G1[g] = IF n <= g /\ g < n + N THEN F[N - (g - n)] ELSE G[p][g]
  /\ F1 \in Seq(Frames) /\ DOMAIN F1 = 1 .. Len(F) - N
  /\ \A k \in 1 .. Len(F) - N : F1[k] = F[N + k]
  /\ \A q \in Procs : q # p => E1[q] = E[q]
  /\ E1[p] = (n + N) * PAGING_PAGESZ

LEMMA FramesGranted ==
  ASSUME NEW G, NEW F, NEW E, FramesOK(G, F, E),
         NEW p, NEW n, NEW N, NEW G1, NEW F1, NEW E1,
         Grants(G, F, E, p, n, N, G1, F1, E1)
  PROVE  FramesOK([G EXCEPT ![p] = G1], F1, E1)
<1>0. /\ p \in Procs /\ n \in Nat /\ N \in Nat /\ N <= Len(F) /\ n + N <= MaxPages
      /\ E[p] = n * PAGING_PAGESZ
      /\ \A q \in Procs : E[q] \in Nat
      /\ G1 \in [Pages -> Frames \union {Unmapped}]
      /\ \A g \in Pages : G1[g] = IF n <= g /\ g < n + N THEN F[N - (g - n)] ELSE G[p][g]
      /\ F1 \in Seq(Frames) /\ DOMAIN F1 = 1 .. Len(F) - N
      /\ \A k \in 1 .. Len(F) - N : F1[k] = F[N + k]
      /\ \A q \in Procs : q # p => E1[q] = E[q]
      /\ E1[p] = (n + N) * PAGING_PAGESZ
  BY DEF Grants
<1> USE <1>0
<1> DEFINE H == [G EXCEPT ![p] = G1]
<1>1. /\ H \in [Procs -> [Pages -> Frames \union {Unmapped}]]
      /\ H[p] = G1 /\ \A q \in Procs : q # p => H[q] = G[q]
  BY DEF FramesOK
<1>2. /\ Len(F) \in Nat /\ DOMAIN F = 1..Len(F)
      /\ \A k \in DOMAIN F : F[k] \in Frames
      /\ \A j, k \in DOMAIN F : F[j] = F[k] => j = k
  BY DEF FramesOK
<1>3. Pages \subseteq Nat /\ MaxPages \in Nat /\ PAGING_PAGESZ \in Nat
  BY MemoryAssumption DEF Pages
<1> DEFINE New(g) == n <= g /\ g < n + N
           Place(g) == N - (g - n)
<1>4. \A g \in Pages : New(g) =>
        Place(g) \in DOMAIN F /\ Place(g) \in 1..N /\ G1[g] = F[Place(g)]
  BY <1>2, <1>3
<1>5. \A g, h \in Pages : New(g) /\ New(h) /\ Place(g) = Place(h) => g = h
  BY <1>3
<1>6. \A k \in 1..N : \E g \in Pages : New(g) /\ Place(g) = k
  <2> TAKE k \in 1..N
  <2>1. n + N - k \in Pages /\ New(n + N - k) /\ Place(n + N - k) = k
    BY <1>3 DEF Pages
  <2>2. QED
    BY <2>1
<1>7. \A g \in Pages : ~New(g) => G1[g] = G[p][g]
  OBVIOUS
<1>8. \A g \in Pages : New(g) => G[p][g] = Unmapped
  <2> SUFFICES ASSUME NEW g \in Pages, n <= g
               PROVE  G[p][g] = Unmapped
    OBVIOUS
  <2>1. n * PAGING_PAGESZ <= g * PAGING_PAGESZ
    BY <1>3, PagesAdd
  <2>2. QED
    BY <2>1 DEF FramesOK
<1> HIDE DEF H, New, Place
<1>9. \A q \in Procs, g \in Pages :
        \/ /\ q = p /\ New(g) /\ H[q][g] = F[Place(g)] /\ Place(g) \in DOMAIN F
           /\ Place(g) \in 1..N
        \/ H[q][g] = G[q][g] /\ ~(q = p /\ New(g))
  BY <1>1, <1>4, <1>7
<1>10. \A k \in DOMAIN F, q \in Procs, g \in Pages : G[q][g] # F[k]
  BY <1>2 DEF FramesOK
<1>11. ASSUME NEW q1 \in Procs, NEW q2 \in Procs, NEW g \in Pages, NEW h \in Pages,
              H[q1][g] \in Frames, H[q1][g] = H[q2][h]
       PROVE  q1 = q2 /\ g = h
  <2>1. CASE H[q1][g] = G[q1][g] /\ H[q2][h] = G[q2][h]
    <3>1. G[q1][g] \in Frames /\ G[q1][g] = G[q2][h]
      BY <1>11, <2>1
    <3>2. \A x, y \in Procs : \A u, v \in Pages :
            G[x][u] \in Frames /\ G[x][u] = G[y][v] => x = y /\ u = v
      BY DEF FramesOK
    <3>3. QED
      BY <3>1, <3>2
  <2>2. CASE q1 = p /\ q2 = p /\ New(g) /\ New(h)
             /\ H[q1][g] = F[Place(g)] /\ H[q2][h] = F[Place(h)]
             /\ Place(g) \in DOMAIN F /\ Place(h) \in DOMAIN F
    BY <1>2, <1>5, <1>11, <2>2
  <2>3. \/ H[q1][g] = G[q1][g]
        \/ q1 = p /\ New(g) /\ H[q1][g] = F[Place(g)] /\ Place(g) \in DOMAIN F
    BY <1>9
  <2>4. \/ H[q2][h] = G[q2][h]
        \/ q2 = p /\ New(h) /\ H[q2][h] = F[Place(h)] /\ Place(h) \in DOMAIN F
    BY <1>9
  <2>5. \A k \in DOMAIN F : G[q1][g] # F[k] /\ G[q2][h] # F[k]
    BY <1>10
  <2>6. QED
    BY <1>11, <2>1, <2>2, <2>3, <2>4, <2>5
<1>12. \A j, k \in DOMAIN F1 : F1[j] = F1[k] => j = k
  <2> SUFFICES ASSUME NEW j \in DOMAIN F1, NEW k \in DOMAIN F1, F1[j] = F1[k]
               PROVE  j = k
    OBVIOUS
  <2>1. /\ F1[j] = F[N + j] /\ F1[k] = F[N + k]
        /\ N + j \in DOMAIN F /\ N + k \in DOMAIN F /\ j \in Nat /\ k \in Nat
    BY <1>2
  <2>2. N + j = N + k
    BY <1>2, <2>1
  <2>3. QED
    BY <2>1, <2>2
<1>13. ASSUME NEW f \in Frames
       PROVE  (\E k \in DOMAIN F1 : F1[k] = f)
              <=> ~ \E q \in Procs, g \in Pages : H[q][g] = f
  <2>1. ASSUME NEW k \in DOMAIN F1, F1[k] = f, NEW q \in Procs, NEW g \in Pages,
               H[q][g] = f
        PROVE  FALSE
    <3>1. N + k \in DOMAIN F /\ F[N + k] = f /\ N + k \notin 1..N
      BY <1>2, <2>1
    <3>2. CASE H[q][g] = G[q][g]
      BY <1>10, <2>1, <3>1, <3>2
    <3>3. CASE H[q][g] = F[Place(g)] /\ Place(g) \in DOMAIN F /\ Place(g) \in 1..N
      BY <1>2, <2>1, <3>1, <3>3
    <3>4. QED
      BY <1>9, <3>2, <3>3
  <2>2. ASSUME ~ \E q \in Procs, g \in Pages : H[q][g] = f
        PROVE  \E k \in DOMAIN F1 : F1[k] = f
    <3>1. ~ \E q \in Procs, g \in Pages : G[q][g] = f
      <4> SUFFICES ASSUME NEW q \in Procs, NEW g \in Pages, G[q][g] = f
                   PROVE  FALSE
        OBVIOUS
      <4>1. G[q][g] # Unmapped
        BY UnmappedIs
      <4>2. H[q][g] = G[q][g]
        BY <1>8, <1>9, <4>1
      <4>3. QED
        BY <2>2, <4>2
    <3>2. PICK k \in DOMAIN F : F[k] = f
      BY <3>1 DEF FramesOK
    <3>3. k \notin 1..N
      <4> SUFFICES ASSUME k \in 1..N
                   PROVE  FALSE
        OBVIOUS
      <4>1. PICK g \in Pages : New(g) /\ Place(g) = k
        BY <1>6
      <4>2. H[p][g] = f
        BY <1>1, <1>4, <3>2, <4>1
      <4>3. QED
        BY <2>2, <4>2
    <3>4. k - N \in DOMAIN F1 /\ N + (k - N) = k
      BY <1>2, <3>3
    <3>5. QED
      BY <3>2, <3>4
  <2>3. QED
    BY <2>1, <2>2
<1>14. ASSUME NEW q \in Procs, NEW g \in Pages, E1[q] <= g * PAGING_PAGESZ
       PROVE  H[q][g] = Unmapped
  <2>1. CASE q # p
    BY <1>1, <1>14, <2>1 DEF FramesOK
  <2>2. CASE q = p
    <3>1. (n + N) * PAGING_PAGESZ <= g * PAGING_PAGESZ
      BY <1>14, <2>2
    <3>2. n + N \in Nat /\ g \in Nat
      BY <1>3
    <3>3. n + N <= g
      BY <3>1, <3>2, PagesAdd
    <3>4. n <= g /\ ~(g < n + N)
      BY <1>3, <3>3
    <3>5. n * PAGING_PAGESZ <= g * PAGING_PAGESZ
      BY <3>2, <3>4, PagesAdd
    <3>6. G[p][g] = Unmapped
      BY <3>5 DEF FramesOK
    <3>7. QED
      BY <1>1, <2>2, <3>4, <3>6
  <2>3. QED
    BY <2>1, <2>2
<1>15. FramesOK(H, F1, E1)
  BY <1>1, <1>11, <1>12, <1>13, <1>14 DEF FramesOK
<1>16. QED
  BY <1>15 DEF H

(* Unmapped pages are above a higher end too.                              *)
LEMMA FramesRaised ==
  ASSUME NEW G, NEW F, NEW E, FramesOK(G, F, E), NEW E1,
         \A q \in Procs : E[q] \in Nat /\ E1[q] \in Nat /\ E[q] <= E1[q]
  PROVE  FramesOK(G, F, E1)
<1>1. ASSUME NEW q \in Procs, NEW g \in Pages, E1[q] <= g * PAGING_PAGESZ
      PROVE  G[q][g] = Unmapped
  <2>1. g * PAGING_PAGESZ \in Nat
    BY MemoryAssumption DEF Pages
  <2>2. E[q] <= g * PAGING_PAGESZ
    BY <1>1, <2>1
  <2>3. QED
    BY <2>2 DEF FramesOK
<1>2. QED
  BY <1>1 DEF FramesOK

------------------------------------------------------------------------------
(* The inductive invariant.                                                *)

(* The break is the end of the area, which ends with a page.               *)
WholePages ==
  \A p \in Procs :
    /\ sbrk[p] = vm_end[p]
    /\ \E n \in Nat : n <= MaxPages /\ vm_end[p] = n * PAGING_PAGESZ

AreasOK ==
  \A p \in Procs : AreaOK(vm_freerg_list[p], symrgtbl[p], lost[p], vm_end[p])

AreaTypes ==
  /\ symrgtbl \in [Procs -> [Regions -> RegionType]]
  /\ vm_freerg_list \in [Procs -> Seq(RegionType)]
  /\ vm_end \in [Procs -> Limits]
  /\ lost \in [Procs -> SUBSET Limits]

RestTypes ==
  /\ named \in [Procs -> SUBSET Regions]
  /\ sbrk \in [Procs -> Limits]
  /\ storage \in [0 .. NumFrames * PAGING_PAGESZ - 1 -> Vals]

MemInv ==
  /\ AreaTypes /\ RestTypes
  /\ WholePages
  /\ AreasOK
  /\ FramesOK(pgd, free_fp_list, vm_end)
  /\ RegionsMapped

(* A step changes the area of one process.                                 *)
LEMMA AreasStep ==
  ASSUME MemInv, NEW p \in Procs, NEW L, NEW S, NEW X, NEW e, AreaOK(L, S, X, e),
         vm_freerg_list' = [vm_freerg_list EXCEPT ![p] = L],
         symrgtbl' = [symrgtbl EXCEPT ![p] = S],
         lost' = [lost EXCEPT ![p] = X],
         vm_end' = [vm_end EXCEPT ![p] = e]
  PROVE  AreaTypes' /\ AreasOK'
<1>1. AreaTypes
  BY DEF MemInv
<1>2. L \in Seq(RegionType) /\ S \in [Regions -> RegionType]
      /\ X \in SUBSET Limits /\ e \in Limits
  BY DEF AreaOK
<1>3. /\ vm_freerg_list' \in [Procs -> Seq(RegionType)] /\ vm_freerg_list'[p] = L
      /\ \A q \in Procs : q # p => vm_freerg_list'[q] = vm_freerg_list[q]
  BY <1>1, <1>2 DEF AreaTypes
<1>4. /\ symrgtbl' \in [Procs -> [Regions -> RegionType]] /\ symrgtbl'[p] = S
      /\ \A q \in Procs : q # p => symrgtbl'[q] = symrgtbl[q]
  BY <1>1, <1>2 DEF AreaTypes
<1>5. /\ lost' \in [Procs -> SUBSET Limits] /\ lost'[p] = X
      /\ \A q \in Procs : q # p => lost'[q] = lost[q]
  BY <1>1, <1>2 DEF AreaTypes
<1>6. /\ vm_end' \in [Procs -> Limits] /\ vm_end'[p] = e
      /\ \A q \in Procs : q # p => vm_end'[q] = vm_end[q]
  BY <1>1, <1>2 DEF AreaTypes
<1>7. AreaTypes'
  BY <1>3, <1>4, <1>5, <1>6 DEF AreaTypes
<1>8. ASSUME NEW q \in Procs
      PROVE  AreaOK(vm_freerg_list'[q], symrgtbl'[q], lost'[q], vm_end'[q])
  <2>1. CASE q = p
    BY <1>3, <1>4, <1>5, <1>6, <2>1
  <2>2. CASE q # p
    <3>1. AreaOK(vm_freerg_list[q], symrgtbl[q], lost[q], vm_end[q])
      BY DEF MemInv, AreasOK
    <3>2. QED
      BY <1>3, <1>4, <1>5, <1>6, <2>2, <3>1
  <2>3. QED
    BY <2>1, <2>2
<1>9. AreasOK'
  BY <1>8 DEF AreasOK
<1>10. QED
  BY <1>7, <1>9

LEMMA TypesFrom == MemInv => TypeOK
<1>1. FramesOK(pgd, free_fp_list, vm_end) =>
        /\ pgd \in [Procs -> [Pages -> Frames \union {Unmapped}]]
        /\ free_fp_list \in Seq(Frames)
  BY DEF FramesOK
<1>2. QED
  BY <1>1 DEF MemInv, TypeOK, AreaTypes, RestTypes

LEMMA InvUse ==
  ASSUME MemInv
  PROVE  /\ AreaTypes /\ RestTypes /\ WholePages /\ RegionsMapped
         /\ FramesOK(pgd, free_fp_list, vm_end)
         /\ \A p \in Procs : AreaOK(vm_freerg_list[p], symrgtbl[p], lost[p], vm_end[p])
         /\ \A p \in Procs : vm_end[p] \in Nat /\ sbrk[p] = vm_end[p]
<1>1. \A p \in Procs : vm_end[p] \in Nat
  BY LimitsNat DEF MemInv, AreaTypes
<1>2. QED
  BY <1>1 DEF MemInv, AreasOK, WholePages

LEMMA MemInit == Init => MemInv
<1> SUFFICES ASSUME Init PROVE MemInv
  OBVIOUS
<1>1. /\ Region(0, 0) \in RegionType
      /\ Region(0, 0).rg_start = 0 /\ Region(0, 0).rg_end = 0
      /\ \A a : a \notin Bytes(Region(0, 0))
  <2>1. \A a : a \in Bytes(Region(0, 0)) <=> a \in Int /\ 0 <= a /\ a < 0
    BY LimitsNat, RegionIs
  <2>2. QED
    BY <2>1, LimitsNat, RegionIs
<1>2. 0 \in Limits /\ PAGING_PAGESZ \in Nat /\ NumFrames \in Nat
  BY LimitsNat, MemoryAssumption
<1>3. AreaTypes
  BY <1>1, <1>2 DEF Init, AreaTypes
<1>4. RestTypes
  <2>1. 0 \in Vals
    BY MemoryAssumption
  <2>2. named \in [Procs -> SUBSET Regions]
    BY DEF Init
  <2>3. sbrk \in [Procs -> Limits]
    BY <1>2 DEF Init
  <2>4. storage \in [0 .. NumFrames * PAGING_PAGESZ - 1 -> Vals]
    BY <2>1 DEF Init
  <2>5. QED
    BY <2>2, <2>3, <2>4 DEF RestTypes
<1>5. WholePages
  <2>1. 0 * PAGING_PAGESZ = 0 /\ 0 <= MaxPages
    BY MemoryAssumption
  <2>2. QED
    BY <2>1 DEF Init, WholePages
<1>6. AreasOK
  <2> SUFFICES ASSUME NEW p \in Procs
               PROVE  AreaOK(vm_freerg_list[p], symrgtbl[p], lost[p], vm_end[p])
    BY DEF AreasOK
  <2>1. /\ vm_freerg_list[p] = <<>> /\ lost[p] = {} /\ vm_end[p] = 0
        /\ symrgtbl[p] \in [Regions -> RegionType]
        /\ \A r \in Regions : symrgtbl[p][r] = Region(0, 0)
    BY <1>1 DEF Init
  <2>2. \A a : ~InTable(symrgtbl[p], a)
    BY <1>1, <2>1 DEF InTable
  <2>3. DOMAIN <<>> = {} /\ <<>> \in Seq(RegionType)
    OBVIOUS
  <2>4. Merged(<<>>) /\ \A a : ~Within(<<>>, a)
    BY <2>3 DEF Merged, Within
  <2>5. \A r \in Regions : symrgtbl[p][r].rg_start <= symrgtbl[p][r].rg_end
    BY <1>1, <2>1
  <2>6. \A r \in Regions : \A a : a \notin Bytes(symrgtbl[p][r])
    BY <1>1, <2>1
  <2>7. \A a \in Int : ~(0 <= a /\ a < 0)
    OBVIOUS
  <2>8. AreaOK(<<>>, symrgtbl[p], {}, 0)
    BY <1>2, <2>1, <2>2, <2>3, <2>4, <2>5, <2>6, <2>7 DEF AreaOK
  <2>9. QED
    BY <2>1, <2>8
<1>7. FramesOK(pgd, free_fp_list, vm_end)
  <2>1. free_fp_list = [k \in 1..NumFrames |-> k - 1]
    BY DEF Init, AllFrames
  <2>2. /\ free_fp_list \in Seq(Frames) /\ DOMAIN free_fp_list = 1..NumFrames
        /\ \A k \in 1..NumFrames : free_fp_list[k] = k - 1 /\ k - 1 \in Frames
    BY <1>2, <2>1 DEF Frames
  <2>3. /\ pgd \in [Procs -> [Pages -> Frames \union {Unmapped}]]
        /\ \A p \in Procs, g \in Pages : pgd[p][g] = Unmapped
    BY DEF Init
  <2>4. \A j, k \in DOMAIN free_fp_list : free_fp_list[j] = free_fp_list[k] => j = k
    BY <2>2
  <2>5. \A f \in Frames : \E k \in DOMAIN free_fp_list : free_fp_list[k] = f
    <3> TAKE f \in Frames
    <3>1. f + 1 \in 1..NumFrames /\ (f + 1) - 1 = f
      BY <1>2 DEF Frames
    <3>2. QED
      BY <2>2, <3>1
  <2>6. QED
    BY <2>2, <2>3, <2>4, <2>5, UnmappedIs DEF FramesOK
<1>8. RegionsMapped
  <2>1. \A p \in Procs, a \in Limits : ~(a < vm_end[p])
    BY LimitsNat DEF Init
  <2>2. QED
    BY <2>1 DEF RegionsMapped
<1>9. QED
  BY <1>3, <1>4, <1>5, <1>6, <1>7, <1>8 DEF MemInv

------------------------------------------------------------------------------
(* The steps.                                                              *)

LEMMA LimitIs ==
  ASSUME MemInv, NEW p \in Procs, NEW size \in Nat,
         Limit(p, size) <= MaxPages * PAGING_PAGESZ
  PROVE  /\ Limit(p, size) \in Limits /\ Break(p, size) = Limit(p, size)
         /\ vm_end[p] + size <= Limit(p, size) /\ vm_end[p] <= Limit(p, size)
         /\ size = 0 => Limit(p, size) = vm_end[p]
         /\ \E n \in Nat :
              /\ n + NumPages(size) <= MaxPages
              /\ vm_end[p] = n * PAGING_PAGESZ /\ FirstNewPage(p) = n
              /\ Limit(p, size) = (n + NumPages(size)) * PAGING_PAGESZ
<1> DEFINE N == NumPages(size)
<1>1. PICK n \in Nat : n <= MaxPages /\ vm_end[p] = n * PAGING_PAGESZ
  BY DEF MemInv, WholePages
<1>2. N \in Nat /\ size <= N * PAGING_PAGESZ /\ (size = 0 => N = 0)
  BY NumPagesIs
<1>3. n * PAGING_PAGESZ \in Nat /\ N * PAGING_PAGESZ \in Nat
      /\ FirstNewPage(p) = n
  BY <1>1, <1>2, PageStart DEF FirstNewPage
<1>4. Limit(p, size) = vm_end[p] + N * PAGING_PAGESZ
  BY DEF Limit
<1> HIDE DEF N
<1>5. Limit(p, size) = (n + N) * PAGING_PAGESZ
  BY <1>1, <1>2, <1>4, PagesAdd
<1>6. n + N \in Nat /\ MaxPages \in Nat
  BY <1>2, MemoryAssumption
<1>7. n + N <= MaxPages
  BY <1>5, <1>6, PagesAdd
<1>8. Limit(p, size) \in Nat /\ Limit(p, size) \in Limits
  <2>1. Limit(p, size) \in Nat
    BY <1>1, <1>3, <1>4
  <2>2. MaxPages * PAGING_PAGESZ \in Nat
    BY MemoryAssumption
  <2>3. QED
    BY <2>1, <2>2 DEF Limits
<1>9. N = 0 => N * PAGING_PAGESZ = 0
  BY MemoryAssumption
<1>10. /\ vm_end[p] + size <= Limit(p, size) /\ vm_end[p] <= Limit(p, size)
       /\ size = 0 => Limit(p, size) = vm_end[p]
  BY <1>1, <1>2, <1>3, <1>4, <1>9
<1>11. QED
  BY <1>1, <1>3, <1>5, <1>7, <1>8, <1>10 DEF N, Break

(* sbrk and vm_end of p move to the end of a page.                         *)
LEMMA WholeMoved ==
  ASSUME MemInv, NEW p \in Procs, NEW size \in Nat,
         Limit(p, size) <= MaxPages * PAGING_PAGESZ,
         vm_end' = [vm_end EXCEPT ![p] = Limit(p, size)],
         sbrk' = [sbrk EXCEPT ![p] = Break(p, size)]
  PROVE  /\ WholePages' /\ sbrk' \in [Procs -> Limits]
         /\ vm_end'[p] = Limit(p, size) /\ sbrk'[p] = Limit(p, size)
         /\ \A q \in Procs : q # p => vm_end'[q] = vm_end[q]
         /\ \A q \in Procs : vm_end[q] \in Nat /\ vm_end'[q] \in Nat
                             /\ vm_end[q] <= vm_end'[q]
<1>1. /\ Limit(p, size) \in Limits /\ Break(p, size) = Limit(p, size)
      /\ vm_end[p] <= Limit(p, size)
  BY LimitIs
<1>2. \E n \in Nat : n <= MaxPages /\ Limit(p, size) = n * PAGING_PAGESZ
  <2>1. PICK n \in Nat :
          /\ n + NumPages(size) <= MaxPages
          /\ Limit(p, size) = (n + NumPages(size)) * PAGING_PAGESZ
    BY LimitIs
  <2>2. n + NumPages(size) \in Nat
    BY NumPagesIs
  <2>3. QED
    BY <2>1, <2>2
<1>3. vm_end \in [Procs -> Limits] /\ sbrk \in [Procs -> Limits]
  BY InvUse DEF AreaTypes, RestTypes
<1>4. /\ sbrk' \in [Procs -> Limits] /\ vm_end'[p] = Limit(p, size)
      /\ sbrk'[p] = Limit(p, size)
      /\ \A q \in Procs : q # p => vm_end'[q] = vm_end[q] /\ sbrk'[q] = sbrk[q]
  BY <1>1, <1>3
<1>5. ASSUME NEW q \in Procs
      PROVE  /\ sbrk'[q] = vm_end'[q]
             /\ \E n \in Nat : n <= MaxPages /\ vm_end'[q] = n * PAGING_PAGESZ
             /\ vm_end[q] \in Nat /\ vm_end'[q] \in Nat /\ vm_end[q] <= vm_end'[q]
  <2>1. CASE q = p
    BY <1>1, <1>2, <1>4, <2>1, InvUse, LimitsNat
  <2>2. CASE q # p
    <3>1. /\ sbrk[q] = vm_end[q] /\ vm_end[q] \in Nat /\ vm_end[q] <= vm_end[q]
          /\ \E n \in Nat : n <= MaxPages /\ vm_end[q] = n * PAGING_PAGESZ
      BY InvUse DEF WholePages
    <3>2. QED
      BY <1>4, <2>2, <3>1
  <2>3. QED
    BY <2>1, <2>2
<1>6. WholePages'
  BY <1>5 DEF WholePages
<1>7. QED
  BY <1>4, <1>5, <1>6

(* inc_vma_limit with enough frames.                                       *)
LEMMA ExtendIs ==
  ASSUME MemInv, NEW p \in Procs, NEW size \in Nat, Extend(p, size)
  PROVE  /\ FramesOK(pgd', free_fp_list', vm_end')
         /\ \A q \in Procs : q # p => pgd'[q] = pgd[q]
         /\ \A a \in Limits :
              /\ a < vm_end[p] =>
                   pgd'[p][a \div PAGING_PAGESZ] = pgd[p][a \div PAGING_PAGESZ]
              /\ vm_end[p] <= a /\ a < Limit(p, size) =>
                   pgd'[p][a \div PAGING_PAGESZ] # Unmapped
<1> DEFINE N == NumPages(size)
           G1 == Mapped(p, Taken(N))
<1>1. /\ Limit(p, size) <= MaxPages * PAGING_PAGESZ
      /\ N \in Nat /\ N <= Len(free_fp_list)
      /\ vm_end' = [vm_end EXCEPT ![p] = Limit(p, size)]
      /\ sbrk' = [sbrk EXCEPT ![p] = Break(p, size)]
      /\ free_fp_list' = SubSeq(free_fp_list, N + 1, Len(free_fp_list))
      /\ pgd' = [pgd EXCEPT ![p] = G1]
  BY NumPagesIs DEF Extend
<1>2. PICK n \in Nat :
        /\ n + N <= MaxPages
        /\ vm_end[p] = n * PAGING_PAGESZ /\ FirstNewPage(p) = n
        /\ Limit(p, size) = (n + N) * PAGING_PAGESZ
  BY <1>1, LimitIs
<1>3. FramesOK(pgd, free_fp_list, vm_end)
  BY InvUse
<1>4. /\ pgd \in [Procs -> [Pages -> Frames \union {Unmapped}]]
      /\ free_fp_list \in Seq(Frames)
  BY <1>3 DEF FramesOK
<1>5. DOMAIN Taken(N) = 1..N /\ \A k \in 1..N : Taken(N)[k] = free_fp_list[N - k + 1]
  <2> HIDE DEF N
  <2> QED
    BY <1>1, <1>4, TakenIs
<1>6. Pages \subseteq Nat /\ MaxPages \in Nat
  BY MemoryAssumption DEF Pages
<1>7. G1 = [g \in Pages |-> IF g - n + 1 \in DOMAIN Taken(N) THEN Taken(N)[g - n + 1]
                            ELSE pgd[p][g]]
  BY <1>2 DEF Mapped
<1> HIDE DEF N, G1
<1>8. \A g \in Pages :
        G1[g] = IF n <= g /\ g < n + N THEN free_fp_list[N - (g - n)] ELSE pgd[p][g]
  <2> TAKE g \in Pages
  <2>1. CASE n <= g /\ g < n + N
    <3>1. g - n + 1 \in 1..N /\ N - (g - n + 1) + 1 = N - (g - n)
      BY <1>1, <1>6, <2>1
    <3>2. G1[g] = Taken(N)[g - n + 1]
      BY <1>5, <1>7, <3>1
    <3>3. QED
      BY <1>5, <2>1, <3>1, <3>2
  <2>2. CASE ~(n <= g /\ g < n + N)
    <3>1. g - n + 1 \notin 1..N
      BY <1>1, <1>6, <2>2
    <3>2. QED
      BY <1>5, <1>7, <2>2, <3>1
  <2>3. QED
    BY <2>1, <2>2
<1>9. \A g \in Pages : n <= g /\ g < n + N => G1[g] \in Frames
  <2> SUFFICES ASSUME NEW g \in Pages, n <= g, g < n + N
               PROVE  G1[g] \in Frames
    OBVIOUS
  <2>1. N - (g - n) \in DOMAIN free_fp_list
    BY <1>1, <1>4, <1>6
  <2>2. QED
    BY <1>4, <1>8, <2>1
<1>10. G1 \in [Pages -> Frames \union {Unmapped}]
  <2>1. \A g \in Pages : G1[g] \in Frames \union {Unmapped}
    BY <1>4, <1>8, <1>9
  <2>2. QED
    BY <1>7, <2>1
<1>11. /\ free_fp_list' \in Seq(Frames)
       /\ DOMAIN free_fp_list' = 1 .. Len(free_fp_list) - N
       /\ \A k \in 1 .. Len(free_fp_list) - N : free_fp_list'[k] = free_fp_list[N + k]
  BY <1>1, <1>4
<1>12. /\ \A q \in Procs : q # p => vm_end'[q] = vm_end[q]
       /\ \A q \in Procs : vm_end[q] \in Nat
       /\ vm_end'[p] = (n + N) * PAGING_PAGESZ
  BY <1>1, <1>2, WholeMoved
<1>13. FramesOK([pgd EXCEPT ![p] = G1], free_fp_list', vm_end')
  <2>1. Grants(pgd, free_fp_list, vm_end, p, n, N, G1, free_fp_list', vm_end')
    BY <1>1, <1>2, <1>8, <1>10, <1>11, <1>12 DEF Grants
  <2>2. QED
    BY <1>3, <2>1, FramesGranted
<1>14. pgd'[p] = G1 /\ \A q \in Procs : q # p => pgd'[q] = pgd[q]
  BY <1>1, <1>4
<1>15. ASSUME NEW a \in Limits, a < vm_end[p]
       PROVE  pgd'[p][a \div PAGING_PAGESZ] = pgd[p][a \div PAGING_PAGESZ]
  <2>1. a \in Nat /\ a \div PAGING_PAGESZ \in Nat /\ a \div PAGING_PAGESZ < n
    BY <1>2, <1>15, LimitsNat, PageBelow
  <2>2. a \div PAGING_PAGESZ \in Pages
    BY <1>1, <1>2, <1>6, <2>1 DEF Pages
  <2>3. ~(n <= a \div PAGING_PAGESZ)
    BY <2>1
  <2> HIDE DEF Pages
  <2>4. QED
    BY <1>8, <1>14, <2>2, <2>3
<1>16. ASSUME NEW a \in Limits, vm_end[p] <= a, a < Limit(p, size)
       PROVE  pgd'[p][a \div PAGING_PAGESZ] # Unmapped
  <2>1. a \in Nat /\ n + N \in Nat
    BY <1>1, LimitsNat
  <2>2. /\ a \div PAGING_PAGESZ \in Nat /\ a \div PAGING_PAGESZ < n + N
        /\ n <= a \div PAGING_PAGESZ
    BY <1>2, <1>16, <2>1, PageBelow, PageAbove
  <2>3. a \div PAGING_PAGESZ \in Pages
    BY <1>1, <1>2, <1>6, <2>2 DEF Pages
  <2>4. QED
    BY <1>9, <1>14, <2>2, <2>3, UnmappedIs
<1>17. QED
  BY <1>1, <1>13, <1>14, <1>15, <1>16

(* Regions stay on mapped pages.                                           *)
LEMMA MappedKept ==
  ASSUME MemInv, \A q \in Procs : lost[q] \subseteq lost'[q],
         vm_end' = vm_end, pgd' = pgd
  PROVE  RegionsMapped'
  BY DEF MemInv, RegionsMapped

LEMMA MappedExtended ==
  ASSUME MemInv, NEW p \in Procs, NEW size \in Nat, Extend(p, size),
         \A q \in Procs : lost[q] \subseteq lost'[q]
  PROVE  RegionsMapped'
<1> SUFFICES ASSUME NEW q \in Procs, NEW a \in Limits, a < vm_end'[q], a \notin lost'[q]
             PROVE  pgd'[q][a \div PAGING_PAGESZ] # Unmapped
  BY DEF RegionsMapped
<1>1. a \notin lost[q]
  OBVIOUS
<1>2. /\ Limit(p, size) <= MaxPages * PAGING_PAGESZ
      /\ vm_end' = [vm_end EXCEPT ![p] = Limit(p, size)]
      /\ sbrk' = [sbrk EXCEPT ![p] = Break(p, size)]
  BY DEF Extend
<1>3. /\ vm_end'[p] = Limit(p, size)
      /\ \A x \in Procs : x # p => vm_end'[x] = vm_end[x]
  BY <1>2, WholeMoved
<1>4. a < vm_end[q] => pgd[q][a \div PAGING_PAGESZ] # Unmapped
  BY <1>1, InvUse DEF RegionsMapped
<1>5. CASE q # p
  BY <1>3, <1>4, <1>5, ExtendIs
<1>6. CASE q = p
  <2>1. a \in Nat /\ vm_end[p] \in Nat
    BY LimitsNat, InvUse
  <2>2. a < vm_end[p] \/ vm_end[p] <= a
    BY <2>1
  <2>3. QED
    BY <1>3, <1>4, <1>6, <2>2, ExtendIs
<1>7. QED
  BY <1>5, <1>6

(* The types of what the area is not made of.                              *)
LEMMA RestStep ==
  ASSUME MemInv, sbrk' \in [Procs -> Limits], storage' = storage,
         \/ named' = named
         \/ \E p \in Procs, r \in Regions :
              named' = [named EXCEPT ![p] = named[p] \union {r}]
  PROVE  RestTypes'
<1>1. RestTypes
  BY DEF MemInv
<1>2. named' \in [Procs -> SUBSET Regions]
  BY <1>1 DEF RestTypes
<1>3. QED
  BY <1>1, <1>2 DEF RestTypes

LEMMA BindIs ==
  ASSUME MemInv, NEW p \in Procs, NEW r \in Regions, NEW rg, Bind(p, r, rg)
  PROVE  /\ symrgtbl' = [symrgtbl EXCEPT ![p] = [symrgtbl[p] EXCEPT ![r] = rg]]
         /\ lost' = [lost EXCEPT ![p] = lost[p] \union Bytes(symrgtbl[p][r])]
         /\ named' = [named EXCEPT ![p] = named[p] \union {r}]
         /\ \A q \in Procs : lost[q] \subseteq lost'[q]
<1>1. symrgtbl' = [symrgtbl EXCEPT ![p][r] = rg]
  BY DEF Bind
<1>2. lost' = [lost EXCEPT ![p] = lost[p] \union Bytes(symrgtbl[p][r])]
  BY DEF Bind
<1>3. named' = [named EXCEPT ![p] = named[p] \union {r}]
  BY DEF Bind
<1>4. \A q \in Procs : lost[q] \subseteq lost'[q]
  BY <1>2 DEF MemInv, AreaTypes
<1>5. QED
  BY <1>1, <1>2, <1>3, <1>4

LEMMA ReuseStep ==
  ASSUME MemInv, NEW p \in Procs, NEW r \in Regions, NEW size \in Nat,
         AllocFromFreeList(p, r, size)
  PROVE  MemInv'
<1> DEFINE list == vm_freerg_list[p]
           fit == FirstFit(list, size)
           rg == list[fit]
           use == Region(rg.rg_start, rg.rg_start + size)
           L1 == enlist_vm_freerg_list(RemoveAt(list, fit),
                                       Region(rg.rg_start + size, rg.rg_end))
           S1 == [symrgtbl[p] EXCEPT ![r] = use]
           X1 == lost[p] \union Bytes(symrgtbl[p][r])
<1>1. /\ fit # 0 /\ Bind(p, r, use)
      /\ vm_freerg_list' = [vm_freerg_list EXCEPT ![p] = L1]
      /\ vm_end' = vm_end /\ sbrk' = sbrk
      /\ pgd' = pgd /\ free_fp_list' = free_fp_list /\ storage' = storage
  BY DEF AllocFromFreeList, ramVars
<1>2. AreaOK(list, symrgtbl[p], lost[p], vm_end[p])
  BY InvUse
<1>3. AreaOK(L1, S1, X1, vm_end[p])
  BY <1>1, <1>2, AreaReused
<1> HIDE DEF L1, use
<1>4. /\ symrgtbl' = [symrgtbl EXCEPT ![p] = S1]
      /\ lost' = [lost EXCEPT ![p] = X1]
      /\ named' = [named EXCEPT ![p] = named[p] \union {r}]
      /\ \A q \in Procs : lost[q] \subseteq lost'[q]
  BY <1>1, BindIs
<1>5. vm_end' = [vm_end EXCEPT ![p] = vm_end[p]]
  BY <1>1 DEF MemInv, AreaTypes
<1> HIDE DEF S1, X1
<1>6. AreaTypes' /\ AreasOK'
  BY <1>1, <1>3, <1>4, <1>5, AreasStep
<1>7. RestTypes'
  <2>1. sbrk' \in [Procs -> Limits]
    BY <1>1 DEF MemInv, RestTypes
  <2>2. QED
    BY <1>1, <1>4, <2>1, RestStep
<1>8. WholePages'
  BY <1>1 DEF MemInv, WholePages
<1>9. RegionsMapped'
  BY <1>1, <1>4, MappedKept
<1>10. FramesOK(pgd, free_fp_list, vm_end)'
  BY <1>1 DEF MemInv
<1>11. QED
  BY <1>6, <1>7, <1>8, <1>9, <1>10 DEF MemInv

LEMMA GrowStep ==
  ASSUME MemInv, NEW p \in Procs, NEW r \in Regions, NEW size \in Nat,
         AllocByGrowing(p, r, size)
  PROVE  MemInv'
<1> DEFINE list == vm_freerg_list[p]
           e1 == Limit(p, size)
           use == Region(vm_end[p], vm_end[p] + size)
           L1 == enlist_vm_freerg_list(list, Region(vm_end[p] + size, e1))
           S1 == [symrgtbl[p] EXCEPT ![r] = use]
           X1 == lost[p] \union Bytes(symrgtbl[p][r])
<1>1. sbrk[p] = vm_end[p]
  BY InvUse
<1>2. /\ Extend(p, size) /\ Bind(p, r, use)
      /\ vm_freerg_list' = [vm_freerg_list EXCEPT ![p] = L1]
  BY <1>1 DEF AllocByGrowing
<1>3. /\ Limit(p, size) <= MaxPages * PAGING_PAGESZ
      /\ vm_end' = [vm_end EXCEPT ![p] = e1]
      /\ sbrk' = [sbrk EXCEPT ![p] = Break(p, size)]
      /\ storage' = storage
  BY <1>2 DEF Extend
<1>4. e1 \in Limits /\ vm_end[p] + size <= e1 /\ (size = 0 => e1 = vm_end[p])
  BY <1>3, LimitIs
<1>5. AreaOK(list, symrgtbl[p], lost[p], vm_end[p])
  BY InvUse
<1> HIDE DEF e1
<1>6. AreaOK(L1, S1, X1, e1)
  BY <1>4, <1>5, AreaGrown
<1> HIDE DEF L1, use
<1>7. /\ symrgtbl' = [symrgtbl EXCEPT ![p] = S1]
      /\ lost' = [lost EXCEPT ![p] = X1]
      /\ named' = [named EXCEPT ![p] = named[p] \union {r}]
      /\ \A q \in Procs : lost[q] \subseteq lost'[q]
  BY <1>2, BindIs
<1> HIDE DEF S1, X1
<1>8. AreaTypes' /\ AreasOK'
  BY <1>2, <1>3, <1>6, <1>7, AreasStep
<1>9. WholePages' /\ sbrk' \in [Procs -> Limits]
  BY <1>3, WholeMoved DEF e1
<1>10. RestTypes'
  BY <1>3, <1>7, <1>9, RestStep
<1>11. RegionsMapped'
  BY <1>2, <1>7, MappedExtended
<1>12. FramesOK(pgd, free_fp_list, vm_end)'
  BY <1>2, ExtendIs
<1>13. QED
  BY <1>8, <1>9, <1>10, <1>11, <1>12 DEF MemInv

LEMMA KeptStep ==
  ASSUME MemInv, UNCHANGED vars
  PROVE  MemInv'
<1>1. /\ symrgtbl' = symrgtbl /\ named' = named /\ vm_freerg_list' = vm_freerg_list
      /\ vm_end' = vm_end /\ sbrk' = sbrk /\ pgd' = pgd
      /\ free_fp_list' = free_fp_list /\ storage' = storage /\ lost' = lost
  BY DEF vars, areaVars, ramVars
<1>2. AreaTypes' /\ RestTypes'
  BY <1>1 DEF MemInv, AreaTypes, RestTypes
<1>3. AreasOK' /\ WholePages'
  BY <1>1 DEF MemInv, AreasOK, WholePages
<1>4. RegionsMapped' /\ FramesOK(pgd, free_fp_list, vm_end)'
  BY <1>1 DEF MemInv, RegionsMapped
<1>5. QED
  BY <1>2, <1>3, <1>4 DEF MemInv

(* __alloc without enough frames changes nothing.                          *)
LEMMA FailsKeeps ==
  ASSUME MemInv, NEW p \in Procs, NEW r \in Regions, NEW size \in Nat,
         AllocFails(p, r, size)
  PROVE  UNCHANGED vars
<1>1. free_fp_list \in Seq(Frames)
  BY DEF MemInv, FramesOK
<1>2. free_fp_list' = free_fp_list
  BY <1>1, PutBackAll DEF AllocFails
<1>3. QED
  BY <1>2 DEF AllocFails, vars, areaVars, ramVars

LEMMA IncStep ==
  ASSUME MemInv, NEW p \in Procs, NEW size \in Nat, IncLimit(p, size)
  PROVE  MemInv'
<1> DEFINE e1 == Limit(p, size)
           X1 == lost[p] \union (vm_end[p] .. e1 - 1)
<1>1. /\ Limit(p, size) <= MaxPages * PAGING_PAGESZ
      /\ vm_end' = [vm_end EXCEPT ![p] = Limit(p, size)]
      /\ sbrk' = [sbrk EXCEPT ![p] = Break(p, size)]
      /\ storage' = storage
      /\ lost' = [lost EXCEPT ![p] = lost[p] \union (sbrk[p] .. sbrk'[p] - 1)]
      /\ symrgtbl' = symrgtbl /\ named' = named /\ vm_freerg_list' = vm_freerg_list
  BY DEF IncLimit, Extend
<1>2. /\ WholePages' /\ sbrk' \in [Procs -> Limits] /\ sbrk'[p] = e1
      /\ vm_end'[p] = e1 /\ \A q \in Procs : q # p => vm_end'[q] = vm_end[q]
      /\ \A q \in Procs : vm_end[q] \in Nat /\ vm_end'[q] \in Nat
                          /\ vm_end[q] <= vm_end'[q]
  BY <1>1, WholeMoved
<1>3. sbrk[p] = vm_end[p] /\ e1 \in Limits /\ vm_end[p] <= e1
  BY <1>1, InvUse, LimitIs
<1>4. lost' = [lost EXCEPT ![p] = X1]
  BY <1>1, <1>2, <1>3
<1>5. AreaOK(vm_freerg_list[p], symrgtbl[p], X1, e1)
  <2>1. AreaOK(vm_freerg_list[p], symrgtbl[p], lost[p], vm_end[p])
    BY InvUse
  <2> HIDE DEF e1
  <2>2. QED
    BY <1>3, <2>1, AreaRaised
<1>6. /\ vm_freerg_list' = [vm_freerg_list EXCEPT ![p] = vm_freerg_list[p]]
      /\ symrgtbl' = [symrgtbl EXCEPT ![p] = symrgtbl[p]]
  BY <1>1 DEF MemInv, AreaTypes
<1>7. \A q \in Procs : lost[q] \subseteq lost'[q]
  BY <1>4 DEF MemInv, AreaTypes
<1>8. lost'[p] = X1 /\ \A q \in Procs : q # p => lost'[q] = lost[q]
  BY <1>4 DEF MemInv, AreaTypes
<1>9. AreaTypes' /\ AreasOK'
  <2>1. vm_end' = [vm_end EXCEPT ![p] = e1]
    BY <1>1
  <2> HIDE DEF X1, e1
  <2>2. QED
    BY <1>4, <1>5, <1>6, <2>1, AreasStep
<1>10. RestTypes'
  BY <1>1, <1>2, RestStep
<1>11. CASE Extend(p, size)
  <2>1. RegionsMapped'
    BY <1>7, <1>11, MappedExtended
  <2>2. FramesOK(pgd, free_fp_list, vm_end)'
    BY <1>11, ExtendIs
  <2>3. QED
    BY <1>2, <1>9, <1>10, <2>1, <2>2 DEF MemInv
<1>12. CASE ~Extend(p, size)
  <2>1. pgd' = pgd /\ free_fp_list' = PutBack(Taken(Len(free_fp_list)))
    BY <1>12 DEF IncLimit
  <2>2. free_fp_list \in Seq(Frames)
    BY DEF MemInv, FramesOK
  <2>3. free_fp_list' = free_fp_list
    BY <2>1, <2>2, PutBackAll
  <2>4. FramesOK(pgd, free_fp_list, vm_end')
    BY <1>2, InvUse, FramesRaised
  <2>5. FramesOK(pgd, free_fp_list, vm_end)'
    BY <2>1, <2>3, <2>4
  <2>6. RegionsMapped'
    <3> SUFFICES ASSUME NEW q \in Procs, NEW a \in Limits,
                        a < vm_end'[q], a \notin lost'[q]
                 PROVE  pgd[q][a \div PAGING_PAGESZ] # Unmapped
      BY <2>1 DEF RegionsMapped
    <3>1. a \notin lost[q] /\ a \in Nat /\ vm_end[q] \in Nat
      BY <1>2, <1>7, LimitsNat
    <3>2. a < vm_end[q]
      <4>1. CASE q # p
        BY <1>2, <4>1
      <4>2. CASE q = p
        <5>1. a \notin vm_end[p] .. e1 - 1
          BY <1>8, <4>2
        <5>2. a < e1 /\ e1 \in Nat
          BY <1>2, <1>3, <4>2, LimitsNat
        <5> HIDE DEF e1
        <5>3. QED
          BY <3>1, <4>2, <5>1, <5>2
      <4>3. QED
        BY <4>1, <4>2
    <3>3. QED
      BY <3>1, <3>2, InvUse DEF RegionsMapped
  <2>7. QED
    BY <1>2, <1>9, <1>10, <2>5, <2>6 DEF MemInv
<1>13. QED
  BY <1>11, <1>12

LEMMA FreeStep ==
  ASSUME MemInv, NEW p \in Procs, NEW r \in Regions, FreeRegion(p, r)
  PROVE  MemInv'
<1> DEFINE freed == Coalesced(vm_freerg_list[p], symrgtbl[p][r])
           L1 == enlist_vm_freerg_list(freed.rest, freed.rg)
           entry == AfterFree(symrgtbl[p][r], freed.rg)
           S1 == [symrgtbl[p] EXCEPT ![r] = entry]
<1>1. /\ vm_freerg_list' = [vm_freerg_list EXCEPT ![p] = L1]
      /\ named' = named /\ vm_end' = vm_end /\ sbrk' = sbrk /\ lost' = lost
      /\ pgd' = pgd /\ free_fp_list' = free_fp_list /\ storage' = storage
  BY DEF FreeRegion, ramVars
<1>2. symrgtbl' = [symrgtbl EXCEPT ![p] = S1]
  BY DEF FreeRegion
<1>3. AreaOK(vm_freerg_list[p], symrgtbl[p], lost[p], vm_end[p])
  BY InvUse
<1>4. AreaOK(L1, S1, lost[p], vm_end[p])
  BY <1>3, AreaFreed
<1> HIDE DEF L1, S1
<1>5. /\ vm_end' = [vm_end EXCEPT ![p] = vm_end[p]]
      /\ lost' = [lost EXCEPT ![p] = lost[p]]
  BY <1>1 DEF MemInv, AreaTypes
<1>6. AreaTypes' /\ AreasOK'
  BY <1>1, <1>2, <1>4, <1>5, AreasStep
<1>7. RestTypes'
  BY <1>1 DEF MemInv, RestTypes
<1>8. WholePages'
  BY <1>1 DEF MemInv, WholePages
<1>9. RegionsMapped'
  BY <1>1, MappedKept
<1>10. FramesOK(pgd, free_fp_list, vm_end)'
  BY <1>1 DEF MemInv
<1>11. QED
  BY <1>6, <1>7, <1>8, <1>9, <1>10 DEF MemInv

LEMMA WriteStep ==
  ASSUME MemInv, NEW p \in Procs, NEW r \in Regions, NEW offset, NEW value \in Vals,
         Write(p, r, offset, value)
  PROVE  MemInv'
<1>1. /\ symrgtbl' = symrgtbl /\ named' = named /\ vm_freerg_list' = vm_freerg_list
      /\ vm_end' = vm_end /\ sbrk' = sbrk /\ pgd' = pgd
      /\ free_fp_list' = free_fp_list /\ lost' = lost
      /\ \E x : storage' = [storage EXCEPT ![x] = value]
  BY DEF Write, areaVars
<1>2. AreaTypes' /\ RestTypes'
  <2>1. storage' \in [0 .. NumFrames * PAGING_PAGESZ - 1 -> Vals]
    BY <1>1 DEF MemInv, RestTypes
  <2>2. QED
    BY <1>1, <2>1 DEF MemInv, AreaTypes, RestTypes
<1>3. AreasOK' /\ WholePages'
  BY <1>1 DEF MemInv, AreasOK, WholePages
<1>4. RegionsMapped' /\ FramesOK(pgd, free_fp_list, vm_end)'
  BY <1>1 DEF MemInv, RegionsMapped
<1>5. QED
  BY <1>2, <1>3, <1>4 DEF MemInv

(* Whatever call is served, and whatever it returns.                       *)
LEMMA MemStep == MemInv /\ [Next]_<<vars, call>> => MemInv'
<1> SUFFICES ASSUME MemInv, [Next]_<<vars, call>> PROVE MemInv'
  OBVIOUS
<1>1. CASE UNCHANGED vars
  BY <1>1, KeptStep
<1>2. ASSUME NEW p \in Procs, NEW size \in IncSizes, memmap(p, size)
      PROVE  MemInv'
  <2>1. size \in Nat
    BY MemoryAssumption
  <2>2. QED
    BY <1>2, <2>1, IncStep DEF memmap
<1>3. ASSUME NEW p \in Procs, NEW r \in Regions, NEW size \in 0..MaxAlloc,
             liballoc(p, r, size)
      PROVE  MemInv'
  <2>1. size \in Nat
    OBVIOUS
  <2>2. CASE AllocFromFreeList(p, r, size)
    BY <2>1, <2>2, ReuseStep
  <2>3. CASE AllocByGrowing(p, r, size)
    BY <2>1, <2>3, GrowStep
  <2>4. CASE AllocFails(p, r, size)
    BY <2>1, <2>4, FailsKeeps, KeptStep
  <2>5. QED
    BY <1>3, <2>2, <2>3, <2>4 DEF liballoc
<1>4. ASSUME NEW p \in Procs, NEW r \in Regions, libfree(p, r)
      PROVE  MemInv'
  BY <1>4, FreeStep DEF libfree
<1>5. ASSUME NEW p \in Procs, NEW r \in Regions, NEW offset \in 0 .. MaxAlloc - 1,
             NEW value \in Vals, libwrite(p, r, offset, value)
      PROVE  MemInv'
  BY <1>5, WriteStep DEF libwrite
<1>6. ASSUME NEW p \in Procs, NEW r \in Regions, NEW offset \in 0 .. MaxAlloc - 1,
             libread(p, r, offset)
      PROVE  MemInv'
  BY <1>1, <1>6 DEF libread, ReadByte
<1>7. QED
  BY <1>1, <1>2, <1>3, <1>4, <1>5, <1>6 DEF Next

LEMMA MemInvariant == Spec => []MemInv
  BY MemInit, MemStep, PTL DEF Spec

------------------------------------------------------------------------------
(* The theorems.                                                           *)

(* Every variable keeps its type; in particular the area of a process      *)
(* never ends beyond its page table and every region lies inside it        *)
(* (liballoc, libfree, libwrite, and sys_memmap called by a program).      *)
THEOREM MemTypeOK == Spec => []TypeOK
  BY MemInvariant, TypesFrom, PTL

(* liballoc and libfree neither lose an address of the area nor give it    *)
(* out twice: each one below vm_end is in one free region, or belongs to   *)
(* one identifier, or was lost by allocating an identifier again or by a   *)
(* program that grew the area itself.                                      *)
THEOREM AreaPartitionedHolds == Spec => []AreaPartitioned
<1>1. MemInv => AreaPartitioned
  <2> SUFFICES ASSUME MemInv, NEW p \in Procs, NEW a \in Limits
               PROVE  Owners(p, a) = IF a < vm_end[p] THEN 1 ELSE 0
    BY DEF AreaPartitioned
  <2>1. AreaOK(vm_freerg_list[p], symrgtbl[p], lost[p], vm_end[p])
    BY InvUse
  <2>2. QED
    BY <2>1, AreaCounted DEF Owners
<1>2. QED
  BY <1>1, MemInvariant, PTL

(* The loop of __free and the ordered insertion keep vm_freerg_list        *)
(* sorted and fully merged, whatever is allocated and freed.               *)
THEOREM FreeListMergedHolds == Spec => []FreeListMerged
<1>1. MemInv => FreeListMerged
  <2> SUFFICES ASSUME MemInv, NEW p \in Procs
               PROVE  LET list == vm_freerg_list[p]
                      IN  /\ \A k \in DOMAIN list : list[k].rg_start < list[k].rg_end
                          /\ \A k \in 1 .. Len(list) - 1 :
                               list[k].rg_end < list[k + 1].rg_start
    BY DEF FreeListMerged
  <2> DEFINE list == vm_freerg_list[p]
  <2>1. AreaOK(list, symrgtbl[p], lost[p], vm_end[p])
    BY InvUse
  <2>2. list \in Seq(RegionType) /\ Merged(list)
    BY <2>1 DEF AreaOK
  <2> HIDE DEF list
  <2>3. Len(list) \in Nat /\ DOMAIN list = 1..Len(list)
    BY <2>2, RegionsNat
  <2>4. \A k \in 1 .. Len(list) - 1 : k \in DOMAIN list /\ k + 1 \in DOMAIN list /\ k < k + 1
    BY <2>3
  <2>5. QED
    BY <2>2, <2>4 DEF Merged, list
<1>2. QED
  BY <1>1, MemInvariant, PTL

(* alloc_pages_range and vmap_page_range: a frame of the RAM is free once  *)
(* or is one page of one process, also when an allocation has failed after *)
(* it took every free frame.                                               *)
THEOREM FramesConservedHolds == Spec => []FramesConserved
<1>1. MemInv => FramesConserved
  BY InvUse, FramesCounted DEF FramesConserved
<1>2. QED
  BY <1>1, MemInvariant, PTL

(* A region never reaches a page that is not in RAM, so pg_getpage does    *)
(* not swap for a program that stays inside its regions.                   *)
THEOREM RegionsMappedHolds == Spec => []RegionsMapped
<1>1. MemInv => RegionsMapped
  BY InvUse
<1>2. QED
  BY <1>1, MemInvariant, PTL

------------------------------------------------------------------------------
(* Refinement of ProcessMemory.                                            *)

(* The byte of the RAM behind an address under page tables G, and the      *)
(* bytes of the regions under tables S, page tables G and RAM st.          *)
ByteAt(G, p, a) == G[p][a \div PAGING_PAGESZ] * PAGING_PAGESZ + (a % PAGING_PAGESZ)

Size(rg) == rg.rg_end - rg.rg_start

Contents(S, G, st, p, r) ==
  [k \in 0 .. Size(S[p][r]) - 1 |-> st[ByteAt(G, p, S[p][r].rg_start + k)]]

Bar(S, G, st) == [p \in Procs |-> [r \in Regions |-> Contents(S, G, st, p, r)]]

LEMMA BarIs ==
  /\ storeBar = Bar(symrgtbl, pgd, storage)
  /\ storeBar' = Bar(symrgtbl', pgd', storage')
  BY DEF storeBar, Read, PhysAddr, Bar, Contents, Size, ByteAt

(* What makes the regions private.                                         *)
Reach(S, G, st) ==
  /\ S \in [Procs -> [Regions -> RegionType]]
  /\ G \in [Procs -> [Pages -> Frames \union {Unmapped}]]
  /\ st \in [0 .. NumFrames * PAGING_PAGESZ - 1 -> Vals]
  /\ \A p \in Procs, r \in Regions : S[p][r].rg_start <= S[p][r].rg_end
  /\ \A p \in Procs, r \in Regions : \A a \in Bytes(S[p][r]) :
       a \div PAGING_PAGESZ \in Pages /\ G[p][a \div PAGING_PAGESZ] \in Frames
  /\ \A p \in Procs : \A r, q \in Regions : \A a \in Int :
       a \in Bytes(S[p][r]) /\ a \in Bytes(S[p][q]) => r = q
  /\ \A p, q \in Procs : \A g, h \in Pages :
       G[p][g] \in Frames /\ G[p][g] = G[q][h] => p = q /\ g = h

LEMMA ByteNat ==
  ASSUME NEW rg \in RegionType, NEW a \in Bytes(rg)
  PROVE  a \in Limits /\ a \in Nat /\ a \in Int
<1>1. a \in Limits
  BY BytesInLimits
<1>2. QED
  BY <1>1, LimitsNat

(* An address of a region is below the end of the area and not lost.       *)
LEMMA InRegion ==
  ASSUME MemInv, NEW p \in Procs, NEW r \in Regions, NEW a \in Bytes(symrgtbl[p][r])
  PROVE  /\ a \in Limits /\ a \in Nat /\ a < vm_end[p]
         /\ a \div PAGING_PAGESZ \in Pages
         /\ pgd[p][a \div PAGING_PAGESZ] \in Frames
<1>1. symrgtbl[p][r] \in RegionType
  BY DEF MemInv, AreaTypes
<1>2. a \in Limits /\ a \in Nat /\ a \in Int
  BY <1>1, ByteNat
<1>3. a < vm_end[p] /\ a \notin lost[p]
  <2>1. AreaOK(vm_freerg_list[p], symrgtbl[p], lost[p], vm_end[p])
    BY InvUse
  <2>2. InTable(symrgtbl[p], a)
    BY DEF InTable
  <2>3. QED
    BY <1>2, <2>1, <2>2 DEF AreaOK
<1>4. a \div PAGING_PAGESZ \in Pages
  <2>1. PICK n \in Nat : n <= MaxPages /\ vm_end[p] = n * PAGING_PAGESZ
    BY DEF MemInv, WholePages
  <2>2. a \div PAGING_PAGESZ \in Nat /\ a \div PAGING_PAGESZ < n
    BY <1>2, <1>3, <2>1, PageBelow
  <2>3. MaxPages \in Nat
    BY MemoryAssumption
  <2>4. QED
    BY <2>1, <2>2, <2>3 DEF Pages
<1>5. pgd[p][a \div PAGING_PAGESZ] # Unmapped
  BY <1>2, <1>3 DEF MemInv, RegionsMapped
<1>6. pgd[p][a \div PAGING_PAGESZ] \in Frames \union {Unmapped}
  BY <1>4 DEF MemInv, FramesOK
<1>7. QED
  BY <1>2, <1>3, <1>4, <1>5, <1>6

LEMMA ReachHolds == MemInv => Reach(symrgtbl, pgd, storage)
<1> SUFFICES ASSUME MemInv PROVE Reach(symrgtbl, pgd, storage)
  OBVIOUS
<1>1. /\ symrgtbl \in [Procs -> [Regions -> RegionType]]
      /\ storage \in [0 .. NumFrames * PAGING_PAGESZ - 1 -> Vals]
  BY DEF MemInv, AreaTypes, RestTypes
<1>2. /\ pgd \in [Procs -> [Pages -> Frames \union {Unmapped}]]
      /\ \A p, q \in Procs : \A g, h \in Pages :
           pgd[p][g] \in Frames /\ pgd[p][g] = pgd[q][h] => p = q /\ g = h
  BY DEF MemInv, FramesOK
<1>3. /\ \A p \in Procs, r \in Regions : symrgtbl[p][r].rg_start <= symrgtbl[p][r].rg_end
      /\ \A p \in Procs : \A r, q \in Regions : \A a \in Int :
           a \in Bytes(symrgtbl[p][r]) /\ a \in Bytes(symrgtbl[p][q]) => r = q
  BY InvUse DEF AreaOK
<1>4. \A p \in Procs, r \in Regions : \A a \in Bytes(symrgtbl[p][r]) :
        a \div PAGING_PAGESZ \in Pages /\ pgd[p][a \div PAGING_PAGESZ] \in Frames
  BY InRegion
<1>5. QED
  BY <1>1, <1>2, <1>3, <1>4 DEF Reach

LEMMA ReachHoldsPrime == MemInv' => Reach(symrgtbl', pgd', storage')
<1>1. (MemInv => Reach(symrgtbl, pgd, storage))'
  BY ReachHolds, PTL
<1>2. QED
  BY <1>1

LEMMA AddressIs ==
  ASSUME NEW S, NEW G, NEW st, Reach(S, G, st), NEW p \in Procs, NEW r \in Regions
  PROVE  /\ S[p][r].rg_start \in Nat /\ S[p][r].rg_end \in Nat
         /\ Size(S[p][r]) \in Nat
         /\ \A k \in 0 .. Size(S[p][r]) - 1 : S[p][r].rg_start + k \in Bytes(S[p][r])
<1>1. S[p][r] \in RegionType /\ S[p][r].rg_start <= S[p][r].rg_end
  BY DEF Reach
<1>2. S[p][r].rg_start \in Nat /\ S[p][r].rg_end \in Nat
  BY <1>1, RegionNat
<1>3. QED
  BY <1>1, <1>2, BytesIs DEF Size

LEMMA ByteAtIs ==
  ASSUME NEW S, NEW G, NEW st, Reach(S, G, st), NEW p \in Procs, NEW r \in Regions,
         NEW a \in Bytes(S[p][r])
  PROVE  ByteAt(G, p, a) \in 0 .. NumFrames * PAGING_PAGESZ - 1
<1> DEFINE f == G[p][a \div PAGING_PAGESZ]
           o == a % PAGING_PAGESZ
<1>1. f \in Frames /\ a \in Nat
  <2>1. f \in Frames /\ S[p][r] \in RegionType
    BY DEF Reach
  <2>2. QED
    BY <2>1, ByteNat
<1>2. o \in 0 .. PAGING_PAGESZ - 1
  BY <1>1, PageOf
<1>3. f \in Nat /\ f <= NumFrames - 1 /\ NumFrames \in Nat /\ PAGING_PAGESZ \in Nat \ {0}
  BY <1>1, MemoryAssumption DEF Frames
<1>4. ByteAt(G, p, a) = f * PAGING_PAGESZ + o
  BY DEF ByteAt
<1> HIDE DEF f, o
<1>5. f * PAGING_PAGESZ \in Nat
      /\ f * PAGING_PAGESZ + PAGING_PAGESZ <= NumFrames * PAGING_PAGESZ
  BY <1>3
<1>6. QED
  BY <1>2, <1>3, <1>4, <1>5

(* No two addresses that are in regions have the same byte of the RAM.     *)
LEMMA ByteAtOnce ==
  ASSUME NEW S, NEW G, NEW st, Reach(S, G, st),
         NEW p \in Procs, NEW r \in Regions, NEW a \in Bytes(S[p][r]),
         NEW q \in Procs, NEW s \in Regions, NEW b \in Bytes(S[q][s]),
         ByteAt(G, p, a) = ByteAt(G, q, b)
  PROVE  p = q /\ r = s /\ a = b
<1> DEFINE f1 == G[p][a \div PAGING_PAGESZ]
           f2 == G[q][b \div PAGING_PAGESZ]
           o1 == a % PAGING_PAGESZ
           o2 == b % PAGING_PAGESZ
<1>1. a \in Nat /\ b \in Nat
  <2>1. S[p][r] \in RegionType /\ S[q][s] \in RegionType
    BY DEF Reach
  <2>2. QED
    BY <2>1, ByteNat
<1>2. /\ a \div PAGING_PAGESZ \in Pages /\ b \div PAGING_PAGESZ \in Pages
      /\ f1 \in Frames /\ f2 \in Frames
  BY DEF Reach
<1>3. f1 \in Nat /\ f2 \in Nat
  BY <1>2, MemoryAssumption DEF Frames
<1>4. /\ o1 \in 0 .. PAGING_PAGESZ - 1 /\ o2 \in 0 .. PAGING_PAGESZ - 1
      /\ a = PAGING_PAGESZ * (a \div PAGING_PAGESZ) + o1
      /\ b = PAGING_PAGESZ * (b \div PAGING_PAGESZ) + o2
  BY <1>1, PageOf
<1>5. f1 = f2 /\ o1 = o2
  <2>1. f1 * PAGING_PAGESZ + o1 = f2 * PAGING_PAGESZ + o2
    BY DEF ByteAt
  <2> HIDE DEF f1, f2, o1, o2
  <2>2. QED
    BY <1>3, <1>4, <2>1, ByteOfFrame
<1>6. p = q /\ a \div PAGING_PAGESZ = b \div PAGING_PAGESZ
  BY <1>2, <1>5 DEF Reach
<1>7. a = b
  BY <1>4, <1>5, <1>6
<1>8. r = s
  BY <1>1, <1>6, <1>7 DEF Reach
<1>9. QED
  BY <1>6, <1>7, <1>8

LEMMA ContentsTyped ==
  ASSUME NEW S, NEW G, NEW st, Reach(S, G, st), NEW p \in Procs, NEW r \in Regions
  PROVE  Contents(S, G, st, p, r) \in [0 .. Size(S[p][r]) - 1 -> Vals]
<1>1. ASSUME NEW k \in 0 .. Size(S[p][r]) - 1
      PROVE  st[ByteAt(G, p, S[p][r].rg_start + k)] \in Vals
  <2>1. S[p][r].rg_start + k \in Bytes(S[p][r])
    BY AddressIs
  <2>2. ByteAt(G, p, S[p][r].rg_start + k) \in 0 .. NumFrames * PAGING_PAGESZ - 1
    BY <2>1, ByteAtIs
  <2>3. QED
    BY <2>2 DEF Reach
<1>2. QED
  BY <1>1 DEF Contents

LEMMA ContentsSame ==
  ASSUME NEW S, NEW G, NEW st, Reach(S, G, st), NEW S1, NEW G1, NEW st1,
         NEW p \in Procs, NEW r \in Regions, S1[p][r] = S[p][r],
         \A a \in Bytes(S[p][r]) : st1[ByteAt(G1, p, a)] = st[ByteAt(G, p, a)]
  PROVE  Contents(S1, G1, st1, p, r) = Contents(S, G, st, p, r)
<1>1. \A k \in 0 .. Size(S[p][r]) - 1 :
        st1[ByteAt(G1, p, S[p][r].rg_start + k)] = st[ByteAt(G, p, S[p][r].rg_start + k)]
  BY AddressIs
<1>2. QED
  BY <1>1 DEF Contents

LEMMA BarKept ==
  ASSUME NEW S, NEW G, NEW st, NEW S1, NEW G1, NEW st1,
         \A q \in Procs, s \in Regions :
           Contents(S1, G1, st1, q, s) = Contents(S, G, st, q, s)
  PROVE  Bar(S1, G1, st1) = Bar(S, G, st)
  BY DEF Bar

------------------------------------------------------------------------------
(* The steps of Memory and the regions the programs see.                   *)

(* The bytes of the other regions stay: neither their entry, nor the       *)
(* frames of the pages they are on, nor what is in these has changed.      *)
LEMMA OthersKept ==
  ASSUME MemInv, NEW p \in Procs, NEW r \in Regions, storage' = storage,
         symrgtbl'[p][r] = symrgtbl[p][r],
         \A a \in Limits :
           a < vm_end[p] => pgd'[p][a \div PAGING_PAGESZ] = pgd[p][a \div PAGING_PAGESZ]
  PROVE  Contents(symrgtbl', pgd', storage', p, r) = Contents(symrgtbl, pgd, storage, p, r)
<1>1. \A a \in Bytes(symrgtbl[p][r]) :
        storage'[ByteAt(pgd', p, a)] = storage[ByteAt(pgd, p, a)]
  <2> SUFFICES ASSUME NEW a \in Bytes(symrgtbl[p][r])
               PROVE  storage'[ByteAt(pgd', p, a)] = storage[ByteAt(pgd, p, a)]
    OBVIOUS
  <2>1. a \in Limits /\ a < vm_end[p]
    BY InRegion
  <2>2. pgd'[p][a \div PAGING_PAGESZ] = pgd[p][a \div PAGING_PAGESZ]
    BY <2>1
  <2>3. QED
    BY <2>2 DEF ByteAt
<1>2. Reach(symrgtbl, pgd, storage)
  BY ReachHolds
<1>3. QED
  BY <1>1, <1>2, ContentsSame

(* No step changes what is under an address below the end of the area, of  *)
(* this process or another.                                                *)
LEMMA ExtendKeeps ==
  ASSUME MemInv, NEW p \in Procs, NEW size \in Nat, Extend(p, size)
  PROVE  \A q \in Procs, a \in Limits :
           a < vm_end[q] => pgd'[q][a \div PAGING_PAGESZ] = pgd[q][a \div PAGING_PAGESZ]
<1>1. /\ \A q \in Procs : q # p => pgd'[q] = pgd[q]
      /\ \A a \in Limits : a < vm_end[p] =>
           pgd'[p][a \div PAGING_PAGESZ] = pgd[p][a \div PAGING_PAGESZ]
  BY ExtendIs
<1>2. QED
  BY <1>1

LEMMA OneChanges ==
  ASSUME NEW p \in Procs, NEW r \in Regions,
         \A q \in Procs, t \in Regions : ~(q = p /\ t = r) =>
           Contents(symrgtbl', pgd', storage', q, t) = Contents(symrgtbl, pgd, storage, q, t)
  PROVE  Bar(symrgtbl', pgd', storage')
           = [Bar(symrgtbl, pgd, storage) EXCEPT
                ![p][r] = Contents(symrgtbl', pgd', storage', p, r)]
  BY DEF Bar

(* An allocation gives the identifier a region of the size asked for.      *)
LEMMA AllocateStep ==
  ASSUME MemInv, MemInv', NEW p \in Procs, NEW r \in Regions,
         NEW size \in 0..MaxAlloc, NEW s \in Nat,
         Bind(p, r, Region(s, s + size)), storage' = storage,
         \A q \in Procs, a \in Limits :
           a < vm_end[q] => pgd'[q][a \div PAGING_PAGESZ] = pgd[q][a \div PAGING_PAGESZ]
  PROVE  \E bytes \in [0..size-1 -> Vals] :
           Bar(symrgtbl', pgd', storage')
             = [Bar(symrgtbl, pgd, storage) EXCEPT ![p][r] = bytes]
<1> DEFINE bytes == Contents(symrgtbl', pgd', storage', p, r)
<1>1. symrgtbl' = [symrgtbl EXCEPT ![p][r] = Region(s, s + size)]
      /\ symrgtbl \in [Procs -> [Regions -> RegionType]]
  BY DEF Bind, MemInv, AreaTypes
<1>2. symrgtbl'[p][r] = Region(s, s + size)
  BY <1>1
<1>3. \A q \in Procs, t \in Regions : ~(q = p /\ t = r) => symrgtbl'[q][t] = symrgtbl[q][t]
  BY <1>1
<1>4. Size(symrgtbl'[p][r]) = size
  BY <1>2 DEF Size, Region
<1>5. Reach(symrgtbl', pgd', storage')
  BY ReachHoldsPrime
<1>6. bytes \in [0 .. size - 1 -> Vals]
  <2>1. bytes \in [0 .. Size(symrgtbl'[p][r]) - 1 -> Vals]
    BY <1>5, ContentsTyped
  <2> HIDE DEF bytes
  <2>2. QED
    BY <1>4, <2>1
<1>7. \A q \in Procs, t \in Regions : ~(q = p /\ t = r) =>
        Contents(symrgtbl', pgd', storage', q, t) = Contents(symrgtbl, pgd, storage, q, t)
  BY <1>3, OthersKept
<1>8. Bar(symrgtbl', pgd', storage')
        = [Bar(symrgtbl, pgd, storage) EXCEPT ![p][r] = bytes]
  BY <1>7, OneChanges
<1> HIDE DEF bytes
<1>9. QED
  BY <1>6, <1>8

LEMMA ReuseAllocates ==
  ASSUME MemInv, MemInv', NEW p \in Procs, NEW r \in Regions,
         NEW size \in 0..MaxAlloc, AllocFromFreeList(p, r, size)
  PROVE  \E bytes \in [0..size-1 -> Vals] :
           Bar(symrgtbl', pgd', storage')
             = [Bar(symrgtbl, pgd, storage) EXCEPT ![p][r] = bytes]
<1> DEFINE s == vm_freerg_list[p][FirstFit(vm_freerg_list[p], size)].rg_start
<1>1. vm_freerg_list[p] \in Seq(RegionType) /\ size \in Nat
  BY DEF MemInv, AreaTypes
<1>2. FirstFit(vm_freerg_list[p], size) \in DOMAIN vm_freerg_list[p]
  BY <1>1, FirstFitIs DEF AllocFromFreeList
<1>3. s \in Nat
  BY <1>1, <1>2, RegionsNat
<1>4. Bind(p, r, Region(s, s + size)) /\ storage' = storage /\ pgd' = pgd
  BY DEF AllocFromFreeList, ramVars
<1> HIDE DEF s
<1>5. QED
  BY <1>3, <1>4, AllocateStep

LEMMA GrowAllocates ==
  ASSUME MemInv, MemInv', NEW p \in Procs, NEW r \in Regions,
         NEW size \in 0..MaxAlloc, AllocByGrowing(p, r, size)
  PROVE  \E bytes \in [0..size-1 -> Vals] :
           Bar(symrgtbl', pgd', storage')
             = [Bar(symrgtbl, pgd, storage) EXCEPT ![p][r] = bytes]
<1>1. Extend(p, size) /\ Bind(p, r, Region(sbrk[p], sbrk[p] + size))
  BY DEF AllocByGrowing
<1>2. size \in Nat /\ storage' = storage
  BY <1>1 DEF Extend
<1>3. sbrk[p] \in Nat
  BY InvUse
<1>4. \A q \in Procs, a \in Limits :
        a < vm_end[q] => pgd'[q][a \div PAGING_PAGESZ] = pgd[q][a \div PAGING_PAGESZ]
  BY <1>1, <1>2, ExtendKeeps
<1>5. QED
  BY <1>1, <1>2, <1>3, <1>4, AllocateStep

(* A program that grows its area changes none of its regions.              *)
LEMMA IncKeepsBar ==
  ASSUME MemInv, NEW p \in Procs, NEW size \in Nat, IncLimit(p, size)
  PROVE  Bar(symrgtbl', pgd', storage') = Bar(symrgtbl, pgd, storage)
<1>1. symrgtbl' = symrgtbl /\ storage' = storage
  BY DEF IncLimit, Extend
<1>2. \A q \in Procs, a \in Limits :
        a < vm_end[q] => pgd'[q][a \div PAGING_PAGESZ] = pgd[q][a \div PAGING_PAGESZ]
  <2>1. CASE Extend(p, size)
    BY <2>1, ExtendKeeps
  <2>2. CASE ~Extend(p, size)
    BY <2>2 DEF IncLimit
  <2>3. QED
    BY <2>1, <2>2
<1>3. \A q \in Procs, t \in Regions :
        Contents(symrgtbl', pgd', storage', q, t) = Contents(symrgtbl, pgd, storage, q, t)
  BY <1>1, <1>2, OthersKept
<1>4. QED
  BY <1>3, BarKept

(* Freeing an identifier empties its region; it was empty if nothing is    *)
(* done.                                                                   *)
LEMMA FreeReleases ==
  ASSUME MemInv, NEW p \in Procs, NEW r \in Regions, FreeRegion(p, r)
  PROVE  Bar(symrgtbl', pgd', storage')
           = [Bar(symrgtbl, pgd, storage) EXCEPT ![p][r] = [k \in {} |-> 0]]
<1> DEFINE rg == Coalesced(vm_freerg_list[p], symrgtbl[p][r]).rg
<1>1. /\ symrgtbl' = [symrgtbl EXCEPT ![p][r] = AfterFree(symrgtbl[p][r], rg)]
      /\ pgd' = pgd /\ storage' = storage
      /\ symrgtbl \in [Procs -> [Regions -> RegionType]]
  BY DEF FreeRegion, ramVars, MemInv, AreaTypes
<1>2. /\ rg \in RegionType
      /\ \A a \in Int : a \in Bytes(symrgtbl[p][r]) => a \in Bytes(rg)
      /\ symrgtbl[p][r].rg_start <= symrgtbl[p][r].rg_end
  <2>1. AreaOK(vm_freerg_list[p], symrgtbl[p], lost[p], vm_end[p])
    BY InvUse
  <2>2. /\ vm_freerg_list[p] \in Seq(RegionType) /\ Merged(vm_freerg_list[p])
        /\ symrgtbl[p][r] \in RegionType
        /\ symrgtbl[p][r].rg_start <= symrgtbl[p][r].rg_end
    BY <2>1 DEF AreaOK
  <2>3. \A a \in Int : ~(a \in Bytes(symrgtbl[p][r]) /\ Within(vm_freerg_list[p], a))
    BY <2>1 DEF AreaOK, InTable
  <2>4. QED
    BY <2>2, <2>3, CoalescedIs
<1> HIDE DEF rg
<1>3. Size(symrgtbl'[p][r]) = 0
  <2>1. CASE rg.rg_start < rg.rg_end
    BY <1>1, <2>1 DEF AfterFree, Size, Region
  <2>2. CASE ~(rg.rg_start < rg.rg_end)
    <3>1. symrgtbl'[p][r] = symrgtbl[p][r] /\ symrgtbl[p][r] \in RegionType
      BY <1>1, <2>2 DEF AfterFree
    <3>2. \A a \in Int : a \notin Bytes(rg)
      BY <1>2, <2>2, BytesIs, RegionNat
    <3>3. symrgtbl[p][r].rg_start \in Nat /\ symrgtbl[p][r].rg_end \in Nat
      BY <3>1, RegionNat
    <3>4. ~(symrgtbl[p][r].rg_start < symrgtbl[p][r].rg_end)
      BY <1>2, <3>1, <3>2, <3>3, BytesIs
    <3>5. QED
      BY <1>2, <3>1, <3>3, <3>4 DEF Size
  <2>3. QED
    BY <2>1, <2>2
<1>4. \A q \in Procs, t \in Regions :
        ~(q = p /\ t = r) => symrgtbl'[q][t] = symrgtbl[q][t]
  BY <1>1
<1>5. Contents(symrgtbl', pgd', storage', p, r) = [k \in {} |-> 0]
  <2>1. 0 .. Size(symrgtbl'[p][r]) - 1 = {}
    BY <1>3
  <2>2. Contents(symrgtbl', pgd', storage', p, r)
          = [k \in {} |-> storage'[ByteAt(pgd', p, symrgtbl'[p][r].rg_start + k)]]
    BY <2>1 DEF Contents
  <2>3. QED
    BY <2>2
<1>6. \A q \in Procs, t \in Regions : ~(q = p /\ t = r) =>
        Contents(symrgtbl', pgd', storage', q, t) = Contents(symrgtbl, pgd, storage, q, t)
  BY <1>1, <1>4, OthersKept
<1>7. QED
  BY <1>5, <1>6, OneChanges

(* A write changes one byte of one region.                                 *)
LEMMA WriteAssigns ==
  ASSUME MemInv, NEW p \in Procs, NEW r \in Regions, NEW offset \in 0..MaxAlloc-1,
         NEW value \in Vals, Write(p, r, offset, value)
  PROVE  /\ offset \in 0 .. Size(symrgtbl[p][r]) - 1
         /\ Bar(symrgtbl', pgd', storage')
              = [Bar(symrgtbl, pgd, storage) EXCEPT ![p][r][offset] = value]
<1> DEFINE a == symrgtbl[p][r].rg_start + offset
           x == ByteAt(pgd, p, a)
           old == Contents(symrgtbl, pgd, storage, p, r)
           bytes == Contents(symrgtbl', pgd', storage', p, r)
           n == Size(symrgtbl[p][r])
<1>1. Reach(symrgtbl, pgd, storage)
  BY ReachHolds
<1>2. a \in Bytes(symrgtbl[p][r])
  BY DEF Write
<1>3. /\ storage' = [storage EXCEPT ![x] = value]
      /\ symrgtbl' = symrgtbl /\ pgd' = pgd
  BY DEF Write, PhysAddr, ByteAt, areaVars
<1>4. /\ symrgtbl[p][r] \in RegionType
      /\ storage \in [0 .. NumFrames * PAGING_PAGESZ - 1 -> Vals]
  BY <1>1 DEF Reach
<1>5. offset \in 0 .. n - 1
  <2>1. symrgtbl[p][r].rg_start \in Nat /\ symrgtbl[p][r].rg_end \in Nat
    BY <1>4, RegionNat
  <2>2. a < symrgtbl[p][r].rg_end
    BY <1>2, <1>4, BytesIs
  <2>3. QED
    BY <2>1, <2>2 DEF Size
<1>6. x \in DOMAIN storage
  BY <1>1, <1>2, <1>4, ByteAtIs
<1>7. \A q \in Procs, t \in Regions : \A b \in Bytes(symrgtbl[q][t]) :
        ByteAt(pgd, q, b) = x => q = p /\ t = r /\ b = a
  BY <1>1, <1>2, ByteAtOnce
<1> HIDE DEF a, x
<1>8. \A q \in Procs, t \in Regions : ~(q = p /\ t = r) =>
        Contents(symrgtbl', pgd', storage', q, t) = Contents(symrgtbl, pgd, storage, q, t)
  <2> SUFFICES ASSUME NEW q \in Procs, NEW t \in Regions, ~(q = p /\ t = r)
               PROVE  Contents(symrgtbl', pgd', storage', q, t)
                        = Contents(symrgtbl, pgd, storage, q, t)
    OBVIOUS
  <2>1. \A b \in Bytes(symrgtbl[q][t]) :
          storage'[ByteAt(pgd', q, b)] = storage[ByteAt(pgd, q, b)]
    BY <1>3, <1>7
  <2>2. symrgtbl'[q][t] = symrgtbl[q][t]
    BY <1>3
  <2>3. QED
    BY <1>1, <2>1, <2>2, ContentsSame
<1>9. /\ bytes = [k \in 0 .. n - 1 |-> bytes[k]] /\ old = [k \in 0 .. n - 1 |-> old[k]]
      /\ \A k \in 0 .. n - 1 :
           /\ bytes[k] = storage'[ByteAt(pgd, p, symrgtbl[p][r].rg_start + k)]
           /\ old[k] = storage[ByteAt(pgd, p, symrgtbl[p][r].rg_start + k)]
  BY <1>3 DEF Contents
<1>10. bytes[offset] = value
  <2>1. bytes[offset] = storage'[x]
    BY <1>5, <1>9 DEF a, x
  <2>2. QED
    BY <1>3, <1>6, <2>1
<1>11. \A k \in 0 .. n - 1 : k # offset => bytes[k] = old[k]
  <2> SUFFICES ASSUME NEW k \in 0 .. n - 1, k # offset PROVE bytes[k] = old[k]
    OBVIOUS
  <2>1. /\ symrgtbl[p][r].rg_start \in Nat
        /\ symrgtbl[p][r].rg_start + k \in Bytes(symrgtbl[p][r])
    BY <1>1, AddressIs
  <2>2. symrgtbl[p][r].rg_start + k # a
    BY <2>1 DEF a
  <2>3. ByteAt(pgd, p, symrgtbl[p][r].rg_start + k) # x
    BY <1>7, <2>1, <2>2
  <2>4. storage'[ByteAt(pgd, p, symrgtbl[p][r].rg_start + k)]
          = storage[ByteAt(pgd, p, symrgtbl[p][r].rg_start + k)]
    BY <1>3, <2>3
  <2>5. QED
    BY <1>9, <2>4
<1>12. Bar(symrgtbl', pgd', storage')
         = [Bar(symrgtbl, pgd, storage) EXCEPT ![p][r] = bytes]
  BY <1>8, OneChanges
<1>13. Bar(symrgtbl, pgd, storage)[p][r] = old
  BY DEF Bar
<1> HIDE DEF old, bytes, n
<1>14. bytes = [old EXCEPT ![offset] = value]
  BY <1>5, <1>9, <1>10, <1>11
<1>15. QED
  <2>1. [Bar(symrgtbl, pgd, storage) EXCEPT ![p][r][offset] = value]
          = [Bar(symrgtbl, pgd, storage) EXCEPT ![p][r] = [old EXCEPT ![offset] = value]]
    BY <1>13 DEF Bar
  <2>2. QED
    BY <1>5, <1>12, <1>14, <2>1 DEF n

(* A read returns the byte of the region the program sees.                 *)
LEMMA ReadFetches ==
  ASSUME MemInv, NEW p \in Procs, NEW r \in Regions, NEW offset \in 0..MaxAlloc-1,
         ReadByte(p, r, offset)
  PROVE  /\ offset \in DOMAIN storeBar[p][r]
         /\ Read(p, r, offset) = storeBar[p][r][offset]
<1>1. /\ symrgtbl[p][r] \in RegionType
      /\ symrgtbl[p][r].rg_start + offset \in Bytes(symrgtbl[p][r])
  BY DEF ReadByte, MemInv, AreaTypes
<1>2. symrgtbl[p][r].rg_start \in Nat /\ symrgtbl[p][r].rg_end \in Nat
  BY <1>1, RegionNat
<1>3. symrgtbl[p][r].rg_start + offset < symrgtbl[p][r].rg_end
  BY <1>1, BytesIs
<1>4. offset \in 0 .. symrgtbl[p][r].rg_end - symrgtbl[p][r].rg_start - 1
  BY <1>2, <1>3
<1>5. QED
  BY <1>4 DEF storeBar

(* What each call does to the regions the programs see is what             *)
(* ProcessMemory says of that call.                                        *)
LEMMA ProgramsStep ==
  MemInv /\ MemInv' /\ [Next]_<<vars, call>> => [Programs!PMNext]_<<storeBar, call>>
<1> SUFFICES ASSUME MemInv, MemInv', [Next]_<<vars, call>>
             PROVE  Programs!PMNext \/ UNCHANGED <<storeBar, call>>
  OBVIOUS
<1>1. UNCHANGED vars => storeBar' = storeBar
  BY BarIs DEF vars, areaVars, ramVars
<1>2. ASSUME NEW p \in Procs, NEW size \in IncSizes, memmap(p, size)
      PROVE  Programs!GrowArea(p, size)
  <2>1. size \in Nat
    BY MemoryAssumption
  <2>2. storeBar' = storeBar
    BY <1>2, <2>1, IncKeepsBar, BarIs DEF memmap
  <2>3. QED
    BY <1>2, <2>2 DEF memmap, Served, Programs!GrowArea, Programs!Served
<1>3. ASSUME NEW p \in Procs, NEW r \in Regions, NEW size \in 0..MaxAlloc,
             liballoc(p, r, size)
      PROVE  Programs!Allocate(p, r, size)
  <2>1. CASE /\ AllocFromFreeList(p, r, size) \/ AllocByGrowing(p, r, size)
             /\ Served("alloc", p, r, size, 0)
    <3>1. \E bytes \in [0..size-1 -> Vals] : storeBar' = [storeBar EXCEPT ![p][r] = bytes]
      BY <2>1, ReuseAllocates, GrowAllocates, BarIs
    <3>2. QED
      BY <2>1, <3>1 DEF Served, Programs!Allocate, Programs!Served
  <2>2. CASE AllocFails(p, r, size) /\ Served("alloc", p, r, size, -1)
    <3>1. size \in Nat
      OBVIOUS
    <3>2. UNCHANGED vars
      BY <2>2, <3>1, FailsKeeps
    <3>3. QED
      BY <1>1, <2>2, <3>2 DEF Served, Programs!Allocate, Programs!Served
  <2>3. QED
    BY <1>3, <2>1, <2>2 DEF liballoc
<1>4. ASSUME NEW p \in Procs, NEW r \in Regions, libfree(p, r)
      PROVE  Programs!Release(p, r)
  BY <1>4, FreeReleases, BarIs
     DEF libfree, Served, Programs!Release, Programs!NoBytes, Programs!Served
<1>5. ASSUME NEW p \in Procs, NEW r \in Regions, NEW offset \in 0..MaxAlloc-1,
             NEW value \in Vals, libwrite(p, r, offset, value)
      PROVE  Programs!Assign(p, r, offset, value)
  <2>1. /\ offset \in 0 .. Size(symrgtbl[p][r]) - 1
        /\ storeBar' = [storeBar EXCEPT ![p][r][offset] = value]
    BY <1>5, WriteAssigns, BarIs DEF libwrite
  <2>2. DOMAIN storeBar[p][r] = 0 .. Size(symrgtbl[p][r]) - 1
    BY BarIs DEF Bar, Contents
  <2>3. offset \in DOMAIN storeBar[p][r]
    BY <2>1, <2>2
  <2>4. QED
    BY <1>5, <2>1, <2>3 DEF libwrite, Served, Programs!Assign, Programs!Served
<1>6. ASSUME NEW p \in Procs, NEW r \in Regions, NEW offset \in 0..MaxAlloc-1,
             libread(p, r, offset)
      PROVE  Programs!Fetch(p, r, offset)
  <2>1. ReadByte(p, r, offset) /\ storeBar' = storeBar
    BY <1>1, <1>6 DEF libread, ReadByte
  <2>2. QED
    BY <1>6, <2>1, ReadFetches DEF libread, Served, Programs!Fetch, Programs!Served
<1>7. QED
  BY <1>1, <1>2, <1>3, <1>4, <1>5, <1>6 DEF Next, Programs!PMNext

(* Regions, free list, page tables and frames together give each process   *)
(* private regions of the size it asked for: a region changes only when    *)
(* its process allocates, frees or writes that region, a write changes one *)
(* byte, and a read returns that byte.  This is what liballoc, libfree,    *)
(* libwrite and libread promise, with sys_memmap calls in between.         *)
THEOREM MemoryRefinesProcessMemory == Spec => ImplementsProcessMemory
<1>1. Init => Programs!PMInit
  <2> SUFFICES ASSUME Init PROVE Programs!PMInit
    OBVIOUS
  <2>1. \A p \in Procs, r \in Regions : symrgtbl[p][r] = Region(0, 0)
    BY DEF Init
  <2>2. \A p \in Procs, r \in Regions :
          Contents(symrgtbl, pgd, storage, p, r) = [k \in {} |-> 0]
    <3> SUFFICES ASSUME NEW p \in Procs, NEW r \in Regions
                 PROVE  Contents(symrgtbl, pgd, storage, p, r) = [k \in {} |-> 0]
      OBVIOUS
    <3>1. 0 .. Size(symrgtbl[p][r]) - 1 = {}
      BY <2>1 DEF Size, Region
    <3>2. Contents(symrgtbl, pgd, storage, p, r)
            = [k \in {} |-> storage[ByteAt(pgd, p, symrgtbl[p][r].rg_start + k)]]
      BY <3>1 DEF Contents
    <3>3. QED
      BY <3>2
  <2>3. Bar(symrgtbl, pgd, storage) = [p \in Procs |-> [r \in Regions |-> [k \in {} |-> 0]]]
    BY <2>2 DEF Bar
  <2>4. QED
    BY <2>3, BarIs DEF Init, Programs!PMInit, Programs!NoBytes
<1>2. QED
  BY <1>1, ProgramsStep, MemInvariant, PTL DEF Spec, ImplementsProcessMemory, Programs!PMSpec

==============================================================================
