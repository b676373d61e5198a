---------------------------- MODULE ProcessMemory ----------------------------
(***************************************************************************)
(* What libmem.c promises to the programs: every process has regions of    *)
(* its own, a region keeps what was written to it until it is freed or     *)
(* allocated again, and nothing done to another region, or by another      *)
(* process, changes it.  Every step serves one call and does to the        *)
(* regions what that call asks for, no more.  Module Memory implements     *)
(* this specification.                                                     *)
(***************************************************************************)
EXTENDS Integers

CONSTANTS Procs,
          Regions,      \* region identifiers, the registers of the program
          Vals,         \* what a byte can hold
          MaxAlloc,     \* largest size asked for
          IncSizes      \* sizes programs ask of sys_memmap themselves

VARIABLES store,        \* store[p][r][k] is byte k of region r of process p
          call          \* the call served last, with its result

NoBytes == [k \in {} |-> 0]

(* The call op of process p, about identifier r, with a size or an offset  *)
(* n; v is the byte written or read, or what an allocation returns.        *)
Served(op, p, r, n, v) == call' = <<op, p, r, n, v>>

PMInit ==
  /\ store = [p \in Procs |-> [r \in Regions |-> NoBytes]]
  /\ call = <<>>

(* A new region has the size asked for and holds anything: memory is not   *)
(* cleared.  An allocation that fails changes nothing.                     *)
Allocate(p, r, n) ==
  \/ /\ Served("alloc", p, r, n, 0)
     /\ \E bytes \in [0..n-1 -> Vals] : store' = [store EXCEPT ![p][r] = bytes]
  \/ Served("alloc", p, r, n, -1) /\ UNCHANGED store

Release(p, r) ==
  /\ Served("free", p, r, 0, 0)
  /\ store' = [store EXCEPT ![p][r] = NoBytes]

Assign(p, r, k, v) ==
  /\ k \in DOMAIN store[p][r]
  /\ Served("write", p, r, k, v)
  /\ store' = [store EXCEPT ![p][r][k] = v]

Fetch(p, r, k) ==
  /\ k \in DOMAIN store[p][r]
  /\ Served("read", p, r, k, store[p][r][k])
  /\ UNCHANGED store

(* A process that grows its area itself gets no region by it.              *)
GrowArea(p, n) == Served("memmap", p, 0, n, 0) /\ UNCHANGED store

PMNext ==
  \E p \in Procs :
    \/ \E n \in IncSizes : GrowArea(p, n)
    \/ \E r \in Regions :
         \/ \E n \in 0..MaxAlloc : Allocate(p, r, n)
         \/ Release(p, r)
         \/ \E k \in 0..MaxAlloc-1 : Fetch(p, r, k) \/ \E v \in Vals : Assign(p, r, k, v)

PMSpec == PMInit /\ [][PMNext]_<<store, call>>

==============================================================================
