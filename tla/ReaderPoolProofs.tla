-------------------------- MODULE ReaderPoolProofs --------------------------
(***************************************************************************)
(* The readers handed out by the pool are never shared and always read the *)
(* stream of the scanner that holds them, for any number of goroutines,    *)
(* any buffer sizes and any interleaving.                                  *)
(***************************************************************************)
EXTENDS ReaderPool, TLAPS

(* Alloc takes a reader nobody knows of: the readers in the pool and those  *)
(* being held are allocated ones.  This strengthening makes Exclusive       *)
(* inductive.                                                               *)
Allocated ==
    /\ \A r \in pool : size[r] # 0
    /\ \A g \in Goroutines : Holds(g) => size[held[g]] # 0

IInv == TypeOK /\ Exclusive /\ Allocated /\ OwnStream

(* The variables keep their types whatever getReader and Release do. *)
LEMMA PoolTypeStep == TypeOK /\ Exclusive /\ [Next]_vars => TypeOK'
<1> SUFFICES ASSUME TypeOK, Exclusive, [Next]_vars PROVE TypeOK'
  OBVIOUS
<1> USE PoolAssumption DEF TypeOK
<1>1. ASSUME NEW g \in Goroutines, Get(g) PROVE TypeOK'
  BY <1>1 DEF Get
<1>2. ASSUME NEW g \in Goroutines, PutBack(g) PROVE TypeOK'
  BY <1>2 DEF PutBack, Exclusive, Holds
<1>3. ASSUME NEW g \in Goroutines, Reset(g) PROVE TypeOK'
  BY <1>3 DEF Reset, Exclusive, Holds, Stream
<1>4. ASSUME NEW g \in Goroutines, Alloc(g) PROVE TypeOK'
  BY <1>4 DEF Alloc, Free, Stream
<1>5. ASSUME NEW g \in Goroutines, Release(g) PROVE TypeOK'
  BY <1>5 DEF Release, Exclusive, Holds
<1>6. CASE Collect
  BY <1>6 DEF Collect
<1>7. CASE UNCHANGED vars
  BY <1>7 DEF vars
<1> QED
  BY <1>1, <1>2, <1>3, <1>4, <1>5, <1>6, <1>7 DEF Next

(* Get takes a reader out of the pool before anyone refers to it, and a     *)
(* reader enters the pool only when its one holder lets go of it.           *)
LEMMA ExclusiveStep ==
    TypeOK /\ Exclusive /\ Allocated /\ [Next]_vars => Exclusive' /\ Allocated'
<1> SUFFICES ASSUME TypeOK, Exclusive, Allocated, [Next]_vars
             PROVE  Exclusive' /\ Allocated'
  OBVIOUS
<1> USE PoolAssumption DEF TypeOK, Exclusive, Allocated, Holds
<1>1. ASSUME NEW g \in Goroutines, Get(g) PROVE Exclusive' /\ Allocated'
  BY <1>1 DEF Get
<1>2. ASSUME NEW g \in Goroutines, PutBack(g) PROVE Exclusive' /\ Allocated'
  BY <1>2 DEF PutBack
<1>3. ASSUME NEW g \in Goroutines, Reset(g) PROVE Exclusive' /\ Allocated'
  BY <1>3 DEF Reset
<1>4. ASSUME NEW g \in Goroutines, Alloc(g) PROVE Exclusive' /\ Allocated'
  BY <1>4 DEF Alloc, Free
<1>5. ASSUME NEW g \in Goroutines, Release(g) PROVE Exclusive' /\ Allocated'
  BY <1>5 DEF Release
<1>6. CASE Collect
  BY <1>6 DEF Collect
<1>7. CASE UNCHANGED vars
  BY <1>7 DEF vars
<1> QED
  BY <1>1, <1>2, <1>3, <1>4, <1>5, <1>6, <1>7 DEF Next

(* Only the holder of a reader changes what it reads from or its size. *)
LEMMA OwnStreamStep ==
    IInv /\ [Next]_vars => OwnStream'
<1> SUFFICES ASSUME TypeOK, Exclusive, Allocated, OwnStream, [Next]_vars PROVE OwnStream'
  BY DEF IInv
<1> USE PoolAssumption DEF TypeOK, OwnStream, Stream
<1>1. ASSUME NEW g \in Goroutines, Get(g) PROVE OwnStream'
  BY <1>1 DEF Get
<1>2. ASSUME NEW g \in Goroutines, PutBack(g) PROVE OwnStream'
  BY <1>2 DEF PutBack
<1>3. ASSUME NEW g \in Goroutines, Reset(g) PROVE OwnStream'
  BY <1>3 DEF Reset, Exclusive, Holds
<1>4. ASSUME NEW g \in Goroutines, Alloc(g) PROVE OwnStream'
  BY <1>4 DEF Alloc, Free, Allocated, Exclusive, Holds
<1>5. ASSUME NEW g \in Goroutines, Release(g) PROVE OwnStream'
  BY <1>5 DEF Release
<1>6. CASE Collect
  BY <1>6 DEF Collect, Exclusive, Holds
<1>7. CASE UNCHANGED vars
  BY <1>7 DEF vars
<1> QED
  BY <1>1, <1>2, <1>3, <1>4, <1>5, <1>6, <1>7 DEF Next

(* All parts of the invariant hold in every reachable state. *)
LEMMA PoolInvariant == Spec => []IInv
<1>1. Init => IInv
  BY PoolAssumption
     DEF Init, IInv, TypeOK, Exclusive, Allocated, OwnStream, Holds, None
<1>2. IInv /\ [Next]_vars => IInv'
  BY PoolTypeStep, ExclusiveStep, OwnStreamStep DEF IInv
<1> QED
  BY <1>1, <1>2, PTL DEF Spec

(* No reader is ever held by two goroutines, nor both held and pooled       *)
(* (getReader, putReader and Release of octetcounting/scanner.go).          *)
THEOREM ReadersAreExclusive == Spec => []Exclusive
  BY PoolInvariant, PTL DEF IInv

(* A scanner only ever reads its own stream, through a buffer at least as   *)
(* large as the one it asked getReader for.                                 *)
THEOREM ScannersReadTheirOwnStream == Spec => []OwnStream
  BY PoolInvariant, PTL DEF IInv
=============================================================================
