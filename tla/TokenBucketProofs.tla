-------------------------- MODULE TokenBucketProofs --------------------------
(***************************************************************************)
(* The abstract bucket never lets a window exceed a full bucket plus what  *)
(* the window's time earns, for every Capacity, Cost and Window.           *)
(***************************************************************************)
EXTENDS TokenBucket, TLAPS

(* A full bucket is a natural number of ticks and holds a whole token. *)
LEMMA FullIsNat ==
  ASSUME BucketAssumption
  PROVE  Full \in Nat /\ Full >= Cost
  <1> DEFINE c == Capacity - 1
  <1>1. c \in Nat /\ Capacity = c + 1
    BY DEF BucketAssumption
  <1> HIDE DEF c
  <1>2. (c + 1) * Cost = c * Cost + Cost /\ c * Cost \in Nat
    BY <1>1 DEF BucketAssumption
  <1>3. QED
    BY <1>1, <1>2 DEF BucketAssumption, Full

(* One more request adds one Cost. *)
LEMMA OneMore ==
  ASSUME BucketAssumption, NEW n \in Nat
  PROVE  /\ n * Cost \in Nat
         /\ (n + 1) * Cost = n * Cost + Cost
  BY DEF BucketAssumption

(* Every step of the bucket keeps WindowInv. *)
LEMMA WindowInductive ==
  ASSUME BucketAssumption
  PROVE  WindowInv /\ [Next]_vars => WindowInv'
  <1> SUFFICES ASSUME WindowInv, [Next]_vars
               PROVE  WindowInv'
    OBVIOUS
  <1> USE FullIsNat DEF BucketAssumption
  <1>0. /\ credit \in Int /\ 0 <= credit /\ credit <= Full
        /\ wlen \in Int /\ 0 <= wlen /\ wlen <= Window
        /\ wcount \in Nat /\ wcount * Cost \in Nat
    BY OneMore DEF WindowInv, TypeOK
  <1>1. CASE OpenWindow
    <2>1. wcount' * Cost = 0
      BY <1>1 DEF OpenWindow
    <2>2. QED
      BY <1>0, <1>1, <2>1 DEF OpenWindow, WindowInv, TypeOK, WindowBound, Full
  <1>2. CASE Elapse
    <2>1. wcount' * Cost = wcount * Cost
      BY <1>2 DEF Elapse
    <2>2. QED
      BY <1>0, <1>2, <2>1 DEF Elapse, WindowInv, TypeOK, WindowBound, Full
  <1>3. CASE Grant
    <2>1. CASE wlen < Window
      <3>1. wcount' * Cost = wcount * Cost + Cost
        BY <1>0, <1>3, <2>1, OneMore DEF Grant
      <3>2. QED
        BY <1>0, <1>3, <2>1, <3>1
           DEF Grant, WindowInv, TypeOK, WindowBound, Full
    <2>2. CASE ~(wlen < Window)
      BY <1>0, <1>3, <2>2 DEF Grant, WindowInv, TypeOK, WindowBound, Full
    <2>3. QED
      BY <2>1, <2>2
  <1>4. CASE UNCHANGED vars
    BY <1>4 DEF vars, WindowInv, TypeOK, WindowBound, Full
  <1>5. QED
    BY <1>1, <1>2, <1>3, <1>4 DEF Next

(* In any stretch of time the bucket grants at most its burst plus what    *)
(* that time earns: the promise rate_limiter.acquire can really make.      *)
THEOREM BucketWindowBound ==
  ASSUME BucketAssumption
  PROVE  Spec => []WindowInv
  <1>1. Init => WindowInv
    BY FullIsNat
       DEF BucketAssumption, Init, WindowInv, TypeOK, WindowBound, Full
  <1>2. QED
    BY <1>1, WindowInductive, PTL DEF Spec
==============================================================================
