-------------------------- MODULE RateLimiterProofs --------------------------
(***************************************************************************)
(* The limiter is type correct, implements the abstract bucket, therefore  *)
(* keeps the bucket's bound on every window, and lets nobody oversleep:    *)
(* for any number of tasks and any Capacity, Cost and Window.              *)
(***************************************************************************)
EXTENDS RateLimiter, TLAPS

(* The bucket with the refill it owes, and the theorem about it. *)
Abstract == INSTANCE TokenBucketProofs WITH credit <- Refilled

LEMMA AbstractAssumption == Abstract!BucketAssumption
  BY LimiterAssumption DEF Abstract!BucketAssumption

LEMMA FullIsNat == Full \in Nat /\ Full >= Cost
  BY Abstract!FullIsNat, AbstractAssumption DEF Full, Abstract!Full

(* What the refill leaves in the bucket. *)
LEMMA RefilledType ==
  ASSUME TypeOK
  PROVE  /\ Refilled \in 0 .. Full
         /\ tokens <= Refilled
  BY FullIsNat DEF TypeOK, Refilled

(* Every step preserves the types. *)
LEMMA TypeInductive == TypeOK /\ [Next]_vars => TypeOK'
  <1> SUFFICES ASSUME TypeOK, [Next]_vars
               PROVE  TypeOK'
    OBVIOUS
  <1> USE LimiterAssumption, FullIsNat
  <1>1. ASSUME NEW t \in Tasks, Check(t)
        PROVE  TypeOK'
    <2>1. CASE Take(t)
      BY <2>1, RefilledType DEF Take, TypeOK, Full
    <2>2. CASE Sleep(t)
      BY <2>2, RefilledType DEF Sleep, SleepTime, TypeOK, Full
    <2>3. QED
      BY <1>1, <2>1, <2>2 DEF Check
  <1>2. ASSUME NEW t \in Tasks, Cancel(t)
        PROVE  TypeOK'
    BY <1>2 DEF Cancel, TypeOK, Full
  <1>3. CASE Tick
    BY <1>3 DEF Tick, TypeOK, Full
  <1>4. CASE OpenWindow
    BY <1>4 DEF OpenWindow, TypeOK, Full
  <1>5. CASE UNCHANGED vars
    BY <1>5 DEF vars, TypeOK, Full
  <1>6. QED
    BY <1>1, <1>2, <1>3, <1>4, <1>5 DEF Next, Call, Wake

(* The limiter's state stays in range. *)
THEOREM TypeCorrect == Spec => []TypeOK
  <1>1. Init => TypeOK
    BY FullIsNat, LimiterAssumption DEF Init, TypeOK
  <1>2. QED
    BY <1>1, TypeInductive, PTL DEF Spec

(* A task that goes to sleep, or is cancelled, moves no credit. *)
LEMMA StepRefines == TypeOK /\ [Next]_vars => [Bucket!Next]_(Bucket!vars)
  <1> SUFFICES ASSUME TypeOK, [Next]_vars
               PROVE  [Bucket!Next]_(Bucket!vars)
    OBVIOUS
  <1> USE LimiterAssumption, FullIsNat, RefilledType
  <1>0. TypeOK'
    BY TypeInductive
  <1>1. ASSUME NEW t \in Tasks, Take(t)
        PROVE  Bucket!Grant
    BY <1>0, <1>1
       DEF Take, TypeOK, Refilled, Full, Bucket!Grant
  <1>2. ASSUME NEW t \in Tasks, Sleep(t)
        PROVE  UNCHANGED Bucket!vars
    BY <1>0, <1>2
       DEF Sleep, TypeOK, Refilled, Full, Bucket!vars
  <1>3. ASSUME NEW t \in Tasks, Cancel(t)
        PROVE  UNCHANGED Bucket!vars
    BY <1>3 DEF Cancel, Refilled, Full, Bucket!vars
  <1>4. CASE Tick
    <2>1. Bucket!Elapse
      BY <1>4 DEF Tick, TypeOK, Refilled, Full, Bucket!Elapse, Bucket!Full
    <2>2. QED
      BY <2>1 DEF Bucket!Next
  <1>5. CASE OpenWindow
    <2>1. Bucket!OpenWindow
      BY <1>5 DEF OpenWindow, Refilled, Full, Bucket!OpenWindow
    <2>2. QED
      BY <2>1 DEF Bucket!Next
  <1>6. CASE UNCHANGED vars
    BY <1>6 DEF vars, Refilled, Full, Bucket!vars
  <1>7. QED
    BY <1>1, <1>2, <1>3, <1>4, <1>5, <1>6
       DEF Next, Call, Wake, Check, Bucket!Next

(* The limiter implements the abstract bucket: its lazy refill, its sleeps *)
(* and its cancellations are not to be seen from outside.                  *)
THEOREM Implements == Spec => BucketSpec
  <1>1. Init => Bucket!Init
    BY FullIsNat DEF Init, Bucket!Init, Refilled, Full, Bucket!Full
  <1>2. QED
    BY <1>1, StepRefines, TypeCorrect, PTL DEF Spec, BucketSpec, Bucket!Spec

(* In any stretch of wlen ticks the limiter grants at most a full bucket   *)
(* plus what those ticks earn.                                             *)
THEOREM WindowBounded == Spec => []WindowBound
  <1>1. BucketSpec => []Abstract!WindowInv
    <2>1. Bucket!Init => Abstract!Init
      BY DEF Bucket!Init, Abstract!Init, Bucket!Full, Abstract!Full
    <2>2. [Bucket!Next]_(Bucket!vars) => [Abstract!Next]_(Abstract!vars)
      BY DEF Bucket!Next, Bucket!vars, Bucket!Grant, Bucket!Elapse,
             Bucket!OpenWindow, Bucket!Full,
             Abstract!Next, Abstract!vars, Abstract!Grant, Abstract!Elapse,
             Abstract!OpenWindow, Abstract!Full
    <2>3. Abstract!Spec => []Abstract!WindowInv
      BY Abstract!BucketWindowBound, AbstractAssumption
    <2>4. QED
      BY <2>1, <2>2, <2>3, PTL DEF BucketSpec, Bucket!Spec, Abstract!Spec
  <1>2. Abstract!WindowInv => WindowBound
    BY DEF Abstract!WindowInv, Abstract!WindowBound, WindowBound, Full,
           Abstract!Full
  <1>3. QED
    BY <1>1, <1>2, Implements, PTL

(* The refill a step makes, or time, changes what the bucket holds. *)
LEMMA SleepInductive ==
  TypeOK /\ TypeOK' /\ NoOversleep /\ [Next]_vars => NoOversleep'
  <1> SUFFICES ASSUME TypeOK, TypeOK', NoOversleep, [Next]_vars,
                      NEW u \in Asleep'
               PROVE  Refilled' + left'[u] <= Cost \/ left'[u] = 0
    BY DEF NoOversleep
  <1> USE LimiterAssumption, FullIsNat, RefilledType
  <1>0. /\ u \in Tasks /\ pc'[u] = "asleep"
        /\ left[u] \in 0 .. Cost
        /\ Refilled \in 0 .. Full
    BY DEF Asleep, TypeOK
  <1>1. pc[u] = "asleep" => Refilled + left[u] <= Cost \/ left[u] = 0
    BY <1>0 DEF NoOversleep, Asleep
  <1>2. ASSUME NEW t \in Tasks, Take(t)
        PROVE  Refilled' + left'[u] <= Cost \/ left'[u] = 0
    <2>1. t # u /\ pc[u] = "asleep" /\ left'[u] = left[u]
      BY <1>0, <1>2 DEF Take, TypeOK
    <2>2. Refilled' = Refilled - Cost
      BY <1>0, <1>2 DEF Take, TypeOK, Refilled, Full
    <2>3. QED
      BY <1>0, <1>1, <2>1, <2>2
  <1>3. ASSUME NEW t \in Tasks, Sleep(t)
        PROVE  Refilled' + left'[u] <= Cost \/ left'[u] = 0
    <2>1. Refilled' = Refilled
      BY <1>0, <1>3 DEF Sleep, TypeOK, Refilled, Full
    <2>2. CASE t = u
      <3>1. left'[u] = Cost - Refilled
        BY <1>0, <1>3, <2>2 DEF Sleep, SleepTime, TypeOK
      <3>2. QED
        BY <1>0, <2>1, <3>1
    <2>3. CASE t # u
      <3>1. pc[u] = "asleep" /\ left'[u] = left[u]
        BY <1>0, <1>3, <2>3 DEF Sleep, TypeOK
      <3>2. QED
        BY <1>1, <2>1, <3>1
    <2>4. QED
      BY <2>2, <2>3
  <1>4. ASSUME NEW t \in Tasks, Cancel(t)
        PROVE  Refilled' + left'[u] <= Cost \/ left'[u] = 0
    <2>1. t # u /\ pc[u] = "asleep" /\ left'[u] = left[u]
      BY <1>0, <1>4 DEF Cancel, TypeOK
    <2>2. Refilled' = Refilled
      BY <1>4 DEF Cancel, Refilled, Full
    <2>3. QED
      BY <1>1, <2>1, <2>2
  <1>5. CASE Tick
    <2>1. Refilled' <= Refilled + 1 /\ Refilled' \in Int
      BY <1>0, <1>5 DEF Tick, TypeOK, Refilled, Full
    <2>2. pc[u] = "asleep"
      BY <1>0, <1>5 DEF Tick
    <2>3. left'[u] = IF left[u] > 0 THEN left[u] - 1 ELSE 0
      BY <1>0, <1>5 DEF Tick
    <2>4. QED
      BY <1>0, <1>1, <2>1, <2>2, <2>3
  <1>6. CASE OpenWindow
    BY <1>0, <1>1, <1>6 DEF OpenWindow, Refilled, Full
  <1>7. CASE UNCHANGED vars
    BY <1>0, <1>1, <1>7 DEF vars, Refilled, Full
  <1>8. QED
    BY <1>2, <1>3, <1>4, <1>5, <1>6, <1>7 DEF Next, Call, Wake, Check

(* Nobody sleeps past a token: whoever is overtaken sleeps too short,      *)
(* never too long.                                                         *)
THEOREM NobodyOversleeps == Spec => []NoOversleep
  <1>1. Init => NoOversleep
    BY DEF Init, NoOversleep, Asleep
  <1>2. QED
    BY <1>1, SleepInductive, TypeCorrect, PTL DEF Spec
==============================================================================
