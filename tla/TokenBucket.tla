----------------------------- MODULE TokenBucket -----------------------------
(***************************************************************************)
(* What AsyncRateLimiter promises, without its mechanism: a bucket of      *)
(* credit that time fills and grants empty, and an observer that counts    *)
(* the grants of one stretch of time.  There are no callers, no lazy       *)
(* refill and no sleeping here: module RateLimiter has those and           *)
(* implements this one.                                                    *)
(*                                                                         *)
(* Time is counted in ticks.  A request costs Cost ticks of credit (the    *)
(* code's 1 / refill_rate) and the bucket holds Capacity requests.         *)
(***************************************************************************)
EXTENDS Integers

CONSTANTS
  Capacity,  \* the burst: 24 in the integration
  Cost,      \* ticks of credit one request costs: 2.5 s in the integration
  Window     \* the longest stretch, in ticks, the observer counts over

(* What the theorem about this module assumes; the limiter's own constants *)
(* are assumed to satisfy it.                                              *)
BucketAssumption ==
  /\ Capacity \in Nat \ {0}
  /\ Cost \in Nat \ {0}
  /\ Window \in Nat

VARIABLES
  credit,  \* ticks of credit in the bucket
  wcount,  \* requests granted since the observer's window opened
  wlen     \* how long that window has been open; it closes at Window

vars == <<credit, wcount, wlen>>

Full == Capacity * Cost

Init ==
  /\ credit = Full
  /\ wcount = 0
  /\ wlen = 0

(* The observer may start counting at any moment. *)
OpenWindow ==
  /\ wcount' = 0
  /\ wlen' = 0
  /\ UNCHANGED credit

Elapse ==
  /\ credit' = IF credit < Full THEN credit + 1 ELSE credit
  /\ wlen' = IF wlen < Window THEN wlen + 1 ELSE wlen
  /\ UNCHANGED wcount

Grant ==
  /\ credit >= Cost
  /\ credit' = credit - Cost
  /\ wcount' = IF wlen < Window THEN wcount + 1 ELSE wcount
  /\ UNCHANGED wlen

Next == OpenWindow \/ Elapse \/ Grant

Spec == Init /\ [][Next]_vars

TypeOK ==
  /\ credit \in 0 .. Full
  /\ wcount \in Nat
  /\ wlen \in 0 .. Window

(* In no stretch of wlen ticks are more requests granted than a full      *)
(* bucket plus what those ticks earn: the bound rate_limiter.acquire      *)
(* really enforces (a full burst AND the refill), whenever the stretch    *)
(* begins.                                                                *)
WindowBound == wcount * Cost <= Full + wlen

(* The strengthening that makes WindowBound inductive: while the window   *)
(* is open, the credit still in the bucket also fits under the bound.     *)
WindowInv ==
  /\ TypeOK
  /\ WindowBound
  /\ wlen < Window => wcount * Cost + credit <= Full + wlen
==============================================================================
