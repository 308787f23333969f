----------------------------- MODULE RateLimiter -----------------------------
(***************************************************************************)
(* AsyncRateLimiter (rate_limiter.py): the token bucket that every         *)
(* coordinator of the integration shares through hass.data.                *)
(*                                                                         *)
(* The lock is held only over code with no await in it, and is released    *)
(* around the one asyncio.sleep, so on the event loop it is never          *)
(* contended: one pass of the while loop is one atomic step, Check.        *)
(*                                                                         *)
(* Time is relative and in ticks: `elapsed` is loop.time() minus           *)
(* _last_refill, and amounts of tokens are counted in the ticks that earn  *)
(* them (a whole token is Cost ticks).  The rounding of floats is left     *)
(* out.  `elapsed` stops at Full, which changes nothing: the refill takes  *)
(* the minimum with Full.                                                  *)
(***************************************************************************)
EXTENDS Integers

CONSTANTS
  Tasks,     \* the coroutines that call acquire(): coordinators' updates
  Capacity,  \* capacity: 24 in the integration
  Cost,      \* 1 / refill_rate in ticks
  Window     \* the longest stretch the observer counts grants over

ASSUME LimiterAssumption ==
  /\ Capacity \in Nat \ {0}
  /\ Cost \in Nat \ {0}
  /\ Window \in Nat

VARIABLES
  tokens,   \* _tokens, in ticks of credit
  elapsed,  \* time since _last_refill
  pc,       \* per task: "idle" (not in acquire) or "asleep" (in asyncio.sleep)
  left,     \* per task: what is left of its wait_seconds
  wcount,   \* the observer: requests granted since its window opened
  wlen      \* the observer: how long the window has been open

vars == <<tokens, elapsed, pc, left, wcount, wlen>>

Full == Capacity * Cost

Asleep == {t \in Tasks : pc[t] = "asleep"}

Init ==
  /\ tokens = Full
  /\ elapsed = 0
  /\ pc = [t \in Tasks |-> "idle"]
  /\ left = [t \in Tasks |-> 0]
  /\ wcount = 0
  /\ wlen = 0

RefilledUncapped == tokens + elapsed
(* The bucket as it is at this moment: the lazy refill the next check makes. *)
Refilled == IF tokens + elapsed < Full THEN tokens + elapsed ELSE Full

SleepOneToken == Cost
SleepTime == Cost - Refilled

(* The refill finds a whole token: consume it and return from acquire().   *)
Take(t) ==
  /\ Refilled >= Cost
  /\ tokens' = Refilled - Cost
  /\ elapsed' = 0
  /\ pc' = [pc EXCEPT ![t] = "idle"]
  /\ wcount' = IF wlen < Window THEN wcount + 1 ELSE wcount
  /\ UNCHANGED <<left, wlen>>

(* It does not: sleep for as long as the rest of the token takes to earn.  *)
Sleep(t) ==
  /\ Refilled < Cost
  /\ tokens' = Refilled
  /\ elapsed' = 0
  /\ pc' = [pc EXCEPT ![t] = "asleep"]
  /\ left' = [left EXCEPT ![t] = SleepTime]
  /\ UNCHANGED <<wcount, wlen>>

CheckTakesEarly(t) ==
  \/ /\ Refilled > 0
     /\ tokens' = Refilled - Cost
     /\ elapsed' = 0
     /\ pc' = [pc EXCEPT ![t] = "idle"]
     /\ wcount' = IF wlen < Window THEN wcount + 1 ELSE wcount
     /\ UNCHANGED <<left, wlen>>
  \/ Refilled = 0 /\ Sleep(t)

CheckKeepsStamp(t) ==
  \/ /\ Refilled >= Cost
     /\ tokens' = Refilled - Cost
     /\ pc' = [pc EXCEPT ![t] = "idle"]
     /\ wcount' = IF wlen < Window THEN wcount + 1 ELSE wcount
     /\ UNCHANGED <<elapsed, left, wlen>>
  \/ Sleep(t)

CheckDropsRefill(t) ==
  \/ Take(t)
  \/ /\ Refilled < Cost
     /\ elapsed' = 0
     /\ pc' = [pc EXCEPT ![t] = "asleep"]
     /\ left' = [left EXCEPT ![t] = SleepTime]
     /\ UNCHANGED <<tokens, wcount, wlen>>

(* One pass of the while loop in acquire(). *)
Check(t) == Take(t) \/ Sleep(t)

(* A coroutine calls acquire(). *)
Call(t) ==
  /\ pc[t] = "idle"
  /\ Check(t)

(* Its sleep is over, perhaps late: it takes the lock back and loops. *)
Wake(t) ==
  /\ pc[t] = "asleep"
  /\ left[t] = 0
  /\ Check(t)

(* The task is cancelled in its sleep: the finally clause takes the lock   *)
(* back and the exception leaves acquire().                                *)
Cancel(t) ==
  /\ pc[t] = "asleep"
  /\ pc' = [pc EXCEPT ![t] = "idle"]
  /\ left' = [left EXCEPT ![t] = 0]
  /\ UNCHANGED <<tokens, elapsed, wcount, wlen>>

(* The clock: the loop's time advances by a tick. *)
Tick ==
  /\ elapsed' = IF elapsed < Full THEN elapsed + 1 ELSE elapsed
  /\ left' = [t \in Tasks |-> IF left[t] > 0 THEN left[t] - 1 ELSE 0]
  /\ wlen' = IF wlen < Window THEN wlen + 1 ELSE wlen
  /\ UNCHANGED <<tokens, pc, wcount>>

(* The observer starts counting: any moment will do. *)
OpenWindow ==
  /\ wcount' = 0
  /\ wlen' = 0
  /\ UNCHANGED <<tokens, elapsed, pc, left>>

Next ==
  \/ \E t \in Tasks : Call(t) \/ Wake(t) \/ Cancel(t)
  \/ Tick
  \/ OpenWindow

Spec == Init /\ [][Next]_vars

(* Time passes, and the event loop runs a timer that is due.  Nothing is   *)
(* assumed of the callers.                                                 *)
Fairness == WF_vars(Tick) /\ \A t \in Tasks : WF_vars(Wake(t))

FairSpec == Spec /\ Fairness

------------------------------------------------------------------------------

TypeOK ==
  /\ tokens \in 0 .. Full
  /\ elapsed \in 0 .. Full
  /\ pc \in [Tasks -> {"idle", "asleep"}]
  /\ left \in [Tasks -> 0 .. Cost]
  /\ wcount \in Nat
  /\ wlen \in 0 .. Window

(* However its callers interleave, are cancelled or wake late, the limiter *)
(* grants in any stretch of wlen ticks at most a full bucket plus what     *)
(* those ticks earn.                                                       *)
WindowBound == wcount * Cost <= Full + wlen

(* Nobody sleeps past a token: once the bucket holds a whole one, the      *)
(* sleep of every waiting coroutine is over.  Others may have taken tokens *)
(* since it went to sleep; its wait_seconds never becomes too long.        *)
NoOversleep == \A t \in Asleep : Refilled + left[t] <= Cost \/ left[t] = 0

(* rate_limiter.py:3-5, and README.md:18: 24 requests per 60 seconds across *)
(* all endpoints.  24 tokens are earned in 60 s, so the documented period  *)
(* is Full ticks.                                                          *)
DocumentedBudget == wlen < Full => wcount <= Capacity

(* While somebody waits, the budget keeps being handed out: a waiter can   *)
(* be overtaken by a later caller (the queue is not fair), but not by      *)
(* nobody.                                                                 *)
BudgetFlows ==
  <>[](Asleep # {}) => []<><<\E t \in Tasks : Take(t)>>_vars

(* The lazy refill, the sleeps and the cancellations are invisible: the    *)
(* limiter is the abstract bucket, with the refill it owes included.       *)
Bucket == INSTANCE TokenBucket WITH credit <- Refilled

BucketSpec == Bucket!Spec
==============================================================================
