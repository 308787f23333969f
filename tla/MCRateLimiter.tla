---------------------------- MODULE MCRateLimiter ----------------------------
(* Three coroutines share a bucket of two tokens; the observer's window is *)
(* the documented period, the time that earns a full bucket.               *)
EXTENDS RateLimiter
CONSTANTS t1, t2, t3
MCTasks == {t1, t2, t3}
==============================================================================
