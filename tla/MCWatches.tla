------------------------------ MODULE MCWatches ------------------------------
(* Two watches of the same mode.  An entry outlives a tick, and the cap of *)
(* the backoff is not a doubling of its first value, as 900 s is none of   *)
(* 60 s.                                                                   *)
EXTENDS Watches
CONSTANTS w1, w2
MCClients == {w1, w2}
MCFeeds == {"trips", "alerts"}
==============================================================================
