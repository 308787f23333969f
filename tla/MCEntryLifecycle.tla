-------------------------- MODULE MCEntryLifecycle ---------------------------
(* One watch, a vehicle tracker linked to it and a route tracker.  Two      *)
(* trips let a tracker hold an old one; a spare coordinator lets it keep    *)
(* the one of before a reload.                                              *)
EXTENDS EntryLifecycle

CONSTANTS w1, v1, r1

MCWatches == {w1}
MCTrackers == {v1}
MCRouteTrackers == {r1}
MCParent == [v \in MCTrackers |-> w1]
MCCounts == {1, 2}
==============================================================================
