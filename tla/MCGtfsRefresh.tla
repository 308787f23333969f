---------------------------- MODULE MCGtfsRefresh ----------------------------
(* Metro and tram with a bundle each, that share keys, one refresh at a    *)
(* time; the second release lacks the folder of the tram.  And buses, with *)
(* their two bundles, for two refreshes that run at once.                  *)
EXTENDS GtfsRefresh
CONSTANTS t1, t2
MCOneTask == {t1}
MCTwoTasks == {t1, t2}
MCModes == {"metro", "tram"}
MCBus == {"bus"}
MCModeBundles == [metro |-> {"2"}, tram |-> {"3"}]
MCBusBundles == [bus |-> {"4", "11"}]
MCFolders == <<{"2", "3"}, {"2"}, {"2", "3"}>>
MCShares == [b \in Bundles |-> Bundles \ {b}]
MCBusFolders == <<{"4", "11"}, {"4", "11"}>>
==============================================================================
