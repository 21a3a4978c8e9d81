------------------------------ MODULE MCUpdater ------------------------------
(* Updater for TLC: a GUI and one module.  Content 1 is the root's GUI;     *)
(* content 2 is another GUI with the same build label.                      *)
EXTENDS Updater

MCMembers == {"gui", "app"}
MCBuild == [c \in {1, 2, 3} |-> IF c = 3 THEN "b3" ELSE "b1"]
Soft(g, a) == [m \in MCMembers |-> IF m = "gui" THEN g ELSE a]
Release == [full |-> TRUE, soft |-> Soft(2, 1)]
Test == [full |-> FALSE, soft |-> Soft(0, 2)]
MCPackages == {Release, Test}
(* The bank an engine-2 updater made of Release *)
MCLegacy == [full |-> TRUE, eng |-> 2, soft |-> Soft(2, 1), inst |-> 0]
=============================================================================
