----------------------------- MODULE MCTreasury -----------------------------
(***************************************************************************)
(* Instances of Treasury for TLC.                                           *)
(***************************************************************************)
EXTENDS Treasury

CONSTANTS p1, p2
TwoSessions == {p1, p2}
Small == {1, 2}
Two == {2}
OneEach == [c \in 1..2 |-> IF c = 1 THEN "AR" ELSE "AP"]
Racing == {"pay", "undo", "list", "race", "crash"}
Retiring == {"pay", "retire", "list", "race", "crash"}
Alone == {"pay", "undo", "retire"}
Editing == {"pay", "undo", "edit"}
Transferring == {"pay", "transfer", "edit"}
Moving == {"pay", "transfer", "race", "crash"}
Sharing == {"pay", "distribute", "undo"}
AllScenes == {Racing, Retiring, Alone, Editing, Transferring, Moving, Sharing}
OnlySharing == {{"pay", "distribute"}}
=============================================================================
