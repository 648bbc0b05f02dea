----------------------------- MODULE MCFileTree -----------------------------
(* Instances of FileTree for TLC: what the two sessions do. *)
EXTENDS FileTree, TLC

CONSTANTS s1, s2, a, b

(* Names are alike (not used for liveness). *)
Symmetric == Permutations(Names)

(* One tab moves folders, the other works next to it; nothing is recycled. *)
MoverAndMaker == (s1 :> {"mkdir", "move"}) @@ (s2 :> {"mkdir", "rename", "copy"})

(* One tab restores and purges, the other fills and recycles folders. *)
PurgerAndMaker == (s1 :> {"mkdir", "restore", "purge"}) @@ (s2 :> {"upload", "copy", "recycle"})

(* One tab at a time: folders are moved and recycled. *)
MovesAndBin == (s1 :> {"mkdir", "move", "recycle"}) @@ (s2 :> {})

=============================================================================
