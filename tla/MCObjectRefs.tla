---------------------------- MODULE MCObjectRefs ----------------------------
(* Instances of ObjectRefs for TLC: who is logged in on which session. *)
EXTENDS ObjectRefs, TLC

CONSTANTS s1, s2, s3, alice, bob, h1, h2

(* Two people, one browser tab each. *)
TwoUsers == (s1 :> alice) @@ (s2 :> bob)

(* One person with two tabs. *)
TwoTabs == (s1 :> alice) @@ (s2 :> alice)

(* Both: two tabs of one person and one of another. *)
TabsAndBob == (s1 :> alice) @@ (s2 :> alice) @@ (s3 :> bob)

(* No request tells one content from another. *)
Renamings == Permutations({h1, h2})

=============================================================================
