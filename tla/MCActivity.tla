----------------------------- MODULE MCActivity -----------------------------
(* Instances of Activity for TLC. *)
EXTENDS Activity, TLC

CONSTANTS e1, e2, w1, w2, monday, tuesday

(* Two events of one day. *)
SameDay == (e1 :> monday) @@ (e2 :> monday)

=============================================================================
