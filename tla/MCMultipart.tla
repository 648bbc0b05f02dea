---------------------------- MODULE MCMultipart -----------------------------
(* Instances of Multipart for TLC. *)
EXTENDS Multipart, TLC

CONSTANTS t1, t2, five, eight

(* A 12 MB file in chunks of 5 MB or of 8 MB. *)
TwelveMB == (five :> 3) @@ (eight :> 2)

(* A 9 MB file, always in chunks of 5 MB. *)
NineMB == five :> 2

Devices == Permutations(Tabs)

=============================================================================
