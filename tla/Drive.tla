------------------------------- MODULE Drive --------------------------------
(***************************************************************************)
(* What CloudVault promises the owner of a drive, with no word of object   *)
(* sharing, reference counts, buckets or caches: a file has the content it *)
(* was uploaded with from the moment it is listed until it is deleted for  *)
(* good, and only a file in the recycle bin is deleted for good.           *)
(***************************************************************************)
CONSTANTS Users, Contents, Files

VARIABLE drive      \* the files that exist, with owner, content and place

Entry == [user : Users, content : Contents, binned : BOOLEAN]

Init == drive = <<>>

(* A file appears in its owner's drive, with all of its content. *)
Upload(f, u, c) ==
    /\ f \notin DOMAIN drive
    /\ drive' = [g \in DOMAIN drive \cup {f} |->
                   IF g = f THEN [user |-> u, content |-> c, binned |-> FALSE] ELSE drive[g]]

(* A copy is a second file of the same owner with the content of the first. *)
Copy(f, g) ==
    /\ g \in DOMAIN drive
    /\ Upload(f, drive[g].user, drive[g].content)

Recycle(f) ==
    /\ f \in DOMAIN drive
    /\ ~ drive[f].binned
    /\ drive' = [drive EXCEPT ![f].binned = TRUE]

Restore(f) ==
    /\ f \in DOMAIN drive
    /\ drive[f].binned
    /\ drive' = [drive EXCEPT ![f].binned = FALSE]

Purge(f) ==
    /\ f \in DOMAIN drive
    /\ drive[f].binned
    /\ drive' = [g \in DOMAIN drive \ {f} |-> drive[g]]

Next == \E f \in Files :
    \/ \E u \in Users, c \in Contents : Upload(f, u, c)
    \/ \E g \in Files : Copy(f, g)
    \/ Recycle(f) \/ Restore(f) \/ Purge(f)

Spec == Init /\ [][Next]_drive

=============================================================================
