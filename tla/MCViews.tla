------------------------------ MODULE MCViews -------------------------------
(* Instances of Views for TLC. *)
EXTENDS Views, TLC

CONSTANTS s1, s2, c1, c2, f1, f2, root, docs

(* Requests of one kind are alike, and so are the folders. *)
Alike == Permutations(Sessions) \cup Permutations(Clients) \cup Permutations(Files)
             \cup Permutations(Folders)

(* Three requests of both kinds, or two of each while no listing is read or *)
(* cached: a share is made, its file recycled and purged, the link visited. *)
Requests == (MaxRequests - left) + (MaxCalls - calls)
Unlisted == \A d \in Folders : cache[d] = Null /\ \A s \in Sessions : lreq[s].dir # d
FewRequests == Requests <= IF Unlisted /\ left > 0 /\ calls > 0 THEN 4 ELSE 3

=============================================================================
