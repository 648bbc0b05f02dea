-------------------------------- MODULE Views --------------------------------
(***************************************************************************)
(* Two views on one user_file table: the user's own listings and the links *)
(* he shared.  The table is that of Listings; its changes are what the     *)
(* look-ups of Shares find, and a purge takes the shares of the file along.*)
(***************************************************************************)
EXTENDS Integers, FiniteSets

CONSTANTS
    Sessions, Folders, MaxRequests,               \* Listings
    Clients, MaxShares, MaxCalls, CreateRaces,   \* Shares
    Files, Null                                   \* both

VARIABLES
    home, binned, cache, lpc, lreq, doubts, left,              \* Listings
    used, rows, open, fileOf, timed, due, keys, events, log,   \* Shares
    spc, sreq, calls

listVars  == <<home, binned, cache, lpc, lreq, doubts, left>>
shareVars == <<used, rows, open, fileOf, timed, due, keys, events, log, spc, sreq, calls>>
vars == <<listVars, shareVars>>

L == INSTANCE Listings WITH pc <- lpc, req <- lreq

Present == {f \in Files : home[f] \in Folders}

S == INSTANCE Shares WITH pc <- spc, req <- sreq, present <- Present, live <- L!Live

ASSUME ViewsAssumption == L!ListingsConstants /\ S!SharesConstants

Init == L!Init /\ S!Init

(* Every request about listings leaves the shares alone but a purge. *)
ListingStep(s) ==
    /\ \/ L!GetFileList(s) \/ L!Read(s)
       \/ L!Create(s) \/ L!Look(s) \/ L!Update(s) \/ L!CopyFile(s) \/ L!CopyDone(s)
       \/ L!CopyFails(s) \/ L!Invalidate(s)
    /\ UNCHANGED shareVars

PurgeFile(s) == \E f \in lreq[s].files : L!Purge(s) /\ S!DropShares(f)

Expire(d) == L!Expire(d) /\ UNCHANGED shareVars

ShareStep == UNCHANGED listVars /\ S!Next

Next ==
    \/ \E s \in Sessions : ListingStep(s) \/ PurgeFile(s)
    \/ \E d \in Folders : Expire(d)
    \/ ShareStep

Spec == Init /\ [][Next]_vars

-----------------------------------------------------------------------------
(* The properties of the two parts, stated and explained there, hold of the *)
(* whole.                                                                   *)

(* Types, and that a share has a file, an event an expiration. *)
TypeOK == L!TypeOK /\ S!TypeOK

(* No request on its own leaves a stale listing behind (Listings). *)
StaleExplained == L!StaleExplained

(* Nobody is served after the expiration or the purge (Shares). *)
LateNotServed == S!LateNotServed

(* One open share of a file at a time (Shares). *)
OneOpenShare == S!OneOpenShare

=============================================================================
