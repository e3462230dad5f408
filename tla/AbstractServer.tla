--------------------------- MODULE AbstractServer ---------------------------
(***************************************************************************)
(* What the server promises its users, without saying how: there is one    *)
(* cursor, and it is on one of the screens that are connected.  Screens    *)
(* join and leave at any time.  The cursor goes from a connected screen to *)
(* a connected screen; when screens leave it stays where it is, unless it  *)
(* was on one of them: then it comes home to the primary screen, which     *)
(* never leaves.  A screen that has left does not come back: a client that *)
(* connects again is a new screen.                                         *)
(***************************************************************************)
CONSTANTS Clients, Primary

VARIABLES connected, cursor, former

vars == <<connected, cursor, former>>

Init == connected = {Primary} /\ cursor = Primary /\ former = {}

Join(p) ==
    /\ p \notin connected \cup former
    /\ connected' = connected \cup {p}
    /\ UNCHANGED <<cursor, former>>

\* A client that is sent away at once.
Refuse(p) ==
    /\ p \notin connected \cup former
    /\ former' = former \cup {p}
    /\ UNCHANGED <<connected, cursor>>

Leave(gone) ==
    /\ connected' = connected \ gone
    /\ former' = former \cup gone
    /\ cursor' = IF cursor \in gone THEN Primary ELSE cursor

Move(dst) ==
    /\ cursor' = dst
    /\ UNCHANGED <<connected, former>>

Next ==
    \/ \E p \in Clients : Join(p) \/ Refuse(p)
    \/ \E gone \in SUBSET (connected \ {Primary}) : Leave(gone)
    \/ \E dst \in connected : Move(dst)

Spec == Init /\ [][Next]_vars
=============================================================================
