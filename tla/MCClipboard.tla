----------------------------- MODULE MCClipboard -----------------------------
(* Clipboard for TLC: the clients and the values within the limit are interchangeable. *)
EXTENDS Clipboard, TLC

Symmetry == Permutations(Clients) \cup Permutations(Values \ Big)

User(onlyActive, patient, values, c, s, d) ==
    [onlyActive |-> onlyActive, patient |-> patient, values |-> values,
     copies |-> c, switches |-> s, drops |-> d]

\* One who waits, one whose applications copy in the background, one who neither
\* waits nor keeps the connections up, and one with background copies and a client
\* that comes back.
CarefulUsers ==
    {User(TRUE, TRUE, Values, 4, 5, 0), User(FALSE, TRUE, Values \ Big, 3, 4, 0),
     User(TRUE, FALSE, Values \ Big, 2, 3, 1), User(FALSE, TRUE, Values \ Big, 3, 3, 1)}

\* The last one alone.
ReturningUsers == {User(FALSE, TRUE, Values \ Big, 1, 1, 1)}

BackgroundUsers == {User(FALSE, FALSE, Values \ Big, 2, 1, 0)}
=============================================================================
