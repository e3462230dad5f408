------------------------------- MODULE MCCursor -------------------------------
(* Small screens for TLC, of different sizes and with different origins: a     *)
(* ring with a column, and a split edge.  C is not connected.                  *)
EXTENDS Cursor

CONSTANTS P, A, B, C

MCOrg == [s \in {P, A, B, C} |-> CASE s = P -> [h |-> 0, v |-> 0]
                                   [] s = A -> [h |-> 2, v |-> -1]
                                   [] s \in {B, C} -> [h |-> 0, v |-> 2]]
MCSize == [s \in {P, A, B, C} |-> CASE s = P -> [h |-> 3, v |-> 4]
                                    [] s = A -> [h |-> 3, v |-> 2]
                                    [] s \in {B, C} -> [h |-> 2, v |-> 2]]

Edge(s, d, t) == [src |-> s, dir |-> d, lo |-> 0, hi |-> 2, dst |-> t, dlo |-> 0, dhi |-> 2]

\* Screen t is behind edge d of s, and s behind the opposite edge of t.
Both(s, d, t) == {Edge(s, d, t), Edge(t, Opposite(d), s)}

\* A ring in the horizontal direction, with C between B and P.
RingLinks == Both(P, "right", A) \cup Both(A, "right", B) \cup Both(B, "right", C) \cup Both(C, "right", P)

\* The ring, and a column of P, B and A from top to bottom, which has two ends.
FarLinks == RingLinks \cup Both(P, "bottom", B) \cup Both(B, "bottom", A)

\* The right edge of P is split between A and B; B is below A.
SplitLinks == {[Edge(P, "right", A) EXCEPT !.hi = 1], [Edge(P, "right", B) EXCEPT !.lo = 1],
               Edge(A, "left", P), Edge(B, "left", P)} \cup Both(A, "bottom", B)

\* Motions that pass up to three screens, and none longer than a screen.
Across(xs) == {[h |-> x, v |-> 0] : x \in xs}
Down(ys) == {[h |-> 0, v |-> y] : y \in ys}
FarDeltas == Across({-7, -4, -1, 1, 4, 7}) \cup Down({-6, -1, 1, 6}) \cup {[h |-> 4, v |-> 1]}
ShortDeltas == Across({-2, -1, 1, 2}) \cup Down({-1, 1}) \cup {[h |-> 1, v |-> 1]}

\* With a switch delay motions are short, without one they are long.
MCDeltas == [delay \in BOOLEAN |-> IF delay THEN ShortDeltas ELSE FarDeltas]

NoCorners == {}
TopRight == {<<"top", "right">>}
=============================================================================
