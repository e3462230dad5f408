-------------------------------- MODULE Cursor --------------------------------
(***************************************************************************)
(* Where the cursor is: the coordinates of class Server in                 *)
(* src/src/lib/server/Server.cpp, from a mouse motion on the primary or on *)
(* a secondary screen to the position on the screen it reaches, and the    *)
(* links of src/src/lib/server/Config.cpp it travels along.  Module Server *)
(* has the life of the screens; here the connected screens stay connected. *)
(*                                                                         *)
(* A position is [h |-> x, v |-> y].  The code's float fractions of an     *)
(* edge are exact rationals <<numerator, denominator>> here.               *)
(***************************************************************************)
EXTENDS Integers, FiniteSets

CONSTANTS
    Screens,       \* screens of the configuration
    Connected,     \* those that are connected, the primary among them
    Primary,
    Nil,
    Org,           \* upper left corner of each screen
    Size,          \* width and height of each screen
    Links,         \* the links of the configuration
    Whole,         \* the links' intervals are in units of 1 / Whole
    JumpZone,      \* the width of the primary screen's jump zone
    Deltas,        \* bound: the motions on a secondary screen, with and without a switch delay
    MaxHops,       \* bound: screens one motion passes
    Delays,        \* is there a switch delay?  The values over time
    Corners,       \* corners in which switching is disabled
    CornerSize,
    LeaveMayFail   \* may the primary screen refuse to leave?

Axes == {"h", "v"}
Dirs == {"left", "right", "top", "bottom"}
NoDirection == "none"

Axis(dir) == IF dir \in {"left", "right"} THEN "h" ELSE "v"
Cross(dir) == IF dir \in {"left", "right"} THEN "v" ELSE "h"
Opposite(dir) == CASE dir = "left" -> "right" [] dir = "right" -> "left"
                   [] dir = "top" -> "bottom" [] dir = "bottom" -> "top"

Link == [src : Screens, dir : Dirs, lo : 0..Whole, hi : 0..Whole,
         dst : Screens, dlo : 0..Whole, dhi : 0..Whole]

ASSUME CursorAssumption ==
    /\ Primary \in Connected /\ Connected \subseteq Screens /\ Nil \notin Screens
    /\ Org \in [Screens -> [Axes -> Int]]
    /\ Size \in [Screens -> [Axes -> Nat \ {0}]]
    /\ Whole \in Nat \ {0}
    /\ Links \subseteq Link
    /\ \A l \in Links : l.lo < l.hi /\ l.dlo < l.dhi
    /\ Deltas \in [BOOLEAN -> SUBSET [Axes -> Int]]
    /\ JumpZone \in Nat /\ MaxHops \in Nat /\ CornerSize \in Nat
    /\ Delays \subseteq BOOLEAN /\ LeaveMayFail \in BOOLEAN
    /\ Corners \subseteq {"top", "bottom"} \X {"left", "right"}

\* Config::Cell::add() refuses an edge that overlaps another one.
ASSUME LinksDisjoint ==
    \A k, l \in Links : k.src = l.src /\ k.dir = l.dir /\ k # l => k.hi <= l.lo \/ l.hi <= k.lo

VARIABLES
    m_active,
    m_pos,       \* m_x, m_y
    m_switch,    \* m_switchScreen, m_switchDir, the wait timer and its position
    jumpPos,     \* each screen's jump cursor position
    m_switchWaitDelay   \* is there a switch delay?

vars == <<m_active, m_pos, m_switch, jumpPos, m_switchWaitDelay>>

Inside(s, p) == \A a \in Axes : Org[s][a] <= p[a] /\ p[a] < Org[s][a] + Size[s][a]
Center(s) == [a \in Axes |-> Org[s][a] + Size[s][a] \div 2]

----------------------------------------------------------------------------
(* From a position on one screen to a position on its neighbor.             *)

mapToFraction_Corner(s, dir, p) ==  \* Faulty variant: measures to the pixel's corner.
    <<p[Cross(dir)] - Org[s][Cross(dir)], Size[s][Cross(dir)]>>

\* The centre of the pixel, as a fraction of the edge in direction dir.
mapToFraction(s, dir, p) ==
    <<2 * (p[Cross(dir)] - Org[s][Cross(dir)]) + 1, 2 * Size[s][Cross(dir)]>>

mapToPixel(s, dir, t, p) ==
    [p EXCEPT ![Cross(dir)] = (t[1] * Size[s][Cross(dir)]) \div t[2] + Org[s][Cross(dir)]]

isInside(lo, hi, t) == lo * t[2] <= t[1] * Whole /\ t[1] * Whole < hi * t[2]

\* CellEdge::transform() of the link's source, then inverseTransform() of its end.
transform(l, t) ==
    <<l.dlo * t[2] * (l.hi - l.lo) + (t[1] * Whole - l.lo * t[2]) * (l.dhi - l.dlo),
      Whole * t[2] * (l.hi - l.lo)>>

\* Config::getNeighbor(): the screen behind an edge, and where on its edge.
configNeighbor(s, dir, t) ==
    LET at == {l \in Links : l.src = s /\ l.dir = dir /\ isInside(l.lo, l.hi, t)}
    IN  IF at = {} THEN <<Nil, t>>
        ELSE LET l == CHOOSE l \in at : TRUE IN <<l.dst, transform(l, t)>>

\* Server::getNeighbor(): skip the screens that are not connected.  The loop of
\* the code has no bound; a chain of distinct screens needs no more than this.
skip(n, dir) == IF n[1] \in Connected \cup {Nil} THEN n ELSE configNeighbor(n[1], dir, n[2])

land(n, dir, p) ==
    IF n[1] \in Connected THEN [screen |-> n[1], pos |-> mapToPixel(n[1], dir, n[2], p)]
                          ELSE [screen |-> Nil, pos |-> p]

getNeighbor(s, dir, p) ==
    LET hop[k \in 1..Cardinality(Screens)] ==
            IF k = 1 THEN configNeighbor(s, dir, mapToFraction(s, dir, p)) ELSE skip(hop[k - 1], dir)
    IN  land(hop[Cardinality(Screens)], dir, p)

avoidJumpZone_Off(s, dir, p) ==  \* Faulty variant: stops one pixel short.
    LET a == Axis(dir)
        far == Org[s][a] + Size[s][a] - JumpZone
    IN  IF s # Primary \/ configNeighbor(s, Opposite(dir), mapToFraction(s, dir, p))[1] = Nil THEN p
        ELSE IF dir \in {"left", "top"} /\ p[a] > far THEN [p EXCEPT ![a] = far]
        ELSE p

\* Enter the primary screen far enough in not to leave it again at once.
avoidJumpZone(s, dir, p) ==
    LET a == Axis(dir)
        near == Org[s][a] + JumpZone
        far == Org[s][a] + Size[s][a] - 1 - JumpZone
    IN  IF s # Primary \/ configNeighbor(s, Opposite(dir), mapToFraction(s, dir, p))[1] = Nil THEN p
        ELSE IF dir \in {"left", "top"} /\ p[a] > far THEN [p EXCEPT ![a] = far]
        ELSE IF dir \in {"right", "bottom"} /\ p[a] < near THEN [p EXCEPT ![a] = near]
        ELSE p

\* mapToNeighbor() walks over as many screens as the motion is long.  A step has
\* the screen reached, the position relative to it, and whether to stop there.
reach(q, n, dir) ==
    [screen |-> n.screen, pos |-> [n.pos EXCEPT ![Axis(dir)] = q],
     done |-> IF dir \in {"left", "top"} THEN q >= 0 ELSE q < Size[n.screen][Axis(dir)]]

enter_Last(n, from, dir) ==  \* Faulty variant: every screen is as long as the one left.
    reach(IF dir \in {"left", "top"} THEN n.pos[Axis(dir)] + Size[from][Axis(dir)]
                                     ELSE n.pos[Axis(dir)] - Size[from][Axis(dir)], n, dir)

enter(n, from, dir) ==
    reach(IF dir \in {"left", "top"} THEN n.pos[Axis(dir)] + Size[n.screen][Axis(dir)]
                                     ELSE n.pos[Axis(dir)] - Size[from][Axis(dir)], n, dir)

\* There is no further neighbor, or the next screen is entered.
goOn(w, n, dir) == IF n.screen = Nil THEN [w EXCEPT !.done = TRUE] ELSE enter(n, w.screen, dir)
step(w, dir) == IF w.done THEN w ELSE goOn(w, getNeighbor(w.screen, dir, w.pos), dir)

arrive(w, dir) ==
    [screen |-> w.screen,
     pos |-> avoidJumpZone(w.screen, dir,
                           [w.pos EXCEPT ![Axis(dir)] = @ + Org[w.screen][Axis(dir)]])]

walkFrom(s, first, dir) ==
    LET walk[k \in 1..MaxHops] ==
            IF k = 1 THEN enter([first EXCEPT !.pos[Axis(dir)] = @ - Org[s][Axis(dir)]], s, dir)
            ELSE step(walk[k - 1], dir)
    IN  IF first.screen = Nil THEN first ELSE arrive(walk[MaxHops], dir)

mapToNeighbor(s, dir, p) == walkFrom(s, getNeighbor(s, dir, p), dir)

----------------------------------------------------------------------------
(* Whether to switch now, later or not at all.                              *)

NoSwitch == [screen |-> Nil, dir |-> NoDirection, timer |-> FALSE, pos |-> Center(Primary)]
stopSwitchWait(sw) == [sw EXCEPT !.timer = FALSE, !.pos = Center(Primary)]

\* Server::getCorner(): corners the clamped position p is in.
getCorner(s, p) ==
    LET lo(a) == Org[s][a]
        hi(a) == Org[s][a] + Size[s][a] - 1
        against(a) == p[a] <= lo(a) \/ p[a] >= hi(a)
        nearLo(a) == p[a] < lo(a) + CornerSize
        nearHi(a) == p[a] > hi(a) - CornerSize
        side(a, first, second) == IF p[a] <= lo(a) THEN first ELSE second
    IN  IF against("h") /\ (nearLo("v") \/ nearHi("v"))
        THEN {<<IF nearLo("v") THEN "top" ELSE "bottom", side("h", "left", "right")>>}
        ELSE IF against("v") /\ (nearLo("h") \/ nearHi("h"))
        THEN {<<side("v", "top", "bottom"), IF nearLo("h") THEN "left" ELSE "right">>}
        ELSE {}

\* isSwitchOkay(): the decision and m_switch after it, for the neighbor n.  blocked:
\* the cursor is locked to the screen or a modifier key that switching needs is up.
consider(sw, n, dir) ==
    IF dir # sw.dir \/ sw.screen = Nil THEN [sw EXCEPT !.dir = dir, !.screen = n.screen] ELSE sw

startSwitchWait(sw, n, dir) ==
    IF dir # sw.dir \/ ~sw.timer
    THEN [consider(sw, n, dir) EXCEPT !.timer = TRUE, !.pos = n.pos] ELSE sw

isSwitchOkay(sw, n, dir, clamped, blocked) ==
    IF \/ n.screen = Nil
       \/ getCorner(m_active, clamped) \cap Corners # {}
       \/ ~m_switchWaitDelay /\ blocked
    THEN [okay |-> FALSE, sw |-> NoSwitch, to |-> n]
    ELSE IF m_switchWaitDelay THEN [okay |-> FALSE, sw |-> startSwitchWait(sw, n, dir), to |-> n]
    ELSE [okay |-> TRUE, sw |-> consider(sw, n, dir), to |-> n]

\* switchScreen(): the position is recorded before the active screen may refuse
\* to be left.  jumps are the jump positions at the call.
switchScreen(s, p, jumps) ==
    /\ m_switch' = NoSwitch
    /\ m_pos' = p
    /\ jumpPos' = jumps
    /\ \/ m_active' = s
       \/ LeaveMayFail /\ m_active = Primary /\ s # Primary /\ UNCHANGED m_active

----------------------------------------------------------------------------
(* Events.                                                                  *)

\* After the first motion on the primary: the constructor leaves m_x and m_y
\* uninitialised, and onMouseMovePrimary() is the first to set them.
Init ==
    /\ m_active = Primary
    /\ m_pos = Center(Primary)
    /\ m_switch = NoSwitch
    /\ jumpPos = [s \in Connected |-> Center(s)]
    /\ m_switchWaitDelay \in Delays

\* The side of the jump zone a position of the primary is in, along one axis.
zoneSide(a, p) ==
    LET lo == Org[Primary][a]  hi == Org[Primary][a] + Size[Primary][a]
    IN  IF p[a] < lo + JumpZone THEN IF a = "h" THEN "left" ELSE "top"
        ELSE IF p[a] >= hi - JumpZone THEN IF a = "h" THEN "right" ELSE "bottom"
        ELSE NoDirection

\* Where the primary's cursor would be without the jump zone, along one axis.
beyond(dir, p) == [p EXCEPT ![Axis(dir)] = IF dir \in {"left", "top"} THEN @ - JumpZone
                                                                      ELSE @ + JumpZone]

\* The position pressed to the border along the axes where it is in the zone.
toBorder(p) ==
    [a \in Axes |->
        LET side == zoneSide(a, p)
        IN  IF side = NoDirection THEN p[a]
            ELSE IF side \in {"left", "top"} THEN Org[Primary][a]
            ELSE Org[Primary][a] + Size[Primary][a] - 1]

\* One of the two directions a motion on the primary may switch in.
tryPrimary(sw, dir, p, blocked) ==
    IF dir = NoDirection THEN [okay |-> FALSE, sw |-> sw]
    ELSE isSwitchOkay(sw, mapToNeighbor(Primary, dir, beyond(dir, p)), dir, toBorder(p), blocked)

\* Both directions of a corner are tried, the horizontal one first.
onMouseMovePrimary(p, blocked) ==
    /\ m_active = Primary
    /\ \E h \in {tryPrimary(m_switch, zoneSide("h", p), p, blocked)} :
       \E v \in {tryPrimary(h.sw, zoneSide("v", p), p, blocked)} :
          \/ h.okay /\ switchScreen(h.to.screen, h.to.pos, jumpPos)
          \/ ~h.okay /\ v.okay /\ switchScreen(v.to.screen, v.to.pos, jumpPos)
          \/ /\ ~h.okay /\ ~v.okay
             /\ m_switch' = IF zoneSide("h", p) = NoDirection /\ zoneSide("v", p) = NoDirection
                            THEN stopSwitchWait(m_switch)      \* noSwitch()
                            ELSE v.sw
             /\ m_pos' = p
             /\ UNCHANGED <<m_active, jumpPos>>

\* The direction in which p lies outside the screen, the horizontal one first.
outside(s, p) ==
    CASE p["h"] < Org[s]["h"] -> "left"
      [] p["h"] > Org[s]["h"] + Size[s]["h"] - 1 -> "right"
      [] p["h"] \in Org[s]["h"] .. (Org[s]["h"] + Size[s]["h"] - 1) /\ p["v"] < Org[s]["v"] -> "top"
      [] p["h"] \in Org[s]["h"] .. (Org[s]["h"] + Size[s]["h"] - 1)
            /\ p["v"] > Org[s]["v"] + Size[s]["v"] - 1 -> "bottom"
      [] OTHER -> NoDirection

clamp(s, p) ==
    [a \in Axes |-> IF p[a] < Org[s][a] THEN Org[s][a]
                    ELSE IF p[a] > Org[s][a] + Size[s][a] - 1 THEN Org[s][a] + Size[s][a] - 1
                    ELSE p[a]]

clearWait_Never(dir, p) == FALSE  \* Faulty variant: moving away does not stop the wait.

\* Has the cursor left the border the switch waits at?  The bottom differs.
clearWait(dir, p) ==
    LET lo(a) == Org[m_active][a]  hi(a) == Org[m_active][a] + Size[m_active][a] - 1
    IN  CASE dir = "left" -> p["h"] >= lo("h") + JumpZone
          [] dir = "right" -> p["h"] <= hi("h") - JumpZone
          [] dir = "top" -> p["v"] >= lo("v") + JumpZone
          [] dir = "bottom" -> p["v"] <= hi("v") + JumpZone
          [] OTHER -> FALSE

\* Inside the screen the motion may only stop a wait; otherwise it may switch.
moveInside(p) ==
    /\ m_pos' = p
    /\ m_switch' = IF m_switch.screen # Nil /\ clearWait(m_switch.dir, p)
                   THEN stopSwitchWait(m_switch) ELSE m_switch
    /\ UNCHANGED <<m_active, jumpPos>>

moveOutside(p, dir, blocked) ==
    \E r \in {isSwitchOkay(m_switch, mapToNeighbor(m_active, dir, p), dir, clamp(m_active, p), blocked)} :
       \/ r.okay /\ switchScreen(r.to.screen, r.to.pos, jumpPos)
       \/ /\ ~r.okay
          /\ m_pos' = clamp(m_active, p)
          /\ m_switch' = r.sw
          /\ UNCHANGED <<m_active, jumpPos>>

moved(delta) == [a \in Axes |-> m_pos[a] + delta[a]]

onMouseMoveSecondary(delta, blocked) ==
    /\ m_active # Primary
    /\ \E p \in {moved(delta)}, dir \in {outside(m_active, moved(delta))} :
          \/ dir = NoDirection /\ moveInside(p)
          \/ dir # NoDirection /\ moveOutside(p, dir, blocked)

handle_switch_wait_event ==
    /\ m_switch.timer
    /\ \/ switchScreen(m_switch.screen, m_switch.pos, jumpPos)
       \/ m_switch' = NoSwitch /\ UNCHANGED <<m_active, m_pos, jumpPos>>  \* locked to the screen

\* Remember where the cursor was, and go where it last was on the other screen.
jumpToScreen(s) ==
    LET jumps == [jumpPos EXCEPT ![m_active] = m_pos]
    IN  switchScreen(s, jumps[s], jumps)

\* Hot keys: a screen by name, the next one, or the one in a direction.
handle_switch_to_screen == \E s \in Connected : jumpToScreen(s)

MovePrimary ==
    /\ m_active = Primary
    /\ \E x \in Org[Primary]["h"] .. (Org[Primary]["h"] + Size[Primary]["h"] - 1),
          y \in Org[Primary]["v"] .. (Org[Primary]["v"] + Size[Primary]["v"] - 1),
          blocked \in BOOLEAN : onMouseMovePrimary([h |-> x, v |-> y], blocked)

MoveSecondary ==
    /\ m_active # Primary
    /\ \E delta \in Deltas[m_switchWaitDelay], blocked \in BOOLEAN : onMouseMoveSecondary(delta, blocked)

\* A reload that gives the switch delay: a wait is stopped, the switch being
\* considered is kept.
processOptions ==
    /\ m_switchWaitDelay' \in Delays
    /\ m_switch' = stopSwitchWait(m_switch)
    /\ UNCHANGED <<m_active, m_pos, jumpPos>>

Next ==
    \/ MovePrimary /\ UNCHANGED m_switchWaitDelay
    \/ MoveSecondary /\ UNCHANGED m_switchWaitDelay
    \/ handle_switch_wait_event /\ UNCHANGED m_switchWaitDelay
    \/ handle_switch_to_screen /\ UNCHANGED m_switchWaitDelay
    \/ processOptions

Spec == Init /\ [][Next]_vars

----------------------------------------------------------------------------
(* Properties.                                                              *)

\* The types of the variables.
TypeOK ==
    /\ m_active \in Connected
    /\ DOMAIN m_pos = Axes
    /\ m_switch.screen \in Connected \cup {Nil}
    /\ m_switch.dir \in Dirs \cup {NoDirection}
    /\ DOMAIN jumpPos = Connected
    /\ m_switchWaitDelay \in BOOLEAN

\* Does p lie off screen s in direction dir?
past(s, dir, p) ==
    LET a == Axis(dir)
    IN  IF dir \in {"left", "top"} THEN p[a] < Org[s][a] ELSE p[a] >= Org[s][a] + Size[s][a]

\* p is on s, or off s along one axis only and where no connected screen lies
\* behind the edge it is beyond: the motion went as far as the screens reach.
reached(s, p) ==
    \A dir \in Dirs : past(s, dir, p) =>
        /\ getNeighbor(s, dir, p).screen = Nil
        /\ p[Cross(dir)] \in Org[s][Cross(dir)] .. (Org[s][Cross(dir)] + Size[s][Cross(dir)] - 1)

\* Motions of any length take the cursor along a chain of screens of different
\* sizes, unconnected ones among them, to the screen it belongs on: it is never
\* left off a screen while the next one that way is connected, and the jump
\* position each screen keeps is one of its own.
PositionOnScreen ==
    /\ TypeOK
    /\ reached(m_active, m_pos)
    /\ \A s \in Connected : reached(s, jumpPos[s])

\* What switchScreen() asserts of the coordinates it is given, which are then
\* the cursor's: they are on the screen.
AssertedPosition == Inside(m_active, m_pos)

\* Is p at the border of the active screen that lies in direction dir?
onBorder(dir, p) ==
    LET z == IF JumpZone = 0 THEN 1 ELSE JumpZone
        a == Axis(dir)
    IN  IF dir \in {"left", "top"} THEN p[a] < Org[m_active][a] + z
        ELSE p[a] >= Org[m_active][a] + Size[m_active][a] - z

\* While the switch delay runs, the cursor is at the border it waits at, and the
\* switch it will make is to a connected screen and to a position on that screen:
\* handle_switch_wait_event() uses both without looking at them again.
WaitWhole ==
    m_switch.timer => /\ onBorder(m_switch.dir, m_pos)
                      /\ m_switch.screen \in Connected
                      /\ Inside(m_switch.screen, m_switch.pos)

\* "if waiting and mouse is not on the border we're waiting on then stop
\* waiting": a motion along the border does not stop the wait, on any side.
WaitKept ==
    [][m_switch.timer /\ ~m_switch'.timer /\ MoveSecondary /\ m_active' = m_active
           /\ m_switch'.screen # Nil
        => ~onBorder(m_switch.dir, m_pos')]_vars

\* A motion that enters the primary screen ends outside the jump zone of the
\* side it came through, so the next motion event there does not throw the
\* cursor back (avoidJumpZone).
NoBounce ==
    [][m_active # Primary /\ m_active' = Primary =>
         \A delta \in Deltas[m_switchWaitDelay] : onMouseMoveSecondary(delta, FALSE) =>
            LET dir == outside(m_active, moved(delta))
            IN  \/ zoneSide(Axis(dir), m_pos') # Opposite(dir)
                \/ configNeighbor(Primary, Opposite(dir),
                                  mapToFraction(Primary, dir, m_pos'))[1] = Nil]_vars

\* Crossing an edge to a screen at least as long and coming straight back leads
\* to the pixel the cursor left: the rounding of mapToFraction() and
\* mapToPixel() loses nothing where both links cover whole edges.
RoundTrip ==
    \A dir \in Dirs :
       LET there == getNeighbor(m_active, dir, m_pos)
           back == getNeighbor(there.screen, Opposite(dir), there.pos)
           c == Cross(dir)
       IN  there.screen # Nil /\ Size[there.screen][c] >= Size[m_active][c]
                 /\ back.screen = m_active => back.pos[c] = m_pos[c]
=============================================================================
