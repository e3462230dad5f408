------------------------------ MODULE MCServer ------------------------------
(***************************************************************************)
(* Small instances of Server: two remote names, and proxies p1 and p2 of   *)
(* one name (a client and its reconnection, or two claiming the name) and  *)
(* p3 of the other.                                                        *)
(***************************************************************************)
EXTENDS Server

CONSTANTS p1, p2, p3, n0, n1, n2

MCNames == {n0, n1, n2}

MCNameOf == [s \in Screens |-> IF s = Primary THEN n0 ELSE IF s = p3 THEN n2 ELSE n1]

\* The configuration that calls n1 x1 and n2 x2.
ConfigOf(x0, x1, x2, delay, twoTap) ==
    [canon  |-> [n \in MCNames |-> IF n = n0 THEN x0 ELSE IF n = n1 THEN x1 ELSE x2],
     delay  |-> delay,
     twoTap |-> twoTap]

\* Both clients known, or one dropped; switch delay and double tap on and off.
CoreConfigs == {ConfigOf(n0, n1, n2, "on", "on"), ConfigOf(n0, NoName, n2, "off", "off")}

\* The others are not in a run; README.md says what they show.
\* n1 starts as an alias of n2 and becomes a screen of its own.
AliasConfigs == {ConfigOf(n0, n2, n2, "off", "off"), ConfigOf(n0, n1, n2, "off", "off")}

\* A configuration without the primary screen, which drops a client too.
RefusedConfigs == {ConfigOf(n0, n1, n2, "off", "off"), ConfigOf(NoName, n1, NoName, "off", "off")}

\* The switch delay is given first and then removed.
RemovedOptionConfigs == {ConfigOf(n0, n1, n2, "on", "off"), ConfigOf(n0, n1, n2, "unset", "off")}
=============================================================================
