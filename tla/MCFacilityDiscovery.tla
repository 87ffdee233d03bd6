------------------------- MODULE MCFacilityDiscovery -------------------------
(* FacilityDiscovery for TLC: one facility, one thread that brings          *)
(* heartbeats, and the timer's.  Server a2 is a1 restarted (the same        *)
(* locator, another uuid), b is elsewhere.                                  *)
EXTENDS FacilityDiscovery
CONSTANTS x, a1, a2, b, la, lb, hb, tm

MCNames == <<x>>
MCLocatorOf == [s \in Server |-> [f \in Name |-> IF s = b THEN lb ELSE la]]

ASSUME Instance ==
  /\ Name = {x} /\ Server \subseteq {a1, a2, b} /\ Locator = {la, lb}
  /\ Thread = {hb, tm} /\ HeartbeatThread = {hb} /\ TimerThread = {tm}
=============================================================================
