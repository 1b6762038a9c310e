---------------------------- MODULE MCELBSettings ----------------------------
(***************************************************************************)
(* Instances of ELBSettings for TLC.                                       *)
(***************************************************************************)
EXTENDS ELBSettings

CONSTANTS p1, p2, c1, c2, bad, none, g1, g2

MCPorts == {p1, p2}
MCCIDRs == {c1, c2, bad}
MCValid == {c1, c2}
MCGroups == {g1, g2}
MCSizes == {0, 5, 10, 50}

Public(ports, ranges, size) ==
    [type |-> "LoadBalancer", ports |-> ports, ranges |-> ranges, size |-> size]

\* One port or two; no ranges, unreadable ones, one or another; no bandwidth, two
\* within the limit and one beyond it; and a Service that is not exposed.
MCWishes ==
    { Public({p1}, {}, 0), Public({p1}, {c1}, 5), Public({p1, p2}, {c1}, 0),
      Public({p1, p2}, {c2, bad}, 10), Public({p1}, {bad}, 50),
      [type |-> "ClusterIP", ports |-> {p1}, ranges |-> {}, size |-> 0] }
=============================================================================
