---------------------------- MODULE MCLBCLifecycle ----------------------------
(***************************************************************************)
(* Instances of LBCLifecycle for TLC: LBCs that get the same load balancer *)
(* name, and LBCs that do not.                                             *)
(***************************************************************************)
EXTENDS LBCLifecycle

CONSTANTS e1, e2, e3

ThreeELBs == {e1, e2, e3}

\* team-a/db, team/a-db: the same name by the hyphens.  team/a-db and team/a-db-2: the
\* same name by the cut, if that is after three parts.
TeamADb == [namespace |-> <<"team", "a">>, name |-> <<"db">>]
TeamAdb == [namespace |-> <<"team">>, name |-> <<"a", "db">>]
TeamAdb2 == [namespace |-> <<"team">>, name |-> <<"a", "db", "2">>]
TeamWeb == [namespace |-> <<"team">>, name |-> <<"web">>]

OneLBC == {TeamWeb}
Hyphens == {TeamADb, TeamAdb}
Namesakes == {TeamADb, TeamAdb2, TeamWeb}

EveryCall == Calls \cup {"createLost"}
NoFaults == {}

\* Two of them are there, or one is created twice.
Rough == [d \in Disturbances |-> CASE d = "create" -> 2 [] OTHER -> 1]
Calm == [[d \in Disturbances |-> 0] EXCEPT !["create"] = 1]
TwoCreated == [Calm EXCEPT !["create"] = 2]
=============================================================================
