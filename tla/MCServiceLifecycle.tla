------------------------- MODULE MCServiceLifecycle -------------------------
(***************************************************************************)
(* Instances of ServiceLifecycle for TLC.  The budgets bound how often the *)
(* world misbehaves; everything else is bounded by the uids, ids and names.*)
(***************************************************************************)
EXTENDS ServiceLifecycle, TLC

CONSTANTS u1, u2, e1, e2, n1, n2

OneUID == {u1}
TwoUIDs == {u1, u2}
TwoELBs == {e1, e2}
OneName == {n1}
TwoNames == {n1, n2}

\* Only for runs without temporal properties.
Symmetry == Permutations(UIDs) \cup Permutations(ELBIDs) \cup Permutations(Names)

\* A Service that is released at once has had no foreign finalizer.
Held == {TRUE}
Unheld == {FALSE}

Empty == {"empty"}
WithBinding == {"empty", "unheld"}
WithAnnotation == {"empty", "annotated"}

\* Changes of class: none; those of the type, and becoming somebody else's.
NoChange == {}
TypeChanges == {<<"ours", "otherType">>, <<"otherType", "ours">>, <<"ours", "foreign">>}

NoFaults == {}
EveryCall == Steps \cup {"createLost"}

Calm == [d \in Disturbances |-> 0]
OneCrash == [Calm EXCEPT !["crash"] = 1, !["unseen"] = 1]
Retried == [Calm EXCEPT !["fault"] = 1, !["rename"] = 1]
Hostile == [Calm EXCEPT !["fault"] = 1, !["lost"] = 1, !["lag"] = 1, !["overwrite"] = 1,
                        !["crash"] = 1, !["unseen"] = 1]
Rough == [Hostile EXCEPT !["recover"] = 1, !["reclass"] = 1]
=============================================================================
