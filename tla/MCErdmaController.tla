------------------------- MODULE MCErdmaController -------------------------
(* Instances of ErdmaController for TLC. *)
EXTENDS ErdmaController

TwoCards == [eriQuantity |-> 2, networkCards |-> 2, queuePairs |-> 4, gpus |-> Nil]
Tight == [eriQuantity |-> 2, networkCards |-> 2, queuePairs |-> 1, gpus |-> Nil]
NoErdma == [eriQuantity |-> 0, networkCards |-> 2, queuePairs |-> 0, gpus |-> Nil]

Kind(p, o, v) == [phase |-> p, own |-> o, prov |-> v]
ReadyNodes == {Kind("ready", TRUE, TRUE)}
AnyNodes == {Kind("ready", TRUE, TRUE), Kind("notready", TRUE, FALSE), Kind("ready", FALSE, TRUE)}
UnlinkedNodes == {Kind("ready", TRUE, FALSE)}

OneInstance == {"i1"}
TwoInstances == {"i1", "i2"}
Primary1 == [i \in OneInstance |-> 1]
Primary2 == [i \in TwoInstances |-> IF i = "i1" THEN 1 ELSE 2]
Type2 == [i \in OneInstance |-> TwoCards]
TypeMixed == [i \in TwoInstances |-> IF i = "i1" THEN TwoCards ELSE NoErdma]
TypeTight == [i \in TwoInstances |-> IF i = "i1" THEN TwoCards ELSE Tight]

\* State constraints: the bounds are not used up together.
ChangesOrFailures == churn <= 1 \/ faults + crashes = 0
ThreeChanges      == churn + userDeletes <= 3
=============================================================================
