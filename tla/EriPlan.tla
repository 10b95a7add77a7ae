------------------------------ MODULE EriPlan ------------------------------
(***************************************************************************)
(* SelectERIs (internal/controller/eri.go) as a sequential computation     *)
(* over every input of a bounded catalogue: an instance type, the ENIs     *)
(* attached to the instance, and ENIs an earlier attempt created and left  *)
(* detached.  One action per stage of the function.                        *)
(***************************************************************************)
EXTENDS EriSelection

CONSTANTS
    InstanceTypes,   \* the instance types considered
    AttachedSets,    \* each a possible set of ENIs attached to the instance
    LeftoverSets,    \* each a possible set of detached, tagged ENIs
    NewENIs,         \* identifiers CreateNetworkInterface may hand out
    Inst             \* the instance

\* What the API returns: an id names one ENI, an ENI is attached or it is not, and
\* the primary ENI of an instance is one, on its first card.
ASSUME CatalogueAssumption ==
    /\ InstanceTypes \subseteq [eriQuantity : Nat \cup {Nil}, networkCards : Nat \cup {Nil},
                               queuePairs : Nat, gpus : Nat \cup {Nil}]
    /\ \A S \in AttachedSets \cup LeftoverSets : IsFiniteSet(S) /\ \A e \in S :
          /\ e.qp \in Nat /\ e.card \in Nat \cup {NoCard} /\ e.primary \in BOOLEAN
          /\ e.id \notin NewENIs
    /\ \A S \in AttachedSets, T \in LeftoverSets :
          S \cap T = {} /\ \A e, f \in S \cup T : e.id = f.id => e = f
    /\ \A S \in AttachedSets : \A e, f \in S :
          e.primary => e.card \in {0, NoCard} /\ (f.primary => e = f)

VARIABLES type, managed, exist, leftover, phase, eris, need, qp, created

vars == <<type, managed, exist, leftover, phase, eris, need, qp, created>>

Phases == {"input", "selected", "creating", "done", "unsupported", "failed"}

Init ==
    /\ type \in InstanceTypes
    /\ managed \in BOOLEAN
    /\ exist \in AttachedSets
    /\ leftover \in LeftoverSets
    /\ phase = "input"
    /\ eris = {} /\ need = {} /\ qp = 0 /\ created = {}

\* DescribeInstanceTypes says the type has no ERI: nil, nil.
Unsupported ==
    /\ phase = "input" /\ ~SupportsErdma(type)
    /\ phase' = "unsupported"
    /\ UNCHANGED <<type, managed, exist, leftover, eris, need, qp, created>>

Select ==
    /\ phase = "input" /\ SupportsErdma(type)
    /\ \E r \in SelectEriFromExist(exist, QueuePairCount(type), CardCount(type), managed) :
         IF r.ok
         THEN phase' = "selected" /\ eris' = r.eris /\ need' = r.need /\ qp' = r.qp
         ELSE phase' = "failed" /\ UNCHANGED <<eris, need, qp>>
    /\ UNCHANGED <<type, managed, exist, leftover, created>>

\* Every ENI with the creator and instance tags, attached or not.
TaggedENIs == leftover \cup {e \in exist : e.creator}

Reuse ==
    /\ phase = "selected"
    /\ \E reused \in ReuseTagged(TaggedENIs, need, qp, Inst) : eris' = eris \cup reused
    /\ need' = need \ ReusedCards(TaggedENIs, need)
    /\ phase' = "creating"
    /\ UNCHANGED <<type, managed, exist, leftover, qp, created>>

Create ==
    /\ phase = "creating" /\ need # {}
    /\ \E id \in NewENIs \ created :
         /\ eris' = eris \cup {CreatedEri(id, Min(need), Inst)}
         /\ created' = created \cup {id}
    /\ need' = need \ {Min(need)}
    /\ UNCHANGED <<type, managed, exist, leftover, phase, qp>>

Done ==
    /\ phase = "creating" /\ need = {}
    /\ phase' = "done"
    /\ UNCHANGED <<type, managed, exist, leftover, eris, need, qp, created>>

Next == Unsupported \/ Select \/ Reuse \/ Create \/ Done

Spec == Init /\ [][Next]_vars

-----------------------------------------------------------------------------

\* The values a selection ranges over; a card index and a number of queue pairs
\* are never negative, whatever the API left out of an ENI.
TypeOK ==
    /\ phase \in Phases
    /\ need \subseteq Nat /\ qp \in Nat /\ created \subseteq NewENIs
    /\ \A d \in eris : d.qp \in Nat /\ d.card \in Nat /\ d.primary \in BOOLEAN

\* ENIs of the plan that were not RDMA interfaces of the instance before.
Added == {d \in eris : ~\E e \in exist : e.id = d.id /\ e.rdma}

\* Those, with the queue pairs they will hold: a created ENI the share of its card.
Granted == {[d EXCEPT !.qp = IF d.id \in created THEN qp ELSE d.qp] : d \in Added}

\* The queue pairs of the RDMA interfaces the instance has (whoever owns them)
\* and of those the plan adds never exceed what its type allows, provided the
\* ENIs it may turn into RDMA interfaces (leftovers of earlier attempts, and the
\* instance's others) hold no more than a card's share.
QueuePairBudget ==
    (/\ phase = "done" /\ Added # {}
     /\ \A e \in leftover \cup {e \in exist : ~e.rdma} : e.qp <= qp) =>
        QueuePairSum({e \in exist : e.rdma}) + QueuePairSum(Granted) <= QueuePairCount(type)

\* No card is planned twice, and when anything was added every card of the
\* instance has its interface: a card dropped or repeated between
\* SelectEriFromExist, the tag lookup and the creation loop would show here.
EveryCardOnce ==
    phase = "done" =>
        /\ \A d1, d2 \in eris : d1.card = d2.card => d1 = d2
        /\ Added # {} => 0 .. CardCount(type) - 1 \subseteq {d.card : d \in eris}

\* The tag lookup of CreateEriForInstance also returns attached ENIs, so an ENI
\* may be planned twice: only one that the controller created and that is attached,
\* once for the card it is on and once for a card that misses one.  No leftover
\* of an earlier attempt, no created, primary or foreign ENI is, and none thrice.
TwiceOnlyAttached ==
    phase = "done" =>
        \A d1, d2 \in eris : d1.id = d2.id /\ d1 # d2 =>
            \E e \in exist : /\ e.id = d1.id /\ e.creator
                             /\ eniCardIndex(e) \in {d1.card, d2.card}

\* A controller told not to manage foreign interfaces plans none of them, the
\* primary ENI excepted.
ForeignLeftAlone ==
    (phase = "done" /\ ~managed) =>
        \A d \in eris : \A e \in exist :
            (d.id = e.id /\ ~e.primary) => e.creator

=============================================================================
