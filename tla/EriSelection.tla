---------------------------- MODULE EriSelection ----------------------------
(***************************************************************************)
(* The pure part of internal/controller/eri.go: which of an instance's     *)
(* network interfaces (ENIs) become its RDMA interfaces (ERIs), which      *)
(* network cards still need one, and how many queue pairs each may have.   *)
(*                                                                         *)
(* An ENI, as DescribeNetworkInterfaces returns it, is a record            *)
(*   [id, primary, rdma, qp, card, creator, inst]                          *)
(* where card = NoCard stands for a nil Attachment.NetworkCardIndex and    *)
(* creator says that the ENI bears the controller's creator tag.           *)
(*                                                                         *)
(* The API gives no order for the ENIs it returns, and the code takes the  *)
(* first that fits.  An operator whose result depends on that order        *)
(* returns the set of the results of all orders.                           *)
(***************************************************************************)
EXTENDS Naturals, Integers, FiniteSets, FiniteSetsExt, Functions

NoCard == -1

\* A card count and a queue pair limit of an instance, from its type
\* [eriQuantity, networkCards, queuePairs, gpus]; Nil is a nil pointer.
Nil == -1

SupportsErdma(type) == type.eriQuantity # Nil /\ type.eriQuantity # 0

CardCount(type) ==
    IF type.networkCards = Nil \/ type.networkCards < 2
    THEN 1
    ELSE Min({type.networkCards, type.eriQuantity})

QueuePairCount(type) ==
    IF type.gpus # Nil /\ type.gpus > 0
    THEN type.queuePairs * CardCount(type)
    ELSE type.queuePairs

-----------------------------------------------------------------------------

\* Mistake: ownership is not looked at.
OwnAnyENI(eni, managedNonOwned) == TRUE

OwnENI(eni, managedNonOwned) == managedNonOwned \/ eni.creator

\* Mistake: a nil card index is not taken for card 0.
eniCardIndexUnchecked(eni) == eni.card

eniCardIndex(eni) == IF eni.card = NoCard THEN 0 ELSE eni.card

toEri(eni, preferQueueCount) ==
    [ id      |-> eni.id,
      primary |-> eni.primary,
      card    |-> eniCardIndex(eni),
      qp      |-> IF eni.qp > 0 THEN eni.qp ELSE preferQueueCount,
      inst    |-> eni.inst ]

QueuePairSum(enis) == MapThenSumSet(LAMBDA e : e.qp, enis)

\* Mistake: only the controller's own interfaces count against the limit.
ExistQueuePairCountOfOwned(existENIs) ==
    QueuePairSum({e \in existENIs : e.rdma /\ e.creator})

\* Queue pairs the instance's RDMA interfaces hold already, whoever owns them.
ExistQueuePairCount(existENIs) == QueuePairSum({e \in existENIs : e.rdma})

\* The RDMA interfaces the controller may use, and the cards they sit on.
OwnedERIs(existENIs, managedNonOwned) ==
    {e \in existENIs : e.rdma /\ OwnENI(e, managedNonOwned)}

CoveredCards(existENIs, managedNonOwned) ==
    {eniCardIndex(e) : e \in OwnedERIs(existENIs, managedNonOwned)}

\* One owned RDMA interface per card: the first that the API returned.
FirstPerCard(existENIs, managedNonOwned) ==
    LET owned == OwnedERIs(existENIs, managedNonOwned)
    IN  Choices({ {e \in owned : eniCardIndex(e) = c} :
                     c \in CoveredCards(existENIs, managedNonOwned) })

\* Mistake: the cards that have an interface are not taken off.
MissingCardsAll(existENIs, queuePairCount, cardCount, managedNonOwned) ==
    IF ExistQueuePairCount(existENIs) <= queuePairCount THEN 0 .. cardCount - 1 ELSE {}

\* Cards without an interface, unless the queue pairs are already overdrawn.
MissingCards(existENIs, queuePairCount, cardCount, managedNonOwned) ==
    IF ExistQueuePairCount(existENIs) <= queuePairCount
    THEN (0 .. cardCount - 1) \ CoveredCards(existENIs, managedNonOwned)
    ELSE {}

\* Queue pairs for each of those cards (0: none are left to give).
RemainPerCard(existENIs, queuePairCount, missing) ==
    IF missing = {}
    THEN 0
    ELSE (queuePairCount - ExistQueuePairCount(existENIs)) \div Cardinality(missing)

\* The primary ENI serves card 0 when no interface covers it.
PrimaryForCard0(existENIs, remain, covered) ==
    IF remain > 0 /\ 0 \notin covered
    THEN {e \in existENIs : e.primary}
    ELSE {}

\* Cards for which an ENI has to be created.
NeedCreate(missing, remain, primary) ==
    IF remain = 0 THEN {}
    ELSE IF primary = {} THEN missing ELSE missing \ {0}

SelectEriFromExist(existENIs, queuePairCount, cardCount, managedNonOwned) ==
    LET covered  == CoveredCards(existENIs, managedNonOwned)
        missing  == MissingCards(existENIs, queuePairCount, cardCount, managedNonOwned)
        remain   == RemainPerCard(existENIs, queuePairCount, missing)
        primary  == PrimaryForCard0(existENIs, remain, covered)
        need     == NeedCreate(missing, remain, primary)
        noPrimary == remain > 0 /\ covered = {} /\ primary = {}
        noSlot    == covered = {} /\ primary = {} /\ need = {}
    IN  { [ ok   |-> ~noPrimary /\ ~noSlot,
            eris |-> {toEri(e, remain) : e \in selected \cup primary},
            need |-> need,
            qp   |-> remain ] :
          selected \in FirstPerCard(existENIs, managedNonOwned) }

-----------------------------------------------------------------------------
(* CreateEriForInstance first reuses the ENIs that carry the creator tag   *)
(* and the instance's tag, in the order the API returns them, for the      *)
(* lowest of the needed cards.                                             *)

Lowest(cards, k) == {c \in cards : Cardinality({d \in cards : d < c}) < k}

ReusedCards(tagged, need) == Lowest(need, Cardinality(tagged))

\* Mistake: the position in the response is not advanced with the card.
ReuseTaggedRepeatedly(tagged, need, queuePair, inst) ==
    { { [toEri(f[c], queuePair) EXCEPT !.inst = inst, !.card = c] :
          c \in ReusedCards(tagged, need) } :
      f \in [ReusedCards(tagged, need) -> tagged] }

\* Mistake: the instance is the one the detached ENI says it is attached to.
ReuseTaggedDetached(tagged, need, queuePair, inst) ==
    { { [toEri(f[c], queuePair) EXCEPT !.card = c] : c \in ReusedCards(tagged, need) } :
      f \in Injection(ReusedCards(tagged, need), tagged) }

ReuseTagged(tagged, need, queuePair, inst) ==
    { { [toEri(f[c], queuePair) EXCEPT !.inst = inst, !.card = c] :
          c \in ReusedCards(tagged, need) } :
      f \in Injection(ReusedCards(tagged, need), tagged) }

\* The ERI of an ENI just created for a card: its queue pairs are not recorded.
CreatedEri(id, card, inst) ==
    [id |-> id, primary |-> FALSE, card |-> card, qp |-> 0, inst |-> inst]
=============================================================================
