---------------------------- MODULE EriPlanProofs ----------------------------
(***************************************************************************)
(* What SelectERIs plans for any instance type and any interfaces it has:  *)
(* QueuePairBudget, EveryCardOnce, TwiceOnlyAttached, ForeignLeftAlone and *)
(* TypeOK of EriPlan.                                                      *)
(*                                                                         *)
(* The cards split into those of the plan and those that still need an     *)
(* ENI, whatever stage the function is at; an ENI of the plan comes from   *)
(* the instance, from the tag lookup or from CreateNetworkInterface.       *)
(***************************************************************************)
EXTENDS EriPlan, EriSelectionProofs

Planning == {"selected", "creating", "done"}

\* An interface of the instance that the controller may use, or the primary one.
Usable(e) == e \in exist /\ (e.primary \/ (e.rdma /\ OwnENI(e, managed)))

\* The ERI of an ENI that the tag lookup found, for a card.
TaggedEri(e, c, q) == [toEri(e, q) EXCEPT !.inst = Inst, !.card = c]

FromExist(d)  == \E e \in exist : Usable(e) /\ d = toEri(e, qp)
FromTagged(d) == \E e \in TaggedENIs, c \in Nat : d = TaggedEri(e, c, qp)
FromCloud(d)  == \E i \in created, c \in Nat : d = CreatedEri(i, c, Inst)

Origins ==
    /\ phase = "selected" => created = {} /\ \A d \in eris : FromExist(d)
    /\ \A d \in eris : FromExist(d) \/ FromTagged(d) \/ FromCloud(d)

\* The cards of the plan and those that need an ENI: all of the instance's, if
\* there are queue pairs to give, and else only those it has.
Cards ==
    /\ SupportsErdma(type)
    /\ need \subseteq 0 .. CardCount(type) - 1
    /\ OnePerCard(eris) /\ \A d \in eris : d.card \notin need
    /\ qp > 0 => 0 .. CardCount(type) - 1 \subseteq {d.card : d \in eris} \cup need
    /\ qp = 0 => need = {} /\ \A d \in eris : \E e \in exist : e.id = d.id /\ e.rdma

\* The cards for which SelectEriFromExist found no interface it may use.
Missing == MissingCards(exist, QueuePairCount(type), CardCount(type), managed)

\* What the plan adds to the RDMA interfaces of the instance is for those cards, and
\* each of them has the same share of the queue pairs that are left.
Shares ==
    /\ qp = RemainPerCard(exist, QueuePairCount(type), Missing)
    /\ need \subseteq Missing
    /\ \A d \in eris : d.card \in Missing \/ \E e \in exist : e.id = d.id /\ e.rdma

\* The ENI of d1 and d2 is an attached one with the creator tag, on one of their cards.
Attached(d1, d2) ==
    \E e \in exist : e.id = d1.id /\ e.creator /\ eniCardIndex(e) \in {d1.card, d2.card}

Distinct == \A d1, d2 \in eris : d1.id = d2.id /\ d1 # d2 => Attached(d1, d2)

Inputs ==
    /\ type \in InstanceTypes /\ managed \in BOOLEAN
    /\ exist \in AttachedSets /\ leftover \in LeftoverSets
    /\ phase \in Phases /\ qp \in Nat /\ created \subseteq NewENIs

Planned ==
    /\ Inputs
    /\ phase \in Planning => Origins /\ Cards /\ Shares /\ Distinct
    /\ phase \notin Planning => eris = {} /\ need = {} /\ created = {}
    /\ phase = "done" => need = {}

-----------------------------------------------------------------------------
(* The catalogue, at the inputs of the computation *)

LEMMA Catalogue ==
  ASSUME Inputs
  PROVE  /\ Counted(exist)
         /\ \A e \in exist \cup leftover : /\ e.qp \in Nat /\ e.card \in Nat \cup {NoCard}
                                           /\ e.primary \in BOOLEAN /\ e.id \notin NewENIs
         /\ exist \cap leftover = {}
         /\ \A e, f \in exist \cup leftover : e.id = f.id => e = f
         /\ \A e, f \in exist : e.primary => eniCardIndex(e) = 0 /\ (f.primary => e = f)
<1>1. exist \in AttachedSets /\ leftover \in LeftoverSets
  BY DEF Inputs
<1> QED BY <1>1, CatalogueAssumption DEF eniCardIndex, Counted

LEMMA TypeOfInstance ==
  ASSUME Inputs, SupportsErdma(type)
  PROVE  CardCount(type) \in Nat \ {0} /\ QueuePairCount(type) \in Nat
<1>1. type \in [eriQuantity : Nat \cup {Nil}, networkCards : Nat \cup {Nil},
                queuePairs : Nat, gpus : Nat \cup {Nil}]
  BY CatalogueAssumption DEF Inputs
<1> QED BY <1>1, CardCountType

LEMMA EriFields ==
  ASSUME NEW e, NEW q
  PROVE  /\ toEri(e, q).id = e.id /\ toEri(e, q).card = eniCardIndex(e)
         /\ toEri(e, q).primary = e.primary
         /\ toEri(e, q).qp = IF e.qp > 0 THEN e.qp ELSE q
  BY DEF toEri

LEMMA ReusedFields ==
  ASSUME NEW e, NEW q, NEW c
  PROVE  /\ TaggedEri(e, c, q).id = e.id /\ TaggedEri(e, c, q).card = c
         /\ TaggedEri(e, c, q).primary = e.primary /\ TaggedEri(e, c, q).qp = toEri(e, q).qp
  BY DEF TaggedEri, toEri

LEMMA CreatedFields ==
  ASSUME NEW i, NEW c, NEW n
  PROVE  /\ CreatedEri(i, c, n).id = i /\ CreatedEri(i, c, n).card = c
         /\ CreatedEri(i, c, n).qp = 0 /\ CreatedEri(i, c, n).primary \in BOOLEAN
  BY DEF CreatedEri

-----------------------------------------------------------------------------
(* SelectEriFromExist *)

\* The interfaces chosen, by the cards they are on: with queue pairs to give, they
\* and the cards that need an ENI are all cards of the instance; what is not an
\* RDMA interface yet is on a missing card.
ChosenFrom(r, S, c, missing) ==
    /\ S \subseteq exist /\ r.eris = {toEri(e, r.qp) : e \in S}
    /\ \A e \in S : Usable(e)
    /\ \A a, b \in S : eniCardIndex(a) = eniCardIndex(b) => a = b
    /\ r.qp \in Nat /\ r.need \subseteq 0 .. c - 1
    /\ \A e \in S : eniCardIndex(e) \notin r.need
    /\ r.qp > 0 => 0 .. c - 1 \subseteq {eniCardIndex(e) : e \in S} \cup r.need
    /\ r.qp = 0 => r.need = {} /\ \A e \in S : e.rdma
    /\ r.need \subseteq missing /\ \A e \in S : eniCardIndex(e) \in missing \/ e.rdma

LEMMA SelectPlan ==
  ASSUME Inputs, NEW q \in Nat, NEW c \in Nat \ {0},
         NEW r \in SelectEriFromExist(exist, q, c, managed)
  PROVE  LET missing == MissingCards(exist, q, c, managed)
         IN  /\ r.qp = RemainPerCard(exist, q, missing)
             /\ \E S : ChosenFrom(r, S, c, missing)
<1> DEFINE covered == CoveredCards(exist, managed)
           missing == MissingCards(exist, q, c, managed)
           remain  == RemainPerCard(exist, q, missing)
           primary == PrimaryForCard0(exist, remain, covered)
           cards   == NeedCreate(missing, remain, primary)
           good == ~(remain > 0 /\ covered = {} /\ primary = {})
                     /\ ~(covered = {} /\ primary = {} /\ cards = {})
<1>0. PICK selected \in FirstPerCard(exist, managed) :
         r = [ok |-> good, eris |-> {toEri(e, remain) : e \in selected \cup primary},
              need |-> cards, qp |-> remain]
  BY DEF SelectEriFromExist
<1>1. /\ r.eris = {toEri(e, remain) : e \in selected \cup primary}
      /\ r.need = cards /\ r.qp = remain
  <2> HIDE DEF covered, missing, remain, primary, cards, good
  <2> QED BY <1>0
<1>2. remain \in Nat
  BY RemainType, Catalogue
<1>3. /\ \A a, b \in selected : eniCardIndex(a) = eniCardIndex(b) => a = b
      /\ {eniCardIndex(a) : a \in selected} = covered
  BY FirstPerCardOnce
<1>4. \A e \in selected : e \in exist /\ e.rdma /\ OwnENI(e, managed)
  BY FirstPerCardOwned
<1>5. /\ primary \subseteq exist /\ (primary # {} => remain > 0 /\ 0 \notin covered)
      /\ \A e \in primary : e.primary /\ eniCardIndex(e) = 0
      /\ \A e, f \in primary : e = f
  BY Catalogue DEF PrimaryForCard0
<1>6. missing \subseteq 0 .. c - 1 /\ missing \cap covered = {}
  BY DEF MissingCards
<1>7. missing # {} => 0 .. c - 1 \subseteq missing \cup covered
  BY DEF MissingCards
<1>8. remain > 0 => missing # {}
  BY DEF RemainPerCard
<1>9. /\ cards \subseteq missing /\ (remain = 0 => cards = {})
      /\ remain > 0 => cards = IF primary = {} THEN missing ELSE missing \ {0}
  BY <1>2 DEF NeedCreate
<1> DEFINE S == selected \cup primary
<1> HIDE DEF covered, missing, remain, primary, cards, good
<1>10. S \subseteq exist /\ \A e \in S : Usable(e)
  BY <1>4, <1>5 DEF Usable
<1>11. \A a, b \in S : eniCardIndex(a) = eniCardIndex(b) => a = b
  BY <1>3, <1>5
<1>12. \A e \in S : eniCardIndex(e) \notin cards
  <2>1. \A e \in selected : eniCardIndex(e) \in covered
    BY <1>3
  <2>2. \A e \in primary : eniCardIndex(e) = 0 /\ 0 \notin cards
    BY <1>5, <1>9
  <2> QED BY <1>6, <1>9, <2>1, <2>2
<1>13. ASSUME remain > 0, NEW x \in 0 .. c - 1, x \notin cards
       PROVE  x \in {eniCardIndex(e) : e \in S}
  <2>1. x \in covered \/ (primary # {} /\ x = 0)
    BY <1>7, <1>8, <1>9, <1>13
  <2>2. CASE x \in covered
    BY <1>3, <2>2
  <2>3. CASE primary # {} /\ x = 0
    BY <1>5, <2>3
  <2> QED BY <2>1, <2>2, <2>3
<1>14. remain = 0 => cards = {} /\ \A e \in S : e.rdma
  BY <1>2, <1>4, <1>5, <1>9
<1>15. cards \subseteq 0 .. c - 1
  BY <1>6, <1>9
<1>16. \A e \in S : eniCardIndex(e) \in missing \/ e.rdma
  BY <1>4, <1>5, <1>7, <1>8
<1>17. ChosenFrom(r, S, c, missing)
  BY <1>1, <1>2, <1>9, <1>10, <1>11, <1>12, <1>13, <1>14, <1>15, <1>16 DEF ChosenFrom
<1> QED BY <1>1, <1>17 DEF missing, remain

-----------------------------------------------------------------------------
(* The stages *)

LEMMA SelectKeeps == ASSUME Planned, Select PROVE Planned'
<1>1. /\ phase = "input" /\ SupportsErdma(type) /\ Inputs /\ eris = {} /\ need = {} /\ created = {}
      /\ UNCHANGED <<type, managed, exist, leftover, created>>
  BY DEF Select, Planned, Planning
<1>2. CardCount(type) \in Nat \ {0} /\ QueuePairCount(type) \in Nat
  BY <1>1, TypeOfInstance
<1>3. PICK r \in SelectEriFromExist(exist, QueuePairCount(type), CardCount(type), managed) :
        IF r.ok
        THEN phase' = "selected" /\ eris' = r.eris /\ need' = r.need /\ qp' = r.qp
        ELSE phase' = "failed" /\ UNCHANGED <<eris, need, qp>>
  BY DEF Select
<1>4. CASE phase' = "failed" /\ UNCHANGED <<eris, need, qp>>
  BY <1>1, <1>4 DEF Planned, Planning, Inputs, Phases
<1>5. CASE phase' = "selected" /\ eris' = r.eris /\ need' = r.need /\ qp' = r.qp
  <2>0. qp' = RemainPerCard(exist, QueuePairCount(type), Missing)
    BY <1>1, <1>2, <1>5, SelectPlan DEF Missing
  <2>1. PICK S : ChosenFrom(r, S, CardCount(type), Missing)
    BY <1>1, <1>2, SelectPlan DEF Missing
  <2>2. /\ S \subseteq exist /\ eris' = {toEri(e, qp') : e \in S} /\ \A e \in S : Usable(e)
        /\ \A a, b \in S : eniCardIndex(a) = eniCardIndex(b) => a = b
        /\ qp' \in Nat /\ need' \subseteq 0 .. CardCount(type) - 1
        /\ \A e \in S : eniCardIndex(e) \notin need'
        /\ qp' > 0 => 0 .. CardCount(type) - 1 \subseteq {eniCardIndex(e) : e \in S} \cup need'
        /\ qp' = 0 => need' = {} /\ \A e \in S : e.rdma
        /\ need' \subseteq Missing /\ \A e \in S : eniCardIndex(e) \in Missing \/ e.rdma
    BY <1>5, <2>1 DEF ChosenFrom
  <2>3. Inputs' /\ CardCount(type') = CardCount(type) /\ SupportsErdma(type')
    BY <1>1, <1>5, <2>2 DEF Inputs, Phases
  <2>4. Origins'
    BY <1>1, <1>5, <2>2 DEF Origins, FromExist, Usable
  <2>5. \A d \in eris' : \E e \in S : d = toEri(e, qp') /\ d.card = eniCardIndex(e) /\ d.id = e.id
    BY <2>2, EriFields
  <2>6. {eniCardIndex(e) : e \in S} \subseteq {d.card : d \in eris'}
    BY <2>2, EriFields
  <2>7. OnePerCard(eris')
    BY <2>2, <2>5 DEF OnePerCard
  <2>8. Cards'
    <3>1. \A d \in eris' : d.card \notin need'
      BY <2>2, <2>5
    <3>2. qp' = 0 => \A d \in eris' : \E e \in exist : e.id = d.id /\ e.rdma
      BY <2>2, <2>5
    <3>3. qp' > 0 => 0 .. CardCount(type) - 1 \subseteq {d.card : d \in eris'} \cup need'
      BY <2>2, <2>6
    <3> QED BY <1>1, <2>2, <2>3, <2>7, <3>1, <3>2, <3>3 DEF Cards
  <2>9. Distinct'
    <3>1. \A a, b \in S : a.id = b.id => a = b
      BY <1>1, <2>2, Catalogue
    <3>2. \A d1, d2 \in eris' : d1.id = d2.id => d1 = d2
      BY <2>5, <3>1
    <3> QED BY <3>2 DEF Distinct
  <2>10. Shares'
    <3>1. Missing' = Missing
      BY <1>1 DEF Missing
    <3>2. \A d \in eris' : d.card \in Missing \/ \E e \in exist : e.id = d.id /\ e.rdma
      BY <2>2, <2>5
    <3> QED BY <1>1, <2>0, <2>2, <3>1, <3>2 DEF Shares
  <2> QED BY <1>5, <2>3, <2>4, <2>8, <2>9, <2>10 DEF Planned, Planning
<1> QED BY <1>3, <1>4, <1>5

\* What the tag lookup adds: one ENI for each of the cards it serves.
LEMMA ReusePlan ==
  ASSUME NEW tagged, NEW cards, NEW q, NEW reused \in ReuseTagged(tagged, cards, q, Inst)
  PROVE  \E f \in [ReusedCards(tagged, cards) -> tagged] :
            /\ \A a, b \in ReusedCards(tagged, cards) : f[a] = f[b] => a = b
            /\ reused = {TaggedEri(f[c], c, q) : c \in ReusedCards(tagged, cards)}
  BY DEF ReuseTagged, Injection, IsInjective, TaggedEri

LEMMA ReuseKeeps == ASSUME Planned, Reuse PROVE Planned'
<1> DEFINE served == ReusedCards(TaggedENIs, need)
<1>1. /\ phase = "selected" /\ phase' = "creating" /\ need' = need \ served
      /\ UNCHANGED <<type, managed, exist, leftover, qp, created>>
  BY DEF Reuse
<1>2. Inputs /\ Origins /\ Cards /\ Shares /\ Distinct /\ created = {} /\ \A d \in eris : FromExist(d)
  BY <1>1 DEF Planned, Planning, Origins
<1>3. PICK reused \in ReuseTagged(TaggedENIs, need, qp, Inst) : eris' = eris \cup reused
  BY DEF Reuse
<1> HIDE DEF served
<1>4. PICK f \in [served -> TaggedENIs] :
        /\ \A a, b \in served : f[a] = f[b] => a = b
        /\ reused = {TaggedEri(f[c], c, qp) : c \in served}
  BY <1>3, ReusePlan DEF served
<1>5. served \subseteq need /\ need \subseteq Nat
  <2>1. CardCount(type) \in Nat \ {0}
    BY <1>2, TypeOfInstance DEF Cards
  <2> QED BY <1>2, <2>1 DEF served, ReusedCards, Lowest, Cards
<1>6. \A d \in reused : \E c \in served :
        /\ d = TaggedEri(f[c], c, qp)
        /\ d.id = f[c].id /\ d.card = c
  BY <1>4, ReusedFields
<1>7. served \subseteq {d.card : d \in reused}
  BY <1>4, ReusedFields
<1>8. Inputs'
  BY <1>1, <1>2 DEF Inputs, Phases
<1>9. Origins'
  <2>1. \A d \in reused : FromTagged(d)
    BY <1>4, <1>5, <1>6 DEF FromTagged
  <2>2. \A d : FromExist(d)' <=> FromExist(d)
    BY <1>1 DEF FromExist, Usable
  <2>3. \A d : FromTagged(d)' <=> FromTagged(d)
    BY <1>1 DEF FromTagged, TaggedENIs
  <2> QED BY <1>1, <1>2, <1>3, <2>1, <2>2, <2>3 DEF Origins
<1>10. Cards'
  <2>1. OnePerCard(eris')
    <3>1. \A d, e \in reused : d.card = e.card => d = e
      BY <1>6
    <3>2. \A d \in eris, e \in reused : d.card # e.card
      BY <1>2, <1>5, <1>6 DEF Cards
    <3> QED BY <1>2, <1>3, <3>1, <3>2 DEF Cards, OnePerCard
  <2>2. \A d \in eris' : d.card \notin need'
    BY <1>1, <1>2, <1>3, <1>6 DEF Cards
  <2>3. qp > 0 => 0 .. CardCount(type) - 1 \subseteq {d.card : d \in eris'} \cup need'
    <3>1. {d.card : d \in eris'} \cup need' = {d.card : d \in eris} \cup {d.card : d \in reused} \cup need'
      BY <1>3
    <3> QED BY <1>1, <1>2, <1>7, <3>1 DEF Cards
  <2>4. qp = 0 => need = {} /\ reused = {}
    BY <1>2, <1>5, <1>6 DEF Cards
  <2>5. need' \subseteq 0 .. CardCount(type) - 1 /\ SupportsErdma(type)
    BY <1>1, <1>2 DEF Cards
  <2>6. qp = 0 => need' = {} /\ \A d \in eris' : \E e \in exist : e.id = d.id /\ e.rdma
    BY <1>1, <1>2, <1>3, <2>4 DEF Cards
  <2> QED BY <1>1, <2>1, <2>2, <2>3, <2>5, <2>6 DEF Cards
<1>11. Distinct'
  <2>1. TaggedENIs \subseteq exist \cup leftover
    BY DEF TaggedENIs
  <2>2. /\ exist \cap leftover = {} /\ \A e, g \in exist \cup leftover : e.id = g.id => e = g
    BY <1>2, Catalogue
  <2>3. \A c \in served : f[c] \in TaggedENIs
    BY <1>4
  <2>4. \A d, g \in reused : d.id = g.id => d = g
    BY <1>4, <1>6, <2>1, <2>2, <2>3
  <2>5. ASSUME NEW d \in eris, NEW g \in reused, d.id = g.id
        PROVE  Attached(d, g) /\ Attached(g, d)
    <3>1. PICK e \in exist : d.id = e.id /\ d.card = eniCardIndex(e)
      BY <1>2, EriFields DEF FromExist
    <3>2. PICK c \in served : g.id = f[c].id
      BY <1>6
    <3>3. f[c] = e
      BY <2>1, <2>2, <2>3, <2>5, <3>1, <3>2
    <3>4. e.creator
      BY <2>2, <2>3, <3>3 DEF TaggedENIs
    <3> QED BY <2>5, <3>1, <3>4 DEF Attached
  <2>6. \A d1, d2 \in eris' : d1.id = d2.id /\ d1 # d2 => Attached(d1, d2)
    BY <1>2, <1>3, <2>4, <2>5 DEF Distinct
  <2> QED BY <1>1, <2>6 DEF Distinct, Attached
<1>12. Shares'
  <2>1. Missing' = Missing
    BY <1>1 DEF Missing
  <2>2. \A d \in reused : d.card \in Missing
    BY <1>2, <1>5, <1>6 DEF Shares
  <2> QED BY <1>1, <1>2, <1>3, <2>1, <2>2 DEF Shares
<1> QED BY <1>1, <1>8, <1>9, <1>10, <1>11, <1>12 DEF Planned, Planning

LEMMA CreateKeeps == ASSUME Planned, Create PROVE Planned'
<1> DEFINE m == Min(need)
<1>1. /\ phase = "creating" /\ need # {} /\ need' = need \ {m} /\ phase' = "creating"
      /\ UNCHANGED <<type, managed, exist, leftover, qp>>
  BY DEF Create
<1>2. Inputs /\ Origins /\ Cards /\ Shares /\ Distinct
  BY <1>1 DEF Planned, Planning
<1>3. PICK id \in NewENIs \ created : /\ eris' = eris \cup {CreatedEri(id, m, Inst)}
                                      /\ created' = created \cup {id}
  BY DEF Create
<1>4. need \subseteq Nat
  <2>1. CardCount(type) \in Nat \ {0}
    BY <1>2, TypeOfInstance DEF Cards
  <2> QED BY <1>2, <2>1 DEF Cards
<1>5. m \in need /\ m \in Nat
  BY <1>1, <1>4, MinIsLeast
<1> HIDE DEF m
<1>6. PICK new : new = CreatedEri(id, m, Inst)
  OBVIOUS
<1>7. new.id = id /\ new.card = m /\ eris' = eris \cup {new}
  BY <1>3, <1>6, CreatedFields
<1>8. Inputs'
  BY <1>1, <1>2, <1>3 DEF Inputs
<1>9. Origins'
  <2>1. FromCloud(new)'
    BY <1>3, <1>5, <1>6 DEF FromCloud
  <2>2. \A d : /\ FromExist(d) => FromExist(d)'
    BY <1>1 DEF FromExist, Usable
  <2>3. \A d : FromTagged(d) => FromTagged(d)'
    BY <1>1 DEF FromTagged, TaggedENIs
  <2>4. \A d : FromCloud(d) => FromCloud(d)'
    BY <1>1, <1>3 DEF FromCloud
  <2> QED BY <1>1, <1>2, <1>7, <2>1, <2>2, <2>3, <2>4 DEF Origins
<1>10. Cards'
  <2>1. OnePerCard(eris')
    <3>1. \A d \in eris : d.card # new.card
      BY <1>2, <1>5, <1>7 DEF Cards
    <3> QED BY <1>2, <1>7, <3>1 DEF Cards, OnePerCard
  <2>2. \A d \in eris' : d.card \notin need'
    BY <1>1, <1>2, <1>7 DEF Cards
  <2>3. qp > 0 => 0 .. CardCount(type) - 1 \subseteq {d.card : d \in eris'} \cup need'
    <3>1. {d.card : d \in eris'} = {d.card : d \in eris} \cup {m}
      BY <1>7
    <3> QED BY <1>1, <1>2, <3>1 DEF Cards
  <2>4. qp # 0
    BY <1>1, <1>2 DEF Cards
  <2>5. need' \subseteq 0 .. CardCount(type) - 1 /\ SupportsErdma(type)
    BY <1>1, <1>2 DEF Cards
  <2> QED BY <1>1, <2>1, <2>2, <2>3, <2>4, <2>5 DEF Cards
<1>11. Distinct'
  <2>1. \A e \in exist \cup leftover : e.id \notin NewENIs
    BY <1>2, Catalogue
  <2>2. ASSUME NEW d \in eris PROVE d.id # new.id
    <3>1. CASE FromExist(d)
      BY <1>7, <2>1, <3>1, EriFields DEF FromExist
    <3>2. CASE FromTagged(d)
      BY <1>7, <2>1, <3>2, ReusedFields DEF FromTagged, TaggedENIs
    <3>3. CASE FromCloud(d)
      BY <1>7, <3>3, CreatedFields DEF FromCloud
    <3> QED BY <1>2, <3>1, <3>2, <3>3 DEF Origins
  <2>3. \A d1, d2 \in eris' : d1.id = d2.id /\ d1 # d2 => Attached(d1, d2)
    BY <1>2, <1>7, <2>2 DEF Distinct
  <2> QED BY <1>1, <2>3 DEF Distinct, Attached
<1>12. Shares'
  <2>1. Missing' = Missing
    BY <1>1 DEF Missing
  <2> QED BY <1>1, <1>2, <1>5, <1>7, <2>1 DEF Shares
<1> QED BY <1>1, <1>8, <1>9, <1>10, <1>11, <1>12 DEF Planned, Planning

-----------------------------------------------------------------------------
(* The theorems *)

LEMMA InitPlanned == Init => Planned
  BY DEF Init, Planned, Planning, Inputs, Phases

LEMMA NextPlanned == Planned /\ [Next]_vars => Planned'
<1> SUFFICES ASSUME Planned, [Next]_vars PROVE Planned'
  OBVIOUS
<1>1. CASE Unsupported
  BY <1>1 DEF Unsupported, Planned, Planning, Inputs, Phases
<1>2. CASE Done
  <2>1. /\ phase = "creating" /\ phase' = "done" /\ need = {}
        /\ UNCHANGED <<type, managed, exist, leftover, eris, need, qp, created>>
    BY <1>2 DEF Done
  <2>2. Inputs /\ Origins /\ Cards /\ Shares /\ Distinct
    BY <2>1 DEF Planned, Planning
  <2>3. Inputs' /\ Cards' /\ Shares' /\ Distinct'
    BY <2>1, <2>2 DEF Inputs, Phases, Cards, Shares, Missing, Distinct, Attached
  <2>4. Origins'
    BY <2>1, <2>2 DEF Origins, FromExist, FromTagged, FromCloud, Usable, TaggedENIs
  <2> QED BY <2>1, <2>3, <2>4 DEF Planned, Planning
<1>3. CASE UNCHANGED vars
  <2>1. UNCHANGED <<type, managed, exist, leftover, phase, eris, need, qp, created>>
    BY <1>3 DEF vars
  <2>2. Inputs'
    BY <2>1 DEF Planned, Inputs
  <2>3. Origins => Origins'
    BY <2>1 DEF Origins, FromExist, FromTagged, FromCloud, Usable, TaggedENIs
  <2>4. (Cards => Cards') /\ (Shares => Shares') /\ (Distinct => Distinct')
    BY <2>1 DEF Cards, Shares, Missing, Distinct, Attached
  <2> QED BY <2>1, <2>2, <2>3, <2>4 DEF Planned
<1> QED BY <1>1, <1>2, <1>3, SelectKeeps, ReuseKeeps, CreateKeeps DEF Next

LEMMA AlwaysPlanned == Spec => []Planned
  BY InitPlanned, NextPlanned, PTL DEF Spec

\* The cards and queue pairs of a plan are natural numbers, whatever the API left
\* out of the instance type and of the ENIs (toEri, eniCardIndex).
THEOREM PlanTypes == Spec => []TypeOK
<1>1. Planned => TypeOK
  <2> SUFFICES ASSUME Planned PROVE TypeOK
    OBVIOUS
  <2>1. Inputs
    BY DEF Planned
  <2>2. CASE phase \notin Planning
    BY <2>1, <2>2 DEF Planned, Inputs, TypeOK
  <2>3. CASE phase \in Planning
    <3>1. Origins /\ Cards
      BY <2>3 DEF Planned
    <3>2. CardCount(type) \in Nat \ {0}
      BY <2>1, <3>1, TypeOfInstance DEF Cards
    <3>3. need \subseteq Nat
      BY <3>1, <3>2 DEF Cards
    <3>4. ASSUME NEW e \in exist \cup leftover
          PROVE  toEri(e, qp).qp \in Nat /\ e.primary \in BOOLEAN /\ eniCardIndex(e) \in Nat
      BY <2>1, <3>4, Catalogue, EriFields DEF Inputs, eniCardIndex
    <3>5. ASSUME NEW d \in eris PROVE d.qp \in Nat /\ d.card \in Nat /\ d.primary \in BOOLEAN
      <4>1. CASE FromExist(d)
        BY <3>4, <4>1, EriFields DEF FromExist
      <4>2. CASE FromTagged(d)
        BY <3>4, <4>2, ReusedFields DEF FromTagged, TaggedENIs
      <4>3. CASE FromCloud(d)
        BY <4>3, CreatedFields DEF FromCloud
      <4> QED BY <3>1, <4>1, <4>2, <4>3 DEF Origins
    <3> QED BY <2>1, <3>3, <3>5 DEF Inputs, TypeOK
  <2> QED BY <2>2, <2>3
<1> QED BY <1>1, AlwaysPlanned, PTL

\* No card is planned twice, and as soon as anything is added to what the
\* instance has, every one of its cards has its interface: none is lost or
\* repeated between SelectEriFromExist, the tag lookup and the creation loop.
THEOREM CardsServed == Spec => []EveryCardOnce
<1>1. Planned => EveryCardOnce
  <2> SUFFICES ASSUME Planned, phase = "done"
               PROVE  /\ \A d1, d2 \in eris : d1.card = d2.card => d1 = d2
                      /\ Added # {} => 0 .. CardCount(type) - 1 \subseteq {d.card : d \in eris}
    BY DEF EveryCardOnce
  <2>1. Inputs /\ Cards /\ need = {}
    BY DEF Planned, Planning
  <2>2. Added # {} => qp > 0
    BY <2>1 DEF Added, Cards, Inputs
  <2> QED BY <2>1, <2>2 DEF Cards, OnePerCard
<1> QED BY <1>1, AlwaysPlanned, PTL

\* After any provisioning too, an ENI is planned for two cards only if it is an
\* attached one of the controller, then for its own card and one that misses an
\* ENI; a leftover, a created or a foreign ENI never is (CreateEriForInstance, which
\* looks tagged ENIs up whether they are attached or not).
THEOREM RepeatedIsAttached == Spec => []TwiceOnlyAttached
<1>1. Planned => TwiceOnlyAttached
  BY DEF Planned, Planning, Distinct, Attached, TwiceOnlyAttached
<1> QED BY <1>1, AlwaysPlanned, PTL

\* A controller that is not to manage interfaces of others plans none of them but
\* the primary ENI (OwnENI, SelectEriFromExist).
THEOREM ForeignUntouched == Spec => []ForeignLeftAlone
<1>1. Planned => ForeignLeftAlone
  <2> SUFFICES ASSUME Planned, phase = "done", ~managed, NEW d \in eris, NEW e \in exist,
                      d.id = e.id, ~e.primary
               PROVE  e.creator
    BY DEF ForeignLeftAlone
  <2>1. Inputs /\ Origins
    BY DEF Planned, Planning
  <2>2. /\ exist \cap leftover = {} /\ \A x \in exist \cup leftover : x.id \notin NewENIs
        /\ \A x, y \in exist \cup leftover : x.id = y.id => x = y
    BY <2>1, Catalogue
  <2>3. CASE FromExist(d)
    <3>1. Usable(e)
      BY <2>2, <2>3, EriFields DEF FromExist
    <3> QED BY <3>1 DEF Usable, OwnENI
  <2>4. CASE FromTagged(d)
    <3>1. e \in TaggedENIs
      BY <2>2, <2>4, ReusedFields DEF FromTagged, TaggedENIs
    <3> QED BY <2>2, <3>1 DEF TaggedENIs
  <2>5. CASE FromCloud(d)
    BY <2>1, <2>2, <2>5, CreatedFields DEF FromCloud, Inputs
  <2> QED BY <2>1, <2>3, <2>4, <2>5 DEF Origins
<1> QED BY <1>1, AlwaysPlanned, PTL

\* The share times the cards that get one is no more than what is left.
LEMMA ShareBound ==
  ASSUME NEW a \in Nat, NEW n \in Nat \ {0}, NEW k \in Nat, k <= n
  PROVE  (a \div n) * k <= a
<1>1. a \div n \in Nat /\ (a \div n) * n <= a
  OBVIOUS
<1>2. PICK s \in Nat : s = a \div n
  BY <1>1
<1>3. s * k <= s * n
  OBVIOUS
<1> QED BY <1>1, <1>2, <1>3

\* The queue pairs that the instance's RDMA interfaces hold and those that the plan
\* gives to more of them stay within what the instance type allows, whatever the
\* division among the missing cards leaves over (SelectEriFromExist).
THEOREM BudgetKept == Spec => []QueuePairBudget
<1>1. Planned => QueuePairBudget
  <2> SUFFICES ASSUME Planned, phase = "done", Added # {},
                      \A e \in leftover \cup {e \in exist : ~e.rdma} : e.qp <= qp
               PROVE  QueuePairSum({e \in exist : e.rdma}) + QueuePairSum(Granted)
                        <= QueuePairCount(type)
    BY DEF QueuePairBudget
  <2>1. Inputs /\ Origins /\ Cards /\ Shares
    BY DEF Planned, Planning
  <2> DEFINE limit == QueuePairCount(type)
             held  == QueuePairSum({e \in exist : e.rdma})
  <2>2. CardCount(type) \in Nat \ {0} /\ limit \in Nat /\ qp \in Nat
    BY <2>1, TypeOfInstance DEF Cards, Inputs
  <2>3. held = ExistQueuePairCount(exist) /\ held \in Nat
    BY <2>1, Catalogue, HeldType DEF ExistQueuePairCount
  <2>4. \A d \in Added : d \in eris /\ d.card \in Missing
    BY <2>1 DEF Added, Shares
  <2>5. Missing # {} /\ held <= limit /\ Missing \subseteq 0 .. CardCount(type) - 1
    BY <2>3, <2>4 DEF Missing, MissingCards
  <2>6. IsFiniteSet(Missing) /\ Cardinality(Missing) \in Nat \ {0}
    <3>1. IsFiniteSet(0 .. CardCount(type) - 1)
      BY <2>2, FS_Interval
    <3> QED BY <2>5, <3>1, FS_Subset, FS_CardinalityType, FS_EmptySet
  <2>7. qp = (limit - held) \div Cardinality(Missing)
    BY <2>1, <2>3, <2>5 DEF Shares, RemainPerCard
  <2>8. ASSUME NEW d \in Added
        PROVE  d.id \in created \/ (d.qp \in Nat /\ d.qp <= qp)
    <3>1. \A e \in exist \cup leftover : e.qp \in Nat
      BY <2>1, Catalogue
    <3>2. ASSUME NEW e \in exist \cup leftover, d.id = e.id, d.qp = toEri(e, qp).qp
          PROVE  d.qp \in Nat /\ d.qp <= qp
      <4>1. e \in leftover \/ ~e.rdma
        BY <3>2 DEF Added
      <4> QED BY <2>2, <3>1, <3>2, <4>1, EriFields
    <3>3. CASE FromExist(d)
      BY <3>2, <3>3, EriFields DEF FromExist
    <3>4. CASE FromTagged(d)
      BY <3>2, <3>4, ReusedFields DEF FromTagged, TaggedENIs
    <3>5. CASE FromCloud(d)
      BY <3>5, CreatedFields DEF FromCloud
    <3> QED BY <2>1, <2>4, <3>3, <3>4, <3>5 DEF Origins
  <2> DEFINE grant(d) == [d EXCEPT !.qp = IF d.id \in created THEN qp ELSE d.qp]
  <2>9. Granted = {grant(d) : d \in Added}
    BY DEF Granted
  <2>10. ASSUME NEW d \in eris, NEW n
         PROVE  [d EXCEPT !.qp = n].card = d.card /\ [d EXCEPT !.qp = n].qp = n
    <3>1. CASE FromExist(d)
      BY <3>1 DEF FromExist, toEri
    <3>2. CASE FromTagged(d)
      BY <3>2 DEF FromTagged, TaggedEri, toEri
    <3>3. CASE FromCloud(d)
      BY <3>3 DEF FromCloud, CreatedEri
    <3> QED BY <2>1, <3>1, <3>2, <3>3 DEF Origins
  <2>11. \A d \in Added : /\ grant(d).card = d.card
                          /\ grant(d).qp \in Nat /\ grant(d).qp <= qp
    <3> SUFFICES ASSUME NEW d \in Added
                 PROVE  /\ grant(d).card = d.card
                        /\ grant(d).qp \in Nat /\ grant(d).qp <= qp
      OBVIOUS
    <3>1. PICK n : n = IF d.id \in created THEN qp ELSE d.qp
      OBVIOUS
    <3>2. grant(d).card = d.card /\ grant(d).qp = n
      BY <2>4, <2>10, <3>1
    <3> QED BY <2>2, <2>8, <3>1, <3>2
  <2> HIDE DEF grant
  <2>12. /\ \A g \in Granted : g.qp \in Nat /\ g.qp <= qp /\ g.card \in Missing
         /\ \A g, h \in Granted : g.card = h.card => g = h
    <3>1. \A d, e \in Added : d.card = e.card => d = e
      BY <2>1, <2>4 DEF Cards, OnePerCard
    <3> QED BY <2>4, <2>9, <2>11, <3>1
  <2>13. IsFiniteSet(Granted) /\ Cardinality(Granted) <= Cardinality(Missing)
    <3> DEFINE f == [g \in Granted |-> g.card]
    <3>1. f \in Injection(Granted, Missing)
      BY <2>12 DEF Injection, IsInjective
    <3> QED BY <2>6, <3>1, FS_Injection
  <2>14. Counted(Granted)
    BY <2>12, <2>13 DEF Counted
  <2>15. Cardinality(Granted) \in Nat
    BY <2>13, FS_CardinalityType
  <2>16. QueuePairSum(Granted) \in Nat /\ QueuePairSum(Granted) <= qp * Cardinality(Granted)
    BY <2>2, <2>12, <2>14, SumBound
  <2>17. limit - held \in Nat
    BY <2>2, <2>3, <2>5
  <2>18. qp * Cardinality(Granted) <= limit - held
    BY <2>6, <2>7, <2>13, <2>15, <2>17, ShareBound
  <2> HIDE DEF limit, held
  <2>19. PICK m \in Nat : m = qp * Cardinality(Granted)
    BY <2>2, <2>15
  <2>20. held + QueuePairSum(Granted) <= limit
    BY <2>2, <2>3, <2>16, <2>17, <2>18, <2>19
  <2> QED BY <2>20 DEF limit, held
<1> QED BY <1>1, AlwaysPlanned, PTL
==============================================================================
