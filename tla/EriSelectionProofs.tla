------------------------- MODULE EriSelectionProofs -------------------------
(***************************************************************************)
(* Facts about the operators of EriSelection, for all inputs.              *)
(***************************************************************************)
EXTENDS EriSelection, FiniteSetTheorems, TLAPS

\* A non-empty set of naturals has a least element, and Min finds it.
LEMMA MinIsLeast ==
    ASSUME NEW S, S \subseteq Nat, S # {}
    PROVE  Min(S) \in S /\ \A y \in S : Min(S) <= y
<1>1. PICK x \in S : \A y \in S : ~(<<y, x>> \in OpToRel(<, Nat))
  BY NatLessThanWellFounded, WFMin
<1>2. \A y \in S : x <= y
  <2>1. OpToRel(<, Nat) = {ss \in Nat \X Nat : ss[1] < ss[2]}
    BY DEF OpToRel
  <2>2. ASSUME NEW y \in S, y < x PROVE FALSE
    <3>1. <<y, x>> \in {ss \in Nat \X Nat : ss[1] < ss[2]}
      BY <2>2
    <3>. QED
      BY <1>1, <2>1, <3>1
  <2>. QED
    BY <2>2
<1>. QED
  BY <1>2 DEF Min

-----------------------------------------------------------------------------
(* The sum of queue pairs (MapThenSumSet chooses the elements one by one) *)

\* A set that holds 0 and every successor holds every natural: the induction the
\* provers can use, since it takes a set where the library takes an operator.
LEMMA FromZeroUp ==
    ASSUME NEW N, 0 \in N, \A n \in Nat : n \in N => n + 1 \in N
    PROVE  Nat \subseteq N
<1> SUFFICES ASSUME Nat \ N # {} PROVE FALSE
  OBVIOUS
<1> DEFINE m == Min(Nat \ N)
<1>1. m \in Nat \ N /\ \A y \in Nat \ N : m <= y
  BY MinIsLeast
<1> HIDE DEF m
<1>2. m - 1 \in Nat /\ m - 1 \notin Nat \ N
  BY <1>1
<1>. QED
  BY <1>1, <1>2

\* One step of the sum of the queue pairs of s: an element's, and the rest's in h.
SumStep(h, s) ==
    IF s = {} THEN 0 ELSE (CHOOSE x \in s : TRUE).qp + h[s \ {CHOOSE x \in s : TRUE}]

\* The sets up to a size, and a sum for each of them.
UpTo(S, n) == {s \in SUBSET S : Cardinality(s) <= n}
SumsUpTo(S, n) == \E h : h = [s \in UpTo(S, n) |-> SumStep(h, s)]

\* The rest of a set is smaller by one.
LEMMA Smaller ==
    ASSUME NEW S, IsFiniteSet(S), NEW n \in Nat, NEW s \in UpTo(S, n + 1), s # {}
    PROVE  /\ (CHOOSE x \in s : TRUE) \in s
           /\ s \ {CHOOSE x \in s : TRUE} \in UpTo(S, n)
           /\ Cardinality(s) = Cardinality(s \ {CHOOSE x \in s : TRUE}) + 1
           /\ Cardinality(s) \in Nat
<1>1. (CHOOSE x \in s : TRUE) \in s
  OBVIOUS
<1>2. PICK y : y = (CHOOSE x \in s : TRUE)
  OBVIOUS
<1>3. s \subseteq S /\ IsFiniteSet(s) /\ Cardinality(s) \in Nat /\ Cardinality(s) <= n + 1
  BY FS_Subset, FS_CardinalityType DEF UpTo
<1>4. Cardinality(s \ {y}) = Cardinality(s) - 1 /\ IsFiniteSet(s \ {y})
  BY <1>1, <1>2, <1>3, FS_RemoveElement
<1>5. Cardinality(s \ {y}) \in Nat
  BY <1>4, FS_CardinalityType
<1>. QED
  BY <1>1, <1>2, <1>3, <1>4, <1>5 DEF UpTo

\* The recursion has a solution on the subsets of every size.
LEMMA SumsExist ==
    ASSUME NEW S, IsFiniteSet(S), NEW n \in Nat
    PROVE  SumsUpTo(S, n)
<1> DEFINE N == {k \in Nat : SumsUpTo(S, k)}
<1>1. 0 \in N
  <2> DEFINE h == [s \in UpTo(S, 0) |-> 0]
  <2>1. \A s \in UpTo(S, 0) : s = {}
    BY FS_Subset, FS_CardinalityType, FS_EmptySet DEF UpTo
  <2>2. h = [s \in UpTo(S, 0) |-> SumStep(h, s)]
    BY <2>1 DEF SumStep
  <2>. QED
    BY <2>2 DEF SumsUpTo
<1>2. ASSUME NEW k \in Nat, k \in N PROVE k + 1 \in N
  <2>1. PICK h : h = [s \in UpTo(S, k) |-> SumStep(h, s)]
    BY <1>2 DEF SumsUpTo
  <2> DEFINE g == [s \in UpTo(S, k + 1) |-> SumStep(h, s)]
  <2>2. \A s \in UpTo(S, k) : s \in UpTo(S, k + 1) /\ g[s] = h[s]
    <3>1. UpTo(S, k) \subseteq UpTo(S, k + 1)
      BY FS_Subset, FS_CardinalityType DEF UpTo
    <3>. QED
      BY <2>1, <3>1
  <2>3. ASSUME NEW s \in UpTo(S, k + 1) PROVE SumStep(h, s) = SumStep(g, s)
    <3> HIDE DEF g
    <3>1. CASE s = {}
      BY <3>1 DEF SumStep
    <3>2. CASE s # {}
      <4>1. PICK x : x = (CHOOSE y \in s : TRUE)
        OBVIOUS
      <4>2. s \ {x} \in UpTo(S, k)
        BY <3>2, <4>1, Smaller
      <4>3. SumStep(h, s) = x.qp + h[s \ {x}] /\ SumStep(g, s) = x.qp + g[s \ {x}]
        BY <3>2, <4>1 DEF SumStep
      <4>. QED
        BY <2>2, <4>2, <4>3
    <3>. QED
      BY <3>1, <3>2
  <2>4. g = [s \in UpTo(S, k + 1) |-> SumStep(g, s)]
    BY <2>3
  <2> HIDE DEF g
  <2>. QED
    BY <2>4 DEF SumsUpTo
<1>. QED
  BY <1>1, <1>2, FromZeroUp

\* Interfaces: finitely many, each with a number of queue pairs.
Counted(enis) == IsFiniteSet(enis) /\ \A e \in enis : e.qp \in Nat

\* Their queue pairs are a natural number, and at most b for each of them when none
\* holds more than b.
LEMMA SumBound ==
    ASSUME NEW S, Counted(S), NEW b \in Nat
    PROVE  /\ QueuePairSum(S) \in Nat
           /\ (\A e \in S : e.qp <= b) => QueuePairSum(S) <= b * Cardinality(S)
<1> DEFINE h == CHOOSE g : g = [s \in SUBSET S |-> SumStep(g, s)]
           Low == \A e \in S : e.qp <= b
<1>0. IsFiniteSet(S) /\ \A e \in S : e.qp \in Nat
  BY DEF Counted
<1>1. QueuePairSum(S) = h[S]
  BY Zenon DEF QueuePairSum, MapThenSumSet, MapThenFoldSet, SumStep
<1>2. h = [s \in SUBSET S |-> SumStep(h, s)]
  <2>1. Cardinality(S) \in Nat
    BY <1>0, FS_CardinalityType
  <2>2. UpTo(S, Cardinality(S)) = SUBSET S
    BY <1>0, FS_Subset DEF UpTo
  <2>3. PICK g : g = [s \in UpTo(S, Cardinality(S)) |-> SumStep(g, s)]
    BY <1>0, <2>1, SumsExist DEF SumsUpTo
  <2>4. g = [s \in SUBSET S |-> SumStep(g, s)]
    BY <2>2, <2>3
  <2>. QED
    BY <2>4
<1> HIDE DEF h
<1> DEFINE N == {k \in Nat : \A s \in UpTo(S, k) : h[s] \in Nat /\ (Low => h[s] <= b * Cardinality(s))}
<1>3. 0 \in N
  <2>1. \A s \in UpTo(S, 0) : s = {}
    BY <1>0, FS_Subset, FS_CardinalityType, FS_EmptySet DEF UpTo
  <2>2. h[{}] = 0 /\ Cardinality({}) = 0
    BY <1>2, FS_EmptySet DEF SumStep
  <2>3. b * 0 = 0
    OBVIOUS
  <2>4. \A s \in UpTo(S, 0) : h[s] = 0 /\ b * Cardinality(s) = 0
    BY <2>1, <2>2, <2>3
  <2>. QED
    BY <2>4
<1>4. ASSUME NEW k \in Nat, k \in N PROVE k + 1 \in N
  <2> SUFFICES ASSUME NEW s \in UpTo(S, k + 1)
               PROVE  h[s] \in Nat /\ (Low => h[s] <= b * Cardinality(s))
    OBVIOUS
  <2>1. CASE s = {}
    BY <1>2, <2>1, FS_EmptySet DEF SumStep
  <2>2. CASE s # {}
    <3>1. PICK x : x = (CHOOSE y \in s : TRUE)
      OBVIOUS
    <3>2. /\ x \in s /\ s \ {x} \in UpTo(S, k)
          /\ Cardinality(s) = Cardinality(s \ {x}) + 1 /\ Cardinality(s) \in Nat
      BY <1>0, <2>2, <3>1, Smaller
    <3>3. h[s \ {x}] \in Nat /\ (Low => h[s \ {x}] <= b * Cardinality(s \ {x}))
      BY <1>4, <3>2
    <3>4. s \in SUBSET S /\ s \ {x} \in SUBSET S
      BY DEF UpTo
    <3>5. h[s] = x.qp + h[s \ {x}]
      BY <1>2, <2>2, <3>1, <3>4 DEF SumStep
    <3>6. x.qp \in Nat /\ (Low => x.qp <= b)
      BY <1>0, <3>2, <3>4
    <3>7. Cardinality(s \ {x}) \in Nat
      BY <1>0, <3>4, FS_Subset, FS_CardinalityType
    <3>8. PICK m \in Nat : m = Cardinality(s \ {x})
      BY <3>7
    <3>9. b * (m + 1) = b * m + b /\ b * m \in Nat
      OBVIOUS
    <3>. QED
      BY <3>2, <3>3, <3>5, <3>6, <3>8, <3>9
  <2>. QED
    BY <2>1, <2>2
<1>5. Nat \subseteq N
  <2> HIDE DEF N
  <2>. QED
    BY <1>3, <1>4, FromZeroUp
<1>6. S \in UpTo(S, Cardinality(S)) /\ Cardinality(S) \in Nat
  BY <1>0, FS_CardinalityType DEF UpTo
<1>. QED
  BY <1>1, <1>5, <1>6

\* What an instance's interfaces hold is a number, whoever owns them.
LEMMA HeldType ==
    ASSUME NEW enis, Counted(enis)
    PROVE  ExistQueuePairCount(enis) \in Nat
<1> DEFINE S == {e \in enis : e.rdma}
<1>1. Counted(S)
  BY FS_Subset DEF Counted
<1>. QED
  BY <1>1, SumBound DEF ExistQueuePairCount

-----------------------------------------------------------------------------
(* The cards and the plan *)

\* SelectERIs gives an ERDMA instance at least one card.
LEMMA CardCountType ==
    ASSUME NEW type,
           type \in [eriQuantity : Nat \cup {Nil}, networkCards : Nat \cup {Nil},
                     queuePairs : Nat, gpus : Nat \cup {Nil}],
           SupportsErdma(type)
    PROVE  CardCount(type) \in Nat \ {0} /\ QueuePairCount(type) \in Nat
<1>1. CardCount(type) \in Nat \ {0}
  <2>1. CASE type.networkCards = Nil \/ type.networkCards < 2
    BY <2>1 DEF CardCount
  <2>2. CASE ~(type.networkCards = Nil \/ type.networkCards < 2)
    <3>1. {type.networkCards, type.eriQuantity} \subseteq Nat \ {0}
      BY <2>2 DEF SupportsErdma, Nil
    <3>2. Min({type.networkCards, type.eriQuantity}) \in Nat \ {0}
      BY <3>1, MinIsLeast
    <3>. QED
      BY <2>2, <3>2 DEF CardCount
  <2>. QED
    BY <2>1, <2>2
<1>. QED
  BY <1>1 DEF QueuePairCount

\* The queue pairs a card may have are a natural number.
LEMMA QuotientType ==
    ASSUME NEW a \in Nat, NEW b \in Nat \ {0}
    PROVE  a \div b \in Nat
OBVIOUS

LEMMA RemainType ==
    ASSUME NEW existENIs, Counted(existENIs), NEW q \in Nat, NEW c \in Nat, NEW managed
    PROVE  RemainPerCard(existENIs, q, MissingCards(existENIs, q, c, managed)) \in Nat
<1> DEFINE missing == MissingCards(existENIs, q, c, managed)
           held == ExistQueuePairCount(existENIs)
<1>1. held \in Nat
  BY HeldType
<1>2. CASE missing = {}
  BY <1>2 DEF RemainPerCard
<1>3. CASE missing # {}
  <2>1. held <= q /\ missing \subseteq 0 .. c - 1
    BY <1>3 DEF MissingCards
  <2>2. IsFiniteSet(missing)
    <3>1. IsFiniteSet(0 .. c - 1)
      BY FS_Interval
    <3>. QED
      BY <2>1, <3>1, FS_Subset
  <2>3. Cardinality(missing) \in Nat \ {0}
    BY <2>2, <1>3, FS_CardinalityType, FS_EmptySet
  <2>4. q - held \in Nat
    BY <1>1, <2>1
  <2>5. (q - held) \div Cardinality(missing) \in Nat
    BY <2>3, <2>4, QuotientType
  <2>. QED
    BY <1>3, <2>5 DEF RemainPerCard
<1>. QED
  BY <1>2, <1>3

\* FirstPerCard picks among the RDMA interfaces that the controller may use.
LEMMA FirstPerCardOwned ==
    ASSUME NEW existENIs, NEW managed, NEW selected \in FirstPerCard(existENIs, managed)
    PROVE  \A e \in selected : e \in existENIs /\ e.rdma /\ OwnENI(e, managed)
<1> DEFINE owned == OwnedERIs(existENIs, managed)
           Ts == { {e \in owned : eniCardIndex(e) = c} : c \in CoveredCards(existENIs, managed) }
<1>1. PICK f \in [Ts -> UNION Ts] : selected = Range(f)
  BY DEF FirstPerCard, Choices
<1>2. selected \subseteq UNION Ts
  BY <1>1 DEF Range
<1>3. UNION Ts \subseteq owned
  OBVIOUS
<1>. QED
  BY <1>2, <1>3 DEF OwnedERIs

\* Interfaces of the instance, and cards of the instance that still need one.
PlanFrom(r, existENIs, c) ==
    /\ r.need \subseteq 0 .. c - 1
    /\ r.qp \in Nat
    /\ \A d \in r.eris : \E e \in existENIs : d = toEri(e, r.qp)

\* What SelectEriFromExist returns, whatever the interfaces and the limits are.
LEMMA SelectType ==
    ASSUME NEW existENIs, Counted(existENIs), NEW q \in Nat, NEW c \in Nat \ {0}, NEW managed,
           NEW r \in SelectEriFromExist(existENIs, q, c, managed)
    PROVE  PlanFrom(r, existENIs, c)
<1> DEFINE covered == CoveredCards(existENIs, managed)
           missing == MissingCards(existENIs, q, c, managed)
           remain  == RemainPerCard(existENIs, q, missing)
           primary == PrimaryForCard0(existENIs, remain, covered)
           need    == NeedCreate(missing, remain, primary)
<1>1. PICK selected \in FirstPerCard(existENIs, managed) :
         /\ r.eris = {toEri(e, remain) : e \in selected \cup primary}
         /\ r.need = need
         /\ r.qp = remain
  BY DEF SelectEriFromExist
<1>2. remain \in Nat
  BY RemainType
<1>3. missing \subseteq 0 .. c - 1
  BY DEF MissingCards
<1>4. need \subseteq missing
  BY DEF NeedCreate
<1>5. selected \cup primary \subseteq existENIs
  BY FirstPerCardOwned DEF PrimaryForCard0
<1>. QED
  BY <1>1, <1>2, <1>3, <1>4, <1>5 DEF PlanFrom

\* The cards that need a new ENI are none but the cards after the first.
NeedsNone0(r, c) == r.need \subseteq 1 .. c - 1

\* If the primary ENI is attached, and on card 0, that card needs no new ENI.
LEMMA SelectNeed ==
    ASSUME NEW existENIs, Counted(existENIs), NEW q \in Nat, NEW c \in Nat \ {0}, NEW managed,
           NEW p \in existENIs, p.primary,
           NEW r \in SelectEriFromExist(existENIs, q, c, managed)
    PROVE  NeedsNone0(r, c)
<1> DEFINE covered == CoveredCards(existENIs, managed)
           missing == MissingCards(existENIs, q, c, managed)
           remain  == RemainPerCard(existENIs, q, missing)
           primary == PrimaryForCard0(existENIs, remain, covered)
           need    == NeedCreate(missing, remain, primary)
<1>1. r.need = need
  BY DEF SelectEriFromExist
<1>2. remain \in Nat
  BY RemainType
<1>3. missing \subseteq (0 .. c - 1) \ covered
  BY DEF MissingCards
<1>4. need \subseteq 1 .. c - 1
  <2>1. CASE remain = 0
    BY <2>1 DEF NeedCreate
  <2>2. CASE remain > 0 /\ 0 \in covered
    BY <2>2, <1>3 DEF NeedCreate
  <2>3. CASE remain > 0 /\ 0 \notin covered
    <3>1. p \in primary
      BY <2>3 DEF PrimaryForCard0
    <3>. QED
      BY <2>3, <3>1, <1>3 DEF NeedCreate
  <2>. QED
    BY <1>2, <2>1, <2>2, <2>3
<1>. QED
  BY <1>1, <1>4 DEF NeedsNone0

\* The cards that are left after k of them were served from the lowest up: none,
\* or at least k fewer than before.
LEMMA LowestLeaves ==
    ASSUME NEW S, S \subseteq Nat, IsFiniteSet(S), NEW k \in Nat, S \ Lowest(S, k) # {}
    PROVE  k + Cardinality(S \ Lowest(S, k)) <= Cardinality(S)
<1> DEFINE rest == S \ Lowest(S, k)
           m == Min(rest)
           below == {d \in S : d < m}
<1>1. m \in rest /\ \A y \in rest : m <= y
  BY MinIsLeast DEF Lowest
<1>2. IsFiniteSet(below) /\ Cardinality(below) \in Nat
  BY FS_Subset, FS_CardinalityType
<1>3. ~(Cardinality(below) < k)
  BY <1>1 DEF Lowest
<1>4. rest \subseteq S \ below
  <2>1. \A y \in rest : ~(y < m)
    <3>1. m \in Nat /\ rest \subseteq Nat
      BY <1>1
    <3> HIDE DEF m, rest
    <3>. QED
      BY <1>1, <3>1
  <2>. QED
    BY <2>1
<1>5. IsFiniteSet(S \ below) /\ Cardinality(S \ below) = Cardinality(S) - Cardinality(S \cap below)
  BY FS_Difference
<1>6. S \cap below = below
  OBVIOUS
<1>7. Cardinality(rest) <= Cardinality(S \ below) /\ IsFiniteSet(rest)
  BY <1>4, <1>5, FS_Subset
<1>8. Cardinality(rest) \in Nat /\ Cardinality(S) \in Nat /\ Cardinality(S \ below) \in Nat
  BY <1>5, <1>7, FS_CardinalityType
<1>9. k + Cardinality(rest) <= Cardinality(S)
  <2> HIDE DEF below, rest
  <2>. QED
    BY <1>2, <1>3, <1>5, <1>6, <1>7, <1>8
<1>. QED
  BY <1>9

\* Devices made of tagged ENIs, for cards that need one.
ReusedFrom(reused, tagged, need, q, inst) ==
    \A d \in reused : \E e \in tagged, c \in need :
        d = [toEri(e, q) EXCEPT !.inst = inst, !.card = c]

\* What the tag lookup of CreateEriForInstance adds to the plan.
LEMMA ReuseResult ==
    ASSUME NEW tagged, NEW need, NEW q, NEW inst,
           NEW reused \in ReuseTagged(tagged, need, q, inst)
    PROVE  ReusedFrom(reused, tagged, need, q, inst)
<1>1. PICK f \in [ReusedCards(tagged, need) -> tagged] :
         reused = { [toEri(f[c], q) EXCEPT !.inst = inst, !.card = c] :
                      c \in ReusedCards(tagged, need) }
  BY DEF ReuseTagged, Injection
<1>2. ReusedCards(tagged, need) \subseteq need
  BY DEF ReusedCards, Lowest
<1>. QED
  BY <1>1, <1>2 DEF ReusedFrom

-----------------------------------------------------------------------------
(* One device per network card *)

OnePerCard(devices) == \A d, f \in devices : d.card = f.card => d = f

\* FirstPerCard picks exactly one interface of each covered card.
LEMMA FirstPerCardOnce ==
    ASSUME NEW existENIs, NEW managed, NEW selected \in FirstPerCard(existENIs, managed)
    PROVE  /\ \A a, b \in selected : eniCardIndex(a) = eniCardIndex(b) => a = b
           /\ {eniCardIndex(a) : a \in selected} = CoveredCards(existENIs, managed)
<1> DEFINE owned == OwnedERIs(existENIs, managed)
           On(c) == {e \in owned : eniCardIndex(e) = c}
           Ts == {On(c) : c \in CoveredCards(existENIs, managed)}
<1>1. PICK f \in [Ts -> UNION Ts] : selected = Range(f) /\ \A T \in Ts : f[T] \in T
  BY DEF FirstPerCard, Choices
<1>2. \A c \in CoveredCards(existENIs, managed) : f[On(c)] \in On(c)
  BY <1>1
<1>3. selected = {f[On(c)] : c \in CoveredCards(existENIs, managed)}
  <2>1. DOMAIN f = Ts /\ selected = {f[T] : T \in DOMAIN f}
    BY <1>1 DEF Range
  <2> HIDE DEF On
  <2>. QED
    BY <2>1
<1>4. \A c \in CoveredCards(existENIs, managed) : eniCardIndex(f[On(c)]) = c
  BY <1>2
<1> HIDE DEF On, Ts
<1>. QED
  BY <1>3, <1>4

\* SelectEriFromExist succeeds with one device per card, and asks for new ENIs
\* only for cards that have none.
LEMMA SelectCards ==
    ASSUME NEW existENIs, Counted(existENIs), NEW q \in Nat, NEW c \in Nat \ {0}, NEW managed,
           NEW p \in existENIs, p.primary, eniCardIndex(p) = 0,
           \A e \in existENIs : e.primary => e = p,
           NEW r \in SelectEriFromExist(existENIs, q, c, managed), r.ok
    PROVE  r.eris # {} /\ OnePerCard(r.eris) /\ \A d \in r.eris : d.card \notin r.need
<1> DEFINE covered == CoveredCards(existENIs, managed)
           missing == MissingCards(existENIs, q, c, managed)
           remain  == RemainPerCard(existENIs, q, missing)
           primary == PrimaryForCard0(existENIs, remain, covered)
           need    == NeedCreate(missing, remain, primary)
<1> DEFINE good == ~(remain > 0 /\ covered = {} /\ primary = {})
                     /\ ~(covered = {} /\ primary = {} /\ need = {})
<1>0. PICK selected \in FirstPerCard(existENIs, managed) :
         r = [ok |-> good, eris |-> {toEri(e, remain) : e \in selected \cup primary},
              need |-> need, qp |-> remain]
  BY DEF SelectEriFromExist
<1>1. r.eris = {toEri(e, remain) : e \in selected \cup primary} /\ r.need = need /\ good
  <2> HIDE DEF covered, missing, remain, primary, need, good
  <2>. QED
    BY <1>0
<1>2. remain \in Nat
  BY RemainType
<1>3. /\ \A a, b \in selected : eniCardIndex(a) = eniCardIndex(b) => a = b
      /\ {eniCardIndex(a) : a \in selected} = covered
  BY FirstPerCardOnce
<1>4. primary = {} \/ (primary = {p} /\ 0 \notin covered)
  BY DEF PrimaryForCard0
<1>5. missing \cap covered = {}
  BY DEF MissingCards
<1>6. need \subseteq missing /\ (primary # {} => 0 \notin need)
  BY DEF NeedCreate
<1>7. covered # {} \/ primary # {}
  <2>1. remain = 0 => need = {}
    BY DEF NeedCreate
  <2> HIDE DEF covered, missing, remain, primary, need
  <2>. QED
    BY <1>1, <1>2, <2>1
<1>8. selected \cup primary # {}
  BY <1>3, <1>7
<1>9. \A e : toEri(e, remain).card = eniCardIndex(e)
  BY DEF toEri
<1>10. \A a, b \in selected \cup primary : eniCardIndex(a) = eniCardIndex(b) => a = b
  BY <1>3, <1>4
<1>11. \A a \in selected \cup primary : eniCardIndex(a) \notin need
  BY <1>3, <1>4, <1>5, <1>6
<1> HIDE DEF covered, missing, remain, primary, need
<1>. QED
  BY <1>1, <1>8, <1>9, <1>10, <1>11 DEF OnePerCard

\* The devices made of leftover ENIs are for different cards, which then need
\* none any more.
LEMMA ReuseCards ==
    ASSUME NEW tagged, NEW need, NEW q, NEW inst,
           NEW reused \in ReuseTagged(tagged, need, q, inst)
    PROVE  OnePerCard(reused) /\ \A d \in reused : d.card \in ReusedCards(tagged, need)
<1>1. PICK f \in [ReusedCards(tagged, need) -> tagged] :
         reused = { [toEri(f[c], q) EXCEPT !.inst = inst, !.card = c] :
                      c \in ReusedCards(tagged, need) }
  BY DEF ReuseTagged, Injection
<1> DEFINE g(c) == [toEri(f[c], q) EXCEPT !.inst = inst, !.card = c]
<1>2. \A c : g(c).card = c
  BY DEF toEri
<1>3. reused = {g(c) : c \in ReusedCards(tagged, need)}
  BY <1>1
<1> HIDE DEF g
<1>. QED
  BY <1>2, <1>3 DEF OnePerCard
=============================================================================
