--------------------------- MODULE RolloutsProofs ---------------------------
(***************************************************************************)
(* No item of the rollouts is lost or delivered twice, batches consist of  *)
(* whole groups and the buffer stays within its limit, for every number of *)
(* workers, every order of group_ids and all sizes.                        *)
(*                                                                         *)
(* The queue hands out the items in their order, so that at any time those *)
(* up to Taken have left it; each of these is at one place.  The buffer is *)
(* a sequence of blocks of the group size, and get takes blocks.           *)
(***************************************************************************)
EXTENDS Rollouts, FiniteSetTheorems, FunctionTheorems, WellFoundedInduction,
        SequenceTheorems, TLAPS

Flags == training \in BOOLEAN /\ putSignal \in BOOLEAN /\ getSignal \in BOOLEAN
Types ==
    /\ trainer \in [pc : TrainerPc, left : Int, minimum : Int]
    /\ step \in Nat /\ pending \in Int /\ next \in Nat /\ errors \in Nat /\ failures \in Nat
    /\ queue \in Seq(Nat)
    /\ worker \in [Workers -> [pc : WorkerPc, item : Nat, try : Nat, turn : Nat]]
    /\ groups \in [Groups -> Seq(Items)] /\ buffer \in Seq(Items) /\ batch \in Seq(Items)
    /\ delivered \in SUBSET Items
TypeOK == Flags /\ Types

\* The items up to Taken have left the queue, the others are in it or still to come.
Taken == next - Len(queue)
Supply ==
    /\ Len(queue) <= QueueSize /\ Len(queue) <= next /\ next <= Len(Source)
    /\ trainer.pc = "put" => trainer.left >= 0 /\ next + trainer.left <= Len(Source)
    /\ \A k \in 1..Len(queue) : queue[k] = Taken + k

\* What is held, grouped, buffered and delivered, each item once.
Distinct(s) == \A j, k \in DOMAIN s : s[j] = s[k] => j = k
Held ==
    /\ \A w \in InFlight : worker[w].item \in 1..Taken
    /\ \A v, w \in InFlight : worker[v].item = worker[w].item => v = w
Grouped ==
    \A g \in Groups :
        /\ Len(groups[g]) < Whole /\ Distinct(groups[g])
        /\ \A k \in DOMAIN groups[g] : groups[g][k] \in 1..Taken /\ Source[groups[g][k]] = g
Buffered == Distinct(buffer) /\ Range(buffer) \subseteq 1..Taken
OnePlace ==
    /\ \A w \in InFlight :
          worker[w].item \notin Range(groups[Source[worker[w].item]]) \cup Range(buffer) \cup delivered
    /\ \A i \in Items : i \in Range(groups[Source[i]]) => i \notin Range(buffer) \cup delivered
    /\ Range(buffer) \cap delivered = {} /\ delivered \subseteq 1..Taken

Places == Supply /\ Held /\ Grouped /\ Buffered /\ OnePlace
RollInv == TypeOK /\ Places /\ ItemsConserved

\* A sequence of items made of groups: block after block of size W and one group_id.
Blocks(W, s) ==
    \E n \in 0..Len(s) :
        /\ Len(s) = n * W
        /\ \A b \in 0..(n - 1) : \A i, j \in 1..W : Source[s[b * W + i]] = Source[s[b * W + j]]
BlockInv == Blocks(Whole, buffer) /\ Blocks(Whole, batch)

-----------------------------------------------------------------------------
(* Arithmetic.                                                             *)

\* A set of natural numbers that is not empty has a least element.
LEMMA Least ==
    ASSUME NEW S \in SUBSET Nat, S # {}
    PROVE  \E m \in S : \A k \in S : m <= k
<1>1. PICK m \in S : \A k \in S : ~(<<k, m>> \in OpToRel(<, Nat))
  BY WFMin, NatLessThanWellFounded
<1>2. \A k \in S : ~(k < m)
  BY <1>1 DEF OpToRel
<1> QED  BY <1>2

\* Division with remainder.
LEMMA Quotient ==
    ASSUME NEW a \in Nat \ {0}, NEW n \in Nat
    PROVE  /\ n \div a \in Nat /\ n % a \in 0..(a - 1)
           /\ n = (n \div a) * a + (n % a)
           /\ (n \div a) * a \in 0..n
<1>1. n = a * (n \div a) + (n % a) /\ n \div a \in Nat /\ n % a \in 0..(a - 1)
  OBVIOUS
<1> QED  BY <1>1

\* A multiple leaves no remainder.
LEMMA MultipleMod ==
    ASSUME NEW a \in Nat \ {0}, NEW q \in Nat
    PROVE  (q * a) % a = 0 /\ (a * q) % a = 0
  OBVIOUS

\* There is a least common multiple, and it is a multiple of the first number.
LEMMA LcmFacts ==
    ASSUME NEW a \in Nat \ {0}, NEW b \in Nat \ {0}
    PROVE  Lcm(a, b) \in Nat \ {0} /\ \E q \in Nat \ {0} : Lcm(a, b) = q * a
<1> DEFINE S == {m \in 1..(a * b) : CommonMultiple(a, b, m)}
<1>1. a * b \in Nat \ {0} /\ (a * b) % a = 0 /\ (a * b) % b = 0
  BY MultipleMod
<1>2. a * b \in S
  BY <1>1 DEF CommonMultiple
<1>3. PICK m \in S : \A k \in S : m <= k
  <2>1. S \in SUBSET Nat /\ S # {}
    BY <1>1, <1>2
  <2> HIDE DEF S
  <2> QED  BY <2>1, Least
<1>4. \A k \in 1..(m - 1) : ~CommonMultiple(a, b, k)
  BY <1>1, <1>3
<1>5. /\ Lcm(a, b) \in 1..(a * b)
      /\ CommonMultiple(a, b, Lcm(a, b))
  BY <1>3, <1>4 DEF Lcm
<1>6. Lcm(a, b) \in Nat \ {0} /\ Lcm(a, b) % a = 0
  BY <1>1, <1>5 DEF CommonMultiple
<1>7. \A n \in Nat \ {0} : n % a = 0 => \E q \in Nat \ {0} : n = q * a
  <2> SUFFICES ASSUME NEW n \in Nat \ {0}, n % a = 0
               PROVE  \E q \in Nat \ {0} : n = q * a
    OBVIOUS
  <2>1. PICK q \in Nat : n = q * a + 0
    BY Quotient
  <2> QED  BY <2>1
<1> QED  BY <1>6, <1>7

\* The sizes are numbers.
LEMMA SizeFacts ==
    /\ GroupSize \in Nat \ {0} /\ QueueSize \in Nat \ {0} /\ MaxSize \in Nat \ {0}
    /\ Multiple \in Nat \ {0} /\ MaxTurns \in Nat \ {0} /\ MaxRetries \in Nat \ {0}
    /\ FirstMinimum \in Nat /\ Minimum \in Nat /\ MaxSteps \in Nat
    /\ MaxErrors \in Nat /\ ValCount \in Nat
  BY SizeAssumption

\* The size of a whole group is positive.
LEMMA WholeFacts == TypeOK => Whole \in Nat \ {0}
  BY SizeAssumption DEF Whole

\* What get takes is there, and consists of whole groups.
LEMMA LengthFacts ==
    ASSUME TypeOK, NEW n \in Nat
    PROVE  GetLength(n) \in 0..n /\ \E q \in Nat : GetLength(n) = q * Whole
<1>1. CASE training
  <2>1. Lcm(GroupSize, Multiple) \in Nat \ {0}
    BY LcmFacts, SizeAssumption
  <2>2. PICK p \in Nat \ {0} : Lcm(GroupSize, Multiple) = p * GroupSize
    BY LcmFacts, SizeAssumption
  <2>3. GetLength(n) = (n \div Lcm(GroupSize, Multiple)) * Lcm(GroupSize, Multiple)
    BY <1>1 DEF GetLength
  <2>4. /\ n \div Lcm(GroupSize, Multiple) \in Nat
        /\ GetLength(n) \in 0..n
    BY <2>1, <2>3, Quotient
  <2>5. GetLength(n) = ((n \div Lcm(GroupSize, Multiple)) * p) * GroupSize
    BY <2>2, <2>3, <2>4, SizeAssumption
  <2>6. (n \div Lcm(GroupSize, Multiple)) * p \in Nat
    BY <2>4
  <2> QED  BY <1>1, <2>4, <2>5, <2>6 DEF Whole
<1>2. CASE ~training
  <2>1. GetLength(n) = n
    BY <1>2 DEF GetLength
  <2> QED  BY <1>2, <2>1 DEF Whole
<1> QED  BY <1>1, <1>2

-----------------------------------------------------------------------------
(* Counting.                                                               *)

\* Source gives each item its group_id.
LEMMA SourceFacts ==
    /\ Len(Source) \in Nat /\ Items = 1..Len(Source)
    /\ \A i \in Items : Source[i] \in Groups
    /\ IsFiniteSet(Items) /\ IsFiniteSet(Groups) /\ Items \subseteq Nat
<1>1. /\ Len(Source) \in Nat /\ Items = 1..Len(Source)
      /\ \A i \in Items : Source[i] \in Groups
  BY SizeAssumption DEF Items, Groups
<1>2. IsFiniteSet(Items)
  BY <1>1, FS_Interval
<1>3. [i \in Items |-> Source[i]] \in Surjection(Items, Groups)
  BY Fun_IsSurj DEF Groups
<1> QED  BY <1>1, <1>2, <1>3, FS_Surjection

\* 1..n has n members.
LEMMA IntervalCount == \A n \in Nat : IsFiniteSet(1..n) /\ Cardinality(1..n) = n
<1> SUFFICES ASSUME NEW n \in Nat
             PROVE  IsFiniteSet(1..n) /\ Cardinality(1..n) = n
  OBVIOUS
<1> QED  BY FS_Interval

\* The places are finite.
LEMMA Counted ==
    ASSUME TypeOK
    PROVE  /\ IsFiniteSet(InFlight) /\ Cardinality(InFlight) \in Nat
           /\ IsFiniteSet(GroupedItems) /\ Cardinality(GroupedItems) \in Nat
           /\ IsFiniteSet(delivered) /\ Cardinality(delivered) \in Nat
<1>1. IsFiniteSet(InFlight)
  BY SizeAssumption, FS_Subset DEF InFlight
<1>2. IsFiniteSet(GroupedItems)
  <2>1. IsFiniteSet(Groups \X Items)
    BY SourceFacts, FS_Product
  <2> QED  BY <2>1, FS_Subset DEF GroupedItems
<1>3. IsFiniteSet(delivered)
  BY SourceFacts, FS_Subset DEF TypeOK, Types
<1> QED  BY <1>1, <1>2, <1>3, FS_CardinalityType

\* A prefix of distinct items has as many items as its length.
LEMMA PrefixCount ==
    ASSUME NEW s \in Seq(Items), Distinct(s), NEW n \in 0..Len(s)
    PROVE  /\ IsFiniteSet({s[k] : k \in 1..n})
           /\ Cardinality({s[k] : k \in 1..n}) = n
<1> DEFINE T == {s[k] : k \in 1..n}
<1>1. [k \in 1..n |-> s[k]] \in Bijection(1..n, T)
  <2>1. [k \in 1..n |-> s[k]] \in [1..n -> T]
    OBVIOUS
  <2>2. \A j, k \in 1..n : s[j] = s[k] => j = k
    BY DEF Distinct
  <2>3. \A t \in T : \E k \in 1..n : s[k] = t
    OBVIOUS
  <2> QED  BY <2>1, <2>2, <2>3, Fun_IsBij
<1>2. ExistsBijection(1..n, T)
  BY <1>1, Fun_ExistsBij
<1>3. IsFiniteSet(1..n) /\ Cardinality(1..n) = n
  BY IntervalCount
<1> QED  BY <1>2, <1>3, FS_Bijection

\* Distinct items up to Taken are no more than Taken.
LEMMA GroupFits ==
    ASSUME NEW s \in Seq(Items), Distinct(s), NEW t \in Nat, NEW i,
           \A k \in DOMAIN s : s[k] \in 1..t, i \in 1..t => i \notin Range(s)
    PROVE  Len(s) <= t /\ (i \in 1..t => Len(s) + 1 <= t)
<1> DEFINE T == {s[k] : k \in 1..Len(s)}
<1>0. Len(s) \in Nat /\ Len(s) \in 0..Len(s)
  OBVIOUS
<1>1. IsFiniteSet(T) /\ Cardinality(T) = Len(s) /\ Len(s) \in Nat
  BY <1>0, PrefixCount
<1>2. T \subseteq 1..t /\ (i \in 1..t => i \notin T)
  BY DEF Range
<1>3. IsFiniteSet(1..t) /\ Cardinality(1..t) = t
  BY IntervalCount
<1>4. Len(s) <= t
  BY <1>1, <1>2, <1>3, FS_Subset
<1>5. ASSUME i \in 1..t
      PROVE  Len(s) + 1 <= t
  <2>1. Cardinality(T \cup {i}) = Len(s) + 1
    BY <1>1, <1>2, <1>5, FS_AddElement
  <2>2. T \cup {i} \subseteq 1..t
    BY <1>2, <1>5
  <2> QED  BY <1>3, <2>1, <2>2, FS_Subset
<1> QED  BY <1>4, <1>5

\* One more item in a group.
LEMMA GroupGrows ==
    ASSUME TypeOK, NEW g \in Groups, Len(groups[g]) + 1 \in Items,
           groups' \in [Groups -> Seq(Items)],
           Len(groups'[g]) = Len(groups[g]) + 1,
           \A h \in Groups : h # g => groups'[h] = groups[h]
    PROVE  Cardinality(GroupedItems') = Cardinality(GroupedItems) + 1
<1>0. Len(groups[g]) \in Nat /\ Items \subseteq Nat
  BY SourceFacts DEF TypeOK, Types
<1>1. GroupedItems' = GroupedItems \cup {<<g, Len(groups[g]) + 1>>}
  <2>1. \A x \in Groups \X Items :
            x[2] <= Len(groups'[x[1]]) <=> (x[2] <= Len(groups[x[1]]) \/ x = <<g, Len(groups[g]) + 1>>)
    <3> SUFFICES ASSUME NEW h \in Groups, NEW k \in Items
                 PROVE  k <= Len(groups'[h]) <=> (k <= Len(groups[h]) \/ <<h, k>> = <<g, Len(groups[g]) + 1>>)
      OBVIOUS
    <3>1. CASE h = g
      BY <1>0, <3>1
    <3>2. CASE h # g
      BY <3>2
    <3> QED  BY <3>1, <3>2
  <2>2. <<g, Len(groups[g]) + 1>> \in Groups \X Items
    OBVIOUS
  <2> QED  BY <2>1, <2>2 DEF GroupedItems
<1>2. <<g, Len(groups[g]) + 1>> \notin GroupedItems
  BY <1>0 DEF GroupedItems
<1> QED  BY <1>1, <1>2, Counted, FS_AddElement

\* A group is emptied.
LEMMA GroupLeaves ==
    ASSUME TypeOK, NEW g \in Groups, Len(groups[g]) <= Len(Source),
           groups' = [groups EXCEPT ![g] = <<>>]
    PROVE  Cardinality(GroupedItems') = Cardinality(GroupedItems) - Len(groups[g])
<1> DEFINE n == Len(groups[g])
           G == {<<g, k>> : k \in 1..n}
<1>0. n \in Nat /\ Items = 1..Len(Source) /\ Len(Source) \in Nat /\ 1..n \subseteq Items
  BY SourceFacts DEF TypeOK, Types
<1>1. G \subseteq GroupedItems
  BY <1>0 DEF GroupedItems
<1>2. GroupedItems' = GroupedItems \ G
  <2>1. \A x \in Groups \X Items :
            x[2] <= Len(groups'[x[1]]) <=> (x[2] <= Len(groups[x[1]]) /\ x \notin G)
    <3> SUFFICES ASSUME NEW h \in Groups, NEW k \in Items
                 PROVE  k <= Len(groups'[h]) <=> (k <= Len(groups[h]) /\ <<h, k>> \notin G)
      OBVIOUS
    <3>1. CASE h = g
      <4>1. groups'[h] = <<>>
        BY <3>1 DEF TypeOK, Types
      <4>2. ~(k <= Len(groups'[h]))
        BY <1>0, <4>1
      <4>3. k <= Len(groups[h]) => <<h, k>> \in G
        BY <1>0, <3>1
      <4> QED  BY <4>2, <4>3
    <3>2. CASE h # g
      BY <3>2 DEF TypeOK, Types
    <3> QED  BY <3>1, <3>2
  <2> QED  BY <2>1 DEF GroupedItems
<1>3. IsFiniteSet(G) /\ Cardinality(G) = n
  <2>1. [k \in 1..n |-> <<g, k>>] \in Bijection(1..n, G)
    <3>1. [k \in 1..n |-> <<g, k>>] \in [1..n -> G]
      OBVIOUS
    <3>2. \A j, k \in 1..n : <<g, j>> = <<g, k>> => j = k
      OBVIOUS
    <3>3. \A t \in G : \E k \in 1..n : <<g, k>> = t
      OBVIOUS
    <3> QED  BY <3>1, <3>2, <3>3, Fun_IsBij
  <2>2. ExistsBijection(1..n, G)
    BY <2>1, Fun_ExistsBij
  <2>3. IsFiniteSet(1..n) /\ Cardinality(1..n) = n
    BY <1>0, IntervalCount
  <2> QED  BY <2>2, <2>3, FS_Bijection
<1>4. Cardinality(GroupedItems \ G) = Cardinality(GroupedItems) - Cardinality(GroupedItems \cap G)
  BY Counted, FS_Difference
<1>5. GroupedItems \cap G = G
  BY <1>1
<1> QED  BY <1>2, <1>3, <1>4, <1>5
-----------------------------------------------------------------------------
(* The places of the items, step by step.                                  *)

\* At the beginning nothing has been put.
LEMMA PlacesInit == Init => RollInv
<1> SUFFICES ASSUME Init PROVE RollInv
  OBVIOUS
<1>0. \A g \in Groups : groups[g] = <<>>
  BY DEF Init
<1>1. InFlight = {} /\ GroupedItems = {} /\ delivered = {}
  <2>1. InFlight = {}
    BY DEF Init, InFlight, Free
  <2>2. GroupedItems = {}
    BY <1>0, SourceFacts DEF GroupedItems
  <2> QED  BY <2>1, <2>2 DEF Init
<1>2. TypeOK
  <2>1. Flags
    BY DEF Init, Flags
  <2>2. trainer \in [pc : TrainerPc, left : Int, minimum : Int]
    BY DEF Init, TrainerPc
  <2>3. worker \in [Workers -> [pc : WorkerPc, item : Nat, try : Nat, turn : Nat]]
    BY DEF Init, Free, WorkerPc
  <2>4. /\ step \in Nat /\ pending \in Int /\ next \in Nat /\ errors \in Nat /\ failures \in Nat
        /\ queue \in Seq(Nat) /\ buffer \in Seq(Items) /\ batch \in Seq(Items)
        /\ delivered \in SUBSET Items
    BY DEF Init
  <2>5. groups \in [Groups -> Seq(Items)]
    BY DEF Init
  <2> QED  BY <2>1, <2>2, <2>3, <2>4, <2>5 DEF TypeOK, Types
<1>3. Supply /\ Held /\ Buffered
  BY <1>1, SourceFacts, SizeFacts DEF Init, Supply, Held, Buffered, Distinct, Range, Taken
<1>4. Grouped
  BY <1>0, <1>2, WholeFacts DEF Grouped, Distinct
<1>5. OnePlace
  BY <1>1 DEF Init, OnePlace, Range
<1>6. ItemsConserved
  BY <1>1, FS_EmptySet DEF Init, ItemsConserved
<1> QED  BY <1>2, <1>3, <1>4, <1>5, <1>6 DEF RollInv, Places

\* No item changes its place.
LEMMA NothingMoves ==
    ASSUME RollInv, TypeOK', UNCHANGED <<training, next, queue, groups, buffer, delivered, failures>>,
           InFlight' = InFlight, \A w \in InFlight : worker'[w].item = worker[w].item,
           trainer'.pc = "put" => trainer'.left >= 0 /\ next + trainer'.left <= Len(Source)
    PROVE  RollInv'
<1>1. Taken' = Taken /\ Whole' = Whole /\ GroupedItems' = GroupedItems
  BY DEF Taken, Whole, GroupedItems
<1>2. Supply' /\ Grouped' /\ Buffered'
  BY <1>1 DEF RollInv, Places, Supply, Grouped, Buffered
<1>3. Held'
  BY <1>1 DEF RollInv, Places, Held
<1>4. OnePlace'
  BY <1>1 DEF RollInv, Places, OnePlace
<1>5. ItemsConserved'
  BY <1>1 DEF RollInv, ItemsConserved
<1> QED  BY <1>2, <1>3, <1>4, <1>5 DEF RollInv, Places

\* The trainer begins a step, a validation or a get: no item moves.
LEMMA PrepareInv ==
    ASSUME RollInv, PrepareData \/ LoadValData \/ CallGet
    PROVE  RollInv'
<1>0. Flags /\ Types /\ Supply
  BY DEF RollInv, TypeOK, Places
<1>1. /\ Len(Source) \in Nat /\ Len(queue) \in Nat /\ QueueSize \in Nat /\ ValCount \in Nat
      /\ next \in Nat /\ Len(queue) <= QueueSize
  BY <1>0, SourceFacts, SizeFacts DEF Types, Supply
<1>2. /\ UNCHANGED <<training, next, queue, groups, buffer, delivered, failures, worker>>
      /\ UNCHANGED <<batch, putSignal, getSignal, errors, pending>>
  BY DEF PrepareData, LoadValData, CallGet, bufVars, lossVars
<1>3. ASSUME NEW p \in {"put", "get"}, NEW l \in Int, NEW m \in Int, step' \in Nat,
             trainer' = [trainer EXCEPT !.pc = p, !.left = l, !.minimum = m],
             p = "put" => l >= 0 /\ next + l <= Len(Source)
      PROVE  RollInv'
  <2>1. /\ trainer'.pc = p /\ trainer'.left = l
        /\ trainer' \in [pc : TrainerPc, left : Int, minimum : Int]
    BY <1>0, <1>3 DEF Types, TrainerPc
  <2>2. TypeOK'
    BY <1>0, <1>2, <1>3, <2>1 DEF TypeOK, Flags, Types
  <2> QED  BY <1>2, <1>3, <2>1, <2>2, NothingMoves DEF InFlight
<1>4. CASE PrepareData
  <2>1. /\ trainer' = [trainer EXCEPT !.pc = "put", !.left = QueueSize - Len(queue)]
        /\ step' = step + 1 /\ Len(Source) - next >= QueueSize - Len(queue)
    BY <1>4 DEF PrepareData
  <2>2. trainer' = [trainer EXCEPT !.pc = "put", !.left = QueueSize - Len(queue),
                                   !.minimum = trainer.minimum]
    BY <1>0, <2>1 DEF Types
  <2>3. QueueSize - Len(queue) \in Int /\ trainer.minimum \in Int /\ step' \in Nat
    BY <1>0, <1>1, <2>1, SMTT(20) DEF Types
  <2>4. QueueSize - Len(queue) >= 0 /\ next + (QueueSize - Len(queue)) <= Len(Source)
    BY <1>1, <2>1
  <2> QED  BY <1>3, <2>2, <2>3, <2>4
<1>5. CASE LoadValData
  <2>1. /\ trainer' = [trainer EXCEPT !.pc = "put", !.left = ValCount]
        /\ step' = step + 1 /\ Len(Source) - next >= ValCount
    BY <1>5 DEF LoadValData
  <2>2. trainer' = [trainer EXCEPT !.pc = "put", !.left = ValCount, !.minimum = trainer.minimum]
    BY <1>0, <2>1 DEF Types
  <2>3. trainer.minimum \in Int /\ step' \in Nat
    BY <1>0, <2>1 DEF Types
  <2>4. ValCount >= 0 /\ next + ValCount <= Len(Source)
    BY <1>1, <2>1
  <2>5. ValCount \in Int /\ "put" \in {"put", "get"}
    BY <1>1
  <2> QED  BY <1>3, <2>2, <2>3, <2>4, <2>5
<1>6. CASE CallGet
  <2> DEFINE m == IF ~training THEN pending ELSE IF step = 1 THEN FirstMinimum ELSE Minimum
  <2>1. trainer' = [trainer EXCEPT !.pc = "get", !.minimum = m] /\ step' = step
    BY <1>6 DEF CallGet
  <2>2. m \in Int
    BY <1>0, SizeFacts DEF Types
  <2> HIDE DEF m
  <2>3. trainer' = [trainer EXCEPT !.pc = "get", !.left = trainer.left, !.minimum = m]
    BY <1>0, <2>1 DEF Types
  <2>4. trainer.left \in Int /\ step' \in Nat
    BY <1>0, <2>1 DEF Types
  <2>5. "get" \in {"put", "get"} /\ "get" # "put"
    OBVIOUS
  <2> QED  BY <1>3, <2>2, <2>3, <2>4, <2>5
<1> QED  BY <1>4, <1>5, <1>6

\* put: the next item goes to the end of the queue.
LEMMA PutInv ==
    ASSUME RollInv, Put
    PROVE  RollInv'
<1>t. Flags /\ Types /\ Supply
  BY DEF RollInv, TypeOK, Places
<1>0. /\ Len(Source) \in Nat /\ Len(queue) \in Nat /\ next \in Nat /\ QueueSize \in Nat
      /\ trainer.left \in Int /\ queue \in Seq(Nat)
  BY <1>t, SourceFacts, SizeFacts DEF Types
<1>1. /\ UNCHANGED <<training, groups, buffer, delivered, failures, worker>>
      /\ UNCHANGED <<step, batch, putSignal, getSignal, errors>>
  BY DEF Put, bufVars, lossVars
<1>2. /\ trainer'.pc = "put" /\ trainer'.left = trainer.left - 1 /\ trainer.left > 0
      /\ trainer' \in [pc : TrainerPc, left : Int, minimum : Int]
  <2>1. trainer.pc = "put" /\ trainer.left > 0 /\ trainer' = [trainer EXCEPT !.left = trainer.left - 1]
    BY DEF Put
  <2>2. trainer \in [pc : TrainerPc, left : Int, minimum : Int] /\ trainer.left - 1 \in Int
    BY <1>t, <1>0 DEF Types
  <2> QED  BY <2>1, <2>2
<1>3. /\ next' = next + 1 /\ Len(queue') = Len(queue) + 1 /\ queue' \in Seq(Nat)
      /\ queue'[Len(queue) + 1] = next + 1
      /\ \A k \in 1..Len(queue) : queue'[k] = queue[k]
      /\ Len(queue) < QueueSize
  BY <1>0 DEF Put
<1>4. Taken' = Taken /\ Taken \in Int
  BY <1>0, <1>3 DEF Taken
<1>5. TypeOK'
  <2>1. pending' \in Int
    BY <1>t DEF Put, Types
  <2>2. Types'
    BY <1>t, <1>0, <1>1, <1>2, <1>3, <2>1 DEF Types
  <2>3. Flags'
    BY <1>t, <1>1 DEF Flags
  <2> QED  BY <2>2, <2>3 DEF TypeOK
<1>6. Supply'
  <2>1. \A k \in 1..Len(queue') : queue'[k] = Taken' + k
    <3> SUFFICES ASSUME NEW k \in 1..Len(queue')
                 PROVE  queue'[k] = Taken' + k
      OBVIOUS
    <3>1. CASE k = Len(queue) + 1
      BY <1>0, <1>3, <1>4, <3>1 DEF Taken
    <3>2. CASE k \in 1..Len(queue)
      BY <1>3, <1>4, <3>2 DEF RollInv, Places, Supply
    <3> QED  BY <1>0, <1>3, <3>1, <3>2
  <2>2. trainer.pc = "put"
    BY DEF Put
  <2> QED  BY <1>0, <1>2, <1>3, <2>1, <2>2, SMTT(20) DEF RollInv, Places, Supply
<1>7. Held' /\ Grouped' /\ Buffered' /\ OnePlace'
  BY <1>1, <1>4 DEF RollInv, Places, Held, Grouped, Buffered, OnePlace, InFlight, Whole
<1>8. ItemsConserved'
  <2>1. InFlight' = InFlight /\ GroupedItems' = GroupedItems
    BY <1>1 DEF InFlight, GroupedItems
  <2>2. TypeOK /\ ItemsConserved
    BY DEF RollInv
  <2>3. Len(buffer) \in Nat /\ failures \in Nat
    BY <2>2 DEF TypeOK, Types
  <2>4. Cardinality(InFlight) \in Nat /\ Cardinality(GroupedItems) \in Nat /\ Cardinality(delivered) \in Nat
    BY <2>2, Counted
  <2>5. UNCHANGED <<buffer, delivered, failures>>
    BY <1>1
  <2>6. next = Len(queue) + Cardinality(InFlight) + Cardinality(GroupedItems)
                 + Len(buffer) + Cardinality(delivered) + failures
    BY <2>2 DEF ItemsConserved
  <2>7. next + 1 = (Len(queue) + 1) + Cardinality(InFlight) + Cardinality(GroupedItems)
                     + Len(buffer) + Cardinality(delivered) + failures
    BY <1>0, <2>3, <2>4, <2>6, SMTT(20)
  <2> QED  BY <1>3, <2>1, <2>5, <2>7 DEF ItemsConserved
<1> QED  BY <1>5, <1>6, <1>7, <1>8 DEF RollInv, Places

\* A worker that goes on with its item.
LEMMA WorkInv ==
    ASSUME RollInv, NEW w \in Workers, TypeOK', UNCHANGED <<trainVars, bufVars, next, queue, failures>>,
           worker[w].pc # "idle", worker'[w].pc # "idle", worker'[w].item = worker[w].item,
           \A v \in Workers \ {w} : worker'[v] = worker[v]
    PROVE  RollInv'
<1>1. InFlight' = InFlight /\ \A v \in InFlight : worker'[v].item = worker[v].item
  BY DEF InFlight
<1>2. trainer'.pc = "put" => trainer'.left >= 0 /\ next + trainer'.left <= Len(Source)
  BY DEF RollInv, Places, Supply, trainVars
<1> QED  BY <1>1, <1>2, NothingMoves DEF trainVars, bufVars

\* A worker that loses its item.
LEMMA LoseInv ==
    ASSUME RollInv, NEW w \in Workers, worker[w].pc # "idle",
           UNCHANGED <<trainVars, bufVars, next, queue>>, errors' = errors + 1,
           worker' = [worker EXCEPT ![w] = Free], failures' = failures + 1
    PROVE  RollInv'
<1>1. worker'[w].pc = "idle" /\ \A v \in Workers \ {w} : worker'[v] = worker[v]
  BY DEF RollInv, TypeOK, Types, Free
<1>2. InFlight' = InFlight \ {w} /\ w \in InFlight
  BY <1>1 DEF InFlight
<1>3. /\ Taken' = Taken /\ Whole' = Whole /\ GroupedItems' = GroupedItems
      /\ UNCHANGED <<training, trainer, next, queue, groups, buffer, delivered>>
      /\ UNCHANGED <<step, pending, batch, putSignal, getSignal>>
  BY DEF Taken, Whole, GroupedItems, trainVars, bufVars
<1>4. TypeOK'
  <2>0. Flags /\ Types
    BY DEF RollInv, TypeOK
  <2>1. worker' \in [Workers -> [pc : WorkerPc, item : Nat, try : Nat, turn : Nat]]
    BY <2>0 DEF Types, Free, WorkerPc
  <2>2. Types'
    BY <1>3, <2>0, <2>1 DEF Types
  <2>3. Flags'
    BY <1>3, <2>0 DEF Flags
  <2> QED  BY <2>2, <2>3 DEF TypeOK
<1>5. Supply' /\ Grouped' /\ Buffered'
  BY <1>3 DEF RollInv, Places, Supply, Grouped, Buffered
<1>6. Held'
  BY <1>1, <1>2, <1>3 DEF RollInv, Places, Held, InFlight
<1>7. OnePlace'
  BY <1>1, <1>2, <1>3 DEF RollInv, Places, OnePlace, InFlight
<1>8. ItemsConserved'
  <2>1. TypeOK /\ ItemsConserved
    BY DEF RollInv
  <2>2. Cardinality(InFlight') = Cardinality(InFlight) - 1
    BY <1>2, <2>1, Counted, FS_RemoveElement
  <2>3. Len(buffer) \in Nat /\ failures \in Nat /\ Len(queue) \in Nat /\ next \in Nat
    BY <2>1 DEF TypeOK, Types
  <2> QED  BY <1>3, <2>1, <2>2, <2>3, Counted, SMTT(20) DEF ItemsConserved
<1> QED  BY <1>4, <1>5, <1>6, <1>7, <1>8 DEF RollInv, Places

\* The numbers of a state.
LEMMA Numbers ==
    ASSUME RollInv
    PROVE  /\ Len(queue) \in Nat /\ next \in Nat /\ Len(Source) \in Nat /\ Len(buffer) \in Nat
           /\ failures \in Nat /\ Taken \in Nat /\ Taken <= Len(Source)
           /\ 1..Taken \subseteq Items /\ Whole \in Nat \ {0}
           /\ Cardinality(InFlight) \in Nat /\ Cardinality(GroupedItems) \in Nat
           /\ Cardinality(delivered) \in Nat
<1>1. TypeOK /\ Types /\ Supply
  BY DEF RollInv, TypeOK, Places
<1>2. /\ Len(queue) \in Nat /\ next \in Nat /\ Len(buffer) \in Nat /\ failures \in Nat
  BY <1>1 DEF Types
<1>3. Taken \in Nat /\ Taken <= Len(Source) /\ Len(Source) \in Nat /\ Items = 1..Len(Source)
  BY <1>1, <1>2, SourceFacts DEF Supply, Taken
<1> QED  BY <1>1, <1>2, <1>3, Counted, WholeFacts

\* A worker takes the head of the queue.
LEMMA TakeItemInv ==
    ASSUME RollInv, NEW w \in Workers, TakeItem(w)
    PROVE  RollInv'
<1>0. Flags /\ Types /\ Supply /\ Held /\ Grouped /\ Buffered /\ OnePlace /\ ItemsConserved
  BY DEF RollInv, TypeOK, Places
<1>1. /\ UNCHANGED <<training, trainer, next, groups, buffer, delivered, failures>>
      /\ UNCHANGED <<step, pending, batch, putSignal, getSignal, errors>>
  BY DEF TakeItem, trainVars, bufVars, lossVars
<1>2. /\ Len(queue) > 0 /\ queue' \in Seq(Nat) /\ Len(queue') = Len(queue) - 1
      /\ \A k \in 1..Len(queue') : queue'[k] = queue[k + 1]
      /\ Head(queue) = queue[1]
  <2>1. queue \in Seq(Nat) /\ queue # <<>> /\ queue' = Tail(queue)
    BY <1>0 DEF TakeItem, Types
  <2> QED  BY <2>1
<1>3. Head(queue) = Taken + 1 /\ Taken' = Taken + 1
  BY <1>0, <1>1, <1>2, Numbers DEF Supply, Taken
<1>4. /\ worker' \in [Workers -> [pc : WorkerPc, item : Nat, try : Nat, turn : Nat]]
      /\ worker'[w].pc = "start" /\ worker'[w].item = Taken + 1 /\ worker[w].pc = "idle"
      /\ \A v \in Workers \ {w} : worker'[v] = worker[v]
  <2>1. /\ worker' = [worker EXCEPT ![w] = [pc |-> "start", item |-> Taken + 1, try |-> 1, turn |-> 0]]
        /\ worker[w].pc = "idle"
    BY <1>3 DEF TakeItem
  <2>2. [pc |-> "start", item |-> Taken + 1, try |-> 1, turn |-> 0]
           \in [pc : WorkerPc, item : Nat, try : Nat, turn : Nat]
    BY Numbers DEF WorkerPc
  <2> QED  BY <1>0, <2>1, <2>2 DEF Types
<1>5. InFlight' = InFlight \cup {w} /\ w \notin InFlight
  BY <1>4 DEF InFlight
<1>6. TypeOK'
  <2>1. Types'
    BY <1>0, <1>1, <1>2, <1>4 DEF Types
  <2>2. Flags'
    BY <1>0, <1>1 DEF Flags
  <2> QED  BY <2>1, <2>2 DEF TypeOK
<1>7. Supply'
  <2>1. \A k \in 1..Len(queue') : queue'[k] = Taken' + k
    BY <1>0, <1>2, <1>3, Numbers, SMTT(20) DEF Supply
  <2>2. UNCHANGED <<next, trainer>>
    BY <1>1
  <2> QED  BY <1>0, <1>2, <2>1, <2>2, Numbers, SizeFacts DEF Supply
<1>8. Held'
  <2>1. \A v \in InFlight : worker'[v] = worker[v] /\ worker[v].item \in 1..Taken
    BY <1>0, <1>4, <1>5 DEF Held, InFlight
  <2>2. Taken \in Nat
    BY Numbers
  <2>3. \A v \in InFlight : worker'[v].item \in 1..Taken /\ worker'[v].item # Taken + 1
    BY <2>1, <2>2
  <2>4. \A v \in InFlight' : worker'[v].item \in 1..Taken'
    BY <1>3, <1>4, <1>5, <2>2, <2>3
  <2>5. \A u, v \in InFlight' : worker'[u].item = worker'[v].item => u = v
    BY <1>0, <1>4, <1>5, <2>1, <2>3 DEF Held
  <2> QED  BY <2>4, <2>5 DEF Held
<1>9. Grouped' /\ Buffered'
  <2>1. 1..Taken \subseteq 1..Taken'
    BY <1>3, Numbers
  <2>2. Whole' = Whole
    BY <1>1 DEF Whole
  <2> QED  BY <1>0, <1>1, <2>1, <2>2 DEF Grouped, Buffered
<1>10. OnePlace'
  <2>1. Taken \in Nat /\ Taken + 1 \in Items /\ Taken + 1 \notin 1..Taken /\ 1..Taken \subseteq 1..Taken'
    <3>1. Taken + 1 <= Len(Source) /\ Taken \in Nat /\ Len(Source) \in Nat
      BY <1>0, <1>2, Numbers DEF Taken, Supply
    <3> QED  BY <1>3, <3>1, SourceFacts
  <2>2. Source[Taken + 1] \in Groups
    BY <2>1, SourceFacts
  <2>3. Taken + 1 \notin Range(groups[Source[Taken + 1]])
    BY <1>0, <2>1, <2>2 DEF Grouped, Range
  <2>4. Taken + 1 \notin Range(buffer) \cup delivered
    BY <1>0, <2>1 DEF Buffered, OnePlace
  <2>5. \A v \in InFlight : worker'[v] = worker[v]
    BY <1>4, <1>5 DEF InFlight
  <2>6. \A v \in InFlight' :
            worker'[v].item \notin Range(groups[Source[worker'[v].item]]) \cup Range(buffer) \cup delivered
    BY <1>0, <1>4, <1>5, <2>3, <2>4, <2>5 DEF OnePlace
  <2> QED  BY <1>0, <1>1, <2>1, <2>6 DEF OnePlace
<1>11. ItemsConserved'
  <2>1. Cardinality(InFlight') = Cardinality(InFlight) + 1
    <3>1. IsFiniteSet(InFlight)
      BY Counted DEF RollInv
    <3> QED  BY <1>5, <3>1, FS_AddElement
  <2>2. GroupedItems' = GroupedItems /\ UNCHANGED <<next, buffer, delivered, failures>>
    BY <1>1 DEF GroupedItems
  <2>3. next = Len(queue) + Cardinality(InFlight) + Cardinality(GroupedItems)
                 + Len(buffer) + Cardinality(delivered) + failures
    BY <1>0 DEF ItemsConserved
  <2>4. next = (Len(queue) - 1) + (Cardinality(InFlight) + 1) + Cardinality(GroupedItems)
                 + Len(buffer) + Cardinality(delivered) + failures
    BY <2>3, Numbers
  <2> QED  BY <1>2, <2>1, <2>2, <2>4 DEF ItemsConserved
<1> QED  BY <1>6, <1>7, <1>8, <1>9, <1>10, <1>11 DEF RollInv, Places

\* The agent loop of a worker.
LEMMA LoopInv ==
    ASSUME RollInv, NEW w \in Workers, Loop(w)
    PROVE  RollInv'
<1>0. Flags /\ Types
  BY DEF RollInv, TypeOK
<1>1. worker[w] \in [pc : WorkerPc, item : Nat, try : Nat, turn : Nat]
  BY <1>0 DEF Types
<1>2. UNCHANGED <<trainVars, bufVars, next, queue>>
  BY DEF Loop, StartSample, TakeTurn, Raise, GiveUp
<1>3. ASSUME NEW r \in [pc : WorkerPc, item : Nat, try : Nat, turn : Nat], worker[w].pc # "idle",
             r.pc # "idle", r.item = worker[w].item, worker' = [worker EXCEPT ![w] = r],
             UNCHANGED failures, errors' \in Nat
      PROVE  RollInv'
  <2>1. /\ worker' \in [Workers -> [pc : WorkerPc, item : Nat, try : Nat, turn : Nat]]
        /\ worker'[w].pc # "idle" /\ worker'[w].item = worker[w].item
        /\ \A v \in Workers \ {w} : worker'[v] = worker[v]
    BY <1>0, <1>1, <1>3 DEF Types
  <2>2. Types'
    BY <1>0, <1>2, <1>3, <2>1 DEF Types, trainVars, bufVars
  <2>3. Flags'
    BY <1>0, <1>2 DEF Flags, trainVars, bufVars
  <2> QED  BY <1>2, <1>3, <2>1, <2>2, <2>3, WorkInv DEF TypeOK
<1>4. errors \in Nat /\ errors + 1 \in Nat
  BY <1>0 DEF Types
<1>5. CASE StartSample(w)
  <2> DEFINE r == [worker[w] EXCEPT !.pc = "turn"]
  <2>1. worker' = [worker EXCEPT ![w] = r]
    BY <1>5 DEF StartSample
  <2>2. worker[w].pc # "idle" /\ UNCHANGED <<errors, failures>>
    BY <1>5 DEF StartSample, lossVars
  <2>3. /\ r \in [pc : WorkerPc, item : Nat, try : Nat, turn : Nat]
        /\ r.pc # "idle" /\ r.item = worker[w].item
    BY <1>1 DEF WorkerPc
  <2> HIDE DEF r
  <2> QED  BY <1>3, <1>4, <2>1, <2>2, <2>3
<1>6. CASE TakeTurn(w)
  <2>1. PICK over \in BOOLEAN : worker' = [worker EXCEPT ![w] = Answered(w, over)]
    BY <1>6 DEF TakeTurn
  <2>2. worker[w].pc = "turn" /\ UNCHANGED <<errors, failures>>
    BY <1>6 DEF TakeTurn, lossVars
  <2>3. CASE over
    <3>1. Answered(w, over) = [pc |-> "add", item |-> worker[w].item, try |-> 0, turn |-> 0]
      BY <1>1, <2>3 DEF Answered, Free
    <3>2. /\ Answered(w, over) \in [pc : WorkerPc, item : Nat, try : Nat, turn : Nat]
          /\ Answered(w, over).pc # "idle" /\ Answered(w, over).item = worker[w].item
      BY <1>1, <3>1 DEF WorkerPc
    <3> QED  BY <1>3, <1>4, <2>1, <2>2, <3>2
  <2>4. CASE ~over
    <3>1. Answered(w, over) = [worker[w] EXCEPT !.turn = worker[w].turn + 1]
      BY <1>1, <2>2, <2>4 DEF Answered
    <3>2. /\ Answered(w, over) \in [pc : WorkerPc, item : Nat, try : Nat, turn : Nat]
          /\ Answered(w, over).pc # "idle" /\ Answered(w, over).item = worker[w].item
      BY <1>1, <2>2, <3>1 DEF WorkerPc
    <3> QED  BY <1>3, <1>4, <2>1, <2>2, <3>2
  <2> QED  BY <2>3, <2>4
<1>7. CASE Raise(w) /\ worker[w].try < MaxRetries
  <2> DEFINE r == [worker[w] EXCEPT !.pc = "start", !.try = worker[w].try + 1, !.turn = 0]
  <2>1. worker' = [worker EXCEPT ![w] = r]
    <3>1. worker' = [worker EXCEPT ![w].pc = "start", ![w].try = @ + 1, ![w].turn = 0]
      BY <1>7 DEF Raise
    <3> QED  BY <1>0, <3>1 DEF Types
  <2>2. /\ worker[w].pc # "idle" /\ UNCHANGED failures /\ errors' = errors + 1
    BY <1>7 DEF Raise
  <2>3. /\ r \in [pc : WorkerPc, item : Nat, try : Nat, turn : Nat]
        /\ r.pc # "idle" /\ r.item = worker[w].item
    <3>1. worker[w].try + 1 \in Nat /\ "start" \in WorkerPc
      BY <1>1 DEF WorkerPc
    <3>2. PICK t \in Nat : t = worker[w].try + 1
      BY <3>1
    <3>3. r = [worker[w] EXCEPT !.pc = "start", !.try = t, !.turn = 0]
      BY <3>2
    <3> HIDE DEF r
    <3> QED  BY <1>1, <3>1, <3>3
  <2> HIDE DEF r
  <2> QED  BY <1>3, <1>4, <2>1, <2>2, <2>3
<1>8. CASE GiveUp(w) \/ (Raise(w) /\ ~(worker[w].try < MaxRetries))
  <2>1. /\ worker[w].pc # "idle" /\ errors' = errors + 1 /\ failures' = failures + 1
        /\ worker' = [worker EXCEPT ![w] = Free]
    BY <1>8 DEF GiveUp, Raise
  <2> QED  BY <1>2, <2>1, LoseInv
<1> QED  BY <1>5, <1>6, <1>7, <1>8 DEF Loop

\* What a worker that adds its item knows: the item is nowhere else.
LEMMA AddFacts ==
    ASSUME RollInv, NEW w \in Workers, worker[w].pc # "idle", NEW i, i = worker[w].item
    PROVE  /\ w \in InFlight /\ i \in 1..Taken /\ i \in Items /\ Source[i] \in Groups
           /\ groups[Source[i]] \in Seq(Items) /\ i \notin Range(groups[Source[i]])
           /\ i \notin Range(buffer) /\ i \notin delivered
           /\ Len(groups[Source[i]]) + 1 \in Items /\ Len(groups[Source[i]]) < Whole
           /\ \A v \in InFlight \ {w} : worker[v].item # i
<1>1. w \in InFlight
  BY DEF InFlight
<1>2. Types /\ Held /\ Grouped /\ OnePlace
  BY DEF RollInv, TypeOK, Places
<1>3. i \in 1..Taken /\ i \in Items /\ Source[i] \in Groups
  BY <1>1, <1>2, Numbers, SourceFacts DEF Held
<1>4. groups[Source[i]] \in Seq(Items)
  BY <1>2, <1>3 DEF Types
<1>5. i \notin Range(groups[Source[i]]) \cup Range(buffer) \cup delivered
  BY <1>1, <1>2 DEF OnePlace
<1>6. /\ Distinct(groups[Source[i]]) /\ Len(groups[Source[i]]) < Whole
      /\ \A k \in DOMAIN groups[Source[i]] : groups[Source[i]][k] \in 1..Taken
  BY <1>2, <1>3 DEF Grouped
<1>7. Len(groups[Source[i]]) + 1 <= Taken /\ Taken \in Nat /\ Taken <= Len(Source) /\ Len(Source) \in Nat
  BY <1>3, <1>4, <1>5, <1>6, Numbers, GroupFits
<1>8. Len(groups[Source[i]]) + 1 \in Items
  BY <1>4, <1>7, SourceFacts
<1>9. \A v \in InFlight \ {w} : worker[v].item # i
  BY <1>1, <1>2 DEF Held
<1> QED  BY <1>1, <1>3, <1>4, <1>5, <1>6, <1>8, <1>9

\* A worker that has added its item to a group or to the buffer.
Leaves(w) ==
    /\ worker' = [worker EXCEPT ![w] = Free]
    /\ UNCHANGED <<training, step, pending, batch, delivered, next, queue, lossVars>>
    /\ putSignal' \in BOOLEAN /\ getSignal' \in BOOLEAN
    /\ trainer' \in [pc : TrainerPc, left : Int, minimum : Int]
    /\ trainer'.pc = "put" => trainer.pc = "put" /\ trainer'.left = trainer.left

\* A worker that goes idle takes one from the items in flight.
LEMMA LeavesFacts ==
    ASSUME RollInv, NEW w \in Workers, worker[w].pc # "idle", Leaves(w),
           groups' \in [Groups -> Seq(Items)], buffer' \in Seq(Items)
    PROVE  /\ TypeOK' /\ Supply' /\ Held' /\ Taken' = Taken /\ Whole' = Whole
           /\ InFlight' = InFlight \ {w}
           /\ \A v \in InFlight' : worker'[v] = worker[v]
           /\ Cardinality(InFlight') = Cardinality(InFlight) - 1
<1>0. Flags /\ Types /\ Supply /\ Held
  BY DEF RollInv, TypeOK, Places
<1>1. /\ UNCHANGED <<training, next, queue, delivered, failures>>
      /\ UNCHANGED <<step, pending, batch, errors>>
  BY DEF Leaves, lossVars
<1>2. /\ worker' \in [Workers -> [pc : WorkerPc, item : Nat, try : Nat, turn : Nat]]
      /\ worker'[w].pc = "idle" /\ \A v \in Workers \ {w} : worker'[v] = worker[v]
  BY <1>0 DEF Leaves, Types, Free, WorkerPc
<1>3. InFlight' = InFlight \ {w} /\ w \in InFlight
  BY <1>2 DEF InFlight
<1>4. \A v \in InFlight' : worker'[v] = worker[v]
  BY <1>2, <1>3 DEF InFlight
<1>5. Taken' = Taken /\ Whole' = Whole
  BY <1>1 DEF Taken, Whole
<1>6. Types'
  BY <1>0, <1>1, <1>2 DEF Types, Leaves
<1>7. Flags'
  BY <1>0, <1>1 DEF Flags, Leaves
<1>8. Supply'
  BY <1>0, <1>1, <1>5 DEF Supply, Leaves
<1>9. Held'
  BY <1>0, <1>3, <1>4, <1>5 DEF Held
<1>10. Cardinality(InFlight') = Cardinality(InFlight) - 1
  BY <1>3, Counted, FS_RemoveElement DEF RollInv
<1> QED  BY <1>3, <1>4, <1>5, <1>6, <1>7, <1>8, <1>9, <1>10 DEF TypeOK

\* Sequences without repetition.
LEMMA AppendDistinct ==
    ASSUME NEW S, NEW s \in Seq(S), NEW x \in S
    PROVE  /\ Range(Append(s, x)) = Range(s) \cup {x}
           /\ Distinct(s) /\ x \notin Range(s) => Distinct(Append(s, x))
<1> DEFINE t == Append(s, x)
<1>1. /\ Len(s) \in Nat /\ DOMAIN s = 1..Len(s) /\ DOMAIN t = 1..(Len(s) + 1)
      /\ t[Len(s) + 1] = x /\ \A k \in 1..Len(s) : t[k] = s[k]
  OBVIOUS
<1> HIDE DEF t
<1>2. /\ 1..(Len(s) + 1) = 1..Len(s) \cup {Len(s) + 1} /\ Len(s) + 1 \notin 1..Len(s)
  BY <1>1
<1>3. DOMAIN t = DOMAIN s \cup {Len(s) + 1} /\ \A k \in DOMAIN s : t[k] = s[k]
  BY <1>1, <1>2
<1>4. Range(t) = Range(s) \cup {x}
  <2>1. \A y \in Range(t) : y \in Range(s) \cup {x}
    BY <1>1, <1>3 DEF Range
  <2>2. \A y \in Range(s) \cup {x} : y \in Range(t)
    BY <1>1, <1>3 DEF Range
  <2> QED  BY <2>1, <2>2
<1>5. ASSUME Distinct(s), x \notin Range(s) PROVE Distinct(t)
  <2>1. \A j \in DOMAIN s : t[j] # x
    BY <1>3, <1>5, Zenon DEF Range
  <2>2. \A j, k \in DOMAIN s : t[j] = t[k] => j = k
    BY <1>3, <1>5, Zenon DEF Distinct
  <2> QED  BY <1>1, <1>3, <2>1, <2>2, Zenon DEF Distinct
<1> QED  BY <1>4, <1>5 DEF t

LEMMA ConcatDistinct ==
    ASSUME NEW S, NEW s \in Seq(S), NEW t \in Seq(S), Distinct(s), Distinct(t),
           Range(s) \cap Range(t) = {}
    PROVE  Distinct(s \o t)
<1> DEFINE u == s \o t
<1>1. /\ Len(s) \in Nat /\ Len(t) \in Nat /\ DOMAIN s = 1..Len(s) /\ DOMAIN t = 1..Len(t)
      /\ DOMAIN u = 1..(Len(s) + Len(t))
      /\ \A k \in 1..Len(s) : u[k] = s[k]
      /\ \A j \in 1..Len(t) : u[Len(s) + j] = t[j]
  OBVIOUS
<1> HIDE DEF u
<1>2. \A k \in DOMAIN u : k \in DOMAIN s \/ \E j \in DOMAIN t : k = Len(s) + j
  <2> SUFFICES ASSUME NEW k \in DOMAIN u, k \notin DOMAIN s
               PROVE  \E j \in DOMAIN t : k = Len(s) + j
    OBVIOUS
  <2>1. k - Len(s) \in 1..Len(t) /\ k = Len(s) + (k - Len(s))
    BY <1>1
  <2> QED  BY <1>1, <2>1
<1>3. /\ \A k \in DOMAIN s : u[k] = s[k] /\ s[k] \in Range(s)
      /\ \A j \in DOMAIN t : u[Len(s) + j] = t[j] /\ t[j] \in Range(t)
  <2>1. /\ \A k \in DOMAIN s : s[k] \in Range(s)
        /\ \A j \in DOMAIN t : t[j] \in Range(t)
    BY Zenon DEF Range
  <2>2. (\A k \in DOMAIN s : u[k] = s[k]) /\ \A j \in DOMAIN t : u[Len(s) + j] = t[j]
    BY <1>1
  <2> QED  BY <2>1, <2>2, Zenon
<1>4. \A k \in DOMAIN s : \A j \in DOMAIN t : s[k] # t[j]
  BY <1>3, Zenon
<1>5. ASSUME NEW k \in DOMAIN u, NEW l \in DOMAIN u, u[k] = u[l] PROVE k = l
  <2>1. CASE k \in DOMAIN s /\ l \in DOMAIN s
    BY <1>3, <1>5, <2>1, Zenon DEF Distinct
  <2>2. CASE k \notin DOMAIN s /\ l \notin DOMAIN s
    <3>1. PICK i \in DOMAIN t, j \in DOMAIN t : k = Len(s) + i /\ l = Len(s) + j
      BY <1>2, <2>2, Zenon
    <3>2. t[i] = t[j]
      BY <1>3, <1>5, <3>1, Zenon
    <3>3. i = j
      BY <3>2, Zenon DEF Distinct
    <3> QED  BY <3>1, <3>3
  <2>3. CASE k \in DOMAIN s /\ l \notin DOMAIN s
    <3>1. PICK j \in DOMAIN t : l = Len(s) + j
      BY <1>2, <2>3, Zenon
    <3> QED  BY <1>3, <1>4, <1>5, <2>3, <3>1, Zenon
  <2>4. CASE k \notin DOMAIN s /\ l \in DOMAIN s
    <3>1. PICK i \in DOMAIN t : k = Len(s) + i
      BY <1>2, <2>4, Zenon
    <3> QED  BY <1>3, <1>4, <1>5, <2>4, <3>1, Zenon
  <2> QED  BY <2>1, <2>2, <2>3, <2>4
<1> QED  BY <1>5 DEF u, Distinct

\* The item joins a group that is still incomplete.
LEMMA JoinInv ==
    ASSUME RollInv, NEW w \in Workers, worker[w].pc # "idle", Leaves(w), NEW i, i = worker[w].item,
           groups' = [groups EXCEPT ![Source[i]] = Append(groups[Source[i]], i)],
           Len(groups[Source[i]]) + 1 < Whole, UNCHANGED buffer
    PROVE  RollInv'
<1> DEFINE g == Source[i]
<1>0. Types /\ Grouped /\ Buffered /\ OnePlace /\ ItemsConserved
  BY DEF RollInv, TypeOK, Places
<1>1. /\ w \in InFlight /\ i \in 1..Taken /\ i \in Items /\ g \in Groups
      /\ groups[g] \in Seq(Items) /\ i \notin Range(groups[g])
      /\ i \notin Range(buffer) /\ i \notin delivered /\ Len(groups[g]) + 1 \in Items
      /\ \A v \in InFlight \ {w} : worker[v].item # i
  BY AddFacts
<1>2. groups' \in [Groups -> Seq(Items)]
  BY <1>0, <1>1 DEF Types
<1>3. /\ TypeOK' /\ Supply' /\ Held' /\ Taken' = Taken /\ Whole' = Whole
      /\ InFlight' = InFlight \ {w}
      /\ \A v \in InFlight' : worker'[v] = worker[v]
      /\ Cardinality(InFlight') = Cardinality(InFlight) - 1
  BY <1>0, <1>2, LeavesFacts DEF Types
<1>4. UNCHANGED <<buffer, delivered, next, queue, failures>>
  BY DEF Leaves, lossVars
<1>5. /\ groups'[g] = Append(groups[g], i)
      /\ \A h \in Groups : h # g => groups'[h] = groups[h]
  BY <1>0, <1>1 DEF Types
<1> HIDE DEF g
<1>6. Len(groups'[g]) = Len(groups[g]) + 1 /\ Len(groups[g]) \in Nat
  BY <1>1, <1>5
<1>7. Range(groups'[g]) = Range(groups[g]) \cup {i} /\ Distinct(groups'[g])
  <2>1. Distinct(groups[g])
    BY <1>0, <1>1 DEF Grouped
  <2> QED  BY <1>1, <1>5, <2>1, AppendDistinct
<1>8. Grouped'
  <2> SUFFICES ASSUME NEW h \in Groups
               PROVE  (/\ Len(groups[h]) < Whole /\ Distinct(groups[h])
                       /\ \A k \in DOMAIN groups[h] : groups[h][k] \in 1..Taken /\ Source[groups[h][k]] = h)'
    BY Zenon DEF Grouped
  <2> SUFFICES /\ Len(groups'[h]) < Whole /\ Distinct(groups'[h])
               /\ \A k \in DOMAIN groups'[h] : groups'[h][k] \in 1..Taken /\ Source[groups'[h][k]] = h
    BY <1>3, Zenon DEF Distinct
  <2>0. /\ Len(groups[h]) < Whole /\ Distinct(groups[h])
        /\ \A y \in Range(groups[h]) : y \in 1..Taken /\ Source[y] = h
    <3>1. /\ Len(groups[h]) < Whole /\ Distinct(groups[h])
          /\ \A k \in DOMAIN groups[h] : groups[h][k] \in 1..Taken /\ Source[groups[h][k]] = h
      BY <1>0 DEF Grouped
    <3> QED  BY <3>1 DEF Range
  <2>1. CASE h # g
    BY <1>5, <2>0, <2>1 DEF Range
  <2>2. CASE h = g
    <3>1. Len(groups'[g]) < Whole
      BY <1>6 DEF g
    <3>2. \A y \in Range(groups'[g]) : y \in 1..Taken /\ Source[y] = g
      BY <1>1, <1>7, <2>0, <2>2, Zenon DEF g
    <3>3. \A k \in DOMAIN groups'[g] : groups'[g][k] \in 1..Taken /\ Source[groups'[g][k]] = g
      BY <3>2 DEF Range
    <3> QED  BY <1>7, <2>2, <3>1, <3>3
  <2> QED  BY <2>1, <2>2
<1>9. Buffered'
  BY <1>0, <1>3, <1>4 DEF Buffered
<1>10. OnePlace'
  <2>1. \A j \in Items : Range(groups'[Source[j]]) \subseteq Range(groups[Source[j]]) \cup {i}
    BY <1>5, <1>7, SourceFacts
  <2>2. \A v \in InFlight' : /\ worker'[v].item # i /\ worker'[v].item \in Items
                             /\ v \in InFlight /\ worker'[v].item = worker[v].item
    <3>1. Held
      BY DEF RollInv, Places
    <3> QED  BY <1>1, <1>3, <3>1, Numbers DEF Held
  <2>3. \A v \in InFlight' : worker'[v].item \notin
            Range(groups'[Source[worker'[v].item]]) \cup Range(buffer') \cup delivered'
    BY <1>0, <1>4, <2>1, <2>2 DEF OnePlace
  <2>4. \A j \in Items : j \in Range(groups'[Source[j]]) => j \notin Range(buffer') \cup delivered'
    BY <1>0, <1>1, <1>4, <2>1 DEF OnePlace
  <2> QED  BY <1>0, <1>3, <1>4, <2>3, <2>4 DEF OnePlace
<1>11. ItemsConserved'
  <2>1. Cardinality(GroupedItems') = Cardinality(GroupedItems) + 1
    <3>1. TypeOK
      BY DEF RollInv
    <3> QED  BY <1>1, <1>2, <1>5, <1>6, <3>1, GroupGrows
  <2>2. next = Len(queue) + Cardinality(InFlight) + Cardinality(GroupedItems)
                 + Len(buffer) + Cardinality(delivered) + failures
    BY <1>0 DEF ItemsConserved
  <2>3. next = Len(queue) + (Cardinality(InFlight) - 1) + (Cardinality(GroupedItems) + 1)
                 + Len(buffer) + Cardinality(delivered) + failures
    BY <2>2, Numbers
  <2> QED  BY <1>3, <1>4, <2>1, <2>3 DEF ItemsConserved
<1> QED  BY <1>3, <1>8, <1>9, <1>10, <1>11 DEF RollInv, Places

\* The group that i completes, appended to the buffer.
LEMMA Appended ==
    ASSUME NEW b \in Seq(Items), NEW s \in Seq(Items), NEW i \in Items
    PROVE  /\ Append(s, i) \in Seq(Items) /\ b \o Append(s, i) \in Seq(Items)
           /\ Len(b) \in Nat /\ Len(s) \in Nat /\ DOMAIN b = 1..Len(b) /\ DOMAIN s = 1..Len(s)
           /\ Len(b \o Append(s, i)) = Len(b) + Len(s) + 1
           /\ DOMAIN (b \o Append(s, i)) = 1..(Len(b) + Len(s) + 1)
           /\ \A k \in 1..Len(b) : (b \o Append(s, i))[k] = b[k]
           /\ \A k \in 1..Len(s) : (b \o Append(s, i))[Len(b) + k] = s[k]
           /\ (b \o Append(s, i))[Len(b) + Len(s) + 1] = i
<1>1. /\ Append(s, i) \in Seq(Items) /\ Len(Append(s, i)) = Len(s) + 1
      /\ Append(s, i)[Len(s) + 1] = i /\ \A k \in 1..Len(s) : Append(s, i)[k] = s[k]
  OBVIOUS
<1>2. PICK t \in Seq(Items) : t = Append(s, i)
  BY <1>1
<1>3. /\ b \o t \in Seq(Items) /\ Len(b \o t) = Len(b) + Len(t) /\ Len(b) \in Nat /\ Len(s) \in Nat
      /\ DOMAIN (b \o t) = 1..(Len(b) + Len(t))
      /\ \A k \in 1..Len(b) : (b \o t)[k] = b[k]
      /\ \A k \in 1..Len(t) : (b \o t)[Len(b) + k] = t[k]
  OBVIOUS
<1>4. /\ Len(t) = Len(s) + 1 /\ t[Len(s) + 1] = i /\ \A k \in 1..Len(s) : t[k] = s[k]
  BY <1>1, <1>2
<1>5. /\ \A k \in 1..Len(s) : (b \o t)[Len(b) + k] = s[k]
      /\ (b \o t)[Len(b) + (Len(s) + 1)] = i
  BY <1>3, <1>4
<1>6. Len(b) + (Len(s) + 1) = Len(b) + Len(s) + 1
  BY <1>3
<1> QED  BY <1>1, <1>2, <1>3, <1>4, <1>5, <1>6

\* The item completes its group, which moves to the buffer.
LEMMA CompleteInv ==
    ASSUME RollInv, NEW w \in Workers, worker[w].pc # "idle", Leaves(w), NEW i, i = worker[w].item,
           groups' = [groups EXCEPT ![Source[i]] = <<>>],
           buffer' = buffer \o Append(groups[Source[i]], i)
    PROVE  RollInv'
<1> DEFINE g == Source[i]
           s == groups[g]
<1>0. Types /\ Held /\ Grouped /\ Buffered /\ OnePlace /\ ItemsConserved
  BY DEF RollInv, TypeOK, Places
<1>1. /\ w \in InFlight /\ i \in 1..Taken /\ i \in Items /\ g \in Groups
      /\ s \in Seq(Items) /\ i \notin Range(s)
      /\ i \notin Range(buffer) /\ i \notin delivered /\ Len(s) + 1 \in Items
      /\ \A v \in InFlight \ {w} : worker[v].item # i
  BY AddFacts
<1>2. buffer \in Seq(Items)
  BY <1>0 DEF Types
<1>3. /\ buffer' = buffer \o Append(s, i) /\ Append(s, i) \in Seq(Items)
      /\ buffer' \in Seq(Items) /\ Len(buffer) \in Nat /\ Len(s) \in Nat
      /\ Len(buffer') = Len(buffer) + Len(s) + 1
  <2>1. buffer' = buffer \o Append(s, i)
    OBVIOUS
  <2> HIDE DEF g, s
  <2>2. Append(s, i) \in Seq(Items) /\ Len(Append(s, i)) = Len(s) + 1 /\ Len(s) \in Nat
    BY <1>1
  <2>3. /\ buffer' \in Seq(Items) /\ Len(buffer) \in Nat
        /\ Len(buffer') = Len(buffer) + Len(Append(s, i))
    BY <1>2, <2>1, <2>2
  <2> QED  BY <2>1, <2>2, <2>3
<1>4. groups' \in [Groups -> Seq(Items)]
  BY <1>0, <1>1 DEF Types
<1>5. /\ TypeOK' /\ Supply' /\ Held' /\ Taken' = Taken /\ Whole' = Whole
      /\ InFlight' = InFlight \ {w}
      /\ \A v \in InFlight' : worker'[v] = worker[v]
      /\ Cardinality(InFlight') = Cardinality(InFlight) - 1
  BY <1>3, <1>4, LeavesFacts
<1>6. UNCHANGED <<delivered, next, queue, failures>>
  BY DEF Leaves, lossVars
<1>7. /\ groups'[g] = <<>>
      /\ \A h \in Groups : h # g => groups'[h] = groups[h]
  BY <1>0, <1>1 DEF Types
<1>8. Distinct(s) /\ \A y \in Range(s) : y \in 1..Taken /\ Source[y] = g
  <2>1. Distinct(s) /\ \A k \in DOMAIN s : s[k] \in 1..Taken /\ Source[s[k]] = g
    BY <1>0, <1>1 DEF Grouped
  <2> QED  BY <2>1 DEF Range
<1> HIDE DEF g, s
<1>9. /\ Range(Append(s, i)) = Range(s) \cup {i} /\ Distinct(Append(s, i))
      /\ Range(buffer') = Range(buffer) \cup Range(s) \cup {i}
  <2>1. Range(Append(s, i)) = Range(s) \cup {i} /\ Distinct(Append(s, i))
    BY <1>1, <1>8, AppendDistinct
  <2>2. Range(buffer') = Range(buffer) \cup Range(Append(s, i))
    <3>1. Range(buffer \o Append(s, i)) = Range(buffer) \cup Range(Append(s, i))
      <4>1. \A b, t \in Seq(Items) : Range(b \o t) = Range(b) \cup Range(t)
        BY RangeConcatenation, Zenon
      <4> QED  BY <1>2, <1>3, <4>1, Zenon
    <3> QED  BY <1>3, <3>1, Zenon
  <2> QED  BY <2>1, <2>2
<1>10. Range(s) \cap Range(buffer) = {} /\ Range(s) \cap delivered = {}
  <2>1. \A y \in Range(s) : y \in Items /\ Source[y] = g /\ s = groups[g]
    BY <1>1, <1>8, Numbers DEF s
  <2> QED  BY <1>0, <2>1 DEF OnePlace
<1>11. Grouped'
  <2> SUFFICES ASSUME NEW h \in Groups
               PROVE  (/\ Len(groups[h]) < Whole /\ Distinct(groups[h])
                       /\ \A k \in DOMAIN groups[h] : groups[h][k] \in 1..Taken /\ Source[groups[h][k]] = h)'
    BY Zenon DEF Grouped
  <2> SUFFICES /\ Len(groups'[h]) < Whole /\ Distinct(groups'[h])
               /\ \A k \in DOMAIN groups'[h] : groups'[h][k] \in 1..Taken /\ Source[groups'[h][k]] = h
    BY <1>5, Zenon DEF Distinct
  <2>1. CASE h # g
    BY <1>0, <1>7, <2>1 DEF Grouped
  <2>2. CASE h = g
    <3>1. Len(groups'[h]) = 0 /\ DOMAIN groups'[h] = {}
      BY <1>7, <2>2
    <3>2. 0 < Whole
      BY Numbers
    <3> QED  BY <3>1, <3>2 DEF Distinct
  <2> QED  BY <2>1, <2>2
<1>12. Buffered'
  <2>1. Range(buffer') \subseteq 1..Taken'
    BY <1>0, <1>1, <1>5, <1>8, <1>9 DEF Buffered
  <2>2. Range(buffer) \cap Range(Append(s, i)) = {}
    BY <1>1, <1>9, <1>10
  <2>3. Distinct(buffer')
    <3>1. Distinct(buffer \o Append(s, i))
      BY <1>0, <1>2, <1>3, <1>9, <2>2, ConcatDistinct, Zenon DEF Buffered
    <3> QED  BY <1>3, <3>1 DEF Distinct
  <2> QED  BY <2>1, <2>3 DEF Buffered
<1>13. OnePlace'
  <2>1. \A v \in InFlight' : /\ worker'[v].item # i /\ worker'[v].item \in Items
                             /\ v \in InFlight /\ worker'[v].item = worker[v].item
    BY <1>0, <1>1, <1>5, Numbers DEF Held
  <2>2. \A j \in Items : Source[j] # g => groups'[Source[j]] = groups[Source[j]]
    BY <1>7, SourceFacts
  <2>3. Range(groups'[g]) = {}
    BY <1>7 DEF Range
  <2>4. \A j \in Items : j \in Range(s) => Source[j] = g
    BY <1>8
  <2>5. \A v \in InFlight' : worker'[v].item \notin Range(groups'[Source[worker'[v].item]])
    BY <1>0, <2>1, <2>2, <2>3 DEF OnePlace
  <2>6. \A v \in InFlight' : worker'[v].item \notin Range(s)
    BY <1>0, <2>1, <2>4 DEF OnePlace, s
  <2>7. \A v \in InFlight' : worker'[v].item \notin Range(buffer') \cup delivered'
    BY <1>0, <1>6, <1>9, <2>1, <2>6 DEF OnePlace
  <2>8. \A j \in Items : j \in Range(groups'[Source[j]]) => j \notin Range(buffer') \cup delivered'
    <3> SUFFICES ASSUME NEW j \in Items, j \in Range(groups'[Source[j]])
                 PROVE  j \notin Range(buffer') \cup delivered'
      OBVIOUS
    <3>1. Source[j] # g /\ j \in Range(groups[Source[j]])
      BY <2>2, <2>3
    <3>2. j # i /\ j \notin Range(s)
      BY <2>4, <3>1 DEF g
    <3> QED  BY <1>0, <1>6, <1>9, <3>1, <3>2 DEF OnePlace
  <2>9. Range(buffer') \cap delivered' = {} /\ delivered' \subseteq 1..Taken'
    BY <1>0, <1>1, <1>5, <1>6, <1>9, <1>10 DEF OnePlace
  <2> QED  BY <2>5, <2>7, <2>8, <2>9 DEF OnePlace
<1>14. ItemsConserved'
  <2>1. Cardinality(GroupedItems') = Cardinality(GroupedItems) - Len(s)
    <3>1. TypeOK
      BY DEF RollInv
    <3>2. Len(s) <= Len(Source)
      BY <1>1, <1>3, SourceFacts
    <3> QED  BY <1>1, <3>1, <3>2, GroupLeaves DEF g, s
  <2>2. next = Len(queue) + Cardinality(InFlight) + Cardinality(GroupedItems)
                 + Len(buffer) + Cardinality(delivered) + failures
    BY <1>0 DEF ItemsConserved
  <2>3. next = Len(queue) + (Cardinality(InFlight) - 1) + (Cardinality(GroupedItems) - Len(s))
                 + (Len(buffer) + Len(s) + 1) + Cardinality(delivered) + failures
    BY <1>3, <2>2, Numbers, SMTT(20)
  <2> QED  BY <1>3, <1>5, <1>6, <2>1, <2>3 DEF ItemsConserved
<1> QED  BY <1>5, <1>11, <1>12, <1>13, <1>14 DEF RollInv, Places

\* add: the item joins its group, and a group that becomes whole goes to the buffer.
LEMMA BufferAddInv ==
    ASSUME RollInv, NEW w \in Workers, BufferAdd(w)
    PROVE  RollInv'
<1> DEFINE i == worker[w].item
           g == Source[i]
<1>0. Flags /\ Types /\ Supply
  BY DEF RollInv, TypeOK, Places
<1>1. worker[w].pc \in {"add", "woken"} /\ worker[w] \in [pc : WorkerPc, item : Nat, try : Nat, turn : Nat]
  BY <1>0 DEF BufferAdd, Types
<1>2. UNCHANGED <<training, step, pending, batch, delivered, next, queue, lossVars>>
  BY DEF BufferAdd
<1>3. CASE MustWait(w)
  <2>1. /\ worker' = [worker EXCEPT ![w].pc = "wait"] /\ getSignal' \in BOOLEAN
        /\ UNCHANGED <<groups, buffer, putSignal, trainer>>
    BY <1>3 DEF BufferAdd
  <2>2. /\ worker' \in [Workers -> [pc : WorkerPc, item : Nat, try : Nat, turn : Nat]]
        /\ worker'[w].pc = "wait" /\ worker'[w].item = worker[w].item
        /\ \A v \in Workers \ {w} : worker'[v] = worker[v]
    BY <1>0, <1>1, <2>1 DEF Types, WorkerPc
  <2>3. Types'
    BY <1>0, <1>2, <2>1, <2>2 DEF Types, lossVars
  <2>4. Flags'
    BY <1>0, <1>2, <2>1 DEF Flags
  <2>5. InFlight' = InFlight /\ \A v \in InFlight : worker'[v].item = worker[v].item
    BY <1>1, <2>2 DEF InFlight
  <2>6. trainer'.pc = "put" => trainer'.left >= 0 /\ next + trainer'.left <= Len(Source)
    BY <1>0, <2>1 DEF Supply
  <2> QED  BY <1>2, <2>1, <2>3, <2>4, <2>5, <2>6, NothingMoves DEF TypeOK, lossVars
<1>4. CASE ~MustWait(w)
  <2>1. /\ worker' = [worker EXCEPT ![w] = Free] /\ AddItem(i)
        /\ getSignal' \in BOOLEAN
    BY <1>0, <1>4 DEF BufferAdd, Flags
  <2>2. /\ putSignal' \in BOOLEAN
        /\ trainer' \in [pc : TrainerPc, left : Int, minimum : Int]
        /\ trainer'.pc = "put" => trainer.pc = "put" /\ trainer'.left = trainer.left
    <3>1. CASE UNCHANGED <<putSignal, trainer>>
      BY <1>0, <3>1 DEF Flags, Types
    <3>2. CASE AnnounceGroup
      <4>1. putSignal' \in BOOLEAN
        BY <3>2 DEF AnnounceGroup
      <4>2. CASE trainer.pc = "wait"
        BY <1>0, <3>2, <4>2 DEF AnnounceGroup, Types, TrainerPc
      <4>3. CASE trainer.pc # "wait"
        BY <1>0, <3>2, <4>3 DEF AnnounceGroup, Types
      <4> QED  BY <4>1, <4>2, <4>3
    <3> QED  BY <2>1, <3>1, <3>2 DEF AddItem
  <2>3. Leaves(w)
    BY <1>2, <2>1, <2>2 DEF Leaves
  <2>4. Len(groups[g]) + 1 \in Nat /\ Whole \in Nat /\ Len(Append(groups[g], i)) = Len(groups[g]) + 1
    <3>1. groups[g] \in Seq(Items) /\ i \in Items
      BY <1>1, AddFacts
    <3> QED  BY <3>1, Numbers, SMTT(20)
  <2>5. CASE Len(groups[g]) + 1 < Whole
    <3>1. groups' = [groups EXCEPT ![g] = Append(groups[g], i)] /\ UNCHANGED buffer
      <4>1. ~(Len(Append(groups[g], i)) >= Whole)
        BY <2>4, <2>5
      <4> QED  BY <2>1, <4>1 DEF AddItem
    <3> QED  BY <1>1, <2>3, <2>5, <3>1, JoinInv
  <2>6. CASE ~(Len(groups[g]) + 1 < Whole)
    <3>1. groups' = [groups EXCEPT ![g] = <<>>] /\ buffer' = buffer \o Append(groups[g], i)
      <4>1. Len(Append(groups[g], i)) >= Whole
        BY <2>4, <2>6
      <4> QED  BY <2>1, <4>1 DEF AddItem
    <3> QED  BY <1>1, <2>3, <3>1, CompleteInv
  <2> QED  BY <2>5, <2>6
<1> QED  BY <1>3, <1>4

\* What get leaves in the buffer and what it takes.
LEMMA Parted ==
    ASSUME NEW b \in Seq(Items), NEW n \in 0..Len(b)
    PROVE  /\ SubSeq(b, 1, n) \in Seq(Items) /\ Len(SubSeq(b, 1, n)) = n
           /\ \A k \in 1..n : SubSeq(b, 1, n)[k] = b[k]
           /\ SubSeq(b, n + 1, Len(b)) \in Seq(Items)
           /\ Len(SubSeq(b, n + 1, Len(b))) = Len(b) - n
           /\ DOMAIN SubSeq(b, n + 1, Len(b)) = 1..(Len(b) - n)
           /\ \A k \in 1..(Len(b) - n) : SubSeq(b, n + 1, Len(b))[k] = b[n + k]
<1>1. Len(b) \in Nat /\ n \in Nat /\ \A k \in 1..Len(b) : b[k] \in Items
  OBVIOUS
<1>2. \A k \in 1..n : b[k] \in Items
  BY <1>1
<1>3. \A k \in (n + 1)..Len(b) : b[k] \in Items
  BY <1>1
<1>4. SubSeq(b, 1, n) \in Seq(Items) /\ Len(SubSeq(b, 1, n)) = n
  BY <1>1, <1>2, SubSeqProperties
<1>5. \A k \in 1..n : SubSeq(b, 1, n)[k] = b[k]
  <2> SUFFICES ASSUME NEW k \in 1..n
               PROVE  SubSeq(b, 1, n)[k] = b[k]
    OBVIOUS
  <2>1. SubSeq(b, 1, n)[k] = b[1 + k - 1]
    BY <1>1, <1>2, SubSeqProperties
  <2> QED  BY <2>1
<1>6. SubSeq(b, n + 1, Len(b)) \in Seq(Items) /\ Len(SubSeq(b, n + 1, Len(b))) = Len(b) - n
  BY <1>1, <1>3, SubSeqProperties
<1>7. \A k \in 1..(Len(b) - n) : SubSeq(b, n + 1, Len(b))[k] = b[n + k]
  <2> SUFFICES ASSUME NEW k \in 1..(Len(b) - n)
               PROVE  SubSeq(b, n + 1, Len(b))[k] = b[n + k]
    OBVIOUS
  <2>1. SubSeq(b, n + 1, Len(b))[k] = b[(n + 1) + k - 1]
    BY <1>1, <1>3, SubSeqProperties
  <2> QED  BY <1>1, <2>1
<1>8. DOMAIN SubSeq(b, n + 1, Len(b)) = 1..(Len(b) - n)
  BY <1>6
<1> QED  BY <1>4, <1>5, <1>6, <1>7, <1>8

\* get: the whole groups at the head of the buffer are delivered.
LEMMA BufferGetInv ==
    ASSUME RollInv, BufferGet
    PROVE  RollInv'
<1> DEFINE n == GetLength(Len(buffer))
<1>0. Flags /\ Types /\ Supply /\ Held /\ Grouped /\ Buffered /\ OnePlace /\ ItemsConserved
  BY DEF RollInv, TypeOK, Places
<1>1. n \in 0..Len(buffer) /\ Len(buffer) \in Nat
  BY Numbers, LengthFacts DEF RollInv
<1>2. /\ UNCHANGED <<training, step, groups, next, queue, errors, failures>>
      /\ trainer.pc \in {"get", "woken"}
  BY DEF BufferGet, lossVars
<1>3. CASE ~(n >= trainer.minimum)
  <2>1. /\ putSignal' = FALSE /\ trainer' = [trainer EXCEPT !.pc = "wait"]
        /\ UNCHANGED <<batch, buffer, delivered, getSignal, worker, pending>>
    BY <1>3 DEF BufferGet
  <2>2. trainer' \in [pc : TrainerPc, left : Int, minimum : Int] /\ trainer'.pc = "wait"
    BY <1>0, <2>1 DEF Types, TrainerPc
  <2>3. Types'
    BY <1>0, <1>2, <2>1, <2>2 DEF Types
  <2>4. Flags'
    BY <1>0, <1>2, <2>1 DEF Flags
  <2>5. InFlight' = InFlight /\ \A w \in InFlight : worker'[w].item = worker[w].item
    BY <2>1 DEF InFlight
  <2> QED  BY <1>2, <2>1, <2>2, <2>3, <2>4, <2>5, NothingMoves DEF TypeOK
<1>4. CASE n >= trainer.minimum
  <2> DEFINE T == {buffer[k] : k \in 1..n}
  <2>1. /\ batch' = SubSeq(buffer, 1, n) /\ buffer' = SubSeq(buffer, n + 1, Len(buffer))
        /\ delivered' = delivered \cup T /\ getSignal' = TRUE
        /\ trainer' = [trainer EXCEPT !.pc = "idle"]
        /\ pending' = CountOff(n)
    BY <1>4 DEF BufferGet
  <2>2. worker' = [w \in Workers |-> IF worker[w].pc = "wait"
                      THEN [worker[w] EXCEPT !.pc = "woken"] ELSE worker[w]]
    BY <1>4 DEF BufferGet
  <2>3. putSignal' \in BOOLEAN
    BY <1>0, <1>4 DEF BufferGet, Flags
  <2>4. pending' \in Int
    BY <1>0, <1>1, <2>1 DEF CountOff, Types
  <2> HIDE DEF n
  <2>5. buffer \in Seq(Items)
    BY <1>0 DEF Types
  <2>6. /\ batch' \in Seq(Items) /\ buffer' \in Seq(Items) /\ Len(buffer') = Len(buffer) - n
        /\ DOMAIN buffer' = 1..(Len(buffer) - n)
        /\ \A k \in 1..(Len(buffer) - n) : buffer'[k] = buffer[n + k]
    BY <1>1, <2>1, <2>5, Parted
  <2>7. DOMAIN buffer = 1..Len(buffer)
    BY <2>5
  <2>8. /\ worker' \in [Workers -> [pc : WorkerPc, item : Nat, try : Nat, turn : Nat]]
        /\ \A w \in Workers : /\ worker'[w].item = worker[w].item
                              /\ worker'[w].pc = "idle" <=> worker[w].pc = "idle"
    <3> SUFFICES ASSUME NEW w \in Workers
                 PROVE  /\ worker'[w] \in [pc : WorkerPc, item : Nat, try : Nat, turn : Nat]
                        /\ worker'[w].item = worker[w].item
                        /\ worker'[w].pc = "idle" <=> worker[w].pc = "idle"
      BY <2>2
    <3>1. worker[w] \in [pc : WorkerPc, item : Nat, try : Nat, turn : Nat]
      BY <1>0 DEF Types
    <3>2. CASE worker[w].pc = "wait"
      BY <2>2, <3>1, <3>2 DEF WorkerPc
    <3>3. CASE worker[w].pc # "wait"
      BY <2>2, <3>1, <3>3
    <3> QED  BY <3>2, <3>3
  <2>9. InFlight' = InFlight /\ \A w \in InFlight : worker'[w].item = worker[w].item
    BY <2>8 DEF InFlight
  <2>10. /\ T \subseteq Range(buffer) /\ Range(buffer') \subseteq Range(buffer)
         /\ Range(buffer') \cap T = {}
    <3>1. T \subseteq Range(buffer)
      BY <1>1, <2>7 DEF Range
    <3>2. \A k \in 1..(Len(buffer) - n) : n + k \in DOMAIN buffer /\ n + k \notin 1..n
      BY <1>1, <2>7
    <3>3. Range(buffer') \subseteq Range(buffer)
      BY <2>6, <3>2 DEF Range
    <3>4. \A j \in 1..n : j \in DOMAIN buffer
      BY <1>1, <2>7
    <3>5. ASSUME NEW y \in Range(buffer'), y \in T
          PROVE  FALSE
      <4>1. PICK k \in 1..(Len(buffer) - n) : y = buffer[n + k]
        BY <2>6, <3>5 DEF Range
      <4>2. PICK j \in 1..n : y = buffer[j]
        BY <3>5
      <4>3. j = n + k
        BY <1>0, <3>2, <3>4, <4>1, <4>2 DEF Buffered, Distinct
      <4> QED  BY <3>2, <4>3
    <3> QED  BY <3>1, <3>3, <3>5
  <2>11. trainer' \in [pc : TrainerPc, left : Int, minimum : Int] /\ trainer'.pc = "idle"
    BY <1>0, <2>1 DEF Types, TrainerPc
  <2>12. Range(buffer) \subseteq Items
    BY <2>5, <2>7 DEF Range
  <2>13. Types'
    BY <1>0, <1>2, <2>1, <2>4, <2>6, <2>8, <2>10, <2>11, <2>12 DEF Types
  <2>14. Flags'
    BY <1>0, <1>2, <2>1, <2>3 DEF Flags
  <2>15. Taken' = Taken /\ Whole' = Whole /\ GroupedItems' = GroupedItems
    BY <1>2 DEF Taken, Whole, GroupedItems
  <2>16. Supply' /\ Held' /\ Grouped'
    BY <1>0, <1>2, <2>9, <2>11, <2>15 DEF Supply, Held, Grouped
  <2>17. Buffered'
    <3>1. \A j, k \in 1..(Len(buffer) - n) : n + j = n + k => j = k
      BY <1>1
    <3>2. \A k \in 1..(Len(buffer) - n) : n + k \in DOMAIN buffer
      BY <1>1, <2>7
    <3>3. Distinct(buffer')
      BY <1>0, <2>6, <3>1, <3>2 DEF Buffered, Distinct
    <3> QED  BY <1>0, <2>10, <2>15, <3>3 DEF Buffered
  <2>18. OnePlace'
    <3>1. delivered' \subseteq delivered \cup Range(buffer)
      BY <2>1, <2>10
    <3>2. \A w \in InFlight' : worker'[w].item \notin
              Range(groups'[Source[worker'[w].item]]) \cup Range(buffer') \cup delivered'
      BY <1>0, <1>2, <2>9, <2>10, <3>1 DEF OnePlace
    <3>3. \A i \in Items : i \in Range(groups'[Source[i]]) => i \notin Range(buffer') \cup delivered'
      BY <1>0, <1>2, <2>10, <3>1 DEF OnePlace
    <3>4. Range(buffer') \cap delivered' = {} /\ delivered' \subseteq 1..Taken'
      BY <1>0, <2>1, <2>10, <2>15 DEF OnePlace, Buffered
    <3> QED  BY <3>2, <3>3, <3>4 DEF OnePlace
  <2>19. ItemsConserved'
    <3>1. IsFiniteSet(T) /\ Cardinality(T) = n
      BY <1>0, <1>1, <2>5, PrefixCount DEF Buffered
    <3>2. delivered \cap T = {}
      BY <1>0, <2>10 DEF OnePlace
    <3>3. IsFiniteSet(delivered)
      BY Counted DEF RollInv
    <3> HIDE DEF T
    <3>4. Cardinality(delivered') = Cardinality(delivered) + n
      <4>1. Cardinality(delivered \cup T)
              = Cardinality(delivered) + Cardinality(T) - Cardinality(delivered \cap T)
        BY <3>1, <3>3, FS_Union
      <4>2. Cardinality({}) = 0
        BY FS_EmptySet
      <4>3. Cardinality(delivered \cup T) = Cardinality(delivered) + n - 0
        BY <3>1, <3>2, <4>1, <4>2
      <4> QED  BY <1>1, <2>1, <4>3, Numbers
    <3>5. next = Len(queue) + Cardinality(InFlight) + Cardinality(GroupedItems)
                   + Len(buffer) + Cardinality(delivered) + failures
      BY <1>0 DEF ItemsConserved
    <3>6. next = Len(queue) + Cardinality(InFlight) + Cardinality(GroupedItems)
                   + (Len(buffer) - n) + (Cardinality(delivered) + n) + failures
      BY <1>1, <3>5, Numbers
    <3> QED  BY <1>2, <2>6, <2>9, <2>15, <3>4, <3>6 DEF ItemsConserved
  <2> QED  BY <2>13, <2>14, <2>16, <2>17, <2>18, <2>19 DEF RollInv, Places, TypeOK
<1> QED  BY <1>3, <1>4

\* Every step keeps the invariant.
LEMMA RollStep == RollInv /\ [Next]_vars => RollInv'
<1> SUFFICES ASSUME RollInv, [Next]_vars PROVE RollInv'
  OBVIOUS
<1>1. CASE Trainer
  BY <1>1, PrepareInv, PutInv, BufferGetInv DEF Trainer
<1>2. ASSUME NEW w \in Workers, Worker(w)
      PROVE  RollInv'
  BY <1>2, TakeItemInv, LoopInv, BufferAddInv DEF Worker
<1>3. CASE UNCHANGED vars
  <2>1. /\ UNCHANGED <<training, next, queue, groups, buffer, delivered, failures, trainer, worker>>
        /\ UNCHANGED <<step, pending, batch, errors, putSignal, getSignal>>
    BY <1>3 DEF vars, trainVars, bufVars, lossVars
  <2>2. Types'
    BY <2>1 DEF RollInv, TypeOK, Types
  <2>3. Flags'
    BY <2>1 DEF RollInv, TypeOK, Flags
  <2>4. trainer'.pc = "put" => trainer'.left >= 0 /\ next + trainer'.left <= Len(Source)
    BY <2>1 DEF RollInv, Places, Supply
  <2>5. InFlight' = InFlight /\ \A w \in InFlight : worker'[w].item = worker[w].item
    BY <2>1 DEF InFlight
  <2> QED  BY <2>1, <2>2, <2>3, <2>4, <2>5, NothingMoves DEF TypeOK
<1> QED  BY <1>1, <1>2, <1>3 DEF Next

\* The invariant holds always.
LEMMA RollAlways == Spec => []RollInv
<1> QED  BY PlacesInit, RollStep, PTL DEF Spec

\* No item that was put is lost but by a failure of its rollout, and none is
\* delivered twice, for any number of workers, any order of the group_ids and any
\* sizes of queue, buffer and groups (task_manager.py:118-172, buffer.py:16-43).
THEOREM ItemsNotLost == Spec => []ItemsConserved
<1>1. RollInv => ItemsConserved
  BY DEF RollInv
<1> QED  BY <1>1, RollAlways, PTL

\* However many adds are woken at once, the buffer exceeds its limit by less than
\* a group (buffer.py:17-19).
THEOREM BufferStays == Spec => []BufferBounded
<1>1. Init => BufferBounded
  BY SizeFacts DEF Init, BufferBounded, Whole
<1>2. RollInv /\ BufferBounded /\ [Next]_vars => BufferBounded'
  <2> SUFFICES ASSUME RollInv, BufferBounded, [Next]_vars
               PROVE  BufferBounded'
    OBVIOUS
  <2>1. /\ Len(buffer) \in Nat /\ Whole \in Nat \ {0} /\ MaxSize \in Nat /\ buffer \in Seq(Items)
        /\ Len(buffer) < MaxSize + Whole
    BY Numbers, SizeFacts DEF RollInv, TypeOK, Types, BufferBounded
  <2>2. CASE UNCHANGED <<training, buffer>>
    BY <2>2 DEF BufferBounded, Whole
  <2>3. CASE BufferGet
    <3>1. GetLength(Len(buffer)) \in 0..Len(buffer) /\ UNCHANGED training
      BY <2>1, <2>3, LengthFacts DEF RollInv, BufferGet
    <3>2. CASE UNCHANGED buffer
      BY <2>2, <3>1, <3>2
    <3>3. CASE buffer' = SubSeq(buffer, GetLength(Len(buffer)) + 1, Len(buffer))
      <4>1. Len(buffer') = Len(buffer) - GetLength(Len(buffer))
        BY <2>1, <3>1, <3>3, Parted
      <4>2. Whole' = Whole /\ Len(buffer') <= Len(buffer)
        BY <2>1, <3>1, <4>1 DEF Whole
      <4> QED  BY <2>1, <3>1, <4>1, <4>2 DEF BufferBounded
    <3> QED  BY <2>3, <3>2, <3>3 DEF BufferGet
  <2>4. ASSUME NEW w \in Workers, BufferAdd(w)
        PROVE  BufferBounded'
    <3> DEFINE i == worker[w].item
               g == Source[i]
    <3>1. UNCHANGED training /\ worker[w].pc # "idle"
      BY <2>4 DEF BufferAdd
    <3>2. /\ groups[g] \in Seq(Items) /\ i \in Items /\ Len(groups[g]) < Whole
      BY <3>1, AddFacts
    <3>3. CASE UNCHANGED buffer
      BY <2>2, <3>1, <3>3
    <3>4. CASE ~(UNCHANGED buffer)
      <4>1. Len(buffer) < MaxSize /\ buffer' = buffer \o Append(groups[g], i)
        <5>1. ~MustWait(w) /\ AddItem(i)
          BY <2>4, <3>4 DEF BufferAdd
        <5>2. buffer' = buffer \o Append(groups[g], i)
          BY <3>4, <5>1 DEF AddItem
        <5>3. Len(buffer) < MaxSize
          BY <2>1, <5>1 DEF MustWait
        <5> QED  BY <5>2, <5>3
      <4>2. Len(buffer') = Len(buffer) + Len(groups[g]) + 1 /\ Len(groups[g]) \in Nat
        BY <2>1, <3>2, <4>1, Appended
      <4>3. Whole' = Whole
        BY <3>1 DEF Whole
      <4> QED  BY <2>1, <3>2, <4>1, <4>2, <4>3, SMTT(20) DEF BufferBounded
    <3> QED  BY <3>3, <3>4
  <2>5. CASE PrepareData \/ LoadValData \/ Put \/ CallGet
    BY <2>2, <2>5 DEF PrepareData, LoadValData, Put, CallGet, bufVars
  <2>6. ASSUME NEW w \in Workers, TakeItem(w) \/ Loop(w)
        PROVE  BufferBounded'
    BY <2>2, <2>6 DEF TakeItem, Loop, StartSample, TakeTurn, Raise, GiveUp, trainVars, bufVars
  <2>7. CASE UNCHANGED vars
    BY <2>2, <2>7 DEF vars, trainVars, bufVars
  <2> QED  BY <2>3, <2>4, <2>5, <2>6, <2>7 DEF Next, Trainer, Worker
<1> QED  BY <1>1, <1>2, RollAlways, PTL DEF Spec

-----------------------------------------------------------------------------
(* Whole groups.                                                           *)

\* Where the positions of a block are in the sequence.
LEMMA BlockArith ==
    ASSUME NEW W \in Nat \ {0}, NEW n \in Nat
    PROVE  /\ n <= n * W /\ (n + 1) * W = n * W + W
           /\ \A b \in 0..(n - 1), i \in 1..W : b * W + i \in 1..(n * W)
           /\ \A q \in Nat : q * W <= n * W => q <= n
<1>1. n <= n * W /\ (n + 1) * W = n * W + W
  OBVIOUS
<1>2. ASSUME NEW b \in 0..(n - 1), NEW i \in 1..W
      PROVE  b * W + i \in 1..(n * W)
  <2>1. b * W \in Nat /\ (b + 1) * W = b * W + W /\ (b + 1) * W <= n * W
    OBVIOUS
  <2> QED  BY <2>1
<1>3. ASSUME NEW q \in Nat, q * W <= n * W
      PROVE  q <= n
  BY <1>3
<1> QED  BY <1>1, <1>2, <1>3

\* A group that is appended is one more block.
LEMMA BlockAppended ==
    ASSUME NEW W \in Nat \ {0}, NEW b \in Seq(Items), NEW s \in Seq(Items), NEW i \in Items,
           Blocks(W, b), Len(s) + 1 = W, \A k \in 1..Len(s) : Source[s[k]] = Source[i]
    PROVE  Blocks(W, b \o Append(s, i))
<1> DEFINE t == b \o Append(s, i)
<1>1. PICK n \in 0..Len(b) :
        /\ Len(b) = n * W
        /\ \A x \in 0..(n - 1) : \A j, k \in 1..W : Source[b[x * W + j]] = Source[b[x * W + k]]
  BY DEF Blocks
<1>2. n \in Nat /\ n + 1 \in Nat /\ Len(b) \in Nat /\ Len(s) \in Nat
  OBVIOUS
<1>3. /\ Len(t) = Len(b) + Len(s) + 1
      /\ \A k \in 1..Len(b) : t[k] = b[k]
      /\ \A k \in 1..Len(s) : t[Len(b) + k] = s[k]
      /\ t[Len(b) + Len(s) + 1] = i
  BY Appended
<1> HIDE DEF t
<1>4. Len(t) = (n + 1) * W /\ n + 1 \in 0..Len(t)
  <2>1. Len(t) = n * W + W
    BY <1>1, <1>2, <1>3, SMTT(20)
  <2>2. (n + 1) * W = n * W + W /\ n + 1 <= (n + 1) * W
    BY <1>2, BlockArith
  <2> QED  BY <1>2, <2>1, <2>2
<1>5. \A k \in 1..W : Source[t[n * W + k]] = Source[i]
  <2> SUFFICES ASSUME NEW k \in 1..W
               PROVE  Source[t[Len(b) + k]] = Source[i]
    BY <1>1
  <2>1. CASE k = Len(s) + 1
    <3>1. Len(b) + k = Len(b) + Len(s) + 1
      BY <1>2, <2>1
    <3> QED  BY <1>3, <3>1
  <2>2. CASE k # Len(s) + 1
    <3>1. k \in 1..Len(s)
      BY <1>2, <2>2
    <3> QED  BY <1>3, <3>1
  <2> QED  BY <2>1, <2>2
<1>6. ASSUME NEW x \in 0..((n + 1) - 1), NEW j \in 1..W, NEW k \in 1..W
      PROVE  Source[t[x * W + j]] = Source[t[x * W + k]]
  <2>1. CASE x = n
    BY <1>5, <2>1
  <2>2. CASE x # n
    <3>1. x \in 0..(n - 1)
      BY <1>2, <2>2
    <3>2. x * W + j \in 1..Len(b) /\ x * W + k \in 1..Len(b)
      BY <1>1, <1>2, <3>1, BlockArith
    <3>3. t[x * W + j] = b[x * W + j] /\ t[x * W + k] = b[x * W + k]
      BY <1>3, <3>2, Zenon
    <3>4. Source[b[x * W + j]] = Source[b[x * W + k]]
      BY <1>1, <3>1, Zenon
    <3> QED  BY <3>3, <3>4, Zenon
  <2> QED  BY <2>1, <2>2
<1>7. Blocks(W, t)
  BY <1>4, <1>6 DEF Blocks
<1> QED  BY <1>7 DEF t

\* A sequence of blocks that is cut between two blocks.
LEMMA BlockParted ==
    ASSUME NEW W \in Nat \ {0}, NEW b \in Seq(Items), Blocks(W, b), NEW q \in Nat, q * W \in 0..Len(b)
    PROVE  Blocks(W, SubSeq(b, 1, q * W)) /\ Blocks(W, SubSeq(b, q * W + 1, Len(b)))
<1> DEFINE c == SubSeq(b, 1, q * W)
           d == SubSeq(b, q * W + 1, Len(b))
<1>1. PICK n \in 0..Len(b) :
        /\ Len(b) = n * W
        /\ \A x \in 0..(n - 1) : \A j, k \in 1..W : Source[b[x * W + j]] = Source[b[x * W + k]]
  BY DEF Blocks
<1>2. n \in Nat /\ Len(b) \in Nat /\ q * W \in Nat
  OBVIOUS
<1>3. q <= n
  BY <1>1, <1>2, BlockArith
<1>4. /\ Len(c) = q * W /\ \A k \in 1..(q * W) : c[k] = b[k]
      /\ Len(d) = Len(b) - q * W /\ \A k \in 1..(Len(b) - q * W) : d[k] = b[q * W + k]
  BY Parted
<1> HIDE DEF c, d
<1>5. Blocks(W, c)
  <2>1. q \in 0..Len(c)
    BY <1>2, <1>4, BlockArith
  <2>2. ASSUME NEW x \in 0..(q - 1), NEW j \in 1..W, NEW k \in 1..W
        PROVE  Source[c[x * W + j]] = Source[c[x * W + k]]
    <3>1. x \in 0..(n - 1)
      BY <1>2, <1>3
    <3>2. x * W + j \in 1..(q * W) /\ x * W + k \in 1..(q * W)
      BY BlockArith
    <3>3. c[x * W + j] = b[x * W + j] /\ c[x * W + k] = b[x * W + k]
      BY <1>4, <3>2, Zenon
    <3>4. Source[b[x * W + j]] = Source[b[x * W + k]]
      BY <1>1, <3>1, Zenon
    <3> QED  BY <3>3, <3>4, Zenon
  <2> QED  BY <1>4, <2>1, <2>2 DEF Blocks
<1>6. Blocks(W, d)
  <2>0. n - q \in Nat
    BY <1>2, <1>3
  <2>1. Len(d) = (n - q) * W
    BY <1>1, <1>2, <1>4
  <2>2. n - q \in 0..Len(d)
    BY <2>0, <2>1, BlockArith
  <2>3. ASSUME NEW x \in 0..((n - q) - 1), NEW j \in 1..W, NEW k \in 1..W
        PROVE  Source[d[x * W + j]] = Source[d[x * W + k]]
    <3>1. x + q \in 0..(n - 1)
      BY <1>2, <1>3
    <3>2. x * W + j \in 1..((n - q) * W) /\ x * W + k \in 1..((n - q) * W)
      BY <2>0, BlockArith
    <3>3. d[x * W + j] = b[q * W + (x * W + j)] /\ d[x * W + k] = b[q * W + (x * W + k)]
      BY <1>4, <2>1, <3>2
    <3>4. q * W + (x * W + j) = (x + q) * W + j /\ q * W + (x * W + k) = (x + q) * W + k
      OBVIOUS
    <3>5. Source[b[(x + q) * W + j]] = Source[b[(x + q) * W + k]]
      BY <1>1, <3>1, Zenon
    <3>6. Source[b[q * W + (x * W + j)]] = Source[b[q * W + (x * W + k)]]
      BY <3>4, <3>5, Zenon
    <3> QED  BY <3>3, <3>6, Zenon
  <2> QED  BY <2>1, <2>2, <2>3 DEF Blocks
<1> QED  BY <1>5, <1>6 DEF c, d

\* A sequence of blocks has of each group_id a multiple of the group size: the
\* positions with it are pairs of a block and a place in the block.
LEMMA BlockCount ==
    ASSUME NEW W \in Nat \ {0}, NEW s \in Seq(Items), Blocks(W, s), NEW g
    PROVE  Cardinality({k \in DOMAIN s : Source[s[k]] = g}) % W = 0
<1> DEFINE K == {k \in DOMAIN s : Source[s[k]] = g}
<1>1. PICK n \in 0..Len(s) :
        /\ Len(s) = n * W
        /\ \A b \in 0..(n - 1) : \A i, j \in 1..W : Source[s[b * W + i]] = Source[s[b * W + j]]
  BY DEF Blocks
<1>2. n \in Nat /\ DOMAIN s = 1..(n * W) /\ 1 \in 1..W
  BY <1>1
<1> DEFINE B == {b \in 0..(n - 1) : Source[s[b * W + 1]] = g}
           at == [x \in B \X (1..W) |-> x[1] * W + x[2]]
<1>3. IsFiniteSet(B) /\ Cardinality(B) \in Nat
  <2>1. IsFiniteSet(0..(n - 1))
    BY <1>2, FS_Interval
  <2> QED  BY <2>1, FS_Subset, FS_CardinalityType
<1>4. IsFiniteSet(1..W) /\ Cardinality(1..W) = W
  BY IntervalCount
<1>5. IsFiniteSet(B \X (1..W)) /\ Cardinality(B \X (1..W)) = Cardinality(B) * W
  BY <1>3, <1>4, FS_Product
<1>6. at \in Bijection(B \X (1..W), K)
  <2>1. \A b \in B, i \in 1..W : b * W + i \in K
    <3> SUFFICES ASSUME NEW b \in B, NEW i \in 1..W
                 PROVE  b * W + i \in K
      OBVIOUS
    <3>1. b * W + i \in DOMAIN s
      BY <1>2, BlockArith
    <3>2. Source[s[b * W + i]] = Source[s[b * W + 1]]
      BY <1>1, <1>2, Zenon
    <3> QED  BY <3>1, <3>2
  <2>2. at \in [B \X (1..W) -> K]
    BY <2>1
  <2>3. \A x, y \in B \X (1..W) : at[x] = at[y] => x = y
    <3>1. \A b, c \in Nat, i, j \in 1..W : b * W + i = c * W + j => b = c /\ i = j
      OBVIOUS
    <3> SUFFICES ASSUME NEW x \in B \X (1..W), NEW y \in B \X (1..W), at[x] = at[y]
                 PROVE  x = y
      OBVIOUS
    <3>2. /\ x[1] \in B /\ x[2] \in 1..W /\ x = <<x[1], x[2]>> /\ y[1] \in B /\ y[2] \in 1..W
          /\ y = <<y[1], y[2]>> /\ x[1] * W + x[2] = y[1] * W + y[2] /\ B \subseteq Nat
      BY <1>2
    <3>3. x[1] \in Nat /\ y[1] \in Nat
      BY <3>2
    <3> HIDE DEF B, at
    <3>4. x[1] = y[1] /\ x[2] = y[2]
      <4>1. PICK b \in Nat, c \in Nat : b = x[1] /\ c = y[1]
        BY <3>3, Zenon
      <4>2. PICK i \in 1..W, j \in 1..W : i = x[2] /\ j = y[2]
        BY <3>2, Zenon
      <4>3. b * W + i = c * W + j
        BY <3>2, <4>1, <4>2, Zenon
      <4>4. b = c /\ i = j
        BY <3>1, <4>3, SMTT(20)
      <4> QED  BY <4>1, <4>2, <4>4, Zenon
    <3> QED  BY <3>2, <3>4, Zenon
  <2>4. \A k \in K : \E x \in B \X (1..W) : at[x] = k
    <3>0. \A b \in B, i \in 1..W : at[<<b, i>>] = b * W + i /\ <<b, i>> \in B \X (1..W)
      OBVIOUS
    <3> SUFFICES ASSUME NEW k \in K
                 PROVE  \E x \in B \X (1..W) : at[x] = k
      OBVIOUS
    <3>1. k \in 1..(n * W) /\ k - 1 \in Nat /\ n * W \in Nat
      BY <1>2
    <3>2. PICK b \in Nat, r \in 0..(W - 1) : k - 1 = b * W + r
      BY <3>1, Quotient
    <3>3. k = b * W + (r + 1) /\ r + 1 \in 1..W /\ b * W \in Nat
      BY <3>1, <3>2
    <3>4. b \in 0..(n - 1)
      <4>1. b * W < n * W
        BY <3>1, <3>3
      <4>2. b < n
        BY <1>2, <4>1
      <4> QED  BY <1>2, <4>2
    <3>5. Source[s[b * W + 1]] = Source[s[b * W + (r + 1)]]
      BY <1>1, <1>2, <3>3, <3>4, Zenon
    <3>6. b \in B
      BY <3>3, <3>4, <3>5
    <3>7. at[<<b, r + 1>>] = k /\ <<b, r + 1>> \in B \X (1..W)
      BY <3>0, <3>3, <3>6, Zenon
    <3> QED  BY <3>7, Zenon
  <2> QED  BY <2>2, <2>3, <2>4, Fun_IsBij
<1>7. ExistsBijection(B \X (1..W), K)
  BY <1>6, Fun_ExistsBij
<1> HIDE DEF K, B, at
<1>8. Cardinality(K) = Cardinality(B) * W
  BY <1>5, <1>7, FS_Bijection
<1>9. Cardinality(K) % W = 0
  BY <1>3, <1>8, MultipleMod
<1> QED  BY <1>9 DEF K

\* Every step keeps buffer and batch made of whole groups.
LEMMA BlockStep == RollInv /\ BlockInv /\ [Next]_vars => BlockInv'
<1> SUFFICES ASSUME RollInv, BlockInv, [Next]_vars
             PROVE  BlockInv'
  OBVIOUS
<1>0. Whole \in Nat \ {0} /\ Types /\ Grouped /\ buffer \in Seq(Items) /\ Len(buffer) \in Nat
  BY Numbers DEF RollInv, TypeOK, Places, Types
<1>1. CASE UNCHANGED <<training, buffer, batch>>
  BY <1>1 DEF BlockInv, Whole
<1>2. CASE BufferGet
  <2> DEFINE n == GetLength(Len(buffer))
  <2>1. n \in 0..Len(buffer) /\ UNCHANGED training
    BY <1>0, <1>2, LengthFacts DEF RollInv, BufferGet
  <2>2. PICK q \in Nat : n = q * Whole
    BY <1>0, LengthFacts DEF RollInv
  <2>3. CASE UNCHANGED <<buffer, batch>>
    BY <1>1, <2>1, <2>3
  <2>4. CASE batch' = SubSeq(buffer, 1, n) /\ buffer' = SubSeq(buffer, n + 1, Len(buffer))
    <3>1. Whole' = Whole
      BY <2>1 DEF Whole
    <3> HIDE DEF n
    <3>2. Blocks(Whole, SubSeq(buffer, 1, n)) /\ Blocks(Whole, SubSeq(buffer, n + 1, Len(buffer)))
      BY <1>0, <2>1, <2>2, BlockParted DEF BlockInv
    <3> QED  BY <2>4, <3>1, <3>2 DEF BlockInv
  <2> QED  BY <1>2, <2>3, <2>4 DEF BufferGet
<1>3. ASSUME NEW w \in Workers, BufferAdd(w)
      PROVE  BlockInv'
  <2> DEFINE i == worker[w].item
             g == Source[i]
  <2>1. UNCHANGED <<training, batch>> /\ worker[w].pc # "idle"
    BY <1>3 DEF BufferAdd
  <2>2. groups[g] \in Seq(Items) /\ i \in Items /\ Len(groups[g]) < Whole /\ g \in Groups
    BY <2>1, AddFacts
  <2>3. CASE UNCHANGED buffer
    BY <1>1, <2>1, <2>3
  <2>4. CASE ~(UNCHANGED buffer)
    <3>1. AddItem(i)
      BY <1>3, <2>4 DEF BufferAdd
    <3>2. Len(Append(groups[g], i)) >= Whole /\ buffer' = buffer \o Append(groups[g], i)
      BY <2>4, <3>1 DEF AddItem
    <3>3. Len(groups[g]) + 1 = Whole
      <4>1. Len(Append(groups[g], i)) = Len(groups[g]) + 1 /\ Len(groups[g]) \in Nat
        BY <2>2
      <4> QED  BY <1>0, <2>2, <3>2, <4>1
    <3>4. \A k \in 1..Len(groups[g]) : Source[groups[g][k]] = g
      BY <1>0, <2>2 DEF Grouped
    <3>5. Whole' = Whole
      BY <2>1 DEF Whole
    <3>6. Blocks(Whole, buffer \o Append(groups[g], i))
      BY <1>0, <2>2, <3>3, <3>4, BlockAppended DEF BlockInv
    <3> QED  BY <2>1, <3>2, <3>5, <3>6 DEF BlockInv
  <2> QED  BY <2>3, <2>4
<1>4. CASE PrepareData \/ LoadValData \/ Put \/ CallGet
  BY <1>1, <1>4 DEF PrepareData, LoadValData, Put, CallGet, bufVars
<1>5. ASSUME NEW w \in Workers, TakeItem(w) \/ Loop(w)
      PROVE  BlockInv'
  BY <1>1, <1>5 DEF TakeItem, Loop, StartSample, TakeTurn, Raise, GiveUp, trainVars, bufVars
<1>6. CASE UNCHANGED vars
  BY <1>1, <1>6 DEF vars, trainVars, bufVars
<1> QED  BY <1>2, <1>3, <1>4, <1>5, <1>6 DEF Next, Trainer, Worker

\* A batch consists of whole groups, also when group_ids come back, groups are left
\* incomplete by failures and get takes only a part of the buffer (buffer.py:16-43).
THEOREM BatchesAreWhole == Spec => []WholeGroups
<1>1. Init => BlockInv
  <2> SUFFICES ASSUME Init PROVE BlockInv
    OBVIOUS
  <2>1. Len(buffer) = 0 /\ Len(batch) = 0
    BY DEF Init
  <2>2. Whole \in Nat /\ 0 * Whole = 0
    BY SizeFacts DEF Whole
  <2> QED  BY <2>1, <2>2 DEF BlockInv, Blocks
<1>2. RollInv /\ BlockInv => WholeGroups
  <2> SUFFICES ASSUME RollInv, BlockInv PROVE WholeGroups
    OBVIOUS
  <2>1. Whole \in Nat \ {0} /\ batch \in Seq(Items)
    BY Numbers DEF RollInv, TypeOK, Types
  <2> QED  BY <2>1, BlockCount DEF BlockInv, WholeGroups
<1> QED  BY <1>1, <1>2, BlockStep, RollAlways, PTL DEF Spec
=============================================================================
