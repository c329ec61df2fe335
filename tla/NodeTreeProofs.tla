--------------------------- MODULE NodeTreeProofs ---------------------------
(***************************************************************************)
(* Proofs about the trees of nodes and the two DDF parsers, for every set  *)
(* of names and data and trees of every size.                              *)
(***************************************************************************)
EXTENDS DDF, SequenceTheorems, FiniteSetTheorems, WellFoundedInduction, TLAPS

USE NodeAssumption, DDFAssumption

Segment == Names \cup {NoName}

-----------------------------------------------------------------------------
(* Prefixes, of addresses and of paths alike.                              *)

LEMMA PrefixFacts ==
  ASSUME NEW S, NEW s \in Seq(S), NEW n \in 0 .. Len(s)
  PROVE  /\ Prefix(s, n) \in Seq(S)
         /\ Len(Prefix(s, n)) = n
         /\ \A i \in 1 .. n : Prefix(s, n)[i] = s[i]
<1>1. Len(s) \in Nat /\ n \in Int /\ 1 \in Int /\ n <= Len(s) /\ 0 <= n
  BY LenProperties
<1>2. \A i \in 1 .. n : s[i] \in S
  <2> TAKE i \in 1 .. n
  <2>1. i \in 1 .. Len(s)
    BY <1>1
  <2> QED
    BY <2>1, ElementOfSeq
<1>3. /\ SubSeq(s, 1, n) \in Seq(S)
      /\ Len(SubSeq(s, 1, n)) = IF 1 <= n THEN n - 1 + 1 ELSE 0
      /\ \A i \in 1 .. n - 1 + 1 : SubSeq(s, 1, n)[i] = s[1 + i - 1]
  BY <1>1, <1>2, SubSeqProperties
<1>4. \A i \in 1 .. n : i \in 1 .. n - 1 + 1 /\ 1 + i - 1 = i
  BY <1>1
<1>5. Len(SubSeq(s, 1, n)) = n
  BY <1>1, <1>3
<1> QED
  BY <1>3, <1>4, <1>5 DEF Prefix

LEMMA PrefixFull ==
  ASSUME NEW S, NEW s \in Seq(S)
  PROVE  Prefix(s, Len(s)) = s
BY SubSeqFull DEF Prefix

LEMMA PrefixNone ==
  ASSUME NEW s
  PROVE  Prefix(s, 0) = <<>>
<1>1. 1 \in Int /\ 0 \in Int /\ 0 < 1
  OBVIOUS
<1>2. SubSeq(s, 1, 0) = <<>>
  BY <1>1, SubSeqEmpty
<1> QED
  BY <1>2 DEF Prefix

LEMMA PrefixOfPrefix ==
  ASSUME NEW S, NEW s \in Seq(S), NEW n \in 0 .. Len(s), NEW m \in 0 .. n
  PROVE  Prefix(Prefix(s, n), m) = Prefix(s, m)
<1> DEFINE q == Prefix(s, n)
<1>0. Len(s) \in Nat /\ m \in 0 .. Len(s)
  BY LenProperties
<1>1. q \in Seq(S) /\ Len(q) = n /\ \A i \in 1 .. n : q[i] = s[i]
  BY PrefixFacts
<1> HIDE DEF q
<1>2. Prefix(q, m) \in Seq(S) /\ Len(Prefix(q, m)) = m
      /\ \A i \in 1 .. m : Prefix(q, m)[i] = q[i]
  BY <1>1, PrefixFacts
<1>3. Prefix(s, m) \in Seq(S) /\ Len(Prefix(s, m)) = m
      /\ \A i \in 1 .. m : Prefix(s, m)[i] = s[i]
  BY <1>0, PrefixFacts
<1>4. Prefix(q, m) = Prefix(s, m)
  BY <1>1, <1>2, <1>3, SeqEqual
<1> QED
  BY <1>4 DEF q

LEMMA PrefixOfAppend ==
  ASSUME NEW S, NEW s \in Seq(S), NEW e \in S, NEW n \in 0 .. Len(s)
  PROVE  Prefix(Append(s, e), n) = Prefix(s, n)
<1> DEFINE q == Append(s, e)
<1>1. q \in Seq(S) /\ Len(q) = Len(s) + 1 /\ \A i \in 1 .. Len(s) : q[i] = s[i]
  BY AppendProperties
<1> HIDE DEF q
<1>2. Prefix(q, n) \in Seq(S) /\ Len(Prefix(q, n)) = n
      /\ \A i \in 1 .. n : Prefix(q, n)[i] = q[i]
  BY <1>1, PrefixFacts
<1>3. Prefix(s, n) \in Seq(S) /\ Len(Prefix(s, n)) = n
      /\ \A i \in 1 .. n : Prefix(s, n)[i] = s[i]
  BY PrefixFacts
<1>4. Prefix(q, n) = Prefix(s, n)
  BY <1>1, <1>2, <1>3, SeqEqual
<1> QED
  BY <1>4 DEF q

LEMMA PrefixStep ==
  ASSUME NEW S, NEW s \in Seq(S), NEW n \in 1 .. Len(s)
  PROVE  Prefix(s, n) = Append(Prefix(s, n - 1), s[n])
<1> DEFINE q == Prefix(s, n - 1)
<1>1. q \in Seq(S) /\ Len(q) = n - 1 /\ \A i \in 1 .. n - 1 : q[i] = s[i]
  BY PrefixFacts
<1>2. s[n] \in S
  BY ElementOfSeq
<1> HIDE DEF q
<1>3. Append(q, s[n]) \in Seq(S) /\ Len(Append(q, s[n])) = n
      /\ \A i \in 1 .. n : Append(q, s[n])[i] = s[i]
  <2>1. /\ Append(q, s[n]) \in Seq(S)
        /\ Len(Append(q, s[n])) = Len(q) + 1
        /\ \A i \in 1 .. Len(q) : Append(q, s[n])[i] = q[i]
        /\ Append(q, s[n])[Len(q) + 1] = s[n]
    BY <1>1, <1>2, AppendProperties
  <2> QED
    BY <1>1, <2>1
<1>4. Prefix(s, n) \in Seq(S) /\ Len(Prefix(s, n)) = n
      /\ \A i \in 1 .. n : Prefix(s, n)[i] = s[i]
  BY PrefixFacts
<1>5. Prefix(s, n) = Append(q, s[n])
  BY <1>3, <1>4, SeqEqual
<1> QED
  BY <1>5 DEF q

LEMMA FirstIsSmallest ==
  ASSUME NEW S, S \subseteq Nat, S # {}
  PROVE  First(S) \in S /\ \A j \in S : First(S) <= j
<1>1. \E i \in S : \A j \in S : i <= j
  <2> DEFINE below == OpToRel(<, Nat)
  <2>1. \A i, j \in Nat : <<j, i>> \notin below => i <= j
    BY DEF OpToRel
  <2>2. IsWellFoundedOn(below, Nat)
    BY NatLessThanWellFounded
  <2> HIDE DEF below
  <2>3. \E i \in S : \A j \in S : <<j, i>> \notin below
    BY <2>2, WFMin
  <2> QED
    BY <2>1, <2>3
<1> QED
  BY <1>1 DEF First

-----------------------------------------------------------------------------
(* Induction, stated with a set where the library has an operator.         *)
LEMMA InductionUpTo ==
  ASSUME NEW n \in Nat, NEW S, 0 \in S, \A i \in 1 .. n : i - 1 \in S => i \in S
  PROVE  \A i \in 0 .. n : i \in S
<1> DEFINE missed == {i \in 0 .. n : i \notin S}
<1> SUFFICES ASSUME missed # {} PROVE FALSE
  OBVIOUS
<1>1. missed \subseteq Nat /\ First(missed) \in missed /\ \A j \in missed : First(missed) <= j
  <2>1. missed \subseteq Nat
    OBVIOUS
  <2> QED
    BY <2>1, FirstIsSmallest
<1> DEFINE i == First(missed)
<1>2. i \in 1 .. n /\ i \notin S
  BY <1>1
<1>3. i - 1 \in 0 .. n /\ i - 1 \notin missed
  BY <1>1, <1>2
<1> QED
  BY <1>2, <1>3

(* g goes through the values of a loop of n rounds that starts with base   *)
(* and, in round i, makes step[i][v] of v.                                 *)
Iterates(g, n, V, base, step) ==
  /\ g \in [0 .. n -> V] /\ g[0] = base
  /\ \A i \in 1 .. n : g[i] = step[i][g[i - 1]]

LEMMA IterationExists ==
  ASSUME NEW n \in Nat, NEW V, NEW base \in V, NEW step,
         \A i \in 1 .. n : \A v \in V : step[i][v] \in V
  PROVE  \E g : Iterates(g, n, V, base, step)
<1> DEFINE S == {k \in 0 .. n : \E g : Iterates(g, k, V, base, step)}
<1>1. 0 \in S
  <2>1. Iterates([i \in 0 .. 0 |-> base], 0, V, base, step)
    BY DEF Iterates
  <2> QED
    BY <2>1
<1>2. ASSUME NEW k \in 1 .. n, k - 1 \in S
      PROVE  k \in S
  <2>1. PICK g : Iterates(g, k - 1, V, base, step)
    BY <1>2
  <2> DEFINE h == [i \in 0 .. k |-> IF i = k THEN step[k][g[k - 1]] ELSE g[i]]
  <2>2. step[k][g[k - 1]] \in V
    BY <2>1 DEF Iterates
  <2>3. h \in [0 .. k -> V] /\ h[0] = base
    BY <2>1, <2>2 DEF Iterates
  <2>4. \A i \in 1 .. k : h[i] = step[i][h[i - 1]]
    BY <2>1 DEF Iterates
  <2>5. Iterates(h, k, V, base, step)
    BY <2>3, <2>4 DEF Iterates
  <2> QED
    BY <2>5
<1>3. \A k \in 0 .. n : k \in S
  <2> HIDE DEF S
  <2> QED
    BY <1>1, <1>2, InductionUpTo
<1>4. n \in S
  BY <1>3
<1> QED
  BY <1>4

-----------------------------------------------------------------------------
(* An address that is not the root is one position below another node.     *)
LEMMA TreeFacts ==
  ASSUME NEW t, IsTree(t), NEW p \in DOMAIN t
  PROVE  /\ p \in Address
         /\ t[p].size \in Nat
         /\ \A n \in 0 .. Len(p) : Prefix(p, n) \in DOMAIN t
         /\ \A n \in 1 .. Len(p) : p[n] \in Positions(t, Prefix(p, n - 1))
         /\ \A i \in Positions(t, p) : Append(p, i) \in DOMAIN t
         /\ Pushed(t, p) \in Address /\ Pushed(t, p) \notin DOMAIN t
         /\ Len(Pushed(t, p)) = Len(p) + 1
<1>1. p \in Address /\ t[p].size \in Nat
  BY DEF IsTree
<1>2. \A n \in 0 .. Len(p) : Prefix(p, n) \in DOMAIN t
  <2> TAKE n \in 0 .. Len(p)
  <2>1. CASE n = Len(p)
    BY <1>1, <2>1, PrefixFull DEF Address
  <2>2. CASE n # Len(p)
    <3>1. Len(p) \in Nat
      BY <1>1, LenProperties DEF Address
    <3>2. n + 1 \in 1 .. Len(p) /\ n + 1 - 1 = n
      BY <2>2, <3>1
    <3> QED
      BY <3>2 DEF IsTree
  <2> QED
    BY <2>1, <2>2
<1>3. \A n \in 1 .. Len(p) : p[n] \in Positions(t, Prefix(p, n - 1))
  BY DEF IsTree
<1>4. \A i \in Positions(t, p) : Append(p, i) \in DOMAIN t
  BY DEF IsTree
<1>5. t[p].size + 1 \in Nat \ {0}
  BY <1>1
<1>6. /\ Pushed(t, p) \in Address /\ Len(Pushed(t, p)) = Len(p) + 1
      /\ Pushed(t, p)[Len(p) + 1] = t[p].size + 1
  BY <1>1, <1>5, AppendProperties DEF Pushed, Address
<1>7. Pushed(t, p) \notin DOMAIN t
  <2> SUFFICES ASSUME Pushed(t, p) \in DOMAIN t
               PROVE  FALSE
    OBVIOUS
  <2>1. Len(p) \in Nat
    BY <1>1, LenProperties DEF Address
  <2>2. Len(p) + 1 \in 1 .. Len(Pushed(t, p)) /\ Len(p) + 1 - 1 = Len(p)
    BY <1>6, <2>1
  <2>3. Pushed(t, p)[Len(p) + 1] \in Positions(t, Prefix(Pushed(t, p), Len(p)))
    BY <2>2 DEF IsTree
  <2>4. Prefix(Pushed(t, p), Len(p)) = p
    BY <1>1, <1>5, <2>1, PrefixOfAppend, PrefixFull DEF Pushed, Address
  <2>5. t[p].size + 1 \in 1 .. t[p].size
    BY <1>6, <2>3, <2>4 DEF Positions
  <2> QED
    BY <1>1, <2>5
<1> QED
  BY <1>1, <1>2, <1>3, <1>4, <1>6, <1>7

LEMMA ChildFacts ==
  ASSUME NEW t, IsTree(t), NEW p \in DOMAIN t, NEW segment,
         HasChild(t, p, segment)
  PROVE  /\ First(Named(t, p, segment)) \in Positions(t, p)
         /\ First(Named(t, p, segment)) \in Nat \ {0}
         /\ Child(t, p, segment) \in DOMAIN t
         /\ t[Child(t, p, segment)].uri = segment
<1>1. t[p].size \in Nat
  BY TreeFacts
<1>2. Named(t, p, segment) \subseteq Nat /\ Named(t, p, segment) # {}
  BY <1>1 DEF Named, Positions, HasChild
<1>3. First(Named(t, p, segment)) \in Named(t, p, segment)
  BY <1>2, FirstIsSmallest
<1> QED
  BY <1>1, <1>3, TreeFacts DEF Named, Positions, Child

-----------------------------------------------------------------------------
(* What local_get_node walks to.                                           *)

LEMMA ReachesSteps ==
  ASSUME NEW t, IsTree(t), NEW p \in DOMAIN t, NEW S, NEW path \in Seq(S),
         Reaches(t, p, path)
  PROVE  /\ Len(p) = Len(path) /\ path = NamesTo(t, p)
         /\ \A n \in 1 .. Len(p) :
              /\ HasChild(t, Prefix(p, n - 1), path[n])
              /\ p[n] = First(Named(t, Prefix(p, n - 1), path[n]))
<1>1. /\ Len(p) = Len(path) /\ Len(p) \in Nat
      /\ \A n \in 1 .. Len(p) :
           /\ HasChild(t, Prefix(p, n - 1), path[n])
           /\ Prefix(p, n) = Child(t, Prefix(p, n - 1), path[n])
  BY TreeFacts, LenProperties DEF Reaches, Address
<1>2. \A n \in 1 .. Len(p) : t[Prefix(p, n)].uri = path[n]
  <2> TAKE n \in 1 .. Len(p)
  <2>1. n - 1 \in 0 .. Len(p)
    BY <1>1
  <2>2. Prefix(p, n - 1) \in DOMAIN t
    BY <2>1, TreeFacts
  <2> QED
    BY <1>1, <2>2, ChildFacts
<1>3. path = NamesTo(t, p)
  <2>1. path \in [1 .. Len(path) -> S]
    BY LenProperties
  <2> QED
    BY <1>1, <1>2, <2>1 DEF NamesTo
<1>4. ASSUME NEW n \in 1 .. Len(p)
      PROVE  p[n] = First(Named(t, Prefix(p, n - 1), path[n]))
  <2>1. n - 1 \in 0 .. Len(p)
    BY <1>1
  <2>2. Prefix(p, n - 1) \in DOMAIN t /\ Prefix(p, n - 1) \in Address
    BY <2>1, TreeFacts
  <2>3. First(Named(t, Prefix(p, n - 1), path[n])) \in Nat \ {0}
    BY <1>1, <2>2, ChildFacts
  <2>4. p \in Address /\ p[n] \in Nat \ {0}
    BY TreeFacts, ElementOfSeq DEF Address
  <2>5. Prefix(p, n) = Append(Prefix(p, n - 1), p[n])
    BY <2>4, PrefixStep DEF Address
  <2>6. Append(Prefix(p, n - 1), p[n])
          = Append(Prefix(p, n - 1), First(Named(t, Prefix(p, n - 1), path[n])))
    BY <1>1, <2>5 DEF Child
  <2> QED
    BY <2>2, <2>3, <2>4, <2>6, AppendInjective DEF Address
<1> QED
  BY <1>1, <1>3, <1>4

(* One address at most: the walk takes the first child of each name.       *)
LEMMA ReachesOne ==
  ASSUME NEW t, IsTree(t), NEW p \in DOMAIN t, NEW q \in DOMAIN t,
         NEW S, NEW path \in Seq(S),
         Reaches(t, p, path), Reaches(t, q, path)
  PROVE  p = q
<1>1. p \in Address /\ q \in Address /\ Len(p) = Len(q) /\ Len(p) \in Nat
  BY TreeFacts, ReachesSteps, LenProperties DEF Address
<1> SUFFICES ASSUME p # q PROVE FALSE
  OBVIOUS
<1> DEFINE D == {n \in 1 .. Len(p) : p[n] # q[n]}
<1>2. D # {}
  BY <1>1, SeqEqual DEF Address
<1>3. D \subseteq Nat
  BY <1>1
<1> HIDE DEF D
<1>4. First(D) \in D /\ \A n \in D : First(D) <= n
  BY <1>2, <1>3, FirstIsSmallest
<1> DEFINE n == First(D)
<1>5. n \in 1 .. Len(p) /\ p[n] # q[n] /\ n - 1 \in 0 .. Len(p)
  BY <1>1, <1>4 DEF D
<1>6. \A i \in 1 .. n - 1 : p[i] = q[i]
  <2> TAKE i \in 1 .. n - 1
  <2>1. i \in 1 .. Len(p) /\ ~(n <= i)
    BY <1>1, <1>5
  <2> QED
    BY <1>4, <2>1 DEF D
<1> HIDE DEF n
<1>7. Prefix(p, n - 1) = Prefix(q, n - 1)
  <2>1. /\ Prefix(p, n - 1) \in Address /\ Len(Prefix(p, n - 1)) = n - 1
        /\ \A i \in 1 .. n - 1 : Prefix(p, n - 1)[i] = p[i]
    BY <1>1, <1>5, PrefixFacts DEF Address
  <2>2. n - 1 \in 0 .. Len(q)
    BY <1>1, <1>5
  <2>3. /\ Prefix(q, n - 1) \in Address /\ Len(Prefix(q, n - 1)) = n - 1
        /\ \A i \in 1 .. n - 1 : Prefix(q, n - 1)[i] = q[i]
    BY <1>1, <2>2, PrefixFacts DEF Address
  <2> QED
    BY <1>6, <2>1, <2>3, SeqEqual DEF Address
<1>8. p[n] = q[n]
  BY <1>1, <1>5, <1>7, ReachesSteps
<1> QED
  BY <1>5, <1>8

LEMMA ValueReached ==
  ASSUME NEW t, IsTree(t), NEW S, NEW path \in Seq(S)
  PROVE  /\ \A p \in DOMAIN t :
              Reaches(t, p, path) => IsNode(t, path) /\ Value(t, path) = t[p].data
         /\ ~IsNode(t, path) => Value(t, path) = Empty
BY ReachesOne DEF IsNode, Value

LEMMA ValueType ==
  ASSUME NEW t, WellFormed(t), NEW S, NEW path \in Seq(S)
  PROVE  Value(t, path) \in Data
<1>1. IsTree(t) /\ \A p \in DOMAIN t : t[p].data \in Data
  BY DEF WellFormed, Node
<1>2. CASE IsNode(t, path)
  <2>1. PICK p \in DOMAIN t : Reaches(t, p, path)
    BY <1>2 DEF IsNode
  <2>2. Value(t, path) = t[p].data
    BY <1>1, <2>1, ValueReached
  <2> QED
    BY <1>1, <2>2
<1>3. CASE ~IsNode(t, path)
  <2>1. Value(t, path) = Empty
    BY <1>1, <1>3, ValueReached
  <2> QED
    BY <2>1
<1> QED
  BY <1>2, <1>3

(* A path as the application writes it names a sequence of segments.      *)
LEMMA VectorizeType ==
  ASSUME NEW path \in Seq(Segment), path # <<>>
  PROVE  vectorize_path(path) \in Seq(Segment)
<1> DEFINE rest == IF path[1] = NoName /\ Len(path) > 1 THEN Tail(path) ELSE path
<1>1. Len(path) \in Nat /\ Len(path) > 0
  BY EmptySeq, LenProperties
<1>2. rest \in Seq(Segment) /\ Len(rest) \in Nat /\ Len(rest) > 0
  <2>1. Tail(path) \in Seq(Segment) /\ Len(Tail(path)) = Len(path) - 1
    BY <1>1, EmptySeq, HeadTailProperties
  <2> QED
    BY <1>1, <2>1
<1> HIDE DEF rest
<1>3. SubSeq(rest, 1, Len(rest) - 1) \in Seq(Segment)
  <2>1. Len(rest) - 1 \in 0 .. Len(rest)
    BY <1>2
  <2>2. Prefix(rest, Len(rest) - 1) \in Seq(Segment)
    BY <1>2, <2>1, PrefixFacts
  <2> QED
    BY <2>2 DEF Prefix
<1> QED
  BY <1>2, <1>3 DEF vectorize_path, rest

(* One step further down.                                                  *)
LEMMA ReachesChild ==
  ASSUME NEW t, IsTree(t), NEW p \in DOMAIN t, NEW S, NEW path \in Seq(S),
         Reaches(t, p, path), NEW segment \in S, HasChild(t, p, segment)
  PROVE  Reaches(t, Child(t, p, segment), Append(path, segment))
<1> DEFINE i == First(Named(t, p, segment))
           q == Append(p, i)
           down == Append(path, segment)
<1>1. p \in Address /\ i \in Nat \ {0} /\ Len(p) \in Nat /\ Len(p) = Len(path)
  BY TreeFacts, ChildFacts, LenProperties DEF Address, Reaches
<1>2. /\ q \in Address /\ Len(q) = Len(p) + 1 /\ q[Len(p) + 1] = i
      /\ \A n \in 0 .. Len(p) : Prefix(q, n) = Prefix(p, n)
      /\ Prefix(q, Len(p) + 1) = q
  <2>1. q \in Address /\ Len(q) = Len(p) + 1 /\ q[Len(p) + 1] = i
    BY <1>1, AppendProperties DEF Address
  <2>2. \A n \in 0 .. Len(p) : Prefix(q, n) = Prefix(p, n)
    BY <1>1, PrefixOfAppend DEF Address
  <2>3. Prefix(q, Len(q)) = q
    BY <2>1, PrefixFull DEF Address
  <2> QED
    BY <2>1, <2>2, <2>3
<1>3. /\ Len(down) = Len(p) + 1 /\ down[Len(p) + 1] = segment
      /\ \A n \in 1 .. Len(p) : down[n] = path[n]
  BY <1>1, AppendProperties
<1>4. Prefix(p, Len(p)) = p
  BY <1>1, PrefixFull DEF Address
<1> HIDE DEF i, q, down
<1>5. ASSUME NEW n \in 1 .. Len(down)
      PROVE  /\ HasChild(t, Prefix(q, n - 1), down[n])
             /\ Prefix(q, n) = Child(t, Prefix(q, n - 1), down[n])
  <2>1. CASE n = Len(p) + 1
    <3>1. n - 1 = Len(p) /\ Len(p) \in 0 .. Len(p)
      BY <1>1, <2>1
    <3>2. Prefix(q, n - 1) = p /\ down[n] = segment /\ Prefix(q, n) = q
      BY <1>2, <1>3, <1>4, <2>1, <3>1
    <3> QED
      BY <3>2 DEF Child, q, i
  <2>2. CASE n # Len(p) + 1
    <3>1. n \in 1 .. Len(p) /\ n \in 0 .. Len(p) /\ n - 1 \in 0 .. Len(p)
      BY <1>1, <1>3, <2>2
    <3>2. /\ Prefix(q, n - 1) = Prefix(p, n - 1) /\ Prefix(q, n) = Prefix(p, n)
          /\ down[n] = path[n]
      BY <1>2, <1>3, <3>1
    <3> QED
      BY <1>1, <3>1, <3>2 DEF Reaches
  <2> QED
    BY <2>1, <2>2
<1>6. Reaches(t, q, down)
  BY <1>2, <1>3, <1>5 DEF Reaches
<1> QED
  BY <1>6 DEF Child, q, i, down

LEMMA ReachesRoot ==
  ASSUME NEW t
  PROVE  Reaches(t, <<>>, <<>>) /\ NamesTo(t, <<>>) = <<>>
BY DEF Reaches, NamesTo

-----------------------------------------------------------------------------
(* push_back of a node with no children of its own.                        *)
Childless == {node \in Node : node.size = 0}

LEMMA PushBackNode ==
  ASSUME NEW t, NEW p \in DOMAIN t, Pushed(t, p) \notin DOMAIN t,
         NEW node
  PROVE  PushBack(t, p, node)[Pushed(t, p)].uri = node.uri
<1> DEFINE new == Pushed(t, p)
           u == PushBack(t, p, node)
<1>1. /\ DOMAIN u = DOMAIN t \cup {new} /\ u[new] = node
      /\ \A q \in DOMAIN t : q # p => u[q] = t[q]
  BY DEF PushBack
<1> HIDE DEF u
<1>2. u[new].uri = node.uri
  BY <1>1
<1> QED
  BY <1>2 DEF u

LEMMA PushBackFacts ==
  ASSUME NEW t, WellFormed(t), NEW p \in DOMAIN t,
         NEW node \in Childless
  PROVE  /\ DOMAIN PushBack(t, p, node) = DOMAIN t \cup {Pushed(t, p)}
         /\ PushBack(t, p, node)[p].size = t[p].size + 1
         /\ \A q \in DOMAIN t :
              /\ PushBack(t, p, node)[q].uri = t[q].uri
              /\ PushBack(t, p, node)[q].data = t[q].data
         /\ \A q \in DOMAIN PushBack(t, p, node) : PushBack(t, p, node)[q] \in Node
<1> DEFINE new == Pushed(t, p)
           u == PushBack(t, p, node)
<1>0. node \in Node /\ node.size = 0
  BY DEF Childless
<1>1. IsTree(t) /\ \A q \in DOMAIN t : t[q] \in Node
  BY DEF WellFormed
<1>2. new \in Address /\ new \notin DOMAIN t /\ Len(new) = Len(p) + 1 /\ p \in Address
  BY <1>1, TreeFacts
<1>3. /\ DOMAIN u = DOMAIN t \cup {new} /\ u[new] = node
      /\ u[p] = [t[p] EXCEPT !.size = @ + 1]
      /\ \A q \in DOMAIN t : q # p => u[q] = t[q]
  BY <1>2 DEF PushBack
<1> HIDE DEF u
<1>4. t[p] \in Node /\ t[p].size \in Nat
  BY <1>1 DEF Node
<1>5. u[p].size = t[p].size + 1 /\ u[p].uri = t[p].uri /\ u[p].data = t[p].data
      /\ u[p] \in Node
  BY <1>3, <1>4 DEF Node
<1>6. \A q \in DOMAIN t : u[q].uri = t[q].uri /\ u[q].data = t[q].data
  BY <1>3, <1>5
<1>7. \A q \in DOMAIN u : u[q] \in Node
  BY <1>0, <1>1, <1>3, <1>5
<1> QED
  BY <1>3, <1>5, <1>6, <1>7 DEF u

LEMMA PushBackWellFormed ==
  ASSUME NEW t, WellFormed(t), NEW p \in DOMAIN t, NEW node \in Childless
  PROVE  WellFormed(PushBack(t, p, node))
<1> DEFINE new == Pushed(t, p)
           u == PushBack(t, p, node)
<1>0. node.size = 0
  BY DEF Childless
<1>1. IsTree(t) /\ \A q \in DOMAIN t : t[q] \in Node
  BY DEF WellFormed
<1>2. new \in Address /\ new \notin DOMAIN t /\ Len(new) = Len(p) + 1 /\ p \in Address
  BY <1>1, TreeFacts
<1>3. /\ DOMAIN u = DOMAIN t \cup {new} /\ u[new] = node
      /\ \A q \in DOMAIN t : q # p => u[q] = t[q]
  BY <1>2 DEF PushBack
<1>4. t[p].size \in Nat
  BY <1>1 DEF Node
<1>5. u[p].size = t[p].size + 1
  BY PushBackFacts
<1>7. \A q \in DOMAIN u : u[q] \in Node
  BY PushBackFacts
<1> HIDE DEF u
<1>8. \A q \in DOMAIN t : Positions(t, q) \subseteq Positions(u, q)
  <2> TAKE q \in DOMAIN t
  <2>1. t[q].size \in Nat /\ u[q].size \in Nat /\ t[q].size <= u[q].size
    BY <1>1, <1>3, <1>4, <1>5 DEF Node
  <2> QED
    BY <2>1 DEF Positions
<1>9. /\ Prefix(new, Len(p)) = p /\ new[Len(p) + 1] = t[p].size + 1
      /\ \A n \in 0 .. Len(p) : Prefix(new, n) = Prefix(p, n)
      /\ \A n \in 1 .. Len(p) : new[n] = p[n]
  <2>1. t[p].size + 1 \in Nat \ {0}
    BY <1>4
  <2>2. /\ new[Len(p) + 1] = t[p].size + 1
        /\ \A n \in 1 .. Len(p) : new[n] = p[n]
    BY <1>2, <2>1, AppendProperties DEF Pushed, Address
  <2>3. \A n \in 0 .. Len(p) : Prefix(new, n) = Prefix(p, n)
    BY <1>2, <2>1, PrefixOfAppend DEF Pushed, Address
  <2>4. Len(p) \in 0 .. Len(p) /\ Prefix(p, Len(p)) = p
    BY <1>2, LenProperties, PrefixFull DEF Address
  <2> QED
    BY <2>2, <2>3, <2>4
<1>10. DOMAIN u \subseteq Address /\ <<>> \in DOMAIN u
  BY <1>1, <1>2, <1>3 DEF IsTree
<1>11. ASSUME NEW q \in DOMAIN u, NEW n \in 1 .. Len(q)
       PROVE  Prefix(q, n - 1) \in DOMAIN u /\ q[n] \in Positions(u, Prefix(q, n - 1))
  <2>1. CASE q \in DOMAIN t
    <3>1. Prefix(q, n - 1) \in DOMAIN t /\ q[n] \in Positions(t, Prefix(q, n - 1))
      BY <1>1, <2>1 DEF IsTree
    <3> QED
      BY <1>3, <1>8, <3>1
  <2>2. CASE q = new /\ n = Len(p) + 1
    <3>1. Len(p) \in Nat
      BY <1>2, LenProperties DEF Address
    <3>2. Prefix(q, n - 1) = p /\ q[n] = u[p].size
      BY <1>5, <1>9, <2>2, <3>1
    <3>3. u[p].size \in 1 .. u[p].size
      BY <1>4, <1>5
    <3> QED
      BY <1>3, <3>2, <3>3 DEF Positions
  <2>3. CASE q = new /\ n # Len(p) + 1
    <3>1. n \in 1 .. Len(p) /\ n - 1 \in 0 .. Len(p)
      <4>1. Len(p) \in Nat
        BY <1>2, LenProperties DEF Address
      <4> QED
        BY <1>2, <2>3, <4>1
    <3>2. Prefix(q, n - 1) = Prefix(p, n - 1) /\ q[n] = p[n]
      BY <1>9, <2>3, <3>1
    <3>3. Prefix(p, n - 1) \in DOMAIN t /\ p[n] \in Positions(t, Prefix(p, n - 1))
      BY <1>1, <3>1 DEF IsTree
    <3> QED
      BY <1>3, <1>8, <3>2, <3>3
  <2> QED
    BY <1>3, <2>1, <2>2, <2>3
<1>12. ASSUME NEW q \in DOMAIN u, NEW i \in Positions(u, q)
       PROVE  Append(q, i) \in DOMAIN u
  <2>1. CASE q = p /\ i = t[p].size + 1
    BY <1>3, <2>1 DEF Pushed
  <2>2. CASE q = p /\ i # t[p].size + 1
    <3>1. i \in Positions(t, p)
      BY <1>4, <1>5, <2>2 DEF Positions
    <3> QED
      BY <1>1, <1>3, <2>2, <3>1 DEF IsTree
  <2>3. CASE q = new
    BY <1>0, <1>3, <2>3 DEF Positions
  <2>4. CASE q # p /\ q # new
    <3>1. q \in DOMAIN t /\ i \in Positions(t, q)
      BY <1>3, <2>4 DEF Positions
    <3> QED
      BY <1>1, <1>3, <3>1 DEF IsTree
  <2> QED
    BY <2>1, <2>2, <2>3, <2>4
<1>13. WellFormed(u)
  <2>1. \A q \in DOMAIN u : u[q].size \in Nat
    BY <1>7 DEF Node
  <2> QED
    BY <1>7, <1>10, <1>11, <1>12, <2>1 DEF WellFormed, IsTree
<1> QED
  BY <1>13 DEF u

(* A new name below p is found at the new address; what was found before   *)
(* is found where it was.                                                  *)
LEMMA PushBackNamed ==
  ASSUME NEW t, WellFormed(t), NEW p \in DOMAIN t,
         NEW node \in Childless, NEW name, name = node.uri, ~HasChild(t, p, name)
  PROVE  /\ Named(PushBack(t, p, node), p, name) = {t[p].size + 1}
         /\ \A q \in DOMAIN t : \A segment :
              q # p \/ segment # name =>
                Named(PushBack(t, p, node), q, segment) = Named(t, q, segment)
<1> DEFINE u == PushBack(t, p, node)
<1>1. IsTree(t) /\ t[p].size \in Nat
  BY TreeFacts DEF WellFormed
<1>2. /\ u[Pushed(t, p)] = node
      /\ u[p].size = t[p].size + 1
      /\ \A q \in DOMAIN t : (q # p => u[q] = t[q]) /\ u[q].uri = t[q].uri
  <2>1. Pushed(t, p) \notin DOMAIN t
    BY <1>1, TreeFacts
  <2>2. /\ u[Pushed(t, p)] = node
        /\ \A q \in DOMAIN t : q # p => u[q] = t[q]
    BY <2>1 DEF PushBack
  <2>3. t[p] \in Node /\ u[p] = [t[p] EXCEPT !.size = @ + 1]
    BY <2>1 DEF PushBack, WellFormed
  <2>4. u[p].size = t[p].size + 1 /\ u[p].uri = t[p].uri
    BY <2>3 DEF Node
  <2> QED
    BY <2>2, <2>4
<1> HIDE DEF u
<1>5. \A q \in DOMAIN t : \A i \in Positions(t, q) :
        Append(q, i) \in DOMAIN t /\ u[Append(q, i)].uri = t[Append(q, i)].uri
  BY <1>1, <1>2, TreeFacts
<1>6. Positions(u, p) = Positions(t, p) \cup {t[p].size + 1}
  BY <1>1, <1>2 DEF Positions
<1>7. Append(p, t[p].size + 1) = Pushed(t, p)
  BY DEF Pushed
<1>8. Named(u, p, name) = {t[p].size + 1}
  <2>1. \A i \in Positions(t, p) : u[Append(p, i)].uri # name
    BY <1>5 DEF Named, HasChild
  <2>2. u[Append(p, t[p].size + 1)].uri = name
    BY <1>2, <1>7
  <2> QED
    BY <1>6, <2>1, <2>2 DEF Named
<1>9. ASSUME NEW q \in DOMAIN t, NEW segment, q # p \/ segment # name
      PROVE  Named(u, q, segment) = Named(t, q, segment)
  <2>1. CASE q # p
    <3>1. Positions(u, q) = Positions(t, q)
      BY <1>2, <2>1 DEF Positions
    <3> QED
      BY <1>5, <3>1 DEF Named
  <2>2. CASE q = p
    <3>1. u[Append(p, t[p].size + 1)].uri # segment
      BY <1>2, <1>7, <1>9, <2>2
    <3>2. \A i \in Positions(t, p) : u[Append(p, i)].uri = t[Append(p, i)].uri
      BY <1>5
    <3>3. Named(u, p, segment) = Named(t, p, segment)
      BY <1>6, <3>1, <3>2 DEF Named
    <3> QED
      BY <2>2, <3>3
  <2> QED
    BY <2>1, <2>2
<1> QED
  BY <1>8, <1>9 DEF u

LEMMA PushBackReaches ==
  ASSUME NEW t, WellFormed(t), NEW p \in DOMAIN t,
         NEW node \in Childless, NEW name, name = node.uri, ~HasChild(t, p, name),
         NEW q \in DOMAIN t, NEW path
  PROVE  Reaches(PushBack(t, p, node), q, path) <=> Reaches(t, q, path)
<1> DEFINE u == PushBack(t, p, node)
<1>1. IsTree(t) /\ q \in Address /\ Len(q) \in Nat
  BY TreeFacts, LenProperties DEF WellFormed, Address
<1>2. /\ Named(u, p, name) = {t[p].size + 1}
      /\ \A r \in DOMAIN t : \A segment :
           r # p \/ segment # name => Named(u, r, segment) = Named(t, r, segment)
  BY PushBackNamed
<1>3. Pushed(t, p) \notin DOMAIN t /\ t[p].size \in Nat
  BY <1>1, TreeFacts
<1> HIDE DEF u
<1>4. ASSUME NEW n \in 1 .. Len(q), NEW segment
      PROVE  /\ HasChild(u, Prefix(q, n - 1), segment)
             /\ Prefix(q, n) = Child(u, Prefix(q, n - 1), segment)
             <=>
             /\ HasChild(t, Prefix(q, n - 1), segment)
             /\ Prefix(q, n) = Child(t, Prefix(q, n - 1), segment)
  <2>1. n - 1 \in 0 .. Len(q) /\ n \in 0 .. Len(q)
    BY <1>1
  <2>2. Prefix(q, n - 1) \in DOMAIN t /\ Prefix(q, n) \in DOMAIN t
    BY <1>1, <2>1, TreeFacts
  <2>3. CASE Prefix(q, n - 1) = p /\ segment = name
    <3>1. First(Named(u, p, name)) = t[p].size + 1
      BY <1>2, <1>3 DEF First
    <3>2. Child(u, p, name) = Pushed(t, p)
      BY <3>1 DEF Child, Pushed
    <3> QED
      BY <1>3, <2>2, <2>3, <3>2
  <2>4. CASE Prefix(q, n - 1) # p \/ segment # name
    <3>1. Named(u, Prefix(q, n - 1), segment) = Named(t, Prefix(q, n - 1), segment)
      BY <1>2, <2>2, <2>4
    <3> QED
      BY <3>1 DEF HasChild, Child
  <2> QED
    BY <2>3, <2>4
<1>5. CASE Len(q) = Len(path)
  <2>1. \A n \in 1 .. Len(path) : n \in 1 .. Len(q)
    BY <1>5
  <2> QED
    BY <1>4, <1>5, <2>1 DEF Reaches, u
<1>6. CASE Len(q) # Len(path)
  BY <1>6 DEF Reaches
<1> QED
  BY <1>5, <1>6

LEMMA PushBackNew ==
  ASSUME NEW t, WellFormed(t), NEW p \in DOMAIN t,
         NEW node \in Childless, NEW name, name = node.uri, ~HasChild(t, p, name),
         NEW S, name \in S, NEW path \in Seq(S), Reaches(t, p, path)
  PROVE  Reaches(PushBack(t, p, node), Pushed(t, p), Append(path, name))
<1> DEFINE u == PushBack(t, p, node)
<1>1. IsTree(u) /\ p \in DOMAIN u
  <2>1. WellFormed(u)
    BY PushBackWellFormed
  <2>2. p \in DOMAIN u
    BY PushBackFacts
  <2> QED
    BY <2>1, <2>2 DEF WellFormed
<1>2. Named(u, p, name) = {t[p].size + 1}
  BY PushBackNamed
<1>3. Reaches(u, p, path)
  BY PushBackReaches
<1>4. t[p].size \in Nat
  BY TreeFacts DEF WellFormed
<1> HIDE DEF u
<1>5. HasChild(u, p, name) /\ First(Named(u, p, name)) = t[p].size + 1
  BY <1>2, <1>4 DEF HasChild, First
<1>6. Child(u, p, name) = Pushed(t, p)
  BY <1>5 DEF Child, Pushed
<1>7. Reaches(u, Child(u, p, name), Append(path, name))
  BY <1>1, <1>3, <1>5, ReachesChild
<1> QED
  BY <1>6, <1>7 DEF u

(* A node without data that is added to the tree changes no value.         *)
LEMMA PushBackValue ==
  ASSUME NEW t, WellFormed(t), NEW p \in DOMAIN t,
         NEW node \in Childless, NEW name, name = node.uri, node.data = Empty,
         ~HasChild(t, p, name), NEW S, NEW path \in Seq(S)
  PROVE  Value(PushBack(t, p, node), path) = Value(t, path)
<1> DEFINE u == PushBack(t, p, node)
<1>1. IsTree(t) /\ IsTree(u)
  BY PushBackWellFormed DEF WellFormed
<1>2. /\ DOMAIN u = DOMAIN t \cup {Pushed(t, p)}
      /\ \A q \in DOMAIN t : u[q].data = t[q].data
  BY PushBackFacts
<1>3. Pushed(t, p) \notin DOMAIN t
  BY <1>1, TreeFacts
<1>4. u[Pushed(t, p)].data = Empty
  BY <1>3 DEF PushBack
<1>5. \A q \in DOMAIN t : Reaches(u, q, path) <=> Reaches(t, q, path)
  BY PushBackReaches
<1> HIDE DEF u
<1>6. CASE \E q \in DOMAIN t : Reaches(t, q, path)
  <2>1. PICK q \in DOMAIN t : Reaches(t, q, path)
    BY <1>6
  <2>2. Value(t, path) = t[q].data
    BY <1>1, <2>1, ValueReached
  <2>3. q \in DOMAIN u /\ Reaches(u, q, path)
    BY <1>2, <1>5, <2>1
  <2>4. Value(u, path) = u[q].data
    BY <1>1, <2>3, ValueReached
  <2> QED
    BY <1>2, <2>2, <2>4 DEF u
<1>7. CASE ~\E q \in DOMAIN t : Reaches(t, q, path)
  <2>1. Value(t, path) = Empty
    BY <1>7 DEF Value, IsNode
  <2>2. CASE Reaches(u, Pushed(t, p), path)
    <3>1. Value(u, path) = u[Pushed(t, p)].data
      BY <1>1, <1>2, <2>2, ValueReached
    <3> QED
      BY <1>4, <2>1, <3>1 DEF u
  <2>3. CASE ~Reaches(u, Pushed(t, p), path)
    <3>1. ~IsNode(u, path)
      BY <1>2, <1>5, <1>7, <2>3 DEF IsNode
    <3> QED
      BY <2>1, <3>1 DEF u, Value
  <2> QED
    BY <2>2, <2>3
<1> QED
  BY <1>6, <1>7

-----------------------------------------------------------------------------
(* The names on the way to a node.                                         *)

LEMMA NamesToFacts ==
  ASSUME NEW t, WellFormed(t), NEW p \in DOMAIN t
  PROVE  /\ NamesTo(t, p) \in Seq(Segment)
         /\ Len(NamesTo(t, p)) = Len(p)
         /\ \A n \in 1 .. Len(p) : NamesTo(t, p)[n] = t[Prefix(p, n)].uri
<1>1. p \in Address /\ Len(p) \in Nat /\ \A n \in 0 .. Len(p) : Prefix(p, n) \in DOMAIN t
  BY TreeFacts, LenProperties DEF WellFormed, Address
<1>2. \A q \in DOMAIN t : t[q].uri \in Segment
  BY DEF WellFormed, Node, Segment
<1>3. \A n \in 1 .. Len(p) : t[Prefix(p, n)].uri \in Segment
  <2> TAKE n \in 1 .. Len(p)
  <2>1. n \in 0 .. Len(p)
    BY <1>1
  <2> QED
    BY <1>1, <1>2, <2>1
<1> QED
  BY <1>1, <1>3 DEF NamesTo

LEMMA NamesToBelow ==
  ASSUME NEW t, WellFormed(t), NEW p \in DOMAIN t, NEW i \in Positions(t, p)
  PROVE  NamesTo(t, Append(p, i)) = Append(NamesTo(t, p), t[Append(p, i)].uri)
<1> DEFINE q == Append(p, i)
           S == Segment
<1>1. /\ p \in Address /\ Len(p) \in Nat /\ q \in DOMAIN t /\ i \in Nat \ {0}
  BY TreeFacts, LenProperties DEF WellFormed, Address, Positions
<1>2. /\ q \in Address /\ Len(q) = Len(p) + 1
      /\ \A n \in 0 .. Len(p) : Prefix(q, n) = Prefix(p, n)
      /\ Prefix(q, Len(p) + 1) = q
  <2>1. q \in Address /\ Len(q) = Len(p) + 1
    BY <1>1, AppendProperties DEF Address
  <2>2. \A n \in 0 .. Len(p) : Prefix(q, n) = Prefix(p, n)
    BY <1>1, PrefixOfAppend DEF Address
  <2>3. Prefix(q, Len(q)) = q
    BY <2>1, PrefixFull DEF Address
  <2> QED
    BY <2>1, <2>2, <2>3
<1> HIDE DEF q
<1>3. /\ NamesTo(t, p) \in Seq(S) /\ Len(NamesTo(t, p)) = Len(p)
      /\ \A n \in 1 .. Len(p) : NamesTo(t, p)[n] = t[Prefix(p, n)].uri
  BY NamesToFacts
<1>4. /\ NamesTo(t, q) \in Seq(S) /\ Len(NamesTo(t, q)) = Len(p) + 1
      /\ \A n \in 1 .. Len(p) + 1 : NamesTo(t, q)[n] = t[Prefix(q, n)].uri
  BY <1>1, <1>2, NamesToFacts
<1>5. t[q].uri \in S
  BY <1>1 DEF WellFormed, Node, Segment
<1> HIDE DEF S
<1> DEFINE names == Append(NamesTo(t, p), t[q].uri)
<1>6. /\ names \in Seq(S) /\ Len(names) = Len(p) + 1 /\ names[Len(p) + 1] = t[q].uri
      /\ \A n \in 1 .. Len(p) : names[n] = NamesTo(t, p)[n]
  BY <1>3, <1>5, AppendProperties
<1> HIDE DEF names
<1>7. \A n \in 1 .. Len(p) + 1 : NamesTo(t, q)[n] = names[n]
  <2> TAKE n \in 1 .. Len(p) + 1
  <2>1. CASE n = Len(p) + 1
    BY <1>2, <1>4, <1>6, <2>1
  <2>2. CASE n # Len(p) + 1
    <3>1. n \in 1 .. Len(p) /\ n \in 0 .. Len(p)
      BY <1>1, <2>2
    <3> QED
      BY <1>2, <1>3, <1>4, <1>6, <3>1
  <2> QED
    BY <2>1, <2>2
<1>8. NamesTo(t, q) = names
  BY <1>4, <1>6, <1>7, SeqEqual
<1> QED
  BY <1>8 DEF names, q

(* Where no siblings share a name, the names on the way to a node lead     *)
(* back to it.                                                             *)
LEMMA NamesReach ==
  ASSUME NEW t, WellFormed(t), NEW p \in DOMAIN t, NoDoublets(t)
  PROVE  Reaches(t, p, NamesTo(t, p))
<1>1. /\ IsTree(t) /\ p \in Address /\ Len(p) \in Nat
      /\ \A n \in 0 .. Len(p) : Prefix(p, n) \in DOMAIN t
      /\ \A n \in 1 .. Len(p) : p[n] \in Positions(t, Prefix(p, n - 1))
  BY TreeFacts, LenProperties DEF WellFormed, Address
<1>2. /\ Len(NamesTo(t, p)) = Len(p)
      /\ \A n \in 1 .. Len(p) : NamesTo(t, p)[n] = t[Prefix(p, n)].uri
  BY NamesToFacts
<1>3. ASSUME NEW n \in 1 .. Len(p)
      PROVE  /\ HasChild(t, Prefix(p, n - 1), NamesTo(t, p)[n])
             /\ Prefix(p, n) = Child(t, Prefix(p, n - 1), NamesTo(t, p)[n])
  <2> DEFINE above == Prefix(p, n - 1)
             name == NamesTo(t, p)[n]
  <2>1. n - 1 \in 0 .. Len(p)
    BY <1>1
  <2>2. /\ above \in DOMAIN t /\ p[n] \in Positions(t, above)
        /\ Prefix(p, n) = Append(above, p[n])
        /\ name = t[Append(above, p[n])].uri
    BY <1>1, <1>2, <2>1, PrefixStep DEF Address
  <2> HIDE DEF above, name
  <2>3. Named(t, above, name) = {p[n]}
    BY <2>2 DEF Named, NoDoublets
  <2>4. p[n] \in Nat
    BY <1>1, ElementOfSeq DEF Address
  <2>5. First(Named(t, above, name)) = p[n]
    BY <2>3, <2>4 DEF First
  <2> QED
    BY <2>2, <2>3, <2>5 DEF HasChild, Child, above, name
<1> QED
  BY <1>2, <1>3 DEF Reaches

LEMMA PushBackNames ==
  ASSUME NEW t, WellFormed(t), NEW p \in DOMAIN t,
         NEW node \in Childless, NEW name, name = node.uri
  PROVE  NamesTo(PushBack(t, p, node), Pushed(t, p)) = Append(NamesTo(t, p), name)
<1> DEFINE u == PushBack(t, p, node)
<1>1. WellFormed(u)
  BY PushBackWellFormed
<1>2. p \in DOMAIN u /\ u[p].size = t[p].size + 1 /\ \A q \in DOMAIN t : u[q].uri = t[q].uri
  <2>1. p \in DOMAIN u
    BY PushBackFacts
  <2>2. u[p].size = t[p].size + 1
    BY PushBackFacts
  <2>3. \A q \in DOMAIN t : u[q].uri = t[q].uri
    BY PushBackFacts
  <2> QED
    BY <2>1, <2>2, <2>3
<1>3. t[p].size \in Nat /\ Pushed(t, p) \notin DOMAIN t
      /\ \A n \in 0 .. Len(p) : Prefix(p, n) \in DOMAIN t
  BY TreeFacts DEF WellFormed
<1>4. u[Pushed(t, p)].uri = name
  BY <1>3 DEF PushBack
<1> HIDE DEF u
<1>5. NamesTo(u, Append(p, t[p].size + 1)) = Append(NamesTo(u, p), u[Append(p, t[p].size + 1)].uri)
  BY <1>1, <1>2, <1>3, NamesToBelow DEF Positions
<1>6. NamesTo(u, p) = NamesTo(t, p)
  <2>1. Len(p) \in Nat
    BY TreeFacts, LenProperties DEF WellFormed, Address
  <2>2. \A n \in 1 .. Len(p) : n \in 0 .. Len(p)
    BY <2>1
  <2> QED
    BY <1>2, <1>3, <2>2 DEF NamesTo
<1> QED
  BY <1>4, <1>5, <1>6 DEF Pushed, u

-----------------------------------------------------------------------------
(* Assigning a node's data.                                                *)

LEMMA SameShape ==
  ASSUME NEW t, NEW u, IsTree(t), DOMAIN u = DOMAIN t,
         \A q \in DOMAIN t : u[q].size = t[q].size /\ u[q].uri = t[q].uri
  PROVE  /\ IsTree(u)
         /\ \A q \in DOMAIN t : NamesTo(u, q) = NamesTo(t, q)
         /\ \A q \in DOMAIN t : \A path : Reaches(u, q, path) <=> Reaches(t, q, path)
<1>1. \A q \in DOMAIN t : Positions(u, q) = Positions(t, q)
  BY DEF Positions
<1>2. \A q \in DOMAIN t : \A i \in Positions(t, q) : Append(q, i) \in DOMAIN t
  BY TreeFacts
<1>3. ASSUME NEW q \in DOMAIN t, NEW segment
      PROVE  Named(u, q, segment) = Named(t, q, segment)
  BY <1>1, <1>2 DEF Named
<1>4. IsTree(u)
  BY <1>1 DEF IsTree
<1>5. ASSUME NEW q \in DOMAIN t, NEW n \in 1 .. Len(q)
      PROVE  Prefix(q, n) \in DOMAIN t /\ Prefix(q, n - 1) \in DOMAIN t
  <2>1. Len(q) \in Nat
    BY TreeFacts, LenProperties DEF Address
  <2>2. n \in 0 .. Len(q) /\ n - 1 \in 0 .. Len(q)
    BY <2>1
  <2> QED
    BY <2>2, TreeFacts
<1>6. \A q \in DOMAIN t : NamesTo(u, q) = NamesTo(t, q)
  BY <1>5 DEF NamesTo
<1>7. ASSUME NEW q \in DOMAIN t, NEW path
      PROVE  Reaches(u, q, path) <=> Reaches(t, q, path)
  BY <1>3, <1>5 DEF Reaches, HasChild, Child
<1> QED
  BY <1>4, <1>6, <1>7

Assigned(t, p, d) == [t EXCEPT ![p].data = d]

(* An assignment changes what its node's own path reads, and no other.     *)
LEMMA AssignedFacts ==
  ASSUME NEW t, WellFormed(t), NEW p \in DOMAIN t, NEW d \in Data,
         Reaches(t, p, NamesTo(t, p))
  PROVE  /\ WellFormed(Assigned(t, p, d)) /\ DOMAIN Assigned(t, p, d) = DOMAIN t
         /\ Value(Assigned(t, p, d), NamesTo(t, p)) = d
         /\ \A path \in Seq(Segment) :
              path # NamesTo(t, p) => Value(Assigned(t, p, d), path) = Value(t, path)
<1> DEFINE u == Assigned(t, p, d)
<1>0. NamesTo(t, p) \in Seq(Segment)
  BY NamesToFacts
<1>1. IsTree(t) /\ \A q \in DOMAIN t : t[q] \in Node
  BY DEF WellFormed
<1>2. DOMAIN u = DOMAIN t /\ \A q \in DOMAIN t : q # p => u[q] = t[q]
  BY DEF Assigned
<1>3. u[p] = [t[p] EXCEPT !.data = d] /\ t[p] \in Node
  BY <1>1 DEF Assigned
<1>4. u[p] \in Node /\ u[p].size = t[p].size /\ u[p].uri = t[p].uri /\ u[p].data = d
  BY <1>3 DEF Node
<1> HIDE DEF u
<1>5. \A q \in DOMAIN t : u[q] \in Node /\ u[q].size = t[q].size /\ u[q].uri = t[q].uri
  BY <1>1, <1>2, <1>4
<1>6. /\ IsTree(u)
      /\ \A q \in DOMAIN t : \A path : Reaches(u, q, path) <=> Reaches(t, q, path)
  BY <1>1, <1>2, <1>5, SameShape
<1>7. WellFormed(u)
  BY <1>2, <1>5, <1>6 DEF WellFormed
<1>8. ASSUME NEW path \in Seq(Segment)
      PROVE  Value(u, path) = IF path = NamesTo(t, p) THEN d ELSE Value(t, path)
  <2>1. CASE path = NamesTo(t, p)
    <3>1. p \in DOMAIN u /\ Reaches(u, p, path)
      BY <1>2, <1>6, <2>1
    <3>2. Value(u, path) = u[p].data
      BY <1>6, <3>1, ValueReached
    <3> QED
      BY <1>4, <2>1, <3>2
  <2>2. CASE path # NamesTo(t, p) /\ IsNode(t, path)
    <3>1. PICK q \in DOMAIN t : Reaches(t, q, path)
      BY <2>2 DEF IsNode
    <3>2. path = NamesTo(t, q)
      BY <1>1, <3>1, ReachesSteps
    <3>3. q # p /\ u[q] = t[q]
      BY <1>2, <2>2, <3>2
    <3>4. q \in DOMAIN u /\ Reaches(u, q, path)
      BY <1>2, <1>6, <3>1
    <3>5. Value(t, path) = t[q].data
      BY <1>1, <3>1, ValueReached
    <3>6. Value(u, path) = u[q].data
      BY <1>6, <3>4, ValueReached
    <3> QED
      BY <2>2, <3>3, <3>5, <3>6
  <2>3. CASE path # NamesTo(t, p) /\ ~IsNode(t, path)
    <3>1. ~IsNode(u, path)
      BY <1>2, <1>6, <2>3 DEF IsNode
    <3> QED
      BY <2>3, <3>1 DEF Value
  <2> QED
    BY <2>1, <2>2, <2>3
<1> QED
  BY <1>0, <1>2, <1>7, <1>8 DEF u

(* The trees as functions.                                                 *)
NodeTrees == {t \in UNION {[S -> Node] : S \in SUBSET Address} : IsTree(t)}

LEMMA NodeTreesFacts ==
  ASSUME NEW t
  PROVE  t \in NodeTrees <=> WellFormed(t) /\ t = [p \in DOMAIN t |-> t[p]]
<1>1. ASSUME t \in NodeTrees
      PROVE  WellFormed(t) /\ t = [p \in DOMAIN t |-> t[p]]
  BY <1>1 DEF NodeTrees, WellFormed
<1>2. ASSUME WellFormed(t), t = [p \in DOMAIN t |-> t[p]]
      PROVE  t \in NodeTrees
  <2>1. IsTree(t) /\ DOMAIN t \in SUBSET Address
    BY <1>2 DEF WellFormed, IsTree
  <2>2. t \in [DOMAIN t -> Node]
    BY <1>2 DEF WellFormed
  <2> QED
    BY <2>1, <2>2 DEF NodeTrees
<1> QED
  BY <1>1, <1>2

-----------------------------------------------------------------------------
(* Trees are finite, whatever their depth: what holds of a node when it    *)
(* holds of its children holds of all.                                     *)
(* The elements of a file nest to a finite depth.                          *)
LEMMA FiniteDepth ==
  ASSUME NEW t, IsTree(t), IsFiniteSet(DOMAIN t)
  PROVE  \E d \in Nat : \A p \in DOMAIN t : Len(p) <= d
<1>0. PICK n \in Nat : ExistsBijection(1 .. n, DOMAIN t)
  BY FS_NatBijection
<1>1. PICK f \in [1 .. n -> DOMAIN t] : \A p \in DOMAIN t : \E i \in 1 .. n : f[i] = p
  BY <1>0 DEF ExistsBijection, Bijection, Surjection
<1> DEFINE S == {k \in 0 .. n : \E d \in Nat : \A i \in 1 .. k : Len(f[i]) <= d}
<1>2. 0 \in S
  OBVIOUS
<1>3. ASSUME NEW k \in 1 .. n, k - 1 \in S
      PROVE  k \in S
  <2>1. PICK d \in Nat : \A i \in 1 .. k - 1 : Len(f[i]) <= d
    BY <1>3
  <2>2. \A i \in 1 .. k : Len(f[i]) \in Nat
    BY TreeFacts, LenProperties DEF Address
  <2> DEFINE e == IF Len(f[k]) <= d THEN d ELSE Len(f[k])
  <2>3. e \in Nat /\ \A i \in 1 .. k : Len(f[i]) <= e
    BY <2>1, <2>2
  <2> QED
    BY <2>3
<1>4. \A k \in 0 .. n : k \in S
  <2> HIDE DEF S
  <2> QED
    BY <1>2, <1>3, InductionUpTo
<1>5. n \in 0 .. n
  OBVIOUS
<1>6. n \in S
  BY <1>4, <1>5
<1>7. PICK d \in Nat : \A i \in 1 .. n : Len(f[i]) <= d
  BY <1>6
<1> QED
  BY <1>1, <1>7

(* Induction from the children to their parent.                            *)
LEMMA InductionOverTree ==
  ASSUME NEW t, IsTree(t), IsFiniteSet(DOMAIN t),
         NEW S, \A p \in DOMAIN t : (\A i \in Positions(t, p) : Append(p, i) \in S) => p \in S
  PROVE  \A p \in DOMAIN t : p \in S
<1>0. PICK d \in Nat : \A p \in DOMAIN t : Len(p) <= d
  BY FiniteDepth
<1> DEFINE K == {k \in 0 .. d : \A p \in DOMAIN t : Len(p) + k >= d => p \in S}
<1>1. \A p \in DOMAIN t : /\ Len(p) \in Nat
                          /\ \A i \in Positions(t, p) : /\ Append(p, i) \in DOMAIN t
                                                        /\ Len(Append(p, i)) = Len(p) + 1
  BY TreeFacts, LenProperties, AppendProperties DEF Address, Positions
<1>2. 0 \in K
  <2> SUFFICES ASSUME NEW p \in DOMAIN t, Len(p) + 0 >= d
               PROVE  p \in S
    OBVIOUS
  <2>1. ASSUME NEW i \in Positions(t, p)
        PROVE  FALSE
    <3>1. Len(Append(p, i)) <= d
      BY <1>0, <1>1
    <3> QED
      BY <1>1, <3>1
  <2> QED
    BY <2>1
<1>3. ASSUME NEW k \in 1 .. d, k - 1 \in K
      PROVE  k \in K
  <2> SUFFICES ASSUME NEW p \in DOMAIN t, Len(p) + k >= d
               PROVE  p \in S
    OBVIOUS
  <2>1. \A q \in DOMAIN t : Len(q) + (k - 1) >= d => q \in S
    BY <1>3
  <2>2. ASSUME NEW i \in Positions(t, p)
        PROVE  Append(p, i) \in S
    <3>1. Append(p, i) \in DOMAIN t /\ Len(Append(p, i)) = Len(p) + 1 /\ Len(p) \in Nat
      BY <1>1
    <3>2. Len(Append(p, i)) + (k - 1) >= d
      BY <3>1
    <3> QED
      BY <2>1, <3>1, <3>2
  <2> QED
    BY <2>2
<1>4. \A k \in 0 .. d : k \in K
  <2> HIDE DEF K
  <2> QED
    BY <1>2, <1>3, InductionUpTo
<1>5. d \in K
  BY <1>4
<1> QED
  BY <1>1, <1>5

(* What F makes of a function of the nodes depends, at a node, on the      *)
(* function's values at the children; so F has a fixed point.              *)
LooksBelow(t, V, F) ==
  \A g, h \in [DOMAIN t -> V] : \A p \in DOMAIN t :
    (\A i \in Positions(t, p) : g[Append(p, i)] = h[Append(p, i)]) => F[g][p] = F[h][p]

FixedPoint(t, V, F, g) == g \in [DOMAIN t -> V] /\ g = F[g]

LEMMA RecursionOverTree ==
  ASSUME NEW t, IsTree(t), IsFiniteSet(DOMAIN t),
         NEW V, NEW base \in V,
         NEW F, \A g \in [DOMAIN t -> V] : F[g] \in [DOMAIN t -> V],
         LooksBelow(t, V, F)
  PROVE  \E g : FixedPoint(t, V, F, g)
<1>0. PICK d \in Nat : \A p \in DOMAIN t : Len(p) <= d
  BY FiniteDepth
<1> DEFINE W == [DOMAIN t -> V]
           start == [p \in DOMAIN t |-> base]
<1>1. PICK g \in [0 .. d + 1 -> W] : \A i \in 1 .. d + 1 : g[i] = F[g[i - 1]]
  <2> DEFINE n == d + 1
             step == [i \in 1 .. n |-> F]
  <2>1. start \in W /\ n \in Nat /\ \A i \in 1 .. n : \A w \in W : step[i][w] \in W
    OBVIOUS
  <2>2. \A i \in 1 .. n : step[i] = F
    OBVIOUS
  <2> HIDE DEF W, start, step, n
  <2>3. PICK g : Iterates(g, n, W, start, step)
    BY <2>1, IterationExists
  <2>4. g \in [0 .. n -> W] /\ \A i \in 1 .. n : g[i] = F[g[i - 1]]
    BY <2>2, <2>3 DEF Iterates
  <2> USE DEF n
  <2> QED
    BY <2>4
<1> DEFINE K == {k \in 0 .. d + 1 : \A p \in DOMAIN t : Len(p) + k > d => F[g[k]][p] = g[k][p]}
<1>2. \A p \in DOMAIN t : /\ Len(p) \in Nat
                          /\ \A i \in Positions(t, p) : /\ Append(p, i) \in DOMAIN t
                                                        /\ Len(Append(p, i)) = Len(p) + 1
  BY TreeFacts, LenProperties, AppendProperties DEF Address, Positions
<1>3. 0 \in K
  BY <1>0, <1>2
<1>4. ASSUME NEW k \in 1 .. d + 1, k - 1 \in K
      PROVE  k \in K
  <2> SUFFICES ASSUME NEW p \in DOMAIN t, Len(p) + k > d
               PROVE  F[g[k]][p] = g[k][p]
    OBVIOUS
  <2>1. g[k] = F[g[k - 1]] /\ g[k] \in W /\ g[k - 1] \in W
    BY <1>1
  <2>0. \A q \in DOMAIN t : Len(q) + (k - 1) > d => F[g[k - 1]][q] = g[k - 1][q]
    BY <1>4
  <2>2. ASSUME NEW i \in Positions(t, p)
        PROVE  g[k][Append(p, i)] = g[k - 1][Append(p, i)]
    <3>1. Append(p, i) \in DOMAIN t /\ Len(Append(p, i)) = Len(p) + 1 /\ Len(p) \in Nat
      BY <1>2
    <3>2. Len(Append(p, i)) + (k - 1) > d
      BY <3>1
    <3> QED
      BY <2>0, <2>1, <3>1, <3>2
  <2>3. F[g[k]][p] = F[g[k - 1]][p]
    BY <2>1, <2>2 DEF LooksBelow
  <2> QED
    BY <2>1, <2>3
<1>5. \A k \in 0 .. d + 1 : k \in K
  <2>1. d + 1 \in Nat
    OBVIOUS
  <2> HIDE DEF K
  <2> QED
    BY <1>3, <1>4, <2>1, InductionUpTo
<1>6. d + 1 \in K
  BY <1>5
<1> DEFINE f == g[d + 1]
<1>7. f \in W /\ F[f] \in W
  <2>1. d + 1 \in 0 .. d + 1
    OBVIOUS
  <2>2. \A w \in W : F[w] \in W
    OBVIOUS
  <2> HIDE DEF W
  <2> QED
    BY <1>1, <2>1, <2>2
<1>8. \A p \in DOMAIN t : F[f][p] = f[p]
  <2>1. \A p \in DOMAIN t : Len(p) + (d + 1) > d
    BY <1>2
  <2> QED
    BY <1>6, <2>1
<1>9. FixedPoint(t, V, F, f)
  BY <1>7, <1>8 DEF FixedPoint
<1> QED
  BY <1>9

-----------------------------------------------------------------------------
(* The parsers.  What is kept of a document is a tree once the sizes of    *)
(* the leaves are zero.                                                    *)
LEMMA KeptIsTree ==
  ASSUME NEW x, IsTree(x), NEW leaves, leaves \subseteq DOMAIN x \ {<<>>},
         NEW t, DOMAIN t = Kept(x, leaves),
         \A p \in DOMAIN t : t[p].size = IF p \in leaves THEN 0 ELSE x[p].size
  PROVE  IsTree(t)
<1>1. \A p \in DOMAIN x : p \in Address /\ Len(p) \in Nat /\ x[p].size \in Nat
  BY TreeFacts, LenProperties DEF Address
<1>2. \A p \in DOMAIN t : p \in DOMAIN x
  BY DEF Kept
<1>3. DOMAIN t \subseteq Address
  BY <1>1, <1>2
<1>4. <<>> \in DOMAIN t
  BY EmptySeq DEF Kept, IsTree
<1>5. ASSUME NEW p \in DOMAIN t, NEW n \in 0 .. Len(p)
      PROVE  Prefix(p, n) \in DOMAIN t
  <2>1. p \in DOMAIN x /\ p \in Address /\ Len(p) \in Nat
    BY <1>1, <1>2
  <2>2. Prefix(p, n) \in DOMAIN x /\ Len(Prefix(p, n)) = n
    BY <2>1, TreeFacts, PrefixFacts DEF Address
  <2>3. ASSUME NEW i \in 1 .. n - 1
        PROVE  Prefix(Prefix(p, n), i) \notin leaves
    <3>1. i \in 0 .. n /\ i \in 1 .. Len(p) - 1
      BY <2>1
    <3>2. Prefix(Prefix(p, n), i) = Prefix(p, i)
      BY <2>1, <3>1, PrefixOfPrefix DEF Address
    <3> QED
      BY <3>1, <3>2 DEF Kept
  <2> QED
    BY <2>2, <2>3 DEF Kept
<1>6. ASSUME NEW p \in DOMAIN t, NEW n \in 1 .. Len(p)
      PROVE  Prefix(p, n - 1) \in DOMAIN t /\ p[n] \in Positions(t, Prefix(p, n - 1))
  <2>1. p \in DOMAIN x /\ p \in Address /\ Len(p) \in Nat
    BY <1>1, <1>2
  <2>2. n - 1 \in 0 .. Len(p)
    BY <2>1
  <2>3. Prefix(p, n - 1) \in DOMAIN t
    BY <1>5, <2>2
  <2>4. Prefix(p, n - 1) \notin leaves
    <3>1. CASE n = 1
      <4>1. Prefix(p, n - 1) = <<>>
        BY <3>1, PrefixNone
      <4> QED
        BY <4>1
    <3>2. CASE n # 1
      <4>1. n - 1 \in 1 .. Len(p) - 1
        BY <2>1, <3>2
      <4> QED
        BY <4>1 DEF Kept
    <3> QED
      BY <3>1, <3>2
  <2>5. p[n] \in Positions(x, Prefix(p, n - 1))
    BY <2>1, TreeFacts
  <2> QED
    BY <2>3, <2>4, <2>5 DEF Positions
<1>7. ASSUME NEW p \in DOMAIN t, NEW i \in Positions(t, p)
      PROVE  Append(p, i) \in DOMAIN t
  <2>1. p \in DOMAIN x /\ p \in Address /\ Len(p) \in Nat /\ x[p].size \in Nat
    BY <1>1, <1>2
  <2>2. p \notin leaves /\ i \in Positions(x, p)
    BY <2>1 DEF Positions
  <2>3. Append(p, i) \in DOMAIN x /\ i \in Nat \ {0}
    BY <2>1, <2>2, TreeFacts DEF Positions
  <2>4. Len(Append(p, i)) = Len(p) + 1
    BY <2>1, <2>3, AppendProperties DEF Address
  <2>5. ASSUME NEW n \in 1 .. Len(p)
        PROVE  Prefix(Append(p, i), n) \notin leaves
    <3>1. Prefix(Append(p, i), n) = Prefix(p, n)
      BY <2>1, <2>3, PrefixOfAppend DEF Address
    <3>2. CASE n = Len(p)
      BY <2>1, <2>2, <3>1, <3>2, PrefixFull DEF Address
    <3>3. CASE n # Len(p)
      <4>1. n \in 1 .. Len(p) - 1
        BY <2>1, <3>3
      <4> QED
        BY <3>1, <4>1 DEF Kept
    <3> QED
      BY <3>2, <3>3
  <2>6. Len(p) + 1 - 1 = Len(p)
    BY <2>1
  <2> QED
    BY <2>3, <2>4, <2>5, <2>6 DEF Kept
<1>8. \A p \in DOMAIN t : t[p].size \in Nat
  BY <1>1, <1>2
<1> QED
  BY <1>3, <1>4, <1>6, <1>7, <1>8 DEF IsTree

(* MO_BaseCached's constructor yields a tree, for every document.          *)
LEMMA CacheTreeWellFormed ==
  ASSUME NEW x, IsDocument(x)
  PROVE  WellFormed(CacheTree(x))
<1>1. CASE x = NoTree
  <2> DEFINE root == [uri |-> NoName, is_leaf |-> TRUE, data |-> Empty, size |-> 0]
  <2>1. root \in Node
    BY DEF Node
  <2>2. CacheTree(x) = [p \in {<<>>} |-> root]
    BY <1>1 DEF CacheTree, RootOnly
  <2>3. DOMAIN CacheTree(x) = {<<>>} /\ CacheTree(x)[<<>>] = root
    BY <2>2
  <2>4. <<>> \in Address /\ Len(<<>>) = 0
    BY EmptySeq DEF Address
  <2>5. CacheTree(x)[<<>>].size = 0
    BY <2>3
  <2>6. IsTree(CacheTree(x))
    BY <2>3, <2>4, <2>5 DEF IsTree, Positions
  <2> QED
    BY <2>1, <2>3, <2>6 DEF WellFormed
<1>2. CASE x # NoTree
  <2> DEFINE leaves == CacheLeaves(x)
             t == CacheTree(x)
  <2>1. IsTree(x) /\ \A p \in DOMAIN x : x[p] \in Element
    BY <1>2 DEF IsDocument
  <2>2. leaves \subseteq DOMAIN x \ {<<>>}
    BY DEF CacheLeaves
  <2>3. /\ DOMAIN t = Kept(x, leaves)
        /\ \A p \in DOMAIN t :
             t[p] = [uri     |-> IF p = <<>> THEN NoName ELSE NodeName(x[p]),
                     is_leaf |-> p \in leaves \/ (p = <<>> /\ x[p].size = 0),
                     data    |-> IF p \in leaves THEN x[p].value ELSE Empty,
                     size    |-> IF p \in leaves THEN 0 ELSE x[p].size]
    BY <1>2 DEF CacheTree
  <2> HIDE DEF t, leaves
  <2>4. \A p \in DOMAIN t : t[p].size = IF p \in leaves THEN 0 ELSE x[p].size
    BY <2>3
  <2>5. IsTree(t)
    BY <2>1, <2>2, <2>3, <2>4, KeptIsTree
  <2>6. ASSUME NEW p \in DOMAIN t
        PROVE  t[p] \in Node
    <3>1. x[p] \in Element
      BY <2>1, <2>3 DEF Kept
    <3>2. NodeName(x[p]) \in Segment
      BY <3>1 DEF NodeName, Element, Segment
    <3>3. x[p].value \in Data /\ x[p].size \in Nat
      BY <3>1 DEF Element
    <3> DEFINE uri     == IF p = <<>> THEN NoName ELSE NodeName(x[p])
               is_leaf == p \in leaves \/ (p = <<>> /\ x[p].size = 0)
               d       == IF p \in leaves THEN x[p].value ELSE Empty
               size    == IF p \in leaves THEN 0 ELSE x[p].size
    <3>4. uri \in Segment /\ is_leaf \in BOOLEAN /\ d \in Data /\ size \in Nat
      BY <3>2, <3>3 DEF Segment
    <3>5. t[p] = [uri |-> uri, is_leaf |-> is_leaf, data |-> d, size |-> size]
      BY <2>3
    <3> HIDE DEF uri, is_leaf, d, size
    <3> QED
      BY <3>4, <3>5 DEF Node, Segment
  <2> QED
    BY <2>5, <2>6 DEF WellFormed, t
<1> QED
  BY <1>1, <1>2

(* And so does MOHandler's, for every document it registers.               *)
LEMMA HandlerTreeWellFormed ==
  ASSUME NEW x, IsDocument(x), NEW urn_name \in Names \cup {NoName, "throws"},
         HandlerParse(x, urn_name) = "true"
  PROVE  WellFormed(HandlerTree(x, urn_name))
<1> DEFINE leaves == HandlerLeaves(x)
           t == HandlerTree(x, urn_name)
<1>1. x # NoTree /\ RootName(x, urn_name) # "throws"
  BY DEF HandlerParse
<1>2. IsTree(x) /\ \A p \in DOMAIN x : x[p] \in Element
  BY <1>1 DEF IsDocument
<1>3. leaves \subseteq DOMAIN x \ {<<>>}
  BY DEF HandlerLeaves
<1>4. /\ DOMAIN t = Kept(x, leaves)
      /\ \A p \in DOMAIN t :
           t[p] = [uri     |-> IF p = <<>> THEN RootName(x, urn_name) ELSE NodeName(x[p]),
                   is_leaf |-> p \in leaves,
                   data    |-> Empty,
                   size    |-> IF p \in leaves THEN 0 ELSE x[p].size]
  BY DEF HandlerTree
<1>5. RootName(x, urn_name) \in Segment
  <2>1. x[<<>>] \in Element
    BY <1>2 DEF IsTree
  <2> QED
    BY <1>1, <2>1 DEF RootName, Element, Segment
<1> HIDE DEF t, leaves
<1>6. \A p \in DOMAIN t : t[p].size = IF p \in leaves THEN 0 ELSE x[p].size
  BY <1>4
<1>7. IsTree(t)
  BY <1>2, <1>3, <1>4, <1>6, KeptIsTree
<1>8. ASSUME NEW p \in DOMAIN t
      PROVE  t[p] \in Node
  <2>1. x[p] \in Element
    BY <1>2, <1>4 DEF Kept
  <2>2. NodeName(x[p]) \in Segment /\ x[p].size \in Nat
    BY <2>1 DEF NodeName, Element, Segment
  <2> DEFINE uri     == IF p = <<>> THEN RootName(x, urn_name) ELSE NodeName(x[p])
             is_leaf == p \in leaves
             size    == IF p \in leaves THEN 0 ELSE x[p].size
  <2>3. uri \in Segment /\ is_leaf \in BOOLEAN /\ size \in Nat
    BY <1>5, <2>2
  <2>4. t[p] = [uri |-> uri, is_leaf |-> is_leaf, data |-> Empty, size |-> size]
    BY <1>4
  <2> HIDE DEF uri, is_leaf, size
  <2> QED
    BY <2>3, <2>4 DEF Node, Segment
<1> QED
  BY <1>7, <1>8 DEF WellFormed, t

-----------------------------------------------------------------------------
(* The library calls an element a leaf exactly when the object does.       *)
LEMMA SameElementsAreLeaves ==
  ASSUME NEW x, IsDocument(x), x # NoTree
  PROVE  HandlerLeaves(x) = CacheLeaves(x)
<1>1. \A p \in DOMAIN x : x[p] \in Element
  BY DEF IsDocument
<1>2. \A p \in DOMAIN x : x[p].format \in {"none", "node", "chr"}
  BY <1>1 DEF Element
<1> QED
  BY <1>2 DEF HandlerLeaves, CacheLeaves

(* The two trees have the same shape, and below the root the same names    *)
(* and the same leaves; only the object's leaves have the file's values.   *)
LEMMA TreesAgree ==
  ASSUME NEW x, IsDocument(x), NEW n \in Names \cup {NoName, "throws"},
         HandlerParse(x, n) = "true"
  PROVE  /\ x # NoTree
         /\ WellFormed(HandlerTree(x, n)) /\ WellFormed(CacheTree(x))
         /\ DOMAIN HandlerTree(x, n) = DOMAIN CacheTree(x)
         /\ \A p \in DOMAIN CacheTree(x) :
              HandlerTree(x, n)[p].size = CacheTree(x)[p].size
         /\ \A p \in DOMAIN CacheTree(x) : p # <<>> =>
              /\ HandlerTree(x, n)[p].uri = CacheTree(x)[p].uri
              /\ HandlerTree(x, n)[p].is_leaf = CacheTree(x)[p].is_leaf
              /\ CacheTree(x)[p].is_leaf => CacheTree(x)[p].data = x[p].value
<1> DEFINE leaves == CacheLeaves(x)
           h == HandlerTree(x, n)
           t == CacheTree(x)
<1>1. x # NoTree
  BY DEF HandlerParse
<1>2. WellFormed(h) /\ WellFormed(t)
  BY HandlerTreeWellFormed, CacheTreeWellFormed
<1>3. /\ DOMAIN h = Kept(x, leaves)
      /\ \A p \in DOMAIN h :
           h[p] = [uri     |-> IF p = <<>> THEN RootName(x, n) ELSE NodeName(x[p]),
                   is_leaf |-> p \in leaves,
                   data    |-> Empty,
                   size    |-> IF p \in leaves THEN 0 ELSE x[p].size]
  BY <1>1, SameElementsAreLeaves DEF HandlerTree
<1>4. /\ DOMAIN t = Kept(x, leaves)
      /\ \A p \in DOMAIN t :
           t[p] = [uri     |-> IF p = <<>> THEN NoName ELSE NodeName(x[p]),
                   is_leaf |-> p \in leaves \/ (p = <<>> /\ x[p].size = 0),
                   data    |-> IF p \in leaves THEN x[p].value ELSE Empty,
                   size    |-> IF p \in leaves THEN 0 ELSE x[p].size]
  BY <1>1 DEF CacheTree
<1> HIDE DEF h, t, leaves
<1>5. \A p \in DOMAIN t : h[p].size = t[p].size
  BY <1>3, <1>4
<1>6. \A p \in DOMAIN t : p # <<>> =>
        /\ h[p].uri = t[p].uri
        /\ h[p].is_leaf = t[p].is_leaf
        /\ t[p].is_leaf => t[p].data = x[p].value
  <2> SUFFICES ASSUME NEW p \in DOMAIN t, p # <<>>
               PROVE  /\ h[p].uri = t[p].uri
                      /\ h[p].is_leaf = t[p].is_leaf
                      /\ t[p].is_leaf => t[p].data = x[p].value
    OBVIOUS
  <2>1. h[p].uri = NodeName(x[p]) /\ t[p].uri = NodeName(x[p])
    BY <1>3, <1>4
  <2>2. h[p].is_leaf = (p \in leaves)
    BY <1>3, <1>4
  <2>3. t[p].is_leaf = (p \in leaves \/ (p = <<>> /\ x[p].size = 0))
    BY <1>4
  <2>4. h[p].is_leaf = t[p].is_leaf
    BY <2>2, <2>3
  <2>5. p \in leaves => t[p].data = x[p].value
    BY <1>4
  <2> QED
    BY <2>1, <2>3, <2>4, <2>5
<1> QED
  BY <1>1, <1>2, <1>3, <1>4, <1>5, <1>6 DEF h, t

(* Below the root the names on the way to a node are the same.             *)
LEMMA NamesAgree ==
  ASSUME NEW x, IsDocument(x), NEW n \in Names \cup {NoName, "throws"},
         HandlerParse(x, n) = "true",
         NEW p \in DOMAIN CacheTree(x)
  PROVE  NamesTo(HandlerTree(x, n), p) = NamesTo(CacheTree(x), p)
<1> DEFINE h == HandlerTree(x, n)
           t == CacheTree(x)
<1>1. /\ IsTree(t) /\ p \in Address /\ Len(p) \in Nat
      /\ \A q \in DOMAIN t : q # <<>> => h[q].uri = t[q].uri
  BY TreesAgree, TreeFacts, LenProperties DEF WellFormed, Address
<1> HIDE DEF h, t
<1>2. ASSUME NEW i \in 1 .. Len(p)
      PROVE  h[Prefix(p, i)].uri = t[Prefix(p, i)].uri
  <2>1. i \in 0 .. Len(p) /\ i # 0
    BY <1>1
  <2>2. Prefix(p, i) \in DOMAIN t /\ Len(Prefix(p, i)) = i
    BY <1>1, <2>1, TreeFacts, PrefixFacts DEF t, Address
  <2>3. Prefix(p, i) # <<>>
    BY <2>1, <2>2, EmptySeq
  <2> QED
    BY <1>1, <2>2, <2>3
<1> QED
  BY <1>2 DEF NamesTo, h, t

(* A DDF file that is read twice is read into the same leaves.             *)
LEMMA SameLeafPaths ==
  ASSUME NEW x, IsDocument(x), NEW n \in Names \cup {NoName, "throws"},
         HandlerParse(x, n) = "true"
  PROVE  LeafPaths(HandlerTree(x, n)) = LeafPaths(CacheTree(x))
<1> DEFINE h == HandlerTree(x, n)
           t == CacheTree(x)
<1>1. LeavesOf(h) = LeavesOf(t) /\ LeavesOf(t) \subseteq DOMAIN t
  BY TreesAgree DEF LeavesOf
<1>2. \A p \in LeavesOf(t) : NamesTo(h, p) = NamesTo(t, p)
  BY <1>1, NamesAgree
<1> HIDE DEF h, t
<1>3. LeafPaths(h) = LeafPaths(t)
  BY <1>1, <1>2 DEF LeafPaths
<1> QED
  BY <1>3 DEF h, t

(* What is used of the tree MOHandler reads from a DDF file: every node    *)
(* below the root has a name, and a leaf has no children.                  *)
Parsed(t) ==
  /\ WellFormed(t) /\ IsFiniteSet(DOMAIN t)
  /\ \A p \in DOMAIN t : p # <<>> => /\ t[p].uri \in Names
                                     /\ t[p].is_leaf => t[p].size = 0

LEMMA HandlerTreeParsed ==
  ASSUME NEW x, IsDocument(x), NEW n \in Names \cup {NoName, "throws"},
         HandlerParse(x, n) = "true"
  PROVE  Parsed(HandlerTree(x, n))
<1> DEFINE h == HandlerTree(x, n)
           leaves == HandlerLeaves(x)
<1>1. x # NoTree /\ WellFormed(h)
  BY TreesAgree
<1>2. /\ DOMAIN h = Kept(x, leaves) /\ Kept(x, leaves) \subseteq DOMAIN x
      /\ \A p \in DOMAIN h : p # <<>> =>
           /\ h[p].uri = NodeName(x[p])
           /\ h[p].is_leaf = (p \in leaves)
           /\ h[p].size = IF p \in leaves THEN 0 ELSE x[p].size
  BY DEF HandlerTree, Kept
<1>3. IsFiniteSet(DOMAIN x) /\ \A p \in DOMAIN x : x[p] \in Element
  BY <1>1 DEF IsDocument
<1>4. \A p \in DOMAIN x : NodeName(x[p]) \in Names
  BY <1>3 DEF NodeName, Element
<1>5. IsFiniteSet(DOMAIN h)
  BY <1>2, <1>3, FS_Subset
<1> HIDE DEF h, leaves
<1>6. Parsed(h)
  BY <1>1, <1>2, <1>4, <1>5 DEF Parsed
<1> QED
  BY <1>6 DEF h

LEMMA CacheTreeType ==
  ASSUME NEW x, IsDocument(x)
  PROVE  CacheTree(x) \in NodeTrees
<1>1. WellFormed(CacheTree(x))
  BY CacheTreeWellFormed
<1>2. CacheTree(x) = [p \in DOMAIN CacheTree(x) |-> CacheTree(x)[p]]
  BY DEF CacheTree, RootOnly
<1> QED
  BY <1>1, <1>2, NodeTreesFacts

LEMMA LeafPathsType ==
  ASSUME NEW t, WellFormed(t)
  PROVE  LeafPaths(t) \subseteq Seq(Segment)
BY NamesToFacts DEF LeafPaths, LeavesOf
=============================================================================
