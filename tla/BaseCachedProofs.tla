-------------------------- MODULE BaseCachedProofs --------------------------
(***************************************************************************)
(* Proofs about BaseCached, for every set of names, data, paths and        *)
(* documents, and trees of every size.                                     *)
(***************************************************************************)
EXTENDS BaseCached, NodeTreeProofs

USE NodeAssumption, CacheAssumption

-----------------------------------------------------------------------------
(* A path the application passes splits into segments.                     *)
LEMMA PathType ==
  ASSUME NEW path \in NodePaths
  PROVE  vectorize_path(path) \in Seq(Segment)
<1>1. path \in Seq(Segment) /\ path # <<>>
  BY DEF Segment
<1> QED
  BY <1>1, VectorizeType

(* Moving the first of the remaining segments behind those already         *)
(* descended leaves the whole path alone.                                  *)
LEMMA AppendHead ==
  ASSUME NEW S, NEW a \in Seq(S), NEW r \in Seq(S), r # <<>>
  PROVE  Append(a, Head(r)) \o Tail(r) = a \o r
<1>1. /\ Head(r) \in S /\ Tail(r) \in Seq(S) /\ Head(r) = r[1]
      /\ <<Head(r)>> \in Seq(S)
  BY HeadTailProperties
<1>2. 1 \in 1 .. Len(r) /\ Len(r) \in 1 .. Len(r)
  BY LenProperties, EmptySeq
<1>3. r = <<Head(r)>> \o Tail(r)
  <2>1. SubSeq(r, 1, Len(r)) = <<r[1]>> \o SubSeq(r, 1 + 1, Len(r))
    BY <1>2, SubSeqRecursiveFirst
  <2>2. SubSeq(r, 1, Len(r)) = r /\ Tail(r) = SubSeq(r, 2, Len(r)) /\ 1 + 1 = 2
    BY SubSeqFull, TailIsSubSeq
  <2> QED
    BY <1>1, <2>1, <2>2
<1>4. Append(a, Head(r)) = a \o <<Head(r)>>
  BY <1>1, AppendIsConcat
<1>5. (a \o <<Head(r)>>) \o Tail(r) = a \o (<<Head(r)>> \o Tail(r))
  BY <1>1, ConcatAssociative
<1> QED
  BY <1>3, <1>4, <1>5

-----------------------------------------------------------------------------
(* The node pointer is where local_get_node would walk along the names on  *)
(* the way to it; without that an assignment could hit a node no get of    *)
(* the same path finds.                                                    *)
CacheInv == CacheTypeOK /\ Reaches(tree, at, NamesTo(tree, at))

LEMMA InitialTreesWellFormed ==
  \A t \in InitialTrees : WellFormed(t)
BY CacheTreeWellFormed DEF InitialTrees

LEMMA InitInv == CacheInit => CacheInv
<1> SUFFICES ASSUME CacheInit PROVE CacheInv
  OBVIOUS
<1>1. WellFormed(tree) /\ at = <<>>
  BY InitialTreesWellFormed DEF CacheInit, NoCall
<1>2. at \in DOMAIN tree
  BY <1>1 DEF WellFormed, IsTree
<1>3. Reaches(tree, at, NamesTo(tree, at))
  BY <1>1, ReachesRoot
<1>4. rest \in Seq(Names \cup {NoName})
  BY EmptySeq DEF CacheInit, NoCall
<1>5. setting \in BOOLEAN /\ add_missing \in BOOLEAN
  BY DEF CacheInit, NoCall
<1>6. data \in Data /\ result \in Data
  BY DEF CacheInit, NoCall
<1> QED
  BY <1>1, <1>2, <1>3, <1>4, <1>5, <1>6 DEF CacheInv, CacheTypeOK

(* A call, or its end, leaves the node pointer at the root.                *)
LEMMA AtRoot ==
  ASSUME WellFormed(tree'), at' = <<>>
  PROVE  at' \in DOMAIN tree' /\ Reaches(tree', at', NamesTo(tree', at'))
<1>1. at' \in DOMAIN tree'
  BY DEF WellFormed, IsTree
<1>2. Reaches(tree', at', NamesTo(tree', at'))
  BY ReachesRoot
<1> QED
  BY <1>1, <1>2

LEMMA RestFacts ==
  ASSUME CacheInv, Looking
  PROVE  /\ Head(rest) \in Segment /\ Tail(rest) \in Seq(Segment)
         /\ rest \in Seq(Segment) /\ rest # <<>>
         /\ WellFormed(tree) /\ IsTree(tree) /\ at \in DOMAIN tree
         /\ NamesTo(tree, at) \in Seq(Segment)
<1>1. rest \in Seq(Segment) /\ rest # <<>>
  BY DEF CacheInv, CacheTypeOK, Looking, Segment
<1>2. WellFormed(tree) /\ at \in DOMAIN tree
  BY DEF CacheInv, CacheTypeOK
<1>3. NamesTo(tree, at) \in Seq(Segment)
  BY <1>2, NamesToFacts DEF Segment
<1> QED
  BY <1>1, <1>2, <1>3, HeadTailProperties DEF WellFormed

(* A child that is there: the pointer and the remaining path move on.      *)
LEMMA DescendFacts ==
  ASSUME CacheInv, Descend
  PROVE  /\ at' \in DOMAIN tree
         /\ NamesTo(tree, at') = Append(NamesTo(tree, at), Head(rest))
         /\ Reaches(tree, at', NamesTo(tree, at'))
<1>1. Looking /\ HasChild(tree, at, Head(rest)) /\ at' = Child(tree, at, Head(rest))
  BY DEF Descend
<1>2. /\ Head(rest) \in Segment /\ WellFormed(tree) /\ IsTree(tree)
      /\ at \in DOMAIN tree /\ NamesTo(tree, at) \in Seq(Segment)
  BY <1>1, RestFacts
<1> DEFINE i == First(Named(tree, at, Head(rest)))
<1>3. /\ i \in Positions(tree, at) /\ at' \in DOMAIN tree
      /\ tree[at'].uri = Head(rest)
  BY <1>1, <1>2, ChildFacts
<1> HIDE DEF i
<1>4. at' = Append(at, i)
  BY <1>1 DEF Child, i
<1>5. NamesTo(tree, at') = Append(NamesTo(tree, at), Head(rest))
  BY <1>2, <1>3, <1>4, NamesToBelow
<1>6. Reaches(tree, at, NamesTo(tree, at))
  BY DEF CacheInv
<1>7. Reaches(tree, Child(tree, at, Head(rest)), Append(NamesTo(tree, at), Head(rest)))
  BY <1>1, <1>2, <1>6, ReachesChild
<1> QED
  BY <1>1, <1>3, <1>5, <1>7

(* A child that is missing: the new node, of that name and no data.        *)
LEMMA AddFacts ==
  ASSUME CacheInv, NEW is_leaf \in BOOLEAN, AddMissingNode(is_leaf)
  PROVE  /\ WellFormed(tree') /\ at' \in DOMAIN tree'
         /\ DOMAIN tree' = DOMAIN tree \cup {Pushed(tree, at)}
         /\ tree'[Pushed(tree, at)].uri = Head(rest)
         /\ NamesTo(tree', at') = Append(NamesTo(tree, at), Head(rest))
         /\ Reaches(tree', at', NamesTo(tree', at'))
         /\ \A path \in Seq(Segment) : Value(tree', path) = Value(tree, path)
<1> DEFINE name == Head(rest)
           node == [uri |-> name, is_leaf |-> is_leaf, data |-> Empty, size |-> 0]
<1>1. /\ Looking /\ ~HasChild(tree, at, name)
      /\ tree' = PushBack(tree, at, node) /\ at' = Pushed(tree, at)
  BY DEF AddMissingNode, Missing
<1>2. /\ name \in Segment /\ WellFormed(tree) /\ IsTree(tree)
      /\ at \in DOMAIN tree /\ NamesTo(tree, at) \in Seq(Segment)
  BY <1>1, RestFacts
<1>3. node \in Childless /\ node.uri = name /\ node.data = Empty
  <2>1. node.uri = name /\ node.data = Empty /\ node.size = 0
    OBVIOUS
  <2>2. name \in Names \cup {NoName} /\ Empty \in Data /\ 0 \in Nat
    BY <1>2 DEF Segment
  <2> HIDE DEF name
  <2>3. node \in Node
    BY <2>2 DEF Node
  <2> HIDE DEF node
  <2> QED
    BY <2>1, <2>3 DEF Childless
<1> HIDE DEF node, name
<1>4. tree'[Pushed(tree, at)].uri = name
  <2>1. Pushed(tree, at) \notin DOMAIN tree
    BY <1>2, TreeFacts
  <2>2. PushBack(tree, at, node)[Pushed(tree, at)].uri = node.uri
    BY <1>2, <2>1, PushBackNode
  <2> QED
    BY <1>1, <1>3, <2>2
<1>5. Reaches(tree, at, NamesTo(tree, at))
  BY DEF CacheInv
<1>6. WellFormed(tree')
  BY <1>1, <1>2, <1>3, PushBackWellFormed
<1>7. DOMAIN tree' = DOMAIN tree \cup {Pushed(tree, at)}
  BY <1>1, <1>2, <1>3, PushBackFacts
<1>8. NamesTo(tree', at') = Append(NamesTo(tree, at), name)
  BY <1>1, <1>2, <1>3, PushBackNames
<1>9. Reaches(tree', at', Append(NamesTo(tree, at), name))
  BY <1>1, <1>2, <1>3, <1>5, PushBackNew
<1>10. \A path \in Seq(Segment) : Value(tree', path) = Value(tree, path)
  BY <1>1, <1>2, <1>3, PushBackValue
<1> QED
  BY <1>1, <1>4, <1>6, <1>7, <1>8, <1>9, <1>10 DEF name

-----------------------------------------------------------------------------
LEMMA StepInv == CacheInv /\ [CacheNext]_cacheVars => CacheInv'
<1> SUFFICES ASSUME CacheInv, [CacheNext]_cacheVars
             PROVE  CacheInv'
  OBVIOUS
<1>1. /\ WellFormed(tree) /\ at \in DOMAIN tree /\ Reaches(tree, at, NamesTo(tree, at))
      /\ setting \in BOOLEAN /\ add_missing \in BOOLEAN
      /\ rest \in Seq(Segment) /\ data \in Data /\ result \in Data
  BY DEF CacheInv, CacheTypeOK, Segment
<1>2. ASSUME NEW path \in NodePaths, NEW d \in Data, NEW add \in BOOLEAN,
             LocalSetNode(path, d, add)
      PROVE  CacheInv'
  <2>1. /\ tree' = tree /\ at' = <<>> /\ setting' = TRUE /\ add_missing' = add
        /\ rest' = vectorize_path(path) /\ data' = d /\ result' = result
    BY <1>2 DEF LocalSetNode
  <2>2. at' \in DOMAIN tree' /\ Reaches(tree', at', NamesTo(tree', at'))
    BY <1>1, <2>1, AtRoot
  <2>3. rest' \in Seq(Segment)
    BY <2>1, PathType
  <2> QED
    BY <1>1, <2>1, <2>2, <2>3 DEF CacheInv, CacheTypeOK, Segment
<1>3. ASSUME NEW path \in NodePaths, LocalGetNode(path)
      PROVE  CacheInv'
  <2>1. UNCHANGED <<tree, setting, rest, at, data, add_missing>>
        /\ result' = Value(tree, vectorize_path(path))
    BY <1>3 DEF LocalGetNode, callVars
  <2>2. result' \in Data
    BY <1>1, <2>1, PathType, ValueType
  <2> QED
    BY <1>1, <2>1, <2>2 DEF CacheInv, CacheTypeOK, Segment
<1>4. CASE Descend
  <2>1. /\ Looking /\ rest' = Tail(rest)
        /\ UNCHANGED <<tree, setting, data, add_missing, result>>
    BY <1>4 DEF Descend
  <2>2. at' \in DOMAIN tree' /\ Reaches(tree', at', NamesTo(tree', at'))
    BY <1>4, <2>1, DescendFacts
  <2>3. rest' \in Seq(Segment)
    BY <2>1, RestFacts
  <2> QED
    BY <1>1, <2>1, <2>2, <2>3 DEF CacheInv, CacheTypeOK, Segment
<1>5. ASSUME NEW is_leaf \in BOOLEAN, AddMissingNode(is_leaf)
      PROVE  CacheInv'
  <2>1. /\ Looking /\ rest' = Tail(rest)
        /\ UNCHANGED <<setting, data, add_missing, result>>
    BY <1>5 DEF AddMissingNode, Missing
  <2>2. WellFormed(tree') /\ at' \in DOMAIN tree' /\ Reaches(tree', at', NamesTo(tree', at'))
    BY <1>5, AddFacts
  <2>3. rest' \in Seq(Segment)
    BY <2>1, RestFacts
  <2> QED
    BY <1>1, <2>1, <2>2, <2>3 DEF CacheInv, CacheTypeOK, Segment
<1>6. CASE GiveUp
  <2>1. /\ tree' = tree /\ result' = result /\ setting' = FALSE /\ rest' = <<>>
        /\ at' = <<>> /\ data' = Empty /\ add_missing' = FALSE
    BY <1>6 DEF GiveUp, Return
  <2>2. at' \in DOMAIN tree' /\ Reaches(tree', at', NamesTo(tree', at'))
    BY <1>1, <2>1, AtRoot
  <2>3. rest' \in Seq(Segment)
    BY <2>1, EmptySeq
  <2> QED
    BY <1>1, <2>1, <2>2, <2>3 DEF CacheInv, CacheTypeOK, Segment
<1>7. CASE Assign
  <2>1. /\ tree' = Assigned(tree, at, data) /\ result' = result
        /\ setting' = FALSE /\ rest' = <<>>
        /\ at' = <<>> /\ data' = Empty /\ add_missing' = FALSE
    BY <1>7 DEF Assign, Return, Assigned
  <2>2. WellFormed(tree')
    BY <1>1, <2>1, NamesToFacts, AssignedFacts
  <2>3. at' \in DOMAIN tree' /\ Reaches(tree', at', NamesTo(tree', at'))
    BY <2>1, <2>2, AtRoot
  <2>4. rest' \in Seq(Segment)
    BY <2>1, EmptySeq
  <2> QED
    BY <1>1, <2>1, <2>2, <2>3, <2>4 DEF CacheInv, CacheTypeOK, Segment
<1>8. CASE UNCHANGED cacheVars
  BY <1>1, <1>8 DEF cacheVars, callVars, CacheInv, CacheTypeOK, Segment
<1> QED
  BY <1>2, <1>3, <1>4, <1>5, <1>6, <1>7, <1>8
  DEF CacheNext, SetStep, GetVal, SetVal

(* The node pointer stays in the tree, and the tree a tree.                *)
THEOREM CacheTypeCorrect == CacheSpec => []CacheTypeOK
<1>1. CacheInv => CacheTypeOK
  BY DEF CacheInv
<1> QED
  BY <1>1, InitInv, StepInv, PTL DEF CacheSpec

(* Only a missing name is added, so no added node has a sibling's name.    *)
THEOREM NoDoubletIsAdded == CacheSpec => NoDoubletAdded
<1> DEFINE NoDoublet ==
      \A p \in DOMAIN tree' \ DOMAIN tree, q \in DOMAIN tree :
        q # <<>> /\ Parent(p) = Parent(q) => tree'[p].uri # tree[q].uri
<1>1. CacheInv /\ [CacheNext]_cacheVars => [NoDoublet]_cacheVars
  <2> SUFFICES ASSUME CacheInv, CacheNext
               PROVE  NoDoublet
    OBVIOUS
  <2>1. ASSUME NEW is_leaf \in BOOLEAN, AddMissingNode(is_leaf)
        PROVE  NoDoublet
    <3> SUFFICES ASSUME NEW p \in DOMAIN tree' \ DOMAIN tree, NEW q \in DOMAIN tree,
                        q # <<>>, Parent(p) = Parent(q)
                 PROVE  tree'[p].uri # tree[q].uri
      OBVIOUS
    <3>1. Looking /\ ~HasChild(tree, at, Head(rest))
      BY <2>1 DEF AddMissingNode, Missing
    <3>2. IsTree(tree) /\ at \in DOMAIN tree
      BY <3>1, RestFacts
    <3>3. p = Pushed(tree, at) /\ tree'[p].uri = Head(rest)
      BY <2>1, AddFacts
    <3>4. at \in Address /\ tree[at].size + 1 \in Nat \ {0} /\ Len(at) \in Nat
      BY <3>2, TreeFacts, LenProperties DEF Address
    <3>5. Parent(p) = at
      <4>1. Len(p) = Len(at) + 1
        BY <3>2, <3>3, TreeFacts
      <4>2. Len(p) - 1 = Len(at) /\ Len(at) \in 0 .. Len(at)
        BY <3>4, <4>1
      <4>3. Prefix(p, Len(at)) = Prefix(at, Len(at))
        BY <3>3, <3>4, <4>2, PrefixOfAppend DEF Pushed, Address
      <4> QED
        BY <3>4, <4>2, <4>3, PrefixFull DEF Parent, Address
    <3>6. q \in Address /\ Len(q) \in Nat /\ Len(q) # 0
      BY <3>2, TreeFacts, LenProperties, EmptySeq DEF Address
    <3>7. Len(q) \in 1 .. Len(q) /\ Prefix(q, Len(q)) = q
      BY <3>6, PrefixFull DEF Address
    <3>8. q[Len(q)] \in Positions(tree, at) /\ q = Append(at, q[Len(q)])
      BY <3>2, <3>5, <3>6, <3>7, TreeFacts, PrefixStep DEF Parent, Address
    <3> QED
      BY <3>1, <3>3, <3>8 DEF HasChild, Named
  <2>2. ASSUME DOMAIN tree' = DOMAIN tree
        PROVE  NoDoublet
    BY <2>2
  <2>3. CASE Assign
    <3>1. DOMAIN tree' = DOMAIN tree
      BY <2>3 DEF Assign
    <3> QED
      BY <2>2, <3>1
  <2>4. CASE tree' = tree
    BY <2>2, <2>4
  <2> HIDE DEF NoDoublet
  <2> QED
    BY <2>1, <2>3, <2>4
    DEF CacheNext, SetStep, GetVal, SetVal, Descend, GiveUp, LocalSetNode, LocalGetNode
<1> QED
  BY <1>1, InitInv, StepInv, PTL DEF CacheSpec, NoDoubletAdded

-----------------------------------------------------------------------------
(* The refinement: a set begins and ends as one of PathStore, its walk is  *)
(* a stutter, whatever nodes it adds.                                      *)
Whole == NamesTo(tree, at) \o rest

Pending ==
  IF setting THEN {[path |-> Whole, data |-> data, add |-> add_missing]} ELSE {}

LEMMA PathsType == Paths \subseteq Seq(Segment)
BY PathType DEF Paths

LEMMA WholeOnTheWay ==
  ASSUME CacheInv, Looking, rest' = Tail(rest),
         NamesTo(tree', at') = Append(NamesTo(tree, at), Head(rest))
  PROVE  Whole' = Whole
<1>1. Append(NamesTo(tree, at), Head(rest)) \o Tail(rest) = NamesTo(tree, at) \o rest
  BY RestFacts, AppendHead
<1> QED
  BY <1>1 DEF Whole

LEMMA StoreStep ==
  ASSUME CacheInv, [CacheNext]_cacheVars
  PROVE  \/ ValuesOf(tree)' = ValuesOf(tree) /\ Pending' = Pending /\ result' = result
         \/ Store!StoreNext
<1> DEFINE Stutter ==
      ValuesOf(tree)' = ValuesOf(tree) /\ Pending' = Pending /\ result' = result
<1>1. ASSUME NEW path \in NodePaths, NEW d \in Data, NEW add \in BOOLEAN,
             LocalSetNode(path, d, add)
      PROVE  Store!StoreNext
  <2>1. /\ setting = FALSE /\ setting' = TRUE /\ tree' = tree /\ at' = <<>>
        /\ rest' = vectorize_path(path) /\ data' = d /\ add_missing' = add
        /\ result' = result
    BY <1>1 DEF LocalSetNode, CacheInv, CacheTypeOK
  <2>2. vectorize_path(path) \in Paths /\ vectorize_path(path) \in Seq(Segment)
    BY PathType DEF Paths
  <2>3. Whole' = vectorize_path(path)
    BY <2>1, <2>2, ReachesRoot, ConcatEmptySeq DEF Whole
  <2>4. Pending = {} /\ Pending' = {[path |-> vectorize_path(path), data |-> d, add |-> add]}
    BY <2>1, <2>3 DEF Pending
  <2>5. ValuesOf(tree)' = ValuesOf(tree)
    BY <2>1
  <2>6. Store!Set(vectorize_path(path), d, add)
    BY <2>1, <2>4, <2>5 DEF Store!Set, Pending, Whole
  <2> QED
    BY <2>2, <2>6 DEF Store!StoreNext
<1>2. ASSUME NEW path \in NodePaths, LocalGetNode(path)
      PROVE  Store!StoreNext
  <2>1. /\ setting = FALSE /\ setting' = FALSE /\ tree' = tree
        /\ result' = Value(tree, vectorize_path(path))
    BY <1>2 DEF LocalGetNode, callVars, CacheInv, CacheTypeOK
  <2>2. vectorize_path(path) \in Paths
    BY DEF Paths
  <2>3. result' = ValuesOf(tree)[vectorize_path(path)]
    BY <2>1, <2>2 DEF ValuesOf
  <2>4. Pending = {} /\ Pending' = {} /\ ValuesOf(tree)' = ValuesOf(tree)
    BY <2>1 DEF Pending
  <2>5. Store!Get(vectorize_path(path))
    BY <2>3, <2>4 DEF Store!Get, Pending, Whole
  <2> QED
    BY <2>2, <2>5 DEF Store!StoreNext
<1>3. CASE Descend
  <2>1. /\ Looking /\ rest' = Tail(rest) /\ tree' = tree
        /\ UNCHANGED <<setting, data, add_missing, result>>
    BY <1>3 DEF Descend
  <2>2. Whole' = Whole
    BY <1>3, <2>1, DescendFacts, WholeOnTheWay
  <2>3. Stutter
    BY <2>1, <2>2 DEF Pending
  <2> QED
    BY <2>3
<1>4. ASSUME NEW is_leaf \in BOOLEAN, AddMissingNode(is_leaf)
      PROVE  Stutter
  <2>1. /\ Looking /\ rest' = Tail(rest)
        /\ UNCHANGED <<setting, data, add_missing, result>>
    BY <1>4 DEF AddMissingNode, Missing
  <2>2. Whole' = Whole
    BY <1>4, <2>1, AddFacts, WholeOnTheWay
  <2>3. \A path \in Paths : Value(tree', path) = Value(tree, path)
    BY <1>4, AddFacts, PathsType
  <2>4. ValuesOf(tree)' = ValuesOf(tree)
    BY <2>3 DEF ValuesOf
  <2> QED
    BY <2>1, <2>2, <2>4 DEF Pending
<1>5. CASE GiveUp
  <2>1. /\ setting = TRUE /\ setting' = FALSE /\ tree' = tree /\ result' = result
        /\ add_missing = FALSE
    BY <1>5 DEF GiveUp, Return, Missing, Looking, CacheInv, CacheTypeOK
  <2> DEFINE set == [path |-> Whole, data |-> data, add |-> add_missing]
  <2>2. set \in Pending /\ Pending' = {} /\ ~set.add
    BY <2>1 DEF Pending
  <2>3. ValuesOf(tree)' = ValuesOf(tree)
    BY <2>1
  <2>4. Store!Ignore(set)
    BY <2>1, <2>2, <2>3 DEF Store!Ignore, Pending, Whole
  <2> QED
    BY <2>2, <2>4 DEF Store!StoreNext, Pending, Whole
<1>6. CASE Assign
  <2>1. /\ setting = TRUE /\ setting' = FALSE /\ rest = <<>> /\ result' = result
        /\ tree' = Assigned(tree, at, data)
    BY <1>6 DEF Assign, Return, CacheInv, CacheTypeOK, Assigned
  <2> DEFINE set == [path |-> Whole, data |-> data, add |-> add_missing]
  <2>2. set \in Pending /\ Pending' = {} /\ set.path = Whole /\ set.data = data
    BY <2>1 DEF Pending
  <2>3. /\ WellFormed(tree) /\ at \in DOMAIN tree /\ data \in Data
        /\ NamesTo(tree, at) \in Seq(Segment) /\ Reaches(tree, at, NamesTo(tree, at))
    BY NamesToFacts DEF CacheInv, CacheTypeOK, Segment
  <2>4. Whole = NamesTo(tree, at)
    BY <2>1, <2>3, ConcatEmptySeq DEF Whole
  <2>5. \A path \in Paths :
          Value(tree', path) = IF path = Whole THEN data ELSE Value(tree, path)
    <3>1. Value(tree', NamesTo(tree, at)) = data
      BY <2>1, <2>3, AssignedFacts
    <3>2. \A path \in Seq(Segment) :
            path # NamesTo(tree, at) => Value(tree', path) = Value(tree, path)
      BY <2>1, <2>3, AssignedFacts
    <3> QED
      BY <2>4, <3>1, <3>2, PathsType
  <2>6. ValuesOf(tree)' = [ValuesOf(tree) EXCEPT ![set.path] = set.data]
    BY <2>2, <2>5 DEF ValuesOf
  <2>7. Store!Apply(set)
    BY <2>1, <2>2, <2>6 DEF Store!Apply, Pending, Whole
  <2> QED
    BY <2>2, <2>7 DEF Store!StoreNext, Pending, Whole
<1>7. CASE UNCHANGED cacheVars
  BY <1>7 DEF cacheVars, callVars, Pending, Whole
<1> QED
  BY <1>1, <1>2, <1>3, <1>4, <1>5, <1>6, <1>7
  DEF CacheNext, SetStep, GetVal, SetVal

(* Setting a node changes what is read under its own path and no other,    *)
(* for trees, paths and documents of every size.                           *)
THEOREM CacheImplementsStore == CacheSpec => ImplementsPathStore
<1>1. CacheInit => Store!StoreInit
  BY InitInv DEF CacheInit, NoCall, CacheInv, CacheTypeOK, Store!StoreInit
<1>2. CacheInv /\ [CacheNext]_cacheVars => [Store!StoreNext]_(Store!storeVars)
  BY StoreStep DEF Store!storeVars, Pending, Whole
<1> QED
  BY <1>1, <1>2, InitInv, StepInv, PTL DEF CacheSpec, ImplementsPathStore, Store!StoreSpec
=============================================================================
