----------------------------- MODULE BaseCached -----------------------------
(***************************************************************************)
(* MO/src/MO_BaseCached.cpp and MO_StaticData.cpp: the node tree of an MO  *)
(* that is a store of values, and the setter and getter that walk it.      *)
(*                                                                         *)
(* A node's address is the sequence of its positions in the children       *)
(* vectors from the root, <<>>, down; tree maps the addresses there are to *)
(* their nodes.  A step below is one iteration of local_set_node's loop.   *)
(***************************************************************************)
EXTENDS DDF, FiniteSets

CONSTANTS
  NodePaths,     (* the node_path strings the application passes           *)
  Files,         (* what the DDF file may hold                             *)
  MaxNodes       (* bound: nodes in the tree                               *)

ASSUME CacheAssumption ==
  /\ NodePaths \subseteq Seq(Names \cup {NoName}) \ {<<>>}
  /\ \A x \in Files : IsDocument(x)
  /\ MaxNodes \in Nat

VARIABLES
  tree,          (* root and all below it                                  *)
  setting,       (* a local_set_node is running                            *)
  rest,          (* its path: the segments still to descend                *)
  at,            (* its node pointer                                       *)
  data,          (* its parameters                                         *)
  add_missing,
  result         (* what local_get_node last returned                      *)

callVars == <<setting, rest, at, data, add_missing>>
cacheVars == <<tree, callVars, result>>

Paths == {vectorize_path(path) : path \in NodePaths}

-----------------------------------------------------------------------------
InitialTrees == {CacheTree(x) : x \in Files}

NoCall == /\ setting = FALSE /\ rest = <<>> /\ at = <<>>
          /\ data = Empty /\ add_missing = FALSE

CacheInit ==
  /\ tree \in InitialTrees
  /\ NoCall
  /\ result = Empty

(* The bound leaves room for every node the call may add.                  *)
LocalSetNode(node_path, d, add_missing_node) ==
  /\ ~setting
  /\ Cardinality(DOMAIN tree) + Len(vectorize_path(node_path)) <= MaxNodes
  /\ setting' = TRUE
  /\ rest' = vectorize_path(node_path) /\ at' = <<>>
  /\ data' = d /\ add_missing' = add_missing_node
  /\ UNCHANGED <<tree, result>>

Return ==
  /\ setting' = FALSE /\ rest' = <<>> /\ at' = <<>>
  /\ data' = Empty /\ add_missing' = FALSE

Looking == setting /\ rest # <<>>

Missing == Looking /\ ~HasChild(tree, at, Head(rest))

Descend ==
  /\ Looking /\ HasChild(tree, at, Head(rest))
  /\ at' = Child(tree, at, Head(rest))
  /\ rest' = Tail(rest)
  /\ UNCHANGED <<tree, setting, data, add_missing, result>>

(* Mutant: node_it is end(), not end() - 1.                                *)
AddMissingNodeEnd(is_leaf) ==
  /\ Missing /\ add_missing
  /\ tree' = PushBack(tree, at, [uri |-> Head(rest), is_leaf |-> is_leaf,
                                 data |-> Empty, size |-> 0])
  /\ at' = Append(at, tree[at].size + 2)
  /\ rest' = Tail(rest)
  /\ UNCHANGED <<setting, data, add_missing, result>>

(* Mutant: every node added on the way gets the data, not the last one.    *)
AddMissingNodeFilled(is_leaf) ==
  /\ Missing /\ add_missing
  /\ tree' = PushBack(tree, at, [uri |-> Head(rest), is_leaf |-> is_leaf,
                                 data |-> data, size |-> 0])
  /\ at' = Pushed(tree, at)
  /\ rest' = Tail(rest)
  /\ UNCHANGED <<setting, data, add_missing, result>>

(* temp_node.is_leaf is never assigned: it is whatever memory held.        *)
AddMissingNode(is_leaf) ==
  /\ Missing /\ add_missing
  /\ tree' = PushBack(tree, at, [uri |-> Head(rest), is_leaf |-> is_leaf,
                                 data |-> Empty, size |-> 0])
  /\ at' = Pushed(tree, at)
  /\ rest' = Tail(rest)
  /\ UNCHANGED <<setting, data, add_missing, result>>

GiveUp ==
  /\ Missing /\ ~add_missing
  /\ Return
  /\ UNCHANGED <<tree, result>>

Assign ==
  /\ setting /\ rest = <<>>
  /\ tree' = [tree EXCEPT ![at].data = data]
  /\ Return
  /\ UNCHANGED result

LocalGetNode(node_path) ==
  /\ ~setting
  /\ result' = Value(tree, vectorize_path(node_path))
  /\ UNCHANGED <<tree, callVars>>

(* StaticData: get_val is local_get_node, set_val is local_set_node with   *)
(* add_missing_node.                                                       *)
GetVal(node_path) == LocalGetNode(node_path)
SetVal(node_path, d) == LocalSetNode(node_path, d, TRUE)

SetStep ==
  Descend \/ (\E is_leaf \in BOOLEAN : AddMissingNode(is_leaf)) \/ GiveUp \/ Assign

CacheNext ==
  \/ SetStep
  \/ \E path \in NodePaths :
       \/ GetVal(path)
       \/ \E d \in Data : SetVal(path, d) \/ LocalSetNode(path, d, FALSE)

CacheSpec == CacheInit /\ [][CacheNext]_cacheVars

-----------------------------------------------------------------------------
(* serialize_json: children of the same name overwrite each other in the   *)
(* JSON object, so the last one counts; a leaf's children are left out, and *)
(* so is the data of a node that is not a leaf.                            *)
Last(S) == CHOOSE i \in S : \A j \in S : j <= i

Serialises(t, p, path) ==
  /\ Len(p) = Len(path)
  /\ \A i \in 1 .. Len(path) :
       LET above == Prefix(p, i - 1)
           here  == Prefix(p, i)
       IN  /\ HasChild(t, above, path[i])
           /\ here = Append(above, Last(Named(t, above, path[i])))
           /\ t[here].is_leaf <=> i = Len(path)

Serialised(t, path) ==
  IF \E p \in DOMAIN t : Serialises(t, p, path)
    THEN t[CHOOSE p \in DOMAIN t : Serialises(t, p, path)].data
    ELSE Empty

-----------------------------------------------------------------------------
(* The node pointer of local_set_node points into the tree, which stays    *)
(* one while nodes are added on the way (MO_BaseCached.cpp:48-66).         *)
CacheTypeOK ==
  /\ WellFormed(tree) /\ at \in DOMAIN tree
  /\ setting \in BOOLEAN /\ add_missing \in BOOLEAN
  /\ rest \in Seq(Names \cup {NoName})
  /\ data \in Data /\ result \in Data

(* A node that local_set_node adds never has the name of a sibling: only   *)
(* the DDF file makes doublets, of which all but the first are out of      *)
(* reach (MO_BaseCached.cpp:50-63).                                        *)
NoDoubletAdded ==
  [][\A p \in DOMAIN tree' \ DOMAIN tree, q \in DOMAIN tree :
       q # <<>> /\ Parent(p) = Parent(q) => tree'[p].uri # tree[q].uri]_cacheVars

(* The tree implements PathStore: setting a node, even one that has to be  *)
(* added with all above it, changes what is read under the path the caller *)
(* gave and under no other, and comes to nothing only when it may not add  *)
(* a node (MO_BaseCached.cpp:43-107).                                      *)
ValuesOf(t) == [path \in Paths |-> Value(t, path)]

Store == INSTANCE PathStore WITH
  Initial <- {ValuesOf(t) : t \in InitialTrees},
  values  <- ValuesOf(tree),
  pending <- IF setting
               THEN {[path |-> NamesTo(tree, at) \o rest, data |-> data,
                      add |-> add_missing]}
               ELSE {}

ImplementsPathStore == Store!StoreSpec

(* MO_BaseCached.cpp:240-244 has serialize_json give the tree's contents.  *)
(* What is_leaf happens to be in an added node decides whether its data,   *)
(* and all below it, are in the JSON object.                               *)
SetIsSerialised ==
  \A path \in Paths \ {<<>>} :
    Value(tree, path) # Empty => Serialised(tree, path) = Value(tree, path)
=============================================================================
