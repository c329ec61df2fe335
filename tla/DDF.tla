-------------------------------- MODULE DDF ---------------------------------
(***************************************************************************)
(* The two parsers of DDF files, MOHandler::generate_tree_from_ddf and     *)
(* BaseCached::generate_tree_from_ddf, each with its own copy of           *)
(* generate_node_from_ddf.                                                 *)
(*                                                                         *)
(* A document is the tree of the <Node> elements below <MgmtTree>, laid    *)
(* out like a tree of nodes: size counts an element's <Node> children.  Of *)
(* each element it has the text of <NodeName> ("" when there is none), the *)
(* text of <Value>, and what <DFProperties><DFFormat> holds: "none" when   *)
(* one of the two is missing, "node" for <node/>, "chr" for all others.    *)
(* A file holds finitely many elements.                                    *)
(* NoTree is a file that does not load or has no <MgmtTree><Node>.         *)
(***************************************************************************)
EXTENDS NodeTree, FiniteSets

ASSUME DDFAssumption == "*" \in Names /\ "throws" \notin Names

Element == [name : Names \cup {NoName}, format : {"none", "node", "chr"},
            value : Data, size : Nat]

NoTree == <<>>

IsDocument(x) ==
  \/ x = NoTree
  \/ IsTree(x) /\ IsFiniteSet(DOMAIN x) /\ \A p \in DOMAIN x : x[p] \in Element

(* Mutant: only the parent decides.                                        *)
KeptBelowAbsent(x, leaves) ==
  {p \in DOMAIN x : p # <<>> => Parent(p) \notin leaves}

(* The elements that become nodes: generate_node_from_ddf does not descend *)
(* below a leaf.  The root is never asked whether it is one.               *)
Kept(x, leaves) ==
  {p \in DOMAIN x : \A i \in 1 .. Len(p) - 1 : Prefix(p, i) \notin leaves}

NodeName(element) == IF element.name = NoName THEN "*" ELSE element.name

-----------------------------------------------------------------------------
(* MOHandler's copy.  A root without a name is named after the urn:        *)
(* urn_name is what urn.substr(15) up to the next ':' gives, or "throws"   *)
(* on a urn that is shorter.  root.is_leaf stays unassigned when there are *)
(* no children, and nothing reads it.                                      *)

HandlerLeaves(x) ==
  {p \in DOMAIN x \ {<<>>} :
     x[p].format = "chr" \/ (x[p].format = "none" /\ x[p].size = 0)}

RootName(x, urn_name) == IF x[<<>>].name = NoName THEN urn_name ELSE x[<<>>].name

HandlerParse(x, urn_name) ==
  IF x = NoTree THEN "false"
  ELSE IF RootName(x, urn_name) = "throws" THEN "throws" ELSE "true"

HandlerTree(x, urn_name) ==
  LET leaves == HandlerLeaves(x)
  IN  [p \in Kept(x, leaves) |->
         [uri     |-> IF p = <<>> THEN RootName(x, urn_name) ELSE NodeName(x[p]),
          is_leaf |-> p \in leaves,
          data    |-> Empty,
          size    |-> IF p \in leaves THEN 0 ELSE x[p].size]]

-----------------------------------------------------------------------------
(* BaseCached's copy, which is the constructor: a file it cannot read      *)
(* leaves the root alone.  A leaf gets the file's default value.           *)

(* Mutant: DFFormat is not looked at.                                      *)
CacheLeavesByChildren(x) == {p \in DOMAIN x \ {<<>>} : x[p].size = 0}

CacheLeaves(x) ==
  {p \in DOMAIN x \ {<<>>} :
     IF x[p].format = "none" THEN x[p].size = 0 ELSE x[p].format # "node"}

RootOnly == [p \in {<<>>} |-> [uri |-> NoName, is_leaf |-> TRUE, data |-> Empty,
                               size |-> 0]]

(* Mutant: a leaf's default is not read.                                   *)
CacheTreeBlank(x) ==
  IF x = NoTree THEN RootOnly
  ELSE LET leaves == CacheLeaves(x)
       IN  [p \in Kept(x, leaves) |->
              [uri     |-> IF p = <<>> THEN NoName ELSE NodeName(x[p]),
               is_leaf |-> p \in leaves \/ (p = <<>> /\ x[p].size = 0),
               data    |-> Empty,
               size    |-> IF p \in leaves THEN 0 ELSE x[p].size]]

CacheTree(x) ==
  IF x = NoTree THEN RootOnly
  ELSE LET leaves == CacheLeaves(x)
       IN  [p \in Kept(x, leaves) |->
              [uri     |-> IF p = <<>> THEN NoName ELSE NodeName(x[p]),
               is_leaf |-> p \in leaves \/ (p = <<>> /\ x[p].size = 0),
               data    |-> IF p \in leaves THEN x[p].value ELSE Empty,
               size    |-> IF p \in leaves THEN 0 ELSE x[p].size]]

-----------------------------------------------------------------------------
(* The leaves of a parsed file, by name.                                   *)
LeavesOf(t) == {p \in DOMAIN t : p # <<>> /\ t[p].is_leaf}

LeafPaths(t) == {NamesTo(t, p) : p \in LeavesOf(t)}
=============================================================================
