------------------------------ MODULE NodeTree ------------------------------
(***************************************************************************)
(* The trees of nodes MO_BaseCached and MOHandler keep, and the walk both  *)
(* make along a path.  A node's address is the sequence of its positions   *)
(* in the children vectors from the root, <<>>, down; a tree maps the      *)
(* addresses there are to nodes, size being that of the children vector.   *)
(***************************************************************************)
EXTENDS Helper

CONSTANTS
  Names,         (* node names                                             *)
  Data, Empty    (* node data, and the empty string among them             *)

ASSUME NodeAssumption == Empty \in Data /\ NoName \notin Names

Node == [uri : Names \cup {NoName}, is_leaf : BOOLEAN, data : Data, size : Nat]

Address == Seq(Nat \ {0})

Prefix(s, n) == SubSeq(s, 1, n)

Positions(t, p) == 1 .. t[p].size

Named(t, p, segment) == {i \in Positions(t, p) : t[Append(p, i)].uri = segment}

First(S) == CHOOSE i \in S : \A j \in S : i <= j

(* Mutant: the root's children are not searched.                           *)
HasChildTop(t, p, segment) == p # <<>> /\ Named(t, p, segment) # {}

HasChild(t, p, segment) == Named(t, p, segment) # {}

(* find_if: the first child of that name.                                  *)
Child(t, p, segment) == Append(p, First(Named(t, p, segment)))

(* push_back: the new node is the last child.                              *)
Pushed(t, p) == Append(p, t[p].size + 1)

PushBack(t, p, node) ==
  [q \in DOMAIN t \cup {Pushed(t, p)} |->
     CASE q = Pushed(t, p) -> node
       [] q = p            -> [t[p] EXCEPT !.size = @ + 1]
       [] OTHER            -> t[q]]

(* The address local_get_node walks to.                                    *)
Reaches(t, p, path) ==
  /\ Len(p) = Len(path)
  /\ \A i \in 1 .. Len(path) :
       /\ HasChild(t, Prefix(p, i - 1), path[i])
       /\ Prefix(p, i) = Child(t, Prefix(p, i - 1), path[i])

IsNode(t, path) == \E p \in DOMAIN t : Reaches(t, p, path)

Value(t, path) ==
  IF IsNode(t, path) THEN t[CHOOSE p \in DOMAIN t : Reaches(t, p, path)].data
                     ELSE Empty

Parent(p) == Prefix(p, Len(p) - 1)

(* The names on the way to an address.                                     *)
NamesTo(t, p) == [i \in 1 .. Len(p) |-> t[Prefix(p, i)].uri]

-----------------------------------------------------------------------------
(* What makes it a tree: an address leads from the root over nodes, each   *)
(* at one of the positions of the one above, and every position holds one. *)
IsTree(t) ==
  /\ DOMAIN t \subseteq Address /\ <<>> \in DOMAIN t
  /\ \A p \in DOMAIN t :
       /\ t[p].size \in Nat
       /\ \A i \in 1 .. Len(p) :
            /\ Prefix(p, i - 1) \in DOMAIN t
            /\ p[i] \in Positions(t, Prefix(p, i - 1))
       /\ \A i \in Positions(t, p) : Append(p, i) \in DOMAIN t

WellFormed(t) == IsTree(t) /\ \A p \in DOMAIN t : t[p] \in Node

(* No two siblings of one name.                                            *)
NoDoublets(t) ==
  \A p \in DOMAIN t : \A i, j \in Positions(t, p) :
    t[Append(p, i)].uri = t[Append(p, j)].uri => i = j
=============================================================================
