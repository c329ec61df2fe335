------------------------------ MODULE Package1 ------------------------------
(***************************************************************************)
(* What start_session puts into package 1: the list of the MO instances    *)
(* (p1_MOS_json) and the dump of their contents (dump_serialized_MOS),     *)
(* with the application's objects behind get_val.  The tree is MOTree's;   *)
(* its node trees, and those of the objects, come from DDF files.          *)
(*                                                                         *)
(* The objects are MO::StaticData, or of a class derived from it whose     *)
(* get_val sets node_exists or valid_data to false for some nodes.         *)
(* get_val may have side effects (MO_Interface.h:56): the application has  *)
(* the thread again whenever a leaf is asked for, so an instance is        *)
(* serialised leaf by leaf, and in between the application may act.        *)
(***************************************************************************)
EXTENDS MOTree, DDF

SX == INSTANCE SequencesExt

CONSTANTS
  Files,         (* what a DDF file may hold                               *)
  UrnName,       (* urn -> the name it gives a root that has none          *)
  StringOrder,   (* the segments in the order std::map keeps them          *)
  ObjectFile,    (* object -> the file it was constructed from             *)
  Refused,       (* object -> the nodes its get_val declares not there     *)
  NodePaths,     (* the node_path strings the application passes           *)
  MaxNodes,      (* bound: nodes of an object                              *)
  Reentrant      (* a get_val may register MO types and add objects        *)

ASSUME PackageAssumption ==
  /\ \A x \in Files : IsDocument(x)
  /\ UrnName \in [Urns -> Names \cup {NoName, "throws"}]
  /\ \A x \in Files, urn \in Urns :
       HandlerParse(x, UrnName[urn]) = "true" => HandlerTree(x, UrnName[urn]) \in Trees
  /\ StringOrder \in Seq(Segments)
  /\ \A urn \in Segments : \E i \in DOMAIN StringOrder :
       \A j \in DOMAIN StringOrder : StringOrder[j] = urn <=> i = j
  /\ ObjectFile \in [Mos -> Files]
  /\ NodePaths \subseteq Seq(Names \cup {NoName}) \ {<<>>}
  /\ MaxNodes \in Nat /\ Reentrant \in BOOLEAN

VARIABLES
  objects,       (* object -> BaseCached::root and all below it            *)
  packaging,     (* start_session is at P1_json                            *)
  mos,           (* P1_json["MOS"]                                         *)
  moi,           (* P1_json["MgmtTree"]                                    *)
  current,       (* the instance being serialised, <<>> between two        *)
  got,           (* leaf of its tree -> what get_val came to               *)
  file,          (* history: urn -> the file it was registered with        *)
  last_set,      (* history: object -> what its leaves were last set to    *)
  held           (* history: leaf of the object being serialised -> all it *)
                 (* was last set to since its serialisation began          *)

appVars == <<objects, file, last_set>>
walkVars == <<current, got, held>>
packageVars == <<packaging, mos, moi>>
p1Vars == <<treeVars, appVars, packageVars, walkVars>>

-----------------------------------------------------------------------------
(* The application's objects.  local_set_node, which BaseCached takes      *)
(* apart, in one step; is_leaf of a node it adds is read by nothing here.  *)

SetNode(t, path, data) ==
  LET Walk[i \in 0 .. Len(path)] ==
        IF i = 0 THEN [tree |-> t, at |-> <<>>]
        ELSE LET above == Walk[i - 1]
             IN  IF HasChild(above.tree, above.at, path[i])
                   THEN [above EXCEPT !.at = Child(above.tree, @, path[i])]
                   ELSE [tree |-> PushBack(above.tree, above.at,
                                    [uri |-> path[i], is_leaf |-> TRUE,
                                     data |-> Empty, size |-> 0]),
                         at   |-> Pushed(above.tree, above.at)]
      end == Walk[Len(path)]
  IN  [end.tree EXCEPT ![end.at].data = data]

Defaults(x) ==
  LET t == CacheTree(x)
  IN  [path \in LeafPaths(t) |-> Value(t, path)]

PackageInit ==
  /\ TreeInit
  /\ objects = [mo \in Mos |-> CacheTree(ObjectFile[mo])]
  /\ last_set = [mo \in Mos |-> Defaults(ObjectFile[mo])]
  /\ file = [urn \in Urns |-> NoTree]
  /\ packaging = FALSE /\ mos = <<>> /\ moi = <<>>
  /\ current = <<>> /\ got = <<>> /\ held = <<>>

(* Neither the tree nor the object of an instance ever changes: the copies *)
(* serialize_MIs and serialize_children take of them are as good as they.  *)
Root == MOs[current[1]].root
Object == MOs[current[1]].instance[current[2]]

(* Mutant: a node is taken for a leaf when it has no children.             *)
AskedForBySize(node) == node.size = 0

AskedFor(node) == node.is_leaf

(* The nodes get_val is called for.                                        *)
Asked(t) == {p \in DOMAIN t \ {<<>>} : AskedFor(t[p])}

(* The application has the thread, or has it again in a get_val.           *)
Calls == packaging => current # <<>> /\ Asked(Root) # {}
MayBuild == Calls /\ (packaging => Reentrant)

LocalSetNode(mo, node_path, data, add_missing_node) ==
  LET path == vectorize_path(node_path)
      set  == SetNode(objects[mo], path, data)
  IN  /\ Calls
      /\ add_missing_node \/ IsNode(objects[mo], path)
      /\ Cardinality(DOMAIN set) <= MaxNodes
      /\ objects' = [objects EXCEPT ![mo] = set]
      /\ last_set' = IF path \in DOMAIN last_set[mo]
                       THEN [last_set EXCEPT ![mo][path] = data] ELSE last_set
      /\ held' = IF current # <<>> /\ Object = mo /\ path \in DOMAIN held
                   THEN [held EXCEPT ![path] = @ \cup {data}] ELSE held
      /\ UNCHANGED <<treeVars, file, packageVars, current, got>>

RegisterFile(urn, x) ==
  /\ MayBuild
  /\ HandlerParse(x, UrnName[urn]) = "true"
  /\ RegisterDDF(urn, HandlerTree(x, UrnName[urn]))
  /\ file' = [file EXCEPT ![urn] = x]
  /\ UNCHANGED <<objects, last_set, packageVars, walkVars>>

(* StaticData declares itself compatible with every urn.                   *)
AddObject(urn, mo, miid) ==
  /\ MayBuild
  /\ AddMO(urn, mo, miid, TRUE)
  /\ UNCHANGED <<appVars, packageVars, walkVars>>

-----------------------------------------------------------------------------
(* The walks over the maps.                                                *)

Less(a, b) == \E i, j \in DOMAIN StringOrder :
                i < j /\ StringOrder[i] = a /\ StringOrder[j] = b

Sorted(strings) ==
  CHOOSE s \in [1 .. Cardinality(strings) -> strings] :
    \A i, j \in DOMAIN s : i < j => Less(s[i], s[j])

p1_MOS_json ==
  LET urns == Sorted({urn \in Segments : Registered(urn)})
  IN  [i \in DOMAIN urns |->
         [MOID |-> urns[i], MIID |-> Sorted(Instances(MOs[urns[i]]))]]

(* Mutant: the miids are walked from the last to the first.                *)
AfterMiidsBackwards(mi, other) ==
  Less(other[1], mi[1]) \/ (other[1] = mi[1] /\ Less(mi[2], other[2]))

(* The order the two nested loops of the dump visit the instances in.      *)
After(mi, other) ==
  Less(other[1], mi[1]) \/ (other[1] = mi[1] /\ Less(other[2], mi[2]))

MIs == {mi \in Segments \X Segments : Registered(mi[1]) /\ Has(MOs[mi[1]], mi[2])}

(* The iterators stand at the instance serialised last: what is added to   *)
(* the maps meanwhile is met if it sorts behind it.                        *)
Ahead == {mi \in MIs : moi = <<>> \/ After(mi, moi[Len(moi)].instance)}

-----------------------------------------------------------------------------
(* A JSON object of objects and strings is the function from its paths to  *)
(* the strings; no key at all is null, a string alone has the empty path.  *)

Null == [path \in {} |-> Empty]

String(s) == [path \in {<<>>} |-> s]

(* json_object[key] = value                                                *)
Put(json, key, value) ==
  [path \in {q \in DOMAIN json : q[1] # key} \cup {<<key>> \o q : q \in DOMAIN value} |->
     IF path[1] = key THEN value[Tail(path)] ELSE json[path]]

GetVal(mo, node_path) ==
  LET path == vectorize_path(node_path)
  IN  IF path \in Refused[mo] THEN Null ELSE String(Value(objects[mo], path))

(* Mutant: the prefix is not carried through the recursion.                *)
UriUnprefixed(t, p) == <<NoName, t[p].uri>>

(* uri_prefix + "/" + child.uri                                            *)
Uri(t, p) == <<NoName>> \o NamesTo(t, p)

(* The loop over the children of p, of which the i-th came to values[i].   *)
JSONObject(t, p, values) ==
  LET Upto[i \in 0 .. t[p].size] ==
        IF i = 0 THEN Null
        ELSE IF values[i] = Null THEN Upto[i - 1]
        ELSE Put(Upto[i - 1], t[Append(p, i)].uri, values[i])
  IN  Upto[t[p].size]

(* What it returns when get_val came to answer[p] for each leaf p.         *)
serialize_children(t, answer) ==
  LET Children[p \in DOMAIN t] ==
        JSONObject(t, p,
          [i \in Positions(t, p) |-> IF AskedFor(t[Append(p, i)])
                                       THEN answer[Append(p, i)]
                                       ELSE Children[Append(p, i)]])
  IN  Children[<<>>]

(* The leaves are visited depth first, siblings in their order.            *)
AskedBefore(p, q) ==
  \E n \in DOMAIN p \cap DOMAIN q : Prefix(p, n - 1) = Prefix(q, n - 1) /\ p[n] < q[n]

-----------------------------------------------------------------------------
StartPackage ==
  /\ ~packaging
  /\ packaging' = TRUE
  /\ mos' = p1_MOS_json
  /\ moi' = <<>>
  /\ UNCHANGED <<treeVars, appVars, walkVars>>

(* One round of the loop of serialize_MIs: its start, one get_val of       *)
(* serialize_children, and its end.                                        *)
BeginMI ==
  /\ packaging /\ current = <<>>
  /\ \E mi \in Ahead :
       /\ \A other \in Ahead \ {mi} : After(other, mi)
       /\ current' = mi
       /\ LET last == last_set[MOs[mi[1]].instance[mi[2]]]
          IN  held' = [path \in DOMAIN last |-> {last[path]}]
  /\ UNCHANGED <<treeVars, appVars, packageVars, got>>

ReadLeaf ==
  /\ current # <<>>
  /\ LET unread == Asked(Root) \ DOMAIN got
     IN  \E p \in unread :
           /\ \A q \in unread \ {p} : AskedBefore(p, q)
           /\ got' = [q \in DOMAIN got \cup {p} |->
                        IF q = p THEN GetVal(Object, Uri(Root, p)) ELSE got[q]]
  /\ calls' = calls \cup {<<Object, "get_val">>}
  /\ UNCHANGED <<MOs, accepted, appVars, packageVars, current, held>>

EndMI ==
  /\ current # <<>> /\ DOMAIN got = Asked(Root)
  /\ moi' = Append(moi, [instance |-> current, root |-> Root[<<>>].uri,
                         MOData |-> serialize_children(Root, got)])
  /\ current' = <<>> /\ got' = <<>> /\ held' = <<>>
  /\ UNCHANGED <<treeVars, appVars, packaging, mos>>

Dumped == packaging /\ current = <<>> /\ Ahead = {}

SendP1 ==
  /\ Dumped
  /\ packaging' = FALSE /\ mos' = <<>> /\ moi' = <<>>
  /\ UNCHANGED <<treeVars, appVars, walkVars>>

PackageNext ==
  \/ \E urn \in Urns, x \in Files : RegisterFile(urn, x)
  \/ \E urn \in Urns, mo \in Mos, miid \in UserMiids \cup {NoMiid} :
       AddObject(urn, mo, miid)
  \/ \E mo \in Mos, path \in NodePaths, data \in Data, add \in BOOLEAN :
       LocalSetNode(mo, path, data, add)
  \/ StartPackage \/ BeginMI \/ ReadLeaf \/ EndMI \/ SendP1

PackageSpec == PackageInit /\ [][PackageNext]_p1Vars

-----------------------------------------------------------------------------
(* An instance's data in the dump is JSON of the DDF file's leaves, never  *)
(* of a node that is none (MOHandler.cpp:112-131).                         *)
PackageTypeOK ==
  /\ TreeTypeOK
  /\ \A mo \in Mos : WellFormed(objects[mo])
  /\ packaging \in BOOLEAN
  /\ current # <<>> => current \in MIs /\ DOMAIN got \subseteq Asked(Root)
  /\ \A k \in DOMAIN moi :
       LET paths == LeafPaths(MOs[moi[k].instance[1]].root)
       IN  /\ DOMAIN moi[k].MOData \subseteq paths
           /\ \A path \in DOMAIN moi[k].MOData : moi[k].MOData[path] \in Data

(* The server tells by position alone which instance of the MOS list an    *)
(* entry of the dump belongs to: the k-th is the k-th, and none is missing *)
(* at the end (MOTree.cpp:109-137, MOHandler.cpp:68-101).                  *)
Listed ==
  SX!FlattenSeq([i \in 1 .. Len(mos) |->
                  [j \in 1 .. Len(mos[i].MIID) |-> <<mos[i].MOID, mos[i].MIID[j]>>]])

DumpIsTheListing ==
  /\ packaging => /\ Len(moi) <= Len(Listed)
                  /\ \A k \in DOMAIN moi : moi[k].instance = Listed[k]
  /\ Dumped => Len(moi) = Len(Listed)

(* An instance registered with the file its object was made from is dumped *)
(* with exactly that file's leaves, less those get_val refuses, and with   *)
(* nothing stale: each value is what the leaf was last set to, however the *)
(* application wrote the path, or the file's default, at some moment of    *)
(* the instance's serialisation.  A get_val that sets leaves already asked *)
(* for makes the dump one no single moment had (MOHandler.cpp:112-131,     *)
(* MO_BaseCached.cpp:43-107).                                              *)
ShowsWhatWasSet(entry) ==
  LET h  == MOs[entry.instance[1]]
      mo == h.instance[entry.instance[2]]
  IN  NoDoublets(h.root) /\ file[entry.instance[1]] = ObjectFile[mo] =>
        /\ DOMAIN entry.MOData = DOMAIN last_set[mo] \ Refused[mo]
        /\ \A path \in DOMAIN entry.MOData : entry.MOData[path] \in held[path]

DumpShowsWhatWasSet ==
  [][Len(moi') > Len(moi) => ShowsWhatWasSet(moi'[Len(moi')])]_p1Vars

(* MO_Interface.h:54: get_val "must return the current value of the node   *)
(* specified unless node_exists or valid_data are set to false".           *)
DumpedNodesExist ==
  \A k \in DOMAIN moi :
    \A path \in DOMAIN moi[k].MOData :
      IsNode(objects[MOs[moi[k].instance[1]].instance[moi[k].instance[2]]], path)
=============================================================================
