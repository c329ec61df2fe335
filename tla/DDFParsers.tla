----------------------------- MODULE DDFParsers -----------------------------
(***************************************************************************)
(* One DDF file read twice: by the library, which registers it for a urn,  *)
(* and by the application's object, which the library will ask for the     *)
(* values of the nodes it found.                                           *)
(***************************************************************************)
EXTENDS DDF

CONSTANTS
  Files,         (* what a DDF file may hold                               *)
  UrnNames       (* names urns may give to a root that has none            *)

ASSUME FilesAssumption ==
  /\ \A x \in Files : IsDocument(x)
  /\ UrnNames \subseteq Names \cup {NoName, "throws"}

VARIABLES
  file,
  urn_name,
  registered,    (* register_DDF: "no" call yet, or how it came out        *)
  handler,       (* MOHandler::root and all below it                       *)
  object         (* BaseCached::root and all below it                      *)

parserVars == <<file, urn_name, registered, handler, object>>

ParserInit ==
  /\ file \in Files /\ urn_name \in UrnNames
  /\ registered = "no" /\ handler = NoTree /\ object = NoTree

Register ==
  /\ registered = "no"
  /\ registered' = HandlerParse(file, urn_name)
  /\ handler' = IF registered' = "true" THEN HandlerTree(file, urn_name) ELSE NoTree
  /\ UNCHANGED <<file, urn_name, object>>

Construct ==
  /\ object = NoTree
  /\ object' = CacheTree(file)
  /\ UNCHANGED <<file, urn_name, registered, handler>>

ParserNext == Register \/ Construct

-----------------------------------------------------------------------------
(* Both parsers yield trees, whatever elements a leaf has below it         *)
(* (MOHandler.cpp:249-255, MO_BaseCached.cpp:192-202).                     *)
ParserTypeOK ==
  /\ registered \in {"no", "true", "false", "throws"}
  /\ handler = NoTree \/ WellFormed(handler)
  /\ object = NoTree \/ WellFormed(object)

BothRead == registered = "true" /\ object # NoTree

(* The two copies of the parser find the same leaves under the same names: *)
(* the library asks for every value the object has from the file, and for  *)
(* no other (MOHandler.cpp:218-247, MO_BaseCached.cpp:161-190).            *)
SameLeaves == BothRead => LeafPaths(handler) = LeafPaths(object)

(* Unless siblings share a name, each leaf the library asks an object made *)
(* from the same file for is there, and a fresh object answers with the    *)
(* file's default for it (MOHandler.cpp:117-119, MO_BaseCached.cpp:97-106, *)
(* 193-197).                                                               *)
AskedForIsThere ==
  BothRead /\ NoDoublets(handler) =>
    \A p \in LeavesOf(handler) :
      /\ IsNode(object, NamesTo(handler, p))
      /\ Value(object, NamesTo(handler, p)) = file[p].value
=============================================================================
