------------------------------ MODULE Parsers -------------------------------
(***************************************************************************)
(* What the library is given to read: a DDF file for its two parsers, or a *)
(* string for the functions of Helper: the server's URL of an HGET         *)
(* (CommandQueue.cpp:42), or a node's path (MO_BaseCached.cpp:46, 93).     *)
(***************************************************************************)
EXTENDS DDFParsers

CONSTANTS
  URLs,          (* what an HGET may name as its server's URL              *)
  PathStrings    (* what a node's path may be                              *)

ASSUME StringsAssumption ==
  /\ URLs \subseteq {s \in Seq(Tokens) : IsString(s)}
  /\ PathStrings \subseteq Seq(Names \cup {NoName}) \ {<<>>}

VARIABLES
  url, parts,    (* an URL and what parse_from_string makes of it          *)
  node_path      (* a path, for vectorize_path                             *)

stringVars == <<url, parts, node_path>>
readVars == <<stringVars, parserVars>>

(* An URL or a path is read where there is no file.                        *)
ReadInit ==
  /\ ParserInit
  /\ \/ url = <<>> /\ node_path = <<NoName>>
     \/ file = NoTree /\ url \in URLs /\ node_path = <<NoName>>
     \/ file = NoTree /\ url = <<>> /\ node_path \in PathStrings
  /\ parts = Failed

Parse ==
  /\ url # <<>>
  /\ parts' = parse_from_string(url)
  /\ UNCHANGED <<url, node_path, parserVars>>

ReadNext == Parse \/ (ParserNext /\ UNCHANGED stringVars)

ReadSpec == ReadInit /\ [][ReadNext]_readVars

-----------------------------------------------------------------------------
Free(s, t) == t \notin {s[i] : i \in DOMAIN s}

(* url cut where the server ends, at i, and where the path begins, at j.   *)
(* What stands between the port's number and j is text that stoi ignores.  *)
CutAt(i, j) ==
  /\ i <= j
  /\ parts.server = SubSeq(url, 5, i - 1)
  /\ IF i = j THEN parts.port = "8080"
              ELSE /\ i + 1 < j /\ url[i] = ":" /\ url[i + 1] = parts.port
                   /\ \A k \in i + 2 .. j - 1 : url[k] # "/"
  /\ IF j = Len(url) + 1 THEN parts.path = <<"/">>
                         ELSE url[j] = "/" /\ parts.path = SubSeq(url, j, Len(url))

(* Of an URL that parses nothing is lost or moved between the parts but    *)
(* the text behind the port's number that stoi ignores: the server ends    *)
(* before the first ':' or '/', the number is the one right behind that    *)
(* ':', and the path is all from the first '/' on (Helper.cpp:35-77).      *)
OnlyPortTailIsLost ==
  parts.result = "parses" =>
    /\ SubSeq(url, 1, 4) = <<parts.protocol, ":", "/", "/">>
    /\ Free(parts.server, ":") /\ Free(parts.server, "/")
    /\ \E i, j \in 5 .. Len(url) + 1 : CutAt(i, j)

(* url is written protocol://server[:port][/path], with the server up to i *)
(* and the port, if there is one, up to j.                                 *)
WrittenAt(i, j) ==
  /\ url[1] \in {"http", "https"} /\ url[2] = ":" /\ url[3] = "/" /\ url[4] = "/"
  /\ \A k \in 5 .. i - 1 : url[k] \notin {":", "/"}
  /\ j = i \/ (j = i + 2 /\ url[i] = ":" /\ url[i + 1] \in Numbers)
  /\ j = Len(url) + 1 \/ url[j] = "/"

(* An URL that is written so is read back as it was written, whatever the  *)
(* path holds, a ':' or a second "://" included (Helper.cpp:35-77).        *)
GoodURLsParse ==
  \A i, j \in 5 .. Len(url) + 1 :
    WrittenAt(i, j) =>
      parse_from_string(url) =
        [result   |-> "parses",
         protocol |-> url[1],
         server   |-> SubSeq(url, 5, i - 1),
         port     |-> IF i = j THEN "8080" ELSE url[i + 1],
         path     |-> IF j = Len(url) + 1 THEN <<"/">> ELSE SubSeq(url, j, Len(url))]

(* The two ways the code writes a node's path agree: serialize_children    *)
(* asks get_val for "/DevID", applications set "DevID" (MOHandler.cpp:119, *)
(* Helper.cpp:15-31).  Only segments at the ends are dropped, and none     *)
(* that has a name.                                                        *)
SlashMakesNoDifference ==
  /\ node_path[1] # NoName
       => vectorize_path(<<NoName>> \o node_path) = vectorize_path(node_path)
  /\ \E first \in 1 .. 2, last \in Len(node_path) - 1 .. Len(node_path) :
       /\ vectorize_path(node_path) = SubSeq(node_path, first, last)
       /\ \A i \in DOMAIN node_path : node_path[i] # NoName => i \in first .. last
=============================================================================
