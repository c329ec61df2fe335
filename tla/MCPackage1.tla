----------------------------- MODULE MCPackage1 -----------------------------
(* Package1 for TLC: two MO types, two objects made from one DDF file, of   *)
(* which one refuses a node, and two other files a type may be registered  *)
(* with: one with two nodes of one name, and one that cannot be read.      *)
EXTENDS Package1

CONSTANTS m1, m2

MCSegments  == {"0", "1", "2", "dmacc", "fumo"}
MCOrder     == <<"0", "1", "2", "dmacc", "fumo">>
MCNumeralOf == [n \in 0 .. 2 |-> MCOrder[n + 1]]
MCNames     == {"*", "DevInfo", "DevID", "Ext", "P0URL", "fumo"}
MCUrnName   == [urn \in Urns |-> IF urn = "fumo" THEN "fumo" ELSE "throws"]

E(name, format, value, size) ==
  [name |-> name, format |-> format, value |-> value, size |-> size]

Addr == {<<>>, <<1>>, <<2>>, <<2, 1>>, <<3>>}

(* DevID, Ext/P0URL, and a node without children; and two Ext, with the    *)
(* leaf below the second.                                                  *)
DevInfo ==
  [p \in Addr |-> CASE p = <<>>    -> E("DevInfo", "node", Empty, 3)
                    [] p = <<1>>   -> E("DevID", "chr", "v1", 0)
                    [] p = <<2>>   -> E("Ext", "node", Empty, 1)
                    [] p = <<2, 1>> -> E("P0URL", "none", Empty, 0)
                    [] p = <<3>>   -> E("", "node", Empty, 0)]
Doublet ==
  [p \in Addr \ {<<3>>} |-> CASE p = <<>> -> E("", "none", Empty, 2)
                              [] p = <<2, 1>> -> E("DevID", "none", Empty, 0)
                              [] OTHER -> E("Ext", "node", Empty, IF p = <<2>> THEN 1 ELSE 0)]

MCFiles == {DevInfo, Doublet, NoTree}

MCTrees == {HandlerTree(x, n) : x \in MCFiles \ {NoTree}, n \in {"fumo"}}

MCObjectFile == [mo \in Mos |-> DevInfo]
MCRefused == [mo \in Mos |-> IF mo = m2 THEN {<<"DevID">>} ELSE {}]

MCNodePaths == {<<"Ext", "P0URL">>, <<"", "Ext", "P0URL">>}
=============================================================================
