---------------------------- MODULE MCBaseCached ----------------------------
(* BaseCached for TLC: DevInfo's DDF file, cut down to a leaf with a       *)
(* default value and an interior node without children, one with two nodes *)
(* of one name, and a file that cannot be read.                            *)
EXTENDS BaseCached

MCNames == {"DevID", "Ext", "P0URL", "DevInfo", "*"}

E(name, format, value, size) ==
  [name |-> name, format |-> format, value |-> value, size |-> size]

Addr == {<<>>, <<1>>, <<2>>}

DevInfo == [p \in Addr |-> CASE p = <<>>  -> E("DevInfo", "node", Empty, 2)
                             [] p = <<1>> -> E("DevID", "chr", CHOOSE d \in Data : d # Empty, 0)
                             [] p = <<2>> -> E("Ext", "node", Empty, 0)]
Doublet == [p \in Addr |-> IF p = <<>> THEN E("DevInfo", "node", Empty, 2)
                                       ELSE E("Ext", "node", Empty, 0)]

MCFiles   == {DevInfo, Doublet, NoTree}
MCDevInfo == {DevInfo}

(* "", "DevID", "/DevID", "Ext/P0URL", "Ext/DevID/", "P0URL" and           *)
(* "P0URL/DevID".                                                          *)
MCNodePaths ==
  { <<"">>, <<"DevID">>, <<"", "DevID">>, <<"Ext", "P0URL">>,
    <<"Ext", "DevID", "">>, <<"P0URL">>, <<"P0URL", "DevID">> }

MCExtPaths == {<<"DevID">>, <<"Ext", "P0URL">>}
=============================================================================
