----------------------------- MODULE MCHgetTest -----------------------------
(* HgetTest for TLC: main.cpp's tree (one MO type is enough) and the       *)
(* server's one command.                                                   *)
EXTENDS HgetTest

MCSegments   == {"fumo", "0", "1", "apps", "PkgURL"}
MCUrns       == {"fumo"}
MCNumeralOf  == [n \in 0 .. 1 |-> IF n = 0 THEN "0" ELSE "1"]
MCUserMiids  == {"apps"}
MCServerURIs == {"test_hget"}
MCURLParse   == [uri \in MCServerURIs |-> "parses"]
MCUris       == {<<"fumo", "apps", "PkgURL">>}

MCTestCommand == [name |-> "HGET", server |-> "test_hget",
                  client |-> <<"fumo", "apps", "PkgURL">>, strings |-> TRUE]
MCJCommands == {MCTestCommand, [name |-> "END", server |-> Missing,
                                client |-> Missing, strings |-> TRUE]}
MCPackages  == {Array(<<MCTestCommand>>)}
=============================================================================
