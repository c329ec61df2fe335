----------------------------- MODULE MCDMClient -----------------------------
(* Instances of DMClient for TLC: one MO type, the commands that take each *)
(* branch of parse_P2 and do_commands, packages of up to MaxPackage of     *)
(* them.                                                                   *)
EXTENDS DMClient

CONSTANT MaxPackage        (* bound: entries of one package 2              *)

MCSegments   == {"fumo", "0", "1", "apps", "PkgURL"}
MCUrns       == {"fumo"}
MCNumeralOf  == [n \in 0 .. 1 |-> IF n = 0 THEN "0" ELSE "1"]
MCUserMiids  == {"apps"}
MCServerURIs == {"good", "scheme", "port"}
MCURLParse   == [uri \in MCServerURIs |->
                   CASE uri = "good"   -> "parses"
                     [] uri = "scheme" -> "fails"
                     [] uri = "port"   -> "throws"]

Node     == <<"fumo", "apps", "PkgURL">>
Instance == <<"fumo", "apps">>
MCUris   == {Node, Instance}

JC(name, server, client, strings) ==
  [name |-> name, server |-> server, client |-> client, strings |-> strings]

MCJCommands ==
  { JC("END",  Missing,  Missing,  TRUE),
    JC("GET",  Missing,  Missing,  TRUE),
    JC("HGET", "good",   Node,     TRUE),
    JC("HGET", "good",   Instance, TRUE),
    JC("HGET", "good",   Missing,  TRUE),
    JC("HGET", Missing,  Missing,  TRUE),
    JC("HGET", "scheme", Node,     TRUE),
    JC("HGET", "port",   Node,     TRUE),
    JC("PING", Missing,  Missing,  TRUE),
    JC("PING", Missing,  Missing,  FALSE) }

(* For longer packages: all but the entry that leaves the queues as they   *)
(* are, and the HGET that is dropped like one that finds no connection.    *)
MCFewJCommands == MCJCommands \ {JC("PING", Missing,  Missing, TRUE),
                                 JC("HGET", "scheme", Node,    TRUE)}

MCPackages ==
  {Array(cmds) : cmds \in UNION {[1 .. n -> JCommands] : n \in 0 .. MaxPackage}}
    \cup {Unparsable, NotObject}
=============================================================================
