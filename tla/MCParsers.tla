----------------------------- MODULE MCParsers ------------------------------
(* Parsers for TLC.  The files are every document of up to four elements,  *)
(* with names that repeat or are missing and every DFFormat, contradictory *)
(* ones too; the strings are all up to a length.                           *)
EXTENDS Parsers

CONSTANT MaxTokens         (* bound: segments of a path, and tokens of an  *)
                           (* URL after the scheme                         *)

Shapes ==
  { {<<>>}, {<<>>, <<1>>}, {<<>>, <<1>>, <<2>>}, {<<>>, <<1>>, <<1, 1>>},
    {<<>>, <<1>>, <<2>>, <<3>>}, {<<>>, <<1>>, <<2>>, <<1, 1>>},
    {<<>>, <<1>>, <<2>>, <<2, 1>>}, {<<>>, <<1>>, <<1, 1>>, <<1, 2>>},
    {<<>>, <<1>>, <<1, 1>>, <<1, 1, 1>>} }

Below(S, p) == {i \in 1 .. 3 : Append(p, i) \in S}

(* Values that tell the elements apart.                                    *)
ValueAt(p) == IF p = <<>> THEN Empty ELSE IF p[Len(p)] = 1 THEN "v1" ELSE "v2"

MCNames == {"*", "Ext", "DevID"}

XML(S, name, format) ==
  [p \in S |->
     [name   |-> name[p],
      format |-> format[p],
      value  |-> ValueAt(p),
      size   |-> IF Below(S, p) = {} THEN 0
                 ELSE CHOOSE n \in Below(S, p) : \A i \in Below(S, p) : i <= n]]

(* Whether the root has a DFFormat makes no difference.                    *)
MCFiles ==
  {NoTree} \cup
  UNION {{XML(S, name, format) :
            name   \in {f \in [S -> {"", "Ext", "DevID"}] : f[<<>>] # "DevID"},
            format \in {f \in [S -> {"none", "node", "chr"}] : f[<<>>] = "node"}} :
         S \in Shapes}

-----------------------------------------------------------------------------
Strings(S, n) == UNION {[1 .. k -> S] : k \in 0 .. n}

AllURLs == {<<w, ":", "/", "/">> \o s : w \in {"http", "https", "ftp"},
                                       s \in Strings({":", "/", "9988", "localhost"}, MaxTokens)}
             \cup {<<"http", ":", "/", "/">> \o s : s \in Strings(Tokens, 3)}
             \cup Strings(Tokens, 3)

MCURLs == {s \in AllURLs : IsString(s)}

MCPathStrings == Strings({"", "Ext", "DevID"}, MaxTokens) \ {<<>>}
=============================================================================
