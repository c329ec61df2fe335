------------------------------- MODULE Helper -------------------------------
(***************************************************************************)
(* client/src/Helper.cpp: splitting a node path and taking an URL apart.   *)
(*                                                                         *)
(* A path is the nonempty sequence of its '/'-separated segments, as in    *)
(* MOHandler.  An URL is a sequence of tokens: ":", "/", numbers and       *)
(* words; only the tokens below mean anything to the parser.  A number     *)
(* stands for a whole run of digits, so no two of them are adjacent.       *)
(***************************************************************************)
EXTENDS Integers, Sequences

NoName == ""                  (* the segment before a leading '/'          *)

(* Mutant: the leading '/' is not skipped.                                 *)
vectorize_path_unskipped(path) ==
  IF path[Len(path)] = NoName THEN SubSeq(path, 1, Len(path) - 1) ELSE path

(* A leading '/' is skipped; getline yields no segment after a trailing    *)
(* one, and one empty segment between two in a row.                        *)
vectorize_path(path) ==
  LET rest == IF path[1] = NoName /\ Len(path) > 1 THEN Tail(path) ELSE path
  IN  IF rest[Len(rest)] = NoName THEN SubSeq(rest, 1, Len(rest) - 1) ELSE rest

-----------------------------------------------------------------------------
Numbers == {"80", "9988"}      (* stoi reads them                          *)
TooBig  == {"99999999999"}     (* stoi throws out_of_range                 *)
Words   == {"http", "https", "ftp", "localhost", "-x"}

Tokens == {":", "/"} \cup Numbers \cup TooBig \cup Words

IsString(s) ==
  \A i \in 1 .. Len(s) - 1 : ~({s[i], s[i + 1]} \subseteq Numbers \cup TooBig)

(* find(): the position of the first occurrence, 0 for npos.               *)
Find(s, t) ==
  LET at == {i \in 1 .. Len(s) - Len(t) + 1 : SubSeq(s, i, i + Len(t) - 1) = t}
  IN  IF at = {} THEN 0 ELSE CHOOSE i \in at : \A j \in at : i <= j

Before(s, i) == SubSeq(s, 1, i - 1)

(* stoi reads the run of digits in front and ignores what follows it.      *)
Stoi(s) == IF s # <<>> /\ s[1] \in Numbers THEN s[1] ELSE "throws"

Failed == [result |-> "fails"]
Threw  == [result |-> "throws"]

Protocols == {<<"http">>, <<"https">>}   (* and their spelling in capitals *)

(* Mutant: the port is looked for before the path is cut off.              *)
AuthorityPortFirst(s) ==
  LET colon == Find(s, <<":">>)
      slash == Find(s, <<"/">>)
      host  == IF colon # 0 THEN Before(s, colon) ELSE s
      port  == IF colon = 0 THEN "8080" ELSE Stoi(SubSeq(s, colon + 1, Len(s)))
  IN  [server |-> host, port |-> port,
       path   |-> IF slash = 0 THEN <<"/">> ELSE SubSeq(s, slash, Len(s))]

(* The path is cut off before the port is looked for, so a ':' in it does  *)
(* not count; the port defaults to 8080 for both protocols.                *)
Authority(s) ==
  LET slash == Find(s, <<"/">>)
      auth  == IF slash = 0 THEN s ELSE Before(s, slash)
      colon == Find(auth, <<":">>)
  IN  [server |-> IF colon = 0 THEN auth ELSE Before(auth, colon),
       port   |-> IF colon = 0 THEN "8080"
                  ELSE Stoi(SubSeq(auth, colon + 1, Len(auth))),
       path   |-> IF slash = 0 THEN <<"/">> ELSE SubSeq(s, slash, Len(s))]

parse_from_string(s) ==
  LET delim == Find(s, <<":", "/", "/">>)
      parts == Authority(SubSeq(s, delim + 3, Len(s)))
  IN  CASE delim = 0 \/ Before(s, delim) \notin Protocols -> Failed
        [] parts.port = "throws"                          -> Threw
        [] OTHER -> [result |-> "parses", protocol |-> Before(s, delim)[1],
                     server |-> parts.server, port |-> parts.port,
                     path   |-> parts.path]
=============================================================================
