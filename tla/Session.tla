------------------------------ MODULE Session ------------------------------
(***************************************************************************)
(* client/src/Session.cpp: what the client makes of a package 2.  The loop *)
(* of parse_P2 is one step per command of the package; send_P1 and send_P3 *)
(* only supply the text to parse.                                          *)
(***************************************************************************)
EXTENDS CommandQueue

CONSTANTS
  JCommands,     (* entries a "CMD" array may hold                         *)
  Packages       (* packages the server may answer package 1 with          *)

(* An entry has a name, its parameters, and strings = FALSE when it is not *)
(* an array or one of its parameters is not a string.                      *)
JCommandShape == [name    : STRING,
                  server  : ServerURIs \cup {Missing},
                  client  : Uris \cup {Missing},
                  strings : BOOLEAN]

(* Text that parses to an object, whose "CMD" is absent or empty or lists  *)
(* cmds; text that is not JSON; JSON that is not an object.                *)
Array(cmds) == [form |-> "array", cmds |-> cmds]
Unparsable  == [form |-> "unparsable", cmds |-> <<>>]
NotObject   == [form |-> "not_object", cmds |-> <<>>]

PackageShape == [form : {"array", "unparsable", "not_object"},
                 cmds : Seq(JCommands)]

ASSUME SessionAssumption ==
  /\ JCommands \subseteq JCommandShape
  /\ Packages \subseteq PackageShape
  /\ \E end \in JCommands : end.name = "END"

(* Mutant: the reply to a package 3 has no END.                          *)
P3ReplyEmpty == Array(<<>>)

(* What send_P3 returns without sending anything: {"CMD": [["END"]]}.      *)
P3Reply == Array(<<CHOOSE end \in JCommands : end.name = "END">>)

VARIABLES
  p2,                (* what parse_P2 has still to parse                   *)
  session_continue   (* its local variable                                 *)

parseVars == <<p2, session_continue>>

(* Outside parse_P2 its locals do not exist; they rest at these values.    *)
NoLocals == p2 = Array(<<>>) /\ session_continue = FALSE

(* Mutant: session_continue starts as false.                             *)
BeginParseEnded(package) ==
  /\ p2' = package
  /\ session_continue' = FALSE

BeginParse(package) ==
  /\ p2' = package
  /\ session_continue' = TRUE

DropLocals ==
  /\ p2' = Array(<<>>)
  /\ session_continue' = FALSE

Parsing == p2.form = "array" /\ p2.cmds # <<>>

Entry == Head(p2.cmds)

Consume == p2' = [p2 EXCEPT !.cmds = Tail(@)]

(* Mutant: END drops the commands queued before it.                      *)
ParseEndClears ==
  /\ Parsing /\ Entry.name = "END"
  /\ session_continue' = FALSE
  /\ Consume
  /\ commands' = <<>>
  /\ UNCHANGED <<responses, received, executed, answers, reported>>

(* END does not stop the loop: the rest of the package is still queued.    *)
ParseEnd ==
  /\ Parsing /\ Entry.name = "END"
  /\ session_continue' = FALSE
  /\ Consume
  /\ UNCHANGED queueVars

(* Mutant: END is queued like any other command.                         *)
ParseCommandQueuesEnd(session) ==
  /\ Parsing /\ Entry.name \in CommandTypes \cup {"END"} /\ Entry.strings
  /\ PushCommand([type   |-> Entry.name,
                  server |-> Entry.server,
                  client |-> Entry.client], session)
  /\ Consume
  /\ UNCHANGED session_continue

ParseCommand(session) ==
  /\ Parsing /\ Entry.name \in CommandTypes /\ Entry.strings
  /\ PushCommand([type   |-> Entry.name,
                  server |-> Entry.server,
                  client |-> Entry.client], session)
  /\ Consume
  /\ UNCHANGED session_continue

ParseUnknown ==
  /\ Parsing /\ Entry.name \notin CommandTypes \cup {"END"} /\ Entry.strings
  /\ Consume
  /\ UNCHANGED <<queueVars, session_continue>>

(* Only parse errors are caught.  operator[] on what is not an object, and *)
(* the conversion of a parameter to a string, throw a type_error; commands *)
(* queued before it stay queued.                                           *)
ParseThrows ==
  \/ p2.form = "not_object"
  \/ Parsing /\ Entry.name # "END" /\ ~Entry.strings

ParseDone == p2.form = "unparsable" \/ (p2.form = "array" /\ p2.cmds = <<>>)

ParseResult == p2.form = "array" /\ session_continue

-----------------------------------------------------------------------------
ParseTypeOK == p2 \in PackageShape /\ session_continue \in BOOLEAN
=============================================================================
