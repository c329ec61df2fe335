---------------------------- MODULE CommandQueue ----------------------------
(***************************************************************************)
(* client/src/CommandQueue.cpp: the queue of commands parsed from the      *)
(* server's packages, their execution, and the queue of statuses for the   *)
(* next package 3.  A step below is one iteration of do_commands' loop, or *)
(* one call of push_command or p3_SC_json.                                 *)
(***************************************************************************)
EXTENDS MOTree

CONSTANTS
  ServerURIs,    (* first HGET parameter: where to download from           *)
  URLParse,      (* what URL::parse_from_string does with each             *)
  Uris,          (* second HGET parameter: where the data goes             *)
  Missing        (* a parameter the command does not have                  *)

ASSUME QueueAssumption ==
  /\ URLParse \in [ServerURIs -> {"parses", "fails", "throws"}]
  /\ Uris \subseteq Seq(Segments) \ {<<>>}
  /\ Missing \notin ServerURIs /\ Missing \notin Uris

(* END is consumed while parsing and never queued.                         *)
CommandTypes == {"CONT", "HGET", "HPUT", "HPOST", "DELETE", "EXEC", "GET",
                 "SHOW", "DEFAULT", "SUB", "UNSUB"}

Bodies == {"utf8", "not_utf8"}

Commands == [type   : CommandTypes,
             server : ServerURIs \cup {Missing},
             client : Uris \cup {Missing}]

VARIABLES
  commands,      (* deque<Command>                                         *)
  responses,     (* deque<Status>, by status code                          *)
  received,      (* history: every command pushed, with its session        *)
  executed,      (* history: how many of them have been popped             *)
  answers,       (* history: every status pushed, with the command it      *)
                 (* answers and whether it is of data that was for an      *)
                 (* instance in the tree and that node_set did not store   *)
  reported       (* history: how many of them went into a package 3        *)

queueVars == <<commands, responses, received, executed, answers, reported>>

QueueInit ==
  /\ commands = <<>> /\ responses = <<>>
  /\ received = <<>> /\ executed = 0
  /\ answers = <<>>  /\ reported = 0

PushCommand(command, session) ==
  /\ commands' = Append(commands, command)
  /\ received' = Append(received, [cmd |-> command, session |-> session])
  /\ UNCHANGED <<responses, executed, answers, reported>>

-----------------------------------------------------------------------------
(* One iteration of do_commands: front(), the switch, pop_front().         *)

(* Mutant: pop_back() for pop_front().                                   *)
PopBack ==
  /\ commands' = SubSeq(commands, 1, Len(commands) - 1)
  /\ executed' = executed + 1
  /\ UNCHANGED <<received, reported>>

PopFront ==
  /\ commands' = Tail(commands)
  /\ executed' = executed + 1
  /\ UNCHANGED <<received, reported>>

Respond(code) ==
  /\ responses' = Append(responses, code)
  /\ answers' = Append(answers, [cmd |-> executed + 1, code |-> code])

NoResponse == UNCHANGED <<responses, answers>>

Front == Head(commands)

IsHget == commands # <<>> /\ Front.type = "HGET"

(* params[1] of a command with one parameter reads past the vector: when   *)
(* that survives, the string is any string.                                *)
HgetTargets(command) ==
  IF command.client = Missing THEN Uris ELSE {command.client}

(* Mutant: an unsupported command is dropped.                            *)
DoUnsupportedSilently ==
  /\ commands # <<>> /\ Front.type # "HGET"
  /\ NoResponse
  /\ PopFront

(* Every command but HGET.                                                 *)
DoUnsupported ==
  /\ commands # <<>> /\ Front.type # "HGET"
  /\ Respond(501)
  /\ PopFront

(* do_hget's silent returns: an URL it cannot parse, no connection.        *)
HgetBadUrl ==
  /\ IsHget /\ Front.server # Missing
  /\ URLParse[Front.server] = "fails"
  /\ NoResponse
  /\ PopFront

Downloads == /\ IsHget /\ Front.server # Missing
             /\ URLParse[Front.server] = "parses"

HgetNoConnection ==
  /\ Downloads
  /\ NoResponse
  /\ PopFront

(* The download succeeds, whatever its HTTP status; node_set's result is   *)
(* ignored.                                                                *)
HgetDownloaded(uri, body) ==
  /\ Downloads /\ uri \in HgetTargets(Front)
  /\ NodeSet(uri, body) # "throws"
  /\ Respond(200)
  /\ PopFront

(* Mutant: the status is pushed before node_set is called.               *)
HgetThrowsAnswered ==
  /\ Downloads
  /\ \E uri \in HgetTargets(Front), body \in Bodies :
       NodeSet(uri, body) = "throws"
  /\ Respond(200)
  /\ UNCHANGED <<commands, received, executed, reported>>

(* An exception leaves do_commands before pop_front: stoi on the port,     *)
(* node_set, or the copy of a string that is not there.                    *)
HgetThrows ==
  /\ IsHget /\ Front.server # Missing
  /\ \/ URLParse[Front.server] = "throws"
     \/ Downloads /\ Front.client = Missing
     \/ Downloads /\ \E uri \in HgetTargets(Front), body \in Bodies :
                       NodeSet(uri, body) = "throws"
  /\ UNCHANGED queueVars

(* params[0] of an empty vector, or params[1] of a short one, kills the    *)
(* process.                                                                *)
HgetCrashes ==
  /\ IsHget
  /\ Front.server = Missing \/ (Downloads /\ Front.client = Missing)
  /\ UNCHANGED queueVars

DoCommand ==
  \/ DoUnsupported
  \/ HgetBadUrl
  \/ HgetNoConnection
  \/ \E uri \in Uris, body \in Bodies : HgetDownloaded(uri, body)

(* Mutant: do_commands stops before the queue is empty.                  *)
DoCommandsOnce == TRUE

(* do_commands returns when the queue is empty.                            *)
DoCommandsDone == commands = <<>>

(* p3_SC_json serialises and empties the responses.                        *)
DrainResponses ==
  /\ responses' = <<>>
  /\ reported' = Len(answers)
  /\ UNCHANGED <<commands, received, executed, answers>>

-----------------------------------------------------------------------------
Received == [cmd : Commands, session : Nat]
Answers  == [cmd : Nat, code : {200, 501}]

QueueTypeOK ==
  /\ commands \in Seq(Commands) /\ responses \in Seq({200, 501})
  /\ received \in Seq(Received) /\ executed \in Nat
  /\ answers \in Seq(Answers)   /\ reported \in Nat

(* The two deques are exactly what has been pushed and not yet popped, in  *)
(* order: nothing is lost, repeated or overtaken by a parse error, an END, *)
(* an exception or a later session (CommandQueue.cpp:18-20, 24-38, 83-92). *)
QueuesAreFifo ==
  /\ Len(commands) = Len(received) - executed
  /\ \A i \in DOMAIN commands : commands[i] = received[executed + i].cmd
  /\ Len(responses) = Len(answers) - reported
  /\ \A i \in DOMAIN responses : responses[i] = answers[reported + i].code

(* Each command is answered at most once, in the order of the commands,    *)
(* even when an exception makes do_commands start it again in a later      *)
(* session (CommandQueue.cpp:24-38, 75-76).                                *)
AnsweredOnceInOrder ==
  /\ \A k \in DOMAIN answers : answers[k].cmd \in 1 .. executed
  /\ \A j, k \in DOMAIN answers : j < k => answers[j].cmd < answers[k].cmd

(* Only an HGET may be executed without a status (CommandQueue.cpp:42-45,  *)
(* 68-71): every other executed command has its 501.                       *)
OnlyHgetIsSilent ==
  \A i \in 1 .. executed :
    received[i].cmd.type # "HGET"
      => \E k \in DOMAIN answers : answers[k].cmd = i /\ answers[k].code = 501
=============================================================================
