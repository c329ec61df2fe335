------------------------------ MODULE DMClient ------------------------------
(***************************************************************************)
(* client/src/DMClient.cpp: the client that owns the tree, the two queues  *)
(* and the session, and runs management sessions one at a time.            *)
(*                                                                         *)
(* phase is where start_session stands: Idle outside of it, P1 waiting for *)
(* the answer to package 1, P2 inside parse_P2, Commands inside            *)
(* do_commands.  Dead is a process that has ended.  An exception leaves    *)
(* start_session: the application catches it (Idle) or does not (Dead).    *)
(***************************************************************************)
EXTENDS Session, AlertQueue

CONSTANT MaxSessions       (* bound: calls of start_session                *)

ASSUME ClientAssumption == MaxSessions \in Nat

VARIABLES
  phase,
  alert_queue,
  P1_dump_tree,
  session,       (* history: how many sessions were started                *)
  p3_sent,       (* history: this session got as far as a package 3        *)
  completed,     (* history: sessions that ended with the END after it     *)
  p1_alerts,     (* history: the alerts in each session's package 1        *)
  p3_alerts      (* history: the alerts in all packages 3                  *)

clientVars == <<alert_queue, P1_dump_tree, session, p3_sent, completed,
                p1_alerts, p3_alerts>>

vars == <<treeVars, queueVars, parseVars, phase, clientVars>>

(* P1_dump_tree is never initialised: it is whatever memory held.          *)
Init ==
  /\ TreeInit /\ QueueInit /\ NoLocals
  /\ phase = "Idle"
  /\ P1_dump_tree \in BOOLEAN
  /\ alert_queue = <<>>
  /\ session = 0 /\ p3_sent = FALSE /\ completed = {}
  /\ p1_alerts = <<>> /\ p3_alerts = {}

-----------------------------------------------------------------------------
(* The application, between sessions.                                      *)

BuildTree ==
  /\ phase = "Idle"
  /\ TreeNext
  /\ UNCHANGED <<queueVars, parseVars, phase, clientVars>>

SetP1DumpTree(enable) ==
  /\ phase = "Idle"
  /\ P1_dump_tree' = enable
  /\ UNCHANGED <<treeVars, queueVars, parseVars, phase, alert_queue, session,
                 p3_sent, completed, p1_alerts, p3_alerts>>

Escapes == phase' \in {"Idle", "Dead"} /\ DropLocals

(* Objects whose get_val the dump of the tree calls.                       *)
Dumped ==
  {mo \in Mos : P1_dump_tree /\
     \E urn, miid \in Segments : Registered(urn) /\ MOs[urn].instance[miid] = mo}

(* Up to the post of package 1: add the alert, package the alerts, list    *)
(* the MO types, dump the tree.  Text that is not UTF-8, be it an urn, a   *)
(* miid or a value, makes the serialisation throw, after the alerts were   *)
(* marked.                                                                 *)
StartSession(type) ==
  /\ phase = "Idle" /\ session < MaxSessions
  /\ LET queue == AddAlert(alert_queue, Alert(type))
     IN  /\ p1_alerts' = Append(p1_alerts, PackagedAlerts(queue))
         /\ alert_queue' = AfterPackaging(queue)
  /\ calls' = calls \cup {<<mo, "get_val">> : mo \in Dumped}
  /\ session' = session + 1
  /\ p3_sent' = FALSE
  /\ \/ phase' = "P1" /\ UNCHANGED parseVars
     \/ (\E urn \in Segments : Registered(urn)) /\ Escapes
  /\ UNCHANGED <<MOs, accepted, queueVars, P1_dump_tree, completed, p3_alerts>>

-----------------------------------------------------------------------------
(* The session.  A failed post gives parse_P2 the empty string.            *)

ReceiveP2(package) ==
  /\ phase = "P1"
  /\ phase' = "P2"
  /\ BeginParse(package)
  /\ UNCHANGED <<treeVars, queueVars, clientVars>>

P1Lost == ReceiveP2(Unparsable)

ParseStep ==
  /\ phase = "P2"
  /\ ParseEnd \/ ParseCommand(session) \/ ParseUnknown
  /\ UNCHANGED <<treeVars, phase, clientVars>>

ParseAborts ==
  /\ phase = "P2" /\ ParseThrows
  /\ Escapes
  /\ UNCHANGED <<treeVars, queueVars, clientVars>>

(* parse_P2 returns: into the loop's body, or out of start_session.        *)
ParseContinues ==
  /\ phase = "P2" /\ ParseDone /\ ParseResult
  /\ phase' = "Commands"
  /\ DropLocals
  /\ UNCHANGED <<treeVars, queueVars, clientVars>>

SessionEnds ==
  /\ phase = "P2" /\ ParseDone /\ ~ParseResult
  /\ phase' = "Idle"
  /\ DropLocals
  /\ completed' = IF p3_sent THEN completed \cup {session} ELSE completed
  /\ UNCHANGED <<treeVars, queueVars, alert_queue, P1_dump_tree, session,
                 p3_sent, p1_alerts, p3_alerts>>

RunCommand ==
  /\ phase = "Commands" /\ DoCommand
  /\ UNCHANGED <<treeVars, parseVars, phase, clientVars>>

CommandThrows ==
  /\ phase = "Commands" /\ HgetThrows
  /\ Escapes
  /\ UNCHANGED <<treeVars, clientVars>>

CommandCrashes ==
  /\ phase = "Commands" /\ HgetCrashes
  /\ phase' = "Dead"
  /\ UNCHANGED <<treeVars, parseVars, clientVars>>

(* do_commands is done: package 3 is built, handed to send_P3, which drops *)
(* it, and its reply is parsed.                                            *)
SendP3 ==
  /\ phase = "Commands" /\ DoCommandsDone
  /\ DrainResponses
  /\ p3_alerts' = p3_alerts \cup PackagedAlerts(alert_queue)
  /\ alert_queue' = AfterPackaging(alert_queue)
  /\ p3_sent' = TRUE
  /\ phase' = "P2"
  /\ BeginParse(P3Reply)
  /\ UNCHANGED <<treeVars, P1_dump_tree, session, completed, p1_alerts>>

(* Everything start_session does once package 1 is on its way.             *)
SessionStep ==
  \/ \E package \in Packages : ReceiveP2(package)
  \/ P1Lost
  \/ ParseStep \/ ParseAborts \/ ParseContinues \/ SessionEnds
  \/ RunCommand \/ CommandThrows \/ CommandCrashes
  \/ SendP3

Application ==
  \/ BuildTree
  \/ \E enable \in BOOLEAN : SetP1DumpTree(enable)
  \/ \E type \in AlertTypes : StartSession(type)

Next == SessionStep \/ Application

Spec == Init /\ [][Next]_vars

(* start_session runs on the caller's thread and its HTTP calls time out.  *)
FairSpec == Spec /\ WF_vars(SessionStep)

-----------------------------------------------------------------------------
InSession == phase \in {"P1", "P2", "Commands"}

TypeOK ==
  /\ TreeTypeOK /\ QueueTypeOK /\ ParseTypeOK
  /\ phase \in {"Idle", "P1", "P2", "Commands", "Dead"}
  /\ alert_queue \in Seq(Alerts)
  /\ P1_dump_tree \in BOOLEAN /\ p3_sent \in BOOLEAN
  /\ session \in Nat /\ completed \subseteq Nat
  /\ p1_alerts \in Seq(SUBSET Nat) /\ p3_alerts \subseteq Nat

(* Package 1 of a session carries the alert of that session and no other,  *)
(* and no package 3 carries any: an alert is packaged once, even when the  *)
(* session that packaged it failed (AlertQueue.cpp:15-26,                  *)
(* DMClient.cpp:29-37, 51).                                                *)
AlertPackagedOnce ==
  /\ \A s \in DOMAIN p1_alerts : p1_alerts[s] = {s}
  /\ p3_alerts = {}

(* A session that ended with the END after its package 3 has executed all  *)
(* it received and put every status into a package 3: what later sessions  *)
(* find in the queues was left by sessions cut short by an END, a parse    *)
(* error or an exception (DMClient.cpp:47-53, Session.cpp:64-68).          *)
CompletedLeavesNothing ==
  \A s \in completed :
    /\ \A i \in DOMAIN received : received[i].session = s => i <= executed
    /\ \A k \in DOMAIN answers :
         received[answers[k].cmd].session = s => k <= reported

(* The client implements ManagementSession: whatever the parser, the       *)
(* network, exceptions and the application do, the two deques only change  *)
(* as a backlog of commands and a list of statuses may (CommandQueue.cpp:  *)
(* 18-38, 80-94, DMClient.cpp:47-53).                                      *)
Abstract == INSTANCE ManagementSession WITH
  Cmds        <- Commands,
  MayBeSilent <- {command \in Commands : command.type = "HGET"},
  Codes       <- {200, 501},
  open        <- InSession,
  backlog     <- commands,
  statuses    <- responses

ImplementsManagementSession == Abstract!SessionSpec

(* start_session returns or takes the process with it, whatever the server *)
(* answers and however the downloads end (DMClient.cpp:47-53).             *)
SessionReturns == InSession ~> ~InSession
=============================================================================
