------------------------------ MODULE HgetTest ------------------------------
(***************************************************************************)
(* test/server.cpp run against the client: the server answers the first    *)
(* package 1 with one HGET, serves the download, and is to finish when the *)
(* client posts again.  exit(...) inside a handler ends the server before  *)
(* it replies.                                                             *)
(***************************************************************************)
EXTENDS DMClient

CONSTANT TestCommand     (* the JCommand the server sends                  *)

ASSUME TestAssumption ==
  /\ TestCommand \in JCommands
  /\ TestCommand.name = "HGET" /\ TestCommand.strings
  /\ TestCommand.client \in Uris /\ Len(TestCommand.client) > 2
  /\ TestCommand.server \in ServerURIs
  /\ URLParse[TestCommand.server] = "parses"
  /\ Array(<<TestCommand>>) \in Packages

VARIABLES
  state,         (* the handlers' shared State                             *)
  exit           (* running, or the code passed to exit()                  *)

testVars == <<vars, state, exit>>

TestInit == Init /\ state = "INITIAL" /\ exit = "running"

(* Mutant: the handler does not advance the state.                       *)
PostHandlerStays ==
  /\ exit = "running" /\ state = "INITIAL"
  /\ ReceiveP2(Array(<<TestCommand>>))
  /\ UNCHANGED <<state, exit>>

PostHandler ==
  /\ exit = "running" /\ state = "INITIAL"
  /\ ReceiveP2(Array(<<TestCommand>>))
  /\ state' = "TEST_HGET_HGET"
  /\ UNCHANGED exit

(* The two branches that exit: FINISHED with 0, anything unexpected with 1. *)
PostHandlerExits ==
  /\ exit = "running" /\ state # "INITIAL"
  /\ exit' = IF state = "TEST_HGET_END" THEN "0" ELSE "1"
  /\ P1Lost
  /\ UNCHANGED state

(* The download reaches the GET handler, which serves it in the state the  *)
(* POST handler left and does not change that state; in any other state it *)
(* exits with 1, and a server that is gone refuses the connection.  While  *)
(* the server runs HTTP on localhost is taken not to fail.                 *)
Download ==
  /\ phase = "Commands" /\ Downloads
  /\ IF exit = "running" /\ state = "TEST_HGET_HGET"
       THEN HgetDownloaded(Front.client, "utf8") /\ UNCHANGED exit
       ELSE HgetNoConnection /\ exit' = IF exit = "running" THEN "1" ELSE exit
  /\ UNCHANGED <<treeVars, parseVars, phase, clientVars, state>>

ServerGone ==
  /\ exit # "running"
  /\ P1Lost
  /\ UNCHANGED <<state, exit>>

ClientAlone ==
  /\ ParseStep \/ ParseContinues \/ SessionEnds \/ SendP3
  /\ UNCHANGED <<state, exit>>

TestStep ==
  \/ PostHandler \/ PostHandlerExits \/ ServerGone
  \/ Download \/ ClientAlone

TestNext == TestStep \/ (Application /\ UNCHANGED <<state, exit>>)

TestSpec == TestInit /\ [][TestNext]_testVars /\ WF_testVars(TestStep)

-----------------------------------------------------------------------------
(* The server reports nothing UNEXPECTED to a client that runs one session *)
(* (server.cpp:44-50, 68-71).                                              *)
OneSessionIsExpected == session <= 1 => exit # "1"

(* The HGET the server sent is downloaded and answered with 200 by the     *)
(* session that received it, which runs to its end (server.cpp:29-35,      *)
(* 66-87; CommandQueue.cpp:40-78).                                         *)
TestHgetAnswered ==
  (state = "TEST_HGET_HGET")
    ~> \E k \in DOMAIN answers :
         /\ answers[k].code = 200
         /\ received[answers[k].cmd].session \in completed

(* server.cpp:36-43: after the download the client reports back and the    *)
(* server prints FINISHED and exits with 0.                                *)
TestFinishes == (state = "TEST_HGET_HGET") ~> (exit = "0")
=============================================================================
