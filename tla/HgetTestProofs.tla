--------------------------- MODULE HgetTestProofs ---------------------------
(***************************************************************************)
(* Proofs about HgetTest: the client under the test server is the client   *)
(* of DMClient, and the server never meets a request it does not expect in *)
(* the first session.                                                      *)
(***************************************************************************)
EXTENDS HgetTest, DMClientProofs

USE HandlerAssumption, TreeAssumption, QueueAssumption, SessionAssumption,
    ClientAssumption, TestAssumption

-----------------------------------------------------------------------------
(* The test server only narrows what the client may meet.                  *)
LEMMA TestStepIsAStep ==
  ASSUME TypeInv, [TestNext]_testVars
  PROVE  [Next]_vars
<1>1. CASE PostHandler
  BY <1>1 DEF PostHandler, Next, SessionStep
<1>2. CASE PostHandlerExits \/ ServerGone
  BY <1>2 DEF PostHandlerExits, ServerGone, Next, SessionStep
<1>3. CASE Download
  <2>1. phase = "Commands" /\ Downloads /\ UNCHANGED <<treeVars, parseVars, phase, clientVars>>
    BY <1>3 DEF Download
  <2>2. CASE HgetNoConnection
    BY <2>1, <2>2 DEF DoCommand, RunCommand, Next, SessionStep
  <2>3. CASE HgetDownloaded(Front.client, "utf8")
    <3>1. Front \in Commands
      BY <2>1, HeadTailProperties
         DEF Front, Downloads, IsHget, TypeInv, QueueInv, QueueTypeOK
    <3>2. Front.client \in Uris
      BY <2>3, <3>1 DEF HgetDownloaded, HgetTargets, Commands
    <3>3. "utf8" \in Bodies
      BY DEF Bodies
    <3>4. DoCommand
      BY <2>3, <3>2, <3>3 DEF DoCommand
    <3> QED
      BY <2>1, <3>4 DEF RunCommand, Next, SessionStep
  <2> QED
    BY <1>3, <2>2, <2>3 DEF Download
<1>4. CASE ClientAlone
  BY <1>4 DEF ClientAlone, Next, SessionStep
<1>5. CASE Application \/ UNCHANGED testVars
  BY <1>5 DEF Next, testVars
<1> QED
  BY <1>1, <1>2, <1>3, <1>4, <1>5 DEF TestNext, TestStep

LEMMA TestTypeInv == TypeInv /\ [TestNext]_testVars => TypeInv'
  BY TestStepIsAStep, NextTypeInv

LEMMA TestTypeInit == TestInit => TypeInv
  BY TypeInitInv DEF TestInit

(* Every run of the test is a run of the client, so what is proved of the  *)
(* client holds in it (test/server.cpp:22-87 against DMClient.cpp:27-58).  *)
THEOREM TestRunsTheClient == TestSpec => Spec
<1>1. TestInit => Init
  BY DEF TestInit
<1> QED
  BY <1>1, TestTypeInit, TestTypeInv, TestStepIsAStep, PTL DEF TestSpec, Spec

-----------------------------------------------------------------------------
(* In the first session the server stands where the client does: the HGET  *)
(* is not sent while package 1 is awaited, and once package 2 is parsed    *)
(* the server expects the download.                                        *)
FirstSession ==
  session <= 1 =>
    /\ exit = "running"
    /\ session = 0 => phase = "Idle" /\ state = "INITIAL"
    /\ phase = "P1" => state = "INITIAL"
    /\ phase \in {"P2", "Commands"} => state = "TEST_HGET_HGET"

LEMMA NextFirstSession ==
  ASSUME TypeInv, FirstSession, [TestNext]_testVars
  PROVE  FirstSession'
<1> USE DEF FirstSession
<1>1. CASE PostHandler
  BY <1>1 DEF PostHandler, ReceiveP2, clientVars
<1>2. CASE PostHandlerExits \/ ServerGone
  BY <1>2 DEF PostHandlerExits, ServerGone, P1Lost, ReceiveP2, clientVars
<1>3. CASE Download
  BY <1>3 DEF Download, clientVars
<1>4. CASE ClientAlone
  <2>1. /\ UNCHANGED <<session, state, exit>>
        /\ phase \in {"P2", "Commands"}
        /\ phase' \in {"P2", "Commands", "Idle"}
    BY <1>4 DEF ClientAlone, ParseStep, ParseContinues, SessionEnds, SendP3, clientVars
  <2> QED
    BY <2>1
<1>5. CASE Application /\ UNCHANGED <<state, exit>>
  <2>1. ASSUME NEW type \in AlertTypes, StartSession(type)
        PROVE  FirstSession'
    <3>1. session \in Nat /\ session' = session + 1
      BY <2>1 DEF StartSession, TypeInv, LocalTypeOK
    <3>2. phase' \in {"P1", "Idle", "Dead"}
      BY <2>1 DEF StartSession, Escapes
    <3> QED
      BY <1>5, <3>1, <3>2
  <2>2. ASSUME BuildTree \/ (\E enable \in BOOLEAN : SetP1DumpTree(enable))
        PROVE  FirstSession'
    BY <1>5, <2>2 DEF BuildTree, SetP1DumpTree, clientVars
  <2> QED
    BY <1>5, <2>1, <2>2 DEF Application
<1>6. CASE UNCHANGED testVars
  BY <1>6 DEF testVars, vars, clientVars
<1> QED
  BY <1>1, <1>2, <1>3, <1>4, <1>5, <1>6 DEF TestNext, TestStep

(* Whatever the application does between and around, the server meets no   *)
(* UNEXPECTED request in the first session (server.cpp:44-50, 68-71).      *)
THEOREM FirstSessionIsExpected == TestSpec => []OneSessionIsExpected
<1>1. TestInit => FirstSession
  BY DEF TestInit, Init, FirstSession
<1>2. FirstSession => OneSessionIsExpected
  BY DEF FirstSession, OneSessionIsExpected
<1> QED
  BY <1>1, <1>2, TestTypeInit, TestTypeInv, NextFirstSession, PTL DEF TestSpec
=============================================================================
