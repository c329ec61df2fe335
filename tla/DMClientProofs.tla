--------------------------- MODULE DMClientProofs ---------------------------
(***************************************************************************)
(* The safety properties of DMClient, for every package the server may     *)
(* send, every number of sessions and every tree the application builds.   *)
(***************************************************************************)
EXTENDS DMClient, MOTreeProofs, SequenceTheorems

USE QueueAssumption, SessionAssumption, ClientAssumption

-----------------------------------------------------------------------------
(* The queues: what each operation preserves, whoever calls it and when.   *)

(* Fifo is what makes it inductive: executed and reported are positions in *)
(* the histories because the deques are what lies beyond them.             *)
QueueInv ==
  QueueTypeOK /\ QueuesAreFifo /\ AnsweredOnceInOrder /\ OnlyHgetIsSilent

LEMMA QueueInitInv == QueueInit => QueueInv
  BY DEF QueueInit, QueueInv, QueueTypeOK, QueuesAreFifo, AnsweredOnceInOrder,
         OnlyHgetIsSilent

LEMMA QueueStutters ==
  ASSUME QueueInv, UNCHANGED queueVars
  PROVE  QueueInv'
  BY DEF queueVars, QueueInv, QueueTypeOK, QueuesAreFifo, AnsweredOnceInOrder,
         OnlyHgetIsSilent

(* executed and reported never pass what the histories hold.               *)
LEMMA PositionsInRange ==
  ASSUME QueueInv
  PROVE  executed \in 0 .. Len(received) /\ reported \in 0 .. Len(answers)
<1>1. Len(commands) \in Nat /\ Len(responses) \in Nat
  BY DEF QueueInv, QueueTypeOK
<1>2. Len(received) \in Nat /\ Len(answers) \in Nat
  BY DEF QueueInv, QueueTypeOK
<1> QED
  BY <1>1, <1>2 DEF QueueInv, QueueTypeOK, QueuesAreFifo

LEMMA PushCommandInv ==
  ASSUME QueueInv, NEW command \in Commands, NEW s \in Nat,
         PushCommand(command, s)
  PROVE  QueueInv'
<1> DEFINE entry == [cmd |-> command, session |-> s]
<1>1. entry \in Received
  BY DEF Received
<1>2. /\ commands' = Append(commands, command)
      /\ received' = Append(received, entry)
      /\ UNCHANGED <<responses, executed, answers, reported>>
  BY DEF PushCommand
<1> HIDE DEF entry
<1>3. QueueTypeOK'
  BY <1>1, <1>2 DEF QueueInv, QueueTypeOK
<1>4. /\ Len(received') = Len(received) + 1
      /\ \A i \in 1 .. Len(received) : received'[i] = received[i]
      /\ received'[Len(received) + 1] = entry
  BY <1>1, <1>2 DEF QueueInv, QueueTypeOK
<1>5. QueuesAreFifo'
  <2>1. Len(commands') = Len(commands) + 1
    BY <1>2 DEF QueueInv, QueueTypeOK
  <2>2. ASSUME NEW i \in DOMAIN commands'
        PROVE  commands'[i] = received'[executed + i].cmd
    <3>1. CASE i = Len(commands) + 1
      <4>1. executed + i = Len(received) + 1
        BY <3>1 DEF QueueInv, QueueTypeOK, QueuesAreFifo
      <4>2. commands'[i] = command
        BY <1>2, <3>1 DEF QueueInv, QueueTypeOK
      <4> QED
        BY <1>4, <4>1, <4>2 DEF entry
    <3>2. CASE i # Len(commands) + 1
      <4>1. i \in 1 .. Len(commands) /\ commands'[i] = commands[i]
        BY <1>2, <2>1, <3>2 DEF QueueInv, QueueTypeOK
      <4>2. executed + i \in 1 .. Len(received)
        BY <4>1 DEF QueueInv, QueueTypeOK, QueuesAreFifo
      <4> QED
        BY <1>4, <4>1, <4>2 DEF QueueInv, QueueTypeOK, QueuesAreFifo
    <3> QED
      BY <3>1, <3>2
  <2>3. Len(commands') = Len(received') - executed'
    BY <1>2, <1>4, <2>1 DEF QueueInv, QueueTypeOK, QueuesAreFifo
  <2> QED
    BY <1>2, <2>2, <2>3 DEF QueueInv, QueuesAreFifo
<1>6. AnsweredOnceInOrder'
  BY <1>2 DEF QueueInv, AnsweredOnceInOrder
<1>7. OnlyHgetIsSilent'
  BY <1>2, <1>4, PositionsInRange DEF QueueInv, QueueTypeOK, OnlyHgetIsSilent
<1> QED
  BY <1>3, <1>5, <1>6, <1>7 DEF QueueInv

-----------------------------------------------------------------------------
(* PopFront takes the command at position executed + 1 off the deque.      *)
LEMMA PopFrontFifo ==
  ASSUME QueueInv, commands # <<>>, PopFront
  PROVE  /\ commands' \in Seq(Commands) /\ executed' = executed + 1
         /\ executed + 1 \in 1 .. Len(received)
         /\ Front = received[executed + 1].cmd
         /\ Len(commands') = Len(received') - executed'
         /\ \A i \in DOMAIN commands' : commands'[i] = received'[executed' + i].cmd
<1> USE DEF QueueInv, QueueTypeOK
<1>1. /\ commands' = Tail(commands) /\ received' = received
      /\ executed' = executed + 1
  BY DEF PopFront
<1>2. /\ commands' \in Seq(Commands) /\ Len(commands') = Len(commands) - 1
      /\ \A i \in 1 .. Len(commands') : commands'[i] = commands[i + 1]
  BY <1>1, HeadTailProperties
<1>3. 1 \in DOMAIN commands /\ Front = commands[1]
  BY DEF Front
<1>4. Front = received[executed + 1].cmd
  BY <1>3 DEF QueuesAreFifo
<1>5. executed + 1 \in 1 .. Len(received)
  BY <1>3 DEF QueuesAreFifo
<1>6. Len(commands') = Len(received') - executed'
  BY <1>1, <1>2 DEF QueuesAreFifo
<1>7. ASSUME NEW i \in DOMAIN commands'
      PROVE  commands'[i] = received'[executed' + i].cmd
  <2>1. i + 1 \in DOMAIN commands /\ commands'[i] = commands[i + 1]
    BY <1>2
  <2>2. executed' + i = executed + (i + 1)
    BY <1>1, <1>2
  <2> QED
    BY <1>1, <2>1, <2>2 DEF QueuesAreFifo
<1> QED
  BY <1>1, <1>2, <1>4, <1>5, <1>6, <1>7

(* A command that is answered, once, and popped.                           *)
LEMMA AnswerInv ==
  ASSUME QueueInv, commands # <<>>, PopFront,
         NEW code \in {200, 501}, Respond(code),
         Front.type # "HGET" => code = 501
  PROVE  QueueInv'
<1> DEFINE answer == [cmd |-> executed + 1, code |-> code]
<1>1. /\ responses' = Append(responses, code)
      /\ answers' = Append(answers, answer)
      /\ UNCHANGED <<received, reported>>
  BY DEF Respond, PopFront
<1>2. answer \in Answers
  BY DEF Answers, QueueInv, QueueTypeOK
<1>3. answer.cmd = executed + 1 /\ answer.code = code
  OBVIOUS
<1> HIDE DEF answer
<1>4. /\ Len(answers') = Len(answers) + 1
      /\ \A k \in 1 .. Len(answers) : answers'[k] = answers[k]
      /\ answers'[Len(answers) + 1] = answer
  BY <1>1, <1>2 DEF QueueInv, QueueTypeOK
<1>5. QueueTypeOK'
  BY <1>1, <1>2, PopFrontFifo DEF QueueInv, QueueTypeOK
<1>6. QueuesAreFifo'
  <2>1. Len(responses') = Len(responses) + 1
    BY <1>1 DEF QueueInv, QueueTypeOK
  <2>2. ASSUME NEW i \in DOMAIN responses'
        PROVE  responses'[i] = answers'[reported + i].code
    <3>1. CASE i = Len(responses) + 1
      <4>1. reported + i = Len(answers) + 1
        BY <3>1 DEF QueueInv, QueueTypeOK, QueuesAreFifo
      <4>2. responses'[i] = code
        BY <1>1, <3>1 DEF QueueInv, QueueTypeOK
      <4> QED
        BY <1>3, <1>4, <4>1, <4>2
    <3>2. CASE i # Len(responses) + 1
      <4>1. i \in 1 .. Len(responses) /\ responses'[i] = responses[i]
        <5>1. responses \in Seq({200, 501})
          BY DEF QueueInv, QueueTypeOK
        <5> QED
          BY <1>1, <2>1, <3>2, <5>1
      <4>2. reported + i \in 1 .. Len(answers)
        BY <4>1 DEF QueueInv, QueueTypeOK, QueuesAreFifo
      <4> QED
        BY <1>4, <4>1, <4>2 DEF QueueInv, QueueTypeOK, QueuesAreFifo
    <3> QED
      BY <3>1, <3>2
  <2>3. Len(responses') = Len(answers') - reported'
    BY <1>1, <1>4, <2>1 DEF QueueInv, QueueTypeOK, QueuesAreFifo
  <2> QED
    BY <1>1, <2>2, <2>3, PopFrontFifo DEF QueuesAreFifo
<1>7. AnsweredOnceInOrder'
  <2>1. \A k \in 1 .. Len(answers) : answers[k].cmd \in 1 .. executed
    BY DEF QueueInv, QueueTypeOK, AnsweredOnceInOrder
  <2>2. \A k \in DOMAIN answers' : k \in 1 .. Len(answers) \/ k = Len(answers) + 1
    BY <1>4, <1>5 DEF QueueTypeOK
  <2>3. executed \in Nat /\ executed' = executed + 1
    BY PopFrontFifo DEF QueueInv, QueueTypeOK
  <2>4. \A k \in DOMAIN answers' : answers'[k].cmd \in 1 .. executed'
    BY <1>3, <1>4, <2>1, <2>2, <2>3
  <2>5. ASSUME NEW j \in DOMAIN answers', NEW k \in DOMAIN answers', j < k
        PROVE  answers'[j].cmd < answers'[k].cmd
    <3>1. j \in 1 .. Len(answers)
      BY <2>2, <2>5, <1>4, <1>5 DEF QueueTypeOK
    <3>2. CASE k = Len(answers) + 1
      BY <1>3, <1>4, <2>1, <2>3, <3>1, <3>2
    <3>3. CASE k \in 1 .. Len(answers)
      <4>1. j \in DOMAIN answers /\ k \in DOMAIN answers
        BY <3>1, <3>3 DEF QueueInv, QueueTypeOK
      <4>2. answers[j].cmd < answers[k].cmd
        BY <2>5, <4>1 DEF QueueInv, AnsweredOnceInOrder
      <4> QED
        BY <1>4, <3>1, <3>3, <4>2
    <3> QED
      BY <2>2, <3>2, <3>3
  <2> QED
    BY <2>4, <2>5 DEF AnsweredOnceInOrder
<1>8. OnlyHgetIsSilent'
  <2> SUFFICES ASSUME NEW i \in 1 .. executed', received'[i].cmd.type # "HGET"
               PROVE  \E k \in DOMAIN answers' :
                         answers'[k].cmd = i /\ answers'[k].code = 501
    BY DEF OnlyHgetIsSilent
  <2>1. CASE i = executed + 1
    <3>1. code = 501
      BY <1>1, <2>1, PopFrontFifo
    <3>2. Len(answers) + 1 \in DOMAIN answers'
      BY <1>4, <1>5 DEF QueueTypeOK, QueueInv
    <3> QED
      BY <1>3, <1>4, <2>1, <3>1, <3>2
  <2>2. CASE i # executed + 1
    <3>1. i \in 1 .. executed
      BY <2>2, PopFrontFifo DEF QueueInv, QueueTypeOK
    <3>2. PICK k \in DOMAIN answers : answers[k].cmd = i /\ answers[k].code = 501
      BY <1>1, <3>1 DEF QueueInv, OnlyHgetIsSilent
    <3>3. k \in 1 .. Len(answers) /\ k \in DOMAIN answers'
      BY <1>4, <1>5 DEF QueueInv, QueueTypeOK
    <3> QED
      BY <1>4, <3>2, <3>3
  <2> QED
    BY <2>1, <2>2
<1> QED
  BY <1>5, <1>6, <1>7, <1>8 DEF QueueInv

(* An HGET that is popped and not answered.                                *)
LEMMA SilentInv ==
  ASSUME QueueInv, commands # <<>>, PopFront, NoResponse, Front.type = "HGET"
  PROVE  QueueInv'
<1>1. UNCHANGED <<responses, answers, received, reported>>
  BY DEF NoResponse, PopFront
<1>2. QueueTypeOK'
  BY <1>1, PopFrontFifo DEF QueueInv, QueueTypeOK
<1>3. QueuesAreFifo'
  BY <1>1, PopFrontFifo DEF QueueInv, QueuesAreFifo
<1>4. executed \in Nat /\ executed' = executed + 1
  BY PopFrontFifo DEF QueueInv, QueueTypeOK
<1>5. AnsweredOnceInOrder'
  BY <1>1, <1>4 DEF QueueInv, QueueTypeOK, AnsweredOnceInOrder, Answers
<1>6. OnlyHgetIsSilent'
  <2> SUFFICES ASSUME NEW i \in 1 .. executed', received'[i].cmd.type # "HGET"
               PROVE  \E k \in DOMAIN answers' :
                         answers'[k].cmd = i /\ answers'[k].code = 501
    BY DEF OnlyHgetIsSilent
  <2>1. i # executed + 1
    BY <1>1, PopFrontFifo
  <2>2. i \in 1 .. executed
    BY <1>4, <2>1
  <2> QED
    BY <1>1, <2>2 DEF QueueInv, OnlyHgetIsSilent
<1> QED
  BY <1>2, <1>3, <1>5, <1>6 DEF QueueInv

(* Every iteration of do_commands (CommandQueue.cpp:24-38).                *)
LEMMA DoCommandInv ==
  ASSUME QueueInv, DoCommand
  PROVE  QueueInv'
<1>1. CASE DoUnsupported
  BY <1>1, AnswerInv DEF DoUnsupported
<1>2. CASE HgetBadUrl
  BY <1>2, SilentInv DEF HgetBadUrl, IsHget
<1>3. CASE HgetNoConnection
  BY <1>3, SilentInv DEF HgetNoConnection, Downloads, IsHget
<1>4. ASSUME NEW uri \in Uris, NEW body \in Bodies, HgetDownloaded(uri, body)
      PROVE  QueueInv'
  <2>1. /\ commands # <<>> /\ Front.type = "HGET" /\ PopFront
        /\ Respond(200)
    BY <1>4 DEF HgetDownloaded, Downloads, IsHget
  <2> QED
    BY <2>1, AnswerInv
<1> QED
  BY <1>1, <1>2, <1>3, <1>4 DEF DoCommand

LEMMA DrainResponsesInv ==
  ASSUME QueueInv, DrainResponses
  PROVE  QueueInv'
  BY DEF DrainResponses, QueueInv, QueueTypeOK, QueuesAreFifo, AnsweredOnceInOrder,
         OnlyHgetIsSilent

-----------------------------------------------------------------------------
(* The rest of the client: what is neither tree nor deques.                *)
LocalTypeOK ==
  /\ ParseTypeOK
  /\ phase \in {"Idle", "P1", "P2", "Commands", "Dead"}
  /\ alert_queue \in Seq(Alerts)
  /\ P1_dump_tree \in BOOLEAN /\ p3_sent \in BOOLEAN
  /\ session \in Nat /\ completed \subseteq Nat
  /\ p1_alerts \in Seq(SUBSET Nat) /\ p3_alerts \subseteq Nat

TypeInv == TreeInv /\ QueueInv /\ LocalTypeOK

LEMMA TypeInvImpliesTypeOK == TypeInv => TypeOK
  BY DEF TypeInv, TreeInv, QueueInv, LocalTypeOK, TypeOK

LEMMA EmptyPackage == Array(<<>>) \in PackageShape /\ Unparsable \in PackageShape
  BY DEF Array, Unparsable, PackageShape

LEMMA P3ReplyIsEnd ==
  /\ P3Reply \in PackageShape
  /\ P3Reply.form = "array" /\ P3Reply.cmds # <<>>
  /\ \A i \in DOMAIN P3Reply.cmds : P3Reply.cmds[i].name = "END"
<1> DEFINE end == CHOOSE e \in JCommands : e.name = "END"
<1>1. end \in JCommands /\ end.name = "END"
  OBVIOUS
<1>2. P3Reply = [form |-> "array", cmds |-> <<end>>]
  BY DEF P3Reply, Array
<1> HIDE DEF end
<1> QED
  BY <1>1, <1>2 DEF PackageShape

(* What packaging leaves: every alert in transit, none added or dropped.   *)
LEMMA PackagingMarks ==
  ASSUME NEW q \in Seq(Alerts)
  PROVE  /\ AfterPackaging(q) \in Seq(Alerts)
         /\ Len(AfterPackaging(q)) = Len(q)
         /\ \A i \in 1 .. Len(q) : AfterPackaging(q)[i].in_transit = TRUE
         /\ PackagedAlerts(q) \in SUBSET Nat
<1> DEFINE n == Len(q)
           a == [i \in 1 .. n |-> [q[i] EXCEPT !.in_transit = TRUE]]
<1>1. n \in Nat /\ DOMAIN q = 1 .. n
  OBVIOUS
<1>2. AfterPackaging(q) = a
  BY <1>1 DEF AfterPackaging
<1>3. \A i \in 1 .. n :
        /\ a[i] \in Alerts
        /\ a[i].in_transit = TRUE
  <2> TAKE i \in 1 .. n
  <2>1. q[i] \in Alerts
    BY <1>1
  <2>2. a[i] = [q[i] EXCEPT !.in_transit = TRUE]
    OBVIOUS
  <2> HIDE DEF a
  <2> QED
    BY <2>1, <2>2 DEF Alerts
<1>4. a \in Seq(Alerts) /\ Len(a) = n
  BY <1>1, <1>3, IsASeq
<1>5. PackagedAlerts(q) \in SUBSET Nat
  <2>1. PackagedAlerts(q) \subseteq 1 .. n
    BY <1>1 DEF PackagedAlerts
  <2> HIDE DEF n
  <2>2. 1 .. n \subseteq Nat
    BY <1>1
  <2> QED
    BY <2>1, <2>2
<1> HIDE DEF a, n
<1> QED
  BY <1>2, <1>3, <1>4, <1>5 DEF n

-----------------------------------------------------------------------------
(* Types.                                                                  *)

LEMMA ParseStepType ==
  ASSUME TypeInv, ParseStep
  PROVE  QueueInv' /\ ParseTypeOK'
<1>1. /\ p2 \in PackageShape /\ p2.form = "array" /\ p2.cmds # <<>>
      /\ p2' = [p2 EXCEPT !.cmds = Tail(@)]
  BY DEF ParseStep, ParseEnd, ParseCommand, ParseUnknown, Parsing, Consume,
         TypeInv, LocalTypeOK, ParseTypeOK
<1>2. p2' \in PackageShape
  BY <1>1, HeadTailProperties DEF PackageShape
<1>3. session_continue' \in BOOLEAN
  BY DEF ParseStep, ParseEnd, ParseCommand, ParseUnknown, TypeInv, LocalTypeOK,
         ParseTypeOK
<1>4. QueueInv'
  <2>1. CASE ParseCommand(session)
    <3> DEFINE command == [type |-> Entry.name, server |-> Entry.server,
                           client |-> Entry.client]
    <3>1. Entry \in JCommands
      BY <1>1, HeadTailProperties DEF Entry, PackageShape
    <3>2. Entry \in JCommandShape
      BY <3>1
    <3>3. command \in Commands
      BY <2>1, <3>2 DEF ParseCommand, JCommandShape, Commands
    <3>4. PushCommand(command, session)
      BY <2>1 DEF ParseCommand
    <3>5. session \in Nat
      BY DEF TypeInv, LocalTypeOK
    <3> QED
      BY <3>3, <3>4, <3>5, PushCommandInv DEF TypeInv
  <2>2. CASE ParseEnd \/ ParseUnknown
    BY <2>2, QueueStutters DEF ParseEnd, ParseUnknown, TypeInv, queueVars
  <2> QED
    BY <2>1, <2>2 DEF ParseStep
<1> QED
  BY <1>2, <1>3, <1>4 DEF ParseTypeOK

LEMMA TypeInitInv == Init => TypeInv
<1> SUFFICES ASSUME Init
             PROVE  TypeInv
  OBVIOUS
<1>1. TreeInv /\ QueueInv
  BY TreeInitInv, QueueInitInv DEF Init
<1>2. ParseTypeOK
  BY EmptyPackage DEF Init, NoLocals, ParseTypeOK
<1>3. LocalTypeOK
  <2>1. P1_dump_tree \in BOOLEAN /\ p3_sent \in BOOLEAN
    BY DEF Init
  <2>2. /\ phase = "Idle" /\ alert_queue = <<>> /\ session = 0
        /\ completed = {} /\ p1_alerts = <<>> /\ p3_alerts = {}
    BY DEF Init
  <2>3. alert_queue \in Seq(Alerts) /\ p1_alerts \in Seq(SUBSET Nat)
    BY <2>2
  <2> QED
    BY <1>2, <2>1, <2>2, <2>3 DEF LocalTypeOK
<1> QED
  BY <1>1, <1>3 DEF TypeInv

(* Leaving parse_P2, or start_session, by any way.                         *)
LEMMA LeavingTypes ==
  /\ DropLocals => ParseTypeOK'
  /\ Escapes => ParseTypeOK' /\ phase' \in {"Idle", "Dead"}
  /\ \A package \in PackageShape : BeginParse(package) => ParseTypeOK'
<1>1. DropLocals => ParseTypeOK'
  BY EmptyPackage DEF DropLocals, ParseTypeOK
<1>2. \A package \in PackageShape : BeginParse(package) => ParseTypeOK'
  BY DEF BeginParse, ParseTypeOK
<1> QED
  BY <1>1, <1>2 DEF Escapes

LEMMA ParseStutters ==
  ASSUME ParseTypeOK, UNCHANGED parseVars
  PROVE  ParseTypeOK'
  BY DEF ParseTypeOK, parseVars

LEMMA TreeStutters ==
  ASSUME TreeInv, UNCHANGED treeVars
  PROVE  TreeInv'
  BY TreeNextInv

(* Neither the session nor the queues touch the tree, but for the get_val  *)
(* calls of the dump.                                                      *)
LEMMA NextTreeInv ==
  ASSUME TypeInv, [Next]_vars
  PROVE  TreeInv'
<1>1. CASE SessionStep \/ UNCHANGED vars
  <2>1. UNCHANGED treeVars
    BY <1>1 DEF SessionStep, ReceiveP2, P1Lost, ParseStep, ParseAborts,
                ParseContinues, SessionEnds, RunCommand, CommandThrows,
                CommandCrashes, SendP3, vars
  <2> QED
    BY <2>1, TreeStutters DEF TypeInv
<1>2. CASE BuildTree
  BY <1>2, TreeNextInv DEF BuildTree, TypeInv
<1>3. ASSUME NEW enable \in BOOLEAN, SetP1DumpTree(enable)
      PROVE  TreeInv'
  BY <1>3, TreeStutters DEF SetP1DumpTree, TypeInv
<1>4. ASSUME NEW type \in AlertTypes, StartSession(type)
      PROVE  TreeInv'
  <2>1. calls' \subseteq Mos \X Callbacks /\ UNCHANGED <<MOs, accepted>>
    BY <1>4 DEF StartSession, TypeInv, TreeInv, TreeTypeOK, Dumped, Callbacks
  <2> QED
    BY <2>1 DEF TypeInv, TreeInv, TreeTypeOK, FiniteInstances, Registered
<1> QED
  BY <1>1, <1>2, <1>3, <1>4 DEF Next, Application

LEMMA NextQueueInv ==
  ASSUME TypeInv, [Next]_vars
  PROVE  QueueInv'
<1>1. CASE ParseStep
  BY <1>1, ParseStepType
<1>2. CASE RunCommand
  BY <1>2, DoCommandInv DEF RunCommand, TypeInv
<1>3. CASE SendP3
  BY <1>3, DrainResponsesInv DEF SendP3, TypeInv
<1>4. CASE UNCHANGED queueVars
  BY <1>4, QueueStutters DEF TypeInv
<1>5. ASSUME SessionStep, ~ParseStep, ~RunCommand, ~SendP3
      PROVE  UNCHANGED queueVars
  BY <1>5 DEF SessionStep, ReceiveP2, P1Lost, ParseAborts, ParseContinues,
              SessionEnds, CommandThrows, HgetThrows, CommandCrashes, HgetCrashes
<1>6. ASSUME Application \/ UNCHANGED vars
      PROVE  UNCHANGED queueVars
  BY <1>6 DEF Application, BuildTree, SetP1DumpTree, StartSession, vars
<1> QED
  BY <1>1, <1>2, <1>3, <1>4, <1>5, <1>6 DEF Next

LEMMA NextLocalTypeOK ==
  ASSUME TypeInv, [Next]_vars
  PROVE  LocalTypeOK'
<1> USE DEF TypeInv, LocalTypeOK
<1>1. ASSUME NEW package \in Packages \cup {Unparsable}, ReceiveP2(package)
      PROVE  LocalTypeOK'
  <2>1. package \in PackageShape
    BY EmptyPackage
  <2> QED
    BY <1>1, <2>1, LeavingTypes DEF ReceiveP2, clientVars
<1>2. CASE ParseStep
  BY <1>2, ParseStepType DEF ParseStep, clientVars
<1>3. CASE ParseAborts \/ CommandThrows
  BY <1>3, LeavingTypes DEF ParseAborts, CommandThrows, clientVars
<1>4. CASE ParseContinues \/ SessionEnds
  BY <1>4, LeavingTypes DEF ParseContinues, SessionEnds, clientVars
<1>5. CASE RunCommand \/ CommandCrashes
  BY <1>5, ParseStutters DEF RunCommand, CommandCrashes, clientVars
<1>6. CASE SendP3
  <2>1. PackagedAlerts(alert_queue) \in SUBSET Nat
    BY PackagingMarks
  <2> QED
    BY <1>6, <2>1, PackagingMarks, P3ReplyIsEnd, LeavingTypes DEF SendP3
<1>7. CASE BuildTree \/ UNCHANGED vars
  BY <1>7, ParseStutters DEF BuildTree, vars, clientVars
<1>8. ASSUME NEW enable \in BOOLEAN, SetP1DumpTree(enable)
      PROVE  LocalTypeOK'
  BY <1>8, ParseStutters DEF SetP1DumpTree
<1>9. ASSUME NEW type \in AlertTypes, StartSession(type)
      PROVE  LocalTypeOK'
  <2> DEFINE queue == AddAlert(alert_queue, Alert(type))
  <2>1. queue \in Seq(Alerts)
    BY DEF AddAlert, Alert, Alerts
  <2>2. /\ p1_alerts' = Append(p1_alerts, PackagedAlerts(queue))
        /\ alert_queue' = AfterPackaging(queue)
        /\ session' = session + 1
        /\ p3_sent' = FALSE
        /\ UNCHANGED <<P1_dump_tree, completed, p3_alerts>>
    BY <1>9 DEF StartSession
  <2> HIDE DEF queue
  <2>3. PackagedAlerts(queue) \in SUBSET Nat
    BY <2>1, PackagingMarks
  <2>4. p1_alerts' \in Seq(SUBSET Nat) /\ alert_queue' \in Seq(Alerts)
    <3>1. p1_alerts' \in Seq(SUBSET Nat)
      BY <2>2, <2>3, AppendProperties
    <3> QED
      BY <2>1, <2>2, <3>1, PackagingMarks
  <2>5. ParseTypeOK' /\ phase' \in {"Idle", "P1", "Dead"}
    BY <1>9, LeavingTypes, ParseStutters DEF StartSession
  <2>6. p3_sent' \in BOOLEAN
    BY <2>2
  <2> QED
    BY <2>2, <2>4, <2>5, <2>6
<1> QED
  BY <1>1, <1>2, <1>3, <1>4, <1>5, <1>6, <1>7, <1>8, <1>9
     DEF Next, SessionStep, Application, P1Lost

LEMMA NextTypeInv == TypeInv /\ [Next]_vars => TypeInv'
  BY NextTreeInv, NextQueueInv, NextLocalTypeOK DEF TypeInv

(* The client keeps its type through every session (DMClient.cpp:27-58).   *)
THEOREM TypeCorrect == Spec => []TypeOK
  BY TypeInitInv, NextTypeInv, TypeInvImpliesTypeOK, PTL DEF Spec

(* Nothing is lost, repeated or overtaken in the two deques, however       *)
(* sessions end (CommandQueue.cpp:18-38, 80-94).                           *)
THEOREM FifoCorrect == Spec => []QueuesAreFifo
<1>1. TypeInv => QueuesAreFifo
  BY DEF TypeInv, QueueInv
<1> QED
  BY <1>1, TypeInitInv, NextTypeInv, PTL DEF Spec

(* No command is answered twice or out of turn, even one that an exception *)
(* left at the head of the deque (CommandQueue.cpp:24-38, 75-76).          *)
THEOREM AnsweredAtMostOnce == Spec => []AnsweredOnceInOrder
<1>1. TypeInv => AnsweredOnceInOrder
  BY DEF TypeInv, QueueInv
<1> QED
  BY <1>1, TypeInitInv, NextTypeInv, PTL DEF Spec

(* Every executed command but HGET has its 501 (CommandQueue.cpp:27-34).   *)
THEOREM UnsupportedAreAnswered == Spec => []OnlyHgetIsSilent
<1>1. TypeInv => OnlyHgetIsSilent
  BY DEF TypeInv, QueueInv
<1> QED
  BY <1>1, TypeInitInv, NextTypeInv, PTL DEF Spec

-----------------------------------------------------------------------------
(* Alerts: the deque holds one alert per session started, all of them      *)
(* packaged by the package 1 that followed, so nothing is left for a       *)
(* package 3.                                                              *)
AlertInv ==
  /\ Len(alert_queue) = session /\ Len(p1_alerts) = session
  /\ \A i \in 1 .. session : alert_queue[i].in_transit = TRUE
  /\ AlertPackagedOnce

(* Once a package 3 has been sent the session is parsing send_P3's END: the *)
(* queues are empty and nothing that can refill them or go round again is  *)
(* left to parse.                                                          *)
AfterP3 ==
  /\ phase \in {"P2", "Idle", "Dead"}
  /\ phase = "P2" =>
       /\ p2.form = "array" /\ \A i \in DOMAIN p2.cmds : p2.cmds[i].name = "END"
       /\ p2.cmds = <<>> => session_continue = FALSE
       /\ commands = <<>> /\ responses = <<>>

(* A session that is running has not completed, so what it adds to the     *)
(* histories is not counted against one that has.                          *)
CompletionInv ==
  /\ p3_sent => AfterP3
  /\ \A s \in completed : s <= session
  /\ InSession => session \notin completed
  /\ CompletedLeavesNothing

ClientInv == TypeInv /\ AlertInv /\ CompletionInv

LEMMA ClientInitInv == Init => ClientInv
<1> SUFFICES ASSUME Init
             PROVE  ClientInv
  OBVIOUS
<1>1. AlertInv
  BY DEF Init, AlertInv, AlertPackagedOnce
<1>2. CompletionInv
  BY DEF Init, CompletionInv, InSession, CompletedLeavesNothing
<1> QED
  BY <1>1, <1>2, TypeInitInv DEF ClientInv

LEMMA NextAlertInv ==
  ASSUME TypeInv, AlertInv, [Next]_vars
  PROVE  AlertInv'
<1> USE DEF TypeInv, LocalTypeOK
<1>1. ASSUME NEW type \in AlertTypes, StartSession(type)
      PROVE  AlertInv'
  <2> DEFINE alert == Alert(type)
             queue == AddAlert(alert_queue, alert)
  <2>1. alert \in Alerts /\ alert.in_transit = FALSE
    BY DEF Alert, Alerts
  <2>2. /\ p1_alerts' = Append(p1_alerts, PackagedAlerts(queue))
        /\ alert_queue' = AfterPackaging(queue)
        /\ session' = session + 1
        /\ p3_alerts' = p3_alerts
    BY <1>1 DEF StartSession
  <2> HIDE DEF alert
  <2>3. /\ queue \in Seq(Alerts) /\ Len(queue) = session + 1
        /\ \A i \in 1 .. session : queue[i] = alert_queue[i]
        /\ queue[session + 1] = alert
    BY <2>1 DEF AddAlert, AlertInv
  <2> HIDE DEF queue
  <2>4. PackagedAlerts(queue) = {session + 1}
    <3>1. DOMAIN queue = 1 .. session + 1
      BY <2>3
    <3>2. \A i \in 1 .. session : queue[i].in_transit = TRUE
      BY <2>3 DEF AlertInv
    <3>3. \A i \in DOMAIN queue : i \in 1 .. session \/ i = session + 1
      BY <3>1
    <3>4. session + 1 \in DOMAIN queue /\ session + 1 \notin 1 .. session
      BY <3>1
    <3> QED
      BY <2>1, <2>3, <3>2, <3>3, <3>4 DEF PackagedAlerts
  <2>5. /\ Len(alert_queue') = session'
        /\ \A i \in 1 .. session' : alert_queue'[i].in_transit = TRUE
    BY <2>2, <2>3, PackagingMarks
  <2>6. PackagedAlerts(queue) \in SUBSET Nat
    BY <2>3, PackagingMarks
  <2>7. /\ Len(p1_alerts') = session'
        /\ \A s \in 1 .. session : p1_alerts'[s] = p1_alerts[s]
        /\ p1_alerts'[session + 1] = {session + 1}
    BY <2>2, <2>4, <2>6, AppendProperties DEF AlertInv
  <2>8. DOMAIN p1_alerts = 1 .. session /\ DOMAIN p1_alerts' = 1 .. session + 1
    <3>1. p1_alerts' \in Seq(SUBSET Nat)
      BY <2>2, <2>6, AppendProperties
    <3> QED
      BY <2>2, <2>7, <3>1, LenProperties DEF AlertInv
  <2>9. AlertPackagedOnce'
    <3>1. ASSUME NEW s \in DOMAIN p1_alerts'
          PROVE  p1_alerts'[s] = {s}
      <4>1. s \in 1 .. session \/ s = session + 1
        BY <2>8
      <4> QED
        BY <2>7, <2>8, <4>1 DEF AlertInv, AlertPackagedOnce
    <3>2. p3_alerts' = {}
      BY <2>2 DEF AlertInv, AlertPackagedOnce
    <3> QED
      BY <3>1, <3>2 DEF AlertPackagedOnce
  <2> QED
    BY <2>5, <2>7, <2>9 DEF AlertInv
<1>2. CASE SendP3
  <2>1. PackagedAlerts(alert_queue) = {}
    BY DEF PackagedAlerts, AlertInv
  <2>2. /\ alert_queue' = AfterPackaging(alert_queue)
        /\ p3_alerts' = p3_alerts \cup PackagedAlerts(alert_queue)
        /\ UNCHANGED <<session, p1_alerts>>
    BY <1>2 DEF SendP3
  <2>3. /\ Len(alert_queue') = session'
        /\ \A i \in 1 .. session' : alert_queue'[i].in_transit = TRUE
    BY <2>2, PackagingMarks DEF AlertInv
  <2> QED
    BY <2>1, <2>2, <2>3 DEF AlertInv, AlertPackagedOnce
<1>3. ASSUME UNCHANGED <<alert_queue, session, p1_alerts, p3_alerts>>
      PROVE  AlertInv'
  BY <1>3 DEF AlertInv, AlertPackagedOnce
<1>4. ASSUME SessionStep \/ UNCHANGED vars, ~SendP3
      PROVE  UNCHANGED <<alert_queue, session, p1_alerts, p3_alerts>>
  BY <1>4 DEF SessionStep, ReceiveP2, P1Lost, ParseStep, ParseAborts,
              ParseContinues, SessionEnds, RunCommand, CommandThrows,
              CommandCrashes, vars, clientVars
<1>5. ASSUME BuildTree \/ \E enable \in BOOLEAN : SetP1DumpTree(enable)
      PROVE  UNCHANGED <<alert_queue, session, p1_alerts, p3_alerts>>
  BY <1>5 DEF BuildTree, SetP1DumpTree, clientVars
<1> QED
  BY <1>1, <1>2, <1>3, <1>4, <1>5 DEF Next, Application

-----------------------------------------------------------------------------
(* Completed sessions: the histories only grow beyond what they left.      *)

LEMMA HistoriesGrow ==
  ASSUME TypeInv, CompletionInv, QueueInv',
         executed <= executed', reported <= reported', UNCHANGED completed,
         \A i \in DOMAIN received' :
            \/ i \in DOMAIN received /\ received'[i] = received[i]
            \/ received'[i].session \notin completed,
         \A k \in DOMAIN answers' :
            \/ k \in DOMAIN answers /\ answers'[k] = answers[k]
            \/ answers'[k].cmd > executed,
         \A i \in DOMAIN received : received'[i] = received[i]
  PROVE  CompletedLeavesNothing'
<1> USE DEF TypeInv, QueueInv, QueueTypeOK
<1>1. executed \in Nat /\ executed' \in Nat /\ reported \in Nat /\ reported' \in Nat
  OBVIOUS
<1>2. ASSUME NEW s \in completed, NEW i \in DOMAIN received',
             received'[i].session = s
      PROVE  i <= executed'
  <2>1. i \in DOMAIN received /\ received[i].session = s
    BY <1>2
  <2>2. i <= executed
    BY <2>1 DEF CompletionInv, CompletedLeavesNothing
  <2>3. i \in Nat
    BY <2>1
  <2> QED
    BY <1>1, <2>2, <2>3
<1>3. ASSUME NEW s \in completed, NEW k \in DOMAIN answers',
             received'[answers'[k].cmd].session = s
      PROVE  k <= reported'
  <2> DEFINE c == answers'[k].cmd
  <2>1. c \in 1 .. executed' /\ executed' \in 0 .. Len(received')
    <3>1. c \in 1 .. executed'
      BY DEF AnsweredOnceInOrder
    <3>2. Len(commands') \in Nat /\ Len(received') \in Nat
      OBVIOUS
    <3>3. Len(commands') = Len(received') - executed'
      BY DEF QueuesAreFifo
    <3> QED
      BY <1>1, <3>1, <3>2, <3>3
  <2>2. c \in DOMAIN received' /\ c \in Nat
    BY <2>1
  <2>3. c \in DOMAIN received /\ received[c].session = s
    BY <1>3, <2>2
  <2>4. c <= executed
    BY <2>3 DEF CompletionInv, CompletedLeavesNothing
  <2>5. k \in DOMAIN answers /\ answers'[k] = answers[k]
    BY <1>1, <2>2, <2>4
  <2>6. k <= reported
    BY <2>3, <2>5 DEF CompletionInv, CompletedLeavesNothing
  <2>7. k \in Nat
    BY <2>5
  <2> QED
    BY <1>1, <2>6, <2>7
<1> QED
  BY <1>2, <1>3 DEF CompletedLeavesNothing

LEMMA NextCompletedLeavesNothing ==
  ASSUME TypeInv, CompletionInv, [Next]_vars, QueueInv'
  PROVE  CompletedLeavesNothing'
<1> USE DEF TypeInv, QueueInv, QueueTypeOK
<1>1. CASE ParseStep
  <2>1. UNCHANGED <<completed, executed, answers, reported>>
    BY <1>1 DEF ParseStep, ParseEnd, ParseCommand, PushCommand, ParseUnknown,
                queueVars, clientVars
  <2>2. CASE received' = received
    BY <2>1, <2>2, HistoriesGrow DEF LocalTypeOK
  <2>3. CASE ParseCommand(session)
    <3> DEFINE entry == [cmd     |-> [type   |-> Entry.name,
                                      server |-> Entry.server,
                                      client |-> Entry.client],
                         session |-> session]
    <3>1. received' = Append(received, entry) /\ entry.session = session
      BY <2>3 DEF ParseCommand, PushCommand
    <3> HIDE DEF entry
    <3>2. /\ DOMAIN received' = 1 .. Len(received) + 1
          /\ \A i \in DOMAIN received : received'[i] = received[i]
          /\ received'[Len(received) + 1] = entry
      BY <3>1
    <3>3. session \notin completed
      BY <1>1 DEF ParseStep, CompletionInv, InSession
    <3>4. ASSUME NEW i \in DOMAIN received'
          PROVE  \/ i \in DOMAIN received /\ received'[i] = received[i]
                 \/ received'[i].session \notin completed
      <4>1. i \in 1 .. Len(received) \/ i = Len(received) + 1
        BY <3>2
      <4> QED
        BY <3>1, <3>2, <3>3, <4>1
    <3> QED
      BY <2>1, <3>2, <3>4, HistoriesGrow
  <2> QED
    BY <1>1, <2>2, <2>3 DEF ParseStep, ParseEnd, ParseUnknown, queueVars
<1>2. CASE RunCommand
  <2>1. /\ received' = received /\ reported' = reported
        /\ executed' = executed + 1 /\ completed' = completed
    BY <1>2 DEF RunCommand, DoCommand, DoUnsupported, HgetBadUrl, HgetNoConnection,
                HgetDownloaded, PopFront, clientVars
  <2>2. CASE answers' = answers
    BY <2>1, <2>2, HistoriesGrow
  <2>3. CASE \E code \in {200, 501} : Respond(code)
    <3>1. PICK answer : answers' = Append(answers, answer) /\ answer.cmd = executed + 1
      <4>1. PICK code \in {200, 501} : Respond(code)
        BY <2>3
      <4> DEFINE pushed == [cmd |-> executed + 1, code |-> code]
      <4>2. answers' = Append(answers, pushed)
        BY <4>1 DEF Respond
      <4>3. pushed.cmd = executed + 1
        OBVIOUS
      <4> HIDE DEF pushed
      <4> QED
        BY <4>2, <4>3
    <3>2. /\ DOMAIN answers' = 1 .. Len(answers) + 1
          /\ \A k \in DOMAIN answers : answers'[k] = answers[k]
          /\ answers'[Len(answers) + 1] = answer
      BY <3>1
    <3>3. ASSUME NEW k \in DOMAIN answers'
          PROVE  \/ k \in DOMAIN answers /\ answers'[k] = answers[k]
                 \/ answers'[k].cmd > executed
      <4>1. k \in 1 .. Len(answers) \/ k = Len(answers) + 1
        BY <3>2
      <4> QED
        BY <3>1, <3>2, <4>1
    <3> QED
      BY <2>1, <3>3, HistoriesGrow
  <2>4. ASSUME NEW uri \in Uris, NEW body \in Bodies, HgetDownloaded(uri, body)
        PROVE  \E code \in {200, 501} : Respond(code)
    BY <2>4 DEF HgetDownloaded
  <2> QED
    BY <1>2, <2>2, <2>3, <2>4
       DEF RunCommand, DoCommand, DoUnsupported, HgetBadUrl, HgetNoConnection, NoResponse
<1>3. CASE SendP3
  <2>1. UNCHANGED <<completed, received, executed, answers>> /\ reported' = Len(answers)
    BY <1>3 DEF SendP3, DrainResponses
  <2>2. reported <= Len(answers)
    BY PositionsInRange
  <2> QED
    BY <2>1, <2>2, HistoriesGrow
<1>4. CASE SessionEnds /\ p3_sent
  <2>1. /\ UNCHANGED queueVars /\ completed' = completed \cup {session}
        /\ commands = <<>> /\ responses = <<>>
    BY <1>4 DEF SessionEnds, CompletionInv, AfterP3
  <2>2. executed = Len(received) /\ reported = Len(answers)
    BY <2>1 DEF QueuesAreFifo
  <2> QED
    BY <2>1, <2>2 DEF CompletedLeavesNothing, queueVars
<1>5. ASSUME UNCHANGED queueVars, UNCHANGED completed
      PROVE  CompletedLeavesNothing'
  BY <1>5 DEF CompletionInv, CompletedLeavesNothing, queueVars
<1>6. ASSUME SessionStep, ~ParseStep, ~RunCommand, ~SendP3, ~(SessionEnds /\ p3_sent)
      PROVE  UNCHANGED queueVars /\ UNCHANGED completed
  BY <1>6 DEF SessionStep, ReceiveP2, P1Lost, ParseAborts, ParseContinues,
              SessionEnds, CommandThrows, HgetThrows, CommandCrashes, HgetCrashes,
              clientVars
<1>7. ASSUME Application \/ UNCHANGED vars
      PROVE  UNCHANGED queueVars /\ UNCHANGED completed
  BY <1>7 DEF Application, BuildTree, SetP1DumpTree, StartSession, vars, clientVars
<1> QED
  BY <1>1, <1>2, <1>3, <1>4, <1>5, <1>6, <1>7 DEF Next

(* Nothing but the END of send_P3 is parsed after a package 3.             *)
LEMMA NextAfterP3 ==
  ASSUME TypeInv, p3_sent => AfterP3, [Next]_vars
  PROVE  p3_sent' => AfterP3'
<1> USE DEF TypeInv, QueueInv, QueueTypeOK, LocalTypeOK
<1>1. CASE SendP3
  <2>1. /\ phase' = "P2" /\ p2' = P3Reply
        /\ commands' = commands /\ commands = <<>> /\ responses' = <<>>
    BY <1>1 DEF SendP3, DoCommandsDone, DrainResponses, BeginParse
  <2> QED
    BY <2>1, P3ReplyIsEnd DEF AfterP3
<1>2. CASE ParseStep
  <2> SUFFICES ASSUME p3_sent
               PROVE  AfterP3'
    BY <1>2 DEF ParseStep, clientVars
  <2>1. /\ p2.form = "array" /\ \A i \in DOMAIN p2.cmds : p2.cmds[i].name = "END"
        /\ commands = <<>> /\ responses = <<>> /\ phase = "P2" /\ phase' = "P2"
    BY <1>2 DEF ParseStep, AfterP3
  <2>2. /\ p2 \in PackageShape /\ p2.cmds \in Seq(JCommands) /\ p2.cmds # <<>>
        /\ p2' = [p2 EXCEPT !.cmds = Tail(@)]
    BY <1>2 DEF ParseStep, ParseEnd, ParseCommand, ParseUnknown, Parsing, Consume,
                ParseTypeOK, PackageShape
  <2>3. Entry.name = "END"
    BY <2>1, <2>2 DEF Entry
  <2>4. ParseEnd
    BY <1>2, <2>3 DEF ParseStep, ParseCommand, ParseUnknown, CommandTypes
  <2>5. session_continue' = FALSE /\ UNCHANGED queueVars
    BY <2>4 DEF ParseEnd
  <2>6. p2'.form = "array" /\ p2'.cmds = Tail(p2.cmds)
    BY <2>1, <2>2 DEF PackageShape
  <2>7. \A i \in DOMAIN p2'.cmds : p2'.cmds[i].name = "END"
    <3>1. \A i \in DOMAIN Tail(p2.cmds) :
             i + 1 \in DOMAIN p2.cmds /\ Tail(p2.cmds)[i] = p2.cmds[i + 1]
      BY <2>2, HeadTailProperties
    <3> QED
      BY <2>1, <2>6, <3>1
  <2> QED
    BY <2>1, <2>5, <2>6, <2>7 DEF AfterP3, queueVars
<1>3. ASSUME ParseContinues
      PROVE  ~p3_sent'
  <2>1. p2.form = "array" /\ p2.cmds = <<>> /\ session_continue /\ phase = "P2"
    BY <1>3 DEF ParseContinues, ParseDone, ParseResult
  <2> QED
    BY <1>3, <2>1 DEF ParseContinues, AfterP3, clientVars
<1>4. ASSUME SessionEnds \/ ParseAborts \/ CommandThrows
      PROVE  phase' \in {"Idle", "Dead"}
  BY <1>4 DEF SessionEnds, ParseAborts, CommandThrows, Escapes
<1>5. CASE SessionEnds \/ ParseAborts \/ CommandThrows \/ CommandCrashes
  <2>1. phase' \in {"Idle", "Dead"}
    BY <1>4, <1>5 DEF CommandCrashes
  <2> QED
    BY <2>1 DEF AfterP3
<1>6. ASSUME NEW package \in Packages \cup {Unparsable}, ReceiveP2(package)
      PROVE  ~p3_sent'
  BY <1>6 DEF ReceiveP2, AfterP3, clientVars
<1>7. CASE RunCommand
  BY <1>7 DEF RunCommand, AfterP3, clientVars
<1>8. ASSUME NEW type \in AlertTypes, StartSession(type)
      PROVE  ~p3_sent'
  BY <1>8 DEF StartSession
<1>9. ASSUME UNCHANGED <<queueVars, parseVars, phase, p3_sent>>
      PROVE  p3_sent' => AfterP3'
  BY <1>9 DEF AfterP3, queueVars, parseVars
<1>10. ASSUME BuildTree \/ (\E enable \in BOOLEAN : SetP1DumpTree(enable)) \/ UNCHANGED vars
       PROVE  UNCHANGED <<queueVars, parseVars, phase, p3_sent>>
  BY <1>10 DEF BuildTree, SetP1DumpTree, vars, clientVars
<1> QED
  BY <1>1, <1>2, <1>3, <1>5, <1>6, <1>7, <1>8, <1>9, <1>10
     DEF Next, SessionStep, Application, P1Lost

LEMMA NextCompletionInv ==
  ASSUME TypeInv, CompletionInv, [Next]_vars, QueueInv'
  PROVE  CompletionInv'
<1> USE DEF TypeInv, LocalTypeOK
<1>1. p3_sent' => AfterP3'
  BY NextAfterP3 DEF CompletionInv
<1>2. (\A s \in completed' : s <= session') /\ (InSession' => session' \notin completed')
  <2>1. ASSUME NEW type \in AlertTypes, StartSession(type)
        PROVE  /\ \A s \in completed' : s <= session'
               /\ session' \notin completed'
    <3>1. session' = session + 1 /\ completed' = completed
      BY <2>1 DEF StartSession
    <3>2. \A s \in completed : s \in Nat /\ s <= session
      BY DEF CompletionInv
    <3> QED
      BY <3>1, <3>2
  <2>2. CASE SessionEnds
    <3>1. /\ session' = session /\ ~InSession'
          /\ \A s \in completed' : s \in completed \/ s = session
      BY <2>2 DEF SessionEnds, InSession
    <3>2. \A s \in completed : s <= session
      BY DEF CompletionInv
    <3>3. ASSUME NEW s \in completed'
          PROVE  s <= session'
      <4>1. CASE s \in completed
        BY <3>1, <3>2, <4>1
      <4>2. CASE s = session
        <5>1. session \in Nat
          OBVIOUS
        <5> QED
          BY <3>1, <4>2, <5>1
      <4> QED
        BY <3>1, <4>1, <4>2
    <3> QED
      BY <3>1, <3>3
  <2>3. ASSUME UNCHANGED <<session, completed>>, InSession' => InSession
        PROVE  /\ \A s \in completed' : s <= session'
               /\ InSession' => session' \notin completed'
    BY <2>3 DEF CompletionInv
  <2>4. ASSUME SessionStep, ~SessionEnds
        PROVE  UNCHANGED <<session, completed>> /\ (InSession' => InSession)
    BY <2>4 DEF SessionStep, ReceiveP2, P1Lost, ParseStep, ParseAborts,
                ParseContinues, RunCommand, CommandThrows, CommandCrashes, SendP3,
                Escapes, InSession, clientVars
  <2>5. ASSUME BuildTree \/ (\E enable \in BOOLEAN : SetP1DumpTree(enable))
                 \/ UNCHANGED vars
        PROVE  UNCHANGED <<session, completed>> /\ (InSession' => InSession)
    BY <2>5 DEF BuildTree, SetP1DumpTree, vars, clientVars, InSession
  <2> QED
    BY <2>1, <2>2, <2>3, <2>4, <2>5 DEF Next, Application
<1>3. CompletedLeavesNothing'
  BY NextCompletedLeavesNothing
<1> QED
  BY <1>1, <1>2, <1>3 DEF CompletionInv

LEMMA NextClientInv == ClientInv /\ [Next]_vars => ClientInv'
<1> SUFFICES ASSUME ClientInv, [Next]_vars
             PROVE  ClientInv'
  OBVIOUS
<1>1. TypeInv'
  BY NextTypeInv DEF ClientInv
<1>2. AlertInv'
  BY NextAlertInv DEF ClientInv
<1>3. CompletionInv'
  BY <1>1, NextCompletionInv DEF ClientInv, TypeInv
<1> QED
  BY <1>1, <1>2, <1>3 DEF ClientInv

(* An alert goes into exactly one package, the package 1 of the session    *)
(* that raised it (AlertQueue.cpp:15-26, DMClient.cpp:29-37, 51).          *)
THEOREM AlertsPackagedOnce == Spec => []AlertPackagedOnce
<1>1. ClientInv => AlertPackagedOnce
  BY DEF ClientInv, AlertInv
<1> QED
  BY <1>1, ClientInitInv, NextClientInv, PTL DEF Spec

(* A session that got its final END leaves no command and no status behind *)
(* (DMClient.cpp:47-53, Session.cpp:51-138).                               *)
THEOREM CompletedIsClean == Spec => []CompletedLeavesNothing
<1>1. ClientInv => CompletedLeavesNothing
  BY DEF ClientInv, CompletionInv
<1> QED
  BY <1>1, ClientInitInv, NextClientInv, PTL DEF Spec

-----------------------------------------------------------------------------
(* The tree between and during sessions: only the application changes it,  *)
(* while no session runs (DMClient.cpp:29-54); a session at most calls     *)
(* get_val.                                                                *)
LEMMA NextOnTree ==
  ASSUME [Next]_vars
  PROVE  [TreeNext]_treeVars \/ UNCHANGED <<MOs, accepted>>
<1>1. ASSUME NEW package, ReceiveP2(package)
      PROVE  UNCHANGED treeVars
  BY <1>1 DEF ReceiveP2
<1>2. ASSUME NEW type \in AlertTypes, StartSession(type)
      PROVE  UNCHANGED <<MOs, accepted>>
  BY <1>2 DEF StartSession
<1>3. CASE \/ ParseStep \/ ParseAborts \/ ParseContinues \/ SessionEnds
           \/ RunCommand \/ CommandThrows \/ CommandCrashes \/ SendP3
           \/ \E enable \in BOOLEAN : SetP1DumpTree(enable)
  BY <1>3 DEF ParseStep, ParseAborts, ParseContinues, SessionEnds, RunCommand,
              CommandThrows, CommandCrashes, SendP3, SetP1DumpTree
<1>4. CASE UNCHANGED vars
  BY <1>4 DEF vars
<1> QED
  BY <1>1, <1>2, <1>3, <1>4
     DEF Next, SessionStep, Application, BuildTree, P1Lost, treeVars

(* Whatever sessions do, an instance stays where the application added it  *)
(* (MOTree.cpp:63, MOHandler.cpp:139-143).                                 *)
THEOREM SessionsKeepInstances == Spec => InstancesStay
<1>1. ASSUME TreeInv, [Next]_vars, NEW urn \in Segments, NEW miid \in Segments,
             Registered(urn), Has(MOs[urn], miid)
      PROVE  /\ Registered(urn)'
             /\ MOs'[urn].instance[miid] = MOs[urn].instance[miid]
  <2>1. CASE [TreeNext]_treeVars
    BY <1>1, <2>1, TreeStepKeepsInstances
  <2>2. CASE UNCHANGED <<MOs, accepted>>
    BY <1>1, <2>2 DEF Registered
  <2> QED
    BY <1>1, <2>1, <2>2, NextOnTree
<1>2. TypeInv => TreeInv
  BY DEF TypeInv
<1>3. TypeInv /\ [Next]_vars =>
        [\A urn, miid \in Segments :
          Registered(urn) /\ Has(MOs[urn], miid)
            => /\ Registered(urn)'
               /\ MOs'[urn].instance[miid] = MOs[urn].instance[miid]]_treeVars
  BY <1>1, <1>2
<1> QED
  BY <1>3, TypeInitInv, NextTypeInv, PTL DEF Spec, InstancesStay

(* All a session finds in the tree declared itself compatible with its urn *)
(* (MOHandler.cpp:144-150).                                                *)
THEOREM SessionsFindOnlyAccepted == Spec => []OnlyAccepted
<1>1. TypeInv => TreeInv
  BY DEF TypeInv
<1>2. Init => OnlyAccepted
  BY DEF Init, TreeInit, OnlyAccepted, Registered
<1>3. ASSUME TypeInv, OnlyAccepted, [Next]_vars
      PROVE  OnlyAccepted'
  <2>1. CASE [TreeNext]_treeVars
    BY <1>1, <1>3, <2>1, TreeNextAccepted
  <2>2. CASE UNCHANGED <<MOs, accepted>>
    BY <1>3, <2>2 DEF OnlyAccepted, Registered
  <2> QED
    BY <1>3, <2>1, <2>2, NextOnTree
<1> QED
  BY <1>2, <1>3, TypeInitInv, NextTypeInv, PTL DEF Spec

-----------------------------------------------------------------------------
(* Refinement.                                                             *)

LEMMA InitRefines == Init => Abstract!SessionInit
  BY DEF Init, QueueInit, InSession, Abstract!SessionInit

LEMMA NextRefines ==
  ASSUME TypeInv, [Next]_vars
  PROVE  [Abstract!SessionNext]_Abstract!sessionVars
<1> USE DEF Abstract!SessionNext, Abstract!sessionVars
<1>1. CASE RunCommand
  <2>1. InSession /\ InSession' /\ commands # <<>> /\ commands' = Tail(commands)
    BY <1>1 DEF RunCommand, DoCommand, DoUnsupported, HgetBadUrl, HgetNoConnection,
                HgetDownloaded, Downloads, IsHget, PopFront, InSession
  <2>2. \/ \E code \in {200, 501} : responses' = Append(responses, code)
        \/ Front.type = "HGET" /\ responses' = responses
    BY <1>1 DEF RunCommand, DoCommand, DoUnsupported, HgetBadUrl, HgetNoConnection,
                HgetDownloaded, Downloads, IsHget, Respond, NoResponse
  <2>3. Front \in Commands
    BY <2>1, HeadTailProperties DEF Front, TypeInv, QueueInv, QueueTypeOK
  <2>4. Abstract!Execute
    BY <2>1, <2>2, <2>3 DEF Abstract!Execute, Front
  <2> QED
    BY <2>4
<1>2. CASE ParseStep
  <2>1. InSession /\ InSession'
    BY <1>2 DEF ParseStep, InSession
  <2>2. CASE ParseCommand(session)
    <3> DEFINE command == [type   |-> Entry.name, server |-> Entry.server,
                           client |-> Entry.client]
    <3>1. commands' = Append(commands, command) /\ responses' = responses
      BY <2>2 DEF ParseCommand, PushCommand
    <3>2. Entry \in JCommandShape
      BY <2>2, HeadTailProperties DEF ParseCommand, Parsing, Entry, TypeInv,
         LocalTypeOK, ParseTypeOK, PackageShape
    <3>3. command \in Commands
      BY <2>2, <3>2 DEF ParseCommand, JCommandShape, Commands
    <3> HIDE DEF command
    <3>4. Abstract!Receive(command)
      BY <2>1, <3>1 DEF Abstract!Receive
    <3> QED
      BY <3>3, <3>4
  <2>3. CASE ParseEnd \/ ParseUnknown
    BY <2>1, <2>3 DEF ParseEnd, ParseUnknown, queueVars
  <2> QED
    BY <1>2, <2>2, <2>3 DEF ParseStep
<1>3. CASE SendP3
  <2>1. /\ InSession /\ InSession' /\ commands = <<>>
        /\ commands' = commands /\ responses' = <<>>
    BY <1>3 DEF SendP3, DoCommandsDone, DrainResponses, InSession
  <2>2. Abstract!HandOver
    BY <2>1 DEF Abstract!HandOver
  <2> QED
    BY <2>2
<1>4. CASE ParseAborts \/ SessionEnds \/ CommandThrows \/ CommandCrashes
  <2>1. InSession /\ ~InSession' /\ UNCHANGED <<commands, responses>>
    BY <1>4 DEF ParseAborts, SessionEnds, CommandThrows, HgetThrows, CommandCrashes,
                HgetCrashes, Escapes, InSession, queueVars
  <2>2. Abstract!Close
    BY <2>1 DEF Abstract!Close
  <2> QED
    BY <2>2
<1>5. ASSUME NEW type \in AlertTypes, StartSession(type)
      PROVE  [Abstract!SessionNext]_Abstract!sessionVars
  <2>1. ~InSession /\ UNCHANGED <<commands, responses>>
    BY <1>5 DEF StartSession, InSession, queueVars
  <2>2. CASE InSession'
    <3>1. InSession' = TRUE
      BY <2>2 DEF InSession
    <3>2. Abstract!Open
      BY <2>1, <3>1 DEF Abstract!Open
    <3> QED
      BY <3>2
  <2>3. CASE ~InSession'
    <3>1. InSession' = InSession
      BY <2>1, <2>3 DEF InSession
    <3> QED
      BY <2>1, <3>1
  <2> QED
    BY <2>2, <2>3
<1>6. ASSUME UNCHANGED <<commands, responses>>, InSession' = InSession
      PROVE  [Abstract!SessionNext]_Abstract!sessionVars
  BY <1>6
<1>7. ASSUME \/ \E package \in Packages \cup {Unparsable} : ReceiveP2(package)
             \/ ParseContinues \/ BuildTree \/ UNCHANGED vars
             \/ \E enable \in BOOLEAN : SetP1DumpTree(enable)
      PROVE  UNCHANGED <<commands, responses>> /\ InSession' = InSession
  BY <1>7 DEF ReceiveP2, ParseContinues, BuildTree, SetP1DumpTree, vars, queueVars,
              InSession
<1> QED
  BY <1>1, <1>2, <1>3, <1>4, <1>5, <1>6, <1>7
     DEF Next, SessionStep, Application, P1Lost

(* The deques behave as ManagementSession says a backlog and its statuses  *)
(* do (DMClient.cpp:47-53, CommandQueue.cpp:18-38, 80-94).                 *)
THEOREM SessionRefinement == Spec => ImplementsManagementSession
<1>1. TypeInv /\ [Next]_vars => [Abstract!SessionNext]_Abstract!sessionVars
  BY NextRefines
<1> QED
  BY <1>1, InitRefines, TypeInitInv, NextTypeInv, PTL
     DEF Spec, ImplementsManagementSession, Abstract!SessionSpec
=============================================================================
