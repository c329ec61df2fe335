-------------------------- MODULE ManagementSession --------------------------
(***************************************************************************)
(* What the client promises about the commands of a DM server, without the *)
(* packages, the parser, the network and the tree: commands received while *)
(* a session is open are executed first come first served, each leaving    *)
(* the backlog with at most one status; statuses are handed over all at    *)
(* once and only when the backlog is empty; a session may close at any     *)
(* point, and the backlog and the statuses wait for the next one.          *)
(***************************************************************************)
EXTENDS Sequences

CONSTANTS
  Cmds,          (* commands                                               *)
  MayBeSilent,   (* those that may be executed without a status            *)
  Codes          (* status codes                                           *)

VARIABLES
  open,          (* a session is running                                   *)
  backlog,       (* commands received and not executed                     *)
  statuses       (* statuses not handed over                               *)

sessionVars == <<open, backlog, statuses>>

SessionInit == open = FALSE /\ backlog = <<>> /\ statuses = <<>>

Open ==
  /\ ~open /\ open' = TRUE
  /\ UNCHANGED <<backlog, statuses>>

Receive(cmd) ==
  /\ open
  /\ backlog' = Append(backlog, cmd)
  /\ UNCHANGED <<open, statuses>>

Execute ==
  /\ open /\ backlog # <<>>
  /\ backlog' = Tail(backlog)
  /\ \/ \E code \in Codes : statuses' = Append(statuses, code)
     \/ Head(backlog) \in MayBeSilent /\ UNCHANGED statuses
  /\ UNCHANGED open

HandOver ==
  /\ open /\ backlog = <<>>
  /\ statuses' = <<>>
  /\ UNCHANGED <<open, backlog>>

Close ==
  /\ open /\ open' = FALSE
  /\ UNCHANGED <<backlog, statuses>>

SessionNext ==
  \/ Open \/ Close
  \/ \E cmd \in Cmds : Receive(cmd)
  \/ Execute \/ HandOver

SessionSpec == SessionInit /\ [][SessionNext]_sessionVars
=============================================================================
