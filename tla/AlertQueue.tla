----------------------------- MODULE AlertQueue -----------------------------
(***************************************************************************)
(* client/src/AlertQueue.cpp: the deque of alerts and its two operations,  *)
(* as functions of the deque.  Alerts are marked in transit when they are  *)
(* packaged and are never removed.  A package is the set of the positions  *)
(* it serialises.                                                          *)
(***************************************************************************)
EXTENDS Naturals, Sequences

CONSTANT AlertTypes   (* ServerInitiatedMgmt, ClientInitiatedMgmt         *)

Alerts == [AlertType : AlertTypes, in_transit : BOOLEAN]

Alert(type) == [AlertType |-> type, in_transit |-> FALSE]

AddAlert(queue, alert) == Append(queue, alert)

(* package_alert_json: what it returns and what it leaves behind.          *)
PackagedAlerts(queue) == {i \in DOMAIN queue : ~queue[i].in_transit}

(* Mutant: packaged alerts are not marked in transit.                    *)
AfterPackagingUnmarked(queue) == queue

AfterPackaging(queue) ==
  [i \in DOMAIN queue |-> [queue[i] EXCEPT !.in_transit = TRUE]]
=============================================================================
