---------------------------- MODULE AddInstance -----------------------------
(***************************************************************************)
(* MOHandler::add_instance taken apart at its callback.  The miid is       *)
(* chosen, or found to be free, before the object is asked whether it is   *)
(* compatible, and the object inserted after it answered; what the object  *)
(* calls in between, on the thread it was handed, finds the miid unused.   *)
(***************************************************************************)
EXTENDS MOTree

CONSTANTS
  MaxDepth,      (* bound: add_MO calls under way at once                  *)
  OwnType        (* an object that is asked about a type may add others to *)
                 (* that same type; FALSE: only to other types             *)

ASSUME DepthAssumption ==
  /\ MaxDepth \in Nat \ {0}
  /\ OwnType \in BOOLEAN

VARIABLES
  stack,         (* the add_instance calls that await their object's answer *)
  added          (* history: <<urn, miid, mo>> of the calls that succeeded *)

addVars == <<treeVars, stack, added>>

Pending(urn) == {i \in DOMAIN stack : stack[i].urn = urn}

AddInit == TreeInit /\ stack = <<>> /\ added = {}

(* The application, or an object that is being asked, registers a type;    *)
(* what add_MO refuses without asking the object changes nothing.          *)
Build ==
  /\ \/ \E urn \in Urns, tree \in Trees : RegisterDDF(urn, tree)
     \/ RefuseDDF
     \/ \E urn \in Urns, miid \in UserMiids : RefuseMO(urn, miid)
  /\ UNCHANGED <<stack, added>>

(* The bound is that of AddMO, with the calls under way counted in.        *)
Room(urn) ==
  /\ Len(stack) < MaxDepth
  /\ Registered(urn)
  /\ OwnType \/ Pending(urn) = {}
  /\ Cardinality(Instances(MOs[urn])) + Cardinality(Pending(urn)) < MaxInstances

(* Mutant: the object is inserted before it is asked.                      *)
AskInserted(urn, mo, miid, name, h) ==
  /\ MOs' = [MOs EXCEPT ![urn] = Offer(h, name, mo, TRUE)]
  /\ stack' = Append(stack, [urn |-> urn, mo |-> mo, miid |-> miid, name |-> name,
                             before |-> MOs[urn].next_miid])
  /\ UNCHANGED <<calls, accepted, added>>

Ask(urn, mo, miid, name, h) ==
  /\ MOs' = [MOs EXCEPT ![urn] = h]
  /\ stack' = Append(stack, [urn |-> urn, mo |-> mo, miid |-> miid, name |-> name,
                             before |-> MOs[urn].next_miid])
  /\ UNCHANGED <<calls, accepted, added>>

(* Mutant: whether the miid is taken is not looked up.                     *)
BeginAddUnchecked(urn, mo, miid) ==
  /\ Room(urn) /\ miid # NoMiid
  /\ Ask(urn, mo, miid, miid, MOs[urn])

BeginAdd(urn, mo, miid) ==
  /\ Room(urn) /\ miid # NoMiid
  /\ ~Has(MOs[urn], miid)
  /\ Ask(urn, mo, miid, miid, MOs[urn])

BeginAddProbing(urn, mo) ==
  /\ Room(urn)
  /\ Ask(urn, mo, NoMiid, Probed(MOs[urn], FirstFree(MOs[urn])), ProbeMiid(MOs[urn]))

Top == stack[Len(stack)]

(* The innermost object answers; it is inserted if it is compatible.       *)
Answer(compatible) ==
  /\ stack # <<>>
  /\ MOs' = [MOs EXCEPT ![Top.urn] = Offer(@, Top.name, Top.mo, compatible)]
  /\ calls' = calls \cup {<<Top.mo, "check_ddf_name_compatibility">>}
  /\ accepted' = IF compatible THEN accepted \cup {<<Top.mo, Top.urn>>} ELSE accepted
  /\ added' = IF compatible THEN added \cup {<<Top.urn, Top.name, Top.mo>>} ELSE added
  /\ stack' = SubSeq(stack, 1, Len(stack) - 1)

AddNext ==
  \/ Build
  \/ \E urn \in Urns, mo \in Mos :
       \/ BeginAddProbing(urn, mo)
       \/ \E miid \in UserMiids : BeginAdd(urn, mo, miid)
  \/ \E compatible \in BOOLEAN : Answer(compatible)

AddSpec == AddInit /\ [][AddNext]_addVars

-----------------------------------------------------------------------------
(* An add_MO that returned true has its object in the tree, under the miid *)
(* it checked or made up (MOHandler.cpp:139-146), if no object adds to the *)
(* type it is being asked about.                                           *)
AddedIsListed ==
  \A entry \in added :
    MOs[entry[1]].instance[entry[2]] = entry[3]

(* "library will assign a unique miid" (MOTree.cpp:90), "check if user     *)
(* provided miid is unique" (MOHandler.cpp:141): no two objects were added *)
(* to a type under one miid.                                               *)
MiidsAreUnique ==
  \A a, b \in added : a[1] = b[1] /\ a[2] = b[2] => a[3] = b[3]

(* What objects add to other types while they are asked, and what is       *)
(* registered or refused meanwhile, cannot tell an unfinished call from    *)
(* one that has not begun, nor a finished one from the single step MOTree  *)
(* takes it for: the miid chosen before the question is the one MOTree     *)
(* would choose after it (MOHandler.cpp:137-151).  A callback counts once  *)
(* it has returned.                                                        *)
HandlerBefore(urn) ==
  IF Pending(urn) = {}
    THEN MOs[urn]
    ELSE [MOs[urn] EXCEPT
            !.next_miid = stack[CHOOSE i \in Pending(urn) : TRUE].before]

Atomic == INSTANCE MOTree WITH
  MOs <- [urn \in Segments |-> HandlerBefore(urn)]

ImplementsMOTree == Atomic!TreeSpec
=============================================================================
