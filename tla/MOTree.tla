------------------------------- MODULE MOTree -------------------------------
(***************************************************************************)
(* client/src/MOTree.cpp: the registered MO types, each with its handler,  *)
(* and the calls the application makes to build the tree.                  *)
(***************************************************************************)
EXTENDS MOHandler

CONSTANTS
  Urns,          (* MO types the application knows                         *)
  NoHandler,     (* a urn that is absent from the MOs map                  *)
  NoMiid,        (* the empty miid: the library is to assign one           *)
  UserMiids,     (* miids the application picks itself                     *)
  MaxInstances   (* bound: instances of one MO type                        *)

ASSUME TreeAssumption ==
  /\ Urns \subseteq Segments
  /\ UserMiids \subseteq Segments
  /\ NoMiid \notin Segments
  /\ NoHandler \notin Handlers
  /\ MaxInstances \in Nat /\ MaxInstances < Wrap

Callbacks == {"check_ddf_name_compatibility", "init_mo", "get_val", "set_val"}

VARIABLES
  MOs,           (* urn -> handler                                         *)
  calls,         (* history: callbacks the library made on each MO object  *)
  accepted       (* history: <<mo, urn>> the object declared compatible    *)

treeVars == <<MOs, calls, accepted>>

Registered(urn) == MOs[urn] # NoHandler

TreeInit ==
  /\ MOs = [urn \in Segments |-> NoHandler]
  /\ calls = {}
  /\ accepted = {}

(* The DDF file parses into tree; a file that does not is RefuseDDF.       *)
RegisterDDF(urn, tree) ==
  /\ ~Registered(urn)
  /\ MOs' = [MOs EXCEPT ![urn] = NewHandler(tree)]
  /\ UNCHANGED <<calls, accepted>>

(* A second registration of a urn succeeds and is ignored, whatever file   *)
(* it names; a file that cannot be parsed registers nothing.               *)
RefuseDDF == UNCHANGED treeVars

(* add_instance: choose or check the miid, ask the object, insert.         *)
AddMO(urn, mo, miid, compatible) ==
  /\ Registered(urn)
  /\ Cardinality(Instances(MOs[urn])) < MaxInstances
  /\ miid # NoMiid => ~Has(MOs[urn], miid)
  /\ LET h    == IF miid = NoMiid THEN ProbeMiid(MOs[urn]) ELSE MOs[urn]
         name == IF miid = NoMiid THEN Probed(MOs[urn], FirstFree(MOs[urn]))
                                  ELSE miid
     IN  MOs' = [MOs EXCEPT ![urn] = Offer(h, name, mo, compatible)]
  /\ calls' = calls \cup {<<mo, "check_ddf_name_compatibility">>}
  /\ accepted' = IF compatible THEN accepted \cup {<<mo, urn>>} ELSE accepted

(* No DDF for the urn, or the miid is taken: false, nothing done.          *)
RefuseMO(urn, miid) ==
  /\ Registered(urn) => miid # NoMiid /\ Has(MOs[urn], miid)
  /\ UNCHANGED treeVars

TreeNext ==
  \/ \E urn \in Urns, tree \in Trees : RegisterDDF(urn, tree)
  \/ RefuseDDF
  \/ \E urn \in Urns, mo \in Mos, miid \in UserMiids \cup {NoMiid},
        compatible \in BOOLEAN : AddMO(urn, mo, miid, compatible)
  \/ \E urn \in Urns, miid \in UserMiids \cup {NoMiid} : RefuseMO(urn, miid)

TreeSpec == TreeInit /\ [][TreeNext]_treeVars

-----------------------------------------------------------------------------
(* node_set splits "<urn>/<miid>/<path>" at the first '/'.  Without one,   *)
(* substr(npos+1) is the whole string, so the urn doubles as the path.     *)
NodeSet(uri, body) ==
  LET path == IF Len(uri) > 1 THEN Tail(uri) ELSE uri
  IN  IF Registered(uri[1]) THEN HandlerNodeSet(MOs[uri[1]], path, body)
                            ELSE "false"

-----------------------------------------------------------------------------
TreeTypeOK ==
  /\ MOs \in [Segments -> Handlers \cup {NoHandler}]
  /\ calls \subseteq Mos \X Callbacks
  /\ accepted \subseteq Mos \X Urns

(* An instance in the tree declared itself compatible with the urn it is   *)
(* listed under, however registrations, refusals and miids interleave      *)
(* (MOHandler.cpp:144-150).                                                *)
OnlyAccepted ==
  \A urn, miid \in Segments :
    Registered(urn) /\ Has(MOs[urn], miid)
      => <<MOs[urn].instance[miid], urn>> \in accepted

(* No later call replaces or drops an instance: not a second registration  *)
(* of its urn, not an add under the same miid, not a library-assigned      *)
(* numeral that meets one the application picked (MOTree.cpp:63,           *)
(* MOHandler.cpp:139-143).                                                 *)
InstancesStay ==
  [][\A urn, miid \in Segments :
       Registered(urn) /\ Has(MOs[urn], miid)
         => /\ Registered(urn)'
            /\ MOs'[urn].instance[miid] = MOs[urn].instance[miid]]_treeVars

(* MO_Interface.h:135-138: the library calls init_mo() after successfully  *)
(* adding the instance.  The code never does.                              *)
AddedIsInitialised ==
  \A urn, miid \in Segments :
    Registered(urn) /\ Has(MOs[urn], miid)
      => <<MOs[urn].instance[miid], "init_mo">> \in calls
=============================================================================
