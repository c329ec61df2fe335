---------------------------- MODULE MOTreeProofs ----------------------------
(***************************************************************************)
(* Proofs about MOTree, for every set of segments, urns and objects and    *)
(* every value of Wrap.                                                    *)
(***************************************************************************)
EXTENDS MOTree, FiniteSetTheorems, WellFoundedInduction, TLAPS

USE HandlerAssumption, TreeAssumption

-----------------------------------------------------------------------------
(* The unsigned counter, from any value, comes past every value.           *)
LEMMA EveryValueIsProbed ==
  ASSUME NEW h \in Handlers, NEW m \in 0 .. Wrap-1
  PROVE  \E k \in 0 .. Wrap-1 : Probed(h, k) = NumeralOf[m]
<1> DEFINE n == h.next_miid
           k == IF m >= n THEN m - n ELSE m - n + Wrap
<1>1. n \in 0 .. Wrap-1
  BY DEF Handlers
<1>2. k \in 0 .. Wrap-1
  BY <1>1
<1>3. m % Wrap = m /\ (m + Wrap) % Wrap = m
  OBVIOUS
<1>4. n + k = m \/ n + k = m + Wrap
  BY <1>1
<1>5. (n + k) % Wrap = m
  BY <1>3, <1>4
<1> QED
  BY <1>2, <1>5 DEF Probed

(* A type with fewer than Wrap instances has a numeral that is free, so    *)
(* the probing loop of add_instance ends (MOHandler.cpp:140).              *)
LEMMA SomeProbeIsFree ==
  ASSUME NEW h \in Handlers,
         IsFiniteSet(Instances(h)), Cardinality(Instances(h)) < MaxInstances
  PROVE  FreeProbes(h) # {}
<1> SUFFICES ASSUME FreeProbes(h) = {}
             PROVE  FALSE
  OBVIOUS
<1>1. \A m \in 0 .. Wrap-1 : NumeralOf[m] \in Instances(h)
  <2> TAKE m \in 0 .. Wrap-1
  <2>1. PICK k \in 0 .. Wrap-1 : Probed(h, k) = NumeralOf[m]
    BY EveryValueIsProbed
  <2>2. Has(h, Probed(h, k))
    BY DEF FreeProbes
  <2> QED
    BY <2>1, <2>2 DEF Instances
<1>2. NumeralOf \in [0 .. Wrap-1 -> Instances(h)]
  BY <1>1
<1>3. IsFiniteSet(0 .. Wrap-1) /\ Cardinality(0 .. Wrap-1) = Wrap
  <2>1. Wrap - 1 \in Int /\ ~(0 > Wrap - 1)
    OBVIOUS
  <2> QED
    BY <2>1, FS_Interval
<1>4. Cardinality(Instances(h)) \in Nat
  BY FS_CardinalityType
<1>5. Cardinality(Instances(h)) < Cardinality(0 .. Wrap-1)
  BY <1>3, <1>4
<1>6. \E x, y \in 0 .. Wrap-1 : x # y /\ NumeralOf[x] = NumeralOf[y]
  BY <1>2, <1>3, <1>5, FS_PigeonHole
<1> QED
  BY <1>6

LEMMA FirstFreeIsFree ==
  ASSUME NEW h \in Handlers, FreeProbes(h) # {}
  PROVE  /\ FirstFree(h) \in 0 .. Wrap-1
         /\ Probed(h, FirstFree(h)) \in Segments
         /\ ~Has(h, Probed(h, FirstFree(h)))
<1>1. FreeProbes(h) \subseteq Nat
  BY DEF FreeProbes
<1>2. \E k \in FreeProbes(h) : \A j \in FreeProbes(h) : k <= j
  <2> DEFINE below == OpToRel(<, Nat)
  <2>1. \A j, k \in Nat : <<j, k>> \notin below => k <= j
    BY DEF OpToRel
  <2>2. IsWellFoundedOn(below, Nat)
    BY NatLessThanWellFounded
  <2> HIDE DEF below
  <2>3. \E k \in FreeProbes(h) : \A j \in FreeProbes(h) : <<j, k>> \notin below
    BY <1>1, <2>2, WFMin
  <2> QED
    BY <1>1, <2>1, <2>3
<1>3. FirstFree(h) \in FreeProbes(h)
  BY <1>2 DEF FirstFree
<1>4. (h.next_miid + FirstFree(h)) % Wrap \in 0 .. Wrap-1
  <2>1. h.next_miid \in 0 .. Wrap-1
    BY DEF Handlers
  <2> QED
    BY <1>1, <1>3, <2>1
<1> QED
  BY <1>3, <1>4 DEF FreeProbes, Probed

-----------------------------------------------------------------------------
(* The counter's room is needed to probe: the instances of a type must be  *)
(* finitely many, which the type alone does not say.                       *)
FiniteInstances ==
  \A urn \in Segments : Registered(urn) => IsFiniteSet(Instances(MOs[urn]))

TreeInv == TreeTypeOK /\ FiniteInstances

LEMMA NewHandlerType ==
  ASSUME NEW tree \in Trees
  PROVE  /\ NewHandler(tree) \in Handlers
         /\ Instances(NewHandler(tree)) = {}
<1>1. NewHandler(tree) \in Handlers
  BY DEF NewHandler, Handlers
<1>2. Instances(NewHandler(tree)) = {}
  BY DEF NewHandler, Instances, Has
<1> QED
  BY <1>1, <1>2

(* However add_instance gets its miid, it is one the type does not have,   *)
(* and choosing it touches no instance (MOHandler.cpp:139-143).            *)
LEMMA AddMOTakesFreeMiid ==
  ASSUME TreeInv,
         NEW urn \in Urns, NEW mo \in Mos, NEW miid \in UserMiids \cup {NoMiid},
         NEW compatible \in BOOLEAN, AddMO(urn, mo, miid, compatible)
  PROVE  \E h \in Handlers, name \in Segments :
            /\ h.instance = MOs[urn].instance /\ h.root = MOs[urn].root
            /\ ~Has(MOs[urn], name)
            /\ MOs' = [MOs EXCEPT ![urn] = Offer(h, name, mo, compatible)]
<1> DEFINE g == MOs[urn]
<1>1. g \in Handlers /\ IsFiniteSet(Instances(g))
  BY DEF AddMO, TreeInv, TreeTypeOK, FiniteInstances, Registered
<1>2. CASE miid # NoMiid
  <2>1. miid \in Segments /\ ~Has(g, miid)
    BY <1>2 DEF AddMO
  <2>2. MOs' = [MOs EXCEPT ![urn] = Offer(g, miid, mo, compatible)]
    BY <1>2 DEF AddMO
  <2> QED
    BY <1>1, <2>1, <2>2
<1>3. CASE miid = NoMiid
  <2> DEFINE h    == ProbeMiid(g)
             name == Probed(g, FirstFree(g))
  <2>1. Cardinality(Instances(g)) < MaxInstances
    BY DEF AddMO
  <2>2. /\ FirstFree(g) \in 0 .. Wrap-1
        /\ name \in Segments /\ ~Has(g, name)
    BY <1>1, <2>1, SomeProbeIsFree, FirstFreeIsFree
  <2>3. g.next_miid \in 0 .. Wrap-1
    BY <1>1 DEF Handlers
  <2>4. (g.next_miid + FirstFree(g) + 1) % Wrap \in 0 .. Wrap-1
    BY <2>2, <2>3
  <2>5. h \in Handlers /\ h.instance = g.instance /\ h.root = g.root
    BY <1>1, <2>4 DEF ProbeMiid, Handlers
  <2>6. MOs' = [MOs EXCEPT ![urn] = Offer(h, name, mo, compatible)]
    BY <1>3 DEF AddMO
  <2> QED
    BY <2>2, <2>5, <2>6
<1> QED
  BY <1>2, <1>3

LEMMA OfferType ==
  ASSUME NEW h \in Handlers, NEW name \in Segments, NEW mo \in Mos,
         NEW compatible \in BOOLEAN
  PROVE  /\ Offer(h, name, mo, compatible) \in Handlers
         /\ Offer(h, name, mo, compatible).root = h.root
         /\ Instances(Offer(h, name, mo, compatible))
              = IF compatible THEN Instances(h) \cup {name} ELSE Instances(h)
<1>1. CASE compatible
  <2> DEFINE o == [h EXCEPT !.instance[name] = mo]
  <2>1. h.instance \in [Segments -> Mos \cup {NoMo}]
    BY DEF Handlers
  <2>2. o \in Handlers /\ o.root = h.root /\ o.instance = [h.instance EXCEPT ![name] = mo]
    BY <2>1 DEF Handlers
  <2>3. Instances(o) = Instances(h) \cup {name}
    BY <2>1, <2>2 DEF Instances, Has
  <2> QED
    BY <1>1, <2>2, <2>3 DEF Offer
<1>2. CASE ~compatible
  BY <1>2 DEF Offer
<1> QED
  BY <1>1, <1>2

LEMMA TreeInitInv == TreeInit => TreeInv
  BY DEF TreeInit, TreeInv, TreeTypeOK, FiniteInstances, Registered

LEMMA TreeNextInv == TreeInv /\ [TreeNext]_treeVars => TreeInv'
<1> SUFFICES ASSUME TreeInv, [TreeNext]_treeVars
             PROVE  TreeInv'
  OBVIOUS
<1>1. ASSUME NEW urn \in Urns, NEW tree \in Trees, RegisterDDF(urn, tree)
      PROVE  TreeInv'
  <2>1. MOs' = [MOs EXCEPT ![urn] = NewHandler(tree)]
    BY <1>1 DEF RegisterDDF
  <2>2. TreeTypeOK'
    BY <1>1, NewHandlerType DEF RegisterDDF, TreeInv, TreeTypeOK
  <2>3. FiniteInstances'
    BY <2>1, NewHandlerType, FS_EmptySet
       DEF TreeInv, TreeTypeOK, FiniteInstances, Registered
  <2> QED
    BY <2>2, <2>3 DEF TreeInv
<1>2. ASSUME NEW urn \in Urns, NEW mo \in Mos, NEW miid \in UserMiids \cup {NoMiid},
             NEW compatible \in BOOLEAN, AddMO(urn, mo, miid, compatible)
      PROVE  TreeInv'
  <2>1. PICK h \in Handlers, name \in Segments :
          /\ h.instance = MOs[urn].instance
          /\ MOs' = [MOs EXCEPT ![urn] = Offer(h, name, mo, compatible)]
    BY <1>2, AddMOTakesFreeMiid
  <2> DEFINE o == Offer(h, name, mo, compatible)
  <2>2. o \in Handlers
    BY OfferType
  <2>3. IsFiniteSet(Instances(o))
    <3>1. Instances(h) = Instances(MOs[urn])
      BY <2>1 DEF Instances, Has
    <3>2. IsFiniteSet(Instances(h))
      BY <1>2, <3>1 DEF TreeInv, FiniteInstances, AddMO
    <3>3. IsFiniteSet(Instances(h) \cup {name})
      BY <3>2, FS_AddElement
    <3>4. Instances(o) \in {Instances(h) \cup {name}, Instances(h)}
      BY OfferType
    <3> QED
      BY <3>2, <3>3, <3>4
  <2>4. /\ calls' \subseteq Mos \X Callbacks
        /\ accepted' \subseteq Mos \X Urns
    BY <1>2 DEF AddMO, TreeInv, TreeTypeOK, Callbacks
  <2> HIDE DEF o
  <2>5. TreeTypeOK'
    BY <2>1, <2>2, <2>4 DEF TreeInv, TreeTypeOK, o
  <2>6. FiniteInstances'
    BY <2>1, <2>3 DEF TreeInv, TreeTypeOK, FiniteInstances, Registered, o
  <2> QED
    BY <2>5, <2>6 DEF TreeInv
<1>3. CASE UNCHANGED treeVars
  BY <1>3 DEF treeVars, TreeInv, TreeTypeOK, FiniteInstances, Registered
<1> QED
  BY <1>1, <1>2, <1>3 DEF TreeNext, RefuseDDF, RefuseMO

(* The tree keeps its type: in particular next_miid stays in range and     *)
(* every miid, given or assigned, is a segment (MOTree.cpp:61-101,         *)
(* MOHandler.cpp:137-151).                                                 *)
THEOREM TreeTypeCorrect == TreeSpec => []TreeTypeOK
<1>1. TreeInv => TreeTypeOK
  BY DEF TreeInv
<1> QED
  BY <1>1, TreeInitInv, TreeNextInv, PTL DEF TreeSpec

-----------------------------------------------------------------------------
(* What InstancesStay says of one step.                                    *)
LEMMA TreeStepKeepsInstances ==
  ASSUME TreeInv, [TreeNext]_treeVars, NEW urn \in Segments, NEW miid \in Segments,
         Registered(urn), Has(MOs[urn], miid)
  PROVE  /\ Registered(urn)'
         /\ MOs'[urn].instance[miid] = MOs[urn].instance[miid]
<1>1. ASSUME NEW u \in Urns, NEW tree \in Trees, RegisterDDF(u, tree)
      PROVE  MOs'[urn] = MOs[urn]
  BY <1>1 DEF RegisterDDF, TreeInv, TreeTypeOK
<1>2. ASSUME NEW u \in Urns, NEW mo \in Mos, NEW m \in UserMiids \cup {NoMiid},
             NEW compatible \in BOOLEAN, AddMO(u, mo, m, compatible)
      PROVE  /\ Registered(urn)'
             /\ MOs'[urn].instance[miid] = MOs[urn].instance[miid]
  <2>1. PICK h \in Handlers, name \in Segments :
          /\ h.instance = MOs[u].instance
          /\ ~Has(MOs[u], name)
          /\ MOs' = [MOs EXCEPT ![u] = Offer(h, name, mo, compatible)]
    BY <1>2, AddMOTakesFreeMiid
  <2>2. CASE u # urn
    BY <2>1, <2>2 DEF Registered, TreeInv, TreeTypeOK
  <2>3. CASE u = urn
    <3>1. MOs'[urn] = Offer(h, name, mo, compatible)
      BY <2>1, <2>3 DEF TreeInv, TreeTypeOK
    <3>2. MOs'[urn] \in Handlers
      BY <3>1, OfferType
    <3>3. miid # name
      BY <2>1, <2>3
    <3>4. Offer(h, name, mo, compatible).instance[miid] = h.instance[miid]
      BY <3>3 DEF Offer, Handlers
    <3> QED
      BY <2>1, <2>3, <3>1, <3>2, <3>4 DEF Registered
  <2> QED
    BY <2>2, <2>3
<1>3. CASE UNCHANGED treeVars
  BY <1>3 DEF treeVars, Registered
<1> QED
  BY <1>1, <1>2, <1>3 DEF TreeNext, RefuseDDF, RefuseMO, Registered

(* Whatever the miids, their order and the value of the counter, no call   *)
(* replaces or drops an instance (MOTree.cpp:63, MOHandler.cpp:139-143).   *)
THEOREM InstancesAreKept == TreeSpec => InstancesStay
<1>1. TreeInv /\ [TreeNext]_treeVars =>
        [\A urn, miid \in Segments :
          Registered(urn) /\ Has(MOs[urn], miid)
            => /\ Registered(urn)'
               /\ MOs'[urn].instance[miid] = MOs[urn].instance[miid]]_treeVars
  BY TreeStepKeepsInstances
<1> QED
  BY <1>1, TreeInitInv, TreeNextInv, PTL DEF TreeSpec, InstancesStay

LEMMA TreeNextAccepted ==
  TreeInv /\ OnlyAccepted /\ [TreeNext]_treeVars => OnlyAccepted'
<1> SUFFICES ASSUME TreeInv, OnlyAccepted, [TreeNext]_treeVars,
                    NEW urn \in Segments, NEW miid \in Segments,
                    Registered(urn)', Has(MOs'[urn], miid)
             PROVE  <<MOs'[urn].instance[miid], urn>> \in accepted'
  BY DEF OnlyAccepted, Has
<1>1. accepted \subseteq accepted'
  BY DEF TreeNext, RegisterDDF, RefuseDDF, AddMO, RefuseMO, treeVars
<1>2. ASSUME MOs'[urn] = MOs[urn]
      PROVE  <<MOs'[urn].instance[miid], urn>> \in accepted'
  BY <1>1, <1>2 DEF OnlyAccepted, Registered, Has
<1>3. ASSUME NEW u \in Urns, NEW tree \in Trees, RegisterDDF(u, tree)
      PROVE  MOs'[urn] = MOs[urn]
  BY <1>3, NewHandlerType DEF RegisterDDF, TreeInv, TreeTypeOK, Instances
<1>4. ASSUME NEW u \in Urns, NEW mo \in Mos, NEW m \in UserMiids \cup {NoMiid},
             NEW compatible \in BOOLEAN, AddMO(u, mo, m, compatible)
      PROVE  <<MOs'[urn].instance[miid], urn>> \in accepted'
  <2>1. PICK h \in Handlers, name \in Segments :
          /\ h.instance = MOs[u].instance
          /\ MOs' = [MOs EXCEPT ![u] = Offer(h, name, mo, compatible)]
    BY <1>4, AddMOTakesFreeMiid
  <2>2. CASE u # urn
    BY <1>2, <2>1, <2>2 DEF TreeInv, TreeTypeOK
  <2>3. CASE u = urn /\ compatible /\ miid = name
    <3>1. MOs'[urn].instance[miid] = mo
      BY <2>1, <2>3 DEF TreeInv, TreeTypeOK, Offer, Handlers
    <3>2. <<mo, urn>> \in accepted'
      BY <1>4, <2>3 DEF AddMO
    <3> QED
      BY <3>1, <3>2
  <2>4. CASE u = urn /\ ~(compatible /\ miid = name)
    <3>1. MOs'[urn].instance[miid] = MOs[urn].instance[miid]
      BY <2>1, <2>4 DEF TreeInv, TreeTypeOK, Offer, Handlers
    <3>2. Registered(urn)
      BY <1>4, <2>4 DEF AddMO
    <3> QED
      BY <1>1, <3>1, <3>2 DEF OnlyAccepted, Has
  <2> QED
    BY <2>2, <2>3, <2>4
<1>5. CASE UNCHANGED treeVars
  BY <1>2, <1>5 DEF treeVars
<1> QED
  BY <1>2, <1>3, <1>4, <1>5 DEF TreeNext, RefuseDDF, RefuseMO

(* Every instance of the tree passed the compatibility check for its urn   *)
(* (MOHandler.cpp:144-150).                                                *)
THEOREM OnlyAcceptedAreAdded == TreeSpec => []OnlyAccepted
<1>1. TreeInit => OnlyAccepted
  BY DEF TreeInit, OnlyAccepted, Registered
<1> QED
  BY <1>1, TreeInitInv, TreeNextInv, TreeNextAccepted, PTL DEF TreeSpec
=============================================================================
