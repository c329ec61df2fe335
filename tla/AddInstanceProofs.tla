-------------------------- MODULE AddInstanceProofs --------------------------
(***************************************************************************)
(* Proofs about AddInstance: what holds of the tree whatever objects add   *)
(* while they are asked whether they are compatible, and, for objects that *)
(* then add to other types only (OwnType = FALSE), that add_instance is as *)
(* safe as the single step of MOTree, and implements it, at any depth.     *)
(***************************************************************************)
EXTENDS AddInstance, MOTreeProofs, SequenceTheorems

USE HandlerAssumption, TreeAssumption, DepthAssumption

-----------------------------------------------------------------------------
(* A call under way.                                                       *)
Calls == [urn    : Urns,
          mo     : Mos,
          miid   : UserMiids \cup {NoMiid},
          name   : Segments,
          before : 0 .. Wrap-1]

(* What MOTree's AddMO does to the handler it finds, up to the answer.     *)
Asked(h, miid) == IF miid = NoMiid THEN ProbeMiid(h) ELSE h

NameFor(h, miid) == IF miid = NoMiid THEN Probed(h, FirstFree(h)) ELSE miid

LEMMA HandlerOf ==
  ASSUME TreeInv, NEW urn \in Urns, Registered(urn)
  PROVE  MOs[urn] \in Handlers /\ IsFiniteSet(Instances(MOs[urn]))
  BY DEF TreeInv, TreeTypeOK, FiniteInstances, Registered

(* What is chosen before the object is asked (MOHandler.cpp:138-143).      *)
LEMMA AskedFacts ==
  ASSUME NEW h \in Handlers, NEW miid \in UserMiids \cup {NoMiid},
         IsFiniteSet(Instances(h)), Cardinality(Instances(h)) < MaxInstances,
         miid = NoMiid \/ ~Has(h, miid)
  PROVE  /\ Asked(h, miid) \in Handlers
         /\ Asked(h, miid).instance = h.instance
         /\ [Asked(h, miid) EXCEPT !.next_miid = h.next_miid] = h
         /\ NameFor(h, miid) \in Segments
         /\ ~Has(h, NameFor(h, miid))
<1>1. CASE miid = NoMiid
  <2>1. /\ FirstFree(h) \in 0 .. Wrap-1
        /\ Probed(h, FirstFree(h)) \in Segments /\ ~Has(h, Probed(h, FirstFree(h)))
    BY SomeProbeIsFree, FirstFreeIsFree
  <2>2. h.next_miid \in 0 .. Wrap-1
    BY DEF Handlers
  <2>3. (h.next_miid + FirstFree(h) + 1) % Wrap \in 0 .. Wrap-1
    BY <2>1, <2>2
  <2> QED
    BY <1>1, <2>1, <2>3 DEF Asked, NameFor, ProbeMiid, Handlers
<1>2. CASE miid # NoMiid
  <2>1. Asked(h, miid) = h /\ NameFor(h, miid) = miid
    BY <1>2 DEF Asked, NameFor
  <2>2. [h EXCEPT !.next_miid = h.next_miid] = h
    BY DEF Handlers
  <2> QED
    BY <1>2, <2>1, <2>2
<1> QED
  BY <1>1, <1>2

(* add_MO up to the question, with or without a miid of the application's. *)
Begins(urn, mo, miid) ==
  \/ miid = NoMiid /\ BeginAddProbing(urn, mo)
  \/ miid # NoMiid /\ BeginAdd(urn, mo, miid)

TheCall(urn, mo, miid) ==
  [urn |-> urn, mo |-> mo, miid |-> miid, name |-> NameFor(MOs[urn], miid),
   before |-> MOs[urn].next_miid]

(* The actions of AddNext by name.                                         *)
LEMMA AddNextCases ==
  ASSUME AddNext
  PROVE  \/ Build
         \/ \E urn \in Urns, mo \in Mos, miid \in UserMiids \cup {NoMiid} :
              Begins(urn, mo, miid)
         \/ \E compatible \in BOOLEAN : Answer(compatible)
<1>1. ASSUME NEW urn \in Urns, NEW mo \in Mos, NEW miid \in UserMiids,
             BeginAdd(urn, mo, miid)
      PROVE  Begins(urn, mo, miid)
  BY <1>1 DEF Begins, BeginAdd
<1>2. ASSUME NEW urn \in Urns, NEW mo \in Mos, BeginAddProbing(urn, mo)
      PROVE  Begins(urn, mo, NoMiid)
  BY <1>2 DEF Begins
<1> QED
  BY <1>1, <1>2 DEF AddNext

-----------------------------------------------------------------------------
(* Objects that add others while they are asked, to any depth.             *)
NestedInv ==
  /\ TreeInv /\ OnlyAccepted
  /\ stack \in Seq(Calls)
  /\ \A i \in DOMAIN stack : Registered(stack[i].urn)

LEMMA RoomForOne ==
  ASSUME NestedInv, NEW urn \in Urns, Room(urn)
  PROVE  /\ MOs[urn] \in Handlers /\ IsFiniteSet(Instances(MOs[urn]))
         /\ Registered(urn) /\ Cardinality(Instances(MOs[urn])) < MaxInstances
<1>1. Registered(urn) /\ MOs[urn] \in Handlers /\ IsFiniteSet(Instances(MOs[urn]))
  BY HandlerOf DEF Room, NestedInv
<1>2. Cardinality(Instances(MOs[urn])) \in Nat
  BY <1>1, FS_CardinalityType
<1>3. Cardinality(Pending(urn)) \in Nat
  <2>1. Len(stack) \in Nat /\ DOMAIN stack = 1 .. Len(stack)
    BY LenProperties DEF NestedInv
  <2>2. Pending(urn) \subseteq 1 .. Len(stack)
    BY <2>1 DEF Pending
  <2>3. IsFiniteSet(1 .. Len(stack))
    BY <2>1, FS_Interval
  <2> QED
    BY <2>2, <2>3, FS_Subset, FS_CardinalityType
<1>4. Cardinality(Instances(MOs[urn])) + Cardinality(Pending(urn)) < MaxInstances
  BY DEF Room
<1> QED
  BY <1>1, <1>2, <1>3, <1>4

LEMMA BeginsFacts ==
  ASSUME NestedInv, NEW urn \in Urns, NEW mo \in Mos,
         NEW miid \in UserMiids \cup {NoMiid}, Begins(urn, mo, miid)
  PROVE  /\ MOs[urn] \in Handlers /\ IsFiniteSet(Instances(MOs[urn]))
         /\ Registered(urn) /\ Cardinality(Instances(MOs[urn])) < MaxInstances
         /\ miid = NoMiid \/ ~Has(MOs[urn], miid)
         /\ MOs' = [MOs EXCEPT ![urn] = Asked(MOs[urn], miid)]
         /\ stack' = Append(stack, TheCall(urn, mo, miid))
         /\ UNCHANGED <<calls, accepted, added>>
         /\ OwnType \/ Pending(urn) = {}
<1>1. Room(urn)
  BY DEF Begins, BeginAdd, BeginAddProbing
<1>2. miid = NoMiid \/ ~Has(MOs[urn], miid)
  BY DEF Begins, BeginAdd
<1>3. /\ MOs' = [MOs EXCEPT ![urn] = Asked(MOs[urn], miid)]
      /\ stack' = Append(stack, TheCall(urn, mo, miid))
      /\ UNCHANGED <<calls, accepted, added>>
  <2>1. CASE miid = NoMiid
    BY <2>1 DEF Begins, BeginAddProbing, Ask, Asked, NameFor, TheCall
  <2>2. CASE miid # NoMiid
    BY <2>2 DEF Begins, BeginAdd, Ask, Asked, NameFor, TheCall
  <2> QED
    BY <2>1, <2>2
<1> QED
  BY <1>1, <1>2, <1>3, RoomForOne DEF Room

LEMMA NestedBegin ==
  ASSUME NestedInv, NEW urn \in Urns, NEW mo \in Mos,
         NEW miid \in UserMiids \cup {NoMiid}, Begins(urn, mo, miid)
  PROVE  NestedInv'
<1> DEFINE g    == MOs[urn]
           h    == Asked(g, miid)
           call == TheCall(urn, mo, miid)
<1>1. /\ g \in Handlers /\ IsFiniteSet(Instances(g)) /\ Registered(urn)
      /\ Cardinality(Instances(g)) < MaxInstances
  BY BeginsFacts
<1>2. miid = NoMiid \/ ~Has(g, miid)
  BY BeginsFacts
<1>3. /\ MOs' = [MOs EXCEPT ![urn] = h] /\ stack' = Append(stack, call)
      /\ UNCHANGED <<calls, accepted, added>>
  BY BeginsFacts
<1>4. /\ h \in Handlers /\ h.instance = g.instance
      /\ NameFor(g, miid) \in Segments
  <2> HIDE DEF g
  <2> QED
    BY <1>1, <1>2, AskedFacts
<1>5. call \in Calls /\ call.urn = urn
  BY <1>1, <1>4 DEF TheCall, Calls, Handlers, NestedInv, TreeInv, TreeTypeOK
<1> HIDE DEF g, h, call
<1>6. /\ MOs' \in [Segments -> Handlers \cup {NoHandler}]
      /\ MOs'[urn] = h /\ \A u \in Segments : u # urn => MOs'[u] = MOs[u]
  BY <1>3, <1>4 DEF NestedInv, TreeInv, TreeTypeOK
<1>7. \A u \in Segments : Registered(u)' <=> Registered(u)
  BY <1>1, <1>4, <1>6 DEF Registered, g
<1>8. \A u \in Segments : Registered(u) => MOs'[u].instance = MOs[u].instance
  BY <1>4, <1>6 DEF g
<1>9. TreeInv'
  <2>1. TreeTypeOK'
    BY <1>3, <1>6 DEF NestedInv, TreeInv, TreeTypeOK
  <2>2. \A u \in Segments : Registered(u) => Instances(MOs'[u]) = Instances(MOs[u])
    BY <1>8 DEF Instances, Has
  <2>3. FiniteInstances'
    BY <1>7, <2>2 DEF NestedInv, TreeInv, FiniteInstances
  <2> QED
    BY <2>1, <2>3 DEF TreeInv
<1>10. OnlyAccepted'
  BY <1>3, <1>7, <1>8 DEF NestedInv, OnlyAccepted, Has
<1>11. stack' \in Seq(Calls) /\ \A i \in DOMAIN stack' : MOs'[stack'[i].urn] # NoHandler
  <2>1. /\ Len(stack) \in Nat /\ DOMAIN stack = 1 .. Len(stack)
        /\ \A i \in 1 .. Len(stack) : stack[i] \in Calls
    BY LenProperties, ElementOfSeq DEF NestedInv
  <2>2. /\ stack' \in Seq(Calls) /\ Len(stack') = Len(stack) + 1
        /\ \A i \in 1 .. Len(stack) : stack'[i] = stack[i]
        /\ stack'[Len(stack) + 1] = call
    BY <1>3, <1>5, AppendProperties DEF NestedInv
  <2>3. ASSUME NEW i \in DOMAIN stack' PROVE MOs'[stack'[i].urn] # NoHandler
    <3>1. i \in 1 .. Len(stack) \/ i = Len(stack) + 1
      BY <2>1, <2>2, LenProperties
    <3>2. CASE i = Len(stack) + 1
      BY <1>1, <1>5, <1>7, <2>2, <3>2 DEF Registered
    <3>3. CASE i \in 1 .. Len(stack)
      <4>1. Registered(stack[i].urn) /\ stack[i].urn \in Segments
        BY <2>1, <3>3 DEF NestedInv, Calls
      <4> QED
        BY <1>7, <2>2, <3>3, <4>1 DEF Registered
    <3> QED
      BY <3>1, <3>2, <3>3
  <2> QED
    BY <2>2, <2>3
<1>12. Calls' = Calls
  BY DEF Calls
<1> QED
  BY <1>9, <1>10, <1>11, <1>12 DEF NestedInv, Registered

LEMMA NestedAnswer ==
  ASSUME NestedInv, NEW compatible \in BOOLEAN, Answer(compatible)
  PROVE  NestedInv'
<1> DEFINE n    == Len(stack)
           urn  == Top.urn
           name == Top.name
           mo   == Top.mo
           g    == MOs[urn]
           o    == Offer(g, name, mo, compatible)
<1>1. /\ n \in Nat /\ n > 0 /\ DOMAIN stack = 1 .. n
      /\ \A i \in 1 .. n : stack[i] \in Calls
  BY LenProperties, EmptySeq, ElementOfSeq DEF NestedInv, Answer
<1>2. urn \in Urns /\ name \in Segments /\ mo \in Mos /\ Registered(urn)
  BY <1>1 DEF Top, Calls, NestedInv
<1>3. /\ MOs' = [MOs EXCEPT ![urn] = o]
      /\ calls' = calls \cup {<<mo, "check_ddf_name_compatibility">>}
      /\ accepted' = IF compatible THEN accepted \cup {<<mo, urn>>} ELSE accepted
      /\ stack' = SubSeq(stack, 1, n - 1)
  BY DEF Answer
<1> HIDE DEF n, urn, name, mo
<1>4. g \in Handlers /\ IsFiniteSet(Instances(g))
  BY <1>2, HandlerOf DEF NestedInv
<1>5. /\ o \in Handlers
      /\ Instances(o) = IF compatible THEN Instances(g) \cup {name} ELSE Instances(g)
  <2> HIDE DEF g
  <2> QED
    BY <1>2, <1>4, OfferType
<1>6. \A miid \in Segments :
        o.instance[miid] = IF compatible /\ miid = name THEN mo ELSE g.instance[miid]
  BY <1>2, <1>4 DEF Offer, Handlers
<1> HIDE DEF o
<1>7. /\ MOs' \in [Segments -> Handlers \cup {NoHandler}]
      /\ MOs'[urn] = o /\ \A u \in Segments : u # urn => MOs'[u] = MOs[u]
  BY <1>2, <1>3, <1>5 DEF NestedInv, TreeInv, TreeTypeOK
<1>8. \A u \in Segments : Registered(u)' <=> Registered(u)
  BY <1>2, <1>5, <1>7 DEF Registered
<1>9. TreeInv'
  <2>1. TreeTypeOK'
    BY <1>2, <1>3, <1>7 DEF NestedInv, TreeInv, TreeTypeOK, Callbacks
  <2>2. IsFiniteSet(Instances(o))
    BY <1>4, <1>5, FS_AddElement
  <2>3. FiniteInstances'
    BY <1>7, <1>8, <2>2 DEF NestedInv, TreeInv, FiniteInstances
  <2> QED
    BY <2>1, <2>3 DEF TreeInv
<1>10. OnlyAccepted'
  <2> SUFFICES ASSUME NEW u \in Segments, NEW miid \in Segments,
                      Registered(u)', Has(MOs'[u], miid)
               PROVE  <<MOs'[u].instance[miid], u>> \in accepted'
    BY DEF OnlyAccepted, Has
  <2>1. accepted \subseteq accepted'
    BY <1>3
  <2>2. CASE u # urn \/ ~(compatible /\ miid = name)
    <3>1. MOs'[u].instance[miid] = MOs[u].instance[miid]
      BY <1>6, <1>7, <2>2
    <3> QED
      BY <1>8, <2>1, <3>1 DEF NestedInv, OnlyAccepted, Has
  <2>3. CASE u = urn /\ compatible /\ miid = name
    BY <1>3, <1>6, <1>7, <2>3
  <2> QED
    BY <2>2, <2>3
<1>11. stack' \in Seq(Calls) /\ \A i \in DOMAIN stack' : MOs'[stack'[i].urn] # NoHandler
  <2>1. n - 1 \in Int /\ \A i \in 1 .. n - 1 : stack[i] \in Calls
    BY <1>1
  <2>2. /\ stack' \in Seq(Calls) /\ Len(stack') = IF 1 <= n - 1 THEN n - 1 - 1 + 1 ELSE 0
        /\ \A i \in 1 .. n - 1 - 1 + 1 : stack'[i] = stack[1 + i - 1]
    BY <1>3, <2>1, SubSeqProperties
  <2>3. ASSUME NEW i \in DOMAIN stack' PROVE MOs'[stack'[i].urn] # NoHandler
    <3>1. i \in 1 .. Len(stack')
      BY <2>2, LenProperties
    <3>2. i \in 1 .. n - 1 /\ i \in 1 .. n - 1 - 1 + 1 /\ 1 + i - 1 = i
      BY <1>1, <2>2, <3>1
    <3>3. stack'[i] = stack[i] /\ i \in 1 .. n
      BY <1>1, <2>2, <3>2
    <3>4. Registered(stack[i].urn) /\ stack[i].urn \in Segments
      BY <1>1, <3>3 DEF NestedInv, Calls
    <3> QED
      BY <1>8, <3>3, <3>4 DEF Registered
  <2> QED
    BY <2>2, <2>3
<1>12. Calls' = Calls
  BY DEF Calls
<1> QED
  BY <1>9, <1>10, <1>11, <1>12 DEF NestedInv, Registered

LEMMA NestedNextInv == NestedInv /\ [AddNext]_addVars => NestedInv'
<1> SUFFICES ASSUME NestedInv, [AddNext]_addVars PROVE NestedInv'
  OBVIOUS
<1>1. ASSUME Build \/ UNCHANGED addVars PROVE NestedInv'
  <2>1. [TreeNext]_treeVars /\ UNCHANGED stack
    BY <1>1 DEF Build, TreeNext, addVars
  <2>2. TreeInv' /\ OnlyAccepted'
    BY <2>1, TreeNextInv, TreeNextAccepted DEF NestedInv
  <2>3. \A urn \in Segments : Registered(urn) => Registered(urn)'
    BY <1>1 DEF Build, RegisterDDF, RefuseDDF, RefuseMO, addVars, treeVars, Registered,
                NestedInv, TreeInv, TreeTypeOK
  <2>4. \A i \in DOMAIN stack : stack[i].urn \in Segments
    <3>1. \A i \in DOMAIN stack : stack[i] \in Calls
      BY LenProperties, ElementOfSeq DEF NestedInv
    <3> QED
      BY <3>1 DEF Calls
  <2> QED
    BY <2>1, <2>2, <2>3, <2>4 DEF NestedInv, Calls
<1> QED
  BY <1>1, AddNextCases, NestedBegin, NestedAnswer

LEMMA NestedInitInv == AddInit => NestedInv
<1> SUFFICES ASSUME AddInit PROVE NestedInv
  OBVIOUS
<1>1. TreeInv
  BY TreeInitInv DEF AddInit
<1>2. OnlyAccepted
  BY DEF AddInit, TreeInit, OnlyAccepted, Registered
<1>3. stack \in Seq(Calls) /\ DOMAIN stack = {}
  BY EmptySeq DEF AddInit
<1> QED
  BY <1>1, <1>2, <1>3 DEF NestedInv

(* Whatever an object adds while it is asked, to whatever depth, the tree  *)
(* stays well typed, next_miid included (MOHandler.cpp:137-151).           *)
THEOREM NestedTypeCorrect == AddSpec => []TreeTypeOK
<1>1. NestedInv => TreeTypeOK
  BY DEF NestedInv, TreeInv
<1> QED
  BY <1>1, NestedInitInv, NestedNextInv, PTL DEF AddSpec

(* Calls that run inside each other may lose an instance, but never let in *)
(* one that did not declare itself compatible (MOHandler.cpp:144-150).     *)
THEOREM NestedAreAccepted == AddSpec => []OnlyAccepted
<1>1. NestedInv => OnlyAccepted
  BY DEF NestedInv
<1> QED
  BY <1>1, NestedInitInv, NestedNextInv, PTL DEF AddSpec

-----------------------------------------------------------------------------
(* Objects that, while they are asked, add to other types only.            *)

(* A handler with a call of its own pending is as that call left it: the   *)
(* name is as free as it was when it was chosen.                           *)
Found(call, h) == [h EXCEPT !.next_miid = call.before]

Pends(call, h) ==
  /\ h \in Handlers
  /\ Cardinality(Instances(h)) < MaxInstances
  /\ ~Has(h, call.name)
  /\ call.name = NameFor(Found(call, h), call.miid)
  /\ h = Asked(Found(call, h), call.miid)

StackInv ==
  /\ \A i \in DOMAIN stack : Pends(stack[i], MOs[stack[i].urn])
  /\ \A i, j \in DOMAIN stack : stack[i].urn = stack[j].urn => i = j

Listed(entry) ==
  /\ entry \in Urns \X Segments \X Mos
  /\ Registered(entry[1])
  /\ MOs[entry[1]].instance[entry[2]] = entry[3]

AddedInv == \A entry \in added : Listed(entry)

AddInv == NestedInv /\ StackInv /\ AddedInv

(* No instance is replaced or dropped by a step.                           *)
Keeps ==
  \A urn, miid \in Segments :
    Registered(urn) /\ Has(MOs[urn], miid)
      => /\ Registered(urn)'
         /\ MOs'[urn].instance[miid] = MOs[urn].instance[miid]

LEMMA ListedStays ==
  ASSUME Keeps, NEW entry, Listed(entry)
  PROVE  Listed(entry)'
<1>1. entry[1] \in Segments /\ entry[2] \in Segments /\ entry[3] \in Mos
  BY DEF Listed
<1>2. Has(MOs[entry[1]], entry[2])
  BY <1>1 DEF Listed, Has
<1> QED
  BY <1>1, <1>2 DEF Listed, Keeps, Registered

LEMMA StackFacts ==
  ASSUME NestedInv
  PROVE  /\ Len(stack) \in Nat /\ DOMAIN stack = 1 .. Len(stack)
         /\ \A i \in DOMAIN stack : /\ stack[i] \in Calls
                                    /\ stack[i].urn \in Urns
                                    /\ Registered(stack[i].urn)
<1>1. /\ Len(stack) \in Nat /\ DOMAIN stack = 1 .. Len(stack)
      /\ \A i \in DOMAIN stack : stack[i] \in Calls
  BY LenProperties, ElementOfSeq DEF NestedInv
<1> QED
  BY <1>1 DEF NestedInv, Calls

(* The call itself pends once it has begun.                                *)
LEMMA BegunPends ==
  ASSUME NEW h \in Handlers, NEW miid \in UserMiids \cup {NoMiid},
         IsFiniteSet(Instances(h)), Cardinality(Instances(h)) < MaxInstances,
         miid = NoMiid \/ ~Has(h, miid),
         NEW call, call.miid = miid, call.name = NameFor(h, miid),
         call.before = h.next_miid
  PROVE  /\ Found(call, Asked(h, miid)) = h
         /\ Pends(call, Asked(h, miid))
<1> DEFINE a == Asked(h, miid)
<1>1. /\ a \in Handlers /\ a.instance = h.instance
      /\ [a EXCEPT !.next_miid = h.next_miid] = h
      /\ ~Has(h, NameFor(h, miid))
  BY AskedFacts
<1>2. Found(call, a) = h
  BY <1>1 DEF Found
<1>3. Instances(a) = Instances(h) /\ ~Has(a, call.name)
  BY <1>1 DEF Instances, Has
<1>4. a = Asked(Found(call, a), call.miid) /\ call.name = NameFor(Found(call, a), call.miid)
  BY <1>2
<1> QED
  BY <1>1, <1>2, <1>3, <1>4 DEF Pends

LEMMA BeginsInv ==
  ASSUME ~OwnType, AddInv, NEW urn \in Urns, NEW mo \in Mos,
         NEW miid \in UserMiids \cup {NoMiid}, Begins(urn, mo, miid)
  PROVE  AddInv' /\ Keeps
<1> DEFINE g    == MOs[urn]
           h    == Asked(g, miid)
           call == TheCall(urn, mo, miid)
           n    == Len(stack)
<1>1. /\ g \in Handlers /\ IsFiniteSet(Instances(g)) /\ Registered(urn)
      /\ Cardinality(Instances(g)) < MaxInstances
      /\ miid = NoMiid \/ ~Has(g, miid)
      /\ MOs' = [MOs EXCEPT ![urn] = h] /\ stack' = Append(stack, call)
      /\ UNCHANGED <<calls, accepted, added>>
      /\ Pending(urn) = {}
  BY BeginsFacts DEF AddInv
<1>2. call.urn = urn /\ Pends(call, h)
  <2>1. /\ call.miid = miid /\ call.name = NameFor(g, miid)
        /\ call.before = g.next_miid /\ call.urn = urn
    BY DEF TheCall
  <2> HIDE DEF g, call
  <2> QED
    BY <1>1, <2>1, BegunPends
<1>3. h.instance = g.instance /\ h \in Handlers
  <2> HIDE DEF g
  <2> QED
    BY <1>1, AskedFacts
<1>4. NestedInv'
  BY NestedBegin DEF AddInv
<1>5. call \in Calls
  <2>1. stack' \in Seq(Calls) /\ stack'[n + 1] = call /\ Len(stack') = n + 1 /\ n \in Nat
    <3>1. stack' \in Seq(Calls)
      BY <1>4 DEF NestedInv, Calls
    <3>2. n \in Nat
      BY StackFacts DEF AddInv
    <3> HIDE DEF call
    <3> QED
      BY <1>1, <3>1, <3>2 DEF AddInv, NestedInv
  <2> QED
    BY <2>1, ElementOfSeq
<1> HIDE DEF h, call
<1>6. /\ MOs'[urn] = h
      /\ \A u \in Segments : u # urn => MOs'[u] = MOs[u]
  BY <1>1 DEF AddInv, NestedInv, TreeInv, TreeTypeOK
<1>7. Keeps
  BY <1>1, <1>3, <1>4, <1>6 DEF Keeps, Registered, NestedInv, TreeInv, TreeTypeOK
<1>8. StackInv'
  <2>1. /\ n \in Nat /\ DOMAIN stack = 1 .. n
        /\ \A i \in 1 .. n : stack[i].urn \in Urns /\ stack[i].urn # urn
    BY <1>1, StackFacts DEF AddInv, Pending
  <2>2. /\ DOMAIN stack' = 1 .. n + 1 /\ stack'[n + 1] = call
        /\ \A i \in 1 .. n : stack'[i] = stack[i]
    <3>1. /\ Len(stack') = n + 1 /\ stack'[n + 1] = call
          /\ \A i \in 1 .. n : stack'[i] = stack[i]
      BY <1>1, <1>5, AppendProperties DEF AddInv, NestedInv
    <3>2. DOMAIN stack' = 1 .. Len(stack')
      BY <1>1, <1>5, AppendProperties, LenProperties DEF AddInv, NestedInv
    <3> QED
      BY <3>1, <3>2
  <2>3. ASSUME NEW i \in 1 .. n
        PROVE  Pends(stack'[i], MOs'[stack'[i].urn])
    <3>1. MOs'[stack'[i].urn] = MOs[stack[i].urn]
      BY <1>6, <2>1, <2>2
    <3> QED
      BY <2>1, <2>2, <3>1 DEF AddInv, StackInv
  <2>4. Pends(stack'[n + 1], MOs'[stack'[n + 1].urn])
    BY <1>2, <1>6, <2>2
  <2>5. \A i \in DOMAIN stack' : Pends(stack'[i], MOs'[stack'[i].urn])
    BY <2>1, <2>2, <2>3, <2>4
  <2>6. \A i \in 1 .. n + 1 : i \in 1 .. n \/ i = n + 1
    BY <2>1
  <2>7. \A i, j \in DOMAIN stack' : stack'[i].urn = stack'[j].urn => i = j
    BY <1>2, <2>1, <2>2, <2>6 DEF AddInv, StackInv
  <2> QED
    BY <2>5, <2>7 DEF StackInv
<1>9. AddedInv'
  BY <1>1, <1>7, ListedStays DEF AddInv, AddedInv
<1> QED
  BY <1>4, <1>7, <1>8, <1>9 DEF AddInv

LEMMA AnswerFacts ==
  ASSUME AddInv, NEW compatible \in BOOLEAN, Answer(compatible)
  PROVE  /\ Len(stack) \in DOMAIN stack /\ Top = stack[Len(stack)]
         /\ Top \in Calls /\ Registered(Top.urn) /\ Pends(Top, MOs[Top.urn])
         /\ DOMAIN stack' = DOMAIN stack \ {Len(stack)}
         /\ \A i \in DOMAIN stack' : stack'[i] = stack[i]
         /\ MOs' = [MOs EXCEPT ![Top.urn] =
                      Offer(MOs[Top.urn], Top.name, Top.mo, compatible)]
<1>1. Len(stack) \in Nat /\ Len(stack) > 0
  BY StackFacts, EmptySeq DEF Answer, AddInv, NestedInv
<1>2. Len(stack) \in DOMAIN stack /\ Top = stack[Len(stack)]
  BY <1>1, StackFacts DEF AddInv, Top
<1>3. Top \in Calls /\ Registered(Top.urn) /\ Pends(Top, MOs[Top.urn])
  BY <1>2, StackFacts DEF AddInv, StackInv
<1>4. /\ DOMAIN stack' = DOMAIN stack \ {Len(stack)}
      /\ \A i \in DOMAIN stack' : stack'[i] = stack[i]
  <2> DEFINE n == Len(stack)
  <2>1. stack' = SubSeq(stack, 1, n - 1) /\ stack \in Seq(Calls) /\ DOMAIN stack = 1 .. n
    BY StackFacts DEF Answer, AddInv, NestedInv
  <2>2. n - 1 \in Int /\ \A i \in 1 .. n - 1 : stack[i] \in Calls
    BY <1>1, <2>1, StackFacts DEF AddInv
  <2>3. /\ stack' \in Seq(Calls) /\ Len(stack') = IF 1 <= n - 1 THEN n - 1 - 1 + 1 ELSE 0
        /\ \A i \in 1 .. n - 1 - 1 + 1 : stack'[i] = stack[1 + i - 1]
    BY <2>1, <2>2, SubSeqProperties
  <2>4. DOMAIN stack' = 1 .. Len(stack')
    BY <2>3, LenProperties
  <2> HIDE DEF n
  <2>5. n \in Nat /\ n > 0
    BY <1>1 DEF n
  <2>6. Len(stack') = n - 1 /\ n - 1 - 1 + 1 = n - 1
    BY <2>3, <2>5
  <2>7. 1 .. n - 1 = (1 .. n) \ {n}
    BY <2>5
  <2>8. \A i \in 1 .. n - 1 : stack'[i] = stack[i]
    BY <2>3, <2>5, <2>6
  <2> QED
    BY <2>1, <2>4, <2>6, <2>7, <2>8 DEF n
<1> QED
  BY <1>2, <1>3, <1>4 DEF Answer

LEMMA AnswerInv ==
  ASSUME AddInv, NEW compatible \in BOOLEAN, Answer(compatible)
  PROVE  AddInv' /\ Keeps
<1> DEFINE urn  == Top.urn
           name == Top.name
           mo   == Top.mo
           g    == MOs[urn]
           o    == Offer(g, name, mo, compatible)
           n    == Len(stack)
<1>1. /\ urn \in Urns /\ name \in Segments /\ mo \in Mos
      /\ Registered(urn) /\ g \in Handlers /\ ~Has(g, name)
      /\ MOs' = [MOs EXCEPT ![urn] = o]
      /\ n \in DOMAIN stack /\ stack[n].urn = urn
      /\ DOMAIN stack' = DOMAIN stack \ {n}
      /\ \A i \in DOMAIN stack' : stack'[i] = stack[i]
  BY AnswerFacts DEF Pends, Calls
<1>2. added' = IF compatible THEN added \cup {<<urn, name, mo>>} ELSE added
  BY DEF Answer
<1> HIDE DEF urn, name, mo, n
<1>3. o \in Handlers
  <2> HIDE DEF g
  <2> QED
    BY <1>1, OfferType
<1>4. /\ compatible => o.instance[name] = mo
      /\ \A miid \in Segments : Has(g, miid) => o.instance[miid] = g.instance[miid]
  BY <1>1 DEF Offer, Handlers
<1> HIDE DEF o
<1>5. /\ MOs'[urn] = o /\ o # NoHandler
      /\ \A u \in Segments : u # urn => MOs'[u] = MOs[u]
  BY <1>1, <1>3 DEF AddInv, NestedInv, TreeInv, TreeTypeOK
<1>6. NestedInv'
  BY NestedAnswer DEF AddInv
<1>7. Keeps
  BY <1>1, <1>4, <1>5 DEF Keeps, Registered
<1>8. StackInv'
  <2>1. ASSUME NEW i \in DOMAIN stack'
        PROVE  Pends(stack'[i], MOs'[stack'[i].urn])
    <3>1. i \in DOMAIN stack /\ i # n /\ stack'[i] = stack[i]
      BY <1>1
    <3>2. stack[i].urn # urn /\ stack[i].urn \in Urns
      BY <1>1, <3>1, StackFacts DEF AddInv, StackInv
    <3>3. MOs'[stack'[i].urn] = MOs[stack[i].urn]
      BY <1>5, <3>1, <3>2
    <3> QED
      BY <3>1, <3>3 DEF AddInv, StackInv
  <2>2. \A i, j \in DOMAIN stack' : stack'[i].urn = stack'[j].urn => i = j
    BY <1>1 DEF AddInv, StackInv
  <2> QED
    BY <2>1, <2>2 DEF StackInv
<1>9. AddedInv'
  <2>1. \A entry \in added : Listed(entry)'
    BY <1>7, ListedStays DEF AddInv, AddedInv
  <2>2. ASSUME NEW entry, entry = <<urn, name, mo>>, compatible
        PROVE  Listed(entry)'
    BY <1>1, <1>4, <1>5, <2>2 DEF Listed, Registered
  <2> QED
    BY <1>2, <2>1, <2>2 DEF AddedInv
<1> QED
  BY <1>6, <1>7, <1>8, <1>9 DEF AddInv

(* A registration meanwhile is of a type nothing is being added to.        *)
LEMMA BuildInv ==
  ASSUME AddInv, Build \/ UNCHANGED addVars
  PROVE  AddInv' /\ Keeps
<1>1. [TreeNext]_treeVars /\ UNCHANGED <<stack, added>>
  BY DEF Build, TreeNext, addVars
<1>2. NestedInv'
  BY NestedNextInv DEF AddInv, AddNext
<1>3. Keeps
  BY <1>1, TreeStepKeepsInstances DEF Keeps, AddInv, NestedInv
<1>4. AddedInv'
  BY <1>1, <1>3, ListedStays DEF AddInv, AddedInv
<1>5. ASSUME NEW urn \in Segments, Registered(urn)
      PROVE  MOs'[urn] = MOs[urn]
  BY <1>5 DEF Build, RegisterDDF, RefuseDDF, RefuseMO, addVars, treeVars, Registered,
              AddInv, NestedInv, TreeInv, TreeTypeOK
<1>6. \A i \in DOMAIN stack : MOs'[stack[i].urn] = MOs[stack[i].urn]
  BY <1>5, StackFacts DEF AddInv
<1>7. StackInv'
  BY <1>1, <1>6 DEF AddInv, StackInv
<1> QED
  BY <1>2, <1>3, <1>4, <1>7 DEF AddInv

LEMMA AddNextInv ==
  ASSUME ~OwnType, AddInv, [AddNext]_addVars
  PROVE  AddInv' /\ Keeps
  BY AddNextCases, BuildInv, BeginsInv, AnswerInv

LEMMA AddInitInv == AddInit => AddInv
<1> SUFFICES ASSUME AddInit PROVE AddInv
  OBVIOUS
<1>1. NestedInv /\ stack = <<>> /\ added = {}
  BY NestedInitInv DEF AddInit
<1>2. DOMAIN stack = {}
  BY <1>1, EmptySeq
<1> QED
  BY <1>1, <1>2 DEF AddInv, StackInv, AddedInv

(* With objects that, while they are asked, add to other types only, every *)
(* add_MO that returned true has its object in the tree, for ever          *)
(* (MOHandler.cpp:137-151).                                                *)
THEOREM AddedStaysListed == ASSUME ~OwnType PROVE AddSpec => []AddedIsListed
<1>1. AddInv /\ [AddNext]_addVars => AddInv'
  BY AddNextInv
<1>2. AddInv => AddedIsListed
  BY DEF AddInv, AddedInv, Listed, AddedIsListed
<1> QED
  BY <1>1, <1>2, AddInitInv, PTL DEF AddSpec

(* Such objects never make the tree drop or replace an instance: the miid  *)
(* is still free when the object has answered (MOHandler.cpp:139-146),     *)
(* whatever was registered and added elsewhere before it did.              *)
THEOREM AddedIsKept == ASSUME ~OwnType PROVE AddSpec => InstancesStay
<1>1. AddInv /\ [AddNext]_addVars => AddInv'
  BY AddNextInv
<1>2. AddInv /\ [AddNext]_addVars =>
        [\A urn, miid \in Segments :
          Registered(urn) /\ Has(MOs[urn], miid)
            => /\ Registered(urn)'
               /\ MOs'[urn].instance[miid] = MOs[urn].instance[miid]]_treeVars
  BY AddNextInv DEF Keeps
<1> QED
  BY <1>1, <1>2, AddInitInv, PTL DEF AddSpec, InstancesStay

-----------------------------------------------------------------------------
(* Refinement.                                                             *)
TreeBefore == [urn \in Segments |-> HandlerBefore(urn)]

LEMMA BeforeIdle ==
  ASSUME NEW urn, Pending(urn) = {}
  PROVE  HandlerBefore(urn) = MOs[urn]
  BY DEF HandlerBefore

LEMMA BeforePending ==
  ASSUME AddInv, NEW i \in DOMAIN stack
  PROVE  HandlerBefore(stack[i].urn) = Found(stack[i], MOs[stack[i].urn])
<1>1. Pending(stack[i].urn) = {i}
  BY DEF AddInv, StackInv, Pending
<1>2. (CHOOSE j \in {i} : TRUE) = i
  OBVIOUS
<1> QED
  BY <1>1, <1>2 DEF HandlerBefore, Found

(* Where a step leaves the handler and its calls alone, it leaves what the *)
(* tree shows of them.                                                     *)
LEMMA BeforeStays ==
  ASSUME NEW urn, MOs'[urn] = MOs[urn], Pending(urn)' = Pending(urn),
         \A i \in Pending(urn) : stack'[i] = stack[i]
  PROVE  HandlerBefore(urn)' = HandlerBefore(urn)
<1>1. CASE Pending(urn) = {}
  BY <1>1 DEF HandlerBefore
<1>2. CASE Pending(urn) # {}
  <2>1. (CHOOSE i \in Pending(urn) : TRUE) \in Pending(urn)
    BY <1>2
  <2> QED
    BY <1>2, <2>1 DEF HandlerBefore
<1> QED
  BY <1>1, <1>2

LEMMA BeginsIsHidden ==
  ASSUME ~OwnType, AddInv, NEW urn \in Urns, NEW mo \in Mos,
         NEW miid \in UserMiids \cup {NoMiid}, Begins(urn, mo, miid)
  PROVE  UNCHANGED <<TreeBefore, calls, accepted>>
<1> DEFINE g    == MOs[urn]
           h    == Asked(g, miid)
           call == TheCall(urn, mo, miid)
           n    == Len(stack)
<1>1. /\ g \in Handlers /\ IsFiniteSet(Instances(g)) /\ Registered(urn)
      /\ Cardinality(Instances(g)) < MaxInstances
      /\ miid = NoMiid \/ ~Has(g, miid)
      /\ MOs' = [MOs EXCEPT ![urn] = h] /\ stack' = Append(stack, call)
      /\ UNCHANGED <<calls, accepted, added>>
      /\ Pending(urn) = {}
  BY BeginsFacts DEF AddInv
<1>2. call.urn = urn /\ Found(call, h) = g
  <2>1. /\ call.miid = miid /\ call.name = NameFor(g, miid)
        /\ call.before = g.next_miid /\ call.urn = urn
    BY DEF TheCall
  <2> HIDE DEF g, call
  <2> QED
    BY <1>1, <2>1, BegunPends
<1>3. AddInv'
  BY BeginsInv
<1> HIDE DEF h, call
<1>4. /\ MOs'[urn] = h
      /\ \A u \in Segments : u # urn => MOs'[u] = MOs[u]
  BY <1>1 DEF AddInv, NestedInv, TreeInv, TreeTypeOK
<1>5. n \in Nat /\ DOMAIN stack = 1 .. n
  BY StackFacts DEF AddInv
<1> HIDE DEF n
<1>6. /\ DOMAIN stack' = 1 .. n + 1 /\ stack'[n + 1] = call
      /\ \A i \in 1 .. n : stack'[i] = stack[i]
  BY <1>1, <1>5 DEF n
<1>7. HandlerBefore(urn)' = g
  <2>1. n + 1 \in DOMAIN stack'
    BY <1>5, <1>6
  <2>2. Pending(urn)' = {n + 1}
    BY <1>2, <1>3, <1>6, <2>1 DEF AddInv, StackInv, Pending
  <2>3. (CHOOSE j \in {n + 1} : TRUE) = n + 1
    OBVIOUS
  <2> QED
    BY <1>2, <1>4, <1>6, <2>2, <2>3 DEF HandlerBefore, Found
<1>8. ASSUME NEW u \in Segments, u # urn
      PROVE  HandlerBefore(u)' = HandlerBefore(u)
  <2>1. Pending(u)' = Pending(u) /\ \A i \in Pending(u) : stack'[i] = stack[i]
    BY <1>2, <1>5, <1>6, <1>8 DEF Pending
  <2> QED
    BY <1>4, <1>8, <2>1, BeforeStays
<1>9. HandlerBefore(urn) = g
  BY <1>1, BeforeIdle
<1> QED
  BY <1>1, <1>7, <1>8, <1>9 DEF TreeBefore

(* The operators of the instance that are MOTree's own.                    *)
LEMMA SameCardinality == \A s : Atomic!Cardinality(s) = Cardinality(s)
  BY DEF Atomic!Cardinality, Cardinality

LEMMA SameOperators ==
  /\ Atomic!Callbacks = Callbacks
  /\ \A h : /\ Atomic!Instances(h) = Instances(h)
            /\ Atomic!ProbeMiid(h) = ProbeMiid(h)
            /\ Atomic!Probed(h, Atomic!FirstFree(h)) = Probed(h, FirstFree(h))
<1>1. \A h : Atomic!FreeProbes(h) = FreeProbes(h)
  BY DEF Atomic!FreeProbes, FreeProbes, Atomic!Probed, Probed, Atomic!Has, Has
<1>2. \A h : Atomic!FirstFree(h) = FirstFree(h)
  BY <1>1 DEF Atomic!FirstFree, FirstFree
<1> QED
  BY <1>2 DEF Atomic!Callbacks, Callbacks, Atomic!Instances, Instances, Atomic!Has,
     Has, Atomic!ProbeMiid, ProbeMiid, Atomic!Probed, Probed

LEMMA AnsweredBefore ==
  ASSUME AddInv, NEW compatible \in BOOLEAN, Answer(compatible),
         NEW urn \in Urns, urn = Top.urn, NEW o, MOs' = [MOs EXCEPT ![urn] = o]
  PROVE  TreeBefore' = [TreeBefore EXCEPT ![urn] = o]
<1> DEFINE n == Len(stack)
<1>1. /\ n \in DOMAIN stack /\ stack[n].urn = urn
      /\ DOMAIN stack' = DOMAIN stack \ {n}
      /\ \A i \in DOMAIN stack' : stack'[i] = stack[i]
  BY AnswerFacts
<1>2. Pending(urn) = {n}
  BY <1>1 DEF AddInv, StackInv, Pending
<1>3. /\ MOs'[urn] = o /\ \A u \in Segments : u # urn => MOs'[u] = MOs[u]
  BY DEF AddInv, NestedInv, TreeInv, TreeTypeOK
<1>4. Pending(urn)' = {}
  <2> HIDE DEF n
  <2> QED
    BY <1>1, <1>2 DEF Pending
<1>5. HandlerBefore(urn)' = o
  BY <1>3, <1>4 DEF HandlerBefore
<1>6. ASSUME NEW u \in Segments, u # urn
      PROVE  HandlerBefore(u)' = HandlerBefore(u)
  <2>1. Pending(u)' = Pending(u) /\ \A i \in Pending(u) : stack'[i] = stack[i]
    <3> HIDE DEF n
    <3> QED
      BY <1>1, <1>6 DEF Pending
  <2> QED
    BY <1>3, <1>6, <2>1, BeforeStays
<1> QED
  BY <1>5, <1>6 DEF TreeBefore

LEMMA AnswerIsAddMO ==
  ASSUME AddInv, NEW compatible \in BOOLEAN, Answer(compatible)
  PROVE  Atomic!AddMO(Top.urn, Top.mo, Top.miid, compatible)
<1> DEFINE urn == Top.urn
           mo  == Top.mo
           o   == Offer(MOs[urn], Top.name, mo, compatible)
           g   == Found(Top, MOs[urn])
           n   == Len(stack)
<1>1. /\ n \in DOMAIN stack /\ Top = stack[n]
      /\ Top \in Calls /\ Registered(urn) /\ Pends(Top, MOs[urn])
      /\ DOMAIN stack' = DOMAIN stack \ {n}
      /\ \A i \in DOMAIN stack' : stack'[i] = stack[i]
      /\ MOs' = [MOs EXCEPT ![urn] = o]
  BY AnswerFacts
<1>2. urn \in Urns /\ urn \in Segments /\ Pending(urn) = {n}
  BY <1>1 DEF Calls, AddInv, StackInv, Pending
<1>3. /\ calls' = calls \cup {<<mo, "check_ddf_name_compatibility">>}
      /\ accepted' = IF compatible THEN accepted \cup {<<mo, urn>>} ELSE accepted
  BY DEF Answer
<1>4. TreeBefore[urn] = g
  BY <1>1, <1>2, BeforePending DEF TreeBefore
<1> HIDE DEF n, o
<1>6. TreeBefore' = [TreeBefore EXCEPT ![urn] = o]
  BY <1>1, <1>2, AnsweredBefore
<1>7. /\ MOs[urn] = Asked(g, Top.miid) /\ Top.name = NameFor(g, Top.miid)
      /\ g \in Handlers /\ g # NoHandler /\ g.instance = MOs[urn].instance
  BY <1>1 DEF Pends, Found, Calls, Handlers
<1>8. Instances(g) = Instances(MOs[urn])
  BY <1>7 DEF Instances, Has
<1>9. /\ Top.miid # NoMiid => ~Has(g, Top.miid)
      /\ Cardinality(Instances(g)) < MaxInstances
  BY <1>1, <1>7, <1>8 DEF Pends, NameFor, Has
<1>10. o = Offer(Asked(g, Top.miid), NameFor(g, Top.miid), mo, compatible)
  BY <1>7 DEF o
<1> HIDE DEF g
<1>11. /\ Atomic!Registered(urn)
       /\ Atomic!Cardinality(Atomic!Instances(TreeBefore[urn])) < MaxInstances
       /\ Top.miid # NoMiid => ~Atomic!Has(TreeBefore[urn], Top.miid)
  BY <1>4, <1>7, <1>9, SameOperators, SameCardinality
     DEF TreeBefore, Atomic!Registered, Atomic!Has, Has
<1>12. TreeBefore' =
         [TreeBefore EXCEPT ![urn] =
            Atomic!Offer(IF Top.miid = NoMiid THEN Atomic!ProbeMiid(TreeBefore[urn])
                                              ELSE TreeBefore[urn],
                         IF Top.miid = NoMiid
                           THEN Atomic!Probed(TreeBefore[urn],
                                              Atomic!FirstFree(TreeBefore[urn]))
                           ELSE Top.miid,
                         mo, compatible)]
  BY <1>4, <1>6, <1>10, SameOperators DEF Asked, NameFor, Atomic!Offer, Offer
<1> QED
  BY <1>3, <1>11, <1>12 DEF Atomic!AddMO, TreeBefore

LEMMA BuildIsTheTrees ==
  ASSUME AddInv, Build
  PROVE  [Atomic!TreeNext]_Atomic!treeVars
<1>1. UNCHANGED stack
  BY DEF Build
<1>2. ASSUME NEW urn \in Urns, NEW tree \in Trees, RegisterDDF(urn, tree)
      PROVE  Atomic!RegisterDDF(urn, tree)
  <2>1. /\ ~Registered(urn) /\ MOs' = [MOs EXCEPT ![urn] = NewHandler(tree)]
        /\ UNCHANGED <<calls, accepted>>
    BY <1>2 DEF RegisterDDF
  <2>2. \A u : Pending(u)' = Pending(u)
    BY <1>1 DEF Pending
  <2>3. Pending(urn) = {}
    BY <2>1, StackFacts DEF AddInv, Pending
  <2>4. /\ MOs'[urn] = NewHandler(tree)
        /\ \A u \in Segments : u # urn => MOs'[u] = MOs[u]
    BY <2>1 DEF AddInv, NestedInv, TreeInv, TreeTypeOK
  <2>5. HandlerBefore(urn) = MOs[urn] /\ HandlerBefore(urn)' = NewHandler(tree)
    BY <2>2, <2>3, <2>4 DEF HandlerBefore
  <2>6. ASSUME NEW u \in Segments, u # urn
        PROVE  HandlerBefore(u)' = HandlerBefore(u)
    BY <1>1, <2>2, <2>4, <2>6, BeforeStays
  <2>7. TreeBefore' = [TreeBefore EXCEPT ![urn] = NewHandler(tree)]
    BY <2>5, <2>6 DEF TreeBefore
  <2>8. Atomic!NewHandler(tree) = NewHandler(tree)
    BY DEF Atomic!NewHandler, NewHandler
  <2>9. ~Atomic!Registered(urn)
    BY <2>1, <2>5 DEF Registered, Atomic!Registered, TreeBefore
  <2> QED
    BY <2>1, <2>7, <2>8, <2>9 DEF Atomic!RegisterDDF, TreeBefore
<1>3. ASSUME UNCHANGED treeVars
      PROVE  UNCHANGED Atomic!treeVars
  BY <1>1, <1>3 DEF treeVars, Atomic!treeVars, HandlerBefore, Pending
<1> QED
  BY <1>2, <1>3 DEF Build, RefuseDDF, RefuseMO, Atomic!TreeNext

LEMMA StepRefines ==
  ASSUME ~OwnType, AddInv, [AddNext]_addVars
  PROVE  [Atomic!TreeNext]_Atomic!treeVars
<1>1. ASSUME UNCHANGED <<TreeBefore, calls, accepted>>
      PROVE  UNCHANGED Atomic!treeVars
  BY <1>1 DEF TreeBefore, Atomic!treeVars
<1>2. ASSUME NEW compatible \in BOOLEAN, Answer(compatible)
      PROVE  Atomic!TreeNext
  <2>1. /\ Top.urn \in Urns /\ Top.mo \in Mos /\ Top.miid \in UserMiids \cup {NoMiid}
    BY <1>2, AnswerFacts DEF Calls
  <2>2. Atomic!AddMO(Top.urn, Top.mo, Top.miid, compatible)
    BY <1>2, AnswerIsAddMO
  <2> QED
    BY <2>1, <2>2 DEF Atomic!TreeNext
<1>3. CASE UNCHANGED addVars
  BY <1>3 DEF addVars, treeVars, Atomic!treeVars, HandlerBefore, Pending
<1> QED
  BY <1>1, <1>2, <1>3, AddNextCases, BuildIsTheTrees, BeginsIsHidden

LEMMA AddInitRefines == AddInit => Atomic!TreeInit
<1> SUFFICES ASSUME AddInit PROVE Atomic!TreeInit
  OBVIOUS
<1>1. stack = <<>> /\ TreeInit
  BY DEF AddInit
<1>2. \A u : Pending(u) = {}
  BY <1>1, EmptySeq DEF Pending
<1> QED
  BY <1>1, <1>2, BeforeIdle DEF TreeInit, Atomic!TreeInit

(* While an object is asked, registrations and whole additions to other    *)
(* types, nested to any depth, come between the choice of its miid and its *)
(* insertion.  None of them can be told from one that ran before it        *)
(* (MOTree.cpp:83-101, MOHandler.cpp:137-151).                             *)
THEOREM AddInstanceIsAtomic == ASSUME ~OwnType PROVE AddSpec => ImplementsMOTree
<1>1. AddInv /\ [AddNext]_addVars => AddInv'
  BY AddNextInv
<1>2. AddInv /\ [AddNext]_addVars => [Atomic!TreeNext]_Atomic!treeVars
  BY StepRefines
<1> QED
  BY <1>1, <1>2, AddInitInv, AddInitRefines, PTL
     DEF AddSpec, ImplementsMOTree, Atomic!TreeSpec
=============================================================================
