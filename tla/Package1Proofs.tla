--------------------------- MODULE Package1Proofs ---------------------------
(***************************************************************************)
(* Proofs about package 1, for every set of documents, names, values, MO   *)
(* types and objects: the dump is serialised from trees of every depth.    *)
(***************************************************************************)
EXTENDS Package1, NodeTreeProofs, MOTreeProofs

USE NodeAssumption, DDFAssumption

-----------------------------------------------------------------------------
(* A JSON value made of objects and strings.                               *)
JSON == UNION {[S -> Data] : S \in SUBSET Seq(Segment)}

(* Every string in it has at least one key before it.                      *)
IsObject(json) == json \in JSON /\ <<>> \notin DOMAIN json

LEMMA JSONFacts ==
  ASSUME NEW json
  PROVE  json \in JSON <=> /\ DOMAIN json \subseteq Seq(Segment)
                           /\ json = [path \in DOMAIN json |-> json[path]]
                           /\ \A path \in DOMAIN json : json[path] \in Data
<1>1. ASSUME json \in JSON
      PROVE  /\ DOMAIN json \subseteq Seq(Segment)
             /\ json = [path \in DOMAIN json |-> json[path]]
             /\ \A path \in DOMAIN json : json[path] \in Data
  BY <1>1 DEF JSON
<1>2. ASSUME DOMAIN json \subseteq Seq(Segment),
             json = [path \in DOMAIN json |-> json[path]],
             \A path \in DOMAIN json : json[path] \in Data
      PROVE  json \in JSON
  <2>1. json \in [DOMAIN json -> Data] /\ DOMAIN json \in SUBSET Seq(Segment)
    BY <1>2
  <2> QED
    BY <2>1 DEF JSON
<1> QED
  BY <1>1, <1>2

LEMMA NullFacts == IsObject(Null) /\ DOMAIN Null = {}
<1>1. DOMAIN Null = {} /\ Null = [path \in DOMAIN Null |-> Null[path]]
  BY DEF Null
<1> QED
  BY <1>1, JSONFacts DEF IsObject

LEMMA StringFacts ==
  ASSUME NEW s \in Data
  PROVE  String(s) \in JSON /\ DOMAIN String(s) = {<<>>} /\ String(s)[<<>>] = s
<1>1. DOMAIN String(s) = {<<>>} /\ String(s)[<<>>] = s
      /\ String(s) = [path \in DOMAIN String(s) |-> String(s)[path]]
  BY DEF String
<1>2. <<>> \in Seq(Segment)
  OBVIOUS
<1> QED
  BY <1>1, <1>2, JSONFacts

(* The path to q below a key.                                              *)
Below(key, q) == <<key>> \o q

LEMMA BelowFacts ==
  ASSUME NEW key \in Segment, NEW q \in Seq(Segment)
  PROVE  /\ Below(key, q) \in Seq(Segment) /\ Below(key, q) # <<>>
         /\ Below(key, q)[1] = key /\ Tail(Below(key, q)) = q
<1>1. <<key>> \in Seq(Segment) /\ Len(<<key>>) = 1 /\ <<key>>[1] = key
  OBVIOUS
<1>2. Below(key, q) \in Seq(Segment) /\ Len(Below(key, q)) = 1 + Len(q)
      /\ Below(key, q)[1] = key
  BY <1>1, ConcatProperties DEF Below
<1>3. Tail(Below(key, q)) = q
  BY DEF Below
<1> QED
  BY <1>2, <1>3

LEMMA PutFacts ==
  ASSUME NEW json, IsObject(json), NEW key \in Segment, NEW value \in JSON
  PROVE  /\ IsObject(Put(json, key, value))
         /\ \A path : path \in DOMAIN Put(json, key, value) <=>
                       \/ path \in DOMAIN json /\ path[1] # key
                       \/ \E q \in DOMAIN value : path = Below(key, q)
         /\ \A q \in DOMAIN value : Put(json, key, value)[Below(key, q)] = value[q]
         /\ \A q \in DOMAIN json : q[1] # key => Put(json, key, value)[q] = json[q]
<1> DEFINE new == Put(json, key, value)
           old == {q \in DOMAIN json : q[1] # key}
           put == {Below(key, q) : q \in DOMAIN value}
<1>1. /\ DOMAIN new = old \cup put
      /\ new = [path \in DOMAIN new |-> new[path]]
      /\ \A path \in DOMAIN new :
           new[path] = IF path[1] = key THEN value[Tail(path)] ELSE json[path]
  BY DEF Put, Below
<1>2. DOMAIN json \subseteq Seq(Segment) /\ DOMAIN value \subseteq Seq(Segment)
      /\ <<>> \notin DOMAIN json
      /\ (\A path \in DOMAIN json : json[path] \in Data)
      /\ (\A path \in DOMAIN value : value[path] \in Data)
  BY JSONFacts DEF IsObject
<1>3. \A q \in DOMAIN value : /\ Below(key, q) \in Seq(Segment) /\ Below(key, q) # <<>>
                              /\ Below(key, q)[1] = key /\ Tail(Below(key, q)) = q
  BY <1>2, BelowFacts
<1> HIDE DEF new
<1>4. ASSUME NEW q \in DOMAIN value
      PROVE  new[Below(key, q)] = value[q]
  <2>1. Below(key, q) \in DOMAIN new
    BY <1>1
  <2> QED
    BY <1>1, <1>3, <2>1
<1>5. \A q \in DOMAIN json : q[1] # key => new[q] = json[q]
  BY <1>1
<1>6. DOMAIN new \subseteq Seq(Segment) /\ <<>> \notin DOMAIN new
      /\ \A path \in DOMAIN new : new[path] \in Data
  BY <1>1, <1>2, <1>3, <1>4, <1>5
<1>7. new = [path \in DOMAIN new |-> new[path]]
  BY <1>1
<1>8. IsObject(new)
  BY <1>6, <1>7, JSONFacts DEF IsObject
<1> QED
  BY <1>1, <1>4, <1>5, <1>8 DEF new

-----------------------------------------------------------------------------
(* What the loop over the children of p has put together after i of them.  *)
Round(t, p, values, i, json) ==
  IF values[i] = Null THEN json ELSE Put(json, t[Append(p, i)].uri, values[i])

Looped(t, p, values, upto) ==
  /\ upto[0] = Null
  /\ \A i \in Positions(t, p) : upto[i] = Round(t, p, values, i, upto[i - 1])
  /\ \A i \in 0 .. t[p].size : IsObject(upto[i])

LEMMA JSONObjectUnfolds ==
  ASSUME NEW t, WellFormed(t), NEW p \in DOMAIN t, NEW values,
         \A i \in Positions(t, p) : values[i] \in JSON
  PROVE  \E upto : Looped(t, p, values, upto) /\ JSONObject(t, p, values) = upto[t[p].size]
<1> DEFINE n == t[p].size
           Objects == {json \in JSON : IsObject(json)}
           step == [i \in 1 .. n |-> [json \in Objects |-> Round(t, p, values, i, json)]]
<1>1. n \in Nat /\ \A i \in 1 .. n : t[Append(p, i)].uri \in Segment
  <2>1. n \in Nat /\ \A i \in Positions(t, p) : Append(p, i) \in DOMAIN t
    BY TreeFacts DEF WellFormed
  <2> QED
    BY <2>1 DEF WellFormed, Node, Segment, Positions
<1>2. ASSUME NEW i \in 1 .. n, NEW json \in Objects
      PROVE  Round(t, p, values, i, json) \in Objects
  <2>1. values[i] \in JSON /\ IsObject(json)
    BY DEF Positions
  <2>2. IsObject(Put(json, t[Append(p, i)].uri, values[i]))
    BY <1>1, <2>1, PutFacts
  <2> QED
    BY <2>2 DEF Round, IsObject
<1>3. Null \in Objects
  BY NullFacts DEF IsObject
<1>4. PICK g : Iterates(g, n, Objects, Null, step)
  <2>1. \A i \in 1 .. n : \A json \in Objects : step[i][json] \in Objects
    BY <1>2
  <2> HIDE DEF Objects, step, n
  <2> QED
    BY <1>1, <1>3, <2>1, IterationExists
<1> DEFINE Body(f) == [i \in 0 .. t[p].size |->
                         IF i = 0 THEN Null
                         ELSE IF values[i] = Null THEN f[i - 1]
                         ELSE Put(f[i - 1], t[Append(p, i)].uri, values[i])]
           Upto[i \in 0 .. t[p].size] ==
             IF i = 0 THEN Null
             ELSE IF values[i] = Null THEN Upto[i - 1]
             ELSE Put(Upto[i - 1], t[Append(p, i)].uri, values[i])
<1>5. g = Body(g)
  <2>1. g \in [0 .. n -> Objects] /\ g[0] = Null
        /\ \A i \in 1 .. n : g[i] = step[i][g[i - 1]]
    BY <1>4 DEF Iterates
  <2>2. ASSUME NEW i \in 1 .. n
        PROVE  g[i] = Round(t, p, values, i, g[i - 1])
    <3>1. i - 1 \in 0 .. n
      BY <1>1
    <3>2. g[i - 1] \in Objects
      BY <2>1, <3>1
    <3> QED
      BY <2>1, <3>2
  <2>3. DOMAIN g = 0 .. n /\ g = [i \in 0 .. n |-> g[i]]
    BY <2>1
  <2>4. \A i \in 0 .. n : g[i] = Body(g)[i]
    BY <2>1, <2>2, <1>1 DEF Round
  <2> HIDE DEF Body, Objects, step
  <2>5. Body(g) = [i \in 0 .. n |-> Body(g)[i]]
    BY DEF Body
  <2> QED
    BY <2>3, <2>4, <2>5
<1>6. Upto = CHOOSE f : f = Body(f)
  OBVIOUS
<1>7. JSONObject(t, p, values) = Upto[n]
  BY DEF JSONObject
<1>8. Upto = Body(Upto)
  <2> HIDE DEF Upto, Body
  <2> QED
    BY <1>5, <1>6
<1>9. Upto[0] = Null /\ \A i \in 1 .. n : Upto[i] = Round(t, p, values, i, Upto[i - 1])
  <2> HIDE DEF Upto
  <2> QED
    BY <1>1, <1>8 DEF Round
<1> HIDE DEF Upto, Body
<1>10. \A i \in 0 .. n : Upto[i] \in Objects
  <2> DEFINE S == {i \in 0 .. n : Upto[i] \in Objects}
  <2>1. 0 \in S
    BY <1>1, <1>3, <1>9
  <2>2. \A i \in 1 .. n : i - 1 \in S => i \in S
    BY <1>2, <1>9
  <2>3. \A i \in 0 .. n : i \in S
    <3> HIDE DEF S, n
    <3> QED
      BY <1>1, <2>1, <2>2, InductionUpTo
  <2> QED
    BY <2>3
<1>11. Looped(t, p, values, Upto)
  BY <1>9, <1>10 DEF Looped, Positions
<1> QED
  BY <1>7, <1>11

(* Every string of the object comes from one of the children, the i-th     *)
(* under its name.                                                         *)
FromChildren(json, t, p, values, n) ==
  \A path \in DOMAIN json : \E i \in 1 .. n : \E q \in DOMAIN values[i] :
    path = Below(t[Append(p, i)].uri, q) /\ json[path] = values[i][q]

(* And it has all of them.                                                 *)
OfAllChildren(json, t, p, values, n) ==
  \A i \in 1 .. n : \A q \in DOMAIN values[i] :
    /\ Below(t[Append(p, i)].uri, q) \in DOMAIN json
    /\ json[Below(t[Append(p, i)].uri, q)] = values[i][q]

LEMMA RoundFromChildren ==
  ASSUME NEW t, NEW p, NEW values, NEW n \in Nat, NEW i \in 1 .. n,
         values[i] \in JSON, t[Append(p, i)].uri \in Segment,
         NEW json, IsObject(json), FromChildren(json, t, p, values, i - 1)
  PROVE  FromChildren(Round(t, p, values, i, json), t, p, values, i)
<1> DEFINE name == t[Append(p, i)].uri
           new  == Put(json, name, values[i])
<1>1. FromChildren(json, t, p, values, i)
  BY DEF FromChildren
<1>2. /\ \A path : path \in DOMAIN new <=>
                    \/ path \in DOMAIN json /\ path[1] # name
                    \/ \E q \in DOMAIN values[i] : path = Below(name, q)
      /\ \A q \in DOMAIN values[i] : new[Below(name, q)] = values[i][q]
      /\ \A q \in DOMAIN json : q[1] # name => new[q] = json[q]
  BY PutFacts
<1> HIDE DEF new, name
<1>3. FromChildren(new, t, p, values, i)
  <2> SUFFICES ASSUME NEW path \in DOMAIN new
               PROVE  \E j \in 1 .. i : \E q \in DOMAIN values[j] :
                        path = Below(t[Append(p, j)].uri, q) /\ new[path] = values[j][q]
    BY DEF FromChildren
  <2>1. CASE path \in DOMAIN json /\ path[1] # name
    BY <1>1, <1>2, <2>1 DEF FromChildren
  <2>2. CASE \E q \in DOMAIN values[i] : path = Below(name, q)
    <3>1. i \in 1 .. i
      OBVIOUS
    <3> QED
      BY <1>2, <2>2, <3>1 DEF name
  <2> QED
    BY <1>2, <2>1, <2>2
<1> QED
  BY <1>1, <1>3 DEF Round, new, name

LEMMA RoundOfAllChildren ==
  ASSUME NEW t, NEW p, NEW values, NEW n \in Nat, NEW i \in 1 .. n,
         \A j \in 1 .. n : values[j] \in JSON /\ t[Append(p, j)].uri \in Segment,
         \A j \in 1 .. n : t[Append(p, j)].uri = t[Append(p, i)].uri => j = i,
         NEW json, IsObject(json), OfAllChildren(json, t, p, values, i - 1)
  PROVE  OfAllChildren(Round(t, p, values, i, json), t, p, values, i)
<1> DEFINE name == t[Append(p, i)].uri
           new  == Put(json, name, values[i])
<1>1. values[i] \in JSON /\ name \in Segment
  OBVIOUS
<1>2. /\ \A path : path \in DOMAIN new <=>
                    \/ path \in DOMAIN json /\ path[1] # name
                    \/ \E q \in DOMAIN values[i] : path = Below(name, q)
      /\ \A q \in DOMAIN values[i] : new[Below(name, q)] = values[i][q]
      /\ \A q \in DOMAIN json : q[1] # name => new[q] = json[q]
  BY <1>1, PutFacts
<1>3. ASSUME values[i] = Null
      PROVE  OfAllChildren(json, t, p, values, i)
  <2>1. DOMAIN values[i] = {}
    BY <1>3, NullFacts
  <2> QED
    BY <2>1 DEF OfAllChildren
<1>4. OfAllChildren(new, t, p, values, i)
  <2> SUFFICES ASSUME NEW j \in 1 .. i, NEW q \in DOMAIN values[j]
               PROVE  /\ Below(t[Append(p, j)].uri, q) \in DOMAIN new
                      /\ new[Below(t[Append(p, j)].uri, q)] = values[j][q]
    BY DEF OfAllChildren
  <2>1. CASE j = i
    BY <1>2, <2>1
  <2>2. CASE j # i
    <3> DEFINE path == Below(t[Append(p, j)].uri, q)
    <3>1. j \in 1 .. i - 1 /\ j \in 1 .. n
      BY <2>2
    <3>2. path \in DOMAIN json /\ json[path] = values[j][q]
      BY <3>1 DEF OfAllChildren
    <3>3. q \in Seq(Segment)
      BY <3>1, JSONFacts
    <3>4. path[1] = t[Append(p, j)].uri
      BY <3>1, <3>3, BelowFacts
    <3>5. path[1] # name
      BY <2>2, <3>1, <3>4
    <3> HIDE DEF path, new, name
    <3>6. path \in DOMAIN new /\ new[path] = json[path]
      BY <1>2, <3>2, <3>5
    <3> QED
      BY <3>2, <3>6 DEF path
  <2> QED
    BY <2>1, <2>2
<1> QED
  BY <1>3, <1>4 DEF Round

LEMMA JSONObjectFacts ==
  ASSUME NEW t, WellFormed(t), NEW p \in DOMAIN t, NEW values,
         \A i \in Positions(t, p) : values[i] \in JSON
  PROVE  /\ IsObject(JSONObject(t, p, values))
         /\ FromChildren(JSONObject(t, p, values), t, p, values, t[p].size)
         /\ NoDoublets(t) =>
              OfAllChildren(JSONObject(t, p, values), t, p, values, t[p].size)
<1> DEFINE n == t[p].size
<1>1. n \in Nat /\ \A i \in 1 .. n : values[i] \in JSON /\ t[Append(p, i)].uri \in Segment
  <2>1. n \in Nat /\ \A i \in Positions(t, p) : Append(p, i) \in DOMAIN t
    BY TreeFacts DEF WellFormed
  <2> QED
    BY <2>1 DEF WellFormed, Node, Segment, Positions
<1>2. PICK upto : Looped(t, p, values, upto) /\ JSONObject(t, p, values) = upto[n]
  BY JSONObjectUnfolds
<1>3. /\ upto[0] = Null
      /\ \A i \in 1 .. n : upto[i] = Round(t, p, values, i, upto[i - 1])
      /\ \A i \in 0 .. n : IsObject(upto[i])
  BY <1>2 DEF Looped, Positions
<1>4. \A i \in 0 .. n : FromChildren(upto[i], t, p, values, i)
  <2> DEFINE S == {i \in 0 .. n : FromChildren(upto[i], t, p, values, i)}
  <2>1. 0 \in S
    BY <1>1, <1>3, NullFacts DEF FromChildren
  <2>2. ASSUME NEW i \in 1 .. n, i - 1 \in S
        PROVE  i \in S
    <3>1. IsObject(upto[i - 1]) /\ FromChildren(upto[i - 1], t, p, values, i - 1)
      BY <1>1, <1>3, <2>2
    <3>2. FromChildren(Round(t, p, values, i, upto[i - 1]), t, p, values, i)
      BY <1>1, <3>1, RoundFromChildren
    <3> QED
      BY <1>3, <3>2
  <2>3. \A i \in 0 .. n : i \in S
    <3> HIDE DEF S, n
    <3> QED
      BY <1>1, <2>1, <2>2, InductionUpTo
  <2> QED
    BY <2>3
<1>5. ASSUME NoDoublets(t)
      PROVE  \A i \in 0 .. n : OfAllChildren(upto[i], t, p, values, i)
  <2> DEFINE S == {i \in 0 .. n : OfAllChildren(upto[i], t, p, values, i)}
  <2>1. 0 \in S
    BY <1>1 DEF OfAllChildren
  <2>2. ASSUME NEW i \in 1 .. n, i - 1 \in S
        PROVE  i \in S
    <3>1. IsObject(upto[i - 1]) /\ OfAllChildren(upto[i - 1], t, p, values, i - 1)
      BY <1>1, <1>3, <2>2
    <3>2. \A j \in 1 .. n : t[Append(p, j)].uri = t[Append(p, i)].uri => j = i
      BY <1>5 DEF NoDoublets, Positions
    <3> HIDE DEF n
    <3>3. OfAllChildren(Round(t, p, values, i, upto[i - 1]), t, p, values, i)
      BY <1>1, <3>1, <3>2, RoundOfAllChildren
    <3> QED
      BY <1>3, <3>3
  <2>3. \A i \in 0 .. n : i \in S
    <3> HIDE DEF S, n
    <3> QED
      BY <1>1, <2>1, <2>2, InductionUpTo
  <2> QED
    BY <2>3
<1>6. n \in 0 .. n
  BY <1>1
<1> QED
  BY <1>2, <1>3, <1>4, <1>5, <1>6

-----------------------------------------------------------------------------
(* The nodes serialize_children passes, all from a DDF file.               *)
LEMMA ParsedChildren ==
  ASSUME NEW t, Parsed(t), NEW p \in DOMAIN t, NEW i \in Positions(t, p)
  PROVE  /\ p \in Address /\ Len(p) \in Nat /\ i \in Nat \ {0}
         /\ Append(p, i) \in DOMAIN t /\ Append(p, i) # <<>>
         /\ t[Append(p, i)].uri \in Names /\ t[Append(p, i)].uri \in Segment
         /\ t[Append(p, i)].is_leaf \in BOOLEAN
<1>1. IsTree(t) /\ \A q \in DOMAIN t : t[q] \in Node
  BY DEF Parsed, WellFormed
<1>2. p \in Address /\ Append(p, i) \in DOMAIN t /\ t[p].size \in Nat
  BY <1>1, TreeFacts
<1>3. i \in Nat \ {0}
  BY <1>2 DEF Positions
<1>4. Len(p) \in Nat /\ Append(p, i) # <<>>
  <2>1. p \in Seq(Nat \ {0})
    BY <1>2 DEF Address
  <2> QED
    BY <1>3, <2>1, LenProperties, AppendProperties
<1>5. t[Append(p, i)].uri \in Names
  BY <1>2, <1>4 DEF Parsed
<1> QED
  BY <1>1, <1>2, <1>3, <1>4, <1>5 DEF Node, Segment

(* What get_val came to for every leaf: a string, or nothing.              *)
Answers(t, answer) ==
  \A p \in Asked(t) : answer[p] = Null \/ \E d \in Data : answer[p] = String(d)

(* What the loop over the children of p finds them to come to, f being     *)
(* what the recursive calls return.                                        *)
ChildValues(t, answer, p, f) ==
  [i \in Positions(t, p) |-> IF AskedFor(t[Append(p, i)])
                               THEN answer[Append(p, i)]
                               ELSE f[Append(p, i)]]

(* f is what serialize_children returns for each node.                     *)
Serializes(t, answer, f) ==
  /\ f \in [DOMAIN t -> JSON]
  /\ \A p \in DOMAIN t : f[p] = JSONObject(t, p, ChildValues(t, answer, p, f))

LEMMA AnswerType ==
  ASSUME NEW t, NEW answer, Answers(t, answer), NEW p \in Asked(t)
  PROVE  answer[p] \in JSON
BY StringFacts, NullFacts DEF Answers, IsObject

LEMMA SerializeUnfolds ==
  ASSUME NEW t, Parsed(t), NEW answer, Answers(t, answer)
  PROVE  \E f : Serializes(t, answer, f) /\ serialize_children(t, answer) = f[<<>>]
<1> DEFINE V == [DOMAIN t -> JSON]
           F == [g \in V |-> [p \in DOMAIN t |->
                   JSONObject(t, p, ChildValues(t, answer, p, g))]]
<1>1. /\ WellFormed(t) /\ IsTree(t) /\ IsFiniteSet(DOMAIN t) /\ <<>> \in DOMAIN t
      /\ \A p \in DOMAIN t : \A i \in Positions(t, p) :
           Append(p, i) \in DOMAIN t /\ Append(p, i) # <<>>
  BY ParsedChildren DEF Parsed, WellFormed, IsTree
<1>2. ASSUME NEW g, NEW p \in DOMAIN t,
             \A i \in Positions(t, p) : g[Append(p, i)] \in JSON
      PROVE  JSONObject(t, p, ChildValues(t, answer, p, g)) \in JSON
  <2>1. ASSUME NEW i \in Positions(t, p)
        PROVE  ChildValues(t, answer, p, g)[i] \in JSON
    <3>1. AskedFor(t[Append(p, i)]) => answer[Append(p, i)] \in JSON
      BY <1>1, AnswerType DEF Asked
    <3> QED
      BY <1>2, <3>1 DEF ChildValues
  <2> QED
    BY <1>1, <2>1, JSONObjectFacts DEF IsObject
<1>3. F \in [V -> V]
  BY <1>1, <1>2
<1>4. LooksBelow(t, JSON, F)
  <2> SUFFICES ASSUME NEW g \in V, NEW h \in V, NEW p \in DOMAIN t,
                      \A i \in Positions(t, p) : g[Append(p, i)] = h[Append(p, i)]
               PROVE  F[g][p] = F[h][p]
    BY DEF LooksBelow
  <2>1. ChildValues(t, answer, p, g) = ChildValues(t, answer, p, h)
    BY DEF ChildValues
  <2>2. /\ F[g][p] = JSONObject(t, p, ChildValues(t, answer, p, g))
        /\ F[h][p] = JSONObject(t, p, ChildValues(t, answer, p, h))
    OBVIOUS
  <2> QED
    BY <2>1, <2>2
<1>5. PICK g \in V : g = F[g]
  <2>1. Null \in JSON
    BY NullFacts DEF IsObject
  <2>2. \A g \in [DOMAIN t -> JSON] : F[g] \in [DOMAIN t -> JSON]
    BY <1>3
  <2>3. \E g : FixedPoint(t, JSON, F, g)
    <3> HIDE DEF F
    <3> QED
      BY <1>1, <1>4, <2>1, <2>2, RecursionOverTree
  <2> QED
    BY <2>3 DEF FixedPoint
<1> DEFINE Body(f) == [p \in DOMAIN t |->
                         JSONObject(t, p,
                           [i \in Positions(t, p) |-> IF AskedFor(t[Append(p, i)])
                                                        THEN answer[Append(p, i)]
                                                        ELSE f[Append(p, i)]])]
           Children[p \in DOMAIN t] ==
             JSONObject(t, p,
               [i \in Positions(t, p) |-> IF AskedFor(t[Append(p, i)])
                                            THEN answer[Append(p, i)]
                                            ELSE Children[Append(p, i)]])
<1>6. g = Body(g)
  BY <1>5 DEF ChildValues
<1>7. Children = CHOOSE f : f = Body(f)
  OBVIOUS
<1>8. serialize_children(t, answer) = Children[<<>>]
  BY DEF serialize_children
<1>9. Children = Body(Children)
  <2> HIDE DEF Children, Body
  <2> QED
    BY <1>6, <1>7
<1>10. DOMAIN Children = DOMAIN t
       /\ Children = [p \in DOMAIN t |-> Children[p]]
       /\ \A p \in DOMAIN t : Children[p] = JSONObject(t, p, ChildValues(t, answer, p, Children))
  <2> HIDE DEF Children
  <2> QED
    BY <1>9 DEF ChildValues
<1> HIDE DEF Children, Body
<1>11. \A p \in DOMAIN t : Children[p] \in JSON
  <2> DEFINE S == {p \in DOMAIN t : Children[p] \in JSON}
  <2>1. ASSUME NEW p \in DOMAIN t, \A i \in Positions(t, p) : Append(p, i) \in S
        PROVE  p \in S
    <3>1. \A i \in Positions(t, p) : Children[Append(p, i)] \in JSON
      BY <2>1
    <3> QED
      BY <1>2, <1>10, <3>1
  <2>2. \A p \in DOMAIN t : p \in S
    <3> HIDE DEF S
    <3> QED
      BY <1>1, <2>1, InductionOverTree
  <2> QED
    BY <2>2
<1>12. Serializes(t, answer, Children)
  BY <1>10, <1>11 DEF Serializes
<1> QED
  BY <1>8, <1>12

-----------------------------------------------------------------------------
(* The leading '/' of the URI is skipped again (Helper.cpp:15-31).         *)
LEMMA UriIsNames ==
  ASSUME NEW t, Parsed(t), NEW p \in DOMAIN t, p # <<>>
  PROVE  vectorize_path(Uri(t, p)) = NamesTo(t, p)
<1> DEFINE s == NamesTo(t, p)
           u == <<NoName>> \o s
<1>1. p \in Address /\ Len(p) \in Nat /\ WellFormed(t)
  BY TreeFacts, LenProperties DEF Parsed, WellFormed, Address
<1>2. /\ s \in Seq(Segment) /\ Len(s) = Len(p)
      /\ \A n \in 1 .. Len(p) : s[n] = t[Prefix(p, n)].uri
  BY <1>1, NamesToFacts
<1>3. Len(p) # 0
  BY <1>1, EmptySeq DEF Address
<1>4. Prefix(p, Len(p)) = p
  BY <1>1, PrefixFull DEF Address
<1>5. s[Len(s)] = t[p].uri /\ s[Len(s)] # NoName
  <2>1. Len(p) \in 1 .. Len(p)
    BY <1>1, <1>3
  <2>2. t[p].uri # NoName
    BY DEF Parsed
  <2> QED
    BY <1>2, <1>4, <2>1, <2>2
<1> HIDE DEF s
<1>6. u[1] = NoName /\ Len(u) > 1 /\ Tail(u) = s
  <2>1. <<NoName>> \in Seq(Segment) /\ Len(<<NoName>>) = 1 /\ <<NoName>>[1] = NoName
    BY DEF Segment
  <2>2. Len(u) = 1 + Len(s) /\ u[1] = NoName
    BY <1>2, <2>1, ConcatProperties
  <2>3. Tail(u) = s
    BY <1>2
  <2> QED
    BY <1>1, <1>2, <1>3, <2>2, <2>3
<1> HIDE DEF u
<1>7. vectorize_path(u) = s
  BY <1>5, <1>6 DEF vectorize_path
<1> QED
  BY <1>7 DEF Uri, u, s

(* The value of a child: the string of a leaf alone, or what is below it.  *)
LEMMA ChildValueFacts ==
  ASSUME NEW t, Parsed(t), NEW answer, Answers(t, answer),
         NEW f, Serializes(t, answer, f),
         NEW p \in DOMAIN t, NEW i \in Positions(t, p)
  PROVE  /\ ChildValues(t, answer, p, f)[i] \in JSON
         /\ ~t[Append(p, i)].is_leaf => ChildValues(t, answer, p, f)[i] = f[Append(p, i)]
         /\ t[Append(p, i)].is_leaf =>
              /\ Append(p, i) \in Asked(t)
              /\ ChildValues(t, answer, p, f)[i] = answer[Append(p, i)]
              /\ answer[Append(p, i)] # Null => DOMAIN answer[Append(p, i)] = {<<>>}
<1> DEFINE child == Append(p, i)
           v == ChildValues(t, answer, p, f)[i]
<1>1. child \in DOMAIN t /\ child # <<>>
  BY ParsedChildren
<1>2. v = IF t[child].is_leaf THEN answer[child] ELSE f[child]
  BY DEF ChildValues, AskedFor
<1>3. t[child].is_leaf => child \in Asked(t)
  BY <1>1 DEF Asked, AskedFor
<1>4. f[child] \in JSON /\ (t[child].is_leaf => answer[child] \in JSON)
  BY <1>1, <1>3, AnswerType DEF Serializes
<1>5. t[child].is_leaf /\ answer[child] # Null => DOMAIN answer[child] = {<<>>}
  BY <1>3 DEF Answers, String
<1> HIDE DEF child, v
<1> QED
  BY <1>2, <1>3, <1>4, <1>5 DEF child, v

LEMMA BelowNames ==
  ASSUME NEW t, Parsed(t), NEW p \in DOMAIN t, NEW i \in Positions(t, p),
         NEW q \in Seq(Segment)
  PROVE  /\ NamesTo(t, p) \in Seq(Segment)
         /\ NamesTo(t, p) \o Below(t[Append(p, i)].uri, q) = NamesTo(t, Append(p, i)) \o q
<1> DEFINE names == NamesTo(t, p)
           name  == t[Append(p, i)].uri
<1>1. names \in Seq(Segment) /\ name \in Segment
  BY ParsedChildren, NamesToFacts DEF Parsed
<1>2. NamesTo(t, Append(p, i)) = Append(names, name)
  BY NamesToBelow DEF Parsed
<1> HIDE DEF names, name
<1>3. Append(names, name) = names \o <<name>>
  BY <1>1
<1>4. (names \o <<name>>) \o q = names \o (<<name>> \o q)
  <2>1. <<name>> \in Seq(Segment)
    BY <1>1
  <2> QED
    BY <1>1, <2>1, ConcatAssociative
<1> QED
  BY <1>1, <1>2, <1>3, <1>4 DEF Below, names, name

(* Each string serialize_children puts below a node is what get_val came   *)
(* to for a leaf the file has there, under its names.                      *)
IsAnswerAt(t, answer, leaf, path, value) ==
  NamesTo(t, leaf) = path /\ answer[leaf] # Null /\ value = answer[leaf][<<>>]

ShowsLeavesOnly(t, answer, p, json) ==
  \A q \in DOMAIN json :
    \E leaf \in Asked(t) : IsAnswerAt(t, answer, leaf, NamesTo(t, p) \o q, json[q])

LEMMA SerializedLeavesOnly ==
  ASSUME NEW t, Parsed(t), NEW answer, Answers(t, answer),
         NEW f, Serializes(t, answer, f)
  PROVE  \A p \in DOMAIN t : ShowsLeavesOnly(t, answer, p, f[p])
<1> DEFINE S == {p \in DOMAIN t : ShowsLeavesOnly(t, answer, p, f[p])}
<1>0. WellFormed(t) /\ IsTree(t) /\ IsFiniteSet(DOMAIN t)
  BY DEF Parsed, WellFormed
<1>1. ASSUME NEW p \in DOMAIN t, \A i \in Positions(t, p) : Append(p, i) \in S
      PROVE  p \in S
  <2> DEFINE values == ChildValues(t, answer, p, f)
  <2>1. \A i \in Positions(t, p) : values[i] \in JSON
    BY ChildValueFacts
  <2>2. FromChildren(f[p], t, p, values, t[p].size)
    BY <1>0, <2>1, JSONObjectFacts DEF Serializes
  <2> SUFFICES ASSUME NEW q \in DOMAIN f[p]
               PROVE  \E leaf \in Asked(t) :
                        IsAnswerAt(t, answer, leaf, NamesTo(t, p) \o q, f[p][q])
    BY DEF ShowsLeavesOnly
  <2>3. PICK i \in Positions(t, p) : \E r \in DOMAIN values[i] :
               q = Below(t[Append(p, i)].uri, r) /\ f[p][q] = values[i][r]
    BY <2>2 DEF FromChildren, Positions
  <2>4. PICK r \in DOMAIN values[i] :
               q = Below(t[Append(p, i)].uri, r) /\ f[p][q] = values[i][r]
    BY <2>3
  <2> DEFINE child == Append(p, i)
  <2>5. r \in Seq(Segment)
    BY <2>1, JSONFacts
  <2>6. NamesTo(t, p) \o q = NamesTo(t, child) \o r
    BY <2>4, <2>5, BelowNames
  <2>7. CASE ~t[child].is_leaf
    <3>1. values[i] = f[child]
      BY <2>7, ChildValueFacts
    <3>2. ShowsLeavesOnly(t, answer, child, f[child])
      BY <1>1
    <3> HIDE DEF child, values
    <3> QED
      BY <2>4, <2>6, <3>1, <3>2 DEF ShowsLeavesOnly
  <2>8. CASE t[child].is_leaf
    <3>1. child \in Asked(t) /\ child \in DOMAIN t /\ values[i] = answer[child]
      BY <2>8, ChildValueFacts DEF Asked
    <3>2. NamesTo(t, child) \in Seq(Segment)
      BY <1>0, <3>1, NamesToFacts
    <3>3. answer[child] # Null
      BY <2>4, <3>1, NullFacts
    <3>4. r = <<>>
      BY <2>4, <2>8, <3>1, <3>3, ChildValueFacts
    <3>5. NamesTo(t, child) \o r = NamesTo(t, child)
      BY <3>2, <3>4, ConcatEmptySeq
    <3> HIDE DEF child, values
    <3> QED
      BY <2>4, <2>6, <3>1, <3>3, <3>4, <3>5 DEF IsAnswerAt
  <2> QED
    BY <2>7, <2>8
<1>2. \A p \in DOMAIN t : p \in S
  <2> HIDE DEF S
  <2> QED
    BY <1>0, <1>1, InductionOverTree
<1> QED
  BY <1>2

-----------------------------------------------------------------------------
(* leaf is an address below p.                                             *)
IsBelow(leaf, p) == Len(p) < Len(leaf) /\ Prefix(leaf, Len(p)) = p

(* The other way round: no leaf below the node is missing.                 *)
ShowsEveryLeaf(t, answer, p, json) ==
  \A leaf \in LeavesOf(t) :
    IsBelow(leaf, p) /\ answer[leaf] # Null =>
      \E q \in DOMAIN json : NamesTo(t, p) \o q = NamesTo(t, leaf)

(* The child of p that leads to the leaf.                                  *)
LEMMA WayDown ==
  ASSUME NEW t, Parsed(t), NEW p \in DOMAIN t, NEW leaf \in LeavesOf(t), IsBelow(leaf, p)
  PROVE  \E i \in Positions(t, p) :
            IF t[Append(p, i)].is_leaf THEN leaf = Append(p, i)
                                       ELSE IsBelow(leaf, Append(p, i))
<1> DEFINE n == Len(p)
           i == leaf[n + 1]
           child == Append(p, i)
<1>1. IsTree(t) /\ leaf \in DOMAIN t /\ t[leaf].is_leaf
  BY DEF Parsed, WellFormed, LeavesOf
<1>2. /\ p \in Address /\ n \in Nat /\ leaf \in Address /\ Len(leaf) \in Nat
      /\ \A m \in 0 .. Len(leaf) : Prefix(leaf, m) \in DOMAIN t
      /\ \A m \in 1 .. Len(leaf) : leaf[m] \in Positions(t, Prefix(leaf, m - 1))
  BY <1>1, TreeFacts, LenProperties DEF Address
<1>3. n < Len(leaf) /\ Prefix(leaf, n) = p
  BY DEF IsBelow
<1>4. n + 1 \in 1 .. Len(leaf) /\ n + 1 \in Nat
  BY <1>2, <1>3
<1>5. i \in Positions(t, p)
  <2>1. leaf[n + 1] \in Positions(t, Prefix(leaf, (n + 1) - 1))
    BY <1>2, <1>4
  <2>2. (n + 1) - 1 = n
    BY <1>2
  <2> QED
    BY <1>3, <2>1, <2>2
<1>6. Prefix(leaf, n + 1) = child
  <2>1. Prefix(leaf, n + 1) = Append(Prefix(leaf, (n + 1) - 1), leaf[n + 1])
    BY <1>2, <1>4, PrefixStep DEF Address
  <2>2. (n + 1) - 1 = n
    BY <1>2
  <2> QED
    BY <1>3, <2>1, <2>2
<1>7. /\ child \in DOMAIN t /\ child # <<>> /\ Len(child) = n + 1
      /\ t[child].is_leaf \in BOOLEAN
  <2>1. /\ child \in DOMAIN t /\ child # <<>> /\ i \in Nat \ {0}
        /\ t[child].is_leaf \in BOOLEAN
    BY <1>5, ParsedChildren
  <2> QED
    BY <1>2, <2>1, AppendProperties DEF Address
<1> HIDE DEF i, child, n
<1>8. CASE Len(leaf) = n + 1
  <2>1. leaf = child
    BY <1>2, <1>6, <1>8, PrefixFull DEF Address
  <2> QED
    BY <1>1, <1>5, <2>1 DEF child
<1>9. CASE n + 1 < Len(leaf)
  <2>1. n + 2 \in 1 .. Len(leaf) /\ (n + 2) - 1 = n + 1
    BY <1>2, <1>9
  <2>2. leaf[n + 2] \in Positions(t, child)
    BY <1>2, <1>6, <2>1
  <2>3. t[child].size # 0
    BY <2>2 DEF Positions
  <2>4. ~t[child].is_leaf
    BY <1>7, <2>3 DEF Parsed
  <2>5. IsBelow(leaf, child)
    BY <1>6, <1>7, <1>9 DEF IsBelow
  <2> QED
    BY <1>5, <2>4, <2>5 DEF child
<1> QED
  BY <1>2, <1>3, <1>8, <1>9

LEMMA SerializedEveryLeaf ==
  ASSUME NEW t, Parsed(t), NoDoublets(t), NEW answer, Answers(t, answer),
         NEW f, Serializes(t, answer, f)
  PROVE  \A p \in DOMAIN t : ShowsEveryLeaf(t, answer, p, f[p])
<1> DEFINE S == {p \in DOMAIN t : ShowsEveryLeaf(t, answer, p, f[p])}
<1>0. WellFormed(t) /\ IsTree(t) /\ IsFiniteSet(DOMAIN t)
  BY DEF Parsed, WellFormed
<1>1. ASSUME NEW p \in DOMAIN t, \A i \in Positions(t, p) : Append(p, i) \in S
      PROVE  p \in S
  <2> DEFINE values == ChildValues(t, answer, p, f)
  <2>1. \A i \in Positions(t, p) : values[i] \in JSON
    BY ChildValueFacts
  <2>2. OfAllChildren(f[p], t, p, values, t[p].size)
    BY <1>0, <2>1, JSONObjectFacts DEF Serializes
  <2> SUFFICES ASSUME NEW leaf \in LeavesOf(t), IsBelow(leaf, p),
                      answer[leaf] # Null
               PROVE  \E q \in DOMAIN f[p] : NamesTo(t, p) \o q = NamesTo(t, leaf)
    BY DEF ShowsEveryLeaf
  <2>3. PICK i \in Positions(t, p) : IF t[Append(p, i)].is_leaf
                                       THEN leaf = Append(p, i)
                                       ELSE IsBelow(leaf, Append(p, i))
    BY WayDown
  <2> DEFINE child == Append(p, i)
  <2>4. \E r \in DOMAIN values[i] : NamesTo(t, child) \o r = NamesTo(t, leaf)
    <3>1. CASE t[child].is_leaf
      <4>1. leaf = child
        BY <2>3, <3>1
      <4>2. <<>> \in DOMAIN values[i]
        BY <3>1, <4>1, ChildValueFacts
      <4>3. NamesTo(t, child) \in Seq(Segment)
        BY <1>0, <4>1, NamesToFacts DEF LeavesOf
      <4>4. NamesTo(t, child) \o <<>> = NamesTo(t, child)
        BY <4>3, ConcatEmptySeq
      <4> QED
        BY <4>1, <4>2, <4>4
    <3>2. CASE ~t[child].is_leaf
      <4>1. IsBelow(leaf, child) /\ values[i] = f[child]
        BY <2>3, <3>2, ChildValueFacts
      <4>2. ShowsEveryLeaf(t, answer, child, f[child])
        BY <1>1
      <4> HIDE DEF child, values
      <4> QED
        BY <4>1, <4>2 DEF ShowsEveryLeaf
    <3> QED
      BY <3>1, <3>2
  <2>5. PICK r \in DOMAIN values[i] : NamesTo(t, child) \o r = NamesTo(t, leaf)
    BY <2>4
  <2>6. Below(t[child].uri, r) \in DOMAIN f[p]
    BY <2>2 DEF OfAllChildren, Positions
  <2>7. r \in Seq(Segment)
    BY <2>1, JSONFacts
  <2>8. NamesTo(t, p) \o Below(t[child].uri, r) = NamesTo(t, child) \o r
    BY <2>7, BelowNames
  <2> QED
    BY <2>5, <2>6, <2>8
<1>2. \A p \in DOMAIN t : p \in S
  <2> HIDE DEF S
  <2> QED
    BY <1>0, <1>1, InductionOverTree
<1> QED
  BY <1>2

(* What is dumped of an instance, for every tree and all answers.          *)
LEMMA SerializedFacts ==
  ASSUME NEW t, Parsed(t), NEW answer, Answers(t, answer)
  PROVE  /\ serialize_children(t, answer) \in JSON
         /\ \A path \in DOMAIN serialize_children(t, answer) :
              \E leaf \in Asked(t) :
                IsAnswerAt(t, answer, leaf, path, serialize_children(t, answer)[path])
         /\ NoDoublets(t) => \A leaf \in LeavesOf(t) :
              answer[leaf] # Null => NamesTo(t, leaf) \in DOMAIN serialize_children(t, answer)
<1>1. WellFormed(t) /\ IsFiniteSet(DOMAIN t) /\ <<>> \in DOMAIN t
  BY DEF Parsed, WellFormed, IsTree
<1>2. PICK f : Serializes(t, answer, f) /\ serialize_children(t, answer) = f[<<>>]
  BY SerializeUnfolds
<1>3. f[<<>>] \in JSON
  BY <1>1, <1>2 DEF Serializes
<1>4. \A q \in Seq(Segment) : NamesTo(t, <<>>) \o q = q
  BY ReachesRoot, ConcatEmptySeq
<1>5. DOMAIN f[<<>>] \subseteq Seq(Segment)
  BY <1>3, JSONFacts
<1>6. ShowsLeavesOnly(t, answer, <<>>, f[<<>>])
  BY <1>1, <1>2, SerializedLeavesOnly
<1>7. ASSUME NEW path \in DOMAIN f[<<>>]
      PROVE  \E leaf \in Asked(t) : IsAnswerAt(t, answer, leaf, path, f[<<>>][path])
  <2>1. NamesTo(t, <<>>) \o path = path
    BY <1>4, <1>5
  <2> QED
    BY <1>6, <2>1 DEF ShowsLeavesOnly
<1>8. ASSUME NoDoublets(t), NEW leaf \in LeavesOf(t), answer[leaf] # Null
      PROVE  NamesTo(t, leaf) \in DOMAIN f[<<>>]
  <2>2. leaf \in Address /\ Len(leaf) \in Nat /\ leaf # <<>>
    BY <1>1, TreeFacts, LenProperties DEF LeavesOf, WellFormed, Address
  <2>3. IsBelow(leaf, <<>>)
    <3>1. Len(leaf) # 0
      BY <2>2, EmptySeq DEF Address
    <3>2. Len(<<>>) = 0
      OBVIOUS
    <3> QED
      BY <2>2, <3>1, <3>2, PrefixNone DEF IsBelow
  <2>4. ShowsEveryLeaf(t, answer, <<>>, f[<<>>])
    BY <1>1, <1>2, <1>8, SerializedEveryLeaf
  <2>5. PICK q \in DOMAIN f[<<>>] : NamesTo(t, <<>>) \o q = NamesTo(t, leaf)
    BY <1>8, <2>3, <2>4 DEF ShowsEveryLeaf
  <2> QED
    BY <1>4, <1>5, <2>5
<1> QED
  BY <1>2, <1>3, <1>7, <1>8

-----------------------------------------------------------------------------
(* Where local_set_node stands in which tree.                              *)
Walking == {w \in [tree : NodeTrees, at : Address] : w.at \in DOMAIN w.tree}

(* One round of its loop (MO_BaseCached.cpp:48-62).                        *)
NewNode(segment) == [uri |-> segment, is_leaf |-> TRUE, data |-> Empty, size |-> 0]

StepDown(w, segment) ==
  IF HasChild(w.tree, w.at, segment)
    THEN [w EXCEPT !.at = Child(w.tree, @, segment)]
    ELSE [tree |-> PushBack(w.tree, w.at, NewNode(segment)), at |-> Pushed(w.tree, w.at)]

(* It stands where a get of the names passed would find it, and every get  *)
(* answers as before.                                                      *)
Passed(t, w, names) ==
  /\ w \in Walking /\ Reaches(w.tree, w.at, names)
  /\ \A path \in Seq(Segment) : Value(w.tree, path) = Value(t, path)

LEMMA StepDownType ==
  ASSUME NEW w \in Walking, NEW segment \in Segment
  PROVE  StepDown(w, segment) \in Walking
<1> DEFINE t == w.tree
           p == w.at
           u == PushBack(t, p, NewNode(segment))
<1>1. w = [tree |-> t, at |-> p] /\ t \in NodeTrees /\ p \in DOMAIN t
  BY DEF Walking
<1>2. WellFormed(t) /\ IsTree(t)
  BY <1>1, NodeTreesFacts DEF WellFormed
<1> HIDE DEF t, p
<1>3. CASE HasChild(t, p, segment)
  <2>1. Child(t, p, segment) \in DOMAIN t
    BY <1>1, <1>2, <1>3, ChildFacts
  <2>2. Child(t, p, segment) \in Address
    BY <1>2, <2>1, TreeFacts
  <2>3. StepDown(w, segment) = [tree |-> t, at |-> Child(t, p, segment)]
    BY <1>1, <1>3 DEF StepDown, t, p
  <2> QED
    BY <1>1, <2>1, <2>2, <2>3 DEF Walking
<1>4. CASE ~HasChild(t, p, segment)
  <2>1. NewNode(segment) \in Childless
    BY DEF NewNode, Childless, Node, Segment
  <2>2. WellFormed(u) /\ u = [q \in DOMAIN u |-> u[q]] /\ Pushed(t, p) \in DOMAIN u
    BY <1>1, <1>2, <2>1, PushBackWellFormed DEF PushBack
  <2>3. u \in NodeTrees /\ Pushed(t, p) \in Address
    BY <1>1, <1>2, <2>2, NodeTreesFacts, TreeFacts
  <2>4. StepDown(w, segment) = [tree |-> u, at |-> Pushed(t, p)]
    BY <1>4 DEF StepDown, t, p
  <2> QED
    BY <2>2, <2>3, <2>4 DEF Walking
<1> QED
  BY <1>3, <1>4

LEMMA StepDownPassed ==
  ASSUME NEW t, NEW w, NEW names \in Seq(Segment), Passed(t, w, names), NEW segment \in Segment
  PROVE  Passed(t, StepDown(w, segment), Append(names, segment))
<1> DEFINE v == w.tree
           p == w.at
           u == PushBack(v, p, NewNode(segment))
           x == StepDown(w, segment)
<1>1. v \in NodeTrees /\ p \in DOMAIN v /\ Reaches(v, p, names)
      /\ \A path \in Seq(Segment) : Value(v, path) = Value(t, path)
  BY DEF Walking, Passed
<1>2. WellFormed(v) /\ IsTree(v)
  BY <1>1, NodeTreesFacts DEF WellFormed
<1>3. x \in Walking
  BY StepDownType DEF Passed
<1>4. x = IF HasChild(v, p, segment) THEN [w EXCEPT !.at = Child(v, p, segment)]
                                     ELSE [tree |-> u, at |-> Pushed(v, p)]
  BY DEF StepDown
<1>5. w = [tree |-> v, at |-> p]
  BY DEF Passed, Walking
<1> HIDE DEF v, p, x, u
<1>6. CASE HasChild(v, p, segment)
  <2>1. x.tree = v /\ x.at = Child(v, p, segment)
    BY <1>4, <1>5, <1>6
  <2>2. Reaches(v, Child(v, p, segment), Append(names, segment))
    BY <1>1, <1>2, <1>6, ReachesChild
  <2> QED
    BY <1>1, <1>3, <2>1, <2>2 DEF Passed, x
<1>7. CASE ~HasChild(v, p, segment)
  <2>1. NewNode(segment) \in Childless /\ NewNode(segment).uri = segment
        /\ NewNode(segment).data = Empty
    BY DEF NewNode, Childless, Node, Segment
  <2>2. x.tree = u /\ x.at = Pushed(v, p)
    BY <1>4, <1>7
  <2>3. Reaches(u, Pushed(v, p), Append(names, segment))
    BY <1>1, <1>2, <1>7, <2>1, PushBackNew DEF u
  <2>4. \A path \in Seq(Segment) : Value(u, path) = Value(v, path)
    BY <1>1, <1>2, <1>7, <2>1, PushBackValue DEF u
  <2> QED
    BY <1>1, <1>3, <2>2, <2>3, <2>4 DEF Passed, x
<1> QED
  BY <1>6, <1>7

(* The whole of local_set_node.                                            *)
LEMMA SetNodeFacts ==
  ASSUME NEW t \in NodeTrees, NEW path \in Seq(Segment), NEW data \in Data
  PROVE  /\ SetNode(t, path, data) \in NodeTrees
         /\ Value(SetNode(t, path, data), path) = data
         /\ \A other \in Seq(Segment) :
              other # path => Value(SetNode(t, path, data), other) = Value(t, other)
<1> DEFINE n == Len(path)
           start == [tree |-> t, at |-> <<>>]
           step == [i \in 1 .. n |-> [w \in Walking |-> StepDown(w, path[i])]]
<1>1. WellFormed(t) /\ n \in Nat /\ \A i \in 1 .. n : path[i] \in Segment
  BY NodeTreesFacts, LenProperties, ElementOfSeq
<1>2. start \in Walking
  BY <1>1 DEF Walking, WellFormed, IsTree
<1>3. PICK g : Iterates(g, n, Walking, start, step)
  <2>1. \A i \in 1 .. n : \A w \in Walking : step[i][w] \in Walking
    BY <1>1, StepDownType
  <2> HIDE DEF n, start, step
  <2> QED
    BY <1>1, <1>2, <2>1, IterationExists
<1> DEFINE Body(f) ==
             [i \in 0 .. Len(path) |->
               IF i = 0 THEN [tree |-> t, at |-> <<>>]
               ELSE LET above == f[i - 1]
                    IN  IF HasChild(above.tree, above.at, path[i])
                          THEN [above EXCEPT !.at = Child(above.tree, @, path[i])]
                          ELSE [tree |-> PushBack(above.tree, above.at,
                                           [uri |-> path[i], is_leaf |-> TRUE,
                                            data |-> Empty, size |-> 0]),
                                at   |-> Pushed(above.tree, above.at)]]
           Walk[i \in 0 .. Len(path)] ==
               IF i = 0 THEN [tree |-> t, at |-> <<>>]
               ELSE LET above == Walk[i - 1]
                    IN  IF HasChild(above.tree, above.at, path[i])
                          THEN [above EXCEPT !.at = Child(above.tree, @, path[i])]
                          ELSE [tree |-> PushBack(above.tree, above.at,
                                           [uri |-> path[i], is_leaf |-> TRUE,
                                            data |-> Empty, size |-> 0]),
                                at   |-> Pushed(above.tree, above.at)]
<1>4. \A f : \A i \in 0 .. n :
        Body(f)[i] = IF i = 0 THEN start ELSE StepDown(f[i - 1], path[i])
  BY DEF StepDown, NewNode
<1>5. \A f : DOMAIN Body(f) = 0 .. n /\ Body(f) = [i \in 0 .. n |-> Body(f)[i]]
  OBVIOUS
<1>6. Walk = CHOOSE f : f = Body(f)
  OBVIOUS
<1>7. SetNode(t, path, data) = [Walk[n].tree EXCEPT ![Walk[n].at].data = data]
  BY DEF SetNode
<1> HIDE DEF Body, Walk
<1>8. g = Body(g)
  <2>1. g \in [0 .. n -> Walking] /\ g[0] = start
        /\ \A i \in 1 .. n : g[i] = step[i][g[i - 1]]
    BY <1>3 DEF Iterates
  <2>2. ASSUME NEW i \in 1 .. n
        PROVE  g[i] = StepDown(g[i - 1], path[i])
    <3>1. i - 1 \in 0 .. n
      BY <1>1
    <3>2. g[i - 1] \in Walking
      BY <2>1, <3>1
    <3> QED
      BY <2>1, <3>2
  <2>3. DOMAIN g = 0 .. n /\ g = [i \in 0 .. n |-> g[i]]
    BY <2>1
  <2>4. \A i \in 0 .. n : g[i] = Body(g)[i]
    BY <1>1, <1>4, <2>1, <2>2
  <2> HIDE DEF start, step, n
  <2> QED
    BY <1>5, <2>3, <2>4
<1>9. Walk = Body(Walk)
  BY <1>6, <1>8
<1>10. Walk[0] = start /\ \A i \in 1 .. n : Walk[i] = StepDown(Walk[i - 1], path[i])
  BY <1>1, <1>4, <1>9
<1>11. \A i \in 0 .. n : Passed(t, Walk[i], Prefix(path, i))
  <2> DEFINE S == {i \in 0 .. n : Passed(t, Walk[i], Prefix(path, i))}
  <2>1. 0 \in S
    BY <1>1, <1>2, <1>10, PrefixNone, ReachesRoot DEF Passed
  <2>2. ASSUME NEW i \in 1 .. n, i - 1 \in S
        PROVE  i \in S
    <3>1. Prefix(path, i - 1) \in Seq(Segment)
      BY <1>1, PrefixFacts
    <3>2. Passed(t, Walk[i], Append(Prefix(path, i - 1), path[i]))
      BY <1>1, <1>10, <2>2, <3>1, StepDownPassed
    <3>3. Prefix(path, i) = Append(Prefix(path, i - 1), path[i])
      BY PrefixStep
    <3>4. Passed(t, Walk[i], Prefix(path, i)) /\ i \in 0 .. n
      BY <1>1, <3>2, <3>3
    <3> HIDE DEF n
    <3> QED
      BY <3>4
  <2>3. \A i \in 0 .. n : i \in S
    <3> HIDE DEF S, n
    <3> QED
      BY <1>1, <2>1, <2>2, InductionUpTo
  <2> QED
    BY <2>3
<1> DEFINE v == Walk[n].tree
           p == Walk[n].at
<1>12. Prefix(path, n) = path /\ n \in 0 .. n
  BY <1>1, PrefixFull
<1>13. /\ v \in NodeTrees /\ p \in DOMAIN v /\ Reaches(v, p, path)
       /\ \A other \in Seq(Segment) : Value(v, other) = Value(t, other)
  BY <1>11, <1>12 DEF Passed, Walking
<1> HIDE DEF v, p
<1>14. WellFormed(v) /\ IsTree(v) /\ path = NamesTo(v, p)
  BY <1>13, NodeTreesFacts, ReachesSteps DEF WellFormed
<1>15. SetNode(t, path, data) = Assigned(v, p, data)
  BY <1>7 DEF Assigned, v, p
<1>16. /\ WellFormed(Assigned(v, p, data))
       /\ Value(Assigned(v, p, data), path) = data
       /\ \A other \in Seq(Segment) :
            other # path => Value(Assigned(v, p, data), other) = Value(v, other)
  BY <1>13, <1>14, AssignedFacts
<1>17. Assigned(v, p, data) \in NodeTrees
  <2>1. Assigned(v, p, data) = [q \in DOMAIN Assigned(v, p, data) |-> Assigned(v, p, data)[q]]
    BY <1>13, NodeTreesFacts DEF Assigned
  <2> QED
    BY <1>16, <2>1, NodeTreesFacts
<1> QED
  BY <1>13, <1>15, <1>16, <1>17

-----------------------------------------------------------------------------
(* What the assumptions say of the files and the paths the application     *)
(* passes.                                                                 *)
LEMMA PackageFacts ==
  /\ \A x \in Files : IsDocument(x)
  /\ \A urn \in Urns : UrnName[urn] \in Names \cup {NoName, "throws"}
  /\ \A x \in Files, urn \in Urns :
       HandlerParse(x, UrnName[urn]) = "true" => HandlerTree(x, UrnName[urn]) \in Trees
  /\ \A mo \in Mos : ObjectFile[mo] \in Files
  /\ \A path \in NodePaths : path \in Seq(Segment) /\ path # <<>>
BY PackageAssumption DEF Segment

-----------------------------------------------------------------------------
(* What a step does to the tree: a handler that is there stays, with its   *)
(* root and its instances.                                                 *)
StillThere ==
  /\ \A urn \in Segments : Registered(urn) =>
       Registered(urn)' /\ MOs'[urn].root = MOs[urn].root
  /\ \A urn, miid \in Segments : Registered(urn) /\ Has(MOs[urn], miid) =>
       MOs'[urn].instance[miid] = MOs[urn].instance[miid]

LEMMA RegisterStep ==
  ASSUME TreeInv, NEW u \in Urns, NEW x \in Files, RegisterFile(u, x)
  PROVE  /\ HandlerTree(x, UrnName[u]) \in Trees
         /\ RegisterDDF(u, HandlerTree(x, UrnName[u]))
BY PackageFacts DEF RegisterFile

LEMMA TreeStepKeepsRoots ==
  ASSUME TreeInv, [TreeNext]_treeVars, NEW urn \in Segments, Registered(urn)
  PROVE  Registered(urn)' /\ MOs'[urn].root = MOs[urn].root
<1>0. MOs[urn] \in Handlers
  BY DEF TreeInv, TreeTypeOK, Registered
<1>1. ASSUME NEW u \in Urns, NEW tree \in Trees, RegisterDDF(u, tree)
      PROVE  MOs'[urn] = MOs[urn]
  BY <1>1 DEF RegisterDDF, TreeInv, TreeTypeOK
<1>2. ASSUME NEW u \in Urns, NEW mo \in Mos, NEW m \in UserMiids \cup {NoMiid},
             NEW compatible \in BOOLEAN, AddMO(u, mo, m, compatible)
      PROVE  MOs'[urn] # NoHandler /\ MOs'[urn].root = MOs[urn].root
  <2>1. PICK h \in Handlers, name \in Segments :
          /\ h.root = MOs[u].root
          /\ MOs' = [MOs EXCEPT ![u] = Offer(h, name, mo, compatible)]
    BY <1>2, AddMOTakesFreeMiid
  <2>2. Offer(h, name, mo, compatible) \in Handlers
        /\ Offer(h, name, mo, compatible).root = h.root
    BY OfferType
  <2>3. MOs'[urn] \in Handlers /\ MOs'[urn].root = MOs[urn].root
    BY <1>0, <2>1, <2>2 DEF TreeInv, TreeTypeOK
  <2> QED
    BY <2>3, TreeAssumption
<1>3. CASE UNCHANGED treeVars
  BY <1>3 DEF treeVars, Registered
<1> QED
  BY <1>1, <1>2, <1>3 DEF TreeNext, RefuseDDF, RefuseMO, Registered

(* serialize_MIs stands at an instance of the tree.                        *)
AtInstance == current # <<>> => current \in MIs

LEMMA PackageStepOnTree ==
  ASSUME TreeInv, AtInstance, [PackageNext]_p1Vars
  PROVE  TreeInv' /\ StillThere
<1>1. ASSUME [TreeNext]_treeVars
      PROVE  TreeInv' /\ StillThere
  BY <1>1, TreeNextInv, TreeStepKeepsRoots, TreeStepKeepsInstances DEF StillThere
<1>2. ASSUME NEW u \in Urns, NEW x \in Files, RegisterFile(u, x)
      PROVE  [TreeNext]_treeVars
  BY <1>2, RegisterStep DEF TreeNext
<1>3. ASSUME NEW urn \in Urns, NEW mo \in Mos, NEW miid \in UserMiids \cup {NoMiid},
             AddObject(urn, mo, miid)
      PROVE  [TreeNext]_treeVars
  BY <1>3 DEF TreeNext, AddObject
<1>4. CASE ReadLeaf
  <2>1. MOs' = MOs /\ accepted' = accepted
    BY <1>4 DEF ReadLeaf
  <2>2. current \in MIs /\ calls' = calls \cup {<<Object, "get_val">>}
    BY <1>4 DEF ReadLeaf, AtInstance
  <2>3. Object \in Mos
    BY <2>2 DEF Object, MIs, Has, Registered, TreeInv, TreeTypeOK, Handlers
  <2>4. calls' \subseteq Mos \X Callbacks
    BY <2>2, <2>3 DEF TreeInv, TreeTypeOK, Callbacks
  <2>5. TreeInv'
    BY <2>1, <2>4 DEF TreeInv, TreeTypeOK, FiniteInstances, Registered
  <2> QED
    BY <2>1, <2>5 DEF StillThere, Registered
<1>5. ASSUME UNCHANGED treeVars
      PROVE  TreeInv' /\ StillThere
  BY <1>1, <1>5
<1> QED
  BY <1>1, <1>2, <1>3, <1>4, <1>5
     DEF PackageNext, LocalSetNode, StartPackage, BeginMI, EndMI, SendP1, p1Vars

-----------------------------------------------------------------------------
(* A registered type has the tree of the file it was registered with.      *)
FileInv ==
  /\ file \in [Urns -> Files \cup {NoTree}]
  /\ \A urn \in Segments : Registered(urn) =>
       /\ urn \in Urns /\ file[urn] \in Files
       /\ HandlerParse(file[urn], UrnName[urn]) = "true"
       /\ MOs[urn].root = HandlerTree(file[urn], UrnName[urn])

(* The leaves of its file have in an object what they were last set to.    *)
ObjectInv ==
  /\ objects \in [Mos -> NodeTrees]
  /\ last_set \in [Mos -> JSON]
  /\ \A mo \in Mos : DOMAIN last_set[mo] = LeafPaths(CacheTree(ObjectFile[mo]))
  /\ \A mo \in Mos : \A path \in DOMAIN last_set[mo] :
       Value(objects[mo], path) = last_set[mo][path]

(* What has been dumped is of an instance that is still there.             *)
Dumps == [instance : Segments \X Segments, root : Segment, MOData : JSON]

DumpInv ==
  /\ packaging \in BOOLEAN
  /\ moi \in Seq(Dumps)
  /\ \A k \in DOMAIN moi :
       /\ moi[k].instance \in MIs
       /\ DOMAIN moi[k].MOData \subseteq LeafPaths(MOs[moi[k].instance[1]].root)

(* What get_val came to for the leaf with this path: nothing, or a value   *)
(* among those the leaf was seen to have.                                  *)
IsAnswer(mo, path, answer, seen) ==
  IF path \in Refused[mo]
    THEN answer = Null
    ELSE \E d \in Data : answer = String(d) /\ (path \in DOMAIN seen => d \in seen[path])

(* Some leaves have been asked for, and held has, for each leaf of the     *)
(* object, its present value and the earlier ones since the walk began.    *)
Visit ==
  /\ packaging
  /\ held = [path \in DOMAIN held |-> held[path]]
  /\ DOMAIN held = DOMAIN last_set[Object]
  /\ \A path \in DOMAIN held : last_set[Object][path] \in held[path]
  /\ DOMAIN got \subseteq Asked(Root)
  /\ \A p \in DOMAIN got : IsAnswer(Object, NamesTo(Root, p), got[p], held)

WalkInv ==
  /\ AtInstance
  /\ current = <<>> => got = <<>>
  /\ current # <<>> => Visit

PackageInv == TreeInv /\ FileInv /\ ObjectInv /\ WalkInv /\ DumpInv

LEMMA RegisteredRoot ==
  ASSUME FileInv, NEW urn \in Segments, Registered(urn)
  PROVE  Parsed(MOs[urn].root)
BY PackageFacts, HandlerTreeParsed DEF FileInv

LEMMA StillListed ==
  ASSUME StillThere, NEW mi \in MIs
  PROVE  /\ mi \in MIs'
         /\ MOs'[mi[1]].root = MOs[mi[1]].root
         /\ MOs'[mi[1]].instance[mi[2]] = MOs[mi[1]].instance[mi[2]]
BY DEF StillThere, MIs, Has

-----------------------------------------------------------------------------
(* A new object has its file's defaults.                                   *)
LEMMA DefaultsFacts ==
  ASSUME NEW x, IsDocument(x)
  PROVE  /\ Defaults(x) \in JSON
         /\ DOMAIN Defaults(x) = LeafPaths(CacheTree(x))
         /\ \A path \in DOMAIN Defaults(x) : Value(CacheTree(x), path) = Defaults(x)[path]
<1> DEFINE t == CacheTree(x)
           d == Defaults(x)
<1>1. WellFormed(t) /\ LeafPaths(t) \subseteq Seq(Segment)
  BY CacheTreeWellFormed, LeafPathsType
<1>2. /\ DOMAIN d = LeafPaths(t) /\ d = [path \in DOMAIN d |-> d[path]]
      /\ \A path \in DOMAIN d : d[path] = Value(t, path)
  BY DEF Defaults
<1> HIDE DEF t, d
<1>3. ASSUME NEW path \in Seq(Segment)
      PROVE  Value(t, path) \in Data
  BY <1>1, ValueType
<1>4. d \in JSON
  BY <1>1, <1>2, <1>3, JSONFacts
<1> QED
  BY <1>2, <1>4 DEF d, t

LEMMA PackageInitInv == PackageInit => PackageInv
<1> SUFFICES ASSUME PackageInit
             PROVE  PackageInv
  OBVIOUS
<1>1. TreeInv /\ \A urn \in Segments : ~Registered(urn)
  BY TreeInitInv DEF PackageInit, TreeInit, Registered
<1>2. FileInv
  BY <1>1 DEF PackageInit, FileInv
<1>3. ObjectInv
  <2>1. \A mo \in Mos : /\ objects[mo] = CacheTree(ObjectFile[mo])
                        /\ last_set[mo] = Defaults(ObjectFile[mo])
                        /\ IsDocument(ObjectFile[mo])
    BY PackageFacts DEF PackageInit
  <2>2. objects \in [Mos -> NodeTrees]
    BY <2>1, CacheTreeType DEF PackageInit
  <2>3. ASSUME NEW mo \in Mos
        PROVE  /\ last_set[mo] \in JSON
               /\ DOMAIN last_set[mo] = LeafPaths(CacheTree(ObjectFile[mo]))
               /\ \A path \in DOMAIN last_set[mo] :
                    Value(objects[mo], path) = last_set[mo][path]
    BY <2>1, DefaultsFacts
  <2>4. last_set \in [Mos -> JSON]
    BY <2>3 DEF PackageInit
  <2> QED
    BY <2>2, <2>3, <2>4 DEF ObjectInv
<1>4. WalkInv
  BY DEF PackageInit, WalkInv, AtInstance
<1>5. DumpInv
  <2>1. moi = <<>> /\ DOMAIN moi = {} /\ moi \in Seq(Dumps)
    BY EmptySeq DEF PackageInit
  <2> QED
    BY <2>1 DEF PackageInit, DumpInv
<1> QED
  BY <1>1, <1>2, <1>3, <1>4, <1>5 DEF PackageInv

-----------------------------------------------------------------------------
LEMMA FilesKept ==
  ASSUME PackageInv, [PackageNext]_p1Vars
  PROVE  FileInv'
<1>0. TreeTypeOK
  BY DEF PackageInv, TreeInv
<1>1. ASSUME NEW u \in Urns, NEW x \in Files, RegisterFile(u, x)
      PROVE  FileInv'
  <2>1. /\ HandlerParse(x, UrnName[u]) = "true"
        /\ MOs' = [MOs EXCEPT ![u] = NewHandler(HandlerTree(x, UrnName[u]))]
        /\ file' = [file EXCEPT ![u] = x]
    BY <1>1 DEF RegisterFile, RegisterDDF
  <2>2. file \in [Urns -> Files \cup {NoTree}] /\ MOs \in [Segments -> Handlers \cup {NoHandler}]
    BY <1>0 DEF PackageInv, FileInv, TreeTypeOK
  <2>3. file' \in [Urns -> Files \cup {NoTree}] /\ file'[u] = x
        /\ \A urn \in Urns : urn # u => file'[urn] = file[urn]
    BY <2>1, <2>2
  <2>4. NewHandler(HandlerTree(x, UrnName[u])).root = HandlerTree(x, UrnName[u])
    BY DEF NewHandler
  <2>5. ASSUME NEW urn \in Segments, Registered(urn)'
        PROVE  /\ urn \in Urns /\ file'[urn] \in Files
               /\ HandlerParse(file'[urn], UrnName[urn]) = "true"
               /\ MOs'[urn].root = HandlerTree(file'[urn], UrnName[urn])
    <3>1. CASE urn = u
      BY <2>1, <2>2, <2>3, <2>4, <3>1
    <3>2. CASE urn # u
      <4>1. MOs'[urn] = MOs[urn] /\ Registered(urn)
        BY <2>1, <2>2, <2>5, <3>2 DEF Registered
      <4> QED
        BY <2>3, <3>2, <4>1 DEF PackageInv, FileInv
    <3> QED
      BY <3>1, <3>2
  <2> QED
    BY <2>3, <2>5 DEF FileInv
<1>2. ASSUME NEW u \in Urns, NEW mo \in Mos, NEW miid \in UserMiids \cup {NoMiid},
             AddObject(u, mo, miid)
      PROVE  FileInv'
  <2>1. file' = file /\ StillThere /\ Registered(u)
    BY <1>2, PackageStepOnTree DEF PackageInv, WalkInv, AddObject, AddMO, appVars
  <2>2. ASSUME NEW urn \in Segments, Registered(urn)'
        PROVE  Registered(urn)
    BY <1>0, <1>2, <2>1, <2>2 DEF AddObject, AddMO, Registered, TreeTypeOK
  <2>3. \A urn \in Segments : Registered(urn)' => Registered(urn) /\ MOs'[urn].root = MOs[urn].root
    BY <2>1, <2>2 DEF StillThere
  <2> QED
    BY <2>1, <2>3 DEF PackageInv, FileInv
<1>3. ASSUME MOs' = MOs, file' = file
      PROVE  FileInv'
  BY <1>3 DEF PackageInv, FileInv, Registered
<1> QED
  BY <1>1, <1>2, <1>3
     DEF PackageNext, LocalSetNode, StartPackage, BeginMI, ReadLeaf, EndMI, SendP1,
         p1Vars, treeVars, appVars

LEMMA ObjectsKept ==
  ASSUME PackageInv, [PackageNext]_p1Vars
  PROVE  ObjectInv'
<1>1. ASSUME NEW mo \in Mos, NEW node_path \in NodePaths, NEW data \in Data, NEW add \in BOOLEAN,
             LocalSetNode(mo, node_path, data, add)
      PROVE  ObjectInv'
  <2> DEFINE path == vectorize_path(node_path)
             set  == SetNode(objects[mo], path, data)
             kept == last_set[mo]
             new  == [kept EXCEPT ![path] = data]
  <2>1. path \in Seq(Segment) /\ objects[mo] \in NodeTrees /\ kept \in JSON
    BY PackageFacts, VectorizeType DEF PackageInv, ObjectInv
  <2>2. /\ set \in NodeTrees /\ Value(set, path) = data
        /\ \A other \in Seq(Segment) : other # path => Value(set, other) = Value(objects[mo], other)
    BY <2>1, SetNodeFacts
  <2>3. objects' = [objects EXCEPT ![mo] = set]
    BY <1>1 DEF LocalSetNode
  <2>4. CASE path \in DOMAIN kept
    <3>1. last_set' = [last_set EXCEPT ![mo] = new]
      BY <1>1, <2>4 DEF LocalSetNode
    <3>2. /\ DOMAIN new = DOMAIN kept /\ new = [p \in DOMAIN new |-> new[p]]
          /\ \A p \in DOMAIN new : new[p] = IF p = path THEN data ELSE kept[p]
      BY <2>1, <2>4, JSONFacts
    <3> HIDE DEF path, set, kept, new
    <3>3. /\ DOMAIN kept \subseteq Seq(Segment)
          /\ \A p \in DOMAIN kept : kept[p] \in Data
      BY <2>1, JSONFacts
    <3>4. new \in JSON
      BY <3>2, <3>3, JSONFacts
    <3>5. \A p \in DOMAIN kept : kept[p] = Value(objects[mo], p)
      BY DEF PackageInv, ObjectInv, kept
    <3>6. \A p \in DOMAIN new : Value(set, p) = new[p]
      BY <2>2, <3>2, <3>3, <3>5
    <3>7. /\ objects' \in [Mos -> NodeTrees] /\ last_set' \in [Mos -> JSON]
          /\ objects'[mo] = set /\ last_set'[mo] = new
          /\ \A o \in Mos : o # mo => objects'[o] = objects[o] /\ last_set'[o] = last_set[o]
      BY <2>2, <2>3, <3>1, <3>4 DEF PackageInv, ObjectInv
    <3>8. DOMAIN new = LeafPaths(CacheTree(ObjectFile[mo]))
      BY <3>2 DEF PackageInv, ObjectInv, kept
    <3> QED
      BY <3>6, <3>7, <3>8 DEF PackageInv, ObjectInv
  <2>5. CASE path \notin DOMAIN kept
    <3>1. last_set' = last_set
      BY <1>1, <2>5 DEF LocalSetNode
    <3> HIDE DEF path, set
    <3>2. \A p \in DOMAIN kept : p \in Seq(Segment) /\ p # path /\ kept[p] = Value(objects[mo], p)
      BY <2>1, <2>5, JSONFacts DEF PackageInv, ObjectInv
    <3>3. \A p \in DOMAIN kept : Value(set, p) = kept[p]
      BY <2>2, <3>2
    <3>4. /\ objects' \in [Mos -> NodeTrees] /\ objects'[mo] = set
          /\ \A o \in Mos : o # mo => objects'[o] = objects[o]
      BY <2>2, <2>3 DEF PackageInv, ObjectInv
    <3> QED
      BY <3>1, <3>3, <3>4 DEF PackageInv, ObjectInv
  <2> QED
    BY <2>4, <2>5
<1>2. ASSUME objects' = objects, last_set' = last_set
      PROVE  ObjectInv'
  BY <1>2 DEF PackageInv, ObjectInv
<1> QED
  BY <1>1, <1>2
     DEF PackageNext, RegisterFile, AddObject, StartPackage, BeginMI, ReadLeaf, EndMI, SendP1,
         p1Vars, appVars

-----------------------------------------------------------------------------
(* The instance serialize_MIs stands at.                                   *)
LEMMA CurrentFacts ==
  ASSUME PackageInv, NEW mi \in MIs
  PROVE  /\ mi \in Segments \X Segments /\ mi[1] \in Segments /\ Registered(mi[1])
         /\ MOs[mi[1]].instance[mi[2]] \in Mos
         /\ Parsed(MOs[mi[1]].root)
<1>1. mi \in Segments \X Segments /\ mi[1] \in Segments /\ Registered(mi[1])
  BY DEF MIs
<1>2. MOs[mi[1]].instance[mi[2]] \in Mos
  BY DEF MIs, Has, Registered, PackageInv, TreeInv, TreeTypeOK, Handlers
<1>3. Parsed(MOs[mi[1]].root)
  BY <1>1, RegisteredRoot DEF PackageInv
<1> QED
  BY <1>1, <1>2, <1>3

LEMMA AskedAreLeaves ==
  ASSUME NEW t
  PROVE  Asked(t) = LeavesOf(t)
BY DEF Asked, AskedFor, LeavesOf

(* A get_val gives what the leaf was last set to.                          *)
LEMMA GetValAnswers ==
  ASSUME PackageInv, NEW mo \in Mos, NEW t, Parsed(t), NEW p \in Asked(t), NEW seen,
         DOMAIN seen = DOMAIN last_set[mo],
         \A path \in DOMAIN seen : last_set[mo][path] \in seen[path]
  PROVE  IsAnswer(mo, NamesTo(t, p), GetVal(mo, Uri(t, p)), seen)
<1> DEFINE path == NamesTo(t, p)
           d == Value(objects[mo], path)
<1>1. p \in DOMAIN t /\ p # <<>> /\ WellFormed(t)
  BY DEF Asked, Parsed
<1>2. vectorize_path(Uri(t, p)) = path /\ path \in Seq(Segment)
  BY <1>1, UriIsNames, NamesToFacts
<1>3. WellFormed(objects[mo])
  <2>1. objects[mo] \in NodeTrees
    BY DEF PackageInv, ObjectInv
  <2> QED
    BY <2>1, NodeTreesFacts
<1>4. d \in Data
  BY <1>2, <1>3, ValueType
<1>5. path \in DOMAIN last_set[mo] => d = last_set[mo][path]
  BY DEF PackageInv, ObjectInv
<1>6. GetVal(mo, Uri(t, p)) = IF path \in Refused[mo] THEN Null ELSE String(d)
  BY <1>2 DEF GetVal
<1> HIDE DEF path, d
<1>7. IsAnswer(mo, path, GetVal(mo, Uri(t, p)), seen)
  BY <1>4, <1>5, <1>6 DEF IsAnswer
<1> QED
  BY <1>7 DEF path

LEMMA WalkKept ==
  ASSUME PackageInv, [PackageNext]_p1Vars
  PROVE  WalkInv'
<1>0. StillThere /\ WalkInv /\ AtInstance
  BY PackageStepOnTree DEF PackageInv, WalkInv
<1>1. ASSUME current' = current, current # <<>>
      PROVE  AtInstance' /\ Root' = Root /\ Object' = Object
  <2>1. current \in MIs
    BY <1>0, <1>1 DEF AtInstance
  <2>2. /\ current \in MIs'
        /\ MOs'[current[1]].root = MOs[current[1]].root
        /\ MOs'[current[1]].instance[current[2]] = MOs[current[1]].instance[current[2]]
    BY <1>0, <2>1, StillListed
  <2> QED
    BY <1>1, <2>2 DEF AtInstance, Root, Object
<1>2. ASSUME current' = <<>>, got' = <<>>
      PROVE  WalkInv'
  BY <1>2 DEF WalkInv, AtInstance
<1>3. ASSUME UNCHANGED walkVars, packaging' = packaging, last_set' = last_set
      PROVE  WalkInv'
  <2>1. CASE current = <<>>
    BY <1>0, <1>2, <1>3, <2>1 DEF WalkInv, walkVars
  <2>2. CASE current # <<>>
    BY <1>0, <1>1, <1>3, <2>2 DEF WalkInv, walkVars, Visit
  <2> QED
    BY <2>1, <2>2
<1>4. ASSUME NEW mo \in Mos, NEW node_path \in NodePaths, NEW data \in Data, NEW add \in BOOLEAN,
             LocalSetNode(mo, node_path, data, add)
      PROVE  WalkInv'
  <2> DEFINE path == vectorize_path(node_path)
  <2>1. /\ current' = current /\ got' = got /\ packaging' = packaging
        /\ last_set' = IF path \in DOMAIN last_set[mo]
                         THEN [last_set EXCEPT ![mo][path] = data] ELSE last_set
        /\ held' = IF current # <<>> /\ Object = mo /\ path \in DOMAIN held
                     THEN [held EXCEPT ![path] = @ \cup {data}] ELSE held
    BY <1>4 DEF LocalSetNode, packageVars
  <2> HIDE DEF path
  <2>2. CASE current = <<>>
    BY <1>0, <1>2, <2>1, <2>2 DEF WalkInv
  <2>3. CASE current # <<>> /\ Object = mo /\ path \in DOMAIN held
    <3>1. /\ Visit /\ DOMAIN held = DOMAIN last_set[mo]
          /\ last_set \in [Mos -> JSON]
      BY <1>0, <2>3 DEF WalkInv, Visit, PackageInv, ObjectInv
    <3>2. /\ DOMAIN held' = DOMAIN held /\ held' = [q \in DOMAIN held' |-> held'[q]]
          /\ held'[path] = held[path] \cup {data}
          /\ \A q \in DOMAIN held : q # path => held'[q] = held[q]
      BY <2>1, <2>3, <3>1 DEF Visit
    <3>3. /\ DOMAIN last_set'[mo] = DOMAIN last_set[mo]
          /\ last_set'[mo][path] = data
          /\ \A q \in DOMAIN last_set[mo] : q # path => last_set'[mo][q] = last_set[mo][q]
      <4> DEFINE kept == last_set[mo]
      <4>1. kept \in JSON /\ last_set' = [last_set EXCEPT ![mo] = [kept EXCEPT ![path] = data]]
        BY <2>1, <2>3, <3>1
      <4>2. last_set'[mo] = [kept EXCEPT ![path] = data]
        BY <3>1, <4>1
      <4> QED
        BY <2>3, <3>1, <4>2
    <3>4. AtInstance' /\ Root' = Root /\ Object' = Object /\ Object = mo
      BY <1>1, <2>1, <2>3
    <3>5. \A q \in DOMAIN held' : last_set'[Object'][q] \in held'[q]
      BY <2>3, <3>1, <3>2, <3>3, <3>4 DEF Visit
    <3>6. ASSUME NEW p \in DOMAIN got
          PROVE  IsAnswer(Object, NamesTo(Root, p), got[p], held')
      <4>1. IsAnswer(Object, NamesTo(Root, p), got[p], held)
        BY <3>1 DEF Visit
      <4> QED
        BY <3>2, <4>1 DEF IsAnswer
    <3> QED
      BY <2>1, <2>3, <3>1, <3>2, <3>3, <3>4, <3>5, <3>6 DEF WalkInv, Visit
  <2>4. CASE current # <<>> /\ ~(Object = mo /\ path \in DOMAIN held)
    <3>1. Visit /\ held' = held /\ Object \in Mos /\ last_set \in [Mos -> JSON]
      BY <1>0, <2>1, <2>4, CurrentFacts DEF WalkInv, PackageInv, ObjectInv, AtInstance, Object
    <3>2. last_set'[Object] = last_set[Object]
      BY <2>1, <2>4, <3>1 DEF Visit
    <3>3. AtInstance' /\ Root' = Root /\ Object' = Object
      BY <1>1, <2>1, <2>4
    <3> QED
      BY <2>1, <2>4, <3>1, <3>2, <3>3 DEF WalkInv, Visit
  <2> QED
    BY <2>2, <2>3, <2>4
<1>5. CASE StartPackage
  <2>1. UNCHANGED walkVars /\ ~packaging
    BY <1>5 DEF StartPackage
  <2> QED
    BY <1>0, <1>2, <2>1 DEF WalkInv, Visit, walkVars
<1>6. CASE BeginMI
  <2>1. PICK mi \in MIs :
          /\ current' = mi
          /\ LET last == last_set[MOs[mi[1]].instance[mi[2]]]
             IN  held' = [path \in DOMAIN last |-> {last[path]}]
    BY <1>6 DEF BeginMI, Ahead
  <2>2. MOs' = MOs /\ last_set' = last_set /\ packaging' /\ got' = <<>>
    BY <1>0, <1>6 DEF BeginMI, treeVars, appVars, packageVars, WalkInv
  <2>3. AtInstance'
    BY <1>0, <2>1, StillListed DEF AtInstance
  <2>4. Object' = MOs[mi[1]].instance[mi[2]]
    BY <2>1, <2>2 DEF Object
  <2>5. DOMAIN got' = {}
    BY <2>2
  <2> QED
    BY <2>1, <2>2, <2>3, <2>4, <2>5 DEF WalkInv, Visit
<1>7. CASE ReadLeaf
  <2>1. /\ current # <<>> /\ current' = current /\ held' = held
        /\ last_set' = last_set /\ packaging' = packaging
    BY <1>7 DEF ReadLeaf, packageVars, appVars
  <2>2. PICK p \in Asked(Root) :
          got' = [q \in DOMAIN got \cup {p} |->
                   IF q = p THEN GetVal(Object, Uri(Root, p)) ELSE got[q]]
    BY <1>7 DEF ReadLeaf
  <2>3. Visit /\ AtInstance' /\ Root' = Root /\ Object' = Object
    BY <1>0, <1>1, <2>1 DEF WalkInv
  <2>4. IsAnswer(Object, NamesTo(Root, p), GetVal(Object, Uri(Root, p)), held)
    <3>1. Object \in Mos /\ Parsed(Root)
      BY <1>0, <2>1, CurrentFacts DEF AtInstance, Object, Root
    <3> QED
      BY <2>3, <3>1, GetValAnswers DEF Visit
  <2>5. /\ DOMAIN got' \subseteq Asked(Root)
        /\ \A q \in DOMAIN got' : IsAnswer(Object, NamesTo(Root, q), got'[q], held)
    BY <2>2, <2>3, <2>4 DEF Visit
  <2> QED
    BY <2>1, <2>3, <2>5 DEF WalkInv, Visit
<1>8. CASE EndMI
  BY <1>2, <1>8 DEF EndMI
<1>9. CASE SendP1
  BY <1>0, <1>2, <1>9 DEF SendP1, Dumped, walkVars, WalkInv
<1> QED
  BY <1>3, <1>4, <1>5, <1>6, <1>7, <1>8, <1>9
     DEF PackageNext, RegisterFile, AddObject, p1Vars, appVars, packageVars

-----------------------------------------------------------------------------
(* Entry of the dump for an instance, as EndMI makes it.                   *)
Entry ==
  [instance |-> current, root |-> Root[<<>>].uri, MOData |-> serialize_children(Root, got)]

LEMMA EntryFacts ==
  ASSUME PackageInv, EndMI
  PROVE  /\ Entry \in Dumps /\ Entry.instance = current
         /\ Entry.MOData = serialize_children(Root, got)
         /\ DOMAIN Entry.MOData \subseteq LeafPaths(Root)
         /\ current \in MIs /\ Object \in Mos /\ Parsed(Root)
         /\ Visit /\ DOMAIN got = Asked(Root) /\ Answers(Root, got)
<1>1. current # <<>> /\ DOMAIN got = Asked(Root)
  BY DEF EndMI
<1>2. current \in MIs /\ Visit
  BY <1>1 DEF PackageInv, WalkInv, AtInstance
<1>3. /\ current \in Segments \X Segments
      /\ Object \in Mos /\ Parsed(Root)
  BY <1>2, CurrentFacts DEF Object, Root
<1>4. Answers(Root, got)
  BY <1>1, <1>2 DEF Visit, Answers, IsAnswer
<1>5. Root[<<>>].uri \in Segment
  BY <1>3 DEF Parsed, WellFormed, IsTree, Node, Segment
<1> DEFINE json == serialize_children(Root, got)
<1>6. /\ json \in JSON
      /\ \A path \in DOMAIN json : \E leaf \in Asked(Root) :
           IsAnswerAt(Root, got, leaf, path, json[path])
  BY <1>3, <1>4, SerializedFacts
<1> HIDE DEF json
<1>7. DOMAIN json \subseteq LeafPaths(Root)
  BY <1>6, AskedAreLeaves DEF LeafPaths, IsAnswerAt
<1> QED
  BY <1>1, <1>2, <1>3, <1>4, <1>5, <1>6, <1>7 DEF Entry, Dumps, json

LEMMA DumpKept ==
  ASSUME PackageInv, [PackageNext]_p1Vars
  PROVE  DumpInv'
<1>0. StillThere
  BY PackageStepOnTree DEF PackageInv, WalkInv
<1>1. ASSUME NEW k \in DOMAIN moi
      PROVE  /\ moi[k].instance \in MIs'
             /\ DOMAIN moi[k].MOData \subseteq LeafPaths(MOs'[moi[k].instance[1]].root)
  BY <1>0, StillListed DEF PackageInv, DumpInv
<1>2. CASE EndMI
  <2>1. /\ moi' = Append(moi, Entry) /\ MOs' = MOs /\ packaging' = packaging
    BY <1>2 DEF EndMI, Entry, treeVars
  <2>3. /\ Entry \in Dumps /\ Entry.instance = current /\ current \in MIs
        /\ DOMAIN Entry.MOData \subseteq LeafPaths(MOs'[current[1]].root)
    BY <1>2, <2>1, EntryFacts DEF Root
  <2>4. current \in MIs'
    BY <1>0, <2>3, StillListed
  <2>5. moi \in Seq(Dumps)
    BY DEF PackageInv, DumpInv
  <2>6. /\ moi' \in Seq(Dumps) /\ Len(moi) \in Nat /\ Len(moi') = Len(moi) + 1
        /\ moi'[Len(moi) + 1] = Entry
        /\ \A k \in 1 .. Len(moi) : moi'[k] = moi[k]
    BY <2>1, <2>3, <2>5, AppendProperties, LenProperties
  <2>7. DOMAIN moi = 1 .. Len(moi) /\ DOMAIN moi' = 1 .. Len(moi) + 1
    BY <2>5, <2>6, LenProperties
  <2>8. ASSUME NEW k \in DOMAIN moi'
        PROVE  /\ moi'[k].instance \in MIs'
               /\ DOMAIN moi'[k].MOData \subseteq LeafPaths(MOs'[moi'[k].instance[1]].root)
    <3>1. k \in DOMAIN moi \/ k = Len(moi) + 1
      BY <2>6, <2>7
    <3> QED
      BY <1>1, <2>3, <2>4, <2>6, <2>7, <3>1
  <2> QED
    BY <2>1, <2>6, <2>8 DEF PackageInv, DumpInv
<1>3. ASSUME moi' = <<>>, packaging' \in BOOLEAN
      PROVE  DumpInv'
  <2>1. moi' \in Seq(Dumps) /\ DOMAIN moi' = {}
    BY <1>3, EmptySeq
  <2> QED
    BY <1>3, <2>1 DEF DumpInv
<1>4. ASSUME moi' = moi, packaging' = packaging
      PROVE  DumpInv'
  BY <1>1, <1>4 DEF PackageInv, DumpInv
<1> QED
  BY <1>2, <1>3, <1>4
     DEF PackageNext, RegisterFile, AddObject, LocalSetNode, StartPackage, BeginMI, ReadLeaf,
         SendP1, p1Vars, packageVars

LEMMA PackageNextInv == PackageInv /\ [PackageNext]_p1Vars => PackageInv'
BY PackageStepOnTree, FilesKept, ObjectsKept, WalkKept, DumpKept DEF PackageInv, WalkInv

(* Whatever is registered, added and set, and when, the library has well   *)
(* formed trees and puts no node into the dump that is not a leaf of the   *)
(* type's DDF file (MOTree.cpp:109-137, MOHandler.cpp:68-131).             *)
THEOREM PackageTypeCorrect == PackageSpec => []PackageTypeOK
<1>1. PackageInv => PackageTypeOK
  <2> SUFFICES ASSUME PackageInv
               PROVE  PackageTypeOK
    OBVIOUS
  <2>1. \A mo \in Mos : WellFormed(objects[mo])
    BY NodeTreesFacts DEF PackageInv, ObjectInv
  <2>2. ASSUME NEW k \in DOMAIN moi, NEW path \in DOMAIN moi[k].MOData
        PROVE  moi[k].MOData[path] \in Data
    <3>1. moi[k] \in Dumps
      BY ElementOfSeq, LenProperties DEF PackageInv, DumpInv
    <3>2. moi[k].MOData \in JSON
      BY <3>1 DEF Dumps
    <3> QED
      BY <3>2, JSONFacts
  <2> QED
    BY <2>1, <2>2
       DEF PackageInv, TreeInv, WalkInv, AtInstance, Visit, DumpInv, PackageTypeOK
<1> QED
  BY <1>1, PackageInitInv, PackageNextInv, PTL DEF PackageSpec

-----------------------------------------------------------------------------
(* An instance's entry, when type and object read the same file.           *)
LEMMA EntryShowsWhatWasSet ==
  ASSUME PackageInv, EndMI
  PROVE  ShowsWhatWasSet(Entry)
<1> DEFINE t  == Root
           mo == Object
           x  == file[current[1]]
           json == serialize_children(t, got)
<1>1. /\ Entry.instance = current /\ Entry.MOData = json
      /\ current \in MIs /\ mo \in Mos /\ Parsed(t)
      /\ Visit /\ DOMAIN got = Asked(t) /\ Answers(t, got)
  BY EntryFacts
<1> SUFFICES ASSUME NoDoublets(t), x = ObjectFile[mo]
             PROVE  /\ DOMAIN json = DOMAIN last_set[mo] \ Refused[mo]
                    /\ \A path \in DOMAIN json : json[path] \in held[path]
  BY <1>1 DEF ShowsWhatWasSet, Root, Object
<1>2. DOMAIN last_set[mo] = LeafPaths(t)
  <2>1. current[1] \in Segments /\ Registered(current[1])
    BY <1>1 DEF MIs
  <2>2. /\ x \in Files /\ IsDocument(x) /\ HandlerParse(x, UrnName[current[1]]) = "true"
        /\ UrnName[current[1]] \in Names \cup {NoName, "throws"}
        /\ t = HandlerTree(x, UrnName[current[1]])
    BY <2>1, PackageFacts DEF PackageInv, FileInv, Root
  <2>3. LeafPaths(HandlerTree(x, UrnName[current[1]])) = LeafPaths(CacheTree(x))
    BY <2>2, SameLeafPaths
  <2> QED
    BY <1>1, <2>2, <2>3 DEF PackageInv, ObjectInv
<1>3. /\ DOMAIN held = DOMAIN last_set[mo]
      /\ \A p \in Asked(t) : IsAnswer(mo, NamesTo(t, p), got[p], held)
  BY <1>1 DEF Visit
<1>4. Asked(t) = LeavesOf(t)
  BY AskedAreLeaves
<1> HIDE DEF t, mo, x
<1>5. /\ \A path \in DOMAIN json : \E leaf \in Asked(t) :
           IsAnswerAt(t, got, leaf, path, json[path])
      /\ \A leaf \in LeavesOf(t) : got[leaf] # Null => NamesTo(t, leaf) \in DOMAIN json
  BY <1>1, SerializedFacts
<1> HIDE DEF json
<1>6. ASSUME NEW path \in DOMAIN json
      PROVE  path \in LeafPaths(t) \ Refused[mo] /\ json[path] \in held[path]
  <2>1. PICK leaf \in Asked(t) : IsAnswerAt(t, got, leaf, path, json[path])
    BY <1>5
  <2>2. /\ NamesTo(t, leaf) = path /\ got[leaf] # Null /\ json[path] = got[leaf][<<>>]
        /\ IsAnswer(mo, path, got[leaf], held)
    BY <1>3, <2>1 DEF IsAnswerAt
  <2>3. path \in LeafPaths(t)
    BY <1>4, <2>2 DEF LeafPaths
  <2>4. PICK d \in Data : got[leaf] = String(d) /\ d \in held[path] /\ path \notin Refused[mo]
    BY <1>2, <1>3, <2>2, <2>3 DEF IsAnswer
  <2> QED
    BY <2>2, <2>3, <2>4, StringFacts
<1>7. ASSUME NEW path \in LeafPaths(t) \ Refused[mo]
      PROVE  path \in DOMAIN json
  <2>1. PICK leaf \in LeavesOf(t) : NamesTo(t, leaf) = path
    BY DEF LeafPaths
  <2>2. PICK d \in Data : got[leaf] = String(d)
    BY <1>3, <1>4, <1>7, <2>1 DEF IsAnswer
  <2>3. got[leaf] # Null
    BY <2>2, StringFacts, NullFacts
  <2> QED
    BY <1>5, <2>1, <2>3
<1> QED
  BY <1>2, <1>6, <1>7

(* An object made from the file its type was registered with, in which no  *)
(* two siblings have one name, is dumped with all its leaves but those     *)
(* get_val refuses, each with a value it was last set to while it was      *)
(* serialised, whatever the application does in the get_vals:              *)
(* serialize_children asks for every leaf once, under the names            *)
(* local_set_node finds it by (MOHandler.cpp:112-131,                      *)
(* MO_BaseCached.cpp:43-107).                                              *)
THEOREM DumpIsCurrent == PackageSpec => DumpShowsWhatWasSet
<1>1. PackageInv /\ [PackageNext]_p1Vars =>
        [Len(moi') > Len(moi) => ShowsWhatWasSet(moi'[Len(moi')])]_p1Vars
  <2> SUFFICES ASSUME PackageInv, [PackageNext]_p1Vars, Len(moi') > Len(moi)
               PROVE  ShowsWhatWasSet(moi'[Len(moi')])
    OBVIOUS
  <2>0. moi \in Seq(Dumps) /\ Len(moi) \in Nat
    BY LenProperties DEF PackageInv, DumpInv
  <2>1. EndMI
    <3>1. moi' # moi /\ moi' # <<>>
      <4>1. Len(<<>>) = 0
        BY EmptySeq
      <4> QED
        BY <2>0, <4>1
    <3> QED
      BY <3>1 DEF PackageNext, RegisterFile, AddObject, LocalSetNode, StartPackage, BeginMI,
                  ReadLeaf, SendP1, p1Vars, packageVars
  <2>2. moi' = Append(moi, Entry)
    BY <2>1 DEF EndMI, Entry
  <2>3. moi'[Len(moi')] = Entry
    BY <2>0, <2>1, <2>2, EntryFacts, AppendProperties
  <2> QED
    BY <2>1, <2>3, EntryShowsWhatWasSet
<1> QED
  BY <1>1, PackageInitInv, PackageNextInv, PTL DEF PackageSpec, DumpShowsWhatWasSet

-----------------------------------------------------------------------------
(* A string's place in the order of std::map.                              *)
Place(a) == CHOOSE i \in DOMAIN StringOrder : StringOrder[i] = a

LEMMA PlaceFacts ==
  ASSUME NEW a \in Segments
  PROVE  /\ Place(a) \in 1 .. Len(StringOrder) /\ DOMAIN StringOrder = 1 .. Len(StringOrder)
         /\ Len(StringOrder) \in Nat
         /\ \A i \in DOMAIN StringOrder : StringOrder[i] = a <=> i = Place(a)
<1>1. StringOrder \in Seq(Segments)
      /\ \E i \in DOMAIN StringOrder : \A j \in DOMAIN StringOrder : StringOrder[j] = a <=> i = j
  BY PackageAssumption
<1>2. DOMAIN StringOrder = 1 .. Len(StringOrder) /\ Len(StringOrder) \in Nat
  BY <1>1, LenProperties
<1>3. PICK i \in DOMAIN StringOrder : \A j \in DOMAIN StringOrder : StringOrder[j] = a <=> i = j
  BY <1>1
<1>4. Place(a) \in DOMAIN StringOrder /\ StringOrder[Place(a)] = a
  BY <1>3 DEF Place
<1>5. Place(a) = i
  BY <1>3, <1>4
<1> QED
  BY <1>2, <1>3, <1>4, <1>5

LEMMA LessFacts ==
  ASSUME NEW a \in Segments, NEW b \in Segments
  PROVE  /\ Place(a) \in Nat /\ Place(b) \in Nat
         /\ Less(a, b) <=> Place(a) < Place(b)
         /\ Place(a) = Place(b) => a = b
<1>1. /\ Place(a) \in DOMAIN StringOrder /\ StringOrder[Place(a)] = a
      /\ Place(b) \in DOMAIN StringOrder /\ StringOrder[Place(b)] = b
      /\ Place(a) \in Nat /\ Place(b) \in Nat
  BY PlaceFacts
<1>2. ASSUME NEW i \in DOMAIN StringOrder, NEW j \in DOMAIN StringOrder,
             i < j, StringOrder[i] = a, StringOrder[j] = b
      PROVE  Place(a) < Place(b)
  <2>1. i = Place(a) /\ j = Place(b)
    BY <1>2, PlaceFacts
  <2> QED
    BY <1>2, <2>1
<1> QED
  BY <1>1, <1>2 DEF Less

InOrder(s, strings) ==
  /\ s \in [1 .. Cardinality(strings) -> strings]
  /\ \A i, j \in DOMAIN s : i < j => Less(s[i], s[j])

Sortable(strings) == IsFiniteSet(strings) /\ \E s : InOrder(s, strings)

LEMMA AllSortable ==
  ASSUME NEW strings, strings \subseteq Segments
  PROVE  Sortable(strings)
<1> DEFINE n == Len(StringOrder)
           Upto(k) == {a \in strings : Place(a) <= k}
           S == {k \in 0 .. n : Sortable(Upto(k))}
<1>1. n \in Nat /\ DOMAIN StringOrder = 1 .. n /\ \A i \in 1 .. n : StringOrder[i] \in Segments
  BY PackageAssumption, LenProperties, ElementOfSeq
<1>2. \A a \in strings : Place(a) \in 1 .. n
  BY PlaceFacts
<1>3. 0 \in S
  <2>1. Upto(0) = {}
    BY <1>1, <1>2
  <2>2. IsFiniteSet(Upto(0)) /\ Cardinality(Upto(0)) = 0
    BY <2>1, FS_EmptySet
  <2> DEFINE none == [i \in 1 .. 0 |-> Empty]
  <2> HIDE DEF Upto
  <2>3. none \in [1 .. Cardinality(Upto(0)) -> Upto(0)] /\ DOMAIN none = {}
    BY <2>2
  <2> HIDE DEF none
  <2>4. InOrder(none, Upto(0))
    BY <2>3 DEF InOrder
  <2>5. Sortable(Upto(0)) /\ 0 \in 0 .. n
    BY <1>1, <2>2, <2>4 DEF Sortable
  <2> HIDE DEF n
  <2> QED
    BY <2>5
<1>4. ASSUME NEW k \in 1 .. n, k - 1 \in S
      PROVE  k \in S
  <2> DEFINE a == StringOrder[k]
             U == Upto(k - 1)
             c == Cardinality(U)
  <2>0. k \in 0 .. n /\ Sortable(U)
    BY <1>1, <1>4
  <2>1. a \in Segments /\ Place(a) = k
    BY <1>1, PlaceFacts
  <2>2. \A b \in strings : Place(b) = k => b = a
    BY <2>1, LessFacts
  <2>3. Upto(k) = IF a \in strings THEN U \cup {a} ELSE U
    BY <1>1, <1>2, <2>1, <2>2
  <2>4. IsFiniteSet(U) /\ c \in Nat
    BY <2>0, FS_CardinalityType DEF Sortable
  <2>5. PICK s : InOrder(s, U)
    BY <2>0 DEF Sortable
  <2>6. CASE a \notin strings
    <3>1. Upto(k) = U
      BY <2>3, <2>6
    <3> HIDE DEF U, Upto, n
    <3> QED
      BY <2>0, <3>1
  <2>7. CASE a \in strings
    <3> DEFINE r == [i \in 1 .. c + 1 |-> IF i = c + 1 THEN a ELSE s[i]]
               V == U \cup {a}
    <3>1. a \notin U /\ \A b \in U : b \in Segments /\ Place(b) < k /\ Less(b, a)
      <4>1. ASSUME NEW b \in U
            PROVE  b \in Segments /\ Place(b) < k
        BY <1>1, <1>2
      <4> QED
        BY <1>1, <2>1, <4>1, LessFacts
    <3> HIDE DEF U, Upto, a
    <3>2. IsFiniteSet(V) /\ Cardinality(V) = c + 1
      BY <2>4, <3>1, FS_AddElement
    <3>3. s \in [1 .. c -> U] /\ \A i, j \in 1 .. c : i < j => Less(s[i], s[j])
      BY <2>5 DEF InOrder
    <3> HIDE DEF c
    <3>4. r \in [1 .. c + 1 -> V]
      BY <2>4, <3>3
    <3>5. \A i, j \in 1 .. c + 1 : i < j => Less(r[i], r[j])
      BY <2>4, <3>1, <3>3
    <3> HIDE DEF r
    <3>6. InOrder(r, V)
      BY <3>2, <3>4, <3>5 DEF InOrder
    <3>7. Upto(k) = V
      BY <2>3, <2>7
    <3> HIDE DEF V
    <3>8. Sortable(Upto(k))
      BY <3>2, <3>6, <3>7 DEF Sortable
    <3> HIDE DEF n
    <3> QED
      BY <2>0, <3>8
  <2> QED
    BY <2>6, <2>7
<1>5. n \in S
  <2>1. \A k \in 0 .. n : k \in S
    <3> HIDE DEF S, n
    <3> QED
      BY <1>1, <1>3, <1>4, InductionUpTo
  <2>2. n \in 0 .. n
    BY <1>1
  <2> HIDE DEF S, n
  <2> QED
    BY <2>1, <2>2
<1>6. Upto(n) = strings
  BY <1>1, <1>2
<1> HIDE DEF n, Upto
<1> QED
  BY <1>5, <1>6

(* for (auto &x : map): every key once, in the order of the map.           *)
LEMMA SortedFacts ==
  ASSUME NEW strings, strings \subseteq Segments
  PROVE  /\ Sorted(strings) \in Seq(strings) /\ DOMAIN Sorted(strings) = 1 .. Len(Sorted(strings))
         /\ \A i, j \in DOMAIN Sorted(strings) : i < j => Less(Sorted(strings)[i], Sorted(strings)[j])
         /\ \A a \in strings : \E i \in DOMAIN Sorted(strings) : Sorted(strings)[i] = a
<1> DEFINE c == Cardinality(strings)
           s == Sorted(strings)
<1>1. IsFiniteSet(strings) /\ c \in Nat /\ \E r : InOrder(r, strings)
  BY AllSortable, FS_CardinalityType DEF Sortable
<1>2. s \in [1 .. c -> strings] /\ \A i, j \in DOMAIN s : i < j => Less(s[i], s[j])
  BY <1>1 DEF Sorted, InOrder
<1> HIDE DEF s
<1>3. s \in Injection(1 .. c, strings)
  <2>1. ASSUME NEW i \in 1 .. c, NEW j \in 1 .. c, s[i] = s[j]
        PROVE  i = j
    <3>1. s[i] \in Segments
      BY <1>2
    <3>2. ~Less(s[i], s[i])
      BY <3>1, LessFacts
    <3>3. ~(i < j) /\ ~(j < i)
      BY <1>2, <2>1, <3>2
    <3> QED
      BY <1>1, <3>3
  <2> QED
    BY <1>2, <2>1 DEF Injection, IsInjective
<1>4. Cardinality(1 .. c) = c
  <2>1. 1 \in Int /\ c \in Int
    BY <1>1
  <2>2. Cardinality(1 .. c) = IF 1 > c THEN 0 ELSE c - 1 + 1
    BY <2>1, FS_Interval
  <2> QED
    BY <1>1, <2>2
<1>5. s \in Surjection(1 .. c, strings)
  BY <1>1, <1>3, <1>4, FS_Injection
<1>6. \A a \in strings : \E i \in 1 .. c : s[i] = a
  BY <1>5 DEF Surjection
<1>7. s \in Seq(strings) /\ Len(s) = c
  BY <1>1, <1>2, IsASeq
<1> QED
  BY <1>2, <1>6, <1>7 DEF s

-----------------------------------------------------------------------------
(* The sequences in the order of the dump: s goes through the instances of *)
(* a set, each once.                                                       *)
Visits(s, instances) ==
  /\ s \in Seq(instances)
  /\ \A i, j \in 1 .. Len(s) : i < j => After(s[j], s[i])
  /\ \A mi \in instances : \E k \in 1 .. Len(s) : s[k] = mi

LEMMA AfterIsAnOrder ==
  ASSUME NEW a \in MIs, NEW b \in MIs
  PROVE  /\ ~After(a, a)
         /\ After(a, b) => ~After(b, a)
         /\ a # b => After(a, b) \/ After(b, a)
<1>1. /\ a[1] \in Segments /\ a[2] \in Segments /\ a = <<a[1], a[2]>>
      /\ b[1] \in Segments /\ b[2] \in Segments /\ b = <<b[1], b[2]>>
  BY DEF MIs
<1>2. /\ Place(a[1]) \in Nat /\ Place(b[1]) \in Nat
      /\ Less(a[1], b[1]) <=> Place(a[1]) < Place(b[1])
      /\ Less(b[1], a[1]) <=> Place(b[1]) < Place(a[1])
      /\ Less(a[1], a[1]) <=> Place(a[1]) < Place(a[1])
      /\ Place(a[1]) = Place(b[1]) => a[1] = b[1]
  BY <1>1, LessFacts
<1>3. /\ Place(a[2]) \in Nat /\ Place(b[2]) \in Nat
      /\ Less(a[2], b[2]) <=> Place(a[2]) < Place(b[2])
      /\ Less(b[2], a[2]) <=> Place(b[2]) < Place(a[2])
      /\ Less(a[2], a[2]) <=> Place(a[2]) < Place(a[2])
      /\ Place(a[2]) = Place(b[2]) => a[2] = b[2]
  BY <1>1, LessFacts
<1>4. ~After(a, a)
  BY <1>2, <1>3 DEF After
<1>5. ASSUME After(a, b) PROVE ~After(b, a)
  BY <1>2, <1>3, <1>5 DEF After
<1>6. ASSUME a # b PROVE After(a, b) \/ After(b, a)
  <2>1. a[1] # b[1] \/ a[2] # b[2]
    BY <1>1, <1>6
  <2>2. CASE a[1] # b[1]
    BY <1>2, <2>2 DEF After
  <2>3. CASE a[1] = b[1] /\ a[2] # b[2]
    BY <1>3, <2>3 DEF After
  <2> QED
    BY <2>1, <2>2, <2>3
<1> QED
  BY <1>4, <1>5, <1>6

(* The inner loop: the instances of one type.                              *)
LEMMA RowVisits ==
  ASSUME NEW urn \in Segments, Registered(urn),
         NEW miids, miids = Sorted(Instances(MOs[urn]))
  PROVE  Visits([j \in 1 .. Len(miids) |-> <<urn, miids[j]>>], {mi \in MIs : mi[1] = urn})
<1> DEFINE S == {mi \in MIs : mi[1] = urn}
           H == Instances(MOs[urn])
           n == Len(miids)
           row == [j \in 1 .. n |-> <<urn, miids[j]>>]
<1>1. H \subseteq Segments
  BY DEF Instances
<1> HIDE DEF H
<1>2. /\ miids \in Seq(H) /\ DOMAIN miids = 1 .. n
      /\ \A i, j \in DOMAIN miids : i < j => Less(miids[i], miids[j])
      /\ \A a \in H : \E i \in DOMAIN miids : miids[i] = a
  BY <1>1, SortedFacts DEF H
<1>3. n \in Nat /\ \A i \in 1 .. n : miids[i] \in H
  BY <1>2, LenProperties, ElementOfSeq
<1>4. \A a \in H : <<urn, a>> \in S
  BY DEF MIs, H, Instances
<1>5. \A mi \in S : mi[2] \in H /\ mi = <<urn, mi[2]>>
  BY DEF MIs, H, Instances
<1> HIDE DEF S, n
<1>6. row \in [1 .. n -> S]
  BY <1>3, <1>4
<1>7. row \in Seq(S) /\ Len(row) = n
  BY <1>3, <1>6
<1>8. \A i, j \in 1 .. n : i < j => After(row[j], row[i])
  BY <1>2 DEF After
<1>9. ASSUME NEW mi \in S
      PROVE  \E k \in 1 .. n : row[k] = mi
  BY <1>2, <1>5
<1> HIDE DEF row
<1>10. Visits(row, S)
  BY <1>7, <1>8, <1>9 DEF Visits
<1> QED
  BY <1>10 DEF row, S, n

LEMMA ConcatVisits ==
  ASSUME NEW A, NEW B, NEW s, Visits(s, A), NEW t, Visits(t, B),
         \A a \in A, b \in B : After(b, a)
  PROVE  Visits(s \o t, A \cup B)
<1> DEFINE C == A \cup B
           u == s \o t
           m == Len(s)
           n == Len(t)
<1>1. s \in Seq(C) /\ t \in Seq(C) /\ m \in Nat /\ n \in Nat
  BY SeqMonotonic, LenProperties DEF Visits
<1>2. /\ u \in Seq(C) /\ Len(u) = m + n
      /\ \A i \in 1 .. m + n : u[i] = IF i <= m THEN s[i] ELSE t[i - m]
  BY <1>1, ConcatProperties
<1>3. /\ \A i \in 1 .. m : s[i] \in A
      /\ \A i \in 1 .. n : t[i] \in B
  BY ElementOfSeq DEF Visits
<1>4. /\ \A i, j \in 1 .. m : i < j => After(s[j], s[i])
      /\ \A i, j \in 1 .. n : i < j => After(t[j], t[i])
  BY DEF Visits
<1>5. /\ \A a \in A : \E k \in 1 .. m : s[k] = a
      /\ \A b \in B : \E k \in 1 .. n : t[k] = b
  BY DEF Visits
<1> HIDE DEF u, m, n
<1>6. ASSUME NEW i \in 1 .. m + n, NEW j \in 1 .. m + n, i < j
      PROVE  After(u[j], u[i])
  <2>1. CASE j <= m
    <3>1. i \in 1 .. m /\ j \in 1 .. m /\ u[i] = s[i] /\ u[j] = s[j]
      BY <1>1, <1>2, <1>6, <2>1
    <3> QED
      BY <1>4, <1>6, <3>1
  <2>2. CASE i > m
    <3>1. i - m \in 1 .. n /\ j - m \in 1 .. n /\ i - m < j - m
          /\ u[i] = t[i - m] /\ u[j] = t[j - m]
      BY <1>1, <1>2, <1>6, <2>2
    <3> QED
      BY <1>4, <3>1
  <2>3. CASE i <= m /\ j > m
    <3>1. i \in 1 .. m /\ j - m \in 1 .. n /\ u[i] = s[i] /\ u[j] = t[j - m]
      BY <1>1, <1>2, <1>6, <2>3
    <3> QED
      BY <1>3, <3>1
  <2> QED
    BY <1>1, <2>1, <2>2, <2>3
<1>7. ASSUME NEW mi \in C
      PROVE  \E k \in 1 .. m + n : u[k] = mi
  <2>1. CASE mi \in A
    <3>1. PICK k \in 1 .. m : s[k] = mi
      BY <1>5, <2>1
    <3>2. k \in 1 .. m + n /\ u[k] = s[k]
      BY <1>1, <1>2
    <3> QED
      BY <3>1, <3>2
  <2>2. CASE mi \in B
    <3>1. PICK k \in 1 .. n : t[k] = mi
      BY <1>5, <2>2
    <3>2. k + m \in 1 .. m + n /\ u[k + m] = t[k]
      BY <1>1, <1>2
    <3> QED
      BY <3>1, <3>2
  <2> QED
    BY <2>1, <2>2
<1>8. Visits(u, C)
  BY <1>2, <1>6, <1>7 DEF Visits
<1> QED
  BY <1>8 DEF u

(* FlattenSeq, of the n rows of a nonempty sequence.                       *)
Flattens(g, n, rows) ==
  /\ g[1] = rows[1]
  /\ \A i \in 2 .. n : g[i] = g[i - 1] \o rows[i]
  /\ SX!FlattenSeq(rows) = g[n]

LEMMA FlattenSeqUnfolds ==
  ASSUME NEW V, NEW n \in Nat, n # 0, NEW rows \in [1 .. n -> Seq(V)]
  PROVE  \E g : Flattens(g, n, rows)
<1> DEFINE step == [i \in 1 .. n |-> [v \in Seq(V) |-> v \o rows[i]]]
<1>1. \A i \in 1 .. n : rows[i] \in Seq(V)
  OBVIOUS
<1>2. PICK g : Iterates(g, n, Seq(V), <<>>, step)
  <2>1. \A i \in 1 .. n : \A v \in Seq(V) : step[i][v] \in Seq(V)
    BY <1>1, ConcatProperties
  <2>2. <<>> \in Seq(V)
    BY EmptySeq
  <2> HIDE DEF step
  <2> QED
    BY <2>1, <2>2, IterationExists
<1>3. \A i \in 1 .. n : g[i] = g[i - 1] \o rows[i]
  <2>1. /\ g \in [0 .. n -> Seq(V)]
        /\ \A i \in 1 .. n : g[i] = step[i][g[i - 1]]
    BY <1>2 DEF Iterates
  <2>2. \A i \in 1 .. n : g[i - 1] \in Seq(V)
    BY <2>1
  <2> QED
    BY <2>1, <2>2
<1> HIDE DEF step
<1>4. g[1] = rows[1]
  <2>1. 1 \in 1 .. n /\ rows[1] \in Seq(V)
    BY <1>1
  <2>2. g[1] = g[1 - 1] \o rows[1]
    BY <1>3, <2>1
  <2>3. g[1 - 1] = <<>>
    <3>1. g[0] = <<>>
      BY <1>2 DEF Iterates
    <3> QED
      BY <3>1
  <2>4. <<>> \o rows[1] = rows[1]
    BY <2>1, ConcatEmptySeq
  <2> QED
    BY <2>2, <2>3, <2>4
<1> DEFINE Body(f) == [i \in 1 .. Len(rows) |-> IF i = 1 THEN rows[i] ELSE f[i - 1] \o rows[i]]
           flatten[i \in 1 .. Len(rows)] == IF i = 1 THEN rows[i] ELSE flatten[i - 1] \o rows[i]
           f0 == [i \in 1 .. n |-> g[i]]
<1>5. rows \in Seq(Seq(V)) /\ Len(rows) = n
  OBVIOUS
<1>6. SX!FlattenSeq(rows) = flatten[n]
  BY <1>5 DEF SX!FlattenSeq
<1>7. flatten = CHOOSE f : f = Body(f)
  OBVIOUS
<1>8. f0 = Body(f0)
  <2>1. \A i \in 1 .. n : i # 1 => i - 1 \in 1 .. n /\ f0[i - 1] = g[i - 1]
    OBVIOUS
  <2>2. \A i \in 1 .. n : f0[i] = IF i = 1 THEN rows[i] ELSE f0[i - 1] \o rows[i]
    BY <1>3, <1>4, <2>1
  <2> HIDE DEF f0
  <2>3. f0 = [i \in 1 .. n |-> f0[i]]
    BY DEF f0
  <2> QED
    BY <1>5, <2>2, <2>3
<1> HIDE DEF Body, flatten, f0
<1>9. flatten = Body(flatten)
  BY <1>7, <1>8
<1>10. \A i \in 1 .. n : flatten[i] = IF i = 1 THEN rows[i] ELSE flatten[i - 1] \o rows[i]
  BY <1>5, <1>9 DEF Body
<1>11. flatten[1] = rows[1]
  <2>1. 1 \in 1 .. n
    OBVIOUS
  <2> QED
    BY <1>10, <2>1
<1>12. \A i \in 2 .. n : flatten[i] = flatten[i - 1] \o rows[i]
  <2>1. \A i \in 2 .. n : i \in 1 .. n /\ i # 1
    OBVIOUS
  <2> QED
    BY <1>10, <2>1
<1>13. Flattens(flatten, n, rows)
  BY <1>6, <1>11, <1>12 DEF Flattens
<1> QED
  BY <1>13

(* The MOS list names every instance, in the order of the dump.            *)
ListingOf(list) ==
  SX!FlattenSeq([i \in 1 .. Len(list) |->
                  [j \in 1 .. Len(list[i].MIID) |-> <<list[i].MOID, list[i].MIID[j]>>]])

LEMMA ListingVisits == Visits(ListingOf(p1_MOS_json), MIs)
<1> DEFINE list == p1_MOS_json
           U == {urn \in Segments : Registered(urn)}
           urns == Sorted(U)
           n == Len(urns)
           row(i) == [j \in 1 .. Len(list[i].MIID) |-> <<list[i].MOID, list[i].MIID[j]>>]
           rows == [i \in 1 .. n |-> row(i)]
           Of(i) == {mi \in MIs : mi[1] = urns[i]}
           Upto(i) == {mi \in MIs : \E l \in 1 .. i : mi[1] = urns[l]}
<1>1. /\ urns \in Seq(U) /\ DOMAIN urns = 1 .. n
      /\ \A i, j \in DOMAIN urns : i < j => Less(urns[i], urns[j])
      /\ \A a \in U : \E i \in DOMAIN urns : urns[i] = a
  BY SortedFacts
<1>2. /\ list = [i \in DOMAIN urns |->
                  [MOID |-> urns[i], MIID |-> Sorted(Instances(MOs[urns[i]]))]]
  BY DEF p1_MOS_json
<1> SUFFICES Visits(ListingOf(list), MIs)
  OBVIOUS
<1> HIDE DEF U, urns, list
<1>3. n \in Nat /\ \A i \in 1 .. n : urns[i] \in U
  BY <1>1, LenProperties, ElementOfSeq
<1> HIDE DEF n
<1>4. Len(list) = n /\ \A i \in 1 .. n : /\ list[i].MOID = urns[i]
                                        /\ list[i].MIID = Sorted(Instances(MOs[urns[i]]))
  BY <1>1, <1>2, <1>3
<1>5. ListingOf(list) = SX!FlattenSeq(rows)
  BY <1>4 DEF ListingOf
<1>6. ASSUME NEW i \in 1 .. n
      PROVE  rows[i] = row(i) /\ Visits(rows[i], Of(i))
  <2> DEFINE urn == urns[i]
             miids == list[i].MIID
  <2>1. urn \in Segments /\ Registered(urn) /\ miids = Sorted(Instances(MOs[urn]))
    BY <1>3, <1>4 DEF U
  <2>2. row(i) = [j \in 1 .. Len(miids) |-> <<urn, miids[j]>>]
    BY <1>4
  <2>3. rows[i] = row(i)
    OBVIOUS
  <2> HIDE DEF urn, miids, row, rows
  <2>4. Visits([j \in 1 .. Len(miids) |-> <<urn, miids[j]>>], {mi \in MIs : mi[1] = urn})
    BY <2>1, RowVisits
  <2> QED
    BY <2>2, <2>3, <2>4 DEF urn
<1>7. \A mi \in MIs : \E i \in 1 .. n : mi[1] = urns[i]
  <2>1. \A mi \in MIs : mi[1] \in U
    BY DEF MIs, U
  <2> QED
    BY <1>1, <2>1
<1>8. CASE n = 0
  <2>1. rows = <<>> /\ Len(rows) = 0
    BY <1>8
  <2>2. ListingOf(list) = <<>>
    BY <1>5, <2>1 DEF SX!FlattenSeq
  <2>3. MIs = {}
    BY <1>7, <1>8
  <2>4. <<>> \in Seq(MIs) /\ Len(<<>>) = 0
    BY EmptySeq
  <2> QED
    BY <2>2, <2>3, <2>4 DEF Visits
<1>9. CASE n # 0
  <2>1. rows \in [1 .. n -> Seq(MIs)]
    <3>1. \A i \in 1 .. n : rows[i] \in Seq(MIs)
      <4> TAKE i \in 1 .. n
      <4>1. rows[i] \in Seq(Of(i)) /\ Of(i) \subseteq MIs
        BY <1>6 DEF Visits
      <4> HIDE DEF rows, Of
      <4> QED
        BY <4>1, SeqMonotonic
    <3> QED
      BY <3>1
  <2> HIDE DEF rows, row
  <2>2. PICK g : Flattens(g, n, rows)
    BY <1>3, <1>9, <2>1, FlattenSeqUnfolds
  <2> DEFINE Seen == {i \in 0 .. n : i = 0 \/ Visits(g[i], Upto(i))}
  <2>3. 0 \in Seen
    BY <1>3
  <2>4. ASSUME NEW i \in 1 .. n, i - 1 \in Seen
        PROVE  i \in Seen
    <3>1. i \in 0 .. n /\ Visits(rows[i], Of(i))
      BY <1>3, <1>6
    <3>2. CASE i = 1
      <4>1. Of(1) = Upto(1)
        OBVIOUS
      <4>2. g[1] = rows[1]
        BY <2>2 DEF Flattens
      <4> HIDE DEF Of, Upto
      <4> QED
        BY <3>1, <3>2, <4>1, <4>2
    <3>3. CASE i # 1
      <4>1. i - 1 # 0 /\ i \in 2 .. n
        BY <1>3, <3>3
      <4>2. Visits(g[i - 1], Upto(i - 1)) /\ g[i] = g[i - 1] \o rows[i]
        BY <2>2, <2>4, <4>1 DEF Flattens
      <4>3. Upto(i) = Upto(i - 1) \cup Of(i)
        <5>1. \A l \in Int : l \in 1 .. i <=> l \in 1 .. i - 1 \/ l = i
          BY <1>3
        <5> QED
          BY <1>3, <5>1
      <4>4. ASSUME NEW a \in Upto(i - 1), NEW b \in Of(i)
            PROVE  After(b, a)
        <5>1. PICK l \in 1 .. i - 1 : a[1] = urns[l]
          OBVIOUS
        <5>2. l \in DOMAIN urns /\ i \in DOMAIN urns /\ l < i
          BY <1>1, <1>3
        <5> QED
          BY <1>1, <5>1, <5>2 DEF After
      <4> HIDE DEF Of, Upto
      <4>5. Visits(g[i - 1] \o rows[i], Upto(i - 1) \cup Of(i))
        BY <3>1, <4>2, <4>4, ConcatVisits
      <4> QED
        BY <3>1, <4>2, <4>3, <4>5
    <3> QED
      BY <3>2, <3>3
  <2>5. n \in Seen
    <3>1. \A i \in 0 .. n : i \in Seen
      <4> HIDE DEF Seen
      <4> QED
        BY <1>3, <2>3, <2>4, InductionUpTo
    <3>2. n \in 0 .. n
      BY <1>3
    <3> HIDE DEF Seen
    <3> QED
      BY <3>1, <3>2
  <2>6. Upto(n) = MIs
    BY <1>7
  <2>7. ListingOf(list) = g[n]
    BY <1>5, <2>2 DEF Flattens
  <2> HIDE DEF Upto
  <2> QED
    BY <1>9, <2>5, <2>6, <2>7
<1> QED
  BY <1>8, <1>9

-----------------------------------------------------------------------------
(* While the package is put together nothing is registered or added, so    *)
(* the MOS list stays what the maps hold and the dump goes along it.       *)
ListingInv ==
  packaging =>
    /\ mos = p1_MOS_json
    /\ Len(moi) <= Len(Listed)
    /\ \A k \in DOMAIN moi : moi[k].instance = Listed[k]
    /\ current # <<>> => Len(moi) < Len(Listed) /\ current = Listed[Len(moi) + 1]

(* What is ahead of the iterators is the rest of the listing.              *)
LEMMA AheadIsTheRest ==
  ASSUME PackageInv, ListingInv, packaging
  PROVE  /\ Len(moi) \in Nat /\ Len(Listed) \in Nat
         /\ \A k \in 1 .. Len(Listed) : Listed[k] \in Ahead <=> k > Len(moi)
         /\ \A mi \in Ahead : \E k \in 1 .. Len(Listed) : mi = Listed[k]
         /\ \A j, k \in 1 .. Len(Listed) : j < k => ~After(Listed[j], Listed[k])
<1> DEFINE n == Len(moi)
           m == Len(Listed)
<1>1. Visits(Listed, MIs)
  BY ListingVisits DEF ListingInv, Listed, ListingOf
<1>2. /\ Listed \in Seq(MIs) /\ m \in Nat /\ \A k \in 1 .. m : Listed[k] \in MIs
  BY <1>1, LenProperties, ElementOfSeq DEF Visits
<1>3. moi \in Seq(Dumps) /\ n \in Nat /\ DOMAIN moi = 1 .. n /\ n <= m
      /\ \A k \in 1 .. n : moi[k].instance = Listed[k]
  BY LenProperties DEF PackageInv, DumpInv, ListingInv
<1>4. /\ \A j, k \in 1 .. m : j < k => After(Listed[k], Listed[j])
      /\ \A mi \in MIs : \E k \in 1 .. m : Listed[k] = mi
  BY <1>1 DEF Visits
<1>5. \A j, k \in 1 .. m : ~(j < k) => ~After(Listed[k], Listed[j])
  <2> SUFFICES ASSUME NEW j \in 1 .. m, NEW k \in 1 .. m, ~(j < k)
               PROVE  ~After(Listed[k], Listed[j])
    OBVIOUS
  <2>1. CASE j = k
    BY <1>2, <2>1, AfterIsAnOrder
  <2>2. CASE k < j
    <3>1. After(Listed[j], Listed[k])
      BY <1>4, <2>2
    <3> QED
      BY <1>2, <3>1, AfterIsAnOrder
  <2> QED
    BY <1>2, <2>1, <2>2
<1>6. moi = <<>> <=> n = 0
  BY <1>3, EmptySeq
<1> HIDE DEF n, m
<1>7. ASSUME NEW k \in 1 .. m
      PROVE  Listed[k] \in Ahead <=> k > n
  <2>1. Listed[k] \in MIs
    BY <1>2
  <2>2. CASE n = 0
    BY <1>2, <1>6, <2>1, <2>2 DEF Ahead
  <2>3. CASE n # 0
    <3>1. n \in 1 .. n /\ n \in 1 .. m
      BY <1>2, <1>3, <2>3
    <3>2. moi[n].instance = Listed[n]
      BY <1>3, <3>1
    <3>3. Listed[k] \in Ahead <=> After(Listed[k], Listed[n])
      BY <1>6, <2>1, <2>3, <3>2 DEF Ahead, n
    <3> QED
      BY <1>2, <1>4, <1>5, <3>1, <3>3
  <2> QED
    BY <2>2, <2>3
<1>8. \A mi \in Ahead : \E k \in 1 .. m : mi = Listed[k]
  BY <1>4 DEF Ahead
<1>9. \A j, k \in 1 .. m : j < k => ~After(Listed[j], Listed[k])
  BY <1>2, <1>5
<1> QED
  BY <1>2, <1>3, <1>7, <1>8, <1>9 DEF n, m

LEMMA ListingNextInv ==
  ASSUME Reentrant = FALSE, PackageInv, ListingInv, [PackageNext]_p1Vars
  PROVE  ListingInv'
<1>1. ASSUME MOs' = MOs
      PROVE  p1_MOS_json' = p1_MOS_json
  BY <1>1 DEF p1_MOS_json, Registered, Instances, Has, Sorted, Less
<1>2. ASSUME mos' = mos
      PROVE  Listed' = Listed
  BY <1>2 DEF Listed
<1>3. CASE BeginMI
  <2>1. packaging /\ packaging' = packaging /\ mos' = mos /\ moi' = moi /\ MOs' = MOs
    BY <1>3 DEF BeginMI, packageVars, treeVars
  <2> DEFINE n == Len(moi)
  <2>2. PICK mi \in Ahead : /\ \A other \in Ahead \ {mi} : After(other, mi)
                            /\ current' = mi
    BY <1>3 DEF BeginMI
  <2>3. /\ n \in Nat /\ Len(Listed) \in Nat
        /\ \A k \in 1 .. Len(Listed) : Listed[k] \in Ahead <=> k > n
        /\ \A j, k \in 1 .. Len(Listed) : j < k => ~After(Listed[j], Listed[k])
        /\ \E k \in 1 .. Len(Listed) : mi = Listed[k]
    BY <2>1, AheadIsTheRest
  <2>4. PICK k \in 1 .. Len(Listed) : mi = Listed[k]
    BY <2>3
  <2>5. k > n /\ n + 1 \in 1 .. Len(Listed) /\ Listed[n + 1] \in Ahead
    BY <2>3, <2>4
  <2>6. mi = Listed[n + 1]
    <3> SUFFICES ASSUME mi # Listed[n + 1] PROVE FALSE
      OBVIOUS
    <3>1. After(Listed[n + 1], Listed[k])
      BY <2>2, <2>4, <2>5
    <3>2. n + 1 < k
      BY <2>3, <2>4, <2>5
    <3> QED
      BY <2>3, <2>5, <3>1, <3>2
  <2>7. n < Len(Listed)
    BY <2>3, <2>5
  <2> QED
    BY <1>1, <1>2, <2>1, <2>2, <2>6, <2>7 DEF ListingInv
<1>4. CASE EndMI
  <2>1. /\ packaging' = packaging /\ mos' = mos /\ MOs' = MOs
        /\ moi' = Append(moi, Entry) /\ current # <<>> /\ current' = <<>>
    BY <1>4 DEF EndMI, Entry, treeVars
  <2> DEFINE n == Len(moi)
  <2>2. moi \in Seq(Dumps) /\ Entry \in Dumps /\ Entry.instance = current /\ packaging
    BY <1>4, EntryFacts DEF PackageInv, DumpInv, Visit
  <2>3. /\ n \in Nat /\ Len(moi') = n + 1 /\ moi'[n + 1] = Entry /\ DOMAIN moi' = 1 .. n + 1
        /\ DOMAIN moi = 1 .. n /\ \A j \in 1 .. n : moi'[j] = moi[j]
    BY <2>1, <2>2, AppendProperties, LenProperties
  <2>4. Len(Listed) \in Nat /\ n < Len(Listed) /\ current = Listed[n + 1]
    BY <2>1, <2>2, AheadIsTheRest DEF ListingInv
  <2>5. \A j \in DOMAIN moi' : moi'[j].instance = Listed[j]
    <3>1. \A j \in 1 .. n : moi[j].instance = Listed[j]
      BY <2>2, <2>3 DEF ListingInv
    <3>2. \A j \in 1 .. n + 1 : j \in 1 .. n \/ j = n + 1
      BY <2>3
    <3> HIDE DEF n
    <3> QED
      BY <2>2, <2>3, <2>4, <3>1, <3>2
  <2>6. n + 1 <= Len(Listed)
    BY <2>3, <2>4
  <2> HIDE DEF n
  <2> QED
    BY <1>1, <1>2, <2>1, <2>2, <2>3, <2>5, <2>6 DEF ListingInv
<1>5. CASE StartPackage
  <2>1. MOs' = MOs /\ mos' = p1_MOS_json /\ moi' = <<>> /\ current' = <<>>
    BY <1>5 DEF StartPackage, treeVars, walkVars, PackageInv, WalkInv, Visit
  <2>2. mos' = p1_MOS_json'
    BY <1>1, <2>1
  <2>3. Listed' = ListingOf(p1_MOS_json)
    BY <2>1 DEF Listed, ListingOf
  <2>4. Len(Listed') \in Nat
    BY <2>3, ListingVisits, LenProperties DEF Visits
  <2> QED
    BY <2>1, <2>2, <2>4, EmptySeq DEF ListingInv
<1>6. CASE SendP1
  BY <1>6 DEF SendP1, ListingInv
<1>7. ASSUME NEW urn \in Urns, NEW x \in Files, RegisterFile(urn, x)
      PROVE  ~packaging /\ packaging' = packaging
  BY <1>7 DEF RegisterFile, MayBuild, packageVars
<1>8. ASSUME NEW urn \in Urns, NEW mo \in Mos, NEW miid \in UserMiids \cup {NoMiid},
             AddObject(urn, mo, miid)
      PROVE  ~packaging /\ packaging' = packaging
  BY <1>8 DEF AddObject, MayBuild, packageVars
<1>9. ASSUME MOs' = MOs, mos' = mos, moi' = moi, packaging' = packaging, current' = current
      PROVE  ListingInv'
  BY <1>1, <1>2, <1>9 DEF ListingInv
<1>10. ASSUME ~packaging, packaging' = packaging
      PROVE  ListingInv'
  BY <1>10 DEF ListingInv
<1> QED
  BY <1>3, <1>4, <1>5, <1>6, <1>7, <1>8, <1>9, <1>10
     DEF PackageNext, LocalSetNode, ReadLeaf, p1Vars, packageVars, treeVars, walkVars

(* As long as get_val leaves the tree alone, the k-th entry of the dump is *)
(* of the k-th instance of the MOS list, and the package is sent when the  *)
(* dump has them all (MOTree.cpp:109-137, MOHandler.cpp:68-101).           *)
THEOREM DumpFollowsTheListing ==
  ASSUME Reentrant = FALSE
  PROVE  PackageSpec => []DumpIsTheListing
<1>1. PackageInit => ListingInv
  BY DEF PackageInit, ListingInv
<1>2. PackageInv /\ ListingInv => DumpIsTheListing
  <2> SUFFICES ASSUME PackageInv, ListingInv, packaging
               PROVE  /\ Len(moi) <= Len(Listed)
                      /\ \A k \in DOMAIN moi : moi[k].instance = Listed[k]
                      /\ current = <<>> /\ Ahead = {} => Len(moi) = Len(Listed)
    BY DEF DumpIsTheListing, Dumped
  <2>1. ASSUME Ahead = {}, Len(moi) # Len(Listed)
        PROVE  FALSE
    <3>1. /\ Len(moi) \in Nat /\ Len(Listed) \in Nat /\ Len(moi) <= Len(Listed)
          /\ \A k \in 1 .. Len(Listed) : Listed[k] \in Ahead <=> k > Len(moi)
      BY AheadIsTheRest DEF ListingInv
    <3>2. Len(Listed) \in 1 .. Len(Listed) /\ Len(Listed) > Len(moi)
      BY <2>1, <3>1
    <3> QED
      BY <2>1, <3>1, <3>2
  <2> QED
    BY <2>1 DEF ListingInv
<1>3. PackageInv /\ ListingInv /\ [PackageNext]_p1Vars => ListingInv'
  BY ListingNextInv
<1> QED
  BY <1>1, <1>2, <1>3, PackageInitInv, PackageNextInv, PTL DEF PackageSpec
=============================================================================
