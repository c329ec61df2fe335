---------------------------- MODULE ParsersProofs ----------------------------
(***************************************************************************)
(* Proofs about what the library makes of what it reads: DDF files of any  *)
(* size, over any names and values, and URLs and paths of any length.      *)
(***************************************************************************)
EXTENDS Parsers, NodeTreeProofs

USE NodeAssumption, DDFAssumption

-----------------------------------------------------------------------------
(* Sequences.                                                              *)

(* A part of what is left of a sequence is a part of the sequence.         *)
LEMMA SubSeqOfRest ==
  ASSUME NEW S, NEW s \in Seq(S), NEW i \in Nat \ {0}, NEW m \in Nat \ {0},
         NEW n \in Int, i + n - 1 <= Len(s)
  PROVE  SubSeq(SubSeq(s, i, Len(s)), m, n) = SubSeq(s, i + m - 1, i + n - 1)
<1> DEFINE rest == SubSeq(s, i, Len(s))
           part == SubSeq(rest, m, n)
           same == SubSeq(s, i + m - 1, i + n - 1)
<1>1. Len(s) \in Nat /\ \A k \in 1 .. Len(s) : s[k] \in S
  BY LenProperties, ElementOfSeq
<1>2. CASE n < m
  BY <1>2, SubSeqEmpty
<1>3. CASE m <= n
  <2>1. /\ Len(rest) = Len(s) - i + 1
        /\ \A k \in 1 .. Len(s) - i + 1 : rest[k] = s[i + k - 1]
    <3>1. \A k \in i .. Len(s) : s[k] \in S
      BY <1>1
    <3> QED
      BY <1>1, <1>3, <3>1, SubSeqProperties
  <2> HIDE DEF rest
  <2>2. /\ part \in Seq(S) /\ Len(part) = n - m + 1
        /\ \A k \in 1 .. n - m + 1 : part[k] = rest[m + k - 1]
    <3>1. \A k \in m .. n : rest[k] \in S
      <4> TAKE k \in m .. n
      <4>1. k \in 1 .. Len(s) - i + 1 /\ i + k - 1 \in 1 .. Len(s)
        BY <1>1
      <4> QED
        BY <1>1, <2>1, <4>1
    <3> QED
      BY <1>3, <3>1, SubSeqProperties
  <2>3. /\ same \in Seq(S) /\ Len(same) = n - m + 1
        /\ \A k \in 1 .. n - m + 1 : same[k] = s[i + m - 1 + k - 1]
    <3>1. i + m - 1 \in Int /\ i + n - 1 \in Int /\ i + m - 1 <= i + n - 1
          /\ (i + n - 1) - (i + m - 1) + 1 = n - m + 1
      BY <1>3
    <3>2. \A k \in i + m - 1 .. i + n - 1 : s[k] \in S
      BY <1>1
    <3> QED
      BY <3>1, <3>2, SubSeqProperties
  <2> HIDE DEF part, same
  <2>4. \A k \in 1 .. n - m + 1 : part[k] = same[k]
    <3> TAKE k \in 1 .. n - m + 1
    <3>1. m + k - 1 \in 1 .. Len(s) - i + 1 /\ i + (m + k - 1) - 1 = i + m - 1 + k - 1
      BY <1>1, <1>3
    <3> QED
      BY <2>1, <2>2, <2>3, <3>1
  <2>5. part = same
    BY <2>2, <2>3, <2>4, SeqEqual
  <2> QED
    BY <2>5 DEF part, same, rest
<1> QED
  BY <1>2, <1>3

-----------------------------------------------------------------------------
(* Each parser yields what it makes of the file, whenever it runs, and     *)
(* parse_from_string what it makes of the URL.                             *)
ParserInv ==
  /\ IsDocument(file) /\ urn_name \in Names \cup {NoName, "throws"}
  /\ registered \in {"no", "true", "false", "throws"}
  /\ registered = "true" => HandlerParse(file, urn_name) = "true"
  /\ handler = IF registered = "true" THEN HandlerTree(file, urn_name) ELSE NoTree
  /\ object = NoTree \/ object = CacheTree(file)

StringInv ==
  /\ url \in Seq(Tokens)
  /\ parts \in {Failed, parse_from_string(url)}
  /\ node_path \in Seq(Names \cup {NoName}) /\ node_path # <<>>

ReadInv == ParserInv /\ StringInv

LEMMA ReadInvHolds == ReadSpec => []ReadInv
<1>1. ReadInit => ReadInv
  <2> SUFFICES ASSUME ReadInit PROVE ReadInv
    OBVIOUS
  <2>1. ParserInv
    BY FilesAssumption DEF ReadInit, ParserInit, ParserInv
  <2>2. <<>> \in Seq(Tokens)
    BY EmptySeq
  <2>3. <<NoName>> \in Seq(Names \cup {NoName}) /\ <<NoName>> # <<>>
    OBVIOUS
  <2>4. StringInv
    BY <2>2, <2>3, StringsAssumption DEF ReadInit, StringInv
  <2> QED
    BY <2>1, <2>4 DEF ReadInv
<1>2. ReadInv /\ [ReadNext]_readVars => ReadInv'
  <2> SUFFICES ASSUME ReadInv, [ReadNext]_readVars
               PROVE  ReadInv'
    OBVIOUS
  <2>1. CASE Parse
    BY <2>1 DEF Parse, parserVars, ReadInv, ParserInv, StringInv
  <2>2. CASE Register /\ UNCHANGED stringVars
    <3>1. registered' \in {"true", "false", "throws"}
      BY <2>2 DEF Register, HandlerParse
    <3> QED
      BY <2>2, <3>1 DEF Register, stringVars, ReadInv, ParserInv, StringInv
  <2>3. CASE Construct /\ UNCHANGED stringVars
    BY <2>3 DEF Construct, stringVars, ReadInv, ParserInv, StringInv
  <2>4. CASE UNCHANGED readVars
    BY <2>4 DEF readVars, parserVars, stringVars, ReadInv, ParserInv, StringInv
  <2> QED
    BY <2>1, <2>2, <2>3, <2>4 DEF ReadNext, ParserNext
<1> QED
  BY <1>1, <1>2, PTL DEF ReadSpec

-----------------------------------------------------------------------------
(* The two parsers of DDF files.                                           *)

(* Both parsers yield trees, for documents of any size and depth.          *)
THEOREM ParserTypeCorrect == ReadSpec => []ParserTypeOK
<1>1. ReadInv => ParserTypeOK
  <2> SUFFICES ASSUME ReadInv
               PROVE  ParserTypeOK
    OBVIOUS
  <2>1. handler = NoTree \/ WellFormed(handler)
    BY TreesAgree DEF ReadInv, ParserInv
  <2>2. object = NoTree \/ WellFormed(object)
    BY CacheTreeWellFormed DEF ReadInv, ParserInv
  <2> QED
    BY <2>1, <2>2 DEF ReadInv, ParserInv, ParserTypeOK
<1> QED
  BY <1>1, ReadInvHolds, PTL

(* The two copies of the parser find the same leaves under the same names. *)
THEOREM LeavesAgree == ReadSpec => []SameLeaves
<1>1. ReadInv => SameLeaves
  <2> SUFFICES ASSUME ReadInv, BothRead
               PROVE  LeafPaths(handler) = LeafPaths(object)
    BY DEF SameLeaves
  <2>1. /\ IsDocument(file) /\ urn_name \in Names \cup {NoName, "throws"}
        /\ HandlerParse(file, urn_name) = "true"
        /\ handler = HandlerTree(file, urn_name) /\ object = CacheTree(file)
    BY DEF ReadInv, ParserInv, BothRead
  <2> QED
    BY <2>1, SameLeafPaths
<1> QED
  BY <1>1, ReadInvHolds, PTL

(* Unless siblings share a name, the walk along the names the library has  *)
(* for a leaf ends at that leaf of the object, and finds its default.      *)
THEOREM AskedForAreThere == ReadSpec => []AskedForIsThere
<1>1. ReadInv => AskedForIsThere
  <2> SUFFICES ASSUME ReadInv, BothRead, NoDoublets(handler), NEW p \in LeavesOf(handler)
               PROVE  /\ IsNode(object, NamesTo(handler, p))
                      /\ Value(object, NamesTo(handler, p)) = file[p].value
    BY DEF AskedForIsThere
  <2>1. /\ IsDocument(file) /\ urn_name \in Names \cup {NoName, "throws"}
        /\ HandlerParse(file, urn_name) = "true"
        /\ handler = HandlerTree(file, urn_name) /\ object = CacheTree(file)
    BY DEF ReadInv, ParserInv, BothRead
  <2>2. /\ WellFormed(object) /\ DOMAIN handler = DOMAIN object
        /\ \A q \in DOMAIN object : handler[q].size = object[q].size
    BY <2>1, TreesAgree
  <2>3. \A q \in DOMAIN object : q # <<>> => handler[q].uri = object[q].uri
    BY <2>1, TreesAgree
  <2>4. p \in DOMAIN object /\ p # <<>> /\ object[p].data = file[p].value
    BY <2>1, TreesAgree DEF LeavesOf
  <2>5. NamesTo(handler, p) = NamesTo(object, p)
    BY <2>1, <2>4, NamesAgree
  <2>6. NoDoublets(object)
    <3> SUFFICES ASSUME NEW q \in DOMAIN object, NEW i \in Positions(object, q),
                        NEW j \in Positions(object, q),
                        object[Append(q, i)].uri = object[Append(q, j)].uri
                 PROVE  i = j
      BY DEF NoDoublets
    <3>1. /\ Append(q, i) \in DOMAIN object /\ Append(q, j) \in DOMAIN object
          /\ q \in Address /\ i \in Nat \ {0} /\ j \in Nat \ {0}
      BY <2>2, TreeFacts DEF WellFormed, Positions
    <3>2. Append(q, i) # <<>> /\ Append(q, j) # <<>>
      <4>1. q \in Seq(Nat \ {0}) /\ Len(q) \in Nat
        BY <3>1, LenProperties DEF Address
      <4>2. Len(Append(q, i)) = Len(q) + 1 /\ Len(Append(q, j)) = Len(q) + 1
        BY <3>1, <4>1, AppendProperties
      <4> QED
        BY <4>1, <4>2, EmptySeq
    <3>3. handler[Append(q, i)].uri = handler[Append(q, j)].uri
      BY <2>3, <3>1, <3>2
    <3>4. i \in Positions(handler, q) /\ j \in Positions(handler, q)
      BY <2>2 DEF Positions
    <3> QED
      BY <2>2, <3>3, <3>4 DEF NoDoublets
  <2>7. Reaches(object, p, NamesTo(object, p))
    BY <2>2, <2>4, <2>6, NamesReach
  <2>8. NamesTo(object, p) \in Seq(Segment)
    BY <2>2, <2>4, NamesToFacts
  <2> QED
    BY <2>2, <2>4, <2>5, <2>7, <2>8, ValueReached DEF WellFormed
<1> QED
  BY <1>1, ReadInvHolds, PTL

-----------------------------------------------------------------------------
(* Paths.                                                                  *)

(* vectorize_path drops a segment without a name at either end, no other.  *)
LEMMA VectorizeCuts ==
  ASSUME NEW S, NEW path \in Seq(S), path # <<>>
  PROVE  \E first \in 1 .. 2, last \in Len(path) - 1 .. Len(path) :
           /\ vectorize_path(path) = SubSeq(path, first, last)
           /\ \A i \in DOMAIN path : path[i] # NoName => i \in first .. last
<1> DEFINE n == Len(path)
           first == IF path[1] = NoName /\ n > 1 THEN 2 ELSE 1
           last == IF path[n] = NoName THEN n - 1 ELSE n
           rest == SubSeq(path, first, n)
<1>1. n \in Nat /\ n > 0 /\ DOMAIN path = 1 .. n
  BY EmptySeq, LenProperties
<1>2. first \in 1 .. 2 /\ last \in n - 1 .. n /\ first <= n
  BY <1>1
<1>3. \A i \in DOMAIN path : path[i] # NoName => i \in first .. last
  BY <1>1
<1>4. rest = IF path[1] = NoName /\ Len(path) > 1 THEN Tail(path) ELSE path
  BY <1>1, TailIsSubSeq, SubSeqFull
<1> HIDE DEF first, last
<1>5. /\ rest \in Seq(S) /\ Len(rest) = n - first + 1
      /\ \A i \in 1 .. n - first + 1 : rest[i] = path[first + i - 1]
  <2>1. \A i \in first .. n : path[i] \in S
    BY <1>1, <1>2, ElementOfSeq
  <2> QED
    BY <1>1, <1>2, <2>1, SubSeqProperties
<1>6. Len(rest) \in 1 .. n /\ rest[Len(rest)] = path[n]
  BY <1>1, <1>2, <1>5
<1>7. SubSeq(rest, 1, Len(rest) - 1) = SubSeq(path, first, n - 1)
  <2>1. first + 1 - 1 = first /\ first + (Len(rest) - 1) - 1 = n - 1
    BY <1>1, <1>2, <1>5
  <2>2. SubSeq(SubSeq(path, first, n), 1, Len(rest) - 1)
          = SubSeq(path, first + 1 - 1, first + (Len(rest) - 1) - 1)
    BY <1>1, <1>2, <1>5, SubSeqOfRest
  <2> QED
    BY <2>1, <2>2
<1>8. vectorize_path(path) = SubSeq(path, first, last)
  BY <1>4, <1>6, <1>7 DEF vectorize_path, last
<1> QED
  BY <1>2, <1>3, <1>8

(* A leading '/' is no segment.                                            *)
LEMMA VectorizeSkipsSlash ==
  ASSUME NEW S, NoName \in S, NEW path \in Seq(S), path # <<>>, path[1] # NoName
  PROVE  vectorize_path(<<NoName>> \o path) = vectorize_path(path)
<1> DEFINE longer == <<NoName>> \o path
<1>1. Len(path) \in Nat /\ Len(path) > 0
  BY EmptySeq, LenProperties
<1>2. <<NoName>> \in Seq(S) /\ Len(<<NoName>>) = 1
  OBVIOUS
<1>3. /\ longer \in Seq(S) /\ Len(longer) = Len(path) + 1
      /\ \A i \in 1 .. Len(path) + 1 :
           longer[i] = IF i <= 1 THEN <<NoName>>[i] ELSE path[i - 1]
  BY <1>1, <1>2, ConcatProperties
<1>4. longer[1] = NoName /\ longer # <<>>
  BY <1>1, <1>3, EmptySeq
<1>5. Tail(longer) = path
  <2>1. /\ Tail(longer) \in Seq(S) /\ Len(Tail(longer)) = Len(path)
        /\ \A i \in 1 .. Len(path) : Tail(longer)[i] = longer[i + 1]
    BY <1>1, <1>3, <1>4, HeadTailProperties
  <2>2. \A i \in 1 .. Len(path) : longer[i + 1] = path[i]
    <3> TAKE i \in 1 .. Len(path)
    <3>1. i + 1 \in 1 .. Len(path) + 1 /\ ~(i + 1 <= 1) /\ (i + 1) - 1 = i
      BY <1>1
    <3> QED
      BY <1>3, <3>1
  <2> QED
    BY <2>1, <2>2, SeqEqual
<1> HIDE DEF longer
<1>6. vectorize_path(longer)
        = IF path[Len(path)] = NoName THEN SubSeq(path, 1, Len(path) - 1) ELSE path
  <2>1. longer[1] = NoName /\ Len(longer) > 1
    BY <1>1, <1>3, <1>4
  <2> QED
    BY <1>5, <2>1 DEF vectorize_path
<1>7. vectorize_path(path)
        = IF path[Len(path)] = NoName THEN SubSeq(path, 1, Len(path) - 1) ELSE path
  BY DEF vectorize_path
<1> QED
  BY <1>6, <1>7 DEF longer

(* The two ways the code writes a node's path agree, for every path.       *)
THEOREM SlashNeverMatters == ReadSpec => []SlashMakesNoDifference
<1>1. ReadInv => SlashMakesNoDifference
  <2> SUFFICES ASSUME ReadInv PROVE SlashMakesNoDifference
    OBVIOUS
  <2> DEFINE S == Names \cup {NoName}
  <2>1. node_path \in Seq(S) /\ node_path # <<>> /\ NoName \in S
    BY DEF ReadInv, StringInv
  <2> HIDE DEF S
  <2> QED
    BY <2>1, VectorizeCuts, VectorizeSkipsSlash DEF SlashMakesNoDifference
<1> QED
  BY <1>1, ReadInvHolds, PTL

-----------------------------------------------------------------------------
(* URLs.                                                                   *)

(* find() of one token.                                                    *)
LEMMA FindToken ==
  ASSUME NEW s \in Seq(Tokens), NEW t
  PROVE  /\ Find(s, <<t>>) \in 0 .. Len(s)
         /\ Find(s, <<t>>) # 0 => s[Find(s, <<t>>)] = t
         /\ \A i \in 1 .. Len(s) : Find(s, <<t>>) = 0 \/ i < Find(s, <<t>>) => s[i] # t
<1> DEFINE at == {i \in 1 .. Len(s) : s[i] = t}
<1>1. Len(s) \in Nat /\ at \subseteq Nat
  BY LenProperties
<1>2. Find(s, <<t>>) = IF at = {} THEN 0 ELSE First(at)
  <2> DEFINE found == {i \in 1 .. Len(s) - Len(<<t>>) + 1 :
                         SubSeq(s, i, i + Len(<<t>>) - 1) = <<t>>}
  <2>1. Len(<<t>>) = 1
    OBVIOUS
  <2>2. ASSUME NEW i \in 1 .. Len(s)
        PROVE  SubSeq(s, i, i + Len(<<t>>) - 1) = <<s[i]>>
    <3>1. SubSeq(s, i, i) = <<s[i]>>
      <4>1. \A k \in i .. i : s[k] \in Tokens
        BY <1>1, <2>2, ElementOfSeq
      <4>2. /\ SubSeq(s, i, i) \in Seq(Tokens) /\ Len(SubSeq(s, i, i)) = 1
            /\ \A k \in 1 .. 1 : SubSeq(s, i, i)[k] = s[i + k - 1]
        BY <1>1, <2>2, <4>1, SubSeqProperties
      <4>3. SubSeq(s, i, i)[1] = s[i]
        BY <1>1, <2>2, <4>2
      <4>4. /\ <<s[i]>> \in Seq(Tokens) /\ Len(<<s[i]>>) = 1
            /\ \A k \in 1 .. 1 : SubSeq(s, i, i)[k] = <<s[i]>>[k]
        BY <1>1, <2>2, <4>3, ElementOfSeq
      <4> QED
        BY <4>2, <4>4, SeqEqual
    <3> QED
      BY <1>1, <2>1, <3>1
  <2>3. found = at
    <3>1. 1 .. Len(s) - Len(<<t>>) + 1 = 1 .. Len(s)
      BY <1>1, <2>1
    <3>2. \A i \in 1 .. Len(s) : <<s[i]>> = <<t>> <=> s[i] = t
      OBVIOUS
    <3> QED
      BY <2>2, <3>1, <3>2
  <2>4. Find(s, <<t>>) = IF found = {} THEN 0 ELSE First(found)
    BY Zenon DEF Find, First
  <2> HIDE DEF found, at
  <2> QED
    BY <2>3, <2>4
<1>3. CASE at = {}
  BY <1>1, <1>2, <1>3
<1>4. CASE at # {}
  <2> DEFINE f == First(at)
  <2>1. f \in at /\ \A j \in at : f <= j
    BY <1>1, <1>4, FirstIsSmallest
  <2>2. Find(s, <<t>>) = f
    BY <1>2, <1>4
  <2> HIDE DEF f
  <2> QED
    BY <1>1, <2>1, <2>2
<1> QED
  BY <1>3, <1>4

(* The scheme of s ends at i.                                              *)
Scheme(s, i) == s[i] = ":" /\ s[i + 1] = "/" /\ s[i + 2] = "/"

LEMMA FindScheme ==
  ASSUME NEW s \in Seq(Tokens)
  PROVE  LET d == Find(s, <<":", "/", "/">>)
         IN  /\ d \in 0 .. Len(s)
             /\ d # 0 => d <= Len(s) - 2 /\ Scheme(s, d)
             /\ \A i \in 1 .. Len(s) - 2 : d = 0 \/ i < d => ~Scheme(s, i)
<1> DEFINE mark == <<":", "/", "/">>
           at == {i \in 1 .. Len(s) - 2 : Scheme(s, i)}
           d == Find(s, mark)
<1>1. Len(s) \in Nat /\ at \subseteq Nat
  BY LenProperties
<1>2. d = IF at = {} THEN 0 ELSE First(at)
  <2> DEFINE found == {i \in 1 .. Len(s) - Len(mark) + 1 :
                         SubSeq(s, i, i + Len(mark) - 1) = mark}
  <2>1. Len(mark) = 3 /\ mark \in Seq(Tokens)
    BY DEF Tokens
  <2>2. ASSUME NEW i \in 1 .. Len(s) - 2
        PROVE  SubSeq(s, i, i + 2) = mark <=> Scheme(s, i)
    <3> DEFINE sub == SubSeq(s, i, i + 2)
    <3>1. /\ sub \in Seq(Tokens) /\ Len(sub) = 3
          /\ \A k \in 1 .. 3 : sub[k] = s[i + k - 1]
      <4>1. \A k \in i .. i + 2 : s[k] \in Tokens
        BY <1>1, <2>2, ElementOfSeq
      <4> QED
        BY <1>1, <2>2, <4>1, SubSeqProperties
    <3> HIDE DEF sub
    <3>2. sub[1] = s[i] /\ sub[2] = s[i + 1] /\ sub[3] = s[i + 2]
      BY <1>1, <2>2, <3>1
    <3>3. mark[1] = ":" /\ mark[2] = "/" /\ mark[3] = "/"
      OBVIOUS
    <3>4. ASSUME Scheme(s, i) PROVE sub = mark
      <4>1. \A k \in 1 .. 3 : k = 1 \/ k = 2 \/ k = 3
        OBVIOUS
      <4>2. \A k \in 1 .. 3 : sub[k] = mark[k]
        BY <3>2, <3>3, <3>4, <4>1 DEF Scheme
      <4> HIDE DEF mark
      <4> QED
        BY <2>1, <3>1, <4>2, SeqEqual
    <3>5. ASSUME sub = mark PROVE Scheme(s, i)
      BY <3>2, <3>3, <3>5 DEF Scheme
    <3> QED
      BY <3>4, <3>5 DEF sub
  <2>3. found = at
    <3>1. 1 .. Len(s) - Len(mark) + 1 = 1 .. Len(s) - 2
      BY <1>1, <2>1
    <3>2. \A i \in 1 .. Len(s) - 2 : i + Len(mark) - 1 = i + 2
      BY <1>1, <2>1
    <3> HIDE DEF mark
    <3> QED
      BY <2>2, <3>1, <3>2
  <2>4. d = IF found = {} THEN 0 ELSE First(found)
    BY Zenon DEF Find, First
  <2> HIDE DEF found, at, d
  <2> QED
    BY <2>3, <2>4
<1> HIDE DEF mark
<1>3. CASE at = {}
  BY <1>1, <1>2, <1>3 DEF mark
<1>4. CASE at # {}
  <2> DEFINE f == First(at)
  <2>1. f \in at /\ \A j \in at : f <= j
    BY <1>1, <1>4, FirstIsSmallest
  <2>2. d = f
    BY <1>2, <1>4
  <2> HIDE DEF f, d
  <2>3. d \in 1 .. Len(s) - 2 /\ Scheme(s, d) /\ \A i \in 1 .. Len(s) - 2 : i < d => ~Scheme(s, i)
    BY <1>1, <2>1, <2>2
  <2> QED
    BY <1>1, <2>3 DEF d, mark
<1> QED
  BY <1>3, <1>4

(* What follows the scheme: the server ends at i, the path begins at j.    *)
Cut(s, i, j) ==
  /\ i \in 1 .. Len(s) + 1 /\ j \in i .. Len(s) + 1
  /\ \A k \in 1 .. i - 1 : s[k] # ":"
  /\ \A k \in 1 .. j - 1 : s[k] # "/"
  /\ Authority(s).server = SubSeq(s, 1, i - 1)
  /\ i = j => Authority(s).port = "8080"
  /\ i # j => /\ s[i] = ":"
              /\ Authority(s).port = IF i + 1 < j /\ s[i + 1] \in Numbers
                                       THEN s[i + 1] ELSE "throws"
  /\ j = Len(s) + 1 => Authority(s).path = <<"/">>
  /\ j # Len(s) + 1 => /\ s[j] = "/"
                       /\ Authority(s).path = SubSeq(s, j, Len(s))

LEMMA AuthorityCut ==
  ASSUME NEW s \in Seq(Tokens)
  PROVE  \E i, j \in 1 .. Len(s) + 1 : Cut(s, i, j)
<1> DEFINE slash == Find(s, <<"/">>)
           j == IF slash = 0 THEN Len(s) + 1 ELSE slash
           auth == IF slash = 0 THEN s ELSE Before(s, slash)
           colon == Find(auth, <<":">>)
           i == IF colon = 0 THEN j ELSE colon
           number == SubSeq(auth, colon + 1, Len(auth))
<1>1. Len(s) \in Nat /\ \A k \in 1 .. Len(s) : s[k] \in Tokens
  BY LenProperties, ElementOfSeq
<1>2. /\ slash \in 0 .. Len(s)
      /\ slash # 0 => s[slash] = "/"
      /\ \A k \in 1 .. Len(s) : slash = 0 \/ k < slash => s[k] # "/"
  BY FindToken
<1>3. /\ Authority(s).server = IF colon = 0 THEN auth ELSE Before(auth, colon)
      /\ Authority(s).port = IF colon = 0 THEN "8080" ELSE Stoi(number)
      /\ Authority(s).path = IF slash = 0 THEN <<"/">> ELSE SubSeq(s, slash, Len(s))
  BY DEF Authority
<1> HIDE DEF slash
<1>4. /\ j \in 1 .. Len(s) + 1
      /\ j # Len(s) + 1 <=> slash # 0
      /\ slash # 0 => j = slash
      /\ \A k \in 1 .. j - 1 : k \in 1 .. Len(s) /\ s[k] # "/"
  BY <1>1, <1>2
<1> HIDE DEF j
<1>5. auth = SubSeq(s, 1, j - 1)
  <2>1. CASE slash = 0
    <3>1. j - 1 = Len(s)
      BY <1>1, <1>4, <2>1
    <3> QED
      BY <2>1, <3>1, SubSeqFull
  <2>2. CASE slash # 0
    BY <1>4, <2>2 DEF Before
  <2> QED
    BY <2>1, <2>2
<1> HIDE DEF auth
<1>6. /\ auth \in Seq(Tokens) /\ Len(auth) = j - 1
      /\ \A k \in 1 .. j - 1 : auth[k] = s[k]
  <2>1. \A k \in 1 .. j - 1 : s[k] \in Tokens
    BY <1>1, <1>4
  <2>2. /\ SubSeq(s, 1, j - 1) \in Seq(Tokens)
        /\ Len(SubSeq(s, 1, j - 1)) = IF 1 <= j - 1 THEN j - 1 - 1 + 1 ELSE 0
        /\ \A k \in 1 .. j - 1 - 1 + 1 : SubSeq(s, 1, j - 1)[k] = s[1 + k - 1]
    BY <1>1, <1>4, <2>1, SubSeqProperties
  <2>3. \A k \in 1 .. j - 1 : k \in 1 .. j - 1 - 1 + 1 /\ 1 + k - 1 = k
    BY <1>1, <1>4
  <2> QED
    BY <1>1, <1>4, <1>5, <2>2, <2>3
<1>7. /\ colon \in 0 .. j - 1
      /\ colon # 0 => s[colon] = ":"
      /\ \A k \in 1 .. j - 1 : colon = 0 \/ k < colon => s[k] # ":"
  BY <1>4, <1>6, FindToken
<1>8. colon # 0 => Before(auth, colon) = SubSeq(s, 1, colon - 1)
  <2> SUFFICES ASSUME colon # 0 PROVE Before(auth, colon) = SubSeq(s, 1, colon - 1)
    OBVIOUS
  <2> HIDE DEF colon
  <2>1. Prefix(Prefix(s, j - 1), colon - 1) = Prefix(s, colon - 1)
    BY <1>1, <1>4, <1>7, PrefixOfPrefix
  <2> QED
    BY <1>5, <2>1 DEF Before, Prefix
<1>9. colon # 0 =>
        Stoi(number) = IF colon + 1 < j /\ s[colon + 1] \in Numbers
                         THEN s[colon + 1] ELSE "throws"
  <2> SUFFICES ASSUME colon # 0
               PROVE  Stoi(number) = IF colon + 1 < j /\ s[colon + 1] \in Numbers
                                       THEN s[colon + 1] ELSE "throws"
    OBVIOUS
  <2> HIDE DEF colon
  <2>1. CASE colon + 1 < j
    <3>1. \A k \in colon + 1 .. j - 1 : auth[k] \in Tokens
      BY <1>1, <1>4, <1>6, <1>7
    <3>2. Len(number) = j - 1 - (colon + 1) + 1 /\ number[1] = auth[colon + 1 + 1 - 1]
      BY <1>1, <1>4, <1>6, <1>7, <2>1, <3>1, SubSeqProperties
    <3>3. number # <<>> /\ number[1] = s[colon + 1]
      BY <1>1, <1>4, <1>6, <1>7, <2>1, <3>2, EmptySeq
    <3> HIDE DEF number
    <3> QED
      BY <2>1, <3>3 DEF Stoi
  <2>2. CASE ~(colon + 1 < j)
    <3>1. number = <<>>
      BY <1>1, <1>4, <1>6, <1>7, <2>2, SubSeqEmpty
    <3> HIDE DEF number
    <3> QED
      BY <2>2, <3>1 DEF Stoi
  <2> QED
    BY <2>1, <2>2
<1> HIDE DEF colon, number
<1>10. /\ i \in 1 .. Len(s) + 1 /\ j \in i .. Len(s) + 1
       /\ colon = 0 <=> i = j
       /\ colon # 0 => i = colon
       /\ \A k \in 1 .. i - 1 : s[k] # ":"
  BY <1>1, <1>4, <1>7
<1> HIDE DEF i
<1>11. Authority(s).server = SubSeq(s, 1, i - 1)
  BY <1>3, <1>5, <1>8, <1>10
<1>12. Cut(s, i, j)
  BY <1>2, <1>3, <1>4, <1>7, <1>9, <1>10, <1>11 DEF Cut
<1> QED
  BY <1>4, <1>10, <1>12

(* What is left of s from i on, by position.                               *)
LEMMA RestFacts ==
  ASSUME NEW S, NEW s \in Seq(S), NEW i \in Nat \ {0}, i <= Len(s) + 1
  PROVE  /\ SubSeq(s, i, Len(s)) \in Seq(S)
         /\ Len(SubSeq(s, i, Len(s))) = Len(s) - i + 1
         /\ \A k \in 1 .. Len(s) - i + 1 : SubSeq(s, i, Len(s))[k] = s[i + k - 1]
<1>1. Len(s) \in Nat /\ \A k \in 1 .. Len(s) : s[k] \in S
  BY LenProperties, ElementOfSeq
<1>2. \A k \in i .. Len(s) : s[k] \in S
  BY <1>1
<1> QED
  BY <1>1, <1>2, SubSeqProperties

LEMMA BehindScheme ==
  ASSUME NEW s \in Seq(Tokens), Len(s) >= 4
  PROVE  /\ SubSeq(s, 5, Len(s)) \in Seq(Tokens)
         /\ Len(SubSeq(s, 5, Len(s))) = Len(s) - 4
         /\ \A k \in 1 .. Len(s) - 4 : SubSeq(s, 5, Len(s))[k] = s[k + 4]
<1>1. Len(s) \in Nat /\ 5 \in Nat \ {0} /\ 5 <= Len(s) + 1
  BY LenProperties
<1>2. /\ SubSeq(s, 5, Len(s)) \in Seq(Tokens)
      /\ Len(SubSeq(s, 5, Len(s))) = Len(s) - 5 + 1
      /\ \A k \in 1 .. Len(s) - 5 + 1 : SubSeq(s, 5, Len(s))[k] = s[5 + k - 1]
  BY <1>1, RestFacts
<1> QED
  BY <1>1, <1>2

(* An URL that parses starts with a scheme of one token.                   *)
LEMMA ProtocolFirst ==
  ASSUME NEW s \in Seq(Tokens), parse_from_string(s).result = "parses"
  PROVE  /\ Len(s) >= 4 /\ Scheme(s, 2)
         /\ parse_from_string(s) =
              [result |-> "parses", protocol |-> s[1],
               server |-> Authority(SubSeq(s, 5, Len(s))).server,
               port   |-> Authority(SubSeq(s, 5, Len(s))).port,
               path   |-> Authority(SubSeq(s, 5, Len(s))).path]
         /\ Authority(SubSeq(s, 5, Len(s))).port # "throws"
<1> DEFINE d == Find(s, <<":", "/", "/">>)
           rest == Authority(SubSeq(s, d + 3, Len(s)))
<1>1. /\ Len(s) \in Nat /\ d \in 0 .. Len(s)
      /\ d # 0 => d <= Len(s) - 2 /\ Scheme(s, d)
  BY FindScheme, LenProperties
<1>2. parse_from_string(s) =
        CASE d = 0 \/ Before(s, d) \notin Protocols -> Failed
          [] rest.port = "throws"                   -> Threw
          [] OTHER -> [result |-> "parses", protocol |-> Before(s, d)[1],
                       server |-> rest.server, port |-> rest.port,
                       path   |-> rest.path]
  BY DEF parse_from_string
<1> HIDE DEF d, rest
<1>3. Failed.result = "fails" /\ Threw.result = "throws"
  BY DEF Failed, Threw
<1>4. d # 0 /\ Before(s, d) \in Protocols /\ rest.port # "throws"
  BY <1>2, <1>3
<1>5. parse_from_string(s) = [result |-> "parses", protocol |-> Before(s, d)[1],
                              server |-> rest.server, port |-> rest.port,
                              path   |-> rest.path]
  BY <1>2, <1>4
<1>6. \A k \in 1 .. d - 1 : s[k] \in Tokens
  BY <1>1, ElementOfSeq
<1>7. /\ Len(Before(s, d)) = IF 1 <= d - 1 THEN d - 1 - 1 + 1 ELSE 0
      /\ \A k \in 1 .. d - 1 - 1 + 1 : Before(s, d)[k] = s[1 + k - 1]
  BY <1>1, <1>4, <1>6, SubSeqProperties DEF Before
<1>8. Len(Before(s, d)) = 1
  BY <1>4 DEF Protocols
<1>9. d = 2
  <2>1. d \in Int
    BY <1>1
  <2>2. 1 = IF 1 <= d - 1 THEN d - 1 - 1 + 1 ELSE 0
    BY <1>7, <1>8
  <2> QED
    BY <2>1, <2>2
<1>10. Before(s, d)[1] = s[1]
  BY <1>7, <1>9
<1> QED
  BY <1>1, <1>4, <1>5, <1>9, <1>10 DEF rest

(* Whatever the string, parse_from_string cuts it where the parts begin    *)
(* and loses only what stoi ignores (Helper.cpp:35-77).                    *)
THEOREM PartsAreCutOut == ReadSpec => []OnlyPortTailIsLost
<1>1. ReadInv => OnlyPortTailIsLost
  <2> DEFINE rest == SubSeq(url, 5, Len(url))
  <2> SUFFICES ASSUME ReadInv, parts.result = "parses"
               PROVE  /\ SubSeq(url, 1, 4) = <<parts.protocol, ":", "/", "/">>
                      /\ Free(parts.server, ":") /\ Free(parts.server, "/")
                      /\ \E i, j \in 5 .. Len(url) + 1 : CutAt(i, j)
    BY DEF OnlyPortTailIsLost
  <2>0. url \in Seq(Tokens)
    BY DEF ReadInv, StringInv
  <2>1. url \in Seq(Tokens) /\ parts = parse_from_string(url)
    BY DEF ReadInv, StringInv, Failed
  <2>2. /\ Len(url) \in Nat /\ Len(url) >= 4 /\ Scheme(url, 2)
        /\ parts.protocol = url[1]
        /\ parts.server = Authority(rest).server
        /\ parts.port = Authority(rest).port /\ parts.port # "throws"
        /\ parts.path = Authority(rest).path
    BY <2>1, ProtocolFirst, LenProperties
  <2>3. SubSeq(url, 1, 4) = <<parts.protocol, ":", "/", "/">>
    <3> DEFINE sub == SubSeq(url, 1, 4)
               mark == <<parts.protocol, ":", "/", "/">>
    <3>1. \A k \in 1 .. 4 : url[k] \in Tokens
      BY <2>1, <2>2, ElementOfSeq
    <3>2. /\ sub \in Seq(Tokens) /\ Len(sub) = 4
          /\ \A k \in 1 .. 4 : sub[k] = url[k]
      BY <3>1, SubSeqProperties
    <3>3. url[2] = ":" /\ url[3] = "/" /\ url[4] = "/"
      BY <2>2 DEF Scheme
    <3>4. mark \in Seq(Tokens) /\ Len(mark) = 4
      BY <2>2, <3>1 DEF Tokens
    <3>5. mark[1] = url[1] /\ mark[2] = ":" /\ mark[3] = "/" /\ mark[4] = "/"
      BY <2>2
    <3> HIDE DEF sub, mark
    <3>6. \A k \in 1 .. 4 : k = 1 \/ k = 2 \/ k = 3 \/ k = 4
      OBVIOUS
    <3>7. \A k \in 1 .. 4 : sub[k] = mark[k]
      BY <3>2, <3>3, <3>5, <3>6
    <3>8. sub = mark
      BY <3>2, <3>4, <3>7, SeqEqual
    <3> QED
      BY <3>8 DEF sub, mark
  <2>4. /\ rest \in Seq(Tokens) /\ Len(rest) = Len(url) - 4
        /\ \A k \in 1 .. Len(url) - 4 : rest[k] = url[k + 4]
    BY <2>0, <2>2, BehindScheme
  <2>5. PICK i, j \in 1 .. Len(rest) + 1 : Cut(rest, i, j)
    BY <2>4, AuthorityCut
  <2>6. /\ i \in Nat \ {0} /\ j \in Nat \ {0} /\ i <= j /\ j <= Len(url) - 3
        /\ parts.server = SubSeq(rest, 1, i - 1)
        /\ \A k \in 1 .. i - 1 : rest[k] # ":" /\ rest[k] # "/"
    BY <2>2, <2>4, <2>5 DEF Cut
  <2>7. /\ Len(parts.server) = i - 1
        /\ \A k \in 1 .. i - 1 : parts.server[k] = rest[k]
    <3>1. \A k \in 1 .. i - 1 : rest[k] \in Tokens
      BY <2>2, <2>4, <2>6, ElementOfSeq
    <3>2. i - 1 \in Int /\ i - 1 - 1 + 1 = i - 1 /\ \A k \in 1 .. i - 1 : 1 + k - 1 = k
      BY <2>6
    <3>3. /\ Len(SubSeq(rest, 1, i - 1)) = IF 1 <= i - 1 THEN i - 1 - 1 + 1 ELSE 0
          /\ \A k \in 1 .. i - 1 - 1 + 1 : SubSeq(rest, 1, i - 1)[k] = rest[1 + k - 1]
      BY <3>1, <3>2, SubSeqProperties
    <3> HIDE DEF rest
    <3> QED
      BY <2>6, <3>2, <3>3
  <2>8. Free(parts.server, ":") /\ Free(parts.server, "/")
    <3>1. DOMAIN parts.server = 1 .. i - 1
      BY <2>6, <2>7
    <3> QED
      BY <2>6, <2>7, <3>1 DEF Free
  <2>9. CutAt(i + 4, j + 4)
    <3>1. parts.server = SubSeq(url, 5, (i + 4) - 1)
      <4>1. /\ i - 1 \in Int /\ 5 + (i - 1) - 1 <= Len(url)
            /\ 5 + 1 - 1 = 5 /\ 5 + (i - 1) - 1 = (i + 4) - 1
        BY <2>2, <2>6
      <4>2. SubSeq(rest, 1, i - 1) = SubSeq(url, 5 + 1 - 1, 5 + (i - 1) - 1)
        BY <2>1, <4>1, SubSeqOfRest
      <4> QED
        BY <2>6, <4>1, <4>2
    <3>2. IF i + 4 = j + 4 THEN parts.port = "8080"
          ELSE /\ i + 4 + 1 < j + 4 /\ url[i + 4] = ":" /\ url[i + 4 + 1] = parts.port
               /\ \A k \in i + 4 + 2 .. j + 4 - 1 : url[k] # "/"
      <4>1. CASE i = j
        BY <2>2, <2>5, <4>1 DEF Cut
      <4>2. CASE i # j
        <5>1. rest[i] = ":" /\ i + 1 < j /\ parts.port = rest[i + 1]
          BY <2>2, <2>5, <4>2 DEF Cut
        <5>2. Len(url) \in Nat /\ i \in Nat \ {0} /\ j \in Nat /\ j <= Len(url) - 3 /\ i + 1 < j
          BY <2>2, <2>6, <5>1
        <5>3. /\ i \in 1 .. Len(url) - 4 /\ i + 1 \in 1 .. Len(url) - 4
              /\ (i + 1) + 4 = i + 4 + 1 /\ i + 4 # j + 4 /\ i + 4 + 1 < j + 4
          BY <5>2
        <5>4. ASSUME NEW k \in i + 4 + 2 .. j + 4 - 1
              PROVE  url[k] # "/"
          <6>1. /\ k - 4 \in 1 .. j - 1 /\ k - 4 \in 1 .. Len(url) - 4
                /\ (k - 4) + 4 = k
            BY <5>2
          <6>2. rest[k - 4] # "/"
            BY <2>5, <6>1 DEF Cut
          <6>3. rest[k - 4] = url[(k - 4) + 4]
            BY <2>4, <6>1
          <6> QED
            BY <6>1, <6>2, <6>3
        <5> QED
          BY <2>4, <5>1, <5>3, <5>4
      <4> QED
        BY <4>1, <4>2
    <3>3. IF j + 4 = Len(url) + 1 THEN parts.path = <<"/">>
          ELSE url[j + 4] = "/" /\ parts.path = SubSeq(url, j + 4, Len(url))
      <4>1. CASE j = Len(rest) + 1
        <5>1. parts.path = <<"/">>
          BY <2>2, <2>5, <4>1 DEF Cut
        <5>2. j + 4 = Len(url) + 1
          BY <2>2, <2>4, <4>1
        <5> QED
          BY <5>1, <5>2
      <4>2. CASE j # Len(rest) + 1
        <5>1. rest[j] = "/" /\ parts.path = SubSeq(rest, j, Len(rest))
          BY <2>2, <2>5, <4>2 DEF Cut
        <5>2. /\ j \in 1 .. Len(url) - 4 /\ j + 4 # Len(url) + 1
              /\ 5 + j - 1 = j + 4 /\ 5 + Len(rest) - 1 = Len(url)
              /\ Len(rest) \in Int /\ 5 + Len(rest) - 1 <= Len(url)
          BY <2>2, <2>4, <2>6, <4>2
        <5>3. SubSeq(rest, j, Len(rest)) = SubSeq(url, 5 + j - 1, 5 + Len(rest) - 1)
          BY <2>1, <2>6, <5>2, SubSeqOfRest
        <5> QED
          BY <2>4, <5>1, <5>2, <5>3
      <4> QED
        BY <4>1, <4>2
    <3> QED
      BY <2>6, <3>1, <3>2, <3>3 DEF CutAt
  <2>10. i + 4 \in 5 .. Len(url) + 1 /\ j + 4 \in 5 .. Len(url) + 1
    BY <2>2, <2>6
  <2> QED
    BY <2>3, <2>8, <2>9, <2>10
<1> QED
  BY <1>1, ReadInvHolds, PTL

(* There is one way to cut a server, alone or with a port, and a path or   *)
(* none.                                                                   *)
LEMMA OneCut ==
  ASSUME NEW s \in Seq(Tokens), NEW i \in 1 .. Len(s) + 1, NEW j \in 1 .. Len(s) + 1,
         \A k \in 1 .. i - 1 : s[k] \notin {":", "/"},
         j = i \/ (j = i + 2 /\ s[i] = ":" /\ s[i + 1] \in Numbers),
         j = Len(s) + 1 \/ s[j] = "/"
  PROVE  Cut(s, i, j)
<1>1. Len(s) \in Nat
  BY LenProperties
<1>2. PICK e, b \in 1 .. Len(s) + 1 : Cut(s, e, b)
  BY AuthorityCut
<1>3. /\ e <= b
      /\ \A k \in 1 .. e - 1 : s[k] # ":"
      /\ \A k \in 1 .. b - 1 : s[k] # "/"
      /\ e # b => s[e] = ":"
      /\ b # Len(s) + 1 => s[b] = "/"
  BY <1>1, <1>2 DEF Cut
<1>4. b <= j
  BY <1>1, <1>3
<1>5. e >= i
  <2>1. e # b => ~(e < i)
    BY <1>1, <1>3
  <2>2. e = b => ~(e < i)
    BY <1>1, <1>3
  <2> QED
    BY <1>1, <2>1, <2>2
<1>6. CASE j = i
  BY <1>1, <1>2, <1>3, <1>4, <1>5, <1>6
<1>7. CASE j = i + 2 /\ s[i] = ":" /\ s[i + 1] \in Numbers
  <2>1. s[i] # "/" /\ s[i + 1] # "/"
    BY <1>7 DEF Numbers
  <2>2. b # i /\ b # i + 1
    BY <1>1, <1>3, <1>7, <2>1
  <2>3. b = j
    BY <1>1, <1>3, <1>4, <1>5, <1>7, <2>2
  <2>4. e = i
    BY <1>1, <1>3, <1>5, <1>7
  <2> QED
    BY <1>2, <2>3, <2>4
<1> QED
  BY <1>6, <1>7

LEMMA GoodURL ==
  ASSUME NEW s \in Seq(Tokens), NEW i \in 5 .. Len(s) + 1, NEW j \in 5 .. Len(s) + 1,
         /\ s[1] \in {"http", "https"} /\ s[2] = ":" /\ s[3] = "/" /\ s[4] = "/"
         /\ \A k \in 5 .. i - 1 : s[k] \notin {":", "/"}
         /\ j = i \/ (j = i + 2 /\ s[i] = ":" /\ s[i + 1] \in Numbers)
         /\ j = Len(s) + 1 \/ s[j] = "/"
  PROVE  parse_from_string(s) =
           [result   |-> "parses",
            protocol |-> s[1],
            server   |-> SubSeq(s, 5, i - 1),
            port     |-> IF i = j THEN "8080" ELSE s[i + 1],
            path     |-> IF j = Len(s) + 1 THEN <<"/">> ELSE SubSeq(s, j, Len(s))]
<1> DEFINE rest == SubSeq(s, 5, Len(s))
<1>1. Len(s) \in Nat /\ Len(s) >= 4
  BY LenProperties
<1>2. Find(s, <<":", "/", "/">>) = 2
  <2> DEFINE d == Find(s, <<":", "/", "/">>)
  <2>1. Scheme(s, 2) /\ ~Scheme(s, 1)
    BY DEF Scheme
  <2>2. /\ d \in 0 .. Len(s)
        /\ d # 0 => Scheme(s, d)
        /\ \A k \in 1 .. Len(s) - 2 : d = 0 \/ k < d => ~Scheme(s, k)
    BY FindScheme
  <2> HIDE DEF d
  <2>3. 2 \in 1 .. Len(s) - 2
    BY <1>1
  <2>4. d = 2
    BY <1>1, <2>1, <2>2, <2>3
  <2> QED
    BY <2>4 DEF d
<1>3. Before(s, 2) = <<s[1]>> /\ Before(s, 2) \in Protocols
  <2>1. \A k \in 1 .. 1 : s[k] \in Tokens
    BY <1>1, ElementOfSeq
  <2>2. /\ SubSeq(s, 1, 1) \in Seq(Tokens) /\ Len(SubSeq(s, 1, 1)) = 1
        /\ \A k \in 1 .. 1 : SubSeq(s, 1, 1)[k] = s[1 + k - 1]
    BY <2>1, SubSeqProperties
  <2>3. /\ <<s[1]>> \in Seq(Tokens) /\ Len(<<s[1]>>) = 1
        /\ \A k \in 1 .. 1 : SubSeq(s, 1, 1)[k] = <<s[1]>>[k]
    BY <2>1, <2>2
  <2>4. SubSeq(s, 1, 1) = <<s[1]>>
    BY <2>2, <2>3, SeqEqual
  <2> QED
    BY <2>4 DEF Before, Protocols
<1>4. /\ rest \in Seq(Tokens) /\ Len(rest) = Len(s) - 4
      /\ \A k \in 1 .. Len(s) - 4 : rest[k] = s[k + 4]
  BY <1>1, BehindScheme
<1> HIDE DEF rest
<1> DEFINE e == i - 4
           b == j - 4
<1>5. /\ e \in 1 .. Len(rest) + 1 /\ b \in 1 .. Len(rest) + 1
      /\ i = e + 4 /\ j = b + 4 /\ e <= b
  BY <1>1, <1>4
<1>6. Cut(rest, e, b)
  <2>1. ASSUME NEW k \in 1 .. e - 1 PROVE rest[k] \notin {":", "/"}
    <3>1. k \in 1 .. Len(s) - 4 /\ k + 4 \in 5 .. i - 1
      BY <1>1, <1>4, <1>5
    <3> QED
      BY <1>4, <3>1
  <2>2. b = e \/ (b = e + 2 /\ rest[e] = ":" /\ rest[e + 1] \in Numbers)
    <3>1. CASE j = i
      BY <1>5, <3>1
    <3>2. CASE j = i + 2 /\ s[i] = ":" /\ s[i + 1] \in Numbers
      <4>1. /\ e \in 1 .. Len(s) - 4 /\ e + 1 \in 1 .. Len(s) - 4
            /\ e + 4 = i /\ e + 1 + 4 = i + 1 /\ b = e + 2
        BY <1>1, <1>4, <1>5, <3>2
      <4> QED
        BY <1>4, <3>2, <4>1
    <3> QED
      BY <3>1, <3>2
  <2>3. b = Len(rest) + 1 \/ rest[b] = "/"
    <3>1. CASE j = Len(s) + 1
      BY <1>1, <1>4, <1>5, <3>1
    <3>2. CASE j # Len(s) + 1 /\ s[j] = "/"
      <4>1. b \in 1 .. Len(s) - 4 /\ b + 4 = j
        BY <1>1, <1>4, <1>5, <3>2
      <4> QED
        BY <1>4, <3>2, <4>1
    <3> QED
      BY <3>1, <3>2
  <2> HIDE DEF e, b
  <2> QED
    BY <1>4, <1>5, <2>1, <2>2, <2>3, OneCut
<1>7. Authority(rest).server = SubSeq(s, 5, i - 1)
  <2>1. Authority(rest).server = SubSeq(rest, 1, e - 1)
    BY <1>6 DEF Cut
  <2>2. /\ e - 1 \in Int /\ 5 + (e - 1) - 1 <= Len(s)
        /\ 5 + 1 - 1 = 5 /\ 5 + (e - 1) - 1 = i - 1
    BY <1>1, <1>4, <1>5
  <2>3. SubSeq(rest, 1, e - 1) = SubSeq(s, 5 + 1 - 1, 5 + (e - 1) - 1)
    <3> HIDE DEF e
    <3> QED
      BY <2>2, SubSeqOfRest DEF rest
  <2> QED
    BY <2>1, <2>2, <2>3
<1>8. /\ Authority(rest).port = IF i = j THEN "8080" ELSE s[i + 1]
      /\ Authority(rest).port # "throws"
  <2>1. CASE i = j
    <3>1. e = b
      BY <2>1
    <3> QED
      BY <1>6, <2>1, <3>1 DEF Cut
  <2>2. CASE j = i + 2 /\ s[i + 1] \in Numbers
    <3>1. e # b /\ e + 1 < b /\ e + 1 \in 1 .. Len(s) - 4 /\ e + 1 + 4 = i + 1
      BY <1>1, <1>4, <1>5, <2>2
    <3>2. rest[e + 1] = s[i + 1]
      BY <1>4, <3>1
    <3>3. s[i + 1] # "throws"
      BY <2>2 DEF Numbers
    <3> QED
      BY <1>6, <2>2, <3>1, <3>2, <3>3 DEF Cut
  <2> QED
    BY <2>1, <2>2
<1>9. Authority(rest).path = IF j = Len(s) + 1 THEN <<"/">> ELSE SubSeq(s, j, Len(s))
  <2>1. CASE j = Len(s) + 1
    <3>1. b = Len(rest) + 1
      BY <1>1, <1>4, <1>5, <2>1
    <3> QED
      BY <1>6, <2>1, <3>1 DEF Cut
  <2>2. CASE j # Len(s) + 1
    <3>1. b # Len(rest) + 1
      BY <1>1, <1>4, <1>5, <2>2
    <3>2. Authority(rest).path = SubSeq(rest, b, Len(rest))
      BY <1>6, <3>1 DEF Cut
    <3>3. /\ 5 + b - 1 = j /\ 5 + Len(rest) - 1 = Len(s)
          /\ Len(rest) \in Int /\ 5 + Len(rest) - 1 <= Len(s) /\ b \in Nat \ {0}
      BY <1>1, <1>4, <1>5, <2>2
    <3>4. SubSeq(rest, b, Len(rest)) = SubSeq(s, 5 + b - 1, 5 + Len(rest) - 1)
      <4> HIDE DEF b
      <4> QED
        BY <3>3, SubSeqOfRest DEF rest
    <3> QED
      BY <2>2, <3>2, <3>3, <3>4
  <2> QED
    BY <2>1, <2>2
<1>10. parse_from_string(s) =
         [result |-> "parses", protocol |-> Before(s, 2)[1],
          server |-> Authority(rest).server, port |-> Authority(rest).port,
          path   |-> Authority(rest).path]
  BY <1>2, <1>3, <1>8 DEF parse_from_string, rest
<1>11. Before(s, 2)[1] = s[1]
  BY <1>3
<1> QED
  BY <1>7, <1>8, <1>9, <1>10, <1>11, Zenon

(* For servers, ports and paths of any length, an URL comes apart into     *)
(* what it was written from (Helper.cpp:35-77).                            *)
THEOREM GoodURLsAreParsed == ReadSpec => []GoodURLsParse
<1>1. ReadInv => GoodURLsParse
  <2> SUFFICES ASSUME ReadInv PROVE GoodURLsParse
    OBVIOUS
  <2>1. url \in Seq(Tokens)
    BY DEF ReadInv, StringInv
  <2>2. ASSUME NEW i \in 5 .. Len(url) + 1, NEW j \in 5 .. Len(url) + 1, WrittenAt(i, j)
        PROVE  parse_from_string(url) =
                 [result   |-> "parses",
                  protocol |-> url[1],
                  server   |-> SubSeq(url, 5, i - 1),
                  port     |-> IF i = j THEN "8080" ELSE url[i + 1],
                  path     |-> IF j = Len(url) + 1 THEN <<"/">>
                               ELSE SubSeq(url, j, Len(url))]
    BY <2>1, <2>2, GoodURL DEF WrittenAt
  <2> QED
    BY <2>2 DEF GoodURLsParse
<1> QED
  BY <1>1, ReadInvHolds, PTL
=============================================================================
