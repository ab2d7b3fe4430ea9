-------------------------- MODULE PaginationProofs --------------------------
(***************************************************************************)
(* Proofs about Pagination: the links of a header as GitHub writes it, of  *)
(* any number of links to any addresses, come through splitting and        *)
(* parsing unchanged, the commas of their addresses included.              *)
(*                                                                         *)
(* Each fold of Pagination is an instance of Folding: a step, what it      *)
(* starts with, and the sets of what it makes and of the elements.         *)
(***************************************************************************)
EXTENDS Pagination, SequenceTheorems, TLAPS

(* Any name of a rel that is one: "" raises, and a blank is no name.  The  *)
(* provers do not find GitHub's among the strings.                         *)
RelName == (STRING \cup {"first", "prev", "next", "last"}) \ {"", " "}

Token ==
  [type : {"<", ">", ",", ";", "other"}]
    \cup [type : {"page", "per_page"}, value : Nat]
    \cup [type : {"rel"}, value : RelName]

(* What stands between "<" and ">": something, and neither of the two.     *)
Url == {u \in Seq(Token) : u # <<>> /\ \A i \in 1 .. Len(u) : u[i].type \notin {"<", ">"}}

ALink == [rel : RelName, url : Url]

-----------------------------------------------------------------------------
(* Sequences.  The provers take Append and \o apart wherever they see them; *)
(* under names of their own they are left whole.                           *)
Longer(s, e) == Append(s, e)
Both(s, t) == s \o t

LEMMA OneElement ==
  ASSUME NEW E, NEW a \in E
  PROVE  <<a>> \in Seq(E) /\ Len(<<a>>) = 1 /\ <<a>>[1] = a
OBVIOUS

LEMMA ThreeElements ==
  ASSUME NEW E, NEW a \in E, NEW b \in E, NEW c \in E
  PROVE  /\ <<a, b, c>> \in Seq(E) /\ Len(<<a, b, c>>) = 3
         /\ <<a, b, c>>[1] = a /\ <<a, b, c>>[2] = b /\ <<a, b, c>>[3] = c
OBVIOUS

LEMMA FiveElements ==
  ASSUME NEW E, NEW a \in E, NEW b \in E, NEW c \in E, NEW d \in E, NEW e \in E
  PROVE  /\ <<a, b, c, d, e>> \in Seq(E) /\ Len(<<a, b, c, d, e>>) = 5
         /\ <<a, b, c, d, e>>[1] = a /\ <<a, b, c, d, e>>[2] = b /\ <<a, b, c, d, e>>[3] = c
         /\ <<a, b, c, d, e>>[4] = d /\ <<a, b, c, d, e>>[5] = e
OBVIOUS

(* Two sequences one after the other, position by position. *)
Joins(both, s, t, E) ==
  /\ both \in Seq(E) /\ Len(both) = Len(s) + Len(t)
  /\ \A i \in 1 .. Len(s) : both[i] = s[i]
  /\ \A i \in 1 .. Len(t) : both[Len(s) + i] = t[i]

LEMMA ConcatAt ==
  ASSUME NEW E, NEW s \in Seq(E), NEW t \in Seq(E)
  PROVE  Joins(s \o t, s, t, E)
<1>1. Len(s) \in Nat /\ Len(t) \in Nat
  BY LenProperties
<1>2. /\ s \o t \in Seq(E) /\ Len(s \o t) = Len(s) + Len(t)
      /\ \A i \in 1 .. Len(s) + Len(t) :
           (s \o t)[i] = IF i <= Len(s) THEN s[i] ELSE t[i - Len(s)]
  BY ConcatProperties
<1>3. ASSUME NEW i \in 1 .. Len(s) PROVE (s \o t)[i] = s[i]
  <2>1. i \in 1 .. Len(s) + Len(t) /\ i <= Len(s)
    BY <1>1
  <2>2. QED
    BY <1>2, <2>1
<1>4. ASSUME NEW i \in 1 .. Len(t) PROVE (s \o t)[Len(s) + i] = t[i]
  <2>1. /\ Len(s) + i \in 1 .. Len(s) + Len(t) /\ ~ (Len(s) + i <= Len(s))
        /\ (Len(s) + i) - Len(s) = i
    BY <1>1
  <2>2. QED
    BY <1>2, <2>1
<1>5. QED
  BY <1>2, <1>3, <1>4 DEF Joins

LEMMA ConcatAppend ==
  ASSUME NEW E, NEW s \in Seq(E), NEW t \in Seq(E), NEW e \in E
  PROVE  s \o Append(t, e) = Append(s \o t, e)
<1> DEFINE longer == Append(t, e)
           both == s \o t
           l == s \o longer
           r == Append(both, e)
           m == Len(s)
           n == Len(t)
<1>1. m \in Nat /\ n \in Nat
  BY LenProperties
<1>2. /\ longer \in Seq(E) /\ Len(longer) = n + 1
      /\ \A i \in 1 .. n : longer[i] = t[i]
      /\ longer[n + 1] = e
  BY AppendProperties
<1>3. Joins(both, s, t, E) /\ Joins(l, s, longer, E)
  BY <1>2, ConcatAt
<1> HIDE DEF both, longer, l
<1>4. /\ r \in Seq(E) /\ Len(r) = Len(both) + 1
      /\ \A i \in 1 .. Len(both) : r[i] = both[i]
      /\ r[Len(both) + 1] = e
  BY <1>3, AppendProperties DEF Joins
<1> HIDE DEF r
<1>5. /\ Len(both) = m + n /\ Len(l) = m + (n + 1)
      /\ l \in Seq(E)
      /\ \A i \in 1 .. m : both[i] = s[i] /\ l[i] = s[i]
      /\ \A i \in 1 .. n : both[m + i] = t[i]
      /\ \A i \in 1 .. (n + 1) : l[m + i] = longer[i]
  BY <1>2, <1>3 DEF Joins
<1> HIDE DEF m, n
<1>6. ASSUME NEW i \in 1 .. (m + n + 1) PROVE l[i] = r[i]
  <2>1. CASE i \in 1 .. m
    <3>1. i \in 1 .. (m + n)
      BY <1>1, <2>1
    <3>2. QED
      BY <1>4, <1>5, <2>1, <3>1
  <2>2. CASE i \notin 1 .. m
    <3>1. PICK k \in 1 .. (n + 1) : i = m + k
      <4>1. i - m \in 1 .. (n + 1) /\ i = m + (i - m)
        BY <1>1, <2>2
      <4>2. QED
        BY <4>1
    <3>2. l[i] = longer[k]
      BY <1>5, <3>1
    <3>3. CASE k = n + 1
      <4>1. i = (m + n) + 1
        BY <1>1, <3>1, <3>3
      <4>2. QED
        BY <1>2, <1>4, <1>5, <3>2, <3>3, <4>1
    <3>4. CASE k # n + 1
      <4>1. k \in 1 .. n /\ i \in 1 .. (m + n)
        BY <1>1, <3>1, <3>4
      <4>2. r[i] = t[k]
        BY <1>4, <1>5, <3>1, <4>1
      <4>3. QED
        BY <1>2, <3>2, <4>1, <4>2
    <3>5. QED
      BY <3>3, <3>4
  <2>3. QED
    BY <2>1, <2>2
<1>7. l = r
  <2>1. Len(l) = m + n + 1 /\ Len(r) = m + n + 1
    BY <1>1, <1>4, <1>5
  <2>2. QED
    BY <1>4, <1>5, <1>6, <2>1, SeqEqual
<1>8. QED
  BY <1>7 DEF l, r, both, longer

LEMMA AppendOne ==
  ASSUME NEW E, NEW x \in E
  PROVE  <<x>> \in Seq(E) /\ <<x>> = Append(<<>>, x)
OBVIOUS

LEMMA AppendThree ==
  ASSUME NEW E, NEW a \in Seq(E), NEW x \in E, NEW y \in E, NEW z \in E
  PROVE  a \o <<x, y, z>> = Append(Append(Append(a, x), y), z)
<1> DEFINE p == <<x>>
           q == <<x, y>>
           r == <<x, y, z>>
<1>1. <<>> \in Seq(E) /\ p \in Seq(E) /\ q \in Seq(E)
  OBVIOUS
<1>2. p = Append(<<>>, x) /\ q = Append(p, y) /\ r = Append(q, z)
  OBVIOUS
<1> HIDE DEF p, q, r
<1>3. a \o <<>> = a
  BY ConcatEmptySeq
<1>4. a \o p = Append(a \o <<>>, x)
  BY <1>1, <1>2, ConcatAppend
<1>5. a \o q = Append(a \o p, y)
  BY <1>1, <1>2, ConcatAppend
<1>6. a \o r = Append(a \o q, z)
  BY <1>1, <1>2, ConcatAppend
<1>7. QED
  BY <1>3, <1>4, <1>5, <1>6 DEF r

LEMMA LongerIs ==
  ASSUME NEW E, NEW s \in Seq(E), NEW e \in E
  PROVE  /\ Longer(s, e) \in Seq(E) /\ Len(s) \in Nat
         /\ Len(Longer(s, e)) = Len(s) + 1
         /\ \A i \in 1 .. Len(s) : Longer(s, e)[i] = s[i]
         /\ Longer(s, e)[Len(s) + 1] = e
BY AppendProperties, LenProperties DEF Longer

LEMMA BothTyped ==
  ASSUME NEW E, NEW s \in Seq(E), NEW t \in Seq(E)
  PROVE  Both(s, t) \in Seq(E)
BY ConcatProperties DEF Both

LEMMA BothEmpty ==
  ASSUME NEW E, NEW s \in Seq(E)
  PROVE  Both(s, <<>>) = s /\ Both(<<>>, s) = s
BY ConcatEmptySeq DEF Both

LEMMA BothBoth ==
  ASSUME NEW E, NEW s \in Seq(E), NEW t \in Seq(E), NEW u \in Seq(E)
  PROVE  Both(Both(s, t), u) = Both(s, Both(t, u))
BY ConcatAssociative DEF Both

LEMMA BothLonger ==
  ASSUME NEW E, NEW s \in Seq(E), NEW t \in Seq(E), NEW e \in E
  PROVE  Both(s, Longer(t, e)) = Longer(Both(s, t), e)
BY ConcatAppend DEF Both, Longer

LEMMA WrittenOut ==
  ASSUME NEW E, NEW u \in Seq(E), NEW w \in E, NEW x \in E, NEW y \in E, NEW z \in E
  PROVE  (<<w>> \o u) \o <<x, y, z>>
           = Longer(Longer(Longer(Both(Longer(<<>>, w), u), x), y), z)
<1> DEFINE a == <<w>> \o u
<1>1. a \in Seq(E) /\ <<w>> = Append(<<>>, w)
  BY AppendOne, ConcatProperties
<1>2. a = Both(Longer(<<>>, w), u)
  BY <1>1 DEF Both, Longer
<1> HIDE DEF a
<1>3. a \o <<x, y, z>> = Append(Append(Append(a, x), y), z)
  BY <1>1, AppendThree
<1>4. QED
  BY <1>2, <1>3 DEF a, Longer

-----------------------------------------------------------------------------
(* The folds.                                                              *)
HeaderStep(header, link) ==
  (IF header = <<>> THEN <<>> ELSE Append(header, Mark(","))) \o Segment(link)

Writing == INSTANCE Folding
            WITH Op <- HeaderStep, Base <- <<>>, A <- Seq(Token), T <- ALink

SplitStart == [depth |-> 0, done |-> <<>>, current |-> <<>>]

SplitStep(acc, t) ==
  LET depth == Deeper(acc.depth, t)
  IN  IF t.type = "," /\ depth = 0
      THEN [depth |-> 0, done |-> Append(acc.done, acc.current), current |-> <<>>]
      ELSE [acc EXCEPT !.depth = depth, !.current = Append(@, t)]

Splits == [depth : Nat, done : Seq(Seq(Token)), current : Seq(Token)]

Split == INSTANCE Folding
           WITH Op <- SplitStep, Base <- SplitStart, A <- Splits, T <- Token

ParseStep(links, s) ==
  IF IsLink(s) /\ \A i \in DOMAIN links : links[i].rel # Link(s).rel
  THEN Append(links, Link(s)) ELSE links

LinksRead == {Link(s) : s \in Seq(Token)}

Parse == INSTANCE Folding
           WITH Op <- ParseStep, Base <- <<>>, A <- Seq(LinksRead), T <- Seq(Token)

LEMMA HeaderFold == \A links : LinkHeader(links) = Writing!Fold(links)
BY DEF LinkHeader, Writing!Fold, HeaderStep, FoldLeft, MapThenFoldSet, Max,
       Writing!FoldLeft, Writing!MapThenFoldSet, Writing!Max

LEMMA SplitFold ==
  \A tokens :
    LET end == Split!Fold(tokens)
    IN  SplitSegments(tokens)
          = IF end.current = <<>> THEN end.done ELSE Append(end.done, end.current)
BY DEF SplitSegments, Split!Fold, SplitStep, SplitStart, FoldLeft, MapThenFoldSet, Max,
       Split!FoldLeft, Split!MapThenFoldSet, Split!Max

LEMMA ParseFold ==
  \A tokens : ParseLinkHeader(tokens) = Parse!Fold(SplitSegments(tokens))
BY DEF ParseLinkHeader, Parse!Fold, ParseStep, FoldLeft, MapThenFoldSet, Max,
       Parse!FoldLeft, Parse!MapThenFoldSet, Parse!Max

LEMMA SplitTyped == Split!Typed
<1>1. SplitStart \in Splits
  BY DEF SplitStart, Splits
<1>2. ASSUME NEW acc \in Splits, NEW t \in Token
      PROVE  SplitStep(acc, t) \in Splits
  <2>1. Deeper(acc.depth, t) \in Nat
    BY DEF Splits, Deeper
  <2>2. /\ Append(acc.done, acc.current) \in Seq(Seq(Token)) /\ <<>> \in Seq(Token)
        /\ Append(acc.current, t) \in Seq(Token)
    BY AppendProperties, EmptySeq DEF Splits
  <2>3. QED
    BY <2>1, <2>2 DEF SplitStep, Splits
<1>3. QED
  BY <1>1, <1>2 DEF Split!Typed

LEMMA ParseTyped == Parse!Typed
<1>1. <<>> \in Seq(LinksRead)
  BY EmptySeq
<1>2. ASSUME NEW links \in Seq(LinksRead), NEW s \in Seq(Token)
      PROVE  ParseStep(links, s) \in Seq(LinksRead)
  <2>1. Link(s) \in LinksRead
    BY DEF LinksRead
  <2>2. Append(links, Link(s)) \in Seq(LinksRead)
    BY <2>1, AppendProperties
  <2>3. QED
    BY <2>2 DEF ParseStep
<1>3. QED
  BY <1>1, <1>2 DEF Parse!Typed

LEMMA MarkTyped == \A type \in {"<", ">", ",", ";", "other"} : Mark(type) \in Token
BY DEF Mark, Token

(* What a segment consists of. *)
LEMMA SegmentIs ==
  ASSUME NEW link \in ALink
  PROVE  LET n == Len(link.url)
             s == Segment(link)
         IN  /\ s \in Seq(Token) /\ n \in Nat \ {0} /\ Len(s) = n + 4
             /\ s[1] = Mark("<")
             /\ \A i \in 1 .. n : s[i + 1] = link.url[i]
             /\ s[n + 2] = Mark(">") /\ s[n + 3] = Mark(";") /\ s[n + 4] = Rel(link.rel)
<1> DEFINE u == link.url
           n == Len(u)
           a == <<Mark("<")>>
           z == <<Mark(">"), Mark(";"), Rel(link.rel)>>
<1>1. u \in Seq(Token) /\ n \in Nat \ {0}
  <2>1. u \in Seq(Token) /\ u # <<>>
    BY DEF ALink, Url
  <2>2. QED
    BY <2>1, EmptySeq, LenProperties
<1>2. a \in Seq(Token) /\ Len(a) = 1 /\ a[1] = Mark("<")
  <2>1. Mark("<") \in Token
    BY MarkTyped
  <2>2. QED
    BY <2>1, OneElement
<1>3. /\ z \in Seq(Token) /\ Len(z) = 3
      /\ z[1] = Mark(">") /\ z[2] = Mark(";") /\ z[3] = Rel(link.rel)
  <2>1. Rel(link.rel) \in Token
    BY DEF ALink, Token, Rel
  <2>2. Mark(">") \in Token /\ Mark(";") \in Token
    BY MarkTyped
  <2>3. QED
    BY <2>1, <2>2, ThreeElements
<1> HIDE DEF a, z, n
<1> DEFINE b == a \o u
<1>4. /\ b \in Seq(Token) /\ Len(b) = n + 1 /\ b[1] = Mark("<")
      /\ \A i \in 1 .. n : b[i + 1] = u[i]
  <2>0. Joins(b, a, u, Token)
    BY <1>1, <1>2, ConcatAt
  <2>1. /\ b \in Seq(Token) /\ Len(b) = Len(a) + n
        /\ \A i \in 1 .. Len(a) : b[i] = a[i]
        /\ \A i \in 1 .. n : b[Len(a) + i] = u[i]
    BY <2>0 DEF Joins, n
  <2>2. \A i \in 1 .. n : Len(a) + i = i + 1
    BY <1>1, <1>2
  <2>3. QED
    BY <1>1, <1>2, <2>1, <2>2
<1> HIDE DEF b
<1>5. LET s == b \o z
      IN  /\ s \in Seq(Token) /\ Len(s) = n + 4
          /\ \A i \in 1 .. (n + 1) : s[i] = b[i]
          /\ s[n + 2] = z[1] /\ s[n + 3] = z[2] /\ s[n + 4] = z[3]
  <2> DEFINE s == b \o z
  <2>0. Joins(s, b, z, Token)
    BY <1>3, <1>4, ConcatAt
  <2> HIDE DEF s
  <2>1. /\ s \in Seq(Token) /\ Len(s) = Len(b) + Len(z)
        /\ \A i \in 1 .. Len(b) : s[i] = b[i]
        /\ \A i \in 1 .. Len(z) : s[Len(b) + i] = z[i]
    BY <2>0 DEF Joins
  <2>2. \A i \in 1 .. 3 : s[(n + 1) + i] = z[i]
    BY <1>3, <1>4, <2>1
  <2>3. (n + 1) + 1 = n + 2 /\ (n + 1) + 2 = n + 3 /\ (n + 1) + 3 = n + 4
    BY <1>1
  <2>4. s[n + 2] = z[1] /\ s[n + 3] = z[2] /\ s[n + 4] = z[3]
    BY <2>2, <2>3
  <2>5. s \in Seq(Token) /\ Len(s) = n + 4 /\ \A i \in 1 .. (n + 1) : s[i] = b[i]
    <3>1. Len(b) = n + 1
      BY <1>4
    <3>2. Len(z) = 3
      BY <1>3
    <3>3. (n + 1) + 3 = n + 4
      BY <1>1
    <3>4. QED
      BY <2>1, <3>1, <3>2, <3>3
  <2>6. QED
    BY <2>4, <2>5 DEF s
<1>6. Segment(link) = b \o z
  BY DEF Segment, a, b, z
<1>7. QED
  <2>1. 1 \in 1 .. (n + 1) /\ \A i \in 1 .. n : i + 1 \in 1 .. (n + 1)
    BY <1>1
  <2>2. QED
    BY <1>1, <1>3, <1>4, <1>5, <1>6, <2>1 DEF n

LEMMA HeaderTyped == Writing!Typed
<1>1. ASSUME NEW h \in Seq(Token), NEW link \in ALink
      PROVE  HeaderStep(h, link) \in Seq(Token)
  <2>1. Segment(link) \in Seq(Token) /\ Append(h, Mark(",")) \in Seq(Token)
    BY SegmentIs, MarkTyped, AppendProperties
  <2>2. QED
    BY <2>1, ConcatProperties, EmptySeq DEF HeaderStep
<1>2. QED
  BY <1>1, EmptySeq DEF Writing!Typed

(* Induction over sequences, by appending. *)
LEMMA ByLonger ==
  ASSUME NEW E, NEW S, <<>> \in S,
         \A s \in Seq(E), e \in E : s \in S => Longer(s, e) \in S
  PROVE  \A s \in Seq(E) : s \in S
<1>1. \A s \in Seq(E), e \in E : s \in S => Append(s, e) \in S
  BY DEF Longer
<1>2. QED
  BY <1>1, Split!Appending

-----------------------------------------------------------------------------
(* Splitting.  What has been split: some segments, and what has been read  *)
(* of the next.                                                            *)
At(depth, done, current) == [depth |-> depth, done |-> done, current |-> current]

LEMMA AtStart == Split!Fold(<<>>) = At(0, <<>>, <<>>)
<1>1. Split!Fold(<<>>) = SplitStart
  BY SplitTyped, Split!FoldEmpty
<1>2. QED
  BY <1>1 DEF SplitStart, At

Opens(t) == t.type = "<"
Closes(t) == t.type = ">"
Comma(t) == t.type = ","
Text(t) == ~ Opens(t) /\ ~ Closes(t)

LEMMA Depths ==
  ASSUME NEW t
  PROVE  /\ Opens(t) => Deeper(0, t) = 1 /\ ~ Comma(t)
         /\ Closes(t) => Deeper(1, t) = 0 /\ ~ Comma(t)
         /\ Text(t) => Deeper(0, t) = 0 /\ Deeper(1, t) = 1
<1>1. CASE t.type = "<"
  BY <1>1 DEF Opens, Closes, Comma, Text, Deeper
<1>2. CASE t.type = ">"
  BY <1>2 DEF Opens, Closes, Comma, Text, Deeper
<1>3. CASE t.type \notin {"<", ">"}
  BY <1>3 DEF Opens, Closes, Comma, Text, Deeper
<1>4. QED
  BY <1>1, <1>2, <1>3

(* A token other than a comma between links goes to the segment. *)
Inside(d, t) == Comma(t) => Deeper(d, t) # 0

LEMMA ReadToken ==
  ASSUME NEW seq \in Seq(Token), NEW t \in Token, NEW d \in Nat, NEW done, NEW current,
         Split!Fold(seq) = At(d, done, current), Inside(d, t)
  PROVE  Split!Fold(Longer(seq, t)) = At(Deeper(d, t), done, Longer(current, t))
<1>1. Split!Fold(Append(seq, t)) = SplitStep(At(d, done, current), t)
  BY SplitTyped, Split!FoldAppend
<1>2. QED
  BY <1>1 DEF SplitStep, At, Longer, Inside, Comma

(* The text of an address stays in the segment, its commas included. *)
Plain(u) == \A i \in 1 .. Len(u) : Text(u[i])

LEMMA ReadUrl ==
  ASSUME NEW seq \in Seq(Token), NEW done, NEW current \in Seq(Token),
         Split!Fold(seq) = At(1, done, current), NEW u \in Url
  PROVE  Split!Fold(Both(seq, u)) = At(1, done, Both(current, u))
<1> DEFINE S == {v \in Seq(Token) :
                   Plain(v) => Split!Fold(Both(seq, v)) = At(1, done, Both(current, v))}
<1>1. <<>> \in S
  BY EmptySeq, BothEmpty
<1>2. ASSUME NEW v \in Seq(Token), NEW t \in Token, v \in S PROVE Longer(v, t) \in S
  <2>1. /\ Longer(v, t) \in Seq(Token) /\ Len(v) \in Nat
        /\ Len(Longer(v, t)) = Len(v) + 1
        /\ \A i \in 1 .. Len(v) : Longer(v, t)[i] = v[i]
        /\ Longer(v, t)[Len(v) + 1] = t
    BY LongerIs
  <2>2. ASSUME Plain(Longer(v, t))
        PROVE  Split!Fold(Both(seq, Longer(v, t))) = At(1, done, Both(current, Longer(v, t)))
    <3>1. Len(v) + 1 \in 1 .. Len(Longer(v, t))
          /\ \A i \in 1 .. Len(v) : i \in 1 .. Len(Longer(v, t))
      BY <2>1
    <3>2. Text(t) /\ Plain(v)
      BY <2>1, <2>2, <3>1 DEF Plain
    <3>3. Split!Fold(Both(seq, v)) = At(1, done, Both(current, v)) /\ Both(seq, v) \in Seq(Token)
      BY <1>2, <3>2, BothTyped
    <3>4. Deeper(1, t) = 1 /\ Inside(1, t)
      BY <3>2, Depths DEF Inside
    <3>5. Split!Fold(Longer(Both(seq, v), t))
            = At(Deeper(1, t), done, Longer(Both(current, v), t))
      BY <3>3, <3>4, ReadToken
    <3>6. /\ Both(seq, Longer(v, t)) = Longer(Both(seq, v), t)
          /\ Both(current, Longer(v, t)) = Longer(Both(current, v), t)
      BY BothLonger
    <3>7. QED
      BY <3>4, <3>5, <3>6
  <2>3. QED
    BY <2>1, <2>2
<1> HIDE DEF S
<1>3. u \in S
  BY <1>1, <1>2, ByLonger DEF Url
<1>4. QED
  BY <1>3 DEF S, Url, Plain, Text, Opens, Closes

(* After seq, whose segments are done, v has been read of the next one. *)
Reads(seq, done, v, depth) ==
  /\ v \in Seq(Token) /\ Both(seq, v) \in Seq(Token)
  /\ Split!Fold(Both(seq, v)) = At(depth, done, v)

LEMMA ReadMore ==
  ASSUME NEW seq \in Seq(Token), NEW done, NEW v, NEW d \in Nat, Reads(seq, done, v, d),
         NEW t \in Token, ~ Comma(t)
  PROVE  Reads(seq, done, Longer(v, t), Deeper(d, t))
<1>1. /\ v \in Seq(Token) /\ Both(seq, v) \in Seq(Token)
      /\ Split!Fold(Both(seq, v)) = At(d, done, v)
  BY DEF Reads
<1>2. /\ Longer(v, t) \in Seq(Token) /\ Both(seq, Longer(v, t)) = Longer(Both(seq, v), t)
      /\ Longer(Both(seq, v), t) \in Seq(Token)
  <2>1. \A x, y \in Seq(Token), e \in Token :
          /\ Longer(x, e) \in Seq(Token)
          /\ Both(x, Longer(y, e)) = Longer(Both(x, y), e)
    BY BothLonger, LongerIs
  <2>2. QED
    BY <1>1, <2>1
<1>3. Split!Fold(Longer(Both(seq, v), t)) = At(Deeper(d, t), done, Longer(v, t))
  <2>1. Inside(d, t)
    BY DEF Inside
  <2>2. QED
    BY <1>1, <2>1, ReadToken
<1>4. QED
  BY <1>2, <1>3 DEF Reads

(* What stands around an address, whatever the address. *)
LEMMA ReadAround ==
  ASSUME NEW seq \in Seq(Token), NEW done, Split!Fold(seq) = At(0, done, <<>>),
         NEW u \in Url,
         NEW lt \in Token, NEW gt \in Token, NEW semi \in Token, NEW rel \in Token,
         Opens(lt), Closes(gt), Text(semi), ~ Comma(semi), Text(rel), ~ Comma(rel)
  PROVE  Reads(seq, done,
               Longer(Longer(Longer(Both(Longer(<<>>, lt), u), gt), semi), rel), 0)
<1> DEFINE open == Longer(<<>>, lt)
           a == Both(open, u)
<1>1. u \in Seq(Token) /\ <<>> \in Seq(Token) /\ 0 \in Nat /\ 1 \in Nat
  BY EmptySeq DEF Url
<1>2. Deeper(0, lt) = 1 /\ ~ Comma(lt)
  BY Depths
<1>3. Deeper(1, gt) = 0 /\ ~ Comma(gt)
  BY Depths
<1>4. Deeper(0, semi) = 0 /\ ~ Comma(semi)
  BY Depths
<1>5. Deeper(0, rel) = 0 /\ ~ Comma(rel)
  BY Depths
<1>6. Reads(seq, done, <<>>, 0)
  BY <1>1, BothEmpty DEF Reads
<1>7. Reads(seq, done, open, 1)
  <2>1. Reads(seq, done, open, Deeper(0, lt))
    BY <1>1, <1>2, <1>6, ReadMore
  <2>2. QED
    BY <1>2, <2>1
<1> HIDE DEF open
<1>8. Reads(seq, done, a, 1)
  <2>1. /\ open \in Seq(Token) /\ Both(seq, open) \in Seq(Token)
        /\ Split!Fold(Both(seq, open)) = At(1, done, open)
    BY <1>7 DEF Reads
  <2>2. Split!Fold(Both(Both(seq, open), u)) = At(1, done, a)
    BY <2>1, ReadUrl
  <2>3. Both(Both(seq, open), u) = Both(seq, a)
    <3>1. \A x, y, z \in Seq(Token) : Both(Both(x, y), z) = Both(x, Both(y, z))
      BY BothBoth
    <3>2. QED
      BY <1>1, <2>1, <3>1
  <2>4. a \in Seq(Token) /\ Both(seq, a) \in Seq(Token)
    BY <1>1, <2>1, BothTyped
  <2> HIDE DEF a
  <2>5. QED
    BY <2>2, <2>3, <2>4 DEF Reads
<1> HIDE DEF a
<1>9. Reads(seq, done, Longer(a, gt), 0)
  <2>1. Reads(seq, done, Longer(a, gt), Deeper(1, gt))
    BY <1>1, <1>3, <1>8, ReadMore
  <2>2. QED
    BY <1>3, <2>1
<1>10. Reads(seq, done, Longer(Longer(a, gt), semi), 0)
  <2>1. Reads(seq, done, Longer(Longer(a, gt), semi), Deeper(0, semi))
    BY <1>1, <1>4, <1>9, ReadMore
  <2>2. QED
    BY <1>4, <2>1
<1>11. Reads(seq, done, Longer(Longer(Longer(a, gt), semi), rel), 0)
  <2>1. Reads(seq, done, Longer(Longer(Longer(a, gt), semi), rel), Deeper(0, rel))
    BY <1>1, <1>5, <1>10, ReadMore
  <2>2. QED
    BY <1>5, <2>1
<1>12. QED
  BY <1>11 DEF a, open

(* A segment is read as one. *)
LEMMA ReadSegment ==
  ASSUME NEW seq \in Seq(Token), NEW done, NEW link \in ALink,
         Split!Fold(seq) = At(0, done, <<>>)
  PROVE  Reads(seq, done, Segment(link), 0)
<1> DEFINE lt == Mark("<")
           gt == Mark(">")
           semi == Mark(";")
           rel == Rel(link.rel)
           u == link.url
<1>1. /\ lt \in Token /\ gt \in Token /\ semi \in Token /\ rel \in Token
      /\ u \in Url /\ u \in Seq(Token)
  BY MarkTyped DEF Rel, Token, ALink, Url
<1>2. Opens(lt) /\ Closes(gt) /\ Text(semi) /\ ~ Comma(semi) /\ Text(rel) /\ ~ Comma(rel)
  BY DEF Mark, Rel, Opens, Closes, Text, Comma
<1>3. Segment(link) = (<<lt>> \o u) \o <<gt, semi, rel>>
  BY DEF Segment
<1> HIDE DEF lt, gt, semi, rel, u
<1>4. Segment(link) = Longer(Longer(Longer(Both(Longer(<<>>, lt), u), gt), semi), rel)
  BY <1>1, <1>3, WrittenOut
<1>5. QED
  BY <1>1, <1>2, <1>4, ReadAround

(* A comma between two links ends the segment. *)
LEMMA ReadComma ==
  ASSUME NEW seq \in Seq(Token), NEW t \in Token, Comma(t), NEW done, NEW current,
         Split!Fold(seq) = At(0, done, current)
  PROVE  Split!Fold(Longer(seq, t)) = At(0, Longer(done, current), <<>>)
<1>1. Split!Fold(Append(seq, t)) = SplitStep(At(0, done, current), t)
  BY SplitTyped, Split!FoldAppend
<1>2. t.type = "," /\ Deeper(0, t) = 0
  BY DEF Comma, Deeper
<1>3. QED
  BY <1>1, <1>2 DEF SplitStep, At, Longer

(* The segments of some links. *)
Written(links) == [i \in 1 .. Len(links) |-> Segment(links[i])]

LEMMA WrittenIs ==
  /\ Written(<<>>) = <<>>
  /\ \A links \in Seq(ALink) : Written(links) \in Seq(Seq(Token))
  /\ \A links \in Seq(ALink), link \in ALink :
       Written(Longer(links, link)) = Longer(Written(links), Segment(link))
<1>1. Written(<<>>) = <<>>
  BY DEF Written
<1>2. ASSUME NEW links \in Seq(ALink)
      PROVE  /\ Written(links) \in Seq(Seq(Token)) /\ Len(Written(links)) = Len(links)
             /\ Len(links) \in Nat
             /\ \A i \in 1 .. Len(links) : Written(links)[i] = Segment(links[i])
  <2>1. Len(links) \in Nat /\ \A i \in 1 .. Len(links) : links[i] \in ALink
    BY LenProperties, ElementOfSeq
  <2>2. \A i \in 1 .. Len(links) : Segment(links[i]) \in Seq(Token)
    BY <2>1, SegmentIs
  <2>3. QED
    BY <2>1, <2>2 DEF Written
<1>3. ASSUME NEW links \in Seq(ALink), NEW link \in ALink
      PROVE  Written(Longer(links, link)) = Longer(Written(links), Segment(link))
  <2> DEFINE n == Len(links)
             l == Written(Longer(links, link))
             r == Longer(Written(links), Segment(link))
  <2>1. /\ Longer(links, link) \in Seq(ALink) /\ n \in Nat /\ Len(Longer(links, link)) = n + 1
        /\ \A i \in 1 .. n : Longer(links, link)[i] = links[i]
        /\ Longer(links, link)[n + 1] = link
    BY LongerIs
  <2>2. /\ l \in Seq(Seq(Token)) /\ Len(l) = n + 1
        /\ \A i \in 1 .. (n + 1) : l[i] = Segment(Longer(links, link)[i])
    BY <1>2, <2>1
  <2>3. Written(links) \in Seq(Seq(Token)) /\ Segment(link) \in Seq(Token)
    BY <1>2, SegmentIs
  <2>4. /\ r \in Seq(Seq(Token)) /\ Len(r) = Len(Written(links)) + 1
        /\ \A i \in 1 .. Len(Written(links)) : r[i] = Written(links)[i]
        /\ r[Len(Written(links)) + 1] = Segment(link)
    BY <2>3, LongerIs
  <2>5. /\ Len(r) = n + 1 /\ \A i \in 1 .. n : r[i] = Segment(links[i])
        /\ r[n + 1] = Segment(link)
    BY <1>2, <2>4
  <2> HIDE DEF l, r, n
  <2>6. ASSUME NEW i \in 1 .. (n + 1) PROVE l[i] = r[i]
    <3>1. CASE i = n + 1
      BY <2>1, <2>2, <2>5, <3>1
    <3>2. CASE i # n + 1
      <4>1. i \in 1 .. n
        BY <2>1, <3>2
      <4>2. QED
        BY <2>1, <2>2, <2>5, <4>1
    <3>3. QED
      BY <3>1, <3>2
  <2>7. l = r
    BY <2>1, <2>2, <2>4, <2>5, <2>6, SeqEqual
  <2>8. QED
    BY <2>7 DEF l, r
<1>4. QED
  BY <1>1, <1>2, <1>3

(* What is read of the header of some links, to its end. *)
ReadsLinks(links) ==
  /\ LinkHeader(links) \in Seq(Token)
  /\ IF links = <<>> THEN LinkHeader(links) = <<>>
     ELSE \E done, last :
            /\ Split!Fold(LinkHeader(links)) = At(0, done, last)
            /\ last # <<>> /\ Longer(done, last) = Written(links)

LEMMA HeaderLonger ==
  ASSUME NEW links \in Seq(ALink), NEW link \in ALink, NEW h, h = LinkHeader(links),
         h \in Seq(Token)
  PROVE  LinkHeader(Longer(links, link))
           = IF h = <<>> THEN Both(<<>>, Segment(link))
             ELSE Both(Longer(h, Mark(",")), Segment(link))
<1>1. h = Writing!Fold(links)
  BY HeaderFold
<1>2. Writing!Fold(Append(links, link)) = HeaderStep(h, link)
  BY <1>1, HeaderTyped, Writing!FoldAppend
<1>3. LinkHeader(Longer(links, link)) = HeaderStep(h, link)
  BY <1>2, HeaderFold DEF Longer
<1>4. QED
  BY <1>3 DEF HeaderStep, Both, Longer

LEMMA SegmentNotEmpty == \A link \in ALink : Segment(link) \in Seq(Token) /\ Segment(link) # <<>>
<1>1. ASSUME NEW link \in ALink PROVE Segment(link) \in Seq(Token) /\ Segment(link) # <<>>
  <2>1. /\ Segment(link) \in Seq(Token) /\ Len(link.url) \in Nat \ {0}
        /\ Len(Segment(link)) = Len(link.url) + 4
    BY SegmentIs
  <2>2. Len(Segment(link)) # 0
    BY <2>1
  <2>3. QED
    BY <2>1, <2>2, EmptySeq
<1>2. QED
  BY <1>1

LEMMA ReadsOneMore ==
  ASSUME NEW links \in Seq(ALink), NEW link \in ALink, ReadsLinks(links)
  PROVE  ReadsLinks(Longer(links, link))
<1> DEFINE h == LinkHeader(links)
           more == Longer(links, link)
           segment == Segment(link)
           comma == Mark(",")
<1>1. h \in Seq(Token)
  BY DEF ReadsLinks
<1>2. segment \in Seq(Token) /\ segment # <<>> /\ comma \in Token /\ Comma(comma)
  BY SegmentNotEmpty, MarkTyped DEF Mark, Comma
<1>3. more # <<>> /\ Written(more) = Longer(Written(links), segment)
  <2>1. Len(more) = Len(links) + 1 /\ Len(links) \in Nat
    BY LongerIs
  <2>2. Len(more) # 0
    BY <2>1
  <2>3. QED
    BY <2>2, WrittenIs, EmptySeq
<1>4. LinkHeader(more) = IF h = <<>> THEN Both(<<>>, segment)
                         ELSE Both(Longer(h, comma), segment)
  BY <1>1, HeaderLonger
<1>5. \E first : /\ first \in Seq(Token) /\ LinkHeader(more) = Both(first, segment)
                 /\ Split!Fold(first) = At(0, Written(links), <<>>)
  <2>1. CASE links = <<>>
    <3>1. h = <<>> /\ Written(links) = <<>>
      BY <2>1, WrittenIs DEF ReadsLinks
    <3>2. LinkHeader(more) = Both(<<>>, segment)
      BY <1>4, <3>1
    <3>3. QED
      BY <3>1, <3>2, AtStart, EmptySeq
  <2>2. CASE links # <<>>
    <3>1. PICK done, last : /\ Split!Fold(h) = At(0, done, last)
                            /\ last # <<>> /\ Longer(done, last) = Written(links)
      BY <2>2 DEF ReadsLinks
    <3>2. h # <<>>
      BY <3>1, AtStart DEF At
    <3> HIDE DEF h, comma
    <3>3. Split!Fold(Longer(h, comma)) = At(0, Longer(done, last), <<>>)
      BY <1>1, <1>2, <3>1, ReadComma
    <3>4. Longer(h, comma) \in Seq(Token)
      BY <1>1, <1>2, LongerIs
    <3>5. LinkHeader(more) = Both(Longer(h, comma), segment)
      BY <1>4, <3>2
    <3>6. QED
      BY <3>1, <3>3, <3>4, <3>5
  <2>3. QED
    BY <2>1, <2>2
<1>6. PICK first : /\ first \in Seq(Token) /\ LinkHeader(more) = Both(first, segment)
                   /\ Split!Fold(first) = At(0, Written(links), <<>>)
  BY <1>5
<1>7. Reads(first, Written(links), segment, 0)
  BY <1>6, ReadSegment
<1> HIDE DEF segment, more, comma
<1>8. /\ LinkHeader(more) \in Seq(Token)
      /\ Split!Fold(LinkHeader(more)) = At(0, Written(links), segment)
  BY <1>6, <1>7 DEF Reads
<1>9. ReadsLinks(more)
  BY <1>2, <1>3, <1>8 DEF ReadsLinks
<1>10. QED
  BY <1>9 DEF more

(* SegmentsComeThrough: splitting a header gives the links it is written   *)
(* of, each whole: the commas of an address separate nothing.              *)
THEOREM SegmentsComeThrough ==
  \A links \in Seq(ALink) : SplitSegments(LinkHeader(links)) = Written(links)
<1> DEFINE S == {links \in Seq(ALink) : ReadsLinks(links)}
<1>1. <<>> \in S
  <2>1. LinkHeader(<<>>) = <<>>
    BY HeaderFold, HeaderTyped, Writing!FoldEmpty
  <2>2. QED
    BY <2>1, EmptySeq DEF ReadsLinks
<1>2. \A links \in Seq(ALink), link \in ALink : links \in S => Longer(links, link) \in S
  BY ReadsOneMore, LongerIs
<1> HIDE DEF S
<1>3. \A links \in Seq(ALink) : links \in S
  BY <1>1, <1>2, ByLonger
<1>4. ASSUME NEW links \in Seq(ALink)
      PROVE  SplitSegments(LinkHeader(links)) = Written(links)
  <2> DEFINE end == Split!Fold(LinkHeader(links))
  <2>1. SplitSegments(LinkHeader(links))
          = IF end.current = <<>> THEN end.done ELSE Longer(end.done, end.current)
    BY SplitFold DEF Longer
  <2>2. ReadsLinks(links)
    BY <1>3 DEF S
  <2> HIDE DEF end
  <2>3. CASE links = <<>>
    <3>1. end = At(0, <<>>, <<>>)
      BY <2>2, <2>3, AtStart DEF ReadsLinks, end
    <3>2. end.current = <<>> /\ end.done = <<>>
      BY <3>1 DEF At
    <3>3. QED
      BY <2>1, <2>3, <3>2, WrittenIs
  <2>4. CASE links # <<>>
    <3>1. PICK done, last : /\ end = At(0, done, last)
                            /\ last # <<>> /\ Longer(done, last) = Written(links)
      BY <2>2, <2>4 DEF ReadsLinks, end
    <3>2. end.current = last /\ end.done = done
      BY <3>1 DEF At
    <3>3. QED
      BY <2>1, <3>1, <3>2
  <2>5. QED
    BY <2>3, <2>4
<1>5. QED
  BY <1>4

-----------------------------------------------------------------------------
(* Reading a segment.                                                      *)

(* The first token of a type, found where it is. *)
LEMMA FirstIs ==
  ASSUME NEW s \in Seq(Token), NEW type, NEW i \in 1 .. Len(s), s[i].type = type,
         \A j \in 1 .. Len(s) : s[j].type = type => i <= j
  PROVE  First(s, type) = i
<1> DEFINE I == {j \in 1 .. Len(s) : s[j].type = type}
<1>1. Len(s) \in Nat
  BY LenProperties
<1>2. First(s, type) = IF I # {} THEN Min(I) ELSE 0
  BY DEF First, SelectInSeq
<1>3. i \in I /\ \A j \in I : i <= j
  OBVIOUS
<1>4. I \subseteq Nat
  BY <1>1
<1> HIDE DEF I
<1>5. Min(I) \in I /\ \A j \in I : Min(I) <= j
  BY <1>3 DEF Min
<1>6. Min(I) = i
  <2>1. Min(I) <= i /\ i <= Min(I)
    BY <1>3, <1>5
  <2>2. Min(I) \in Nat /\ i \in Nat
    BY <1>3, <1>4, <1>5
  <2> DEFINE m == Min(I)
  <2> HIDE DEF m
  <2>3. m = i
    BY <2>1, <2>2 DEF m
  <2>4. QED
    BY <2>3 DEF m
<1>7. QED
  BY <1>2, <1>3, <1>6

LEMMA FirstIsNone ==
  ASSUME NEW s \in Seq(Token), NEW type, \A j \in 1 .. Len(s) : s[j].type # type
  PROVE  First(s, type) = 0
BY DEF First, SelectInSeq

LEMMA UrlEndOfSegment ==
  ASSUME NEW link \in ALink
  PROVE  UrlEnd(Segment(link)) = Len(link.url) + 2
<1> DEFINE s == Segment(link)
           u == link.url
           n == Len(u)
<1>1. /\ s \in Seq(Token) /\ n \in Nat \ {0} /\ Len(s) = n + 4
      /\ s[1] = Mark("<")
      /\ \A i \in 1 .. n : s[i + 1] = u[i]
      /\ s[n + 2] = Mark(">")
  BY SegmentIs
<1>2. \A i \in 1 .. n : u[i].type # ">"
  BY DEF ALink, Url
<1>3. s[1].type # ">" /\ s[n + 2].type = ">"
  BY <1>1 DEF Mark
<1> HIDE DEF s, u, n
<1>4. ASSUME NEW j \in 1 .. Len(s), s[j].type = ">" PROVE n + 2 <= j
  <2>1. CASE j = 1
    BY <1>3, <1>4, <2>1
  <2>2. CASE j \in 2 .. (n + 1)
    <3>1. j - 1 \in 1 .. n /\ (j - 1) + 1 = j
      BY <1>1, <2>2
    <3>2. s[j] = u[j - 1]
      BY <1>1, <3>1
    <3>3. QED
      BY <1>2, <1>4, <3>1, <3>2
  <2>3. QED
    BY <1>1, <2>1, <2>2
<1>5. n + 2 \in 1 .. Len(s)
  BY <1>1
<1>6. First(s, ">") = n + 2
  BY <1>1, <1>3, <1>4, <1>5, FirstIs
<1>7. QED
  BY <1>6 DEF UrlEnd, s, n, u

(* The address, and what follows the ";", cut out of a segment. *)
LEMMA Cut ==
  ASSUME NEW E, NEW s \in Seq(E), NEW u \in Seq(E), NEW n \in Nat, Len(u) = n,
         Len(s) = n + 4, \A i \in 1 .. n : s[i + 1] = u[i]
  PROVE  /\ SubSeq(s, 2, (n + 2) - 1) = u
         /\ SubSeq(s, (n + 2) + 2, Len(s)) \in Seq(E)
         /\ Len(SubSeq(s, (n + 2) + 2, Len(s))) = 1
         /\ SubSeq(s, (n + 2) + 2, Len(s))[1] = s[n + 4]
<1>1. \A i \in 1 .. Len(s) : s[i] \in E
  BY ElementOfSeq
<1> DEFINE t == SubSeq(s, 2, n + 1)
           p == SubSeq(s, n + 4, n + 4)
<1>2. /\ t \in Seq(E) /\ Len(t) = IF 2 <= n + 1 THEN (n + 1) - 2 + 1 ELSE 0
      /\ \A i \in 1 .. (n + 1) - 2 + 1 : t[i] = s[2 + i - 1]
  <2>1. \A i \in 2 .. (n + 1) : s[i] \in E
    BY <1>1
  <2>2. QED
    BY <2>1, SubSeqProperties
<1>3. /\ p \in Seq(E) /\ Len(p) = IF n + 4 <= n + 4 THEN (n + 4) - (n + 4) + 1 ELSE 0
      /\ \A i \in 1 .. (n + 4) - (n + 4) + 1 : p[i] = s[(n + 4) + i - 1]
  <2>1. \A i \in (n + 4) .. (n + 4) : s[i] \in E
    BY <1>1
  <2>2. QED
    BY <2>1, SubSeqProperties
<1> HIDE DEF t, p
<1>4. t = u
  <2>1. Len(t) = n /\ \A i \in 1 .. n : t[i] = s[i + 1]
    BY <1>2
  <2>2. \A i \in 1 .. n : t[i] = u[i]
    BY <2>1
  <2>3. QED
    BY <1>2, <2>1, <2>2, SeqEqual
<1>5. Len(p) = 1 /\ p[1] = s[n + 4]
  <2>1. 1 \in 1 .. (n + 4) - (n + 4) + 1 /\ (n + 4) + 1 - 1 = n + 4
    OBVIOUS
  <2>2. QED
    BY <1>3, <2>1
<1>6. (n + 2) - 1 = n + 1 /\ (n + 2) + 2 = n + 4
  OBVIOUS
<1>7. QED
  BY <1>3, <1>4, <1>5, <1>6 DEF t, p

LEMMA LinkOfSegment ==
  ASSUME NEW link \in ALink
  PROVE  /\ IsLink(Segment(link)) /\ Link(Segment(link)) = link
         /\ RelOf(Segment(link)) # ""
<1> DEFINE s == Segment(link)
           u == link.url
           n == Len(u)
           p == Params(s)
<1>1. /\ s \in Seq(Token) /\ n \in Nat \ {0} /\ Len(s) = n + 4
      /\ \A i \in 1 .. n : s[i + 1] = u[i]
  BY SegmentIs
<1>2. s[1] = Mark("<") /\ s[n + 3] = Mark(";") /\ s[n + 4] = Rel(link.rel)
  BY SegmentIs
<1>3. s[1].type = "<" /\ s[n + 3].type = ";" /\ s[n + 4].type = "rel"
  <2>1. Mark("<").type = "<" /\ Mark(";").type = ";" /\ Rel(link.rel).type = "rel"
    BY DEF Mark, Rel
  <2> HIDE DEF s, u, n
  <2>2. QED
    BY <1>2, <2>1
<1>4. s[n + 4].value = link.rel
  <2>1. Rel(link.rel).value = link.rel
    BY DEF Rel
  <2> HIDE DEF s, u, n
  <2>2. QED
    BY <1>2, <2>1
<1>5. u \in Seq(Token)
  BY DEF ALink, Url
<1>6. link = [rel |-> link.rel, url |-> u]
  BY DEF ALink
<1>7. UrlEnd(s) = n + 2
  BY UrlEndOfSegment
<1>8. /\ SubSeq(s, 2, (n + 2) - 1) = u
      /\ SubSeq(s, (n + 2) + 2, Len(s)) \in Seq(Token)
      /\ Len(SubSeq(s, (n + 2) + 2, Len(s))) = 1
      /\ SubSeq(s, (n + 2) + 2, Len(s))[1] = s[n + 4]
  <2> HIDE DEF s, u
  <2>1. n \in Nat /\ Len(u) = n
    BY <1>1
  <2> HIDE DEF n
  <2>2. QED
    BY <1>1, <1>5, <2>1, Cut
<1> HIDE DEF s, u, n
<1>9. p \in Seq(Token) /\ Len(p) = 1 /\ p[1] = s[n + 4]
  BY <1>7, <1>8 DEF Params
<1> HIDE DEF p
<1>10. First(p, "rel") = 1
  <2>1. p[1].type = "rel"
    BY <1>3, <1>9
  <2>2. 1 \in 1 .. Len(p) /\ \A j \in 1 .. Len(p) : 1 <= j
    BY <1>9
  <2>3. QED
    BY <1>9, <2>1, <2>2, FirstIs
<1>11. RelOf(s) = link.rel
  BY <1>4, <1>9, <1>10 DEF RelOf, p
<1>12. link.rel \notin {"", " "}
  BY DEF ALink, RelName
<1>13. IsLink(s)
  <2>1. /\ Len(s) > 0 /\ UrlEnd(s) \in 2 .. (Len(s) - 1) /\ UrlEnd(s) > 2
        /\ UrlEnd(s) + 1 = n + 3
    BY <1>1, <1>7
  <2>2. First(Params(s), "rel") # 0
    BY <1>10 DEF p
  <2>3. s[UrlEnd(s) + 1].type = ";"
    BY <1>3, <2>1
  <2>4. HasRel(s)
    BY <1>3, <2>1, <2>2, <2>3 DEF HasRel
  <2>5. QED
    BY <1>11, <1>12, <2>1, <2>4 DEF IsLink
<1>14. Link(s) = [rel |-> link.rel, url |-> u]
  <2>1. SubSeq(s, 2, UrlEnd(s) - 1) = u
    BY <1>7, <1>8
  <2>2. QED
    BY <1>11, <2>1 DEF Link
<1>15. QED
  BY <1>6, <1>11, <1>12, <1>13, <1>14 DEF s

(* A list of links with another rel each. *)
Names(link, other) == link.rel = other.rel
Distinct(links) == \A i, j \in 1 .. Len(links) : Names(links[i], links[j]) => i = j

LEMMA ReadLink ==
  ASSUME NEW links \in Seq(ALink), NEW link \in ALink,
         \A i \in 1 .. Len(links) : ~ Names(links[i], link)
  PROVE  ParseStep(links, Segment(link)) = Longer(links, link)
<1>1. DOMAIN links = 1 .. Len(links)
  BY LenProperties
<1>2. \A i \in DOMAIN links : links[i].rel # Link(Segment(link)).rel
  BY <1>1, LinkOfSegment DEF Names
<1>3. QED
  BY <1>2, LinkOfSegment DEF ParseStep, Longer

(* LinksComeThrough: parse_link_header makes of a header the links it is   *)
(* written of, in their order and with their whole addresses, whatever     *)
(* these are, however many there are, as long as every rel has a name and  *)
(* occurs once; and it does not raise, which it does for a rel of no name. *)
THEOREM LinksComeThrough ==
  \A links \in Seq(ALink) :
    Distinct(links) => /\ ~ ParseFails(LinkHeader(links))
                       /\ ParseLinkHeader(LinkHeader(links)) = links
<1> DEFINE S == {links \in Seq(ALink) : Distinct(links) => Parse!Fold(Written(links)) = links}
<1>1. <<>> \in S
  BY WrittenIs, ParseTyped, Parse!FoldEmpty, EmptySeq
<1>2. ASSUME NEW links \in Seq(ALink), NEW link \in ALink, links \in S
      PROVE  Longer(links, link) \in S
  <2> DEFINE more == Longer(links, link)
             n == Len(links)
  <2>1. /\ more \in Seq(ALink) /\ n \in Nat /\ Len(more) = n + 1
        /\ \A i \in 1 .. n : more[i] = links[i]
        /\ more[n + 1] = link
    BY LongerIs
  <2>2. Written(more) = Longer(Written(links), Segment(link))
    BY WrittenIs
  <2>3. Written(links) \in Seq(Seq(Token)) /\ Segment(link) \in Seq(Token)
    BY WrittenIs, SegmentNotEmpty
  <2> HIDE DEF more
  <2>4. ASSUME Distinct(more) PROVE Parse!Fold(Written(more)) = more
    <3>1. \A i \in 1 .. n : ~ Names(links[i], link)
      <4>1. ASSUME NEW i \in 1 .. n, Names(links[i], link) PROVE FALSE
        <5>1. i \in 1 .. Len(more) /\ n + 1 \in 1 .. Len(more) /\ i # n + 1
          BY <2>1
        <5>2. Names(more[i], more[n + 1])
          BY <2>1, <4>1
        <5>3. QED
          BY <2>4, <5>1, <5>2 DEF Distinct
      <4>2. QED
        BY <4>1
    <3>2. Distinct(links)
      <4>1. ASSUME NEW i \in 1 .. n, NEW j \in 1 .. n, Names(links[i], links[j]) PROVE i = j
        <5>1. i \in 1 .. Len(more) /\ j \in 1 .. Len(more)
          BY <2>1
        <5>2. Names(more[i], more[j])
          BY <2>1, <4>1
        <5>3. QED
          BY <2>4, <5>1, <5>2 DEF Distinct
      <4>2. QED
        BY <4>1 DEF Distinct
    <3>3. Parse!Fold(Written(links)) = links
      BY <1>2, <3>2
    <3>4. Parse!Fold(Append(Written(links), Segment(link))) = ParseStep(links, Segment(link))
      BY <2>3, <3>3, ParseTyped, Parse!FoldAppend
    <3>5. Parse!Fold(Written(more)) = ParseStep(links, Segment(link))
      BY <2>2, <3>4 DEF Longer
    <3>6. ParseStep(links, Segment(link)) = more
      BY <3>1, ReadLink DEF more
    <3>7. QED
      BY <3>5, <3>6
  <2>5. more \in S
    BY <2>1, <2>4
  <2>6. QED
    BY <2>5 DEF more
<1> HIDE DEF S
<1>3. \A links \in Seq(ALink) : links \in S
  BY <1>1, <1>2, ByLonger
<1>4. ASSUME NEW links \in Seq(ALink), Distinct(links)
      PROVE  /\ ~ ParseFails(LinkHeader(links))
             /\ ParseLinkHeader(LinkHeader(links)) = links
  <2>1. Parse!Fold(Written(links)) = links
    BY <1>3, <1>4 DEF S
  <2>2. SplitSegments(LinkHeader(links)) = Written(links)
    BY SegmentsComeThrough
  <2>3. \A i \in DOMAIN Written(links) :
          links[i] \in ALink /\ Written(links)[i] = Segment(links[i])
    BY ElementOfSeq DEF Written
  <2>4. ~ ParseFails(LinkHeader(links))
    BY <2>2, <2>3, LinkOfSegment DEF ParseFails
  <2>5. QED
    BY <2>1, <2>2, <2>4, ParseFold
<1>5. QED
  BY <1>4
=============================================================================
