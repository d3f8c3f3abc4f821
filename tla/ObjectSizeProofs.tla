--------------------------- MODULE ObjectSizeProofs ----------------------------
(***************************************************************************)
(* What find_object_size.py makes of a dump, for every tree that a walk    *)
(* may leave, every text of the names and every size asked for.            *)
(***************************************************************************)
EXTENDS ObjectSize, Induction, SequenceTheorems

--------------------------------------------------------------------------------
(* A string is read as it was before it was escaped.                       *)

LEMMA EscapesAre ==
  ASSUME NEW str \in Seq(Char)
  PROVE  \E written \in [0 .. Len(str) -> Seq(Char)] :
           /\ written[0] = <<>>
           /\ \A k \in 1 .. Len(str) : written[k] = written[k - 1] \o Escape(str[k])
           /\ EscapeJsonString(str) = written[Len(str)]
<1> DEFINE N == Len(str)
           Is(p) == p = [k \in 0 .. N |-> IF k = 0 THEN <<>> ELSE p[k - 1] \o Escape(str[k])]
           step == [k \in 1 .. N |-> [x \in Seq(Char) |-> x \o Escape(str[k])]]
<1>1. ASSUME NEW k \in 1 .. N PROVE Escape(str[k]) \in Seq(Char)
  <2>1. str[k] \in Char /\ "backslash" \in Char
    BY DEF Char
  <2> QED BY <2>1 DEF Escape
<1>2. step \in [1 .. N -> [Seq(Char) -> Seq(Char)]]
  <2>1. ASSUME NEW k \in 1 .. N, NEW x \in Seq(Char) PROVE x \o Escape(str[k]) \in Seq(Char)
    BY <1>1
  <2> QED BY <2>1
<1>3. N \in Nat /\ <<>> \in Seq(Char)
  OBVIOUS
<1>4. PICK p : Iterates(p, Seq(Char), N, <<>>, step)
  <2>1. step \in StepsOn(Seq(Char), N)
    BY <1>2 DEF StepsOn
  <2> HIDE DEF step, N
  <2> QED BY <2>1, <1>3, Iteration
<1>5. ASSUME NEW k \in 1 .. N PROVE p[k] = p[k - 1] \o Escape(str[k])
  <2>1. p[k - 1] \in Seq(Char) /\ p[k] = step[k][p[k - 1]]
    <3> HIDE DEF step
    <3> QED BY <1>3, <1>4 DEF Iterates
  <2>2. step[k][p[k - 1]] = p[k - 1] \o Escape(str[k])
    BY <2>1
  <2> QED BY <2>1, <2>2
<1> HIDE DEF step
<1>6. Is(p)
  <2>1. ASSUME NEW k \in 0 .. N
        PROVE  p[k] = IF k = 0 THEN <<>> ELSE p[k - 1] \o Escape(str[k])
    <3>1. k # 0 => k \in 1 .. N
      BY <1>3
    <3> QED BY <1>4, <1>5, <3>1 DEF Iterates
  <2> QED BY <1>4, <2>1 DEF Iterates
<1>7. EscapeJsonString(str) = (CHOOSE q : Is(q))[N]
  BY DEF EscapeJsonString
<1>8. PICK q : Is(q) /\ EscapeJsonString(str) = q[N]
  <2> HIDE DEF Is
  <2> QED BY <1>6, <1>7
<1>9. q \in [0 .. N -> Seq(Char)]
  <2> DEFINE Good == {k \in 0 .. N : q[k] \in Seq(Char)}
  <2>1. 0 \in Good
    BY <1>3, <1>8
  <2>2. ASSUME NEW k \in 1 .. N, k - 1 \in Good PROVE k \in Good
    <3>1. q[k] = q[k - 1] \o Escape(str[k])
      BY <1>8
    <3>2. q[k] \in Seq(Char)
      BY <1>1, <2>2, <3>1
    <3> QED BY <3>2
  <2>3. Good = 0 .. N
    <3>1. Good \in SUBSET (0 .. N)
      OBVIOUS
    <3> HIDE DEF Good, Is
    <3> QED BY <1>3, <2>1, <2>2, <3>1, StepByStep
  <2>4. \A k \in 0 .. N : q[k] \in Seq(Char)
    <3> HIDE DEF Is
    <3> QED BY <2>3
  <2> QED BY <1>8, <2>4
<1>10. /\ q[0] = <<>>
       /\ \A k \in 1 .. N : q[k] = q[k - 1] \o Escape(str[k])
  BY <1>3, <1>8
<1> HIDE DEF Is
<1> QED BY <1>8, <1>9, <1>10

\* What the reader is in the middle of.
Reading ==
  [text : Seq(Char \union {"escape"}), escaped : BOOLEAN, stop : BOOLEAN, rest : BOOLEAN]

LEMMA ReadsAre ==
  ASSUME NEW escaped \in Seq(Char)
  PROVE  LET characters == Append(escaped, "quote")
         IN  \E read \in [0 .. Len(characters) -> Reading] :
               /\ read[0] = NothingRead
               /\ \A k \in 1 .. Len(characters) :
                    read[k] = ReadChar(read[k - 1], characters[k])
               /\ ReadString(escaped) = read[Len(characters)]
<1> DEFINE characters == Append(escaped, "quote")
           N == Len(characters)
           Is(p) == p = [k \in 0 .. N |-> IF k = 0 THEN NothingRead
                                          ELSE ReadChar(p[k - 1], characters[k])]
           step == [k \in 1 .. N |-> [x \in Reading |-> ReadChar(x, characters[k])]]
<1>1. ASSUME NEW r \in Reading, NEW c \in Char PROVE ReadChar(r, c) \in Reading
  <2>1. \A t : t \in Char \union {"escape"} =>
              Append(r.text, t) \in Seq(Char \union {"escape"})
    BY DEF Reading
  <2>2. CASE r.stop
    BY <2>2 DEF Reading, ReadChar
  <2>3. CASE ~r.stop /\ r.escaped
    BY <2>1, <2>3 DEF Reading, ReadChar
  <2>4. CASE ~r.stop /\ ~r.escaped
    BY <2>1, <2>4 DEF Reading, ReadChar
  <2> QED BY <2>2, <2>3, <2>4
<1>2. characters \in Seq(Char) /\ N \in Nat /\ NothingRead \in Reading
  BY DEF Char, NothingRead, Reading
<1> HIDE DEF characters
<1>3. \A k \in 1 .. N : characters[k] \in Char
  BY <1>2
<1>4. step \in [1 .. N -> [Reading -> Reading]]
  <2>1. ASSUME NEW k \in 1 .. N, NEW x \in Reading PROVE ReadChar(x, characters[k]) \in Reading
    BY <1>1, <1>3
  <2> QED BY <2>1
<1>5. PICK p : Iterates(p, Reading, N, NothingRead, step)
  <2>1. step \in StepsOn(Reading, N)
    BY <1>4 DEF StepsOn
  <2> HIDE DEF step, N
  <2> QED BY <2>1, <1>2, Iteration
<1>6. ASSUME NEW k \in 1 .. N PROVE p[k] = ReadChar(p[k - 1], characters[k])
  <2>1. p[k - 1] \in Reading /\ p[k] = step[k][p[k - 1]]
    <3> HIDE DEF step
    <3> QED BY <1>2, <1>5 DEF Iterates
  <2>2. step[k][p[k - 1]] = ReadChar(p[k - 1], characters[k])
    BY <2>1
  <2> QED BY <2>1, <2>2
<1> HIDE DEF step
<1>7. Is(p)
  <2>1. ASSUME NEW k \in 0 .. N
        PROVE  p[k] = IF k = 0 THEN NothingRead ELSE ReadChar(p[k - 1], characters[k])
    <3>1. k # 0 => k \in 1 .. N
      BY <1>2
    <3> QED BY <1>5, <1>6, <3>1 DEF Iterates
  <2> QED BY <1>5, <2>1 DEF Iterates
<1>8. ReadString(escaped) = (CHOOSE q : Is(q))[N]
  BY DEF ReadString, characters
<1>9. PICK q : Is(q) /\ ReadString(escaped) = q[N]
  <2> HIDE DEF Is
  <2> QED BY <1>7, <1>8
<1>10. q \in [0 .. N -> Reading]
  <2> DEFINE Good == {k \in 0 .. N : q[k] \in Reading}
  <2>1. 0 \in Good
    BY <1>2, <1>9
  <2>2. ASSUME NEW k \in 1 .. N, k - 1 \in Good PROVE k \in Good
    <3> HIDE DEF Good, N
    <3>1. q[k] = ReadChar(q[k - 1], characters[k])
      <4>1. k \in 0 .. N /\ k # 0
        BY <1>2
      <4>2. q = [j \in 0 .. N |-> IF j = 0 THEN NothingRead
                                 ELSE ReadChar(q[j - 1], characters[j])]
        BY <1>9
      <4> QED BY <4>1, <4>2, Zenon
    <3>2. q[k - 1] \in Reading
      BY <2>2 DEF Good
    <3>3. q[k] \in Reading
      BY <1>1, <1>3, <3>1, <3>2
    <3> QED BY <3>3 DEF Good
  <2>3. Good = 0 .. N
    <3>1. Good \in SUBSET (0 .. N)
      OBVIOUS
    <3> HIDE DEF Good, Is
    <3> QED BY <1>2, <2>1, <2>2, <3>1, StepByStep
  <2>4. \A k \in 0 .. N : q[k] \in Reading
    <3> HIDE DEF Is
    <3> QED BY <2>3
  <2> QED BY <1>9, <2>4
<1>11. /\ q[0] = NothingRead
       /\ \A k \in 1 .. N : q[k] = ReadChar(q[k - 1], characters[k])
  <2> HIDE DEF N
  <2>1. q = [j \in 0 .. N |-> IF j = 0 THEN NothingRead ELSE ReadChar(q[j - 1], characters[j])]
    BY <1>9
  <2>2. 0 \in 0 .. N /\ \A k \in 1 .. N : k \in 0 .. N /\ k # 0
    BY <1>2
  <2> HIDE DEF Is
  <2> QED BY <2>1, <2>2, Zenon
<1> HIDE DEF Is, N
<1>12. \E read \in [0 .. N -> Reading] :
         /\ read[0] = NothingRead
         /\ \A k \in 1 .. N : read[k] = ReadChar(read[k - 1], characters[k])
         /\ ReadString(escaped) = read[N]
  BY <1>9, <1>10, <1>11
<1> QED BY <1>12 DEF characters, N

Prefix(s, t) == Len(s) <= Len(t) /\ \A i \in 1 .. Len(s) : t[i] = s[i]

LEMMA PrefixOfLonger ==
  ASSUME NEW r \in Seq(Char), NEW s \in Seq(Char), NEW t \in Seq(Char), Prefix(r, s)
  PROVE  Prefix(r, s \o t)
BY DEF Prefix

LEMMA AfterFirst ==
  ASSUME NEW s \in Seq(Char), NEW t \in Seq(Char)
  PROVE  /\ Len(s \o t) = Len(s) + Len(t)
         /\ \A i \in 1 .. Len(t) : (s \o t)[Len(s) + i] = t[i]
OBVIOUS

\* After k characters of a name are written, that is what has been read.
HasRead(r, text) ==
  r \in Reading /\ r.text = text /\ r.escaped = FALSE /\ r.stop = FALSE /\ r.rest = FALSE

LEMMA NextCharacterRead ==
  ASSUME NEW text \in Seq(Char), NEW c \in Char, NEW before, HasRead(before, text)
  PROVE  LET e == Escape(c) IN
         \/ Len(e) = 1 /\ HasRead(ReadChar(before, e[1]), Append(text, c))
         \/ Len(e) = 2 /\ HasRead(ReadChar(ReadChar(before, e[1]), e[2]), Append(text, c))
<1>1. Append(text, c) \in Seq(Char \union {"escape"})
  OBVIOUS
<1>2. CASE c \notin {"backslash", "quote"}
  <2>1. Escape(c) = <<c>> /\ Len(<<c>>) = 1 /\ <<c>>[1] = c
    BY <1>2 DEF Escape
  <2>2. ReadChar(before, c) = [before EXCEPT !.text = Append(@, c)]
    BY <1>2 DEF ReadChar, HasRead
  <2>3. HasRead([before EXCEPT !.text = Append(@, c)], Append(text, c))
    BY <1>1 DEF HasRead, Reading
  <2> QED BY <2>1, <2>2, <2>3
<1>3. CASE c \in {"backslash", "quote"}
  <2> DEFINE between == [before EXCEPT !.escaped = TRUE]
             e == <<"backslash", c>>
  <2>1. Escape(c) = e /\ Len(e) = 2 /\ e[1] = "backslash" /\ e[2] = c
    BY <1>3 DEF Escape
  <2>2. ReadChar(before, "backslash") = between
    BY DEF ReadChar, HasRead
  <2>3. /\ between \in Reading /\ between.text = text /\ between.escaped = TRUE
        /\ between.stop = FALSE /\ between.rest = FALSE
    BY DEF HasRead, Reading
  <2> HIDE DEF between, e
  <2>4. ReadChar(between, c) = [between EXCEPT !.escaped = FALSE, !.text = Append(@, c)]
    BY <1>3, <2>3 DEF ReadChar
  <2>5. HasRead([between EXCEPT !.escaped = FALSE, !.text = Append(@, c)], Append(text, c))
    BY <1>1, <2>3 DEF HasRead, Reading
  <2>6. HasRead(ReadChar(ReadChar(before, "backslash"), c), Append(text, c))
    BY <2>2, <2>4, <2>5
  <2> QED BY <2>1, <2>6
<1> QED BY <1>2, <1>3

\* What is in a name, quotes and backslashes included, is what a reader finds.
LEMMA ReadAsWritten ==
  ASSUME NEW str \in Seq(Char)
  PROVE  /\ ReadString(EscapeJsonString(str)).text = str
         /\ ReadString(EscapeJsonString(str)).stop
         /\ ~ReadString(EscapeJsonString(str)).rest
<1> DEFINE N == Len(str)
<1>1. PICK written \in [0 .. N -> Seq(Char)] :
        /\ written[0] = <<>>
        /\ \A k \in 1 .. N : written[k] = written[k - 1] \o Escape(str[k])
        /\ EscapeJsonString(str) = written[N]
  BY EscapesAre
<1> DEFINE escaped == written[N]
           characters == Append(escaped, "quote")
           M == Len(characters)
<1>2. N \in Nat /\ escaped \in Seq(Char)
  BY <1>1
<1>3. PICK read \in [0 .. M -> Reading] :
        /\ read[0] = NothingRead
        /\ \A k \in 1 .. M : read[k] = ReadChar(read[k - 1], characters[k])
        /\ ReadString(escaped) = read[M]
  <2> HIDE DEF escaped
  <2> QED BY <1>2, ReadsAre
<1>4. M = Len(escaped) + 1 /\ Len(escaped) \in Nat /\ characters[M] = "quote"
      /\ \A i \in 1 .. Len(escaped) : characters[i] = escaped[i]
  <2> HIDE DEF escaped
  <2> QED BY <1>2
<1> HIDE DEF N
<1>5. ASSUME NEW k \in 1 .. N
      PROVE  /\ k - 1 \in 0 .. N /\ k \in 0 .. N
             /\ written[k - 1] \in Seq(Char) /\ written[k] \in Seq(Char)
             /\ Escape(str[k]) \in Seq(Char)
  <2>1. str[k] \in Char /\ "backslash" \in Char
    BY DEF Char, N
  <2>2. Escape(str[k]) \in Seq(Char)
    BY <2>1 DEF Escape
  <2> QED BY <1>1, <1>2, <2>2
<1>6. \A j \in 0 .. N : Prefix(written[j], escaped)
  <2> DEFINE Good == {k \in 0 .. N : \A j \in 0 .. k : Prefix(written[j], written[k])}
  <2>1. 0 \in Good
    BY <1>1, <1>2 DEF Prefix
  <2>2. ASSUME NEW k \in 1 .. N, k - 1 \in Good PROVE k \in Good
    <3>1. ASSUME NEW j \in 0 .. k PROVE Prefix(written[j], written[k])
      <4>1. CASE j = k
        BY <1>5, <4>1 DEF Prefix
      <4>2. CASE j # k
        <5>1. j \in 0 .. k - 1 /\ j \in 0 .. N
          BY <1>2, <4>2
        <5>2. Prefix(written[j], written[k - 1]) /\ written[j] \in Seq(Char)
          BY <1>1, <2>2, <5>1
        <5>3. Prefix(written[j], written[k - 1] \o Escape(str[k]))
          BY <1>5, <5>2, PrefixOfLonger
        <5> QED BY <1>1, <5>3
      <4> QED BY <4>1, <4>2
    <3> QED BY <1>5, <3>1
  <2>3. N \in Good
    <3>1. Good \in SUBSET (0 .. N)
      OBVIOUS
    <3> HIDE DEF Good
    <3>2. Good = 0 .. N
      BY <1>2, <2>1, <2>2, <3>1, StepByStep
    <3> QED BY <1>2, <3>2
  <2> QED BY <2>3
<1> HIDE DEF escaped, characters
<1>7. HasRead(read[Len(escaped)], str)
  <2> DEFINE Good == {k \in 0 .. N : HasRead(read[Len(written[k])], SubSeq(str, 1, k))}
  <2>1. 0 \in Good
    <3>1. SubSeq(str, 1, 0) = <<>>
      OBVIOUS
    <3>2. HasRead(NothingRead, <<>>)
      BY DEF NothingRead, HasRead, Reading
    <3>3. Len(written[0]) = 0 /\ 0 \in 0 .. N
      BY <1>1, <1>2
    <3> QED BY <1>3, <3>1, <3>2, <3>3
  <2>2. ASSUME NEW k \in 1 .. N, k - 1 \in Good PROVE k \in Good
    <3> DEFINE L == Len(written[k - 1])
               e == Escape(str[k])
    <3>1. HasRead(read[L], SubSeq(str, 1, k - 1))
      BY <2>2
    <3> HIDE DEF Good
    <3>2. L \in Nat /\ Len(e) \in Nat /\ Len(written[k]) = L + Len(e)
          /\ L + Len(e) <= Len(escaped)
          /\ \A i \in 1 .. Len(e) : L + i \in 1 .. Len(escaped) /\ escaped[L + i] = e[i]
      <4>1. written[k] = written[k - 1] \o e
        BY <1>1
      <4>2. Len(written[k]) = L + Len(e) /\ \A i \in 1 .. Len(e) : written[k][L + i] = e[i]
        <5> DEFINE s == written[k - 1]
        <5>1. s \in Seq(Char) /\ e \in Seq(Char)
          BY <1>5
        <5> HIDE DEF e, s
        <5>2. Len(s \o e) = Len(s) + Len(e) /\ \A i \in 1 .. Len(e) : (s \o e)[Len(s) + i] = e[i]
          BY <5>1, AfterFirst
        <5> QED BY <4>1, <5>2 DEF s
      <4>3. L \in Nat /\ Len(e) \in Nat
        BY <1>5
      <4>4. Len(written[k]) <= Len(escaped)
            /\ \A i \in 1 .. Len(written[k]) : escaped[i] = written[k][i]
        BY <1>5, <1>6 DEF Prefix
      <4> HIDE DEF L, e
      <4> QED BY <1>4, <4>2, <4>3, <4>4
    <3>3. ASSUME NEW i \in 1 .. Len(e)
          PROVE  read[L + i] = ReadChar(read[(L + i) - 1], e[i])
      <4> HIDE DEF L, e
      <4>1. L + i \in 1 .. M /\ characters[L + i] = e[i]
        BY <1>4, <3>2
      <4> HIDE DEF M
      <4>2. read[L + i] = ReadChar(read[(L + i) - 1], characters[L + i])
        BY <1>3, <4>1
      <4> QED BY <4>1, <4>2
    <3>4. \/ Len(e) = 1 /\ HasRead(ReadChar(read[L], e[1]), SubSeq(str, 1, k))
          \/ Len(e) = 2 /\ HasRead(ReadChar(ReadChar(read[L], e[1]), e[2]), SubSeq(str, 1, k))
      <4> DEFINE text == SubSeq(str, 1, k - 1)
      <4>1. text \in Seq(Char) /\ str[k] \in Char /\ SubSeq(str, 1, k) = Append(text, str[k])
        BY DEF N
      <4> HIDE DEF text, L
      <4>2. HasRead(read[L], text)
        BY <3>1 DEF text
      <4> QED BY <4>1, <4>2, NextCharacterRead
    <3> HIDE DEF L, e
    <3>5. CASE Len(e) = 1
      <4>1. read[L + 1] = ReadChar(read[L], e[1])
        BY <3>2, <3>3, <3>5
      <4> QED BY <1>5, <3>2, <3>4, <3>5, <4>1 DEF Good
    <3>6. CASE Len(e) = 2
      <4>1. read[L + 1] = ReadChar(read[L], e[1])
        BY <3>2, <3>3, <3>6
      <4>2. read[L + 2] = ReadChar(read[L + 1], e[2])
        BY <3>2, <3>3, <3>6
      <4> QED BY <1>5, <3>2, <3>4, <3>6, <4>1, <4>2 DEF Good
    <3> QED BY <3>4, <3>5, <3>6
  <2>3. N \in Good
    <3>1. Good \in SUBSET (0 .. N)
      OBVIOUS
    <3> HIDE DEF Good
    <3>2. Good = 0 .. N
      BY <1>2, <2>1, <2>2, <3>1, StepByStep
    <3> QED BY <1>2, <3>2
  <2>4. SubSeq(str, 1, N) = str
    BY DEF N
  <2> QED BY <2>3, <2>4 DEF escaped
<1> DEFINE end == read[Len(escaped)]
<1>8. read[M] = ReadChar(end, "quote")
  <2>1. M \in 1 .. M /\ M - 1 = Len(escaped)
    BY <1>4
  <2> HIDE DEF M
  <2>2. read[M] = ReadChar(read[M - 1], characters[M])
    BY <1>3, <2>1
  <2> QED BY <1>4, <2>1, <2>2
<1> HIDE DEF end
<1>9. ReadChar(end, "quote") = [end EXCEPT !.stop = TRUE]
  BY <1>7 DEF ReadChar, HasRead, end
<1>10. LET r == [end EXCEPT !.stop = TRUE] IN r.text = str /\ r.stop /\ ~r.rest
  BY <1>7 DEF HasRead, Reading, end
<1> QED BY <1>1, <1>3, <1>8, <1>9, <1>10 DEF escaped

--------------------------------------------------------------------------------
(* What ujson.loads makes of the dump.                                     *)

\* An object says what the record of a member, or of a type, holds; but offsets, which
\* the script changes.
SaysMember(o, m) ==
  /\ Has(o, "offset")
  /\ Named(o) <=> m.name_ # 0
  /\ Has(o, "type_id") <=> m.type_id_ # 0
  /\ Has(o, "type_id") => o["type_id"] = m.type_id_

SaysMembers(members, e) ==
  /\ members = [j \in 1 .. Len(e.members_) |-> members[j]]
  /\ \A j \in 1 .. Len(e.members_) : SaysMember(members[j], e.members_[j])

SaysType(o, e) ==
  /\ Has(o, "type") /\ (o["type"] \in {"class", "struct"} <=> e.type_ = "class_type")
  /\ Has(o, "size") <=> e.size_ # 0
  /\ Has(o, "size") => o["size"] = e.size_
  /\ Named(o) <=> e.name_ # 0
  /\ Named(o) => o["name"] = Text[e.name_]
  /\ Has(o, "members") <=> e.members_ # <<>>

Says(o, e) == SaysType(o, e) /\ (Has(o, "members") => SaysMembers(o["members"], e))

HasText(name) == name \in {0} \union DOMAIN Text

\* A reader that refuses some characters accepts the name.
Accepts(refused, name) == name # 0 => Range(Text[name]) \cap refused = {}

LEMMA NameWritten ==
  ASSUME NEW name, HasText(name), name # 0
  PROVE  LET read == ReadString(NameJson(name)) IN
         /\ read.text = Text[name]
         /\ \A refused : WholeString(read, refused) <=> Accepts(refused, name)
<1>1. Text[name] \in Seq(Char)
  BY TextAssumption DEF HasText, Range
<1>2. NameJson(name) = EscapeJsonString(Text[name])
  BY DEF NameJson
<1>3. LET read == ReadString(NameJson(name)) IN
      read.text = Text[name] /\ read.stop /\ ~read.rest
  BY <1>1, <1>2, ReadAsWritten
<1> QED BY <1>3 DEF WholeString, Accepts

LEMMA MemberWritten ==
  ASSUME NEW m, HasText(m.name_)
  PROVE  /\ \A refused : WholeObject(MemberJson(m), refused) <=> Accepts(refused, m.name_)
         /\ SaysMember(ReadObject(MemberJson(m)), m)
         /\ ReadObject(MemberJson(m))["offset"] = m.offset_
<1> DEFINE o == MemberJson(m)
<1>1. /\ o = [key \in DOMAIN o |-> o[key]]
      /\ "offset" \in DOMAIN o /\ o["offset"] = m.offset_
      /\ "name" \in DOMAIN o <=> m.name_ # 0
      /\ "name" \in DOMAIN o => o["name"] = NameJson(m.name_)
      /\ "type_id" \in DOMAIN o <=> m.type_id_ # 0
      /\ "type_id" \in DOMAIN o => o["type_id"] = m.type_id_
  BY DEF MemberJson, Restrict, NotZero
<1> HIDE DEF o
<1>2. CASE m.name_ = 0
  BY <1>1, <1>2 DEF WholeObject, Named, ReadObject, SaysMember, Has, Accepts, o
<1>3. CASE m.name_ # 0
  <2>1. /\ ReadString(o["name"]).text = Text[m.name_]
        /\ \A refused : WholeString(ReadString(o["name"]), refused) <=> Accepts(refused, m.name_)
    BY <1>1, <1>3, NameWritten
  <2>2. ReadObject(o) = [o EXCEPT !["name"] = ReadString(@).text]
    BY <1>1, <1>3 DEF ReadObject, Named
  <2> QED BY <1>1, <1>3, <2>1, <2>2 DEF WholeObject, Named, SaysMember, Has, o
<1> QED BY <1>2, <1>3

LEMMA KindWritten ==
  ASSUME NEW type \in ElementType
  PROVE  TypeName(type) \in {"class", "struct"} <=> type = "class_type"
BY DEF TypeName, ElementType

\* Loads, of one object.
ReadElement(o) ==
  IF Has(o, "members")
  THEN [ReadObject(o) EXCEPT !["members"] = [j \in DOMAIN @ |-> ReadObject(@[j])]]
  ELSE ReadObject(o)

TypedText(e) ==
  /\ e.type_ \in ElementType /\ HasText(e.name_)
  /\ e.members_ \in Seq(MemberRecord)
  /\ \A j \in 1 .. Len(e.members_) : HasText(e.members_[j].name_)

LEMMA ElementWritten ==
  ASSUME NEW e, TypedText(e)
  PROVE  LET o == ElementJson(e) IN
         /\ \A refused : WholeObject(o, refused) <=> Accepts(refused, e.name_)
         /\ DOMAIN Members(o) = 1 .. Len(e.members_)
         /\ \A refused : \A j \in 1 .. Len(e.members_) :
              WholeObject(Members(o)[j], refused) <=> Accepts(refused, e.members_[j].name_)
         /\ Says(ReadElement(o), e)
         /\ \A j \in 1 .. Len(e.members_) :
              ReadElement(o)["members"][j]["offset"] = e.members_[j].offset_
<1> DEFINE o == ElementJson(e)
           r == ReadObject(o)
           n == Len(e.members_)
           written == [j \in DOMAIN e.members_ |-> MemberJson(e.members_[j])]
<1>1. /\ o = [key \in DOMAIN o |-> o[key]]
      /\ "type" \in DOMAIN o /\ o["type"] = TypeName(e.type_)
      /\ "name" \in DOMAIN o <=> e.name_ # 0
      /\ "name" \in DOMAIN o => o["name"] = NameJson(e.name_)
      /\ "size" \in DOMAIN o <=> e.size_ # 0
      /\ "size" \in DOMAIN o => o["size"] = e.size_
      /\ "members" \in DOMAIN o <=> n # 0
      /\ "members" \in DOMAIN o => o["members"] = written
  <2> HIDE DEF written, n
  <2> QED BY DEF ElementJson, Restrict, NotZero, written, n
<1>2. n \in Nat /\ DOMAIN e.members_ = 1 .. n /\ (n # 0 <=> e.members_ # <<>>)
  BY DEF TypedText
<1>3. ASSUME NEW j \in 1 .. n
      PROVE  /\ \A refused : WholeObject(written[j], refused)
                              <=> Accepts(refused, e.members_[j].name_)
             /\ SaysMember(ReadObject(written[j]), e.members_[j])
             /\ ReadObject(written[j])["offset"] = e.members_[j].offset_
  <2>1. written[j] = MemberJson(e.members_[j]) /\ HasText(e.members_[j].name_)
    BY <1>2 DEF TypedText
  <2> QED BY <2>1, MemberWritten
<1>4. written = [j \in 1 .. n |-> written[j]] /\ DOMAIN written = 1 .. n
  BY <1>2
<1> HIDE DEF o, written, n
<1>5. /\ DOMAIN r = DOMAIN o /\ r = [key \in DOMAIN o |-> r[key]]
      /\ \A key \in DOMAIN o : key # "name" => r[key] = o[key]
      /\ "name" \in DOMAIN o => r["name"] = Text[e.name_]
      /\ \A refused : WholeObject(o, refused) <=> Accepts(refused, e.name_)
  <2>1. CASE e.name_ = 0
    BY <1>1, <2>1 DEF WholeObject, Named, ReadObject, Accepts
  <2>2. CASE e.name_ # 0
    <3>1. /\ ReadString(o["name"]).text = Text[e.name_]
          /\ \A refused : WholeString(ReadString(o["name"]), refused)
                          <=> Accepts(refused, e.name_)
      BY <1>1, <2>2, NameWritten DEF TypedText
    <3>2. r = [o EXCEPT !["name"] = ReadString(@).text]
      BY <1>1, <2>2 DEF ReadObject, Named
    <3> QED BY <1>1, <2>2, <3>1, <3>2 DEF WholeObject, Named
  <2> QED BY <2>1, <2>2
<1> HIDE DEF r
<1>6. SaysType(r, e)
  <2>1. o["type"] \in {"class", "struct"} <=> e.type_ = "class_type"
    BY <1>1, KindWritten DEF TypedText
  <2> QED BY <1>1, <1>2, <1>5, <2>1 DEF SaysType, Has, Named
<1>7. CASE n = 0
  <2>1. ~Has(o, "members") /\ ReadElement(o) = r /\ Members(o) = <<>>
    BY <1>1, <1>7 DEF Has, ReadElement, Members, r
  <2>2. ~Has(r, "members")
    BY <1>5, <2>1 DEF Has
  <2> QED BY <1>2, <1>5, <1>6, <1>7, <2>1, <2>2 DEF Says, o, n
<1>8. CASE n # 0
  <2> DEFINE members == [j \in DOMAIN written |-> ReadObject(written[j])]
  <2>1. /\ Has(o, "members") /\ Members(o) = written
        /\ r["members"] = written /\ "members" \in DOMAIN r
    BY <1>1, <1>5, <1>8 DEF Has, Members
  <2>2. ReadElement(o) = [r EXCEPT !["members"] = members]
    BY <2>1 DEF ReadElement, r
  <2>3. members = [j \in 1 .. n |-> members[j]] /\ \A j \in 1 .. n : members[j] = ReadObject(written[j])
    BY <1>4
  <2> HIDE DEF members
  <2>4. SaysMembers(members, e)
    BY <1>3, <2>3 DEF SaysMembers, n
  <2>5. /\ ReadElement(o)["members"] = members /\ DOMAIN ReadElement(o) = DOMAIN r
        /\ \A key \in DOMAIN r : key # "members" => ReadElement(o)[key] = r[key]
    BY <2>1, <2>2
  <2>6. SaysType(ReadElement(o), e)
    BY <1>6, <2>5 DEF SaysType, Has, Named
  <2>7. Says(ReadElement(o), e)
    BY <2>4, <2>5, <2>6 DEF Says
  <2>8. /\ DOMAIN Members(o) = 1 .. n
        /\ \A refused : \A j \in 1 .. n :
             WholeObject(Members(o)[j], refused) <=> Accepts(refused, e.members_[j].name_)
    BY <1>3, <1>4, <2>1
  <2>9. \A j \in 1 .. n : ReadElement(o)["members"][j]["offset"] = e.members_[j].offset_
    BY <1>3, <2>3, <2>5
  <2> QED BY <1>5, <2>7, <2>8, <2>9 DEF o, n
<1> QED BY <1>7, <1>8

LEMMA GreatestIndex ==
  ASSUME NEW n \in Nat, NEW K \in SUBSET (1 .. n), K # {}
  PROVE  \E k \in K : \A j \in K : j <= k
<1> DEFINE T == {n - k : k \in K}
<1>1. T \in SUBSET Nat /\ T # {}
  <2>1. ASSUME NEW k \in K PROVE n - k \in Nat
    OBVIOUS
  <2>2. \A t \in T : t \in Nat
    BY <2>1
  <2>3. PICK k \in K : TRUE
    OBVIOUS
  <2>4. n - k \in T
    BY <2>3
  <2> HIDE DEF T
  <2> QED BY <2>2, <2>4
<1>2. PICK t \in T : \A m \in T : t <= m
  <2> HIDE DEF T
  <2> QED BY <1>1, LeastNatural
<1>3. PICK k \in K : t = n - k
  OBVIOUS
<1>4. ASSUME NEW j \in K PROVE j <= k
  <2>1. n - k <= n - j /\ j \in 1 .. n /\ k \in 1 .. n
    BY <1>2, <1>3
  <2> QED BY <2>1
<1> QED BY <1>4

LEMMA TreeTyped ==
  ASSUME elements_ \in Trees
  PROVE  /\ elements_ \in Seq(ElementRecord) /\ WalkedTree(elements_)
         /\ \A k \in 1 .. Len(elements_) : TypedText(elements_[k]) /\ elements_[k] \in ElementRecord
<1>1. elements_ \in Seq(ElementRecord) /\ WalkedTree(elements_) /\ NamesHaveText(elements_)
  BY TreesAssumption DEF WalkedTree
<1>2. ASSUME NEW k \in 1 .. Len(elements_)
      PROVE  TypedText(elements_[k]) /\ elements_[k] \in ElementRecord
  <2> DEFINE e == elements_[k]
  <2>1. e \in ElementRecord /\ k \in DOMAIN elements_
    BY <1>1
  <2>2. {e.name_} \union {m.name_ : m \in Range(e.members_)} \subseteq {0} \union DOMAIN Text
    BY <1>1, <2>1 DEF NamesHaveText
  <2> HIDE DEF e
  <2>3. e.type_ \in ElementType /\ e.members_ \in Seq(MemberRecord) /\ HasText(e.name_)
    BY <2>1, <2>2 DEF ElementRecord, HasText
  <2>4. ASSUME NEW j \in 1 .. Len(e.members_) PROVE HasText(e.members_[j].name_)
    <3>1. e.members_[j] \in Range(e.members_)
      BY <2>3 DEF Range
    <3> QED BY <2>2, <3>1 DEF HasText
  <2>5. TypedText(e)
    BY <2>3, <2>4 DEF TypedText
  <2> QED BY <2>1, <2>5 DEF e
<1> QED BY <1>1, <1>2

\* A name that is refused is one of those a type or its members have.
LEMMA AllAccepted ==
  ASSUME elements_ \in Trees, NEW refused
  PROVE  (\A k \in 1 .. Len(elements_) :
            /\ Accepts(refused, elements_[k].name_)
            /\ \A j \in 1 .. Len(elements_[k].members_) :
                 Accepts(refused, elements_[k].members_[j].name_))
         <=> ~NamesHave(refused)
<1> DEFINE Names(e) == ({e.name_} \union {m.name_ : m \in Range(e.members_)}) \ {0}
           Clean(name) == Range(Text[name]) \cap refused = {}
<1>1. ASSUME NEW k \in 1 .. Len(elements_)
      PROVE  (\A name \in Names(elements_[k]) : Clean(name))
             <=> /\ Accepts(refused, elements_[k].name_)
                 /\ \A j \in 1 .. Len(elements_[k].members_) :
                      Accepts(refused, elements_[k].members_[j].name_)
  <2> DEFINE members == elements_[k].members_
  <2>1. members \in Seq(MemberRecord)
    BY TreeTyped DEF TypedText
  <2> HIDE DEF members
  <2>2. DOMAIN members = 1 .. Len(members)
    BY <2>1
  <2>3. Range(members) = {members[j] : j \in 1 .. Len(members)}
    BY <2>2 DEF Range
  <2> HIDE DEF Clean
  <2>4. \A name : Accepts(refused, name) <=> (name # 0 => Clean(name))
    BY DEF Accepts, Clean
  <2> QED BY <2>3, <2>4 DEF members
<1>2. DOMAIN elements_ = 1 .. Len(elements_)
  BY TreeTyped
<1>3. Range(elements_) = {elements_[k] : k \in 1 .. Len(elements_)}
  BY <1>2 DEF Range
<1>4. NamesHave(refused) <=> \E e \in Range(elements_) : \E name \in Names(e) : ~Clean(name)
  BY DEF NamesHave
<1> HIDE DEF Names, Clean
<1> QED BY <1>1, <1>3, <1>4

LEMMA DumpLoads ==
  ASSUME elements_ \in Trees
  PROVE  LET loaded == Loads(GenerateJson) IN
         /\ \A refused : Parsable(GenerateJson, refused) <=> ~NamesHave(refused)
         /\ DOMAIN loaded = {elements_[k].id_ : k \in DOMAIN elements_}
         /\ \A key \in DOMAIN loaded : \E k \in DOMAIN elements_ :
              elements_[k].id_ = key /\ loaded[key] = ReadElement(ElementJson(elements_[k]))
<1> DEFINE document == GenerateJson
           loaded == Loads(document)
           N == Len(elements_)
<1>1. /\ N \in Nat /\ DOMAIN elements_ = 1 .. N
      /\ \A k \in 1 .. N : TypedText(elements_[k])
  BY TreeTyped
<1>2. /\ DOMAIN document = 1 .. N
      /\ \A k \in 1 .. N : document[k][1] = elements_[k].id_
                           /\ document[k][2] = ElementJson(elements_[k])
  BY DEF GenerateJson
<1>3. ASSUME NEW refused PROVE Parsable(document, refused) <=> ~NamesHave(refused)
  <2> DEFINE Taken(k) == /\ Accepts(refused, elements_[k].name_)
                         /\ \A j \in 1 .. Len(elements_[k].members_) :
                              Accepts(refused, elements_[k].members_[j].name_)
  <2>1. ASSUME NEW k \in 1 .. N
        PROVE  LET o == document[k][2] IN
               /\ WholeObject(o, refused)
               /\ \A j \in DOMAIN Members(o) : WholeObject(Members(o)[j], refused)
               <=> Taken(k)
    BY <1>1, <1>2, ElementWritten
  <2>2. Parsable(document, refused) <=> \A k \in 1 .. N : Taken(k)
    <3> HIDE DEF document, N, Taken
    <3> QED BY <1>2, <2>1 DEF Parsable
  <2>3. (\A k \in 1 .. N : Taken(k)) <=> ~NamesHave(refused)
    BY <1>1, AllAccepted
  <2> QED BY <2>2, <2>3
<1> DEFINE keys == {document[k][1] : k \in DOMAIN document}
           Latest(key, k) == /\ document[k][1] = key
                             /\ \A j \in DOMAIN document : document[j][1] = key => j <= k
           Object(key) == document[CHOOSE k \in DOMAIN document : Latest(key, k)][2]
<1>4. loaded = [key \in keys |-> ReadElement(Object(key))]
  BY DEF Loads, ReadElement
<1> HIDE DEF document, N, loaded
<1>5. keys = {elements_[k].id_ : k \in DOMAIN elements_}
  BY <1>1, <1>2
<1>6. ASSUME NEW key \in keys
      PROVE  \E k \in DOMAIN elements_ :
               elements_[k].id_ = key /\ loaded[key] = ReadElement(ElementJson(elements_[k]))
  <2> DEFINE K == {k \in 1 .. N : document[k][1] = key}
  <2>1. K \in SUBSET (1 .. N) /\ K # {}
    BY <1>2
  <2>2. PICK k \in K : \A j \in K : j <= k
    <3> HIDE DEF K
    <3> QED BY <1>1, <2>1, GreatestIndex
  <2>3. k \in DOMAIN document /\ Latest(key, k)
    BY <1>2, <2>2
  <2>4. PICK c : c = CHOOSE j \in DOMAIN document : Latest(key, j)
    OBVIOUS
  <2>5. c \in DOMAIN document /\ Latest(key, c)
    <3> HIDE DEF Latest
    <3> QED BY <2>3, <2>4
  <2>6. elements_[c].id_ = key /\ document[c][2] = ElementJson(elements_[c])
        /\ c \in DOMAIN elements_
    BY <1>1, <1>2, <2>5
  <2> HIDE DEF Latest
  <2>7. loaded[key] = ReadElement(document[c][2])
    BY <1>4, <2>4
  <2> QED BY <2>6, <2>7
<1> HIDE DEF keys, Object
<1> QED BY <1>3, <1>4, <1>5, <1>6 DEF document, loaded

--------------------------------------------------------------------------------
(* The invariant.                                                          *)

\* The members of the type with an id; a placeholder has none.
Filed(key) == elements_[CHOOSE k \in DOMAIN elements_ : elements_[k].id_ = key].members_

LEMMA TypeIsOne ==
  ASSUME elements_ \in Trees, NEW k \in DOMAIN elements_, NEW c \in DOMAIN elements_,
         elements_[k].type_ # "none", elements_[c].id_ = elements_[k].id_
  PROVE  c = k
<1>1. elements_[k].id_ # 0
  BY TreeTyped DEF WalkedTree
<1>2. elements_[c].type_ # "none"
  BY <1>1, TreeTyped DEF WalkedTree
<1>3. /\ c < k => elements_[c].id_ < elements_[k].id_
      /\ k < c => elements_[k].id_ < elements_[c].id_
  BY <1>2, TreeTyped DEF WalkedTree
<1>4. elements_[k].id_ \in Nat
  <2>1. elements_[k] \in ElementRecord
    BY TreeTyped
  <2> QED BY <2>1 DEF ElementRecord
<1>5. DOMAIN elements_ \subseteq Nat
  BY TreeTyped
<1> QED BY <1>3, <1>4, <1>5

LEMMA FiledIs ==
  ASSUME elements_ \in Trees, NEW k \in DOMAIN elements_
  PROVE  Filed(elements_[k].id_) = elements_[k].members_
<1> DEFINE c == CHOOSE j \in DOMAIN elements_ : elements_[j].id_ = elements_[k].id_
<1>1. c \in DOMAIN elements_ /\ elements_[c].id_ = elements_[k].id_
  OBVIOUS
<1> HIDE DEF c
<1>2. elements_[c].members_ = elements_[k].members_
  <2>1. CASE elements_[k].type_ = "none"
    <3>1. elements_[k].id_ = 0 /\ elements_[k].members_ = <<>>
      BY <2>1, TreeTyped DEF WalkedTree
    <3>2. elements_[c].type_ = "none"
      BY <1>1, <3>1, TreeTyped DEF WalkedTree
    <3> QED BY <1>1, <3>1, <3>2, TreeTyped DEF WalkedTree
  <2>2. CASE elements_[k].type_ # "none"
    BY <1>1, <2>2, TypeIsOne
  <2> QED BY <2>1, <2>2
<1> QED BY <1>2 DEF Filed, c

Ids == {elements_[k].id_ : k \in DOMAIN elements_}

\* The members of a type of the tree, and where the dump says each is.
LEMMA FiledTyped ==
  ASSUME elements_ \in Trees, NEW key \in Ids
  PROVE  /\ Filed(key) \in Seq(MemberRecord)
         /\ \A j \in 1 .. Len(Filed(key)) : Filed(key)[j].offset_ \in Nat
         /\ \A j : Written(key, j) = Filed(key)[j].offset_
<1>1. PICK k \in DOMAIN elements_ : elements_[k].id_ = key
  BY DEF Ids
<1>2. Filed(key) = elements_[k].members_
  BY <1>1, FiledIs
<1>3. elements_[k] \in ElementRecord
  BY TreeTyped
<1>4. Filed(key) \in Seq(MemberRecord)
  BY <1>2, <1>3 DEF ElementRecord
<1>5. ASSUME NEW j \in 1 .. Len(Filed(key)) PROVE Filed(key)[j].offset_ \in Nat
  <2>1. Filed(key)[j] \in MemberRecord
    BY <1>4
  <2> QED BY <2>1 DEF MemberRecord
<1>6. ASSUME NEW j PROVE Written(key, j) = Filed(key)[j].offset_
  <2> DEFINE holders == {i \in DOMAIN elements_ : elements_[i].id_ = key}
             offsets == {elements_[e].members_[j].offset_ : e \in holders}
  <2>1. ASSUME NEW e \in holders PROVE elements_[e].members_[j].offset_ = Filed(key)[j].offset_
    <3>1. e \in DOMAIN elements_ /\ elements_[e].id_ = key
      OBVIOUS
    <3>2. Filed(key) = elements_[e].members_
      BY <3>1, FiledIs
    <3> QED BY <3>2
  <2>2. k \in holders
    BY <1>1
  <2> HIDE DEF holders
  <2>3. offsets = {Filed(key)[j].offset_}
    BY <2>1, <2>2
  <2>4. Written(key, j) = CHOOSE n \in offsets : TRUE
    BY DEF Written, holders
  <2> HIDE DEF offsets
  <2> QED BY <2>3, <2>4
<1> QED BY <1>4, <1>5, <1>6

\* The document keeps saying what it said, but for the offsets.
DataSays ==
  /\ DOMAIN data = Ids
  /\ \A key \in Ids : \E k \in DOMAIN elements_ :
       elements_[k].id_ = key /\ Says(data[key], elements_[k])

\* An offset only grows, and by every move.
OffsetAt(key, j) == data[key]["members"][j]["offset"]
OffsetsGrow ==
  \A key \in Ids : \A j \in 1 .. Len(Filed(key)) :
    /\ OffsetAt(key, j) \in Nat /\ Filed(key)[j].offset_ <= OffsetAt(key, j)
    /\ <<key, j>> \notin moved <=> OffsetAt(key, j) = Filed(key)[j].offset_

\* The calls: each inside a type with members, with a base that is the sum of the offsets
\* as they were written just if none was moved, and each made for the member before next.
Frames == [type : Ids, next : Nat \ {0}, base : Nat, place : Nat, fresh : BOOLEAN]
Calls ==
  /\ stack \in Seq(Frames) /\ Len(stack) <= MaxLevel
  /\ \A n \in 1 .. Len(stack) :
       /\ Filed(stack[n].type) # <<>> /\ stack[n].next <= Len(Filed(stack[n].type)) + 1
       /\ stack[n].place <= stack[n].base
       /\ stack[n].fresh <=> stack[n].base = stack[n].place
  /\ \A n \in 2 .. Len(stack) :
       /\ stack[n - 1].next > 1
       /\ Filed(stack[n - 1].type)[stack[n - 1].next - 1].type_id_ = stack[n].type

FoundSoFar == printed = {c \in Sized({"class_type"}) : c[1] \notin todo}

\* Every member of the types ids has a name, and down to level d those of the types inside.
NamedIn(ids) ==
  \A e \in Range(elements_) : e.id_ \in ids => \A m \in Range(e.members_) : m.name_ # 0
NamedTo(d, ids) ==
  /\ d >= 1 => NamedIn(ids)
  /\ d >= 2 => NamedIn(Inside(ids))
  /\ d >= 3 => NamedIn(Inside(Inside(ids)))
  /\ d >= 4 => NamedIn(Inside(Inside(Inside(ids))))

\* Whatever the script is through with had names.
NamedSoFar ==
  /\ \A c \in printed : (stack # <<>> /\ stack[1].type = c[1]) \/ NamedTo(4, {c[1]})
  /\ stack # <<>> => \E c \in printed : c[1] = stack[1].type
  /\ \A n \in 1 .. Len(stack) : \A j \in 1 .. stack[n].next - 1 :
       LET m == Filed(stack[n].type)[j] IN
       /\ m.name_ # 0
       /\ n = Len(stack) \/ j < stack[n].next - 1 => NamedTo(4 - n, {m.type_id_})

Ended ==
  /\ status \in {"running", "done", "KeyError"}
  /\ status = "done" => todo = {} /\ stack = <<>>
  /\ status = "KeyError" => ~AllNamed

Inv ==
  /\ elements_ \in Trees /\ nested_elements_ = <<>> /\ last_parsed_type_ \in ElementType
  /\ todo \subseteq Ids
  /\ line.fresh <=> line.offset = line.place
  /\ DataSays /\ OffsetsGrow /\ Calls /\ FoundSoFar /\ NamedSoFar /\ Ended

\* What the dump is taken for depends on its names.
Accepted == Inv /\ ~NamesHave({"broken"})
Refused ==
  /\ elements_ \in Trees /\ nested_elements_ = <<>> /\ last_parsed_type_ \in ElementType
  /\ data = <<>> /\ todo = {} /\ stack = <<>> /\ line = NoLine
  /\ status = "unparsable" /\ NamesHave({"control", "broken"})

LEMMA HaveMore ==
  /\ NamesHave({"broken"}) => NamesHave({"broken", "control"})
  /\ NamesHave({"broken", "control"}) => NamesHave({"control", "broken"})
BY DEF NamesHave

LEMMA InitRefused == Init /\ status # "running" => Refused
<1> SUFFICES ASSUME Init, status # "running" PROVE Refused
  OBVIOUS
<1>1. elements_ \in Trees /\ nested_elements_ = <<>> /\ last_parsed_type_ \in ElementType
  BY GarbageAssumption DEF Init
<1>2. PICK refused \in Refusals :
        ~Parsable(GenerateJson, refused) /\ data = <<>> /\ status = "unparsable"
  BY DEF Init
<1>3. NamesHave(refused)
  BY <1>1, <1>2, DumpLoads
<1>4. NamesHave({"control", "broken"})
  BY <1>2, <1>3, HaveMore DEF Refusals
<1>5. todo = {} /\ stack = <<>> /\ line = NoLine
  BY <1>2 DEF Init
<1> QED BY <1>1, <1>2, <1>4, <1>5 DEF Refused

LEMMA InitInv == Init /\ status = "running" => Accepted
<1> SUFFICES ASSUME Init, status = "running" PROVE Accepted
  OBVIOUS
<1> DEFINE loaded == Loads(GenerateJson)
<1>1. elements_ \in Trees /\ nested_elements_ = <<>> /\ last_parsed_type_ \in ElementType
  BY GarbageAssumption DEF Init
<1>2. PICK refused \in Refusals : Parsable(GenerateJson, refused) /\ data = loaded
  BY DEF Init
<1>3. /\ DOMAIN loaded = Ids
      /\ \A key \in Ids : \E k \in DOMAIN elements_ :
           elements_[k].id_ = key /\ loaded[key] = ReadElement(ElementJson(elements_[k]))
  BY <1>1, DumpLoads DEF Ids
<1> HIDE DEF loaded
<1>4. todo = Ids /\ stack = <<>> /\ printed = {} /\ line = NoLine /\ moved = {}
  BY <1>2, <1>3 DEF Init
<1>5. DataSays
  <2>1. ASSUME NEW key \in Ids
        PROVE  \E k \in DOMAIN elements_ : elements_[k].id_ = key /\ Says(data[key], elements_[k])
    <3>1. PICK k \in DOMAIN elements_ :
            elements_[k].id_ = key /\ loaded[key] = ReadElement(ElementJson(elements_[k]))
      BY <1>3
    <3>2. TypedText(elements_[k])
      BY <1>1, TreeTyped
    <3>3. Says(loaded[key], elements_[k])
      BY <3>1, <3>2, ElementWritten
    <3> QED BY <1>2, <3>1, <3>3
  <2> QED BY <1>2, <1>3, <2>1 DEF DataSays
<1>6. OffsetsGrow
  <2>1. ASSUME NEW key \in Ids, NEW j \in 1 .. Len(Filed(key))
        PROVE  OffsetAt(key, j) = Filed(key)[j].offset_ /\ Filed(key)[j].offset_ \in Nat
    <3>1. PICK k \in DOMAIN elements_ :
            elements_[k].id_ = key /\ loaded[key] = ReadElement(ElementJson(elements_[k]))
      BY <1>3
    <3>2. TypedText(elements_[k])
      BY <1>1, TreeTyped
    <3>3. Filed(key) = elements_[k].members_
      BY <1>1, <3>1, FiledIs
    <3>4. loaded[key]["members"][j]["offset"] = Filed(key)[j].offset_
      BY <3>1, <3>2, <3>3, ElementWritten
    <3> QED BY <1>1, <1>2, <3>4, FiledTyped DEF OffsetAt
  <2> QED BY <1>4, <2>1 DEF OffsetsGrow
<1>7. Calls
  BY <1>4 DEF Calls, MaxLevel
<1>8. FoundSoFar
  <2>1. ASSUME NEW c \in Sized({"class_type"}) PROVE c[1] \in Ids
    <3>1. PICK e \in Range(elements_) : c = <<e.id_, Text[e.name_]>>
      BY DEF Sized
    <3> QED BY <3>1 DEF Range, Ids
  <2> QED BY <1>4, <2>1 DEF FoundSoFar
<1>9. NamedSoFar
  BY <1>4 DEF NamedSoFar
<1>10. line.fresh <=> line.offset = line.place
  BY <1>4 DEF NoLine
<1>11. ~NamesHave({"broken"})
  <2>1. ~NamesHave(refused)
    BY <1>1, <1>2, DumpLoads
  <2> QED BY <2>1, HaveMore DEF Refusals
<1>12. Ended
  BY DEF Ended
<1> QED BY <1>1, <1>4, <1>5, <1>6, <1>7, <1>8, <1>9, <1>10, <1>11, <1>12 DEF Accepted, Inv

--------------------------------------------------------------------------------
(* What the invariant says about an object, and about names below a type.  *)

LEMMA DataIs ==
  ASSUME elements_ \in Trees, DataSays, NEW key \in Ids
  PROVE  LET members == data[key]["members"] IN
         /\ key \in DOMAIN data
         /\ Has(data[key], "members") <=> Filed(key) # <<>>
         /\ Has(data[key], "members") =>
              /\ members \in Seq(Range(members)) /\ Len(members) = Len(Filed(key))
              /\ members = [j \in 1 .. Len(Filed(key)) |-> members[j]]
              /\ \A j \in 1 .. Len(Filed(key)) : SaysMember(members[j], Filed(key)[j])
<1>1. PICK k \in DOMAIN elements_ : elements_[k].id_ = key /\ Says(data[key], elements_[k])
  BY DEF DataSays
<1>2. Filed(key) = elements_[k].members_ /\ Len(Filed(key)) \in Nat
  BY <1>1, FiledIs, FiledTyped
<1>3. Has(data[key], "members") <=> Filed(key) # <<>>
  BY <1>1, <1>2 DEF Says, SaysType
<1>4. ASSUME Has(data[key], "members")
      PROVE  LET members == data[key]["members"] IN
             /\ members \in Seq(Range(members)) /\ Len(members) = Len(Filed(key))
             /\ members = [j \in 1 .. Len(Filed(key)) |-> members[j]]
             /\ \A j \in 1 .. Len(Filed(key)) : SaysMember(members[j], Filed(key)[j])
  <2> DEFINE members == data[key]["members"]
             N == Len(Filed(key))
  <2>1. SaysMembers(members, elements_[k])
    BY <1>1, <1>4 DEF Says
  <2>2. members = [j \in 1 .. N |-> members[j]]
        /\ \A j \in 1 .. N : SaysMember(members[j], Filed(key)[j])
    BY <1>2, <2>1 DEF SaysMembers
  <2>3. N \in Nat
    BY <1>2
  <2> HIDE DEF members, N
  <2>4. DOMAIN members = 1 .. N /\ \A j \in 1 .. N : members[j] \in Range(members)
    BY <2>2 DEF Range
  <2>5. members \in Seq(Range(members)) /\ Len(members) = N
    BY <2>2, <2>3, <2>4
  <2> QED BY <2>2, <2>5 DEF members, N
<1> QED BY <1>3, <1>4 DEF DataSays

LEMMA InsideIs ==
  ASSUME elements_ \in Trees, NEW key
  PROVE  /\ key \in Ids =>
              /\ Inside({key}) = {Filed(key)[j].type_id_ : j \in 1 .. Len(Filed(key))}
              /\ NamedIn({key}) <=> \A j \in 1 .. Len(Filed(key)) : Filed(key)[j].name_ # 0
         /\ key \notin Ids => Inside({key}) = {} /\ NamedIn({key})
<1>1. ASSUME NEW e \in Range(elements_), e.id_ = key
      PROVE  key \in Ids /\ e.members_ = Filed(key)
  <2>1. PICK k \in DOMAIN elements_ : e = elements_[k]
    BY DEF Range
  <2> QED BY <1>1, <2>1, FiledIs DEF Ids
<1>2. CASE key \in Ids
  <2>1. PICK k \in DOMAIN elements_ : elements_[k].id_ = key
    BY <1>2 DEF Ids
  <2>2. elements_[k] \in Range(elements_) /\ elements_[k].members_ = Filed(key)
    BY <2>1, FiledIs DEF Range
  <2>3. {Range(e.members_) : e \in {x \in Range(elements_) : x.id_ \in {key}}} = {Range(Filed(key))}
    BY <1>1, <2>1, <2>2
  <2>4. DOMAIN Filed(key) = 1 .. Len(Filed(key))
    BY <1>2, FiledTyped
  <2>5. UNION {Range(Filed(key))} = {Filed(key)[j] : j \in 1 .. Len(Filed(key))}
    BY <2>4 DEF Range
  <2>6. Inside({key}) = {Filed(key)[j].type_id_ : j \in 1 .. Len(Filed(key))}
    BY <2>3, <2>5 DEF Inside
  <2>7. NamedIn({key}) <=> \A m \in Range(Filed(key)) : m.name_ # 0
    BY <1>1, <2>1, <2>2 DEF NamedIn
  <2>8. NamedIn({key}) <=> \A j \in 1 .. Len(Filed(key)) : Filed(key)[j].name_ # 0
    BY <2>4, <2>7 DEF Range
  <2> QED BY <1>2, <2>6, <2>8
<1>3. CASE key \notin Ids
  BY <1>1, <1>3 DEF Inside, NamedIn
<1> QED BY <1>2, <1>3

LEMMA NamedInSplits ==
  ASSUME NEW ids
  PROVE  NamedIn(ids) <=> \A id \in ids : NamedIn({id})
BY DEF NamedIn

LEMMA InsideSplits ==
  ASSUME NEW ids, NEW t
  PROVE  t \in Inside(ids) <=> \E id \in ids : t \in Inside({id})
<1>1. ASSUME NEW some
      PROVE  t \in Inside(some) <=>
               \E e \in Range(elements_) :
                 e.id_ \in some /\ \E m \in Range(e.members_) : t = m.type_id_
  BY DEF Inside
<1>2. t \in Inside(ids) <=>
        \E e \in Range(elements_) :
          e.id_ \in ids /\ \E m \in Range(e.members_) : t = m.type_id_
  BY <1>1
<1>3. ASSUME NEW id \in ids
      PROVE  t \in Inside({id}) <=>
               \E e \in Range(elements_) :
                 e.id_ \in {id} /\ \E m \in Range(e.members_) : t = m.type_id_
  BY <1>1
<1>4. ASSUME NEW id \in ids, t \in Inside({id}) PROVE t \in Inside(ids)
  <2>1. PICK e \in Range(elements_) : e.id_ = id /\ \E m \in Range(e.members_) : t = m.type_id_
    BY <1>3, <1>4
  <2> QED BY <1>2, <2>1
<1>5. ASSUME t \in Inside(ids) PROVE \E id \in ids : t \in Inside({id})
  <2>1. PICK e \in Range(elements_) : e.id_ \in ids /\ \E m \in Range(e.members_) : t = m.type_id_
    BY <1>2, <1>5
  <2>2. e.id_ \in {e.id_}
    OBVIOUS
  <2>3. t \in Inside({e.id_})
    BY <1>3, <2>1, <2>2
  <2> QED BY <2>1, <2>3
<1> QED BY <1>4, <1>5

LEMMA NamedToNext ==
  ASSUME NEW d \in 0 .. 3, NEW ids
  PROVE  NamedTo(d + 1, ids) <=> NamedIn(ids) /\ NamedTo(d, Inside(ids))
BY DEF NamedTo

Splits(d) == \A ids : NamedTo(d, ids) <=> \A id \in ids : NamedTo(d, {id})

LEMMA SplitsNext ==
  ASSUME NEW d \in 0 .. 3, Splits(d)
  PROVE  Splits(d + 1)
<1> SUFFICES ASSUME NEW ids
             PROVE  NamedTo(d + 1, ids) <=> \A id \in ids : NamedTo(d + 1, {id})
  BY DEF Splits
<1>1. NamedTo(d + 1, ids) <=> NamedIn(ids) /\ NamedTo(d, Inside(ids))
  BY NamedToNext
<1>2. NamedTo(d, Inside(ids)) <=> \A t \in Inside(ids) : NamedTo(d, {t})
  BY DEF Splits
<1>3. ASSUME NEW id \in ids
      PROVE  /\ NamedTo(d + 1, {id}) <=> NamedIn({id}) /\ NamedTo(d, Inside({id}))
             /\ NamedTo(d, Inside({id})) <=> \A t \in Inside({id}) : NamedTo(d, {t})
  <2>1. NamedTo(d + 1, {id}) <=> NamedIn({id}) /\ NamedTo(d, Inside({id}))
    BY NamedToNext
  <2> QED BY <2>1 DEF Splits
<1>4. \A t : t \in Inside(ids) <=> \E id \in ids : t \in Inside({id})
  BY InsideSplits
<1>5. NamedIn(ids) <=> \A id \in ids : NamedIn({id})
  BY NamedInSplits
<1> QED BY <1>1, <1>2, <1>3, <1>4, <1>5

LEMMA NamedToSplits ==
  ASSUME NEW d \in 0 .. 4, NEW ids
  PROVE  NamedTo(d, ids) <=> \A id \in ids : NamedTo(d, {id})
<1>1. Splits(0)
  BY DEF Splits, NamedTo
<1>2. Splits(1)
  BY <1>1, SplitsNext
<1>3. Splits(2)
  BY <1>2, SplitsNext
<1>4. Splits(3)
  BY <1>3, SplitsNext
<1>5. Splits(4)
  BY <1>4, SplitsNext
<1>6. d = 0 \/ d = 1 \/ d = 2 \/ d = 3 \/ d = 4
  OBVIOUS
<1>7. Splits(d)
  BY <1>1, <1>2, <1>3, <1>4, <1>5, <1>6
<1> QED BY <1>7 DEF Splits

LEMMA AllNamedIs ==
  AllNamed <=> \A c \in Sized({"class_type"}) : NamedTo(4, {c[1]})
<1> DEFINE found == {c[1] : c \in Sized({"class_type"})}
<1>1. AllNamed <=> NamedTo(4, found)
  <2>1. Shown = found \union Inside(found) \union Inside(Inside(found))
                      \union Inside(Inside(Inside(found)))
    BY DEF Shown
  <2> HIDE DEF found
  <2>2. AllNamed <=> NamedIn(Shown)
    BY DEF AllNamed, NamedIn
  <2> QED BY <2>1, <2>2 DEF NamedIn, NamedTo
<1>2. NamedTo(4, found) <=> \A id \in found : NamedTo(4, {id})
  <2>1. 4 \in 0 .. 4
    OBVIOUS
  <2> HIDE DEF found
  <2> QED BY <2>1, NamedToSplits
<1> QED BY <1>1, <1>2

LEMMA NothingInside ==
  ASSUME elements_ \in Trees, NEW d \in 0 .. 4, NEW key, key \in Ids => Filed(key) = <<>>
  PROVE  NamedTo(d, {key})
<1>1. Inside({key}) = {} /\ NamedIn({key})
  <2>1. CASE key \in Ids
    <3>1. Filed(key) = <<>> /\ 1 .. Len(<<>>) = {}
      BY <2>1
    <3>2. /\ Inside({key}) = {Filed(key)[j].type_id_ : j \in 1 .. Len(Filed(key))}
          /\ NamedIn({key}) <=> \A j \in 1 .. Len(Filed(key)) : Filed(key)[j].name_ # 0
      BY <2>1, InsideIs
    <3> QED BY <3>1, <3>2
  <2>2. CASE key \notin Ids
    BY <2>2, InsideIs
  <2> QED BY <2>1, <2>2
<1>2. Inside({}) = {} /\ NamedIn({})
  BY DEF Inside, NamedIn
<1> QED BY <1>1, <1>2 DEF NamedTo

--------------------------------------------------------------------------------
(* The steps.                                                              *)

LEMMA TreeStays ==
  ASSUME UNCHANGED builder
  PROVE  /\ Ids' = Ids /\ Sized({"class_type"})' = Sized({"class_type"})
         /\ \A key : Filed(key)' = Filed(key)
         /\ \A d, ids : NamedTo(d, ids)' <=> NamedTo(d, ids)
         /\ AllNamed' <=> AllNamed
<1>1. elements_' = elements_
  BY DEF builder
<1>2. \A key : Filed(key)' = Filed(key)
  BY <1>1 DEF Filed
<1>3. \A ids : NamedIn(ids)' <=> NamedIn(ids)
  BY <1>1 DEF NamedIn
<1>4. \A ids : Inside(ids)' = Inside(ids)
  BY <1>1 DEF Inside
<1>5. ASSUME NEW d, NEW ids PROVE NamedTo(d, ids)' <=> NamedTo(d, ids)
  BY <1>1 DEF NamedTo, NamedIn, Inside
<1>6. AllNamed' <=> AllNamed
  BY <1>1 DEF AllNamed, Shown, Sized, Inside
<1>7. Ids' = Ids /\ Sized({"class_type"})' = Sized({"class_type"})
  BY <1>1 DEF Ids, Sized
<1> QED BY <1>2, <1>5, <1>6, <1>7

LEMMA DataStays ==
  ASSUME UNCHANGED builder, UNCHANGED <<data, moved>>, DataSays, OffsetsGrow
  PROVE  DataSays' /\ OffsetsGrow'
<1>1. elements_' = elements_
  BY DEF builder
<1>2. DataSays'
  BY <1>1, TreeStays DEF DataSays
<1>3. OffsetsGrow'
  <2>1. \A key, j : OffsetAt(key, j)' = OffsetAt(key, j)
    BY DEF OffsetAt
  <2> QED BY <2>1, TreeStays DEF OffsetsGrow
<1> QED BY <1>2, <1>3

\* The classes to print are those of the tree.
LEMMA WantedIs ==
  ASSUME elements_ \in Trees, DataSays, NEW key \in Ids
  PROVE  /\ Wanted(data[key]) =>
              /\ <<key, data[key]["name"]>> \in Sized({"class_type"})
              /\ \A c \in Sized({"class_type"}) : c[1] = key => c = <<key, data[key]["name"]>>
         /\ ~Wanted(data[key]) => \A c \in Sized({"class_type"}) : c[1] # key
<1>1. PICK k \in DOMAIN elements_ : elements_[k].id_ = key /\ Says(data[key], elements_[k])
  BY DEF DataSays
<1> DEFINE e == elements_[k]
           Fits(x) == x.type_ = "class_type" /\ x.size_ = class_size /\ x.size_ # 0 /\ x.name_ # 0
<1>2. /\ Wanted(data[key]) <=> Fits(e)
      /\ Wanted(data[key]) => data[key]["name"] = Text[e.name_]
  BY <1>1 DEF Says, SaysType, Wanted
<1>3. ASSUME NEW c \in Sized({"class_type"}), c[1] = key
      PROVE  c = <<key, Text[e.name_]>> /\ Fits(e)
  <2>1. PICK x \in Range(elements_) : c = <<x.id_, Text[x.name_]>> /\ Fits(x)
    BY DEF Sized
  <2>2. PICK i \in DOMAIN elements_ : x = elements_[i]
    BY DEF Range
  <2>3. elements_[i].type_ # "none" /\ elements_[k].id_ = elements_[i].id_
    BY <1>1, <1>3, <2>1, <2>2
  <2>4. i = k
    BY <2>3, TypeIsOne
  <2> QED BY <1>1, <2>1, <2>2, <2>4
<1>4. Fits(e) => <<key, Text[e.name_]>> \in Sized({"class_type"})
  <2>1. e \in Range(elements_)
    BY DEF Range
  <2> QED BY <1>1, <2>1 DEF Sized
<1> HIDE DEF Fits, e
<1> QED BY <1>2, <1>3, <1>4

LEMMA NextClassInv ==
  ASSUME Inv, NextClass
  PROVE  Inv'
<1>1. /\ status = "running" /\ stack = <<>>
      /\ UNCHANGED builder /\ UNCHANGED <<data, line, moved, status>>
      /\ elements_' = elements_ /\ nested_elements_' = nested_elements_
      /\ last_parsed_type_' = last_parsed_type_
  BY DEF NextClass, builder
<1>2. PICK key \in todo :
        /\ todo' = todo \ {key}
        /\ \/ ~Wanted(data[key]) /\ UNCHANGED <<stack, printed>>
           \/ /\ Wanted(data[key])
              /\ printed' = printed \union {<<key, data[key]["name"]>>}
              /\ stack' = IF Has(data[key], "members") THEN <<Call(key, 0, 0, TRUE)>> ELSE <<>>
  BY DEF NextClass
<1>3. key \in Ids /\ elements_ \in Trees
  BY DEF Inv
<1>4. DataSays' /\ OffsetsGrow'
  BY <1>1, DataStays DEF Inv
<1>5. todo' \subseteq Ids'
  BY <1>1, <1>2, TreeStays DEF Inv
<1>6. FoundSoFar'
  <2>1. printed = {c \in Sized({"class_type"}) : c[1] \notin todo}
    BY DEF Inv, FoundSoFar
  <2>2. printed' = {c \in Sized({"class_type"}) : c[1] \notin todo'}
    <3>1. CASE ~Wanted(data[key])
      <4>1. \A c \in Sized({"class_type"}) : c[1] # key
        BY <1>3, <3>1, WantedIs DEF Inv
      <4> QED BY <1>2, <2>1, <3>1, <4>1
    <3>2. CASE Wanted(data[key])
      <4> DEFINE new == <<key, data[key]["name"]>>
      <4>1. /\ new \in Sized({"class_type"}) /\ new[1] = key
            /\ \A c \in Sized({"class_type"}) : c[1] = key => c = new
        BY <1>3, <3>2, WantedIs DEF Inv
      <4>2. printed' = printed \union {new}
        BY <1>2, <3>2
      <4> HIDE DEF new
      <4> QED BY <1>2, <2>1, <4>1, <4>2
    <3> QED BY <3>1, <3>2
  <2> QED BY <1>1, <2>2, TreeStays DEF FoundSoFar
<1>7. Ended'
  BY <1>1 DEF Inv, Ended
<1>8. \A c \in printed : NamedTo(4, {c[1]})
  BY <1>1 DEF Inv, NamedSoFar
<1>9. CASE stack' = <<>>
  <2>1. Calls'
    BY <1>9 DEF Calls, MaxLevel
  <2>2. \A c \in printed' : NamedTo(4, {c[1]})
    <3>1. CASE ~Wanted(data[key])
      BY <1>2, <1>8, <3>1
    <3>2. CASE Wanted(data[key])
      <4>1. ~Has(data[key], "members")
        BY <1>2, <1>9, <3>2
      <4>2. Filed(key) = <<>>
        BY <1>3, <4>1, DataIs DEF Inv
      <4>3. NamedTo(4, {key})
        <5>1. 4 \in 0 .. 4
          OBVIOUS
        <5> QED BY <1>3, <4>2, <5>1, NothingInside
      <4>4. ASSUME NEW c \in printed' PROVE NamedTo(4, {c[1]})
        <5>1. c \in printed \/ (c = <<key, data[key]["name"]>> /\ c[1] = key)
          BY <1>2, <3>2
        <5> QED BY <1>8, <4>3, <5>1
      <4> QED BY <4>4
    <3> QED BY <3>1, <3>2
  <2>3. NamedSoFar'
    BY <1>1, <1>9, <2>2, TreeStays DEF NamedSoFar
  <2> QED BY <1>1, <1>3, <1>4, <1>5, <1>6, <1>7, <2>1, <2>3 DEF Inv
<1>10. CASE stack' # <<>>
  <2>1. /\ Wanted(data[key]) /\ Has(data[key], "members")
        /\ stack' = <<Call(key, 0, 0, TRUE)>>
    BY <1>1, <1>2, <1>10
  <2> DEFINE call == Call(key, 0, 0, TRUE)
  <2>2. /\ call \in Frames /\ call.type = key /\ call.next = 1 /\ call.base = 0
        /\ call.place = 0 /\ call.fresh = TRUE
    BY <1>3 DEF Call, Frames
  <2>3. Filed(key) # <<>> /\ Len(Filed(key)) \in Nat
    BY <1>3, <2>1, DataIs, FiledTyped DEF Inv
  <2> HIDE DEF call
  <2>4. Len(stack') = 1 /\ stack'[1] = call /\ stack' \in Seq(Frames)
    <3>1. stack' = <<call>>
      BY <2>1 DEF call
    <3> QED BY <2>2, <3>1
  <2>5. Frames' = Frames
    BY <1>1, TreeStays DEF Frames
  <2>6. Calls'
    BY <1>1, <2>2, <2>3, <2>4, <2>5, TreeStays DEF Calls, MaxLevel
  <2>7. NamedSoFar'
    <3> DEFINE new == <<key, data[key]["name"]>>
    <3>1. printed' = printed \union {new} /\ new[1] = key
      BY <1>2, <2>1
    <3> HIDE DEF new
    <3>2. \A c \in printed' : c[1] = key \/ NamedTo(4, {c[1]})
      BY <1>8, <3>1
    <3>3. \E c \in printed' : c[1] = key
      BY <3>1
    <3>4. 1 .. stack'[1].next - 1 = {}
      BY <2>2, <2>4
    <3> QED BY <1>1, <1>10, <2>2, <2>4, <3>2, <3>3, <3>4, TreeStays DEF NamedSoFar
  <2> QED BY <1>1, <1>3, <1>4, <1>5, <1>6, <1>7, <2>6, <2>7 DEF Inv
<1> QED BY <1>9, <1>10

LEMMA StackTyped ==
  ASSUME Inv
  PROVE  /\ stack \in Seq(Frames) /\ Len(stack) \in 0 .. 4
         /\ stack # <<>> => Len(stack) # 0
         /\ \A n \in 1 .. Len(stack) :
              /\ stack[n] \in Frames
              /\ stack[n].type \in Ids /\ stack[n].next \in Nat /\ stack[n].next > 0
              /\ stack[n].base \in Nat /\ stack[n].place \in Nat /\ stack[n].fresh \in BOOLEAN
              /\ Len(Filed(stack[n].type)) \in Nat
<1>1. stack \in Seq(Frames) /\ Len(stack) <= 4
  BY DEF Inv, Calls, MaxLevel
<1>2. Len(stack) \in 0 .. 4 /\ (stack # <<>> => Len(stack) # 0)
  <2>1. Len(stack) \in Nat /\ (stack # <<>> => Len(stack) \in Nat \ {0})
    BY <1>1, EmptySeq
  <2>2. Len(stack) \in 0 .. 4
    <3> DEFINE L == Len(stack)
    <3>1. L \in Nat /\ L <= 4
      BY <1>1, <2>1
    <3> HIDE DEF L
    <3>2. L \in 0 .. 4
      BY <3>1
    <3> QED BY <3>2 DEF L
  <2>3. ASSUME stack # <<>> PROVE Len(stack) # 0
    BY <2>1, <2>3, Zenon
  <2> QED BY <2>2, <2>3
<1>3. ASSUME NEW n \in 1 .. Len(stack)
      PROVE  /\ stack[n] \in Frames
             /\ stack[n].type \in Ids /\ stack[n].next \in Nat /\ stack[n].next > 0
             /\ stack[n].base \in Nat /\ stack[n].place \in Nat /\ stack[n].fresh \in BOOLEAN
             /\ Len(Filed(stack[n].type)) \in Nat
  <2>1. stack[n] \in Frames
    BY <1>1
  <2>2. /\ stack[n].type \in Ids /\ stack[n].next \in Nat /\ stack[n].next > 0
        /\ stack[n].base \in Nat /\ stack[n].place \in Nat /\ stack[n].fresh \in BOOLEAN
    BY <2>1 DEF Frames
  <2>3. Filed(stack[n].type) \in Seq(MemberRecord)
    BY <2>2, FiledTyped DEF Inv
  <2>4. Len(Filed(stack[n].type)) \in Nat
    BY <2>3
  <2> QED BY <2>1, <2>2, <2>4
<1> QED BY <1>1, <1>2, <1>3

\* The innermost call, and the member it has come to.
LEMMA FrameIs ==
  ASSUME Inv, stack # <<>>
  PROVE  LET L == Len(stack) IN
         /\ L \in 1 .. 4 /\ Frame \in Frames /\ Frame = stack[L]
         /\ Filed(Frame.type) \in Seq(MemberRecord) /\ Filed(Frame.type) # <<>>
         /\ Has(data[Frame.type], "members")
         /\ FrameMembers = data[Frame.type]["members"] /\ Len(FrameMembers) = Len(Filed(Frame.type))
         /\ Frame.next <= Len(FrameMembers) + 1
<1> DEFINE L == Len(stack)
<1>1. L \in 1 .. 4 /\ stack[L] \in Frames /\ Filed(stack[L].type) # <<>>
      /\ stack[L].next <= Len(Filed(stack[L].type)) + 1
  <2>1. L \in 1 .. 4 /\ L \in 1 .. L
    BY StackTyped
  <2> HIDE DEF L
  <2>2. stack[L] \in Frames
    BY <2>1, StackTyped DEF L
  <2> QED BY <2>1, <2>2 DEF Inv, Calls, L
<1>2. Frame = stack[L] /\ Frame.type \in Ids
  BY <1>1 DEF Frame, Frames
<1>3. Filed(Frame.type) \in Seq(MemberRecord)
  BY <1>2, FiledTyped DEF Inv
<1>4. Has(data[Frame.type], "members") /\ Len(data[Frame.type]["members"]) = Len(Filed(Frame.type))
  BY <1>1, <1>2, DataIs DEF Inv
<1> QED BY <1>1, <1>2, <1>3, <1>4 DEF FrameMembers

\* The type of a call is that of a member of the type of the call before.
LEMMA CalledForMember ==
  ASSUME Inv, NEW n \in 2 .. Len(stack)
  PROVE  stack[n].type \in Inside({stack[n - 1].type})
<1>1. n - 1 \in 1 .. Len(stack) /\ stack[n - 1] \in Frames /\ stack[n - 1].type \in Ids
  <2>1. n - 1 \in 1 .. Len(stack)
    BY StackTyped
  <2> QED BY <2>1, StackTyped
<1> DEFINE key == stack[n - 1].type
           j == stack[n - 1].next - 1
<1>2. j \in 1 .. Len(Filed(key)) /\ Filed(key)[j].type_id_ = stack[n].type
  <2>1. stack[n - 1].next \in Nat /\ Len(Filed(key)) \in Nat
    BY <1>1, FiledTyped DEF Frames, Inv
  <2>2. stack[n - 1].next > 1 /\ stack[n - 1].next <= Len(Filed(key)) + 1
        /\ Filed(key)[j].type_id_ = stack[n].type
    BY <1>1 DEF Inv, Calls
  <2> HIDE DEF key
  <2> QED BY <2>1, <2>2
<1>3. Inside({key}) = {Filed(key)[i].type_id_ : i \in 1 .. Len(Filed(key))}
  BY <1>1, InsideIs DEF Inv
<1> HIDE DEF key, j
<1>4. stack[n].type \in Inside({key})
  BY <1>2, <1>3
<1> QED BY <1>4 DEF key

LEMMA NamedBelow ==
  ASSUME NEW d \in 0 .. 3, NEW key, NamedTo(d + 1, {key}), NEW t \in Inside({key})
  PROVE  NamedTo(d, {t})
<1>1. NamedTo(d, Inside({key}))
  BY NamedToNext
<1>2. NamedTo(d, Inside({key})) <=> \A id \in Inside({key}) : NamedTo(d, {id})
  <2>1. d \in 0 .. 4
    OBVIOUS
  <2> QED BY <2>1, NamedToSplits
<1> QED BY <1>1, <1>2

\* When all names are there, those of the members the script is at are.
LEMMA NamesAtFrame ==
  ASSUME Inv, stack # <<>>, AllNamed
  PROVE  NamedIn({Frame.type})
<1> DEFINE L == Len(stack)
<1>1. L \in 1 .. 4 /\ Frame = stack[L]
  BY FrameIs
<1>2. NamedTo(4, {stack[1].type})
  <2>1. PICK c \in printed : c[1] = stack[1].type
    BY DEF Inv, NamedSoFar
  <2>2. c \in Sized({"class_type"})
    BY <2>1 DEF Inv, FoundSoFar
  <2> QED BY <2>1, <2>2, AllNamedIs
<1>3. L >= 2 => NamedTo(3, {stack[2].type})
  <2> SUFFICES ASSUME L >= 2 PROVE NamedTo(3, {stack[2].type})
    OBVIOUS
  <2>1. stack[2].type \in Inside({stack[1].type})
    <3>1. 2 \in 2 .. L /\ 2 - 1 = 1
      BY <1>1
    <3> QED BY <3>1, CalledForMember
  <2>2. 3 \in 0 .. 3 /\ 3 + 1 = 4
    OBVIOUS
  <2>3. NamedTo(3 + 1, {stack[1].type})
    BY <1>2, <2>1, <2>2
  <2> QED BY <2>1, <2>2, <2>3, NamedBelow
<1>4. L >= 3 => NamedTo(2, {stack[3].type})
  <2> SUFFICES ASSUME L >= 3 PROVE NamedTo(2, {stack[3].type})
    OBVIOUS
  <2>1. stack[3].type \in Inside({stack[2].type}) /\ L >= 2
    <3>1. 3 \in 2 .. L /\ 3 - 1 = 2
      BY <1>1
    <3> QED BY <1>1, <3>1, CalledForMember
  <2>2. 2 \in 0 .. 3 /\ 2 + 1 = 3
    OBVIOUS
  <2>3. NamedTo(2 + 1, {stack[2].type})
    BY <1>3, <2>1, <2>2
  <2> QED BY <2>1, <2>2, <2>3, NamedBelow
<1>5. L >= 4 => NamedTo(1, {stack[4].type})
  <2> SUFFICES ASSUME L >= 4 PROVE NamedTo(1, {stack[4].type})
    OBVIOUS
  <2>1. stack[4].type \in Inside({stack[3].type}) /\ L >= 3
    <3>1. 4 \in 2 .. L /\ 4 - 1 = 3
      BY <1>1
    <3> QED BY <1>1, <3>1, CalledForMember
  <2>2. 1 \in 0 .. 3 /\ 1 + 1 = 2
    OBVIOUS
  <2>3. NamedTo(1 + 1, {stack[3].type})
    BY <1>4, <2>1, <2>2
  <2> QED BY <2>1, <2>2, <2>3, NamedBelow
<1>6. ASSUME NEW d \in 1 .. 4, NEW t, NamedTo(d, {t}) PROVE NamedIn({t})
  BY <1>6 DEF NamedTo
<1> HIDE DEF L
<1>7. \/ L = 1 /\ NamedTo(4, {stack[L].type})
      \/ L = 2 /\ NamedTo(3, {stack[L].type})
      \/ L = 3 /\ NamedTo(2, {stack[L].type})
      \/ L = 4 /\ NamedTo(1, {stack[L].type})
  <2>1. CASE L = 1
    BY <1>2, <2>1
  <2>2. CASE L = 2
    BY <1>3, <2>2
  <2>3. CASE L = 3
    BY <1>4, <2>3
  <2>4. CASE L = 4
    BY <1>5, <2>4
  <2> QED BY <1>1, <2>1, <2>2, <2>3, <2>4
<1>8. NamedIn({stack[L].type})
  <2>1. 1 \in 1 .. 4 /\ 2 \in 1 .. 4 /\ 3 \in 1 .. 4 /\ 4 \in 1 .. 4
    OBVIOUS
  <2> QED BY <1>6, <1>7, <2>1
<1> QED BY <1>1, <1>8

LEMMA FrontIs ==
  ASSUME NEW S, NEW s \in Seq(S), s # <<>>
  PROVE  /\ Front(s) \in Seq(S) /\ Len(Front(s)) = Len(s) - 1
         /\ \A i \in 1 .. Len(s) - 1 : Front(s)[i] = s[i]
<1> DEFINE n == Len(s) - 1
           f == SubSeq(s, 1, n)
<1>1. Len(s) \in Nat \ {0} /\ \A i \in 1 .. Len(s) : s[i] \in S
  BY EmptySeq, ElementOfSeq
<1>2. n \in Nat /\ 1 \in Int /\ n \in Int /\ \A i \in 1 .. n : s[i] \in S
  BY <1>1
<1> HIDE DEF n
<1>3. /\ f \in Seq(S) /\ Len(f) = IF 1 <= n THEN n - 1 + 1 ELSE 0
      /\ \A i \in 1 .. n - 1 + 1 : f[i] = s[1 + i - 1]
  BY ONLY <1>2, SubSeqProperties
<1> HIDE DEF f
<1>4. Len(f) = n /\ \A i \in 1 .. n : i \in 1 .. n - 1 + 1 /\ 1 + i - 1 = i
  BY <1>2, <1>3
<1>5. \A i \in 1 .. n : f[i] = s[i]
  BY <1>3, <1>4
<1>6. Front(s) = f
  BY DEF Front, f, n
<1> QED BY <1>3, <1>4, <1>5, <1>6 DEF n

LEMMA EndOfMembersInv ==
  ASSUME Inv, EndOfMembers
  PROVE  Inv'
<1> DEFINE L == Len(stack)
           key == Frame.type
<1>1. /\ status = "running" /\ stack # <<>> /\ Frame.next > Len(FrameMembers)
      /\ stack' = Front(stack)
      /\ UNCHANGED builder /\ UNCHANGED <<data, todo, printed, line, moved, status>>
      /\ elements_' = elements_ /\ nested_elements_' = nested_elements_
      /\ last_parsed_type_' = last_parsed_type_ /\ elements_ \in Trees
  BY DEF EndOfMembers, builder, Inv
<1>2. /\ L \in 1 .. 4 /\ Frame = stack[L] /\ Frame \in Frames
      /\ Frame.next = Len(Filed(key)) + 1 /\ Len(Filed(key)) \in Nat
  <2>1. /\ L \in 1 .. 4 /\ Frame = stack[L] /\ Frame \in Frames
        /\ Len(Filed(key)) \in Nat /\ Len(FrameMembers) = Len(Filed(key))
        /\ Frame.next <= Len(FrameMembers) + 1
    BY <1>1, FrameIs
  <2>2. Frame.next \in Nat
    BY <2>1 DEF Frames
  <2> HIDE DEF key, L
  <2> QED BY <1>1, <2>1, <2>2
<1>3. stack \in Seq(Frames)
  BY DEF Inv, Calls
<1>4. /\ stack' \in Seq(Frames) /\ Len(stack') = L - 1
      /\ \A i \in 1 .. L - 1 : stack'[i] = stack[i]
  BY <1>1, <1>3, FrontIs
<1>5. DataSays' /\ OffsetsGrow'
  BY <1>1, DataStays DEF Inv
<1>6. todo' \subseteq Ids' /\ FoundSoFar' /\ Ended' /\ (line.fresh <=> line.offset = line.place)'
  BY <1>1, TreeStays DEF Inv, FoundSoFar, Ended
<1>7. Calls'
  <2>1. Frames' = Frames
    BY <1>1, TreeStays DEF Frames
  <2>2. ASSUME NEW n \in 1 .. L - 1 PROVE n \in 1 .. L /\ stack'[n] = stack[n]
    BY <1>2, <1>4
  <2>3. ASSUME NEW n \in 2 .. L - 1 PROVE n \in 2 .. L /\ n \in 1 .. L - 1 /\ n - 1 \in 1 .. L - 1
    BY <1>2
  <2>4. /\ L <= MaxLevel
        /\ \A n \in 1 .. L :
             /\ Filed(stack[n].type) # <<>> /\ stack[n].next <= Len(Filed(stack[n].type)) + 1
             /\ stack[n].place <= stack[n].base
             /\ stack[n].fresh <=> stack[n].base = stack[n].place
        /\ \A n \in 2 .. L :
             /\ stack[n - 1].next > 1
             /\ Filed(stack[n - 1].type)[stack[n - 1].next - 1].type_id_ = stack[n].type
    BY DEF Inv, Calls
  <2> HIDE DEF L
  <2>5. L - 1 <= MaxLevel
    BY <1>2, <2>4 DEF MaxLevel
  <2>6. ASSUME NEW n \in 2 .. L - 1
        PROVE  /\ stack'[n - 1].next > 1
               /\ Filed(stack'[n - 1].type)[stack'[n - 1].next - 1].type_id_ = stack'[n].type
    BY <2>2, <2>3, <2>4
  <2>7. \A n \in 1 .. Len(stack') :
          /\ Filed(stack'[n].type) # <<>> /\ stack'[n].next <= Len(Filed(stack'[n].type)) + 1
          /\ stack'[n].place <= stack'[n].base
          /\ stack'[n].fresh <=> stack'[n].base = stack'[n].place
    BY <1>4, <2>2, <2>4
  <2>8. stack' \in Seq(Frames') /\ Len(stack') <= MaxLevel'
    BY <1>4, <2>1, <2>5 DEF MaxLevel
  <2>9. \A n \in 2 .. Len(stack') :
          /\ stack'[n - 1].next > 1
          /\ Filed(stack'[n - 1].type)[stack'[n - 1].next - 1].type_id_ = stack'[n].type
    BY <1>4, <2>6
  <2>10. \A key_ : Filed(key_)' = Filed(key_)
    BY <1>1, TreeStays
  <2> HIDE DEF Calls
  <2> QED BY <2>7, <2>8, <2>9, <2>10 DEF Calls
<1>8. NamedTo(5 - L, {key})
  <2>1. key \in Ids /\ 4 - L \in 0 .. 3 /\ (4 - L) + 1 = 5 - L /\ 4 - L \in 0 .. 4
    <3>1. key \in Ids
      BY <1>2 DEF Frames
    <3> HIDE DEF key, L
    <3> QED BY <1>2, <3>1
  <2>2. ASSUME NEW j \in 1 .. Len(Filed(key))
        PROVE  Filed(key)[j].name_ # 0 /\ NamedTo(4 - L, {Filed(key)[j].type_id_})
    <3>1. stack[L].next - 1 = Len(Filed(key)) /\ L \in 1 .. L
      <4>1. stack[L].next = Len(Filed(key)) + 1
        BY <1>2
      <4> HIDE DEF L, key
      <4> QED BY <1>2, <4>1
    <3>2. j \in 1 .. stack[L].next - 1 /\ stack[L].type = key
      BY <1>2, <3>1
    <3> HIDE DEF key
    <3> QED BY <3>1, <3>2 DEF Inv, NamedSoFar
  <2>3. NamedIn({key}) /\ \A t \in Inside({key}) : NamedTo(4 - L, {t})
    <3>1. /\ Inside({key}) = {Filed(key)[j].type_id_ : j \in 1 .. Len(Filed(key))}
          /\ NamedIn({key}) <=> \A j \in 1 .. Len(Filed(key)) : Filed(key)[j].name_ # 0
      BY <1>1, <2>1, InsideIs
    <3> HIDE DEF key, L
    <3> QED BY <2>2, <3>1
  <2>4. NamedTo(4 - L, Inside({key}))
    BY <2>1, <2>3, NamedToSplits
  <2>5. NamedTo((4 - L) + 1, {key})
    BY <2>1, <2>3, <2>4, NamedToNext
  <2> QED BY <2>1, <2>5
<1>9. NamedSoFar'
  <2>1. ASSUME NEW c \in printed
        PROVE  (stack' # <<>> /\ stack'[1].type = c[1]) \/ NamedTo(4, {c[1]})
    <3>1. stack[1].type = c[1] \/ NamedTo(4, {c[1]})
      BY DEF Inv, NamedSoFar
    <3>2. CASE L = 1
      <4>1. stack[1].type = key /\ 5 - L = 4
        BY <1>2, <3>2
      <4>2. NamedTo(4, {key})
        BY <1>8, <4>1
      <4> HIDE DEF key
      <4> QED BY <3>1, <4>1, <4>2
    <3>3. CASE L # 1
      <4>1. 1 \in 1 .. L - 1 /\ stack'[1] = stack[1] /\ stack' # <<>>
        BY <1>2, <1>4, <3>3
      <4> QED BY <3>1, <4>1
    <3> QED BY <3>2, <3>3
  <2>2. stack' # <<>> => \E c \in printed : c[1] = stack'[1].type
    <3> SUFFICES ASSUME stack' # <<>> PROVE \E c \in printed : c[1] = stack'[1].type
      OBVIOUS
    <3>1. 1 \in 1 .. L - 1
      BY <1>2, <1>4
    <3>2. stack'[1] = stack[1]
      BY <1>4, <3>1
    <3> QED BY <1>1, <3>2 DEF Inv, NamedSoFar
  <2>3. ASSUME NEW n \in 1 .. L - 1, NEW j \in 1 .. stack[n].next - 1
        PROVE  LET m == Filed(stack[n].type)[j] IN
               /\ m.name_ # 0
               /\ n = L - 1 \/ j < stack[n].next - 1 => NamedTo(4 - n, {m.type_id_})
    <3>1. n \in 1 .. L /\ n # L
      BY <1>2
    <3> DEFINE m == Filed(stack[n].type)[j]
    <3>2. m.name_ # 0 /\ (j < stack[n].next - 1 => NamedTo(4 - n, {m.type_id_}))
      BY <3>1 DEF Inv, NamedSoFar
    <3>3. ASSUME n = L - 1, ~(j < stack[n].next - 1) PROVE NamedTo(4 - n, {m.type_id_})
      <4>1. stack[n].next \in Nat
        BY <3>1, StackTyped
      <4>2. j = stack[n].next - 1
        BY <3>3, <4>1
      <4>3. L \in 2 .. L /\ L - 1 = n /\ 4 - n = 5 - L
        BY <1>2, <3>3
      <4>4. Filed(stack[L - 1].type)[stack[L - 1].next - 1].type_id_ = stack[L].type
        BY <4>3 DEF Inv, Calls
      <4>5. m.type_id_ = key
        BY <1>2, <4>2, <4>3, <4>4
      <4> HIDE DEF m, key
      <4> QED BY <1>8, <4>3, <4>5
    <3> HIDE DEF m
    <3>4. m.name_ # 0 /\ (n = L - 1 \/ j < stack[n].next - 1 => NamedTo(4 - n, {m.type_id_}))
      BY <3>2, <3>3
    <3> QED BY <3>4 DEF m
  <2> HIDE DEF L, key
  <2>4. ASSUME NEW n \in 1 .. L - 1 PROVE stack'[n] = stack[n]
    BY <1>4
  <2>5. ASSUME NEW n \in 1 .. Len(stack'), NEW j \in 1 .. stack'[n].next - 1
        PROVE  LET m == Filed(stack'[n].type)[j] IN
               /\ m.name_ # 0
               /\ n = Len(stack') \/ j < stack'[n].next - 1 => NamedTo(4 - n, {m.type_id_})
    BY <1>4, <2>3, <2>4
  <2>6. printed' = printed
    BY <1>1
  <2>7. \A c \in printed' : ((stack # <<>>)' /\ stack'[1].type = c[1]) \/ NamedTo(4, {c[1]})'
    BY <1>1, <2>1, <2>6, TreeStays
  <2>8. (stack # <<>>)' => \E c \in printed' : c[1] = stack'[1].type
    BY <2>2, <2>6
  <2>9. (\A n \in 1 .. Len(stack) : \A j \in 1 .. stack[n].next - 1 :
           LET m == Filed(stack[n].type)[j] IN
           /\ m.name_ # 0
           /\ n = Len(stack) \/ j < stack[n].next - 1 => NamedTo(4 - n, {m.type_id_}))'
    <3>1. /\ \A id : Filed(id)' = Filed(id)
          /\ \A d, ids : NamedTo(d, ids)' <=> NamedTo(d, ids)
      BY <1>1, TreeStays
    <3> HIDE DEF NamedTo, Filed
    <3> QED BY <2>5, <3>1
  <2> QED BY <2>7, <2>8, <2>9 DEF NamedSoFar
<1>10. UNCHANGED builder /\ elements_' \in Trees /\ nested_elements_' = <<>>
       /\ last_parsed_type_' \in ElementType
  BY <1>1 DEF Inv
<1> QED BY <1>5, <1>6, <1>7, <1>9, <1>10 DEF Inv

\* What moving a member does to the document.
LEMMA MoveMember ==
  ASSUME Inv, UNCHANGED builder, NEW key \in Ids, NEW k \in 1 .. Len(Filed(key)),
         NEW base \in Nat,
         data' = [data EXCEPT ![key]["members"][k] = MovedBy(data[key]["members"][k], base)],
         moved' = IF base = 0 THEN moved ELSE moved \union {<<key, k>>}
  PROVE  /\ DataSays' /\ OffsetsGrow'
         /\ LET member == MovedBy(data[key]["members"][k], base) IN
            SaysMember(member, Filed(key)[k]) /\ member["offset"] = OffsetAt(key, k) + base
<1> DEFINE members == data[key]["members"]
           member == MovedBy(members[k], base)
           moved_members == [members EXCEPT ![k] = member]
           m == Filed(key)[k]
           N == Len(Filed(key))
<1>1. /\ elements_ \in Trees /\ DataSays /\ OffsetsGrow /\ elements_' = elements_
      /\ Ids' = Ids /\ \A x : Filed(x)' = Filed(x)
  BY TreeStays DEF Inv, builder
<1>2. /\ Filed(key) \in Seq(MemberRecord) /\ N \in Nat
      /\ \A j \in 1 .. N : Filed(key)[j].offset_ \in Nat
  BY <1>1, FiledTyped
<1>3. Filed(key) # <<>>
  BY <1>2
<1>4. /\ Has(data[key], "members") /\ DOMAIN data = Ids
      /\ members = [j \in 1 .. N |-> members[j]]
      /\ \A j \in 1 .. N : SaysMember(members[j], Filed(key)[j])
  BY <1>1, <1>3, DataIs DEF DataSays
<1>5. SaysMember(members[k], m) /\ members[k]["offset"] = OffsetAt(key, k)
  BY <1>4 DEF OffsetAt
<1> HIDE DEF members, m
<1>6. /\ SaysMember(member, m) /\ member["offset"] = OffsetAt(key, k) + base
  <2>1. member = [members[k] EXCEPT !["offset"] = @ + base]
    BY DEF MovedBy
  <2> HIDE DEF member
  <2>2. /\ DOMAIN member = DOMAIN members[k] /\ "offset" \in DOMAIN member
        /\ member["offset"] = members[k]["offset"] + base
        /\ \A x \in DOMAIN member : x # "offset" => member[x] = members[k][x]
    BY <1>5, <2>1 DEF SaysMember, Has
  <2> QED BY <1>5, <2>2 DEF SaysMember, Has, Named
<1> HIDE DEF member
<1>7. /\ moved_members = [j \in 1 .. N |-> moved_members[j]]
      /\ moved_members[k] = member
      /\ \A j \in 1 .. N : j # k => moved_members[j] = members[j]
  BY <1>4
<1> HIDE DEF moved_members
<1>8. /\ DOMAIN data' = Ids /\ \A x \in Ids : x # key => data'[x] = data[x]
      /\ DOMAIN data'[key] = DOMAIN data[key] /\ data'[key]["members"] = moved_members
      /\ \A x \in DOMAIN data[key] : x # "members" => data'[key][x] = data[key][x]
  <2>1. data' = [data EXCEPT ![key] = [data[key] EXCEPT !["members"] = moved_members]]
    BY DEF moved_members, member, members
  <2> QED BY <1>4, <2>1 DEF Has
<1>9. DataSays'
  <2>1. ASSUME NEW x \in Ids
        PROVE  \E i \in DOMAIN elements_ : elements_[i].id_ = x /\ Says(data'[x], elements_[i])
    <3>1. PICK i \in DOMAIN elements_ : elements_[i].id_ = x /\ Says(data[x], elements_[i])
      BY <1>1 DEF DataSays
    <3>2. CASE x # key
      BY <1>8, <3>1, <3>2
    <3>3. CASE x = key
      <4>1. elements_[i].members_ = Filed(key)
        BY <1>1, <3>1, <3>3, FiledIs
      <4>2. SaysType(data[key], elements_[i])
        BY <3>1, <3>3 DEF Says
      <4>3. SaysType(data'[key], elements_[i])
        BY <1>8, <4>2 DEF SaysType, Has, Named
      <4>4. ASSUME NEW j \in 1 .. N PROVE SaysMember(moved_members[j], Filed(key)[j])
        BY <1>4, <1>6, <1>7 DEF m
      <4>5. SaysMembers(moved_members, elements_[i])
        BY <1>7, <4>1, <4>4 DEF SaysMembers
      <4> QED BY <1>8, <3>1, <3>3, <4>3, <4>5 DEF Says
    <3> QED BY <3>2, <3>3
  <2> QED BY <1>1, <1>8, <2>1 DEF DataSays
<1>10. OffsetsGrow'
  <2>1. ASSUME NEW x \in Ids, NEW j \in 1 .. Len(Filed(x))
        PROVE  /\ OffsetAt(x, j)' \in Nat /\ Filed(x)[j].offset_ <= OffsetAt(x, j)'
               /\ <<x, j>> \notin moved' <=> OffsetAt(x, j)' = Filed(x)[j].offset_
    <3>1. /\ OffsetAt(x, j) \in Nat /\ Filed(x)[j].offset_ <= OffsetAt(x, j)
          /\ <<x, j>> \notin moved <=> OffsetAt(x, j) = Filed(x)[j].offset_
          /\ Filed(x)[j].offset_ \in Nat
      BY <1>1, FiledTyped DEF OffsetsGrow
    <3>2. CASE x # key \/ j # k
      <4>1. OffsetAt(x, j)' = OffsetAt(x, j)
        BY <1>7, <1>8, <3>2 DEF OffsetAt, members
      <4>2. <<x, j>> \in moved' <=> <<x, j>> \in moved
        BY <3>2
      <4> QED BY <3>1, <4>1, <4>2
    <3>3. CASE x = key /\ j = k
      <4>1. OffsetAt(x, j)' = OffsetAt(x, j) + base
        BY <1>6, <1>7, <1>8, <3>3 DEF OffsetAt
      <4>2. <<x, j>> \in moved' <=> base # 0 \/ <<x, j>> \in moved
        BY <3>3
      <4> HIDE DEF N
      <4> QED BY <3>1, <4>1, <4>2
    <3> QED BY <3>2, <3>3
  <2> QED BY <1>1, <2>1 DEF OffsetsGrow
<1> QED BY <1>6, <1>9, <1>10 DEF member, members, m

\* A type without members, and what is no type, has nothing inside.
LEMMA NothingToDump ==
  ASSUME Inv, NEW t, t = 0 \/ get_members(t) = <<>>, NEW d \in 0 .. 4
  PROVE  NamedTo(d, {t})
<1>1. ASSUME t \in Ids PROVE Filed(t) = <<>>
  <2>1. CASE t = 0
    <3>1. PICK k \in DOMAIN elements_ : elements_[k].id_ = 0
      BY <1>1, <2>1 DEF Ids
    <3>2. elements_[k].type_ = "none" /\ elements_[k].members_ = <<>>
      BY <3>1, TreeTyped DEF WalkedTree, Inv
    <3> QED BY <2>1, <3>1, <3>2, FiledIs DEF Inv
  <2>2. CASE get_members(t) = <<>>
    <3>1. t \in DOMAIN data /\ Members(data[t]) = <<>>
      BY <1>1, <2>2, DataIs DEF Inv, get_members
    <3>2. CASE ~Has(data[t], "members")
      BY <1>1, <3>2, DataIs DEF Inv
    <3>3. CASE Has(data[t], "members")
      <4>1. data[t]["members"] = <<>> /\ Len(data[t]["members"]) = Len(Filed(t))
        BY <1>1, <3>1, <3>3, DataIs DEF Inv, Members
      <4>2. Filed(t) \in Seq(MemberRecord) /\ Len(Filed(t)) = 0
        BY <1>1, <4>1, FiledTyped DEF Inv
      <4> QED BY <4>2, EmptySeq
    <3> QED BY <3>2, <3>3
  <2> QED BY <2>1, <2>2
<1> QED BY <1>1, NothingInside DEF Inv

LEMMA NextMemberInv ==
  ASSUME Inv, NextMember
  PROVE  Inv'
<1> DEFINE L == Len(stack)
           key == Frame.type
           k == Frame.next
           m == Filed(key)[k]
           member == MovedBy(FrameMembers[k], Frame.base)
           inner == IF Has(member, "type_id") THEN get_members(member["type_id"]) ELSE <<>>
           place == Frame.place + Written(key, k)
           fresh == Frame.fresh /\ <<key, k>> \notin moved
           after == [stack EXCEPT ![L].next = k + 1]
           call == Call(member["type_id"], member["offset"], place, fresh)
<1>1. /\ status = "running" /\ stack # <<>> /\ k <= Len(FrameMembers)
      /\ UNCHANGED builder /\ UNCHANGED <<todo, printed>>
      /\ elements_' = elements_ /\ nested_elements_' = nested_elements_
      /\ last_parsed_type_' = last_parsed_type_ /\ elements_ \in Trees
      /\ data' = [data EXCEPT ![key]["members"][k] = member]
      /\ moved' = IF Frame.base = 0 THEN moved ELSE moved \union {<<key, k>>}
  BY DEF NextMember, builder, Inv
<1>2. \/ ~Named(member) /\ status' = "KeyError" /\ UNCHANGED <<stack, line>>
      \/ /\ Named(member) /\ status' = status
         /\ line'.fresh = fresh /\ line'.offset = member["offset"] /\ line'.place = place
         /\ stack' = IF inner # <<>> /\ L < MaxLevel THEN Append(after, call) ELSE after
  <2>1. \/ ~Named(member) /\ status' = "KeyError" /\ UNCHANGED <<stack, line>>
        \/ /\ Named(member) /\ status' = status
           /\ line' = [offset |-> member["offset"], place |-> place, fresh |-> fresh,
                       type_name |-> IF Has(member, "type_id")
                                     THEN get_type_name(member["type_id"]) ELSE <<"unk">>]
           /\ stack' = IF inner # <<>> /\ L < MaxLevel THEN Append(after, call) ELSE after
    BY DEF NextMember
  <2> HIDE DEF member, inner, place, fresh, after, call
  <2> QED BY <2>1
<1>3. /\ L \in 1 .. 4 /\ L \in 1 .. L /\ Frame = stack[L] /\ key \in Ids
      /\ k \in Nat /\ k > 0 /\ Frame.base \in Nat /\ Frame.place \in Nat /\ Frame.fresh \in BOOLEAN
      /\ Len(Filed(key)) \in Nat /\ Len(FrameMembers) = Len(Filed(key))
      /\ FrameMembers = data[key]["members"]
  <2>1. L \in 1 .. 4 /\ L \in 1 .. L /\ Frame = stack[L]
    BY <1>1, FrameIs
  <2>2. FrameMembers = data[key]["members"] /\ Len(FrameMembers) = Len(Filed(key))
    BY <1>1, FrameIs
  <2> QED BY <2>1, <2>2, StackTyped
<1>4. /\ k \in 1 .. Len(Filed(key)) /\ m.offset_ \in Nat /\ Written(key, k) = m.offset_
  <2>1. k \in 1 .. Len(Filed(key))
    BY <1>1, <1>3
  <2> QED BY <1>1, <1>3, <2>1, FiledTyped
<1>5. /\ Frame.place <= Frame.base /\ (Frame.fresh <=> Frame.base = Frame.place)
  BY <1>3 DEF Inv, Calls
<1>6. /\ DataSays' /\ OffsetsGrow'
      /\ SaysMember(member, m) /\ member["offset"] = OffsetAt(key, k) + Frame.base
  <2>1. member = MovedBy(data[key]["members"][k], Frame.base)
    BY <1>3
  <2> HIDE DEF member, key, k
  <2>2. data' = [data EXCEPT ![key]["members"][k] = MovedBy(data[key]["members"][k], Frame.base)]
    BY <1>1, <2>1
  <2> QED BY <1>1, <1>3, <1>4, <2>1, <2>2, MoveMember DEF m
<1>7. /\ OffsetAt(key, k) \in Nat /\ m.offset_ <= OffsetAt(key, k)
      /\ <<key, k>> \notin moved <=> OffsetAt(key, k) = m.offset_
  BY <1>3, <1>4 DEF Inv, OffsetsGrow
<1>8. /\ place \in Nat /\ member["offset"] \in Nat /\ fresh \in BOOLEAN
      /\ place <= member["offset"] /\ (fresh <=> member["offset"] = place)
  <2>1. place = Frame.place + m.offset_
    BY <1>4
  <2>2. fresh <=> Frame.fresh /\ <<key, k>> \notin moved
    OBVIOUS
  <2>3. fresh \in BOOLEAN
    BY <1>3
  <2> HIDE DEF member, m, key, k, place, fresh
  <2> DEFINE at == OffsetAt(key, k)
             own == m.offset_
             moves == <<key, k>> \in moved
  <2>4. at \in Nat /\ own \in Nat /\ own <= at /\ (~moves <=> at = own)
        /\ place = Frame.place + own /\ member["offset"] = at + Frame.base
        /\ (fresh <=> Frame.fresh /\ ~moves)
    BY <1>4, <1>6, <1>7, <2>1, <2>2
  <2> HIDE DEF at, own, moves
  <2>5. place \in Nat /\ member["offset"] \in Nat /\ place <= member["offset"]
    BY <1>3, <1>5, <2>4
  <2>6. (at = own /\ Frame.base = Frame.place) <=> member["offset"] = place
    BY <1>3, <1>5, <2>4
  <2> QED BY <1>5, <2>3, <2>4, <2>5, <2>6
<1>9. todo' \subseteq Ids' /\ FoundSoFar'
  BY <1>1, TreeStays DEF Inv, FoundSoFar
<1>10. CASE ~Named(member)
  <2>1. status' = "KeyError" /\ stack' = stack /\ line' = line
    BY <1>2, <1>10
  <2>2. m.name_ = 0
    BY <1>6, <1>10 DEF SaysMember
  <2>3. ~AllNamed
    <3>1. ~NamedIn({key})
      BY <1>1, <1>3, <1>4, <2>2, InsideIs
    <3> QED BY <1>1, <3>1, NamesAtFrame
  <2>4. Ended'
    BY <1>1, <2>1, <2>3, TreeStays DEF Ended
  <2>5. Frames' = Frames
    BY <1>1, TreeStays DEF Frames
  <2>6. Calls'
    <3>1. \A x : Filed(x)' = Filed(x)
      BY <1>1, TreeStays
    <3>2. Calls
      BY DEF Inv
    <3> QED BY <2>1, <2>5, <3>1, <3>2 DEF Calls
  <2>7. NamedSoFar'
    <3>1. /\ \A x : Filed(x)' = Filed(x)
          /\ \A d, ids : NamedTo(d, ids)' <=> NamedTo(d, ids)
      BY <1>1, TreeStays
    <3>2. NamedSoFar /\ printed' = printed
      BY <1>1 DEF Inv
    <3> QED BY <2>1, <3>1, <3>2 DEF NamedSoFar
  <2>8. (line.fresh <=> line.offset = line.place)'
    BY <2>1 DEF Inv
  <2> QED BY <1>1, <1>6, <1>9, <2>4, <2>6, <2>7, <2>8 DEF Inv
<1>11. CASE Named(member)
  <2>1. /\ status' = status /\ line'.fresh = fresh /\ line'.offset = member["offset"]
        /\ line'.place = place
        /\ stack' = IF inner # <<>> /\ L < MaxLevel THEN Append(after, call) ELSE after
    BY <1>2, <1>11
  <2>2. m.name_ # 0
    BY <1>6, <1>11 DEF SaysMember
  <2>3. (line.fresh <=> line.offset = line.place)'
    BY <1>8, <2>1
  <2>4. Ended'
    BY <1>1, <2>1 DEF Inv, Ended
  <2> DEFINE t == m.type_id_
             pushed == inner # <<>> /\ L < MaxLevel
  <2>5. inner # <<>> =>
          /\ member["type_id"] = t /\ t \in Ids /\ Filed(t) # <<>> /\ Len(Filed(t)) \in Nat
    <3> SUFFICES ASSUME inner # <<>>
                 PROVE  /\ member["type_id"] = t /\ t \in Ids /\ Filed(t) # <<>>
                        /\ Len(Filed(t)) \in Nat
      OBVIOUS
    <3>1. Has(member, "type_id") /\ member["type_id"] = t
      BY <1>6 DEF SaysMember
    <3> HIDE DEF member, m
    <3>2. t \in DOMAIN data /\ Members(data[t]) # <<>>
      BY <3>1 DEF get_members
    <3> HIDE DEF t
    <3>3. t \in Ids /\ Has(data[t], "members")
      BY <3>2 DEF Members, Inv, DataSays
    <3> QED BY <1>1, <3>1, <3>3, DataIs, FiledTyped DEF Inv
  <2>6. inner = <<>> => t = 0 \/ get_members(t) = <<>>
    <3> SUFFICES ASSUME inner = <<>>, t # 0 PROVE get_members(t) = <<>>
      OBVIOUS
    <3>1. Has(member, "type_id") /\ member["type_id"] = t
      BY <1>6 DEF SaysMember
    <3> HIDE DEF member, m, t
    <3> QED BY <3>1
  <2>7. /\ pushed => call \in Frames /\ call.type = t /\ call.next = 1
                     /\ call.base = member["offset"] /\ call.place = place /\ call.fresh = fresh
    <3> SUFFICES ASSUME pushed
                 PROVE  call \in Frames /\ call.type = t /\ call.next = 1
                        /\ call.base = member["offset"] /\ call.place = place /\ call.fresh = fresh
      OBVIOUS
    <3>1. member["type_id"] = t /\ t \in Ids
      BY <2>5
    <3> DEFINE offset == member["offset"]
    <3>2. call = [type |-> t, next |-> 1, base |-> offset, place |-> place, fresh |-> fresh]
      BY <3>1 DEF Call
    <3>3. offset \in Nat /\ place \in Nat /\ fresh \in BOOLEAN
      BY <1>8
    <3> HIDE DEF member, m, t, call, place, fresh, offset
    <3>4. call \in Frames
      BY <3>1, <3>2, <3>3 DEF Frames
    <3> QED BY <3>2, <3>4 DEF offset
  <2>8. /\ after \in Seq(Frames) /\ Len(after) = L
        /\ \A n \in 1 .. L : n # L => after[n] = stack[n]
        /\ after[L].type = key /\ after[L].next = k + 1 /\ after[L].base = Frame.base
        /\ after[L].place = Frame.place /\ after[L].fresh = Frame.fresh
    <3> DEFINE f == [Frame EXCEPT !.next = k + 1]
    <3>1. Frame \in Frames /\ stack \in Seq(Frames)
      BY <1>1, FrameIs DEF Inv, Calls
    <3>2. f \in Frames /\ f.type = key /\ f.next = k + 1 /\ f.base = Frame.base
          /\ f.place = Frame.place /\ f.fresh = Frame.fresh
      <4>1. k + 1 \in Nat \ {0}
        BY <1>3
      <4> DEFINE next == k + 1
      <4>2. f = [Frame EXCEPT !.next = next] /\ next \in Nat \ {0} /\ f.next = next
        BY <3>1, <4>1 DEF Frames
      <4> HIDE DEF next
      <4>3. f \in Frames
        BY <3>1, <4>2 DEF Frames
      <4> QED BY <3>1, <4>2, <4>3 DEF next, Frames
    <3>3. after = [stack EXCEPT ![L] = f]
      BY <1>3
    <3> HIDE DEF f, L, after, key, k
    <3>4. DOMAIN stack = 1 .. Len(stack)
      BY <3>1
    <3>5. after \in Seq(Frames) /\ Len(after) = Len(stack)
      <4>1. L \in 1 .. Len(stack)
        BY <1>3 DEF L
      <4> QED BY <3>1, <3>2, <3>3, <4>1, ExceptSeq
    <3> QED BY <1>3, <3>1, <3>2, <3>3, <3>4, <3>5 DEF L
  <2>9. /\ stack' \in Seq(Frames)
        /\ Len(stack') = IF pushed THEN L + 1 ELSE L
        /\ \A n \in 1 .. L : stack'[n] = after[n]
        /\ pushed => stack'[L + 1] = call
    <3>1. CASE pushed
      <4>1. stack' = Append(after, call) /\ call \in Frames
        BY <2>1, <2>7, <3>1
      <4> HIDE DEF after, call, L
      <4>2. /\ stack' \in Seq(Frames) /\ Len(stack') = Len(after) + 1
            /\ \A n \in 1 .. Len(after) : stack'[n] = after[n]
            /\ stack'[Len(after) + 1] = call
        BY <2>8, <4>1, AppendProperties
      <4> QED BY <2>8, <3>1, <4>2
    <3>2. CASE ~pushed
      <4>1. stack' = after
        BY <2>1, <3>2
      <4> HIDE DEF after, pushed, call, L
      <4> QED BY <2>8, <3>2, <4>1
    <3> QED BY <3>1, <3>2
  <2>10. pushed => L + 1 <= 4
    BY <1>3 DEF MaxLevel
  <2> HIDE DEF after, call, member, m, inner, place, fresh, key, k, L, t, pushed
  <2>11. ASSUME NEW n \in 1 .. Len(stack')
         PROVE  n \in 1 .. L \/ (pushed /\ n = L + 1)
    <3>1. CASE pushed
      <4>1. Len(stack') = L + 1
        BY <2>9, <3>1
      <4>2. n \in 1 .. L + 1
        BY <4>1
      <4> QED BY <1>3, <3>1, <4>2
    <3>2. CASE ~pushed
      <4>1. Len(stack') = L
        BY <2>9, <3>2
      <4> QED BY <4>1
    <3> QED BY <3>1, <3>2
  <2>12. Calls'
    <3>1. Frames' = Frames /\ \A x : Filed(x)' = Filed(x)
      BY <1>1, TreeStays DEF Frames
    <3>2. Len(stack') <= 4
      BY <1>3, <2>9, <2>10
    <3>3. ASSUME NEW n \in 1 .. Len(stack')
          PROVE  /\ Filed(stack'[n].type) # <<>> /\ stack'[n].next <= Len(Filed(stack'[n].type)) + 1
                 /\ stack'[n].place <= stack'[n].base
                 /\ stack'[n].fresh <=> stack'[n].base = stack'[n].place
      <4>1. n \in 1 .. L \/ (pushed /\ n = L + 1)
        BY <2>11
      <4>2. CASE n \in 1 .. L /\ n # L
        BY <2>8, <2>9, <4>2 DEF Inv, Calls, L
      <4>3. CASE n = L
        <5>1. /\ stack'[n].type = key /\ stack'[n].next = k + 1 /\ stack'[n].base = Frame.base
              /\ stack'[n].place = Frame.place /\ stack'[n].fresh = Frame.fresh
          BY <1>3, <2>8, <2>9, <4>3
        <5>2. Filed(key) # <<>> /\ k + 1 <= Len(Filed(key)) + 1
          BY <1>1, <1>3, <1>4, FrameIs DEF key
        <5> QED BY <1>5, <5>1, <5>2
      <4>4. CASE pushed /\ n = L + 1
        <5>1. stack'[n] = call /\ Filed(t) # <<>> /\ Len(Filed(t)) \in Nat
          BY <2>5, <2>9, <4>4 DEF pushed
        <5>2. 1 <= Len(Filed(t)) + 1
          BY <5>1
        <5> QED BY <1>8, <2>7, <4>4, <5>1, <5>2
      <4> QED BY <4>1, <4>2, <4>3, <4>4
    <3>4. ASSUME NEW n \in 2 .. Len(stack')
          PROVE  /\ stack'[n - 1].next > 1
                 /\ Filed(stack'[n - 1].type)[stack'[n - 1].next - 1].type_id_ = stack'[n].type
      <4>1. n \in 2 .. L \/ (pushed /\ n = L + 1)
        <5>1. n \in 1 .. Len(stack')
          BY <2>9
        <5> QED BY <1>3, <2>11, <5>1
      <4>2. CASE n \in 2 .. L
        <5>1. n \in 1 .. L /\ n - 1 \in 1 .. L /\ n - 1 # L
          BY <1>3, <4>2
        <5>2. stack'[n - 1] = stack[n - 1] /\ stack'[n].type = stack[n].type
          <6>1. stack'[n - 1] = stack[n - 1]
            BY <2>8, <2>9, <5>1
          <6>2. stack'[L].type = stack[L].type
            BY <1>3, <2>8, <2>9 DEF key
          <6>3. n # L => stack'[n] = stack[n]
            BY <2>8, <2>9, <5>1
          <6> QED BY <6>1, <6>2, <6>3
        <5>3. stack[n - 1].next > 1
              /\ Filed(stack[n - 1].type)[stack[n - 1].next - 1].type_id_ = stack[n].type
          BY <4>2 DEF Inv, Calls, L
        <5> QED BY <5>2, <5>3
      <4>3. CASE pushed /\ n = L + 1
        <5>1. n - 1 = L /\ stack'[n] = call /\ k + 1 > 1 /\ (k + 1) - 1 = k
          BY <1>3, <2>9, <4>3
        <5>2. stack'[n - 1].type = key /\ stack'[n - 1].next = k + 1
          BY <1>3, <2>8, <2>9, <5>1
        <5>3. stack'[n].type = t /\ Filed(key)[k].type_id_ = t
          BY <2>7, <4>3, <5>1 DEF t, m
        <5> QED BY <5>1, <5>2, <5>3
      <4> QED BY <4>1, <4>2, <4>3
    <3> QED BY <2>9, <3>1, <3>2, <3>3, <3>4 DEF Calls, MaxLevel
  <2>13. NamedSoFar'
    <3>1. stack[1].type = stack'[1].type /\ stack' # <<>>
      <4>1. 1 \in 1 .. L
        BY <1>3
      <4>2. stack'[1] = after[1] /\ stack' # <<>>
        <5>1. Len(stack') # 0
          BY <1>3, <2>9
        <5> QED BY <2>9, <4>1, <5>1
      <4>3. CASE L = 1
        BY <1>3, <2>8, <4>2, <4>3 DEF key
      <4>4. CASE L # 1
        BY <2>8, <4>1, <4>2, <4>4
      <4> QED BY <4>2, <4>3, <4>4
    <3>2. \A c \in printed' : ((stack # <<>>)' /\ stack'[1].type = c[1]) \/ NamedTo(4, {c[1]})'
      BY <1>1, <3>1, TreeStays DEF Inv, NamedSoFar
    <3>3. (stack # <<>>)' => \E c \in printed' : c[1] = stack'[1].type
      BY <1>1, <3>1 DEF Inv, NamedSoFar
    <3>4. ~pushed => NamedTo(4 - L, {t})
      <4> SUFFICES ASSUME ~pushed PROVE NamedTo(4 - L, {t})
        OBVIOUS
      <4>1. CASE inner = <<>>
        <5>1. 4 - L \in 0 .. 4
          BY <1>3
        <5> QED BY <2>6, <4>1, <5>1, NothingToDump
      <4>2. CASE inner # <<>>
        <5>1. 4 - L = 0
          BY <1>3, <4>2 DEF MaxLevel, pushed
        <5> QED BY <5>1 DEF NamedTo
      <4> QED BY <4>1, <4>2
    <3>5. ASSUME NEW n \in 1 .. Len(stack'), NEW j \in 1 .. stack'[n].next - 1
          PROVE  LET o == Filed(stack'[n].type)[j] IN
                 /\ o.name_ # 0
                 /\ n = Len(stack') \/ j < stack'[n].next - 1 => NamedTo(4 - n, {o.type_id_})
      <4>1. n \in 1 .. L \/ (pushed /\ n = L + 1)
        BY <2>11
      <4>2. CASE n \in 1 .. L /\ n # L
        <5>1. stack'[n] = stack[n] /\ n # Len(stack') /\ n # Len(stack)
          BY <1>3, <2>8, <2>9, <4>2 DEF L
        <5> QED BY <4>2, <5>1 DEF Inv, NamedSoFar, L
      <4>3. CASE n = L
        <5>1. stack'[n].type = key /\ stack'[n].next = k + 1 /\ (k + 1) - 1 = k /\ k - 1 < k
          BY <1>3, <2>8, <2>9, <4>3
        <5> DEFINE o == Filed(key)[j]
        <5>2. CASE j = k
          <6>1. o.name_ # 0 /\ o.type_id_ = t
            BY <2>2, <5>2 DEF m, t
          <6>2. n = Len(stack') => NamedTo(4 - n, {t})
            BY <1>3, <2>9, <3>4, <4>3
          <6> QED BY <5>1, <5>2, <6>1, <6>2
        <5>3. CASE j # k
          <6>1. j \in 1 .. k - 1
            BY <1>3, <5>1, <5>3
          <6>2. L \in 1 .. L /\ stack[L].type = key /\ stack[L].next = k
            BY <1>3 DEF key, k
          <6>3. o.name_ # 0 /\ NamedTo(4 - L, {o.type_id_})
            BY <6>1, <6>2 DEF Inv, NamedSoFar, L
          <6> QED BY <4>3, <5>1, <6>3
        <5> QED BY <5>2, <5>3
      <4>4. CASE pushed /\ n = L + 1
        <5>1. stack'[n].next = 1
          BY <2>7, <2>9, <4>4
        <5> QED BY <5>1
      <4> QED BY <4>1, <4>2, <4>3, <4>4
    <3>6. (\A n \in 1 .. Len(stack) : \A j \in 1 .. stack[n].next - 1 :
             LET o == Filed(stack[n].type)[j] IN
             /\ o.name_ # 0
             /\ n = Len(stack) \/ j < stack[n].next - 1 => NamedTo(4 - n, {o.type_id_}))'
      BY <1>1, <3>5, TreeStays
    <3> QED BY <3>2, <3>3, <3>6 DEF NamedSoFar
  <2> QED BY <1>1, <1>6, <1>9, <2>3, <2>4, <2>12, <2>13 DEF Inv
<1> QED BY <1>10, <1>11

LEMMA EndOfDataInv ==
  ASSUME Inv, EndOfData
  PROVE  Inv'
<1>1. /\ stack = <<>> /\ todo = {} /\ status' = "done"
      /\ UNCHANGED builder /\ UNCHANGED <<data, todo, stack, printed, line, moved>>
      /\ elements_' = elements_ /\ nested_elements_' = nested_elements_
      /\ last_parsed_type_' = last_parsed_type_
  BY DEF EndOfData, builder
<1>2. DataSays' /\ OffsetsGrow'
  BY <1>1, DataStays DEF Inv
<1>3. Calls' /\ NamedSoFar' /\ FoundSoFar'
  BY <1>1, TreeStays DEF Calls, NamedSoFar, FoundSoFar, Inv, MaxLevel
<1>4. Ended'
  BY <1>1 DEF Ended
<1> QED BY <1>1, <1>2, <1>3, <1>4, TreeStays DEF Inv

LEMMA StutteringInv ==
  ASSUME Inv, UNCHANGED vars
  PROVE  Inv'
<1>1. /\ UNCHANGED builder /\ UNCHANGED <<data, todo, stack, printed, line, moved, status>>
      /\ elements_' = elements_ /\ nested_elements_' = nested_elements_
      /\ last_parsed_type_' = last_parsed_type_
  BY DEF vars, script, builder
<1>2. DataSays' /\ OffsetsGrow'
  BY <1>1, DataStays DEF Inv
<1>3. \A x : Filed(x)' = Filed(x)
  BY <1>1, TreeStays
<1>4. \A d, ids : NamedTo(d, ids)' <=> NamedTo(d, ids)
  BY <1>1, TreeStays
<1>5. Calls'
  <2>1. Frames' = Frames /\ Calls
    BY <1>1, TreeStays DEF Frames, Inv
  <2> QED BY <1>1, <1>3, <2>1 DEF Calls
<1>6. NamedSoFar'
  <2>1. NamedSoFar
    BY DEF Inv
  <2> QED BY <1>1, <1>3, <1>4, <2>1 DEF NamedSoFar
<1>7. FoundSoFar' /\ Ended'
  BY <1>1, TreeStays DEF FoundSoFar, Ended, Inv
<1> QED BY <1>1, <1>2, <1>5, <1>6, <1>7, TreeStays DEF Inv

LEMMA InvKept ==
  ASSUME Inv, [Next]_vars
  PROVE  Inv'
<1>1. CASE NextClass
  BY <1>1, NextClassInv
<1>2. CASE NextMember
  BY <1>2, NextMemberInv
<1>3. CASE EndOfMembers
  BY <1>3, EndOfMembersInv
<1>4. CASE EndOfData
  BY <1>4, EndOfDataInv
<1>5. CASE UNCHANGED vars
  BY <1>5, StutteringInv
<1> QED BY <1>1, <1>2, <1>3, <1>4, <1>5 DEF Next

LEMMA InvAlways == Spec => [](Accepted \/ Refused)
<1>1. Init => Accepted \/ Refused
  BY InitInv, InitRefused
<1>2. (Accepted \/ Refused) /\ [Next]_vars => (Accepted \/ Refused)'
  <2> SUFFICES ASSUME Accepted \/ Refused, [Next]_vars PROVE Accepted' \/ Refused'
    OBVIOUS
  <2>1. elements_' = elements_
    BY DEF Next, NextClass, NextMember, EndOfMembers, EndOfData, vars, builder
  <2>2. \A chars : NamesHave(chars)' <=> NamesHave(chars)
    BY <2>1 DEF NamesHave
  <2>3. CASE Accepted
    <3>1. Inv'
      BY <2>3, InvKept DEF Accepted
    <3> QED BY <2>2, <2>3, <3>1 DEF Accepted
  <2>4. CASE Refused
    <3>1. UNCHANGED vars
      BY <2>4 DEF Refused, Next, NextClass, NextMember, EndOfMembers, EndOfData
    <3>2. Refused'
      BY <2>2, <2>4, <3>1 DEF Refused, vars, script, builder
    <3> QED BY <3>2
  <2> QED BY <2>3, <2>4
<1> QED BY <1>1, <1>2, PTL DEF Spec

--------------------------------------------------------------------------------
(* The theorems.                                                           *)

\* Whatever the script changes in the objects it has read, each keeps an offset to add to,
\* and it never goes below the fourth level.
THEOREM ScriptTyped == Spec => []TypeOK
<1>1. Accepted => TypeOK
  <2> SUFFICES ASSUME Inv PROVE TypeOK
    BY DEF Accepted
  <2>1. BuilderTypeOK
    <3>1. elements_ \in Seq(ElementRecord)
      BY TreesAssumption DEF WalkedTree, Inv
    <3> QED BY <3>1 DEF BuilderTypeOK, Inv
  <2>2. ASSUME NEW key \in DOMAIN data, NEW k \in DOMAIN Members(data[key])
        PROVE  Has(Members(data[key])[k], "offset")
    <3>1. key \in Ids
      BY DEF Inv, DataSays
    <3>2. Has(data[key], "members")
      BY <2>2 DEF Members
    <3>3. /\ Members(data[key]) = [j \in 1 .. Len(Filed(key)) |-> Members(data[key])[j]]
          /\ \A j \in 1 .. Len(Filed(key)) : SaysMember(Members(data[key])[j], Filed(key)[j])
      BY <3>1, <3>2, DataIs DEF Inv, Members
    <3>4. k \in 1 .. Len(Filed(key))
      BY <3>3
    <3> QED BY <3>3, <3>4 DEF SaysMember
  <2>3. /\ todo \subseteq DOMAIN data /\ Len(stack) <= MaxLevel
        /\ \A n \in DOMAIN stack : stack[n].type \in DOMAIN data
    <3>1. DOMAIN stack = 1 .. Len(stack) /\ \A n \in 1 .. Len(stack) : stack[n].type \in Ids
      BY StackTyped
    <3> QED BY <3>1 DEF Inv, DataSays, Calls
  <2> QED BY <2>1, <2>2, <2>3 DEF TypeOK, Inv, Ended
<1>2. Refused => TypeOK
  <2> SUFFICES ASSUME Refused PROVE TypeOK
    OBVIOUS
  <2>1. elements_ \in Seq(ElementRecord)
    BY TreesAssumption DEF WalkedTree, Refused
  <2>2. BuilderTypeOK
    BY <2>1 DEF BuilderTypeOK, Refused
  <2>3. DOMAIN data = {} /\ DOMAIN stack = {} /\ Len(stack) <= MaxLevel
    BY DEF Refused, MaxLevel
  <2> QED BY <2>2, <2>3 DEF TypeOK, Refused
<1> QED BY <1>1, <1>2, InvAlways, PTL

\* dump_members prints the true offset of a member exactly when neither it nor one it is
\* in was moved by an earlier print: the other offsets it prints are all too great.
THEOREM OffsetsExactJustOnce == Spec => []OffsetsExactOnce
<1>1. Accepted => OffsetsExactOnce
  BY DEF Accepted, Inv, OffsetsExactOnce
<1>2. Refused => OffsetsExactOnce
  BY DEF Refused, NoLine, OffsetsExactOnce
<1> QED BY <1>1, <1>2, InvAlways, PTL

\* For every tree, names and order of the keys: quotes and backslashes never make the dump
\* unparsable, a byte that is no part of a UTF-8 character always does, in any name of it;
\* and the script that has come to its end has printed the classes of the size asked for,
\* all of them and no other.
THEOREM ClassesFound == Spec => []FindsItsClasses
<1>1. Accepted => FindsItsClasses
  <2> SUFFICES ASSUME Inv, ~NamesHave({"broken"}) PROVE FindsItsClasses
    BY DEF Accepted
  <2>1. status # "unparsable"
    BY DEF Inv, Ended
  <2>2. ASSUME status = "done" PROVE printed = Sized({"class_type"})
    BY <2>2 DEF Inv, Ended, FoundSoFar
  <2> QED BY <2>1, <2>2 DEF FindsItsClasses
<1>2. Refused => FindsItsClasses
  BY DEF Refused, FindsItsClasses
<1> QED BY <1>1, <1>2, InvAlways, PTL

\* A KeyError is due to a member without a name within four levels of a class that is
\* found, and with such a member the script does not come to its end.
THEOREM UnnamedEnds == Spec => []EndsOnUnnamed
<1>1. Accepted => EndsOnUnnamed
  <2> SUFFICES ASSUME Inv PROVE EndsOnUnnamed
    BY DEF Accepted
  <2>1. ASSUME status = "done" PROVE AllNamed
    <3>1. todo = {} /\ stack = <<>>
      BY <2>1 DEF Inv, Ended
    <3>2. \A c \in Sized({"class_type"}) : NamedTo(4, {c[1]})
      BY <3>1 DEF Inv, FoundSoFar, NamedSoFar
    <3> QED BY <3>2, AllNamedIs
  <2> QED BY <2>1 DEF EndsOnUnnamed, Inv, Ended
<1>2. Refused => EndsOnUnnamed
  BY DEF Refused, EndsOnUnnamed
<1> QED BY <1>1, <1>2, InvAlways, PTL

================================================================================
