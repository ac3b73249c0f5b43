---------------------------- MODULE PipesProofs ----------------------------
(***************************************************************************)
(* The two places where bytes go through pipes, for every size of a buffer *)
(* or a pipe and every amount of bytes.                                    *)
(*                                                                         *)
(* The control channel: however the bytes are cut into reads, the events   *)
(* are those of the lines.  Lines are read byte by byte, so that half of   *)
(* it is about a recursive function, by induction on sequences.            *)
(*                                                                         *)
(* A git command: the threads lose nothing but what is beyond the limit,   *)
(* and a command is not believed before all three of them have ended.      *)
(***************************************************************************)
EXTENDS ControlChannel, PumpIo, SequenceTheorems, WellFoundedInduction, TLAPS

-----------------------------------------------------------------------------
(* Induction, from the well-foundedness of the numbers.                    *)

(* A set of numbers that is not empty has a least one.                     *)
LEMMA LeastOf ==
  ASSUME NEW T, T \subseteq Nat, T # {}
  PROVE  \E x \in T : \A y \in T : x <= y
<1> DEFINE R == OpToRel(<, Nat)
<1>1. \A x, y \in Nat : x < y => <<x, y>> \in R
  BY DEF OpToRel
<1>2. IsWellFoundedOn(R, Nat)
  BY NatLessThanWellFounded
<1> HIDE DEF R
<1>3. PICK x \in T : \A y \in T : ~ (<<y, x>> \in R)
  BY <1>2, WFMin
<1>4. ASSUME NEW y \in T PROVE x <= y
  <2>1. x \in Nat /\ y \in Nat
    OBVIOUS
  <2>2. ~(y < x)
    BY <2>1, <1>1, <1>3
  <2> QED BY <2>1, <2>2
<1> QED BY <1>4

(* Induction, with the property as a set.                                  *)
LEMMA NumberByNumber ==
  ASSUME NEW T, 0 \in T, \A n \in Nat : n \in T => n + 1 \in T
  PROVE  Nat \subseteq T
<1> SUFFICES ASSUME Nat \ T # {} PROVE FALSE
  OBVIOUS
<1>1. PICK n \in Nat \ T : \A m \in Nat \ T : n <= m
  BY LeastOf
<1>2. n # 0 /\ n - 1 \in Nat /\ (n - 1) + 1 = n /\ ~(n <= n - 1)
  BY <1>1
<1>3. n - 1 \in T
  BY <1>1, <1>2
<1> QED BY <1>1, <1>2, <1>3

LEMMA ByteByByte ==
  ASSUME NEW S, NEW T, << >> \in T,
         \A s \in Seq(S) : \A b \in S : s \in T => Append(s, b) \in T
  PROVE  Seq(S) \subseteq T
<1> DEFINE U == {n \in Nat : \A s \in Seq(S) : Len(s) = n => s \in T}
<1>1. 0 \in U
  BY EmptySeq
<1>2. ASSUME NEW n \in Nat, n \in U, NEW s \in Seq(S), Len(s) = n + 1
      PROVE  s \in T
  <2>1. s # << >>
    BY <1>2, EmptySeq
  <2>2. PICK r \in Seq(S), b \in S : s = Append(r, b)
    BY <2>1, SequenceEmptyOrAppend
  <2>3. Len(r) \in Nat /\ Len(s) = Len(r) + 1
    BY <2>2, AppendProperties, LenProperties
  <2>4. Len(r) = n
    BY <1>2, <2>3
  <2>5. r \in T
    BY <1>2, <2>4
  <2> QED BY <2>2, <2>5
<1>3. \A n \in Nat : n \in U => n + 1 \in U
  BY <1>2
<1>4. Nat \subseteq U
  <2> HIDE DEF U
  <2> QED BY <1>1, <1>3, NumberByNumber
<1> QED BY <1>4, LenProperties

LEMMA BeginningIsPrefix ==
  ASSUME NEW S, NEW p \in Seq(S), NEW q \in Seq(S)
  PROVE  IsPrefix(p, q) <=> Len(p) <= Len(q) /\ \A i \in 1..Len(p) : p[i] = q[i]
<1>1. Len(p) \in Nat /\ Len(q) \in Nat
  BY LenProperties
<1>2. SubSeq(p, 1, Len(p)) = p
  BY SubSeqFull
<1>3. ASSUME Len(p) <= Len(q)
      PROVE  p = SubSeq(q, 1, Len(p)) <=> \A i \in 1..Len(p) : p[i] = q[i]
  <2> DEFINE r == SubSeq(q, 1, Len(p))
             n == Len(p)
  <2>1. r \in Seq(S) /\ Len(r) = n /\ \A i \in 1..n : r[i] = q[i]
    BY <1>1, <1>3
  <2> HIDE DEF r
  <2>2. p = r <=> \A i \in 1..n : p[i] = r[i]
    BY <2>1, SeqEqual
  <2> QED BY <2>1, <2>2 DEF r
<1> QED BY <1>2, <1>3 DEF IsPrefix

LEMMA AppendToConcat ==
  ASSUME NEW S, NEW s \in Seq(S), NEW t \in Seq(S), NEW b \in S
  PROVE  s \o Append(t, b) = Append(s \o t, b) /\ s \o t \in Seq(S)
BY AppendIsConcat, ConcatAssociative, ConcatProperties

LEMMA RestOfConcat ==
  ASSUME NEW S, NEW u \in Seq(S), NEW z \in Seq(S)
  PROVE  SubSeq(u \o z, Len(u) + 1, Len(u \o z)) = z
<1> DEFINE w == u \o z
           k == Len(u)
           n == Len(z)
<1>1. /\ w \in Seq(S) /\ Len(w) = k + n /\ k \in Nat /\ n \in Nat
      /\ \A i \in 1..(k + n) : w[i] \in S
      /\ \A i \in 1..n : w[k + i] = z[i]
  <2>1. /\ w \in Seq(S) /\ Len(w) = k + n /\ k \in Nat /\ n \in Nat
        /\ \A i \in (k + 1)..(k + n) : w[i] = z[i - k]
    BY ConcatProperties, LenProperties
  <2> HIDE DEF w, k, n
  <2>2. ASSUME NEW i \in 1..n PROVE w[k + i] = z[i]
    <3>1. k + i \in (k + 1)..(k + n) /\ (k + i) - k = i
      BY <2>1
    <3> QED BY <2>1, <3>1
  <2> QED BY <2>1, <2>2, ElementOfSeq
<1> HIDE DEF w, k, n
<1> DEFINE v == SubSeq(w, k + 1, k + n)
<1>2. v \in Seq(S) /\ Len(v) = n /\ \A i \in 1..n : v[i] = w[k + i]
  <2>1. k + 1 \in Int /\ k + n \in Int /\ \A i \in (k + 1)..(k + n) : w[i] \in S
    BY <1>1
  <2>2. /\ v \in Seq(S)
        /\ Len(v) = IF k + 1 <= k + n THEN (k + n) - (k + 1) + 1 ELSE 0
        /\ \A i \in 1..((k + n) - (k + 1) + 1) : v[i] = w[(k + 1) + i - 1]
    BY <2>1, SubSeqProperties
  <2> HIDE DEF v
  <2>3. Len(v) = n /\ (k + n) - (k + 1) + 1 = n
    BY <1>1, <2>2
  <2>4. ASSUME NEW i \in 1..n PROVE v[i] = w[k + i]
    <3>1. (k + 1) + i - 1 = k + i
      BY <1>1
    <3> QED BY <2>2, <2>3, <3>1
  <2> QED BY <2>2, <2>3, <2>4
<1>3. v = z
  <2> HIDE DEF v
  <2> QED BY <1>1, <1>2, SeqEqual DEF n
<1> QED BY <1>1, <1>3 DEF w, k

LEMMA Joined ==
  ASSUME NEW s \in Seq(Bytes), NEW t \in Seq(Bytes), NEW u \in Seq(Bytes)
  PROVE  s \o (t \o u) = (s \o t) \o u
BY ConcatAssociative

-----------------------------------------------------------------------------
IsReading(f, bytes) ==
  f = [n \in 0..Len(bytes) |->
         IF n = 0 THEN NoBytes ELSE WithByte(f[n - 1], bytes[n])]

LEMMA LinesIs ==
  ASSUME NEW s
  PROVE  Lines(s) = (CHOOSE f : IsReading(f, s))[Len(s)]
BY DEF Lines, IsReading

LEMMA ReadingIs ==
  ASSUME NEW f, NEW s, Len(s) \in Nat
  PROVE  IsReading(f, s) =>
           /\ f[0] = NoBytes
           /\ \A n \in 1..Len(s) : f[n] = WithByte(f[n - 1], s[n])
<1> SUFFICES ASSUME IsReading(f, s)
             PROVE  /\ f[0] = NoBytes
                    /\ \A n \in 1..Len(s) : f[n] = WithByte(f[n - 1], s[n])
  OBVIOUS
<1>1. f = [n \in 0..Len(s) |->
             IF n = 0 THEN NoBytes ELSE WithByte(f[n - 1], s[n])]
  BY DEF IsReading
<1>2. 0 \in 0..Len(s)
  OBVIOUS
<1>3. f[0] = NoBytes
  BY <1>1, <1>2, Zenon
<1>4. ASSUME NEW n \in 1..Len(s) PROVE f[n] = WithByte(f[n - 1], s[n])
  <2>1. n \in 0..Len(s) /\ n # 0
    OBVIOUS
  <2> QED BY <1>1, <2>1, Zenon
<1> QED BY <1>3, <1>4

LEMMA ReadingExists ==
  ASSUME NEW S
  PROVE  \A s \in Seq(S) : \E f : IsReading(f, s)
<1> DEFINE T == {s \in Seq(S) : \E f : IsReading(f, s)}
<1>1. << >> \in T
  <2> DEFINE f == [n \in 0..Len(<< >>) |-> NoBytes]
  <2>1. \A n \in 0..Len(<< >>) : n = 0
    BY EmptySeq
  <2>2. f = [n \in 0..Len(<< >>) |->
               IF n = 0 THEN NoBytes ELSE WithByte(f[n - 1], << >>[n])]
    BY <2>1, Zenon
  <2> QED BY <2>2, EmptySeq DEF IsReading
<1>2. ASSUME NEW s \in Seq(S), NEW b \in S, s \in T
      PROVE  Append(s, b) \in T
  <2>1. PICK f : IsReading(f, s)
    BY <1>2
  <2> DEFINE r == Append(s, b)
             m == Len(s)
             g == [n \in 0..(m + 1) |-> IF n <= m THEN f[n] ELSE WithByte(f[m], b)]
  <2>2. /\ m \in Nat /\ Len(r) = m + 1 /\ r \in Seq(S)
        /\ \A n \in 1..m : r[n] = s[n]
        /\ r[m + 1] = b
    BY AppendProperties, LenProperties
  <2>3. f[0] = NoBytes /\ \A n \in 1..m : f[n] = WithByte(f[n - 1], s[n])
    BY <2>1, <2>2, ReadingIs
  <2>4. \A n \in 0..(m + 1) :
          g[n] = IF n <= m THEN f[n] ELSE WithByte(f[m], b)
    OBVIOUS
  <2> HIDE DEF r, m, g
  <2>5. ASSUME NEW n \in 0..(m + 1)
        PROVE  g[n] = IF n = 0 THEN NoBytes ELSE WithByte(g[n - 1], r[n])
    <3>1. CASE n = 0
      BY <2>2, <2>3, <2>4, <3>1
    <3>2. CASE n \in 1..m
      <4>1. n # 0 /\ n <= m /\ n - 1 \in 0..(m + 1) /\ n - 1 <= m
        BY <2>2, <3>2
      <4> QED BY <2>2, <2>3, <2>4, <3>2, <4>1
    <3>3. CASE n = m + 1
      <4>1. n # 0 /\ ~(n <= m) /\ n - 1 = m /\ m \in 0..(m + 1) /\ m <= m
        BY <2>2, <3>3
      <4> QED BY <2>2, <2>4, <3>3, <4>1
    <3> QED BY <2>2, <3>1, <3>2, <3>3
  <2>6. g = [n \in 0..(m + 1) |->
               IF n = 0 THEN NoBytes ELSE WithByte(g[n - 1], r[n])]
    <3>1. g = [n \in 0..(m + 1) |-> g[n]]
      BY DEF g
    <3> QED BY <2>5, <3>1, Zenon
  <2>7. IsReading(g, r)
    BY <2>2, <2>6 DEF IsReading
  <2> QED BY <2>2, <2>7 DEF r
<1>3. Seq(S) \subseteq T
  <2> HIDE DEF T
  <2> QED BY <1>1, <1>2, ByteByByte
<1> QED BY <1>3

(* Lines are read byte by byte.                                            *)
LEMMA LinesOfNothing == Lines(<< >>) = NoBytes
<1>1. << >> \in Seq({}) /\ Len(<< >>) = 0
  BY EmptySeq
<1>2. IsReading(CHOOSE f : IsReading(f, << >>), << >>)
  BY <1>1, ReadingExists
<1> QED BY <1>1, <1>2, ReadingIs, LinesIs

LEMMA LinesByByte ==
  ASSUME NEW S, NEW s \in Seq(S), NEW b \in S
  PROVE  Lines(Append(s, b)) = WithByte(Lines(s), b)
<1>1. \A r \in Seq(S) : IsReading(CHOOSE f : IsReading(f, r), r)
  BY ReadingExists
<1> DEFINE r == Append(s, b)
           m == Len(s)
           f == CHOOSE h : IsReading(h, s)
           g == CHOOSE h : IsReading(h, r)
<1>3. /\ m \in Nat /\ Len(r) = m + 1 /\ r \in Seq(S)
      /\ \A n \in 1..m : r[n] = s[n]
      /\ r[m + 1] = b
  BY AppendProperties, LenProperties
<1>4. f[0] = NoBytes /\ \A n \in 1..m : f[n] = WithByte(f[n - 1], s[n])
  BY <1>1, <1>3, ReadingIs
<1>5. g[0] = NoBytes /\ \A n \in 1..(m + 1) : g[n] = WithByte(g[n - 1], r[n])
  <2>1. IsReading(g, r)
    BY <1>1, <1>3
  <2> HIDE DEF g, r, m
  <2>2. Len(r) \in Nat
    BY <1>3
  <2>3. g[0] = NoBytes /\ \A n \in 1..Len(r) : g[n] = WithByte(g[n - 1], r[n])
    BY <2>1, <2>2, ReadingIs
  <2> QED BY <1>3, <2>3
<1>6. Lines(s) = f[m] /\ Lines(r) = g[m + 1]
  BY <1>3, LinesIs
<1> HIDE DEF r, m, f, g
<1>7. f[m] = g[m]
  <2> DEFINE T == {n \in Nat : n <= m => f[n] = g[n]}
  <2>1. 0 \in T
    BY <1>4, <1>5
  <2>2. ASSUME NEW n \in Nat, n \in T PROVE n + 1 \in T
    <3>1. CASE n + 1 <= m
      <4>1. /\ n + 1 \in 1..m /\ n + 1 \in 1..(m + 1) /\ n <= m
            /\ (n + 1) - 1 = n
        BY <1>3, <3>1
      <4> QED BY <1>3, <1>4, <1>5, <2>2, <4>1
    <3> QED BY <3>1
  <2>3. Nat \subseteq T
    <3> HIDE DEF T
    <3> QED BY <2>1, <2>2, NumberByNumber
  <2> QED BY <1>3, <2>3
<1>8. g[m + 1] = WithByte(g[m], r[m + 1])
  <2>1. m + 1 \in 1..(m + 1) /\ (m + 1) - 1 = m
    BY <1>3
  <2> QED BY <1>5, <2>1
<1> QED BY <1>3, <1>6, <1>7, <1>8 DEF r

(* A line and its bytes.                                                   *)
LineTypes == [done : Seq(Seq(Bytes)), rest : Seq(Bytes)]

LEMMA LinesType == \A s \in Seq(Bytes) : Lines(s) \in LineTypes
<1> DEFINE T == {s \in Seq(Bytes) : Lines(s) \in LineTypes}
<1>1. << >> \in T
  <2>1. << >> \in Seq(Seq(Bytes)) /\ << >> \in Seq(Bytes)
    BY EmptySeq
  <2>2. NoBytes \in LineTypes
    BY <2>1 DEF NoBytes, LineTypes
  <2> QED BY <2>1, <2>2, LinesOfNothing
<1>2. ASSUME NEW s \in Seq(Bytes), NEW b \in Bytes, s \in T
      PROVE  Append(s, b) \in T
  <2> DEFINE ls == Lines(s)
  <2>1. ls \in LineTypes
    BY <1>2
  <2>2. Lines(Append(s, b)) = WithByte(ls, b)
    BY LinesByByte
  <2> HIDE DEF ls
  <2>3. /\ Append(ls.done, ls.rest) \in Seq(Seq(Bytes)) /\ Append(ls.rest, b) \in Seq(Bytes)
        /\ << >> \in Seq(Bytes) /\ ls.done \in Seq(Seq(Bytes))
    BY <2>1, AppendProperties, EmptySeq DEF LineTypes
  <2>4. WithByte(ls, b) \in LineTypes
    BY <2>3 DEF WithByte, LineTypes
  <2> QED BY <2>2, <2>4, AppendProperties
<1>3. Seq(Bytes) \subseteq T
  <2> HIDE DEF T
  <2> QED BY <1>1, <1>2, ByteByByte
<1> QED BY <1>3

(* Bytes without a newline lengthen the rest of a line.                    *)
NoLine(s) == \A i \in DOMAIN s : s[i] # Newline

LEMMA RestGrows ==
  ASSUME NEW s \in Seq(Bytes)
  PROVE  \A t \in Seq(Bytes) : NoLine(t) =>
           Lines(s \o t) = [done |-> Lines(s).done, rest |-> Lines(s).rest \o t]
<1> DEFINE Grown(t) == [done |-> Lines(s).done, rest |-> Lines(s).rest \o t]
           T == {t \in Seq(Bytes) : NoLine(t) => Lines(s \o t) = Grown(t)}
<1>0. Lines(s) \in LineTypes
  BY LinesType
<1>1. << >> \in T
  <2>1. s \o << >> = s /\ Lines(s).rest \o << >> = Lines(s).rest
    BY <1>0, ConcatEmptySeq DEF LineTypes
  <2>2. Lines(s) = [done |-> Lines(s).done, rest |-> Lines(s).rest]
    BY <1>0 DEF LineTypes
  <2> QED BY <2>1, <2>2, EmptySeq
<1>2. ASSUME NEW t \in Seq(Bytes), NEW b \in Bytes, t \in T, NoLine(Append(t, b))
      PROVE  Lines(s \o Append(t, b)) = Grown(Append(t, b))
  <2>1. /\ Len(Append(t, b)) = Len(t) + 1 /\ Len(t) \in Nat /\ DOMAIN t = 1..Len(t)
        /\ DOMAIN Append(t, b) = 1..(Len(t) + 1)
        /\ \A i \in 1..Len(t) : Append(t, b)[i] = t[i]
        /\ Append(t, b)[Len(t) + 1] = b
    BY AppendProperties, LenProperties
  <2>2. NoLine(t) /\ b # Newline
    <3>1. \A i \in 1..Len(t) : i \in 1..(Len(t) + 1)
      BY <2>1
    <3>2. Len(t) + 1 \in 1..(Len(t) + 1)
      BY <2>1
    <3> QED BY <1>2, <2>1, <3>1, <3>2 DEF NoLine
  <2>3. Lines(s \o t) = Grown(t)
    BY <1>2, <2>2
  <2>4. s \o Append(t, b) = Append(s \o t, b) /\ s \o t \in Seq(Bytes)
    BY AppendToConcat
  <2>5. Lines(s \o Append(t, b)) = WithByte(Grown(t), b)
    BY <2>3, <2>4, LinesByByte
  <2>6. Lines(s).rest \o Append(t, b) = Append(Lines(s).rest \o t, b)
    BY <1>0, AppendIsConcat, ConcatAssociative, ConcatProperties DEF LineTypes
  <2> QED BY <2>2, <2>5, <2>6 DEF WithByte
<1>3. \A t \in Seq(Bytes) : \A b \in Bytes : t \in T => Append(t, b) \in T
  BY <1>2, AppendProperties
<1>4. Seq(Bytes) \subseteq T
  <2> HIDE DEF T
  <2> QED BY <1>1, <1>3, ByteByByte
<1> QED BY <1>4

(* All of the lines are short, and so they are in what was written before. *)
AllShort(s) ==
  (\A i \in DOMAIN Lines(s).done : Short(Lines(s).done[i])) /\ Short(Lines(s).rest)

LEMMA ShortBefore ==
  ASSUME NEW s \in Seq(Bytes)
  PROVE  \A t \in Seq(Bytes) : AllShort(s \o t) => AllShort(s)
<1> DEFINE T == {t \in Seq(Bytes) : AllShort(s \o t) => AllShort(s)}
<1>1. << >> \in T
  BY ConcatEmptySeq, EmptySeq
<1>2. ASSUME NEW r \in Seq(Bytes), NEW b \in Bytes, AllShort(Append(r, b))
      PROVE  AllShort(r)
  <2> DEFINE ls == Lines(r)
  <2>1. ls \in LineTypes /\ Lines(Append(r, b)) = WithByte(ls, b)
    BY LinesType, LinesByByte
  <2>2. (\A i \in DOMAIN WithByte(ls, b).done : Short(WithByte(ls, b).done[i]))
          /\ Short(WithByte(ls, b).rest)
    BY <1>2, <2>1 DEF AllShort
  <2> HIDE DEF ls
  <2>3. (\A i \in DOMAIN ls.done : Short(ls.done[i])) /\ Short(ls.rest)
    <3>1. CASE b = Newline
      <4>1. WithByte(ls, b).done = Append(ls.done, ls.rest)
        BY <3>1 DEF WithByte
      <4>2. /\ Len(ls.done) \in Nat /\ DOMAIN ls.done = 1..Len(ls.done)
            /\ DOMAIN Append(ls.done, ls.rest) = 1..(Len(ls.done) + 1)
            /\ \A i \in 1..Len(ls.done) : Append(ls.done, ls.rest)[i] = ls.done[i]
            /\ Append(ls.done, ls.rest)[Len(ls.done) + 1] = ls.rest
        BY <2>1, AppendProperties, LenProperties DEF LineTypes
      <4>3. \A i \in 1..Len(ls.done) : i \in 1..(Len(ls.done) + 1)
        BY <4>2
      <4>4. Len(ls.done) + 1 \in 1..(Len(ls.done) + 1)
        BY <4>2
      <4> QED BY <2>2, <4>1, <4>2, <4>3, <4>4
    <3>2. CASE b # Newline
      <4>1. WithByte(ls, b) = [done |-> ls.done, rest |-> Append(ls.rest, b)]
        BY <3>2 DEF WithByte
      <4>2. Len(Append(ls.rest, b)) = Len(ls.rest) + 1 /\ Len(ls.rest) \in Nat
        BY <2>1, AppendProperties, LenProperties DEF LineTypes
      <4> QED BY <2>2, <4>1, <4>2, ControlAssumption DEF Short
    <3> QED BY <3>1, <3>2
  <2> QED BY <2>3 DEF AllShort, ls
<1>3. ASSUME NEW t \in Seq(Bytes), NEW b \in Bytes, t \in T
      PROVE  Append(t, b) \in T
  <2>1. s \o Append(t, b) = Append(s \o t, b) /\ s \o t \in Seq(Bytes)
    BY AppendToConcat
  <2> QED BY <1>2, <1>3, <2>1, AppendProperties
<1>4. Seq(Bytes) \subseteq T
  <2> HIDE DEF T
  <2> QED BY <1>1, <1>3, ByteByByte
<1> QED BY <1>4

LEMMA DoneBegins ==
  ASSUME NEW s \in Seq(Bytes)
  PROVE  \A t \in Seq(Bytes) : IsPrefix(Lines(s).done, Lines(s \o t).done)
<1> DEFINE T == {t \in Seq(Bytes) :
                  /\ Len(Lines(s).done) <= Len(Lines(s \o t).done)
                  /\ \A i \in 1..Len(Lines(s).done) :
                       Lines(s).done[i] = Lines(s \o t).done[i]}
<1>0. Lines(s) \in LineTypes
  BY LinesType
<1>1. << >> \in T
  <2>1. s \o << >> = s
    BY ConcatEmptySeq
  <2> QED BY <1>0, <2>1, EmptySeq, LenProperties DEF LineTypes
<1>2. ASSUME NEW t \in Seq(Bytes), NEW b \in Bytes, t \in T
      PROVE  Append(t, b) \in T
  <2> DEFINE ls == Lines(s \o t)
             new == Lines(s \o Append(t, b))
  <2>1. s \o Append(t, b) = Append(s \o t, b) /\ s \o t \in Seq(Bytes)
    BY AppendToConcat
  <2>2. ls \in LineTypes /\ new = WithByte(ls, b)
    BY <2>1, LinesType, LinesByByte
  <2>3. Append(t, b) \in Seq(Bytes)
    BY AppendProperties
  <2> DEFINE old == Lines(s)
  <2>4. /\ Len(old.done) <= Len(ls.done)
        /\ \A i \in 1..Len(old.done) : old.done[i] = ls.done[i]
    BY <1>2
  <2> SUFFICES /\ Len(old.done) <= Len(new.done)
               /\ \A i \in 1..Len(old.done) : old.done[i] = new.done[i]
    BY <2>3
  <2>5. old \in LineTypes
    BY <1>0
  <2> HIDE DEF ls, new, old
  <2>6. CASE b = Newline
    <3>1. new.done = Append(ls.done, ls.rest)
      BY <2>2, <2>6 DEF WithByte
    <3>2. /\ Len(ls.done) \in Nat /\ Len(old.done) \in Nat
          /\ Len(new.done) = Len(ls.done) + 1
          /\ \A i \in 1..Len(ls.done) : new.done[i] = ls.done[i]
      BY <2>2, <2>5, <3>1, AppendProperties, LenProperties DEF LineTypes
    <3> QED BY <2>4, <3>2
  <2>7. CASE b # Newline
    BY <2>2, <2>4, <2>7 DEF WithByte
  <2> QED BY <2>6, <2>7
<1>3. Seq(Bytes) \subseteq T
  <2> HIDE DEF T
  <2> QED BY <1>1, <1>2, ByteByByte
<1>4. ASSUME NEW t \in Seq(Bytes) PROVE IsPrefix(Lines(s).done, Lines(s \o t).done)
  <2> DEFINE p == Lines(s).done
             q == Lines(s \o t).done
  <2>1. p \in Seq(Seq(Bytes)) /\ q \in Seq(Seq(Bytes))
    BY <1>0, LinesType, ConcatProperties DEF LineTypes
  <2>2. Len(p) <= Len(q) /\ \A i \in 1..Len(p) : p[i] = q[i]
    BY <1>3
  <2> HIDE DEF p, q
  <2> SUFFICES IsPrefix(p, q)
    BY DEF p, q
  <2> QED BY <2>1, <2>2, BeginningIsPrefix
<1> QED BY <1>4

-----------------------------------------------------------------------------
(* The event of a line does not depend on how its end is taken off.        *)
LEMMA EventIs ==
  ASSUME NEW line \in Seq(Bytes)
  PROVE  EventOf(line) = IF Asks(line) THEN "finish" ELSE "invalid"
<1>1. Word \in Seq(Bytes) /\ <<Return>> \in Seq(Bytes) /\ Len(<<Return>>) = 1
      /\ <<Return>>[1] = Return
  <2>1. Word \in Seq(ToSet(Word)) /\ ToSet(Word) \subseteq Bytes /\ Return \in Bytes
    BY ControlAssumption DEF Bytes
  <2> QED BY <2>1, SeqMonotonic
<1>2. /\ Len(line) \in Nat /\ Len(Word) \in Nat
      /\ DOMAIN Word = 1..Len(Word) /\ \A i \in 1..Len(Word) : Word[i] # Return
  <2>1. \A i \in DOMAIN Word : Word[i] \in ToSet(Word)
    BY DEF ToSet
  <2> QED BY <1>1, <2>1, LenProperties, ControlAssumption
<1>3. CASE line # << >> /\ Last(line) = Return
  <2>1. Len(line) > 0 /\ line[Len(line)] = Return
    BY <1>2, <1>3, EmptySeq DEF Last
  <2>2. line # Word
    <3>1. Len(line) \in 1..Len(line)
      BY <1>2, <2>1
    <3> QED BY <1>2, <2>1, <3>1
  <2>3. line = Front(line) \o <<Return>>
    <3>1. Front(line) = SubSeq(line, 1, Len(line) - 1)
      BY DEF Front
    <3> DEFINE f == SubSeq(line, 1, Len(line) - 1)
               n == Len(line) - 1
    <3>2. /\ f \in Seq(Bytes) /\ Len(f) = n /\ n \in Nat /\ n + 1 = Len(line)
          /\ \A i \in 1..n : f[i] = line[i]
      <4>1. n \in Nat /\ n + 1 = Len(line)
        BY <1>2, <2>1
      <4>2. \A i \in 1..n : i \in 1..Len(line)
        BY <4>1
      <4> HIDE DEF n
      <4> QED BY <4>1, <4>2, ElementOfSeq
    <3>3. n \in Nat /\ Len(line) = n + 1 /\ line[n + 1] = Return
      BY <1>2, <2>1
    <3> HIDE DEF f, n
    <3> DEFINE w == f \o <<Return>>
    <3>4. /\ w \in Seq(Bytes) /\ Len(w) = n + 1
          /\ \A i \in 1..n : w[i] = f[i]
          /\ w[n + 1] = Return
      <4>1. /\ w \in Seq(Bytes) /\ Len(w) = Len(f) + 1
            /\ \A i \in 1..Len(f) : w[i] = f[i]
            /\ \A i \in (Len(f) + 1)..(Len(f) + 1) : w[i] = <<Return>>[i - Len(f)]
        BY <1>1, <3>2, ConcatProperties
      <4> HIDE DEF w
      <4>2. n + 1 \in (Len(f) + 1)..(Len(f) + 1) /\ (n + 1) - Len(f) = 1
        BY <3>2
      <4> QED BY <1>1, <3>2, <4>1, <4>2
    <3> HIDE DEF w
    <3>5. \A i \in 1..(n + 1) : line[i] = w[i]
      <4> TAKE i \in 1..(n + 1)
      <4>1. i \in 1..n \/ i = n + 1
        BY <3>3
      <4> QED BY <3>2, <3>3, <3>4, <4>1
    <3>6. line = w
      BY <3>3, <3>4, <3>5, SeqEqual
    <3> QED BY <3>1, <3>6 DEF w, f
  <2>4. Front(line) = Word <=> line = Word \o <<Return>>
    <3>1. Front(line) \in Seq(Bytes)
      BY <1>2, <2>1 DEF Front
    <3> QED BY <1>1, <2>3, <3>1, ConcatSimplifications
  <2> QED BY <1>3, <2>2, <2>4 DEF EventOf, Asks
<1>4. CASE ~(line # << >> /\ Last(line) = Return)
  <2>1. line # Word \o <<Return>>
    <3> SUFFICES ASSUME line = Word \o <<Return>> PROVE FALSE
      OBVIOUS
    <3>1. Len(line) = Len(Word) + 1 /\ line[Len(Word) + 1] = <<Return>>[1]
      BY <1>1, <1>2, ConcatProperties
    <3>2. line # << >>
      BY <1>2, <3>1, EmptySeq
    <3> QED BY <1>1, <1>4, <3>1, <3>2 DEF Last
  <2> QED BY <1>4, <2>1 DEF EventOf, Asks
<1> QED BY <1>3, <1>4

(* The first line of a buffer, its newline, and what follows.              *)
LEMMA FirstLineIs ==
  ASSUME NEW b \in Seq(Bytes), HasLine(b)
  PROVE  \E line, rest \in Seq(Bytes) :
           /\ NoLine(line)
           /\ b = Append(line, Newline) \o rest
           /\ SubSeq(b, 1, FirstLine(b) - 1) = line
           /\ SubSeq(b, FirstLine(b) + 1, Len(b)) = rest
<1> DEFINE I == {i \in 1..Len(b) : b[i] = Newline}
           n == FirstLine(b)
<1>1. Len(b) \in Nat /\ DOMAIN b = 1..Len(b) /\ \A i \in 1..Len(b) : b[i] \in Bytes
  BY LenProperties, ElementOfSeq
<1>2. I # {} /\ I \subseteq Nat
  BY <1>1 DEF HasLine, ToSet
<1>3. n = CHOOSE x \in I : \A y \in I : x <= y
  BY <1>2 DEF FirstLine, SelectInSeq, Min
<1>4. n \in I /\ \A y \in I : n <= y
  <2> HIDE DEF I, n
  <2>1. \E x \in I : \A y \in I : x <= y
    BY <1>2, LeastOf
  <2> QED BY <1>3, <2>1
<1>5. /\ n \in 1..Len(b) /\ b[n] = Newline
      /\ \A i \in 1..(n - 1) : b[i] # Newline
  <2>1. n \in 1..Len(b) /\ b[n] = Newline /\ \A y \in I : n <= y
    BY <1>4
  <2>2. ASSUME NEW i \in 1..(n - 1), b[i] = Newline PROVE FALSE
    <3>1. i \in 1..Len(b) /\ ~(n <= i)
      BY <1>1, <2>1
    <3> QED BY <2>1, <2>2, <3>1
  <2> QED BY <2>1, <2>2
<1> HIDE DEF I, n
<1> DEFINE line == SubSeq(b, 1, n - 1)
           rest == SubSeq(b, n + 1, Len(b))
<1>6. /\ line \in Seq(Bytes) /\ Len(line) = n - 1 /\ DOMAIN line = 1..(n - 1)
      /\ \A i \in 1..(n - 1) : line[i] = b[i]
  BY <1>1, <1>5
<1>7. rest \in Seq(Bytes)
  BY <1>1, <1>5
<1>8. Append(line, Newline) = SubSeq(b, 1, n)
  <2>1. SubSeq(b, 1, n) = Append(SubSeq(b, 1, n - 1), b[n])
    BY <1>1, <1>5, SubSeqRecursiveSecond
  <2> QED BY <1>5, <2>1
<1>9. SubSeq(b, 1, n) \o rest = b
  <2>1. SubSeq(b, 1, n) \o SubSeq(b, n + 1, Len(b)) = SubSeq(b, 1, Len(b))
    <3>1. 1 \in 1..(Len(b) + 1) /\ n \in (1 - 1)..Len(b) /\ Len(b) \in n..Len(b)
      BY <1>1, <1>5
    <3> QED BY <3>1, ConcatAdjacentSubSeq
  <2> QED BY <2>1, SubSeqFull
<1>10. NoLine(line)
  BY <1>5, <1>6 DEF NoLine
<1> QED BY <1>6, <1>7, <1>8, <1>9, <1>10 DEF n

-----------------------------------------------------------------------------
EventNames == {"finish", "invalid", "disconnected"}

ControlTypes ==
  /\ written \in Seq(Bytes) /\ buffer \in Seq(Bytes)
  /\ taken \in Nat /\ taken <= Len(written)
  /\ closed \in BOOLEAN
  /\ channel \in {"open", "none"}

(* What was handled are whole lines, and one event for each; what was read *)
(* of the rest is in the buffer.                                           *)
Handled(x, z) ==
  /\ written = x \o (buffer \o z) /\ Len(z) = Len(written) - taken
  /\ Lines(x).rest = << >>
  /\ events = LineEvents(Lines(x).done)

Hearing == \E x, z \in Seq(Bytes) : Handled(x, z)

HeardInv ==
  AllShort(written) =>
    /\ channel = "open" => Hearing
    /\ channel = "none" => IsPrefix(events, Expected)

ControlInv == ControlTypes /\ HeardInv

LEMMA LineEventsIs ==
  ASSUME NEW lines \in Seq(Seq(Bytes))
  PROVE  /\ LineEvents(lines) \in Seq(EventNames)
         /\ Len(LineEvents(lines)) = Len(lines)
         /\ \A i \in 1..Len(lines) :
              LineEvents(lines)[i] = IF Asks(lines[i]) THEN "finish" ELSE "invalid"
<1>1. DOMAIN lines = 1..Len(lines) /\ Len(lines) \in Nat
  BY LenProperties
<1>2. LineEvents(lines) = [i \in 1..Len(lines) |-> IF Asks(lines[i]) THEN "finish" ELSE "invalid"]
  BY <1>1 DEF LineEvents
<1>3. \A i \in 1..Len(lines) :
        (IF Asks(lines[i]) THEN "finish" ELSE "invalid") \in EventNames
  BY DEF EventNames
<1>4. LineEvents(lines) \in [1..Len(lines) -> EventNames]
  BY <1>2, <1>3
<1>5. LineEvents(lines) \in Seq(EventNames)
  <2> DEFINE n == Len(lines)
             es == LineEvents(lines)
  <2>1. n \in Nat /\ es \in [1..n -> EventNames]
    BY <1>1, <1>4
  <2> HIDE DEF n, es
  <2>2. es \in Seq(EventNames)
    BY <2>1, SeqDef
  <2> QED BY <2>2 DEF es
<1>6. Len(LineEvents(lines)) = Len(lines)
  <2>1. DOMAIN LineEvents(lines) = 1..Len(lines)
    BY <1>2
  <2> QED BY <1>1, <1>5, <2>1, LenProperties
<1> QED BY <1>2, <1>5, <1>6

LEMMA EventsAppend ==
  ASSUME NEW lines \in Seq(Seq(Bytes)), NEW line \in Seq(Bytes)
  PROVE  LineEvents(Append(lines, line)) = Append(LineEvents(lines), EventOf(line))
<1> DEFINE p == LineEvents(Append(lines, line))
           q == Append(LineEvents(lines), EventOf(line))
           n == Len(lines)
<1>1. /\ Append(lines, line) \in Seq(Seq(Bytes)) /\ Len(Append(lines, line)) = n + 1
      /\ n \in Nat
      /\ \A i \in 1..n : Append(lines, line)[i] = lines[i]
      /\ Append(lines, line)[n + 1] = line
  BY AppendProperties, LenProperties
<1>2. EventOf(line) \in EventNames
  BY EventIs DEF EventNames
<1>3. /\ LineEvents(lines) \in Seq(EventNames) /\ Len(LineEvents(lines)) = n
      /\ \A i \in 1..n :
           LineEvents(lines)[i] = IF Asks(lines[i]) THEN "finish" ELSE "invalid"
  BY LineEventsIs
<1>4. /\ q \in Seq(EventNames) /\ Len(q) = n + 1
      /\ \A i \in 1..n : q[i] = LineEvents(lines)[i]
      /\ q[n + 1] = EventOf(line)
  BY <1>2, <1>3, AppendProperties
<1> DEFINE all == Append(lines, line)
<1>5. /\ p \in Seq(EventNames) /\ Len(p) = Len(all)
      /\ \A i \in 1..Len(all) : p[i] = IF Asks(all[i]) THEN "finish" ELSE "invalid"
  <2>1. all \in Seq(Seq(Bytes))
    BY <1>1
  <2> HIDE DEF all
  <2> QED BY <2>1, LineEventsIs DEF all
<1> HIDE DEF p, q, n, all
<1>6. \A i \in 1..(n + 1) : p[i] = q[i]
  <2> TAKE i \in 1..(n + 1)
  <2>1. i \in 1..n \/ i = n + 1
    BY <1>1
  <2>2. i \in 1..Len(all)
    BY <1>1 DEF all
  <2> QED BY <1>1, <1>3, <1>4, <1>5, <2>1, <2>2, EventIs DEF all
<1>7. p = q
  BY <1>1, <1>4, <1>5, <1>6, SeqEqual DEF all
<1> QED BY <1>7 DEF p, q

LEMMA PrefixOfAppend ==
  ASSUME NEW S, NEW p \in Seq(S), NEW q \in Seq(S), IsPrefix(p, q), NEW e \in S
  PROVE  IsPrefix(p, Append(q, e))
<1>1. Len(p) \in Nat /\ Len(q) \in Nat /\ Len(p) <= Len(q)
      /\ \A i \in 1..Len(p) : p[i] = q[i]
  BY BeginningIsPrefix, LenProperties
<1> DEFINE r == Append(q, e)
<1>2. r \in Seq(S) /\ Len(r) = Len(q) + 1 /\ \A i \in 1..Len(q) : r[i] = q[i]
  BY AppendProperties
<1> HIDE DEF r
<1>3. \A i \in 1..Len(p) : i \in 1..Len(q)
  BY <1>1
<1>4. Len(p) <= Len(r) /\ \A i \in 1..Len(p) : p[i] = r[i]
  BY <1>1, <1>2, <1>3
<1>5. IsPrefix(p, r)
  BY <1>2, <1>4, BeginningIsPrefix
<1> QED BY <1>5 DEF r

(* The events of the lines of a beginning are a beginning of the events.   *)
LEMMA EventsOfBeginning ==
  ASSUME NEW x \in Seq(Bytes), NEW y \in Seq(Bytes), written = x \o y
  PROVE  IsPrefix(LineEvents(Lines(x).done), Expected)
<1> DEFINE p == Lines(x).done
           q == Lines(written).done
<1>1. p \in Seq(Seq(Bytes)) /\ q \in Seq(Seq(Bytes)) /\ IsPrefix(p, q)
  BY LinesType, ConcatProperties, DoneBegins DEF LineTypes
<1>2. EndEvent(Lines(written).rest) \in EventNames
  BY DEF EndEvent, EventNames
<1> HIDE DEF p, q
<1>3. /\ Len(p) <= Len(q) /\ \A i \in 1..Len(p) : p[i] = q[i]
      /\ Len(p) \in Nat /\ Len(q) \in Nat
  BY <1>1, BeginningIsPrefix, LenProperties
<1> DEFINE pe == LineEvents(p)
           qe == LineEvents(q)
<1>4. /\ pe \in Seq(EventNames) /\ Len(pe) = Len(p)
      /\ \A i \in 1..Len(p) : pe[i] = IF Asks(p[i]) THEN "finish" ELSE "invalid"
  BY <1>1, LineEventsIs
<1>5. /\ qe \in Seq(EventNames) /\ Len(qe) = Len(q)
      /\ \A i \in 1..Len(q) : qe[i] = IF Asks(q[i]) THEN "finish" ELSE "invalid"
  BY <1>1, LineEventsIs
<1>6. Expected = IF closed THEN Append(qe, EndEvent(Lines(written).rest)) ELSE qe
  BY DEF Expected, q
<1> HIDE DEF pe, qe
<1>7. IsPrefix(pe, qe)
  <2>1. \A i \in 1..Len(p) : i \in 1..Len(q)
    BY <1>3
  <2>2. Len(pe) <= Len(qe) /\ \A i \in 1..Len(pe) : pe[i] = qe[i]
    BY <1>3, <1>4, <1>5, <2>1
  <2> QED BY <1>4, <1>5, <2>2, BeginningIsPrefix
<1>8. IsPrefix(pe, Expected)
  <2>1. CASE closed
    BY <1>2, <1>4, <1>5, <1>6, <1>7, <2>1, PrefixOfAppend
  <2>2. CASE ~closed
    BY <1>6, <1>7, <2>2
  <2> QED BY <2>1, <2>2
<1> QED BY <1>8 DEF p, pe

(* The first line of b is taken from the buffer and made an event.         *)
LEMMA LineIsHeard ==
  ASSUME ControlTypes, channel = "open", AllShort(written),
         NEW b \in Seq(Bytes), HasLine(b), TakeLine(b),
         NEW x \in Seq(Bytes), NEW z \in Seq(Bytes), written = x \o (b \o z),
         Lines(x).rest = << >>, events = LineEvents(Lines(x).done),
         UNCHANGED <<written, closed>>, taken' \in Nat, taken' <= Len(written),
         Len(z) = Len(written) - taken'
  PROVE  ControlInv'
<1>1. PICK line, rest \in Seq(Bytes) :
        /\ NoLine(line)
        /\ b = Append(line, Newline) \o rest
        /\ SubSeq(b, 1, FirstLine(b) - 1) = line
        /\ SubSeq(b, FirstLine(b) + 1, Len(b)) = rest
  BY FirstLineIs
<1>2. Newline \in Bytes
  BY DEF Bytes
<1> DEFINE nx == x \o Append(line, Newline)
           done == Lines(x).done
<1>3. Append(line, Newline) \in Seq(Bytes) /\ nx \in Seq(Bytes) /\ x \o line \in Seq(Bytes)
  BY <1>2, AppendProperties, ConcatProperties
<1>4. nx = Append(x \o line, Newline)
  BY <1>2, AppendToConcat
<1>5. done \in Seq(Seq(Bytes)) /\ Lines(x).rest \o line = line
  BY LinesType, ConcatEmptySeq DEF LineTypes
<1>6. Lines(nx) = [done |-> Append(done, line), rest |-> << >>]
  <2>1. Lines(x \o line) = [done |-> done, rest |-> line]
    BY <1>1, <1>5, RestGrows
  <2>2. Lines(nx) = WithByte([done |-> done, rest |-> line], Newline)
    BY <1>2, <1>3, <1>4, <2>1, LinesByByte
  <2> QED BY <2>2 DEF WithByte
<1>7. written = nx \o (rest \o z) /\ rest \o z \in Seq(Bytes)
  <2>1. PICK a \in Seq(Bytes) : a = Append(line, Newline)
    BY <1>3
  <2>2. rest \o z \in Seq(Bytes)
    BY <1>1, ConcatProperties
  <2>3. (a \o rest) \o z = a \o (rest \o z)
    <3>1. a \in Seq(Bytes) /\ rest \in Seq(Bytes) /\ z \in Seq(Bytes)
      BY <1>1, <2>1
    <3> QED BY ONLY <3>1, ConcatAssociative, SMTT(30)
  <2>4. PICK y \in Seq(Bytes) : y = rest \o z
    BY <2>2
  <2>5. (x \o a) \o y = x \o (a \o y)
    <3>1. x \in Seq(Bytes) /\ a \in Seq(Bytes) /\ y \in Seq(Bytes)
      BY <2>1, <2>4
    <3> QED BY ONLY <3>1, ConcatAssociative, SMTT(30)
  <2> QED BY <1>1, <2>1, <2>2, <2>3, <2>4, <2>5
<1>8. /\ buffer' = rest
      /\ events' = Append(events, EventOf(line))
      /\ channel' = IF EventOf(line) = "invalid" THEN "open" ELSE "none"
  BY <1>1 DEF TakeLine, Returned
<1>9. events' = LineEvents(Lines(nx).done)
  BY <1>5, <1>6, <1>8, EventsAppend
<1>10. ControlTypes'
  BY <1>8 DEF ControlTypes
<1>11. Expected' = Expected
  BY DEF Expected
<1>12. IsPrefix(events', Expected')
  <2> HIDE DEF nx
  <2> QED BY <1>3, <1>7, <1>9, <1>11, EventsOfBeginning
<1>13. Hearing'
  <2>1. Handled(nx, z)'
    <3> SUFFICES /\ written' = nx \o (buffer' \o z) /\ Len(z) = Len(written') - taken'
                 /\ Lines(nx).rest = << >>
                 /\ events' = LineEvents(Lines(nx).done)
      BY DEF Handled
    <3> QED BY <1>6, <1>7, <1>8, <1>9
  <2> QED BY <1>3, <2>1 DEF Hearing
<1> QED BY <1>10, <1>12, <1>13 DEF ControlInv, HeardInv

(* What is in the buffer is short, as long as the lines are.               *)
LEMMA BufferIsShort ==
  ASSUME NEW x \in Seq(Bytes), NEW b \in Seq(Bytes), NEW z \in Seq(Bytes),
         AllShort(x \o (b \o z)), Lines(x).rest = << >>, ~HasLine(b)
  PROVE  /\ Short(b)
         /\ Lines(x \o b) = [done |-> Lines(x).done, rest |-> b]
<1>1. NoLine(b)
  BY DEF NoLine, HasLine, ToSet
<1>2. Lines(x \o b) = [done |-> Lines(x).done, rest |-> b]
  BY <1>1, RestGrows, ConcatEmptySeq
<1>3. AllShort(x \o b)
  <2>1. x \o (b \o z) = (x \o b) \o z /\ x \o b \in Seq(Bytes)
    BY ConcatAssociative, ConcatProperties
  <2> QED BY <2>1, ShortBefore
<1> QED BY <1>2, <1>3 DEF AllShort

LEMMA PollBufferedStep == ASSUME ControlInv, PollBuffered PROVE ControlInv'
<1>1. CASE AllShort(written)
  <2>1. PICK x, z \in Seq(Bytes) : Handled(x, z)
    BY <1>1 DEF ControlInv, HeardInv, Hearing, PollBuffered
  <2> QED BY <1>1, <2>1, LineIsHeard
      DEF PollBuffered, ControlInv, ControlTypes, Handled
<1>2. CASE ~AllShort(written)
  <2>1. buffer \in Seq(Bytes)
    BY DEF ControlInv, ControlTypes
  <2>2. buffer' \in Seq(Bytes) /\ channel' \in {"open", "none"}
    BY <2>1, FirstLineIs DEF PollBuffered, TakeLine, Returned
  <2>3. ControlTypes'
    BY <2>2 DEF PollBuffered, ControlInv, ControlTypes
  <2> QED BY <1>2, <2>3 DEF PollBuffered, ControlInv, HeardInv
<1> QED BY <1>1, <1>2

LEMMA PollReadStep == ASSUME ControlInv, PollRead PROVE ControlInv'
<1>1. PICK n \in 1..Chunk :
        LET b == buffer \o SubSeq(written, taken + 1, taken + n)
        IN  /\ taken + n <= Len(written)
            /\ taken' = taken + n
            /\ CASE Len(b) > MaxBuffer -> Returned("invalid") /\ buffer' = << >>
                 [] Len(b) <= MaxBuffer /\ HasLine(b) -> TakeLine(b)
                 [] OTHER -> buffer' = b /\ UNCHANGED <<events, channel>>
  BY DEF PollRead
<1> DEFINE chunk == SubSeq(written, taken + 1, taken + n)
           after == SubSeq(written, taken + n + 1, Len(written))
           b == buffer \o chunk
<1>2. /\ n \in Nat /\ n <= Chunk /\ n >= 1 /\ MaxBuffer \in Nat /\ Chunk \in Nat
      /\ taken \in Nat /\ Len(written) \in Nat /\ taken + n <= Len(written)
      /\ written \in Seq(Bytes) /\ buffer \in Seq(Bytes)
      /\ channel = "open" /\ ~HasLine(buffer)
  BY <1>1, ControlAssumption, LenProperties DEF ControlInv, ControlTypes, PollRead
<1>3. /\ chunk \in Seq(Bytes) /\ Len(chunk) = n
      /\ after \in Seq(Bytes) /\ Len(after) = Len(written) - (taken + n)
  BY <1>2
<1>4. b \in Seq(Bytes) /\ Len(b) = Len(buffer) + n /\ Len(b) \in Nat /\ Len(buffer) \in Nat
  <2>1. chunk \in Seq(Bytes) /\ Len(chunk) = n
    BY <1>3
  <2> HIDE DEF chunk, after
  <2> QED BY <1>2, <2>1, ConcatProperties, LenProperties
<1>5. /\ taken' = taken + n
      /\ \/ Len(b) > MaxBuffer /\ Returned("invalid") /\ buffer' = << >>
         \/ Len(b) <= MaxBuffer /\ HasLine(b) /\ TakeLine(b)
         \/ Len(b) <= MaxBuffer /\ ~HasLine(b) /\ buffer' = b /\ UNCHANGED <<events, channel>>
  <2>1. Len(b) > MaxBuffer \/ Len(b) <= MaxBuffer
    <3> HIDE DEF b
    <3> QED BY <1>2, <1>4
  <2>2. ~(Len(b) > MaxBuffer /\ Len(b) <= MaxBuffer)
    <3> HIDE DEF b
    <3> QED BY <1>2, <1>4
  <2> HIDE DEF b
  <2> QED BY <1>1, <2>1, <2>2 DEF b
<1>6. UNCHANGED <<written, closed>>
  BY DEF PollRead
<1> HIDE DEF chunk, after, b
<1>7. ControlTypes'
  <2>1. buffer' \in Seq(Bytes)
    BY <1>4, <1>5, FirstLineIs, EmptySeq DEF TakeLine
  <2>2. channel' \in {"open", "none"}
    BY <1>2, <1>5 DEF TakeLine, Returned
  <2>3. taken + n \in Nat
    BY <1>2
  <2> QED BY <1>2, <1>5, <1>6, <2>1, <2>2, <2>3 DEF ControlInv, ControlTypes
<1>8. CASE AllShort(written)
  <2>1. PICK x, z \in Seq(Bytes) : Handled(x, z)
    BY <1>2, <1>8 DEF ControlInv, HeardInv, Hearing
  <2>2. Short(buffer) /\ Len(b) <= MaxBuffer
    <3>1. Short(buffer)
      BY <1>2, <1>8, <2>1, BufferIsShort DEF Handled
    <3>2. Len(buffer) <= MaxBuffer - Chunk
      BY <3>1 DEF Short
    <3> QED BY <1>2, <1>4, <3>1, <3>2
  <2>3. z = chunk \o after
    <3> DEFINE u == x \o buffer
               len == Len(written)
    <3>1. u \in Seq(Bytes) /\ written = u \o z
      BY <1>2, <2>1, ConcatAssociative, ConcatProperties DEF Handled
    <3>2. len = Len(u) + Len(z) /\ Len(u) \in Nat /\ Len(z) = len - taken /\ len \in Nat
      <4> HIDE DEF u
      <4> QED BY <1>2, <2>1, <3>1, ConcatProperties, LenProperties DEF Handled
    <3>3. Len(u) = taken
      <4> HIDE DEF u, len
      <4> QED BY <1>2, <3>2
    <3>4. SubSeq(written, taken + 1, len) = z
      <4> HIDE DEF u
      <4> QED BY <2>1, <3>1, <3>3, RestOfConcat
    <3>5. SubSeq(written, taken + 1, taken + n) \o SubSeq(written, taken + n + 1, len)
            = SubSeq(written, taken + 1, len)
      <4>1. /\ taken + 1 \in 1..(len + 1) /\ taken + n \in ((taken + 1) - 1)..len
            /\ len \in (taken + n)..len
        BY <1>2
      <4> QED BY <1>2, <4>1, ConcatAdjacentSubSeq
    <3> QED BY <3>4, <3>5 DEF chunk, after
  <2>4. written = x \o (b \o after) /\ Len(after) = Len(written) - taken'
    <3>1. buffer \o (chunk \o after) = (buffer \o chunk) \o after
      <4>1. buffer \in Seq(Bytes) /\ chunk \in Seq(Bytes) /\ after \in Seq(Bytes)
        BY <1>2, <1>3
      <4> QED BY <4>1, Joined
    <3> QED BY <1>3, <1>5, <2>1, <2>3, <3>1 DEF Handled, b
  <2>5. CASE HasLine(b)
    <3>1. TakeLine(b)
      BY <1>2, <1>4, <1>5, <2>2, <2>5
    <3>2. ControlTypes /\ taken' \in Nat /\ taken' <= Len(written)
      BY <1>7, <1>6 DEF ControlInv, ControlTypes
    <3> QED BY <1>2, <1>3, <1>4, <1>6, <1>8, <2>1, <2>4, <2>5, <3>1, <3>2, LineIsHeard DEF Handled
  <2>6. CASE ~HasLine(b)
    <3>1. buffer' = b /\ UNCHANGED <<events, channel>>
      BY <1>2, <1>4, <1>5, <2>2, <2>6
    <3>2. PICK y \in Seq(Bytes) : y = after
      BY <1>3
    <3>3. /\ written = x \o (b \o y) /\ Len(y) = Len(written) - taken'
          /\ Lines(x).rest = << >>
          /\ events = LineEvents(Lines(x).done)
      BY <2>1, <2>4, <3>2 DEF Handled
    <3>4. Handled(x, y)'
      BY <1>6, <3>1, <3>3 DEF Handled
    <3>5. Hearing'
      BY <2>1, <3>2, <3>4 DEF Hearing
    <3> QED BY <1>2, <1>7, <3>1, <3>5 DEF ControlInv, HeardInv
  <2> QED BY <2>5, <2>6
<1>9. CASE ~AllShort(written)
  BY <1>6, <1>7, <1>9 DEF ControlInv, HeardInv
<1> QED BY <1>8, <1>9

LEMMA PollEndStep == ASSUME ControlInv, PollEnd PROVE ControlInv'
<1>1. /\ buffer' \in Seq(Bytes) /\ channel' \in {"open", "none"}
      /\ buffer \in Seq(Bytes)
  BY EmptySeq DEF PollEnd, Returned, ControlInv, ControlTypes
<1>2. ControlTypes'
  BY <1>1 DEF PollEnd, ControlInv, ControlTypes
<1>3. CASE AllShort(written)
  <2>1. PICK x, z \in Seq(Bytes) : Handled(x, z)
    BY <1>3 DEF ControlInv, HeardInv, Hearing, PollEnd
  <2>2. z = << >>
    <3>1. Len(z) = 0
      BY <2>1, LenProperties DEF Handled, PollEnd, ControlInv, ControlTypes
    <3> QED BY <2>1, <3>1, EmptySeq
  <2>3. written = x \o buffer
    BY <1>1, <2>1, <2>2, ConcatEmptySeq DEF Handled
  <2>4. Lines(written) = [done |-> Lines(x).done, rest |-> buffer]
    BY <1>1, <1>3, <2>1, <2>3, BufferIsShort DEF Handled, PollEnd
  <2>5. /\ Expected' = Append(LineEvents(Lines(x).done), EndEvent(buffer))
        /\ Expected' \in Seq(EventNames)
    <3>1. written' = written /\ closed' /\ closed
      BY DEF PollEnd
    <3>2. Expected' = Append(LineEvents(Lines(x).done), EndEvent(buffer))
      BY <2>4, <3>1 DEF Expected
    <3>3. Lines(x).done \in Seq(Seq(Bytes))
      BY <2>1, LinesType DEF LineTypes
    <3>4. LineEvents(Lines(x).done) \in Seq(EventNames)
      BY <3>3, LineEventsIs
    <3>5. EndEvent(buffer) \in EventNames
      BY DEF EndEvent, EventNames
    <3> QED BY <3>2, <3>4, <3>5, AppendProperties
  <2>6. events' = Expected' /\ channel' = "none"
    BY <2>1, <2>5 DEF PollEnd, Returned, EndEvent, Handled
  <2>7. IsPrefix(events', Expected')
    <3> DEFINE e == Expected'
    <3>1. e \in Seq(EventNames)
      BY <2>5
    <3> HIDE DEF e
    <3>2. IsPrefix(e, e)
      BY <3>1, LenProperties, BeginningIsPrefix
    <3> QED BY <2>6, <3>2 DEF e
  <2> QED BY <1>2, <2>6, <2>7 DEF ControlInv, HeardInv
<1>4. CASE ~AllShort(written)
  BY <1>2, <1>4 DEF PollEnd, ControlInv, HeardInv
<1> QED BY <1>3, <1>4

LEMMA ClientStep ==
  ASSUME ControlInv, ClientWrites \/ ClientCloses PROVE ControlInv'
<1>1. CASE ClientWrites
  <2>1. PICK c \in Bytes : written' = Append(written, c)
    BY <1>1 DEF ClientWrites
  <2>2. /\ written \in Seq(Bytes) /\ written' \in Seq(Bytes)
        /\ Len(written) \in Nat /\ Len(written') = Len(written) + 1
        /\ channel = "open" /\ UNCHANGED <<taken, closed, buffer, channel, events>>
    BY <1>1, <2>1, AppendProperties, LenProperties
       DEF ClientWrites, ControlInv, ControlTypes
  <2>3. ControlTypes'
    BY <2>2 DEF ControlInv, ControlTypes
  <2>4. AllShort(written') => AllShort(written)
    <3>1. Append(written, c) = written \o <<c>> /\ <<c>> \in Seq(Bytes)
      BY <2>1, <2>2, AppendIsConcat
    <3> QED BY <2>1, <2>2, <3>1, ShortBefore
  <2>5. ASSUME AllShort(written') PROVE Hearing'
    <3>1. PICK x, z \in Seq(Bytes) : Handled(x, z)
      BY <2>2, <2>4, <2>5 DEF ControlInv, HeardInv, Hearing
    <3>2. PICK y \in Seq(Bytes) : y = Append(z, c)
      BY <2>1, <3>1, AppendProperties
    <3>3. buffer \in Seq(Bytes)
      BY DEF ControlInv, ControlTypes
    <3>4. written' = x \o (buffer \o y)
      <4>1. buffer \o Append(z, c) = Append(buffer \o z, c) /\ buffer \o z \in Seq(Bytes)
        BY <2>1, <3>1, <3>3, AppendToConcat
      <4>2. x \o Append(buffer \o z, c) = Append(x \o (buffer \o z), c)
        BY <2>1, <3>1, <4>1, AppendToConcat
      <4> QED BY <2>1, <3>1, <3>2, <4>1, <4>2 DEF Handled
    <3>5. Len(y) = Len(written') - taken
      <4>1. Len(y) = Len(z) + 1 /\ Len(z) = Len(written) - taken /\ taken \in Nat
        BY <2>1, <3>1, <3>2, AppendProperties DEF Handled, ControlInv, ControlTypes
      <4> QED BY <2>2, <4>1
    <3>6. Handled(x, y)'
      BY <2>2, <3>1, <3>4, <3>5 DEF Handled
    <3> QED BY <3>1, <3>2, <3>6 DEF Hearing
  <2> QED BY <2>2, <2>3, <2>5 DEF ControlInv, HeardInv
<1>2. CASE ClientCloses
  <2>1. channel = "open" /\ channel' = "open" /\ written' = written
    BY <1>2 DEF ClientCloses
  <2>2. Hearing => Hearing'
    BY <1>2 DEF ClientCloses, Hearing, Handled
  <2>3. ControlTypes'
    BY <1>2 DEF ClientCloses, ControlInv, ControlTypes
  <2> QED BY <2>1, <2>2, <2>3 DEF ControlInv, HeardInv
<1> QED BY <1>1, <1>2

LEMMA ControlBegins == ControlInit => ControlInv
<1> SUFFICES ASSUME ControlInit PROVE ControlInv
  OBVIOUS
<1>1. /\ written = << >> /\ buffer = << >> /\ events = << >> /\ taken = 0
      /\ closed = FALSE /\ channel = "open"
  BY DEF ControlInit
<1>2. << >> \in Seq(Bytes) /\ Len(<< >>) = 0 /\ << >> \in Seq(Seq(Bytes))
      /\ << >> \o << >> = << >>
  BY EmptySeq, ConcatEmptySeq
<1>3. LineEvents(<< >>) = << >>
  BY <1>2, LineEventsIs, EmptySeq
<1>4. Handled(<< >>, << >>)
  BY <1>1, <1>2, <1>3, LinesOfNothing DEF Handled, NoBytes
<1>5. Hearing
  BY <1>2, <1>4 DEF Hearing
<1>6. ControlTypes
  <2>1. /\ written \in Seq(Bytes) /\ buffer \in Seq(Bytes)
        /\ taken \in Nat /\ Len(written) = 0 /\ taken <= Len(written)
    BY <1>1, <1>2
  <2>2. closed \in BOOLEAN /\ channel \in {"open", "none"}
    BY <1>1
  <2> QED BY <2>1, <2>2 DEF ControlTypes
<1> QED BY <1>1, <1>5, <1>6 DEF ControlInv, HeardInv

LEMMA ControlStep == ControlInv /\ [ControlNext]_controlVars => ControlInv'
<1> SUFFICES ASSUME ControlInv, [ControlNext]_controlVars PROVE ControlInv'
  OBVIOUS
<1>1. CASE UNCHANGED controlVars
  BY <1>1 DEF controlVars, ControlInv, ControlTypes, HeardInv, Hearing, Handled, Expected
<1> QED BY <1>1, ClientStep, PollBufferedStep, PollReadStep, PollEndStep
    DEF ControlNext, Poll

LEMMA InvIsPrefix == ControlInv => EventsAreLines
<1> SUFFICES ASSUME ControlInv, AllShort(written) PROVE IsPrefix(events, Expected)
  BY DEF EventsAreLines, AllShort
<1>1. CASE channel = "none"
  BY <1>1 DEF ControlInv, HeardInv
<1>2. CASE channel = "open"
  <2>1. PICK x, z \in Seq(Bytes) : Handled(x, z)
    BY <1>2 DEF ControlInv, HeardInv, Hearing
  <2>2. buffer \o z \in Seq(Bytes)
    BY <2>1, ConcatProperties DEF ControlInv, ControlTypes
  <2> QED BY <2>1, <2>2, EventsOfBeginning DEF Handled
<1> QED BY <1>1, <1>2 DEF ControlInv, ControlTypes

(* While lines are short, the events are those of the lines, however the   *)
(* client's bytes are cut into reads (supervisor.rs:60-122), for any word, *)
(* size of the buffer, size of a read and number of bytes.                 *)
THEOREM AlwaysLines == ControlSpec => []EventsAreLines
<1>1. ControlSpec => []ControlInv
  BY ControlBegins, ControlStep, PTL DEF ControlSpec
<1> QED BY <1>1, InvIsPrefix, PTL

-----------------------------------------------------------------------------
(* One git command.                                                        *)

USE PumpAssumption

(* Bytes the thread of a stream has read.                                  *)
Drained(s) == wrote[s] - pipe[s]

(* What is kept of the first d bytes of a stream.                          *)
KeptHead(d) == [i \in 1 .. Least(Limit, d) |-> i]
KeptTail(d) == [i \in 1 .. Least(Limit, d) |-> d - Least(Limit, d) + i]

TypesOK ==
  /\ git \in {"none", "runs", "ended", "reaped"}
  /\ success \in BOOLEAN
  /\ wrote \in [Streams -> Nat] /\ pipe \in [Streams -> Nat]
  /\ plan \in [Streams -> Nat] /\ input \in Nat
  /\ DOMAIN kept = Streams /\ truncated \in [Streams -> BOOLEAN]
  /\ pump \in [Streams \cup {"stdin"} -> {"runs", "done"}]
  /\ result \in {"none", "exceeded", "output", "git_error"}

(* The kept bytes are those of what was read, the head or the tail.        *)
KeptInv ==
  /\ \A s \in Streams : pipe[s] <= wrote[s]
  /\ kept["stdout"] = KeptHead(Drained("stdout"))
  /\ kept["stderr"] = KeptTail(Drained("stderr"))
  /\ \A s \in Streams : truncated[s] <=> Drained(s) > Limit

(* A thread that has ended has seen the end of its stream.                 *)
EndsInv ==
  /\ \A s \in Streams : pump[s] = "done" => pipe[s] = 0 /\ git \in {"ended", "reaped"}
  /\ pump["stdin"] = "done" /\ git = "runs" => input = 0
  /\ success => input = 0 /\ wrote = plan /\ git \in {"ended", "reaped"}

(* A result is given when everybody has ended.                             *)
ResultInv ==
  result # "none" =>
    /\ git = "reaped" /\ \A s \in Streams : pump[s] = "done"
    /\ result = "exceeded" <=> truncated["stdout"]
    /\ result = "output" => success

PInv == TypesOK /\ KeptInv /\ EndsInv /\ ResultInv

-----------------------------------------------------------------------------
LEMMA LeastIs ==
  ASSUME NEW d \in Nat
  PROVE  /\ Least(Limit, d) \in Nat /\ Least(Limit, d) <= d /\ Least(Limit, d) <= Limit
         /\ d <= Limit => Least(Limit, d) = d
         /\ d >= Limit => Least(Limit, d) = Limit
BY DEF Least

LEMMA KeptSeqs ==
  ASSUME NEW d \in Nat
  PROVE  /\ KeptHead(d) \in Seq(Nat) /\ KeptTail(d) \in Seq(Nat)
         /\ Len(KeptHead(d)) = Least(Limit, d) /\ Len(KeptTail(d)) = Least(Limit, d)
<1>1. Least(Limit, d) \in Nat /\ Least(Limit, d) <= d
  BY LeastIs
<1> DEFINE m == Least(Limit, d)
<1> HIDE DEF m
<1>2. m \in Nat /\ m <= d
  BY <1>1 DEF m
<1>3. [i \in 1 .. m |-> i] \in Seq(Nat) /\ Len([i \in 1 .. m |-> i]) = m
  BY <1>2
<1>4. [i \in 1 .. m |-> d - m + i] \in Seq(Nat) /\ Len([i \in 1 .. m |-> d - m + i]) = m
  BY <1>2
<1> QED BY <1>3, <1>4 DEF m, KeptHead, KeptTail

(* The n bytes that come after the first d.                                *)
Following(d, n) == [i \in 1 .. n |-> d + 1 + i - 1]

LEMMA FollowingBytes ==
  ASSUME NEW d \in Nat, NEW n \in Nat
  PROVE  /\ Following(d, n) \in Seq(Nat) /\ Len(Following(d, n)) = n
         /\ \A i \in 1 .. n : Following(d, n)[i] = d + i
BY DEF Following

(* Reading on keeps the head of the stream.                                *)
LEMMA HeadGrows ==
  ASSUME NEW d \in Nat, NEW n \in Nat
  PROVE  LET all == KeptHead(d) \o Following(d, n)
         IN  SubSeq(all, 1, Least(Limit, Len(all))) = KeptHead(d + n)
<1> DEFINE k == KeptHead(d)
           b == Following(d, n)
           all == k \o b
           m == Least(Limit, d)
           e == Least(Limit, d + n)
<1>1. /\ m \in Nat /\ m <= d /\ (d <= Limit => m = d) /\ (d >= Limit => m = Limit)
      /\ e \in Nat /\ e <= d + n
      /\ (d + n <= Limit => e = d + n) /\ (d + n >= Limit => e = Limit)
  BY LeastIs
<1>2. /\ all \in Seq(Nat) /\ Len(all) = m + n
      /\ \A i \in 1 .. m + n :
           all[i] = IF i <= m THEN k[i] ELSE b[i - m]
  <2>1. k \in Seq(Nat) /\ Len(k) = m /\ b \in Seq(Nat) /\ Len(b) = n
    BY KeptSeqs, FollowingBytes
  <2> HIDE DEF k, b, m
  <2> QED BY <2>1, ConcatProperties
<1>3. Least(Limit, m + n) = e
  BY <1>1 DEF Least
<1>4. e <= m + n
  BY <1>1
<1>5. \A i \in 1 .. e : all[i] = i
  <2> SUFFICES ASSUME NEW i \in 1 .. e PROVE all[i] = i
    OBVIOUS
  <2>0. i \in 1 .. m + n
    BY <1>1, <1>4
  <2> HIDE DEF all
  <2>1. CASE i <= m
    BY <1>1, <1>2, <2>0, <2>1 DEF KeptHead
  <2>2. CASE i > m
    <3>1. d <= Limit
      BY <1>1, <2>2
    <3>2. m = d /\ i - m \in 1 .. n /\ m + (i - m) = i
      BY <1>1, <1>4, <2>2, <3>1
    <3>3. all[i] = b[i - m]
      BY <1>1, <1>2, <2>0, <2>2
    <3>4. b[i - m] = d + (i - m)
      BY <3>2, FollowingBytes
    <3> QED BY <3>2, <3>3, <3>4
  <2> QED BY <1>1, <2>1, <2>2
<1> HIDE DEF k, b, all, m, e
<1>6. /\ SubSeq(all, 1, e) \in Seq(Nat) /\ Len(SubSeq(all, 1, e)) = e
      /\ \A i \in 1 .. e : SubSeq(all, 1, e)[i] = i
  BY <1>1, <1>4, <1>5, SubSeqProperties
<1>7. /\ KeptHead(d + n) \in Seq(Nat) /\ Len(KeptHead(d + n)) = e
      /\ \A i \in 1 .. e : KeptHead(d + n)[i] = i
  BY KeptSeqs DEF e, KeptHead
<1>8. SubSeq(all, 1, e) = KeptHead(d + n)
  BY <1>6, <1>7, SeqEqual
<1> QED BY <1>2, <1>3, <1>8 DEF all, k, b

(* Reading on keeps the tail of the stream.                                *)
LEMMA TailGrows ==
  ASSUME NEW d \in Nat, NEW n \in Nat
  PROVE  LET all == KeptTail(d) \o Following(d, n)
         IN  SubSeq(all, Len(all) - Least(Limit, Len(all)) + 1, Len(all))
               = KeptTail(d + n)
<1> DEFINE k == KeptTail(d)
           b == Following(d, n)
           all == k \o b
           m == Least(Limit, d)
           e == Least(Limit, d + n)
<1>1. /\ m \in Nat /\ m <= d /\ (d <= Limit => m = d) /\ (d >= Limit => m = Limit)
      /\ e \in Nat /\ e <= d + n
      /\ (d + n <= Limit => e = d + n) /\ (d + n >= Limit => e = Limit)
  BY LeastIs
<1>2. /\ all \in Seq(Nat) /\ Len(all) = m + n
      /\ \A i \in 1 .. m + n :
           all[i] = IF i <= m THEN k[i] ELSE b[i - m]
  <2>1. k \in Seq(Nat) /\ Len(k) = m /\ b \in Seq(Nat) /\ Len(b) = n
    BY KeptSeqs, FollowingBytes
  <2> HIDE DEF k, b, m
  <2> QED BY <2>1, ConcatProperties
<1>3. Least(Limit, m + n) = e
  BY <1>1 DEF Least
<1>4. e <= m + n
  BY <1>1
<1>5. \A i \in 1 .. m + n : all[i] = d - m + i
  <2> SUFFICES ASSUME NEW i \in 1 .. m + n PROVE all[i] = d - m + i
    OBVIOUS
  <2> HIDE DEF all
  <2>1. CASE i <= m
    BY <1>1, <1>2, <2>1 DEF KeptTail
  <2>2. CASE i > m
    <3>1. i - m \in 1 .. n /\ d + (i - m) = d - m + i
      BY <1>1, <2>2
    <3>2. all[i] = b[i - m]
      BY <1>1, <1>2, <2>2
    <3>3. b[i - m] = d + (i - m)
      BY <3>1, FollowingBytes
    <3> QED BY <3>1, <3>2, <3>3
  <2> QED BY <1>1, <2>1, <2>2
<1> DEFINE l == m + n
           f == l - e + 1
           t == SubSeq(all, f, l)
<1> HIDE DEF k, b, all, m, e
<1>6. t \in Seq(Nat) /\ Len(t) = e /\ \A i \in 1 .. e : t[i] = d + n - e + i
  <2>1. f \in Int /\ f >= 1 /\ l - f + 1 = e /\ l \in Int
    BY <1>1, <1>4
  <2>2. \A i \in f .. l : all[i] \in Nat
    BY <1>1, <1>5, <2>1
  <2>3. ASSUME NEW i \in 1 .. e
        PROVE  f + i - 1 \in 1 .. m + n /\ f + i - 1 = l - e + i /\ l - e + i \in Nat
    BY <1>1, <1>4
  <2>4. ASSUME NEW i \in 1 .. e
        PROVE  all[f + i - 1] = d + n - e + i
    <3>1. all[f + i - 1] = d - m + (f + i - 1)
      BY <1>5, <2>3
    <3> QED BY <1>1, <2>3, <3>1
  <2> HIDE DEF f, l
  <2>5. /\ SubSeq(all, f, l) \in Seq(Nat)
        /\ Len(SubSeq(all, f, l)) = IF f <= l THEN l - f + 1 ELSE 0
        /\ \A i \in 1 .. l - f + 1 : SubSeq(all, f, l)[i] = all[f + i - 1]
    BY <2>1, <2>2, SubSeqProperties
  <2>6. Len(t) = e
    BY <1>1, <2>1, <2>5
  <2> QED BY <2>1, <2>4, <2>5, <2>6
<1> HIDE DEF f, t, l
<1>7. /\ KeptTail(d + n) \in Seq(Nat) /\ Len(KeptTail(d + n)) = e
      /\ \A i \in 1 .. e : KeptTail(d + n)[i] = d + n - e + i
  BY KeptSeqs DEF e, KeptTail
<1>8. t = KeptTail(d + n)
  BY <1>6, <1>7, SeqEqual
<1> QED BY <1>2, <1>3, <1>8 DEF all, k, b, t, f, l

-----------------------------------------------------------------------------
(* One read of a thread.                                                   *)
LEMMA ReadKeeps ==
  ASSUME TypesOK, KeptInv, NEW s \in Streams, NEW n \in 1 .. pipe[s], Read(s, n)
  PROVE  /\ pipe' = [pipe EXCEPT ![s] = @ - n]
         /\ DOMAIN kept' = Streams /\ truncated' \in [Streams -> BOOLEAN]
         /\ s = "stdout" => kept'[s] = KeptHead(Drained(s) + n)
         /\ s = "stderr" => kept'[s] = KeptTail(Drained(s) + n)
         /\ truncated'[s] <=> Drained(s) + n > Limit
         /\ \A r \in Streams \ {s} : kept'[r] = kept[r] /\ truncated'[r] = truncated[r]
<1> DEFINE d == Drained(s)
           bytes == [i \in 1 .. n |-> (d + 1) + i - 1]
<1>1. d \in Nat /\ n \in Nat /\ pipe[s] \in Nat /\ wrote[s] \in Nat
  BY DEF TypesOK, KeptInv, Drained
<1>2. bytes = Following(d, n)
  BY DEF Following
<1>3. /\ kept' = [kept EXCEPT ![s] = Keep(s, bytes)]
      /\ truncated' = [truncated EXCEPT ![s] = @ \/ Len(kept[s]) + n > Limit]
      /\ pipe' = [pipe EXCEPT ![s] = @ - n]
  BY DEF Read, Drained
<1> HIDE DEF bytes, d
<1>4. CASE s = "stdout"
  <2>1. kept[s] = KeptHead(d)
    BY <1>4 DEF KeptInv, d
  <2>2. Keep(s, bytes) = KeptHead(d + n)
    BY <1>1, <1>2, <1>4, <2>1, HeadGrows DEF Keep
  <2>3. Len(kept[s]) = Least(Limit, d)
    BY <1>1, <2>1, KeptSeqs
  <2>4. truncated[s] \/ Len(kept[s]) + n > Limit <=> d + n > Limit
    BY <1>1, <2>3, LeastIs DEF KeptInv, d
  <2> QED BY <1>3, <1>4, <2>2, <2>4 DEF TypesOK, Streams, d
<1>5. CASE s = "stderr"
  <2>1. kept[s] = KeptTail(d)
    BY <1>5 DEF KeptInv, d
  <2>2. Keep(s, bytes) = KeptTail(d + n)
    BY <1>1, <1>2, <1>5, <2>1, TailGrows DEF Keep
  <2>3. Len(kept[s]) = Least(Limit, d)
    BY <1>1, <2>1, KeptSeqs
  <2>4. truncated[s] \/ Len(kept[s]) + n > Limit <=> d + n > Limit
    BY <1>1, <2>3, LeastIs DEF KeptInv, d
  <2> QED BY <1>3, <1>5, <2>2, <2>4 DEF TypesOK, Streams, d
<1> QED BY <1>4, <1>5 DEF Streams

LEMMA InitPInv == PumpInit => PInv
<1> SUFFICES ASSUME PumpInit PROVE PInv
  OBVIOUS
<1>1. TypesOK
  <2>1. plan \in [Streams -> Nat] /\ input \in Nat
    BY DEF PumpInit, PumpStart
  <2> QED BY <2>1 DEF PumpInit, PumpStart, TypesOK, Streams
<1>2. EndsInv /\ ResultInv
  BY DEF PumpInit, PumpStart, EndsInv, ResultInv, Streams
<1>3. \A s \in Streams : /\ Drained(s) = 0 /\ pipe[s] <= wrote[s]
                         /\ kept[s] = <<>> /\ ~ truncated[s]
  BY DEF PumpInit, PumpStart, Drained
<1>4. KeptHead(0) = <<>> /\ KeptTail(0) = <<>>
  BY KeptSeqs, LeastIs, EmptySeq
<1>5. KeptInv
  BY <1>3, <1>4 DEF KeptInv, Streams
<1> QED BY <1>1, <1>2, <1>5 DEF PInv

LEMMA StepPInv == PInv /\ [PumpNext]_pumpVars => PInv'
<1> SUFFICES ASSUME PInv, [PumpNext]_pumpVars PROVE PInv'
  OBVIOUS
<1> USE DEF PInv
<1>1. CASE GitCalls \/ GitReads \/ UNCHANGED pumpVars
  <2>1. UNCHANGED <<git, success, plan, wrote, input, pipe, kept, truncated, pump, result>>
    BY <1>1 DEF GitCalls, GitReads, pumpVars
  <2> QED BY <2>1 DEF TypesOK, KeptInv, EndsInv, ResultInv, Drained
<1>2. ASSUME NEW s \in Streams, GitWrites(s)
      PROVE  PInv'
  <2>1. /\ UNCHANGED <<git, success, plan, input, kept, truncated, pump, result>>
        /\ wrote' = [wrote EXCEPT ![s] = @ + 1]
        /\ pipe' = [pipe EXCEPT ![s] = @ + 1]
        /\ git = "runs"
    BY <1>2 DEF GitWrites
  <2>2. \A r \in Streams : /\ Drained(r)' = Drained(r) /\ (pipe[r] <= wrote[r])'
    BY <2>1 DEF TypesOK, KeptInv, Drained
  <2>3. TypesOK'
    BY <2>1 DEF TypesOK
  <2>4. KeptInv'
    BY <2>1, <2>2 DEF KeptInv, Streams
  <2>5. EndsInv' /\ ResultInv'
    BY <2>1 DEF EndsInv, ResultInv
  <2> QED BY <2>3, <2>4, <2>5
<1>3. CASE GitSucceeds \/ GitFails
  <2>1. /\ UNCHANGED <<plan, wrote, input, pipe, kept, truncated, pump, result>>
        /\ git = "runs" /\ git' = "ended"
        /\ \/ success' = success
           \/ success' = TRUE /\ pump["stdin"] = "done" /\ wrote = plan
    BY <1>3 DEF GitSucceeds, GitFails, InputEnds
  <2>2. TypesOK' /\ KeptInv'
    BY <2>1 DEF TypesOK, KeptInv, Drained
  <2>3. EndsInv'
    BY <2>1 DEF EndsInv
  <2>4. ResultInv'
    BY <2>1 DEF ResultInv
  <2> QED BY <2>2, <2>3, <2>4
<1>4. CASE PumpInput
  BY <1>4 DEF PumpInput, TypesOK, KeptInv, EndsInv, ResultInv, Drained
<1>5. CASE CloseInput
  BY <1>5 DEF CloseInput, TypesOK, KeptInv, EndsInv, ResultInv, Drained, Streams
<1>6. ASSUME NEW s \in Streams, PumpOutput(s)
      PROVE  PInv'
  <2>1. /\ UNCHANGED <<git, success, plan, wrote, input, pump, result>>
        /\ pump[s] = "runs"
    BY <1>6 DEF PumpOutput
  <2>2. PICK n \in 1 .. pipe[s] : Read(s, n)
    BY <1>6 DEF PumpOutput
  <2>3. /\ pipe' = [pipe EXCEPT ![s] = @ - n]
        /\ DOMAIN kept' = Streams /\ truncated' \in [Streams -> BOOLEAN]
        /\ s = "stdout" => kept'[s] = KeptHead(Drained(s) + n)
        /\ s = "stderr" => kept'[s] = KeptTail(Drained(s) + n)
        /\ truncated'[s] <=> Drained(s) + n > Limit
        /\ \A r \in Streams \ {s} : kept'[r] = kept[r] /\ truncated'[r] = truncated[r]
    BY <2>2, ReadKeeps
  <2>4. /\ Drained(s)' = Drained(s) + n /\ (pipe[s] <= wrote[s])' /\ pipe'[s] \in Nat
        /\ \A r \in Streams \ {s} : Drained(r)' = Drained(r) /\ pipe'[r] = pipe[r]
    BY <2>1, <2>3 DEF TypesOK, KeptInv, Drained
  <2>5. TypesOK'
    BY <2>1, <2>3, <2>4 DEF TypesOK
  <2>6. KeptInv'
    BY <2>1, <2>3, <2>4 DEF KeptInv, Streams
  <2>7. EndsInv' /\ ResultInv'
    BY <2>1, <2>3, <2>4 DEF EndsInv, ResultInv, Streams
  <2> QED BY <2>5, <2>6, <2>7
<1>7. ASSUME NEW s \in Streams, CloseOutput(s)
      PROVE  PInv'
  BY <1>7 DEF CloseOutput, TypesOK, KeptInv, EndsInv, ResultInv, Drained, Streams
<1>8. CASE Wait
  BY <1>8 DEF Wait, TypesOK, KeptInv, EndsInv, ResultInv, Drained
<1>9. CASE Join
  BY <1>9 DEF Join, TypesOK, KeptInv, EndsInv, ResultInv, Drained, Streams
<1> QED BY <1>1, <1>2, <1>3, <1>4, <1>5, <1>6, <1>7, <1>8, <1>9
        DEF PumpNext, Git, Adapter

LEMMA AlwaysPInv == PumpSpec => []PInv
BY InitPInv, StepPInv, PTL DEF PumpSpec

(* A command whose output is used has written just that and been given all *)
(* of its input, output beyond the limit is an error, and what is reported *)
(* of stderr is its end (git_adapter.rs:374-440), for every capacity of    *)
(* the pipes, every limit, and however git mixes its reads and writes.     *)
THEOREM AlwaysComplete == PumpSpec => []ResultIsComplete
<1>1. ASSUME PInv, result # "none"
      PROVE  /\ result = "exceeded" <=> wrote["stdout"] > Limit
             /\ result = "output" =>
                  /\ kept["stdout"] = [i \in 1..plan["stdout"] |-> i]
                  /\ input = 0
             /\ kept["stderr"] = KeptTail(wrote["stderr"])
  <2>1. \A s \in Streams : /\ Drained(s) = wrote[s] /\ wrote[s] \in Nat
    BY <1>1 DEF PInv, TypesOK, EndsInv, ResultInv, Drained
  <2>2. result = "exceeded" <=> wrote["stdout"] > Limit
    BY <1>1, <2>1 DEF PInv, KeptInv, ResultInv, Streams
  <2>3. ASSUME result = "output"
        PROVE  kept["stdout"] = [i \in 1..plan["stdout"] |-> i] /\ input = 0
    <3>1. wrote = plan /\ input = 0 /\ wrote["stdout"] \in Nat /\ wrote["stdout"] <= Limit
      BY <1>1, <2>1, <2>2, <2>3 DEF PInv, EndsInv, ResultInv, Streams
    <3>2. Least(Limit, wrote["stdout"]) = wrote["stdout"]
      BY <3>1, LeastIs
    <3> QED BY <1>1, <2>1, <3>1, <3>2 DEF PInv, KeptInv, KeptHead, Streams
  <2> QED BY <1>1, <2>1, <2>2, <2>3 DEF PInv, KeptInv, Streams
<1>2. PInv => ResultIsComplete
  BY <1>1 DEF ResultIsComplete, KeptTail
<1> QED BY <1>2, AlwaysPInv, PTL
=============================================================================
