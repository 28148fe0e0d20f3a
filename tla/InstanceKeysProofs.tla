------------------------- MODULE InstanceKeysProofs -------------------------
(***************************************************************************)
(* What the names of InstanceKeys are good for, for every identifier of an *)
(* instance and every key, whatever segments they have: which pairs of     *)
(* entries share a name, and whose a name is taken to be.                  *)
(***************************************************************************)
EXTENDS InstanceKeys, TLAPS, SequenceTheorems

\* What may be between two ":", among it the segments that the code adds; and
\* the strings that name an instance.
SegmentSet(S) == {Prefix, CacheKind} \subseteq S
Ids(S)        == Seq(S) \ {<<>>, NoInstance}
Strings(S)    == Seq(S) \ {<<>>}

\* The identifier j goes on where the names of instance i have "cache".
Shadows(S, i, j) == \E m \in Seq(S) : j = i \o (<<CacheKind>> \o m)

LEMMA SegmentsDiffer == Prefix # CacheKind
  BY DEF Prefix, CacheKind

-----------------------------------------------------------------------------
(* Sequences                                                               *)

\* A sequence behind one segment.
LEMMA ConsOne ==
  ASSUME NEW S, NEW a \in S, NEW s \in Seq(S)
  PROVE  /\ <<a>> \o s \in Seq(S) /\ Len(<<a>> \o s) = Len(s) + 1
         /\ (<<a>> \o s)[1] = a
         /\ \A n \in 1 .. Len(s) : (<<a>> \o s)[n + 1] = s[n]
<1>1. <<a>> \in Seq(S) /\ Len(<<a>>) = 1 /\ <<a>>[1] = a
  OBVIOUS
<1>2. Len(s) \in Nat
  BY LenProperties
<1> QED BY <1>1, <1>2, ConcatProperties

\* A sequence behind another, position by position.
LEMMA Joined ==
  ASSUME NEW S, NEW s \in Seq(S), NEW t \in Seq(S)
  PROVE  /\ s \o t \in Seq(S) /\ Len(s \o t) = Len(s) + Len(t)
         /\ Len(s) \in Nat /\ Len(t) \in Nat
         /\ \A n \in 1 .. Len(s) : (s \o t)[n] = s[n]
         /\ \A n \in 1 .. Len(t) : (s \o t)[n + Len(s)] = t[n]
<1>1. Len(s) \in Nat /\ Len(t) \in Nat
  BY LenProperties
<1> QED BY <1>1, ConcatProperties

\* The tail of a sequence, from a position on.
LEMMA Suffix ==
  ASSUME NEW S, NEW s \in Seq(S), NEW d \in Nat, d <= Len(s)
  PROVE  /\ SubSeq(s, d + 1, Len(s)) \in Seq(S)
         /\ Len(SubSeq(s, d + 1, Len(s))) = Len(s) - d
         /\ \A n \in 1 .. Len(s) - d : SubSeq(s, d + 1, Len(s))[n] = s[n + d]
<1> DEFINE cut == SubSeq(s, d + 1, Len(s))
<1>1. Len(s) \in Nat /\ d + 1 \in Int /\ Len(s) \in Int
  BY LenProperties
<1>2. \A n \in d + 1 .. Len(s) : s[n] \in S
  BY <1>1, ElementOfSeq
<1>3. /\ cut \in Seq(S)
      /\ Len(cut) = IF d + 1 <= Len(s) THEN Len(s) - (d + 1) + 1 ELSE 0
      /\ \A n \in 1 .. Len(s) - (d + 1) + 1 : cut[n] = s[d + 1 + n - 1]
  BY <1>1, <1>2, SubSeqProperties
<1> HIDE DEF cut
<1>4. Len(cut) = Len(s) - d
  BY <1>1, <1>3
<1>5. \A n \in 1 .. Len(s) - d : cut[n] = s[n + d]
  BY <1>1, <1>3
<1> QED BY <1>3, <1>4, <1>5 DEF cut

\* A sequence that goes on behind another is that one and its own tail.
LEMMA Split ==
  ASSUME NEW S, NEW s \in Seq(S), NEW t \in Seq(S), Len(s) <= Len(t),
         \A n \in 1 .. Len(s) : t[n] = s[n]
  PROVE  t = s \o SubSeq(t, Len(s) + 1, Len(t))
<1> DEFINE rest == SubSeq(t, Len(s) + 1, Len(t))
           both == s \o rest
<1>1. Len(s) \in Nat /\ Len(t) \in Nat
  BY LenProperties
<1>2. /\ rest \in Seq(S) /\ Len(rest) = Len(t) - Len(s)
      /\ \A n \in 1 .. Len(t) - Len(s) : rest[n] = t[n + Len(s)]
  BY <1>1, Suffix
<1> HIDE DEF rest
<1>3. /\ both \in Seq(S) /\ Len(both) = Len(s) + Len(rest)
      /\ \A n \in 1 .. Len(s) : both[n] = s[n]
      /\ \A n \in 1 .. Len(rest) : both[n + Len(s)] = rest[n]
  BY <1>2, Joined
<1> HIDE DEF both
<1>4. Len(both) = Len(t)
  BY <1>1, <1>2, <1>3
<1>5. ASSUME NEW n \in 1 .. Len(t) PROVE both[n] = t[n]
  <2>1. CASE n \in 1 .. Len(s)
    BY <1>3, <2>1
  <2>2. CASE n \notin 1 .. Len(s)
    <3>1. n - Len(s) \in 1 .. Len(rest) /\ n = (n - Len(s)) + Len(s)
      BY <1>1, <1>2, <2>2
    <3>2. both[(n - Len(s)) + Len(s)] = rest[n - Len(s)]
      BY <1>3, <3>1
    <3>3. rest[n - Len(s)] = t[(n - Len(s)) + Len(s)]
      BY <1>2, <3>1
    <3> QED BY <3>1, <3>2, <3>3
  <2> QED BY <2>1, <2>2
<1>6. both = t
  BY <1>3, <1>4, <1>5, SeqEqual
<1> QED BY <1>6 DEF both, rest

-----------------------------------------------------------------------------
(* Names, position by position: without an instance, and with one          *)

LEMMA BareName ==
  ASSUME NEW S, SegmentSet(S), NEW k \in Seq(S)
  PROVE  /\ CacheKey(NoInstance, k) \in Seq(S) /\ Len(CacheKey(NoInstance, k)) = Len(k) + 1
         /\ CacheKey(NoInstance, k)[1] = CacheKind
         /\ \A n \in 1 .. Len(k) : CacheKey(NoInstance, k)[n + 1] = k[n]
<1>1. CacheKind \in S
  BY DEF SegmentSet
<1>2. CacheKey(NoInstance, k) = <<CacheKind>> \o k
  BY DEF CacheKey, BuildKey
<1> QED BY <1>1, <1>2, ConsOne

LEMMA OwnName ==
  ASSUME NEW S, SegmentSet(S), NEW i \in Ids(S), NEW k \in Seq(S)
  PROVE  /\ CacheKey(i, k) \in Seq(S) /\ Len(CacheKey(i, k)) = Len(i) + Len(k) + 2
         /\ Len(i) \in Nat \ {0} /\ Len(k) \in Nat
         /\ CacheKey(i, k)[1] = Prefix
         /\ \A n \in 1 .. Len(i) : CacheKey(i, k)[n + 1] = i[n]
         /\ CacheKey(i, k)[Len(i) + 2] = CacheKind
         /\ \A n \in 1 .. Len(k) : CacheKey(i, k)[n + (Len(i) + 2)] = k[n]
<1> DEFINE tail == <<CacheKind>> \o k
           body == i \o tail
           name == <<Prefix>> \o body
<1>0. i # <<>> /\ i # NoInstance
  BY DEF Ids
<1>1. CacheKind \in S /\ Prefix \in S /\ i \in Seq(S)
  BY DEF SegmentSet, Ids
<1>2. Len(i) \in Nat \ {0} /\ Len(k) \in Nat
  BY <1>0, <1>1, LenProperties, EmptySeq
<1>3. CacheKey(i, k) = name
  BY <1>0 DEF CacheKey, BuildKey
<1>4. /\ tail \in Seq(S) /\ Len(tail) = Len(k) + 1
      /\ tail[1] = CacheKind /\ \A n \in 1 .. Len(k) : tail[n + 1] = k[n]
  BY <1>1, ConsOne
<1> HIDE DEF tail
<1>5. /\ body \in Seq(S) /\ Len(body) = Len(i) + Len(tail)
      /\ \A n \in 1 .. Len(i) : body[n] = i[n]
      /\ \A n \in 1 .. Len(tail) : body[n + Len(i)] = tail[n]
  <2>1. i \in Seq(S)
    BY DEF Ids
  <2>2. tail \in Seq(S)
    BY <1>4
  <2> QED BY <2>1, <2>2, Joined
<1> HIDE DEF body
<1>6. /\ name \in Seq(S) /\ Len(name) = Len(body) + 1
      /\ name[1] = Prefix /\ \A n \in 1 .. Len(body) : name[n + 1] = body[n]
  BY <1>1, <1>5, ConsOne
<1> HIDE DEF name
<1>7. Len(name) = Len(i) + Len(k) + 2
  BY <1>2, <1>4, <1>5, <1>6
<1>8. \A n \in 1 .. Len(i) : name[n + 1] = i[n]
  BY <1>2, <1>4, <1>5, <1>6
<1>9. ASSUME NEW n \in 1 .. Len(tail) PROVE name[n + (Len(i) + 1)] = tail[n]
  <2>1. n + Len(i) \in 1 .. Len(body) /\ (n + Len(i)) + 1 = n + (Len(i) + 1)
    BY <1>2, <1>4, <1>5
  <2>2. name[(n + Len(i)) + 1] = body[n + Len(i)] /\ body[n + Len(i)] = tail[n]
    BY <1>5, <1>6, <2>1
  <2> QED BY <2>1, <2>2
<1>10. name[Len(i) + 2] = CacheKind
  <2>1. 1 \in 1 .. Len(tail) /\ 1 + (Len(i) + 1) = Len(i) + 2
    BY <1>2, <1>4
  <2> QED BY <1>4, <1>9, <2>1
<1>11. ASSUME NEW n \in 1 .. Len(k) PROVE name[n + (Len(i) + 2)] = k[n]
  <2>1. n + 1 \in 1 .. Len(tail) /\ (n + 1) + (Len(i) + 1) = n + (Len(i) + 2)
    BY <1>2, <1>4
  <2> QED BY <1>4, <1>9, <2>1
<1> QED BY <1>2, <1>3, <1>6, <1>7, <1>8, <1>10, <1>11

-----------------------------------------------------------------------------
(* Whose name it is                                                        *)

\* Two entries with one name are one entry, or the longer identifier goes on
\* where the names of the shorter have "cache".
LEMMA SameName ==
  ASSUME NEW S, SegmentSet(S), NEW i \in Ids(S), NEW j \in Ids(S),
         NEW k \in Seq(S), NEW l \in Seq(S),
         CacheKey(i, k) = CacheKey(j, l), Len(i) <= Len(j)
  PROVE  (i = j /\ k = l) \/ Shadows(S, i, j)
<1> DEFINE name == CacheKey(i, k)
<1>0. name = CacheKey(j, l)
  OBVIOUS
<1>1. i \in Seq(S) /\ j \in Seq(S)
  BY DEF Ids
<1> HIDE DEF name
<1>2. /\ Len(name) = Len(i) + Len(k) + 2 /\ Len(i) \in Nat \ {0} /\ Len(k) \in Nat
      /\ \A n \in 1 .. Len(i) : name[n + 1] = i[n]
      /\ name[Len(i) + 2] = CacheKind
      /\ \A n \in 1 .. Len(k) : name[n + (Len(i) + 2)] = k[n]
  <2>1. Len(name) = Len(i) + Len(k) + 2 /\ Len(i) \in Nat \ {0} /\ Len(k) \in Nat
    BY OwnName DEF name
  <2>2. \A n \in 1 .. Len(i) : name[n + 1] = i[n]
    BY OwnName DEF name
  <2>3. name[Len(i) + 2] = CacheKind
    BY OwnName DEF name
  <2>4. \A n \in 1 .. Len(k) : name[n + (Len(i) + 2)] = k[n]
    BY OwnName DEF name
  <2> QED BY <2>1, <2>2, <2>3, <2>4
<1>3. /\ Len(name) = Len(j) + Len(l) + 2 /\ Len(j) \in Nat \ {0} /\ Len(l) \in Nat
      /\ \A n \in 1 .. Len(j) : name[n + 1] = j[n]
      /\ \A n \in 1 .. Len(l) : name[n + (Len(j) + 2)] = l[n]
  <2>1. /\ Len(CacheKey(j, l)) = Len(j) + Len(l) + 2
        /\ Len(j) \in Nat \ {0} /\ Len(l) \in Nat
    BY OwnName
  <2>2. \A n \in 1 .. Len(j) : CacheKey(j, l)[n + 1] = j[n]
    BY OwnName
  <2>3. \A n \in 1 .. Len(l) : CacheKey(j, l)[n + (Len(j) + 2)] = l[n]
    <3>1. SegmentSet(S) /\ j \in Ids(S) /\ l \in Seq(S)
      OBVIOUS
    <3> QED BY ONLY <3>1, OwnName
  <2> QED BY <1>0, <2>1, <2>2, <2>3
<1>4. \A n \in 1 .. Len(i) : j[n] = i[n]
  BY <1>2, <1>3
<1>5. CASE Len(i) = Len(j)
  <2>1. i = j
    BY <1>1, <1>2, <1>4, <1>5, SeqEqual
  <2>2. Len(k) = Len(l) /\ \A n \in 1 .. Len(k) : k[n] = l[n]
    BY <1>2, <1>3, <1>5
  <2>3. k = l
    BY <2>2, SeqEqual
  <2> QED BY <2>1, <2>3
<1>6. CASE Len(i) # Len(j)
  <2> DEFINE rest == SubSeq(j, Len(i) + 1, Len(j))
             m    == SubSeq(rest, 1 + 1, Len(rest))
  <2>1. j = i \o rest
    BY <1>1, <1>4, Split
  <2>2. /\ rest \in Seq(S) /\ Len(rest) = Len(j) - Len(i)
        /\ \A n \in 1 .. Len(j) - Len(i) : rest[n] = j[n + Len(i)]
    BY <1>1, <1>2, Suffix
  <2> HIDE DEF rest
  <2>3. rest[1] = CacheKind /\ 1 <= Len(rest)
    <3>1. Len(i) + 1 \in 1 .. Len(j) /\ 1 \in 1 .. Len(j) - Len(i)
      BY <1>2, <1>3, <1>6
    <3>2. (Len(i) + 1) + 1 = Len(i) + 2 /\ 1 + Len(i) = Len(i) + 1
      BY <1>2
    <3>3. name[(Len(i) + 1) + 1] = j[Len(i) + 1] /\ rest[1] = j[1 + Len(i)]
      BY <1>3, <2>2, <3>1
    <3>4. rest[1] = CacheKind
      BY <1>2, <3>2, <3>3
    <3>5. 1 <= Len(rest)
      BY <2>2, <3>1
    <3> QED BY <3>4, <3>5
  <2>4. <<CacheKind>> \in Seq(S) /\ Len(<<CacheKind>>) = 1 /\ <<CacheKind>>[1] = CacheKind
    BY DEF SegmentSet
  <2>5. \A n \in 1 .. Len(<<CacheKind>>) : rest[n] = <<CacheKind>>[n]
    BY <2>3, <2>4
  <2>6. rest = <<CacheKind>> \o m
    BY <2>2, <2>3, <2>4, <2>5, Split
  <2>7. m \in Seq(S)
    BY <2>2, <2>3, Suffix
  <2> QED BY <2>1, <2>6, <2>7 DEF Shadows
<1> QED BY <1>5, <1>6

\* The entry that shares its name with the entry l of the longer identifier.
LEMMA ShadowedName ==
  ASSUME NEW S, SegmentSet(S), NEW i \in Ids(S), NEW j \in Ids(S), Shadows(S, i, j),
         NEW l \in Seq(S)
  PROVE  /\ i # j
         /\ \E k \in Strings(S) : CacheKey(i, k) = CacheKey(j, l)
<1> PICK m \in Seq(S) : j = i \o (<<CacheKind>> \o m)
  BY DEF Shadows
<1> DEFINE c    == <<CacheKind>>
           tail == c \o l
           k    == m \o tail
           end  == c \o m
<1>0. i \in Seq(S) /\ i # <<>> /\ i # NoInstance
  BY DEF Ids
<1>1. c \in Seq(S) /\ Len(c) = 1 /\ <<Prefix>> \in Seq(S)
  BY DEF SegmentSet
<1> HIDE DEF c
<1>2. tail \in Seq(S) /\ Len(tail) = 1 + Len(l) /\ Len(l) \in Nat
  <2>1. l \in Seq(S) /\ c \in Seq(S)
    BY <1>1
  <2>2. c \o l \in Seq(S) /\ Len(c \o l) = Len(c) + Len(l) /\ Len(l) \in Nat
    BY ONLY <2>1, Joined
  <2> QED BY <1>1, <2>2
<1>3. end \in Seq(S) /\ Len(end) = 1 + Len(m) /\ Len(m) \in Nat
  <2>1. m \in Seq(S) /\ c \in Seq(S)
    BY <1>1
  <2>2. c \o m \in Seq(S) /\ Len(c \o m) = Len(c) + Len(m) /\ Len(m) \in Nat
    BY ONLY <2>1, Joined
  <2> QED BY <1>1, <2>2
<1>4. k \in Seq(S) /\ Len(k) = Len(m) + Len(tail)
  BY <1>2, Joined
<1>5. j \in Seq(S) /\ Len(j) = Len(i) + Len(end) /\ Len(i) \in Nat
  BY <1>0, <1>3, Joined DEF c
<1>6. Len(i) # 0
  BY <1>0, EmptySeq
<1>7. j # <<>> /\ j # NoInstance /\ i # j
  <2>1. Len(j) >= 2 /\ Len(j) # Len(i)
    BY <1>3, <1>5, <1>6
  <2>2. Len(<<>>) = 0 /\ Len(NoInstance) = 1
    BY DEF NoInstance
  <2>3. j # <<>>
    BY <2>1, <2>2
  <2>4. j # NoInstance
    <3>1. Len(j) # Len(NoInstance)
      BY <1>5, <2>1, <2>2
    <3> QED BY ONLY <3>1
  <2>5. i # j
    <3>1. Len(j) # Len(i)
      BY <2>1
    <3> QED BY ONLY <3>1
  <2> QED BY <2>3, <2>4, <2>5
<1>8. k # <<>>
  <2>1. Len(k) # 0
    BY <1>2, <1>3, <1>4
  <2> QED BY <2>1
<1>9. CacheKey(i, k) = <<Prefix>> \o (i \o (c \o k))
  BY <1>0 DEF CacheKey, BuildKey, c
<1>10. CacheKey(j, l) = <<Prefix>> \o (j \o tail)
  BY <1>7 DEF CacheKey, BuildKey, c
<1>11. j \o tail = i \o (c \o k)
  <2>1. j = i \o end
    BY DEF c
  <2> HIDE DEF tail
  <2>2. (i \o end) \o tail = i \o (end \o tail)
    <3> HIDE DEF end
    <3>1. i \in Seq(S) /\ end \in Seq(S) /\ tail \in Seq(S)
      BY <1>0, <1>2, <1>3
    <3> QED BY ONLY <3>1, ConcatAssociative
  <2>3. (c \o m) \o tail = c \o (m \o tail)
    <3>1. c \in Seq(S) /\ m \in Seq(S) /\ tail \in Seq(S)
      BY <1>1, <1>2
    <3> QED BY ONLY <3>1, ConcatAssociative
  <2> QED BY <2>1, <2>2, <2>3
<1>12. k \in Strings(S)
  BY <1>4, <1>8 DEF Strings
<1>13. CacheKey(i, k) = CacheKey(j, l)
  BY <1>9, <1>10, <1>11
<1> HIDE DEF k
<1> QED BY <1>7, <1>12, <1>13

\* The names of two instances, or of one, never coincide exactly if neither
\* identifier goes on behind the other with "cache": KeyBuilder.CacheKey is
\* injective for identifiers without ":", and "a" with the key "cache:k" shares
\* its name with "a:cache" and "k".
THEOREM NamesAreUnique ==
  ASSUME NEW S, SegmentSet(S), NEW i \in Ids(S), NEW j \in Ids(S)
  PROVE  (\A k \in Strings(S), l \in Strings(S) :
            CacheKey(i, k) = CacheKey(j, l) => i = j /\ k = l)
         <=> ~Shadows(S, i, j) /\ ~Shadows(S, j, i)
<1>1. ASSUME ~Shadows(S, i, j), ~Shadows(S, j, i),
             NEW k \in Strings(S), NEW l \in Strings(S), CacheKey(i, k) = CacheKey(j, l)
      PROVE  i = j /\ k = l
  <2>1. k \in Seq(S) /\ l \in Seq(S) /\ Len(i) \in Nat /\ Len(j) \in Nat
    BY LenProperties DEF Strings, Ids
  <2>2. CASE Len(i) <= Len(j)
    BY <1>1, <2>1, <2>2, SameName
  <2>3. CASE Len(j) <= Len(i)
    BY <1>1, <2>1, <2>3, SameName
  <2> QED BY <2>1, <2>2, <2>3
<1>2. ASSUME NEW a \in Ids(S), NEW b \in Ids(S), Shadows(S, a, b)
      PROVE  \E k \in Strings(S), l \in Strings(S) : a # b /\ CacheKey(a, k) = CacheKey(b, l)
  <2>1. <<CacheKind>> \in Seq(S) /\ <<CacheKind>> \in Strings(S)
    BY DEF SegmentSet, Strings
  <2>2. \A l \in Seq(S) : a # b /\ \E k \in Strings(S) : CacheKey(a, k) = CacheKey(b, l)
    BY <1>2, ShadowedName
  <2> QED BY <2>1, <2>2
<1>3. ASSUME \A k \in Strings(S), l \in Strings(S) :
               CacheKey(i, k) = CacheKey(j, l) => i = j /\ k = l
      PROVE  ~Shadows(S, i, j) /\ ~Shadows(S, j, i)
  <2>1. ~Shadows(S, i, j)
    BY <1>2, <1>3
  <2>2. ~Shadows(S, j, i)
    BY <1>2, <1>3
  <2> QED BY <2>1, <2>2
<1> QED BY <1>1, <1>3

\* A name without an instance is never one with an instance, and belongs to one
\* key.
THEOREM BareNamesAreUnique ==
  ASSUME NEW S, SegmentSet(S), NEW i \in Ids(S), NEW k \in Seq(S), NEW l \in Seq(S)
  PROVE  /\ CacheKey(NoInstance, k) # CacheKey(i, l)
         /\ CacheKey(NoInstance, k) = CacheKey(NoInstance, l) => k = l
<1>1. CacheKey(NoInstance, k) # CacheKey(i, l)
  <2>1. CacheKey(NoInstance, k)[1] = CacheKind
    BY BareName
  <2>2. CacheKey(i, l)[1] = Prefix
    BY OwnName
  <2> QED BY <2>1, <2>2, SegmentsDiffer
<1>2. ASSUME CacheKey(NoInstance, k) = CacheKey(NoInstance, l) PROVE k = l
  <2>1. Len(CacheKey(NoInstance, k)) = Len(k) + 1 /\ Len(CacheKey(NoInstance, l)) = Len(l) + 1
    BY BareName
  <2>2. \A n \in 1 .. Len(k) : CacheKey(NoInstance, k)[n + 1] = k[n]
    BY BareName
  <2>3. \A n \in 1 .. Len(l) : CacheKey(NoInstance, l)[n + 1] = l[n]
    BY BareName
  <2>4. Len(k) \in Nat /\ Len(l) \in Nat
    BY LenProperties
  <2>5. Len(k) = Len(l)
    BY <1>2, <2>1, <2>4
  <2>6. \A n \in 1 .. Len(k) : k[n] = l[n]
    BY <1>2, <2>2, <2>3, <2>5
  <2> QED BY <2>5, <2>6, SeqEqual
<1> QED BY <1>1, <1>2

\* ParseKey takes one segment for the identifier: it finds the instance a name
\* was made for exactly if the identifier has no ":", and otherwise another.
THEOREM ParseFindsInstance ==
  ASSUME NEW S, SegmentSet(S), NEW i \in Ids(S), NEW k \in Seq(S)
  PROVE  /\ ParseKey(CacheKey(i, k)).inst = i <=> Len(i) = 1
         /\ ParseKey(CacheKey(NoInstance, k)).inst = NoInstance
<1> DEFINE name == CacheKey(i, k)
<1>1. i \in Seq(S) /\ Len(i) \in Nat \ {0} /\ Len(k) \in Nat
  BY OwnName DEF Ids
<1>2. name[1] = Prefix /\ Len(name) = Len(i) + Len(k) + 2
  BY OwnName
<1>3. name[2] = i[1]
  <2>1. \A n \in 1 .. Len(i) : name[n + 1] = i[n]
    BY OwnName
  <2>2. 1 \in 1 .. Len(i) /\ 1 + 1 = 2
    BY <1>1
  <2> QED BY <2>1, <2>2
<1> HIDE DEF name
<1>4. ParseKey(name).inst = <<i[1]>>
  BY <1>1, <1>2, <1>3 DEF ParseKey
<1>5. <<i[1]>> = i <=> Len(i) = 1
  <2>1. i[1] \in S
    BY <1>1, ElementOfSeq
  <2>2. <<i[1]>> \in Seq(S) /\ Len(<<i[1]>>) = 1 /\ <<i[1]>>[1] = i[1]
    BY <2>1
  <2>3. ASSUME Len(i) = 1 PROVE <<i[1]>> = i
    <3>1. \A n \in 1 .. Len(i) : <<i[1]>>[n] = i[n]
      BY <2>2, <2>3
    <3> QED BY <1>1, <2>2, <2>3, <3>1, SeqEqual
  <2> QED BY <2>2, <2>3
<1>6. ParseKey(CacheKey(NoInstance, k)).inst = NoInstance
  BY BareName, SegmentsDiffer DEF ParseKey
<1> QED BY <1>4, <1>5, <1>6 DEF name

\* A name begins with the identifiers that begin its own.
LEMMA BelowName ==
  ASSUME NEW S, SegmentSet(S), NEW i \in Ids(S), NEW j \in Ids(S), NEW k \in Seq(S),
         Len(i) <= Len(j)
  PROVE  Below(i, CacheKey(j, k)) <=> \E m \in Seq(S) : j = i \o m
<1> DEFINE name  == CacheKey(j, k)
           front == SubSeq(name, 1, Len(i) + 1)
           own   == <<Prefix>> \o i
<1>1. /\ i \in Seq(S) /\ j \in Seq(S) /\ Prefix \in S
      /\ Len(i) \in Nat /\ Len(j) \in Nat /\ Len(k) \in Nat
  BY LenProperties DEF Ids, SegmentSet
<1>2. name \in Seq(S) /\ Len(name) = Len(j) + Len(k) + 2 /\ name[1] = Prefix
  BY OwnName
<1>3. \A n \in 1 .. Len(j) : name[n + 1] = j[n]
  BY OwnName
<1> HIDE DEF name
<1>4. /\ own \in Seq(S) /\ Len(own) = Len(i) + 1 /\ own[1] = Prefix
      /\ \A n \in 1 .. Len(i) : own[n + 1] = i[n]
  BY <1>1, ConsOne
<1>5. /\ front \in Seq(S) /\ Len(front) = Len(i) + 1
      /\ \A n \in 1 .. Len(i) + 1 : front[n] = name[n]
  <2>1. 1 \in Int /\ Len(i) + 1 \in Int /\ Len(i) + 1 <= Len(name)
    BY <1>1, <1>2
  <2>2. \A n \in 1 .. Len(i) + 1 : name[n] \in S
    BY <1>1, <1>2, <2>1, ElementOfSeq
  <2>3. /\ front \in Seq(S)
        /\ Len(front) = IF 1 <= Len(i) + 1 THEN (Len(i) + 1) - 1 + 1 ELSE 0
        /\ \A n \in 1 .. (Len(i) + 1) - 1 + 1 : front[n] = name[1 + n - 1]
    BY <2>1, <2>2, SubSeqProperties
  <2> HIDE DEF front
  <2>4. Len(front) = Len(i) + 1
    BY <1>1, <2>3
  <2>5. \A n \in 1 .. Len(i) + 1 : front[n] = name[n]
    BY <1>1, <2>3
  <2> QED BY <2>3, <2>4, <2>5
<1> HIDE DEF front, own
<1>6. Below(i, name) <=> front = own
  BY <1>1, <1>2 DEF Below, front, own
<1>7. front = own <=> \A n \in 1 .. Len(i) : j[n] = i[n]
  <2>1. ASSUME front = own, NEW n \in 1 .. Len(i) PROVE j[n] = i[n]
    <3>1. n + 1 \in 1 .. Len(i) + 1 /\ n \in 1 .. Len(j)
      BY <1>1
    <3> QED BY <1>3, <1>4, <1>5, <2>1, <3>1
  <2>2. ASSUME \A n \in 1 .. Len(i) : j[n] = i[n] PROVE front = own
    <3>1. ASSUME NEW n \in 1 .. Len(i) + 1 PROVE front[n] = own[n]
      <4>1. CASE n = 1
        BY <1>1, <1>2, <1>4, <1>5, <4>1
      <4>2. CASE n # 1
        <5>1. n - 1 \in 1 .. Len(i) /\ n - 1 \in 1 .. Len(j) /\ n = (n - 1) + 1
          BY <1>1, <4>2
        <5>2. own[(n - 1) + 1] = i[n - 1] /\ name[(n - 1) + 1] = j[n - 1]
          BY <1>3, <1>4, <5>1
        <5> QED BY <1>5, <2>2, <5>1, <5>2
      <4> QED BY <4>1, <4>2
    <3> QED BY <1>4, <1>5, <3>1, SeqEqual
  <2> QED BY <2>1, <2>2
<1>8. (\A n \in 1 .. Len(i) : j[n] = i[n]) <=> \E m \in Seq(S) : j = i \o m
  <2>1. ASSUME \A n \in 1 .. Len(i) : j[n] = i[n] PROVE \E m \in Seq(S) : j = i \o m
    <3>1. j = i \o SubSeq(j, Len(i) + 1, Len(j))
      BY <1>1, <2>1, Split
    <3>2. SubSeq(j, Len(i) + 1, Len(j)) \in Seq(S)
      BY <1>1, Suffix
    <3> QED BY <3>1, <3>2
  <2>2. ASSUME NEW m \in Seq(S), j = i \o m PROVE \A n \in 1 .. Len(i) : j[n] = i[n]
    BY <1>1, <2>2, Joined
  <2> QED BY <2>1, <2>2
<1> QED BY <1>6, <1>7, <1>8 DEF name

\* IsInstanceKey and the pattern of BuildPattern take for names of an instance
\* those of the instances whose identifier its own begins, the instance itself
\* among them; of no other, if it is not the longer.  Without an instance, no
\* name of an instance is taken.
THEOREM NamesAreOwn ==
  ASSUME NEW S, SegmentSet(S), NEW i \in Ids(S), NEW j \in Ids(S), NEW k \in Seq(S),
         Len(i) <= Len(j)
  PROVE  /\ IsInstanceKey(i, CacheKey(j, k)) <=> \E m \in Seq(S) : j = i \o m
         /\ BuildPattern(i, CacheKey(j, k)) <=> \E m \in Seq(S) : j = i \o m
         /\ ~IsInstanceKey(NoInstance, CacheKey(j, k))
<1>1. i # NoInstance
  BY DEF Ids
<1>2. Below(i, CacheKey(j, k)) <=> \E m \in Seq(S) : j = i \o m
  BY BelowName
<1>3. ~IsInstanceKey(NoInstance, CacheKey(j, k))
  <2>1. CacheKey(j, k)[1] = Prefix /\ Len(CacheKey(j, k)) = Len(j) + Len(k) + 2
    BY OwnName
  <2>2. Len(j) \in Nat /\ Len(k) \in Nat
    BY LenProperties DEF Ids
  <2> QED BY <2>1, <2>2 DEF IsInstanceKey
<1> QED BY <1>1, <1>2, <1>3 DEF IsInstanceKey, BuildPattern

\* StripInstance takes off what BuildKey put on, once, whatever the identifier.
THEOREM StripUndoesBuild ==
  ASSUME NEW S, SegmentSet(S), NEW i \in Ids(S) \cup {NoInstance}, NEW k \in Seq(S)
  PROVE  StripInstance(i, CacheKey(i, k)) = CacheKey(NoInstance, k)
<1>1. CASE i = NoInstance
  BY <1>1 DEF StripInstance
<1>2. CASE i # NoInstance
  <2> DEFINE name == CacheKey(i, k)
             bare == CacheKey(NoInstance, k)
             cut  == SubSeq(name, (Len(i) + 1) + 1, Len(name))
  <2>0. i \in Ids(S)
    BY <1>2
  <2>1. Len(i) \in Nat /\ Len(k) \in Nat
    BY <2>0, OwnName
  <2>2. name \in Seq(S) /\ Len(name) = Len(i) + Len(k) + 2
    BY <2>0, OwnName
  <2>3. name[Len(i) + 2] = CacheKind
    BY <2>0, OwnName
  <2>4. \A n \in 1 .. Len(k) : name[n + (Len(i) + 2)] = k[n]
    BY <2>0, OwnName
  <2>5. /\ bare \in Seq(S) /\ Len(bare) = Len(k) + 1 /\ bare[1] = CacheKind
        /\ \A n \in 1 .. Len(k) : bare[n + 1] = k[n]
    BY BareName
  <2>6. IsInstanceKey(i, name)
    <3>1. <<>> \in Seq(S) /\ i = i \o <<>>
      BY <2>0, EmptySeq, ConcatEmptySeq DEF Ids
    <3>2. \E m \in Seq(S) : i = i \o m
      BY <3>1, Zenon
    <3>3. i \in Ids(S) /\ Len(i) <= Len(i)
      BY <2>0, <2>1
    <3>4. IsInstanceKey(i, CacheKey(i, k)) <=> \E m \in Seq(S) : i = i \o m
      BY <3>3, NamesAreOwn
    <3> QED BY <3>2, <3>4
  <2> HIDE DEF name, bare
  <2>7. StripInstance(i, name) = cut
    <3>1. (Len(i) + 1) + 1 = Len(i) + 2
      BY <2>1
    <3> QED BY <1>2, <2>6, <3>1 DEF StripInstance
  <2>8. /\ cut \in Seq(S) /\ Len(cut) = Len(k) + 1
        /\ \A n \in 1 .. Len(k) + 1 : cut[n] = name[n + (Len(i) + 1)]
    <3>1. Len(i) + 1 \in Nat /\ Len(i) + 1 <= Len(name) /\ Len(name) - (Len(i) + 1) = Len(k) + 1
      BY <2>1, <2>2
    <3> QED BY <2>2, <3>1, Suffix
  <2> HIDE DEF cut
  <2>9. ASSUME NEW n \in 1 .. Len(k) + 1 PROVE cut[n] = bare[n]
    <3>1. CASE n = 1
      <4>1. 1 + (Len(i) + 1) = Len(i) + 2 /\ 1 \in 1 .. Len(k) + 1
        BY <2>1
      <4> QED BY <2>3, <2>5, <2>8, <3>1, <4>1
    <3>2. CASE n # 1
      <4>1. n - 1 \in 1 .. Len(k) /\ n = (n - 1) + 1
            /\ n + (Len(i) + 1) = (n - 1) + (Len(i) + 2)
        BY <2>1, <3>2
      <4>2. name[(n - 1) + (Len(i) + 2)] = k[n - 1] /\ bare[(n - 1) + 1] = k[n - 1]
        BY <2>4, <2>5, <4>1
      <4> QED BY <2>8, <4>1, <4>2
    <3> QED BY <3>1, <3>2
  <2>10. cut = bare
    BY <2>5, <2>8, <2>9, SeqEqual
  <2> QED BY <2>7, <2>10 DEF name, bare
<1> QED BY <1>1, <1>2
=============================================================================
