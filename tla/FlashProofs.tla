----------------------------- MODULE FlashProofs -----------------------------
(***************************************************************************)
(* Theorems about the uploads of the repair server, for any files,         *)
(* contents and connections: over the networks that do not cut the part    *)
(* header and do not interleave requests, the file handle is used as       *)
(* littlefs demands, and what is answered "Successful!" is stored.         *)
(***************************************************************************)
EXTENDS FlashServer, SequenceTheorems, FiniteSetTheorems, TLAPS

-----------------------------------------------------------------------------
(* The body of an upload, token by token.                                  *)

Tokens == Letters \cup Clients \cup {CRLF, "type"}

LEMMA DataShape ==
    ASSUME NEW d \in DataSets
    PROVE  /\ d \in Seq(Tokens) /\ Len(d) \in Nat \ {0}
           /\ \A i \in 1 .. Len(d) : d[i] \in Letters
<1>1. d \in Seq(Letters) /\ d # <<>>
  BY UploadAssumption
<1>2. \A i \in 1 .. Len(d) : d[i] \in Letters
  BY <1>1, ElementOfSeq
<1>3. d \in Seq(Tokens)
  BY <1>1, SeqMonotonic, Letters \subseteq Tokens DEF Tokens
<1> QED
  BY <1>1, <1>2, <1>3, EmptySeq

LEMMA BodyShape ==
    ASSUME NEW c \in Clients, NEW d \in DataSets
    PROVE  /\ Body(c, d) \in Seq(Tokens) /\ Len(Body(c, d)) = Len(d) + 6
           /\ Body(c, d)[1] = c /\ Body(c, d)[2] = CRLF
           /\ Body(c, d)[3] = "type" /\ Body(c, d)[4] = CRLF
           /\ \A i \in 5 .. Len(d) + 4 : Body(c, d)[i] = d[i - 4]
           /\ Body(c, d)[Len(d) + 5] = CRLF /\ Body(c, d)[Len(d) + 6] = c
<1> DEFINE h == Header(c)
           t == Trailer(c)
<1>1. /\ h \in Seq(Tokens) /\ Len(h) = 4
      /\ h[1] = c /\ h[2] = CRLF /\ h[3] = "type" /\ h[4] = CRLF
  BY DEF Header, Tokens
<1>2. t \in Seq(Tokens) /\ Len(t) = 2 /\ t[1] = CRLF /\ t[2] = c
  BY DEF Trailer, Tokens
<1>3. d \in Seq(Tokens) /\ Len(d) \in Nat \ {0}
  BY DataShape
<1> HIDE DEF h, t
<1>4. /\ h \o d \in Seq(Tokens) /\ Len(h \o d) = Len(d) + 4
      /\ \A i \in 1 .. Len(d) + 4 : (h \o d)[i] = IF i <= 4 THEN h[i] ELSE d[i - 4]
  <2>1. /\ h \o d \in Seq(Tokens) /\ Len(h \o d) = Len(h) + Len(d)
        /\ \A i \in 1 .. Len(h) + Len(d) :
              (h \o d)[i] = IF i <= Len(h) THEN h[i] ELSE d[i - Len(h)]
    BY <1>1, <1>3, ConcatProperties, Zenon
  <2> QED
    BY <2>1, <1>1, <1>3
<1> DEFINE b == (h \o d) \o t
<1>5. /\ b \in Seq(Tokens) /\ Len(b) = Len(d) + 6
      /\ \A i \in 1 .. Len(d) + 6 : b[i] = IF i <= Len(d) + 4 THEN (h \o d)[i]
                                            ELSE t[i - (Len(d) + 4)]
  <2> DEFINE g == h \o d
  <2>2. g \in Seq(Tokens)
    BY <1>4
  <2> HIDE DEF g
  <2>3. /\ g \o t \in Seq(Tokens) /\ Len(g \o t) = Len(g) + Len(t)
        /\ \A i \in 1 .. Len(g) + Len(t) :
              (g \o t)[i] = IF i <= Len(g) THEN g[i] ELSE t[i - Len(g)]
    BY <1>2, <2>2, ConcatProperties, Zenon
  <2>1. /\ b \in Seq(Tokens) /\ Len(b) = Len(h \o d) + Len(t)
        /\ \A i \in 1 .. Len(h \o d) + Len(t) :
              b[i] = IF i <= Len(h \o d) THEN (h \o d)[i] ELSE t[i - Len(h \o d)]
    BY <2>3 DEF g, b
  <2> QED
    BY <2>1, <1>2, <1>3, <1>4
<1>6. Body(c, d) = b
  BY DEF Body, b, h, t
<1> HIDE DEF b
<1> QED
  BY <1>1, <1>2, <1>3, <1>4, <1>5, <1>6

(* What is left of a body after its first k tokens, and the next n.        *)
LeftFrom(c, d, k) == SubSeq(Body(c, d), k + 1, Len(d) + 6)
Segment(c, d, k, n) == SubSeq(Body(c, d), k + 1, k + n)

LEMMA PartOfBody ==
    ASSUME NEW c \in Clients, NEW d \in DataSets,
           NEW a \in 1 .. Len(d) + 7, NEW b \in a - 1 .. Len(d) + 6
    PROVE  /\ SubSeq(Body(c, d), a, b) \in Seq(Tokens)
           /\ Len(SubSeq(Body(c, d), a, b)) = b - a + 1
           /\ \A i \in 1 .. b - a + 1 : SubSeq(Body(c, d), a, b)[i] = Body(c, d)[a + i - 1]
<1>1. /\ Body(c, d) \in Seq(Tokens) /\ Len(Body(c, d)) = Len(d) + 6 /\ Len(d) \in Nat
  BY BodyShape, DataShape
<1>2. \A i \in a .. b : Body(c, d)[i] \in Tokens
  BY <1>1, ElementOfSeq
<1> QED
  BY <1>1, <1>2, SubSeqProperties

LEMMA NextSegment ==
    ASSUME NEW c \in Clients, NEW d \in DataSets,
           NEW k \in 0 .. Len(d) + 5, NEW n \in 1 .. Len(d) + 6 - k
    PROVE  /\ SubSeq(LeftFrom(c, d, k), 1, n) = Segment(c, d, k, n)
           /\ Len(LeftFrom(c, d, k)) = Len(d) + 6 - k
           /\ k + n < Len(d) + 6 =>
                SubSeq(LeftFrom(c, d, k), n + 1, Len(LeftFrom(c, d, k))) = LeftFrom(c, d, k + n)
<1>1. /\ Body(c, d) \in Seq(Tokens) /\ Len(Body(c, d)) = Len(d) + 6 /\ Len(d) \in Nat
  BY BodyShape, DataShape
<1>2. Len(LeftFrom(c, d, k)) = Len(d) + 6 - k
  BY PartOfBody, <1>1 DEF LeftFrom
<1>3. \A m \in 1 .. Len(d) + 6 - k, o \in 1 .. Len(d) + 6 - k :
         SubSeq(SubSeq(Body(c, d), k + 1, Len(d) + 6), m, o)
           = SubSeq(Body(c, d), (k + 1) + m - 1, (k + 1) + o - 1)
  <2> TAKE m \in 1 .. Len(d) + 6 - k, o \in 1 .. Len(d) + 6 - k
  <2> DEFINE i == k + 1
             j == Len(d) + 6
             s == Body(c, d)
  <2>1. i \in 1 .. Len(s) /\ j \in 1 .. Len(s) /\ m \in 1 .. j - i + 1 /\ o \in 1 .. j - i + 1
    BY <1>1
  <2>2. s \in Seq(Tokens)
    BY <1>1
  <2> HIDE DEF i, j, s
  <2>3. SubSeq(SubSeq(s, i, j), m, o) = SubSeq(s, i + m - 1, i + o - 1)
    <3>1. \A S : \A x \in Seq(S), t \in Seq(S) :
             \A p \in 1 .. Len(x), q \in 1 .. Len(x) :
               \A u \in 1 .. q - p + 1, v \in 1 .. q - p + 1 :
                 SubSeq(SubSeq(x, p, q), u, v) = SubSeq(x, p + u - 1, p + v - 1)
      BY SubSeqOfSubSeq
    <3> QED
      BY <2>1, <2>2, <3>1
  <2> QED
    BY <2>3 DEF i, j, s
<1>4. SubSeq(LeftFrom(c, d, k), 1, n) = Segment(c, d, k, n)
  <2>1. (k + 1) + 1 - 1 = k + 1 /\ (k + 1) + n - 1 = k + n /\ 1 \in 1 .. Len(d) + 6 - k
    BY <1>1
  <2>2. SubSeq(LeftFrom(c, d, k), 1, n) = SubSeq(Body(c, d), (k + 1) + 1 - 1, (k + 1) + n - 1)
    BY <1>3, <2>1, Zenon DEF LeftFrom
  <2> QED
    BY <2>1, <2>2, Zenon DEF Segment
<1>5. ASSUME k + n < Len(d) + 6
      PROVE  SubSeq(LeftFrom(c, d, k), n + 1, Len(LeftFrom(c, d, k))) = LeftFrom(c, d, k + n)
  <2> DEFINE l == Len(d) + 6 - k
  <2>1. /\ (k + 1) + (n + 1) - 1 = (k + n) + 1 /\ (k + 1) + l - 1 = Len(d) + 6
        /\ n + 1 \in 1 .. Len(d) + 6 - k /\ l \in 1 .. Len(d) + 6 - k
    BY <1>1, <1>5
  <2>2. SubSeq(LeftFrom(c, d, k), n + 1, l)
          = SubSeq(Body(c, d), (k + 1) + (n + 1) - 1, (k + 1) + l - 1)
    BY <1>3, <2>1, Zenon DEF LeftFrom
  <2> QED
    BY <1>2, <2>1, <2>2, Zenon DEF LeftFrom
<1> QED
  BY <1>2, <1>4, <1>5

LEMMA SegmentShape ==
    ASSUME NEW c \in Clients, NEW d \in DataSets,
           NEW k \in 0 .. Len(d) + 5, NEW n \in 1 .. Len(d) + 6 - k
    PROVE  /\ Segment(c, d, k, n) \in Seq(Tokens) /\ Len(Segment(c, d, k, n)) = n
           /\ DOMAIN Segment(c, d, k, n) = 1 .. n
           /\ \A i \in 1 .. n : Segment(c, d, k, n)[i] = Body(c, d)[k + i]
<1> USE DataShape
<1> DEFINE a == k + 1
           b == k + n
<1>1. a \in 1 .. Len(d) + 7 /\ b \in a - 1 .. Len(d) + 6 /\ b - a + 1 = n
  OBVIOUS
<1>2. \A i \in 1 .. n : a + i - 1 = k + i
  OBVIOUS
<1>3. /\ Segment(c, d, k, n) = SubSeq(Body(c, d), a, b)
  BY DEF Segment
<1> HIDE DEF a, b
<1>4. /\ SubSeq(Body(c, d), a, b) \in Seq(Tokens)
      /\ Len(SubSeq(Body(c, d), a, b)) = n
      /\ \A i \in 1 .. n : SubSeq(Body(c, d), a, b)[i] = Body(c, d)[a + i - 1]
  BY <1>1, PartOfBody
<1> QED
  BY <1>2, <1>3, <1>4, LenProperties

-----------------------------------------------------------------------------
(* What the scan for line ends finds in a segment.                         *)

LEMMA LineEndsOf ==
    ASSUME NEW c \in Clients, NEW d \in DataSets,
           NEW k \in 0 .. Len(d) + 5, NEW n \in 1 .. Len(d) + 6 - k
    PROVE  LineEnds(Segment(c, d, k, n)) = {i \in 1 .. n : Body(c, d)[k + i] = CRLF}
  BY SegmentShape DEF LineEnds

(* A first segment with the whole header: it is skipped, and the boundary  *)
(* is the one of the request.                                              *)
LEMMA FirstLines ==
    ASSUME NEW c \in Clients, NEW d \in DataSets, NEW n \in 5 .. Len(d) + 6, stage = 0
    PROVE  /\ AfterHeader(Segment(c, d, 0, n)) = 4
           /\ NewBoundary(Segment(c, d, 0, n)) = c
<1> DEFINE s == Segment(c, d, 0, n)
           L == LineEnds(s)
           Upto(i) == {j \in L : j <= i}
<1>0. Len(d) \in Nat \ {0} /\ n \in Nat /\ 0 \in 0 .. Len(d) + 5 /\ n \in 1 .. Len(d) + 6 - 0
  BY DataShape
<1>1. L = {i \in 1 .. n : Body(c, d)[0 + i] = CRLF}
  BY <1>0, LineEndsOf, Zenon DEF s
<1>2. c # CRLF /\ "type" # CRLF
  BY UploadAssumption DEF CRLF
<1>3. L \in SUBSET (1 .. n) /\ 2 \in L /\ 4 \in L /\ 1 \notin L /\ 3 \notin L
  BY <1>0, <1>1, <1>2, BodyShape
<1>4. s[1] = c
  <2>1. s[1] = Body(c, d)[0 + 1]
    BY <1>0, SegmentShape
  <2> QED
    BY <2>1, BodyShape
<1> HIDE DEF s, L
<1>5. IsFiniteSet(L)
  <2>1. 1 \in Int /\ n \in Int
    BY <1>0
  <2>2. IsFiniteSet(1 .. n)
    BY <2>1, FS_Interval, Zenon
  <2> QED
    BY <1>3, <2>2, FS_Subset, Zenon
<1>6. \A i \in L : IsFiniteSet(Upto(i)) /\ Upto(i) \in SUBSET L
  BY <1>5, FS_Subset
<1>7. Cardinality(Upto(2)) = 1
  <2>1. \A j \in L : j <= 2 <=> j = 2
    BY <1>3
  <2>2. Upto(2) = {2}
    BY <1>3, <2>1, Zenon
  <2> QED
    BY <2>2, FS_Singleton, Zenon
<1>8. Cardinality({2, 4}) = 2 /\ IsFiniteSet({2, 4})
  <2>1. IsFiniteSet({2}) /\ Cardinality({2}) = 1
    BY FS_Singleton
  <2>4. 4 \notin {2}
    OBVIOUS
  <2>5. IsFiniteSet({2} \cup {4}) /\ Cardinality({2} \cup {4}) = Cardinality({2}) + 1
    BY <2>1, <2>4, FS_AddElement, Zenon
  <2>3. {2} \cup {4} = {2, 4}
    OBVIOUS
  <2>6. 1 + 1 = 2
    OBVIOUS
  <2> QED
    BY <2>1, <2>3, <2>5, <2>6, Zenon
<1>9. Cardinality(Upto(4)) = 2
  <2>1. \A j \in L : j <= 4 <=> j \in {2, 4}
    BY <1>3
  <2>2. Upto(4) = {2, 4}
    BY <1>3, <2>1, Zenon
  <2> QED
    BY <2>2, <1>8
<1>10. ASSUME NEW i \in L, i # 2, i # 4
       PROVE  Cardinality(Upto(i)) \in Nat /\ Cardinality(Upto(i)) >= 3
  <2>1. i > 4 /\ i \notin {2, 4}
    BY <1>3, <1>10
  <2>4. IsFiniteSet({2, 4} \cup {i}) /\ Cardinality({2, 4} \cup {i}) = Cardinality({2, 4}) + 1
    BY <1>8, <2>1, FS_AddElement, Zenon
  <2>5. 2 + 1 = 3
    OBVIOUS
  <2>2. IsFiniteSet({2, 4} \cup {i}) /\ Cardinality({2, 4} \cup {i}) = 3
    BY <1>8, <2>4, <2>5, Zenon
  <2>3. {2, 4} \cup {i} \in SUBSET Upto(i)
    BY <1>3, <1>10, <2>1
  <2> QED
    <3>1. Cardinality({2, 4} \cup {i}) <= Cardinality(Upto(i))
      BY <1>6, <2>3, FS_Subset, Zenon
    <3>2. Cardinality(Upto(i)) \in Nat
      BY <1>6, FS_CardinalityType, Zenon
    <3> QED
      BY <2>2, <3>1, <3>2
<1> HIDE DEF Upto
<1>11. \A i \in L : Cardinality(Upto(i)) = 1 <=> i = 2
  BY <1>7, <1>9, <1>10
<1>12. \A i \in L : Cardinality(Upto(i)) = 2 <=> i = 4
  BY <1>7, <1>9, <1>10
<1>13. LineEnd(s, 1) = 2
  <2>1. LineEnd(s, 1) = CHOOSE i \in L : Cardinality(Upto(i)) = 1
    BY DEF LineEnd, L, Upto
  <2>2. \E i \in L : Cardinality(Upto(i)) = 1
    BY <1>3, <1>7
  <2> QED
    BY <2>1, <2>2, <1>11
<1>14. LineEnd(s, 2) = 4
  <2>1. LineEnd(s, 2) = CHOOSE i \in L : Cardinality(Upto(i)) = 2
    BY DEF LineEnd, L, Upto
  <2>2. \E i \in L : Cardinality(Upto(i)) = 2
    BY <1>3, <1>9
  <2> QED
    BY <2>1, <2>2, <1>12
<1>15. Cardinality(L) >= 2
  <2>1. {2, 4} \in SUBSET L
    BY <1>3
  <2> QED
    BY <2>1, <1>5, <1>8, FS_Subset
<1>16. AfterHeader(s) = 4
  BY <1>14, <1>15, stage = 0 DEF AfterHeader, HeaderLines, L
<1>17. NewBoundary(s) = c
  <2>1. L # {} /\ 1 \notin L
    BY <1>3
  <2> QED
    BY <2>1, <1>4, <1>13, stage = 0 DEF NewBoundary, L
<1> QED
  BY <1>16, <1>17 DEF s

(* The closing boundary is found in the last segment if that begins before *)
(* it, and nothing else is taken for it.                                   *)
LEMMA EndOfBody ==
    ASSUME NEW c \in Clients, NEW d \in DataSets, NEW k \in 0 .. Len(d) + 5,
           NewBoundary(Segment(c, d, k, Len(d) + 6 - k)) = c
    PROVE  BeforeEnd(Segment(c, d, k, Len(d) + 6 - k), TRUE)
             = IF k < Len(d) + 4 THEN Len(d) + 4 - k ELSE Len(d) + 6 - k
<1> DEFINE n == Len(d) + 6 - k
           s == Segment(c, d, k, n)
           e == Len(d) + 5 - k
<1>0. Len(d) \in Nat \ {0} /\ n \in 1 .. Len(d) + 6 - k /\ n \in Nat
  BY DataShape
<1>1. /\ Len(s) = n /\ \A i \in 1 .. n : s[i] = Body(c, d)[k + i]
      /\ LineEnds(s) = {i \in 1 .. n : Body(c, d)[k + i] = CRLF}
  <2> HIDE DEF n
  <2>1. Len(s) = n /\ \A i \in 1 .. n : s[i] = Body(c, d)[k + i]
    BY <1>0, SegmentShape
  <2>2. LineEnds(s) = {i \in 1 .. n : Body(c, d)[k + i] = CRLF}
    BY <1>0, LineEndsOf
  <2> QED
    BY <2>1, <2>2
<1>2. c # NoBoundary /\ c # CRLF /\ c # "type" /\ c \notin Letters
  BY ServerAssumption, UploadAssumption
<1>3. \A j \in 2 .. Len(d) + 6 : Body(c, d)[j] = c => j = Len(d) + 6
  <2> TAKE j \in 2 .. Len(d) + 6
  <2>1. j \in 5 .. Len(d) + 4 => Body(c, d)[j] \in Letters
    <3>1. j \in 5 .. Len(d) + 4 => j - 4 \in 1 .. Len(d)
      BY <1>0
    <3> QED
      BY <3>1, BodyShape, DataShape
  <2>2. j \in {2, 3, 4} => Body(c, d)[j] \in {CRLF, "type"}
    BY BodyShape
  <2>3. Body(c, d)[Len(d) + 5] = CRLF
    BY BodyShape
  <2>4. j \in {2, 3, 4} \/ j \in 5 .. Len(d) + 4 \/ j = Len(d) + 5 \/ j = Len(d) + 6
    BY <1>0
  <2> QED
    BY <1>2, <2>1, <2>2, <2>3, <2>4
<1>4. Ends(s) = {i \in LineEnds(s) : 1 < i /\ i < n /\ s[i + 1] = c}
  BY <1>1, <1>2, NewBoundary(s) = c DEF Ends
<1>5. \A i \in Ends(s) : i = e
  <2> TAKE i \in Ends(s)
  <2>1. i \in 1 .. n /\ 1 < i /\ i < n /\ s[i + 1] = c
    BY <1>1, <1>4
  <2>2. i + 1 \in 1 .. n /\ k + (i + 1) \in 2 .. Len(d) + 6
    BY <1>0, <2>1
  <2>3. Body(c, d)[k + (i + 1)] = c
    BY <1>1, <2>1, <2>2
  <2> QED
    BY <1>0, <1>3, <2>1, <2>2, <2>3
<1>6. k < Len(d) + 4 => e \in Ends(s)
  <2> HAVE k < Len(d) + 4
  <2>1. e \in 1 .. n /\ e + 1 \in 1 .. n /\ 1 < e /\ e < n
        /\ k + e = Len(d) + 5 /\ k + (e + 1) = Len(d) + 6
    BY <1>0
  <2>2. e \in LineEnds(s) /\ s[e + 1] = c
    BY <1>1, <2>1, BodyShape
  <2> QED
    BY <1>4, <2>1, <2>2
<1>7. ~(k < Len(d) + 4) => Ends(s) = {}
  <2> SUFFICES ASSUME ~(k < Len(d) + 4), NEW i \in Ends(s) PROVE FALSE
    OBVIOUS
  <2>1. i = e /\ 1 < i
    BY <1>4, <1>5
  <2> QED
    BY <1>0, <2>1
<1>8. CASE k < Len(d) + 4
  <2>1. Ends(s) = {e}
    BY <1>5, <1>6, <1>8
  <2>2. (CHOOSE i \in Ends(s) : \A j \in Ends(s) : i <= j) = e
    <3>1. e <= e
      BY <1>0
    <3> HIDE DEF e
    <3> QED
      BY <2>1, <3>1
  <2> QED
    BY <1>0, <1>8, <2>1, <2>2 DEF BeforeEnd
<1>9. CASE ~(k < Len(d) + 4)
  BY <1>1, <1>7, <1>9 DEF BeforeEnd
<1> QED
  BY <1>8, <1>9

-----------------------------------------------------------------------------
(* One segment, of a request that is alone and whose header is not cut.    *)

Types ==
    /\ network \in SUBSET Troubles
    /\ request \in [Clients -> [name : Names \cup {NoName}, data : Seq(Tokens), left : Seq(Tokens)]]
    /\ file \in [name : Names \cup {NoName}, written : Seq(Tokens), open : BOOLEAN]
    /\ files \in [Names -> Seq(Tokens)]
    /\ told \in [Clients -> {"none", "done", "scan"}]
    /\ page \subseteq Clients /\ misused \in BOOLEAN

Uncut == network \subseteq {"cutEnd", "closed"}

(* What the globals say of a request in progress is true of it, and the    *)
(* file holds what has come of the data.                                   *)
InProgress(c) ==
    LET d == request[c].data
    IN  /\ request[c].name \in Names /\ d \in DataSets
        /\ action = request[c].name /\ total = Len(d) + 6
        /\ got \in {0} \cup 5 .. Len(d) + 5
        /\ request[c].left = LeftFrom(c, d, got)
        /\ stage = IF got = 0 THEN 0 ELSE 2
        /\ told[c] = "none"
        /\ got > 0 =>
              /\ boundary = c
              /\ "cutEnd" \notin network => got < Len(d) + 4
              /\ ~misused => file = [name |-> request[c].name, open |-> TRUE,
                                     written |-> SubSeq(Body(c, d), 5, got)]

LEMMA PartOfSegment ==
    ASSUME NEW c \in Clients, NEW d \in DataSets,
           NEW k \in 0 .. Len(d) + 5, NEW n \in 1 .. Len(d) + 6 - k,
           NEW a \in 1 .. n, NEW b \in 1 .. n
    PROVE  SubSeq(Segment(c, d, k, n), a, b) = SubSeq(Body(c, d), k + a, k + b)
<1> DEFINE i == k + 1
           j == k + n
           s == Body(c, d)
<1>1. /\ Body(c, d) \in Seq(Tokens) /\ Len(Body(c, d)) = Len(d) + 6 /\ Len(d) \in Nat
  BY BodyShape, DataShape
<1>2. /\ i \in 1 .. Len(s) /\ j \in 1 .. Len(s) /\ a \in 1 .. j - i + 1 /\ b \in 1 .. j - i + 1
      /\ i + a - 1 = k + a /\ i + b - 1 = k + b
  BY <1>1
<1>3. Segment(c, d, k, n) = SubSeq(s, i, j) /\ s \in Seq(Tokens)
  BY <1>1 DEF Segment
<1> HIDE DEF i, j, s
<1>4. \A S : \A x \in Seq(S), t \in Seq(S) :
         \A p \in 1 .. Len(x), q \in 1 .. Len(x) :
           \A u \in 1 .. q - p + 1, v \in 1 .. q - p + 1 :
             SubSeq(SubSeq(x, p, q), u, v) = SubSeq(x, p + u - 1, p + v - 1)
  BY SubSeqOfSubSeq
<1>5. SubSeq(SubSeq(s, i, j), a, b) = SubSeq(s, i + a - 1, i + b - 1)
  BY <1>2, <1>3, <1>4
<1> QED
  BY <1>2, <1>3, <1>5 DEF s

LEMMA DataOfBody ==
    ASSUME NEW c \in Clients, NEW d \in DataSets
    PROVE  /\ SubSeq(Body(c, d), 5, Len(d) + 4) = d
           /\ \A k \in 5 .. Len(d) + 5, e \in 5 .. Len(d) + 6 : k < e =>
                SubSeq(Body(c, d), 5, k) \o SubSeq(Body(c, d), k + 1, e) = SubSeq(Body(c, d), 5, e)
<1> DEFINE s == Body(c, d)
           x == SubSeq(s, 5, Len(d) + 4)
<1>1. s \in Seq(Tokens) /\ Len(s) = Len(d) + 6 /\ Len(d) \in Nat \ {0} /\ d \in Seq(Tokens)
  BY BodyShape, DataShape
<1>2. x = d
  <2> DEFINE a == 5
             b == Len(d) + 4
  <2>1. a \in 1 .. Len(d) + 7 /\ b \in a - 1 .. Len(d) + 6 /\ b - a + 1 = Len(d)
    BY <1>1
  <2>2. x = SubSeq(s, a, b)
    OBVIOUS
  <2>6. \A i \in 1 .. Len(d) : a + i - 1 = i + 4 /\ i + 4 \in 5 .. Len(d) + 4 /\ (i + 4) - 4 = i
    BY <1>1
  <2> HIDE DEF a, b, x
  <2>3. /\ x \in Seq(Tokens) /\ Len(x) = Len(d)
        /\ \A i \in 1 .. Len(d) : x[i] = s[a + i - 1]
    BY <2>1, <2>2, PartOfBody
  <2>4. \A i \in 1 .. Len(d) : x[i] = d[i]
    <3> TAKE i \in 1 .. Len(d)
    <3>1. s[i + 4] = d[(i + 4) - 4]
      BY <2>6, BodyShape
    <3> QED
      BY <2>3, <2>6, <3>1
  <2> QED
    BY <1>1, <2>3, <2>4, SeqEqual
<1>3. ASSUME NEW k \in 5 .. Len(d) + 5, NEW e \in 5 .. Len(d) + 6, k < e
      PROVE  SubSeq(s, 5, k) \o SubSeq(s, k + 1, e) = SubSeq(s, 5, e)
  <2>1. /\ 5 \in 1 .. Len(s) + 1 /\ k \in 5 - 1 .. Len(s) /\ e \in k .. Len(s)
    BY <1>1, <1>3
  <2> HIDE DEF s
  <2> QED
    BY <1>1, <2>1, ConcatAdjacentSubSeq
<1> QED
  BY <1>2, <1>3

(* What one segment does.                                                  *)
Finished(c, n) == got + n = Len(request[c].data) + 6

Contents(c) ==
    LET d == request[c].data
    IN  IF got < Len(d) + 4 THEN d ELSE SubSeq(Body(c, d), 5, Len(d) + 6)

Advanced(c, n) ==
    /\ ~Finished(c, n)
    /\ request' = [request EXCEPT ![c].left = LeftFrom(c, request[c].data, got + n)]
    /\ action' = action /\ told' = told /\ files' = files
    /\ "cutEnd" \notin network => got + n < Len(request[c].data) + 4
    /\ ~misused' => file' = [name |-> request[c].name, open |-> TRUE,
                             written |-> SubSeq(Body(c, request[c].data), 5, got + n)]

Answers(c, n) ==
    /\ Finished(c, n)
    /\ request' = [request EXCEPT ![c] = NoRequest]
    /\ told' = [told EXCEPT ![c] = "done"]
    /\ ~file'.open
    /\ ~misused' => files' = [files EXCEPT ![request[c].name] = Contents(c)]

LEMMA Received ==
    ASSUME Types, Uncut, NEW c \in Clients, request[c] # NoRequest, InProgress(c),
           NEW n \in Nat, Receive(c, n)
    PROVE  /\ got + n \in 5 .. Len(request[c].data) + 6 /\ n > 0
           /\ got' = got + n /\ stage' = 2 /\ boundary' = c /\ total' = total /\ page' = page
           /\ misused' = (misused \/ (got = 0 /\ file.open) \/ (got > 0 /\ ~file.open))
           /\ file' \in [name : Names \cup {NoName}, written : Seq(Tokens), open : BOOLEAN]
           /\ files' \in [Names -> Seq(Tokens)]
           /\ Advanced(c, n) \/ Answers(c, n)
<1> DEFINE d == request[c].data
           k == got
           left == request[c].left
           seg == SubSeq(left, 1, n)
           last == total = got + n
           data == SubSeq(seg, AfterHeader(seg) + 1, BeforeEnd(seg, last))
           over == n = Len(left)
           m == IF k = 0 THEN 5 ELSE k + 1
           e == IF last THEN IF k < Len(d) + 4 THEN Len(d) + 4 ELSE Len(d) + 6 ELSE k + n
<1>1. /\ request[c].name \in Names /\ d \in DataSets /\ Len(d) \in Nat \ {0} /\ d \in Seq(Tokens)
      /\ action = request[c].name /\ total = Len(d) + 6
      /\ k \in {0} \cup 5 .. Len(d) + 5 /\ k \in 0 .. Len(d) + 5
      /\ left = LeftFrom(c, d, k)
      /\ stage = IF k = 0 THEN 0 ELSE 2
  BY DataShape DEF InProgress
<1>2. Len(left) = Len(d) + 6 - k /\ n \in 1 .. Len(d) + 6 - k
  <2>1. 1 \in 1 .. Len(d) + 6 - k
    BY <1>1
  <2>2. Len(left) = Len(d) + 6 - k
    BY <1>1, <2>1, NextSegment
  <2>3. n \in 1 .. Len(left)
    BY DEF Receive
  <2> QED
    BY <2>2, <2>3
<1>3. /\ seg = Segment(c, d, k, n)
      /\ ~over => SubSeq(left, n + 1, Len(left)) = LeftFrom(c, d, k + n)
  BY <1>1, <1>2, NextSegment
<1>4. (last <=> over) /\ (over <=> k + n = Len(d) + 6) /\ (over <=> n = Len(d) + 6 - k)
  BY <1>1, <1>2
<1>5. k = 0 => n > 4
  <2> HAVE k = 0
  <2>1. left = Body(c, d)
    <3>1. Body(c, d) \in Seq(Tokens) /\ Len(Body(c, d)) = Len(d) + 6
      BY <1>1, BodyShape
    <3>2. left = SubSeq(Body(c, d), 1, Len(d) + 6)
      BY <1>1 DEF LeftFrom
    <3> QED
      BY <3>1, <3>2, SubSeqFull
  <2>2. "cutHeader" \notin network
    BY DEF Uncut
  <2>3. n > Len(Header(c))
    BY <2>1, <2>2 DEF Receive
  <2> QED
    BY <2>3 DEF Header
<1>6. "cutEnd" \in network \/ over \/ n <= Len(d) + 3 - k
  <2>1. "cutEnd" \in network \/ over \/ n <= Len(left) - 1 - Len(Trailer(c))
    BY DEF Receive
  <2>2. Len(Trailer(c)) = 2
    BY DEF Trailer
  <2> QED
    BY <1>1, <1>2, <2>1, <2>2
<1>7. NewBoundary(seg) = c /\ AfterHeader(seg) = IF k = 0 THEN 4 ELSE 0
  <2>1. CASE k = 0
    <3>1. n \in 5 .. Len(d) + 6 /\ stage = 0 /\ seg = Segment(c, d, 0, n)
      BY <1>1, <1>2, <1>3, <1>5, <2>1
    <3> QED
      BY <1>1, <2>1, <3>1, FirstLines
  <2>2. CASE k # 0
    <3>1. stage = 2 /\ boundary = c
      BY <1>1, <2>2 DEF InProgress
    <3> QED
      BY <3>1, <2>2 DEF NewBoundary, AfterHeader
  <2> QED
    BY <2>1, <2>2
<1>8. BeforeEnd(seg, last) = e - k /\ e - k \in 1 .. n
  <2>1. CASE last
    <3>1. n = Len(d) + 6 - k
      BY <1>4, <2>1
    <3>2. BeforeEnd(Segment(c, d, k, Len(d) + 6 - k), TRUE)
             = IF k < Len(d) + 4 THEN Len(d) + 4 - k ELSE Len(d) + 6 - k
      BY <1>1, <1>3, <1>7, <3>1, EndOfBody
    <3>3. BeforeEnd(seg, last) = IF k < Len(d) + 4 THEN Len(d) + 4 - k ELSE Len(d) + 6 - k
      BY <1>3, <2>1, <3>1, <3>2
    <3> QED
      BY <1>1, <1>2, <2>1, <3>1, <3>3
  <2>2. CASE ~last
    <3>1. BeforeEnd(seg, last) = Len(seg)
      BY <2>2 DEF BeforeEnd
    <3>2. Len(seg) = n
      BY <1>1, <1>2, <1>3, SegmentShape
    <3> QED
      BY <1>1, <1>2, <2>2, <3>1, <3>2
  <2> QED
    BY <2>1, <2>2
<1>9. m <= e /\ m - k \in 1 .. n /\ m \in 1 .. Len(d) + 7 /\ e \in m .. Len(d) + 6
  BY <1>1, <1>2, <1>4, <1>5
<1>10. data = SubSeq(Body(c, d), m, e)
  <2> DEFINE a == m - k
             b == e - k
  <2>1. AfterHeader(seg) + 1 = a
    BY <1>1, <1>7
  <2>2. k + a = m /\ k + b = e
    BY <1>1, <1>9
  <2>3. a \in 1 .. n /\ b \in 1 .. n
    BY <1>8, <1>9
  <2>4. data = SubSeq(seg, a, b)
    BY <1>8, <2>1
  <2> HIDE DEF a, b, seg, data
  <2>5. data = SubSeq(Body(c, d), k + a, k + b)
    BY <1>1, <1>2, <1>3, <2>3, <2>4, PartOfSegment
  <2> HIDE DEF m, e
  <2> QED
    BY <2>2, <2>5
<1>11. data \in Seq(Tokens) /\ data # <<>>
  <2> HIDE DEF m, e, data
  <2>1. m \in 1 .. Len(d) + 7 /\ e \in m - 1 .. Len(d) + 6 /\ m \in Nat /\ e \in Nat
    BY <1>1, <1>9
  <2>2. data \in Seq(Tokens) /\ Len(data) = e - m + 1
    BY <1>1, <1>10, <2>1, PartOfBody
  <2>3. e - m + 1 > 0
    BY <1>9, <2>1
  <2> QED
    BY <2>2, <2>3, EmptySeq
<1>12. action \in Names /\ action \notin Pages
  BY <1>1, UploadAssumption
<1>13. /\ got' = k + n /\ stage' = 2 /\ boundary' = c /\ Stream(data, last)
       /\ action' = (IF over THEN "none" ELSE action) /\ page' = page
       /\ told' = [told EXCEPT ![c] = IF over THEN "done" ELSE @]
       /\ request' = IF over THEN [request EXCEPT ![c] = NoRequest]
                     ELSE [request EXCEPT ![c].left = SubSeq(left, n + 1, Len(left))]
       /\ total' = total
  <2>1. action # "scan"
    BY <1>12 DEF Pages
  <2> HIDE DEF data
  <2>2. /\ got' = got + n /\ stage' = NextStage /\ boundary' = NewBoundary(seg)
        /\ Stream(data, last)
    BY <1>11, <1>12 DEF Receive, data
  <2>3. /\ action' = (IF over THEN "none" ELSE action) /\ page' = page
        /\ told' = [told EXCEPT ![c] = IF over THEN "done" ELSE @]
        /\ request' = IF over THEN [request EXCEPT ![c] = NoRequest]
                      ELSE [request EXCEPT ![c].left = SubSeq(left, n + 1, Len(left))]
        /\ total' = total
    BY <2>1 DEF Receive
  <2> QED
    BY <1>7, <2>2, <2>3 DEF NextStage
<1> DEFINE f == IF stage = 0 THEN [name |-> action, written |-> data, open |-> TRUE]
                ELSE [file EXCEPT !.written = @ \o data]
<1>14. /\ misused' = (misused \/ IF stage = 0 THEN file.open ELSE ~file.open)
       /\ file' = Closed(f, last)
       /\ files' = IF f.open /\ ~file'.open THEN [files EXCEPT ![f.name] = f.written] ELSE files
  <2> HIDE DEF data, last
  <2> QED
    BY <1>13 DEF Stream
<1>15. /\ f \in [name : Names \cup {NoName}, written : Seq(Tokens), open : BOOLEAN]
       /\ k > 0 => f.open = file.open
  <2> HIDE DEF data
  <2>1. file \in [name : Names \cup {NoName}, written : Seq(Tokens), open : BOOLEAN]
    BY DEF Types
  <2>2. file.written \o data \in Seq(Tokens)
    BY <1>11, <2>1, ConcatProperties
  <2>3. CASE stage = 0
    <3>1. f = [name |-> action, written |-> data, open |-> TRUE] /\ ~(k > 0)
      BY <1>1, <2>3
    <3> HIDE DEF f
    <3> QED
      BY <1>1, <1>11, <3>1
  <2>4. CASE stage # 0
    <3>1. f = [file EXCEPT !.written = file.written \o data]
      BY <2>4
    <3> HIDE DEF f
    <3> QED
      BY <2>1, <2>2, <3>1
  <2> QED
    BY <2>3, <2>4
<1>21. misused' = (misused \/ (k = 0 /\ file.open) \/ (k > 0 /\ ~file.open))
  <2>1. stage = 0 <=> k = 0
    BY <1>1
  <2>2. k = 0 <=> ~(k > 0)
    BY <1>1
  <2> QED
    BY <1>14, <2>1, <2>2, Zenon
<1>16. ASSUME ~misused'
       PROVE  f = [name |-> request[c].name, open |-> TRUE, written |-> SubSeq(Body(c, d), 5, e)]
  <2>1. CASE k = 0
    <3> HIDE DEF data, e
    <3> QED
      BY <1>1, <1>10, <2>1
  <2>2. CASE k # 0
    <3>1. k > 0 /\ ~misused /\ k \in 5 .. Len(d) + 5
      <4>1. ~misused
        BY <1>14, <1>16, Zenon
      <4> QED
        BY <1>1, <2>2, <4>1
    <3>2. file = [name |-> request[c].name, open |-> TRUE, written |-> SubSeq(Body(c, d), 5, k)]
      BY <3>1 DEF InProgress
    <3>3. e \in 5 .. Len(d) + 6 /\ k < e /\ m = k + 1
      BY <1>1, <1>9, <3>1
    <3> HIDE DEF e, m, data
    <3>4. SubSeq(Body(c, d), 5, k) \o data = SubSeq(Body(c, d), 5, e)
      BY <1>1, <1>10, <3>1, <3>3, DataOfBody
    <3>5. stage # 0
      BY <1>1, <2>2
    <3> QED
      BY <3>2, <3>4, <3>5
  <2> QED
    BY <2>1, <2>2
<1>17. file' \in [name : Names \cup {NoName}, written : Seq(Tokens), open : BOOLEAN]
  <2> HIDE DEF f
  <2> QED
    BY <1>14, <1>15 DEF Closed
<1>18. files' \in [Names -> Seq(Tokens)]
  <2> HIDE DEF f
  <2> QED
    BY <1>14, <1>15 DEF Types
<1>22. k + n \in 5 .. Len(d) + 6 /\ n > 0
  BY <1>1, <1>2, <1>5
<1>19. CASE ~over
  <2> HIDE DEF f, data
  <2>1. ~last /\ file' = f /\ files' = files /\ e = k + n
    BY <1>4, <1>14, <1>19 DEF Closed
  <2>2. told' = told
    BY <1>13, <1>19 DEF Types
  <2>3. ~Finished(c, n)
    BY <1>4, <1>19 DEF Finished
  <2>4. "cutEnd" \notin network => k + n < Len(d) + 4
    BY <1>1, <1>2, <1>6, <1>19
  <2>5. Advanced(c, n)
    BY <1>3, <1>13, <1>16, <1>19, <2>1, <2>2, <2>3, <2>4 DEF Advanced
  <2> QED
    BY <1>13, <1>17, <1>18, <1>21, <1>22, <2>5, Zenon
<1>20. CASE over
  <2> HIDE DEF f, data
  <2>1. last /\ file' = [f EXCEPT !.open = FALSE]
    BY <1>4, <1>14, <1>20 DEF Closed
  <2>2. ~file'.open
    BY <1>15, <2>1
  <2>3. e = (IF k < Len(d) + 4 THEN Len(d) + 4 ELSE Len(d) + 6)
    BY <2>1
  <2>4. ~misused' => files' = [files EXCEPT ![request[c].name] = SubSeq(Body(c, d), 5, e)]
    <3> HAVE ~misused'
    <3> HIDE DEF e
    <3>1. f.open /\ f.name = request[c].name /\ f.written = SubSeq(Body(c, d), 5, e)
      BY <1>16
    <3> QED
      BY <1>14, <2>2, <3>1
  <2>5. SubSeq(Body(c, d), 5, e) = Contents(c)
    BY <1>1, <2>3, DataOfBody DEF Contents
  <2>6. Answers(c, n)
    BY <1>4, <1>13, <1>20, <2>2, <2>4, <2>5 DEF Answers, Finished
  <2> QED
    BY <1>13, <1>17, <1>18, <1>21, <1>22, <2>6, Zenon
<1> QED
  BY <1>19, <1>20

-----------------------------------------------------------------------------
(* One request at a time: what the globals and the file say between steps. *)

Alone ==
    /\ \A c, d \in Clients : ~Idle(c) /\ ~Idle(d) => c = d
    /\ \A c \in page : request[c] = NoRequest

(* While no connection is closed within an upload, an open file belongs to *)
(* a request of which something has come.                                  *)
HandleInv ==
    "closed" \notin network =>
        /\ ~misused
        /\ file.open => \E c \in Clients : request[c] # NoRequest /\ got > 0

UploadInv ==
    Uncut =>
        /\ Types /\ Alone /\ HandleInv
        /\ \A c \in Clients : request[c] # NoRequest => InProgress(c)

LEMMA InitUpload == Init => UploadInv
<1> SUFFICES ASSUME Init PROVE UploadInv
  OBVIOUS
<1>1. \A c \in Clients : request[c] = NoRequest
  BY DEF Init
<1>2. Types
  <2>1. <<>> \in Seq(Tokens)
    BY EmptySeq
  <2>2. NoRequest \in [name : Names \cup {NoName}, data : Seq(Tokens), left : Seq(Tokens)]
    BY <2>1 DEF NoRequest
  <2>3. network \in SUBSET Troubles
    BY ServerAssumption DEF Init
  <2> QED
    BY <2>1, <2>2, <2>3 DEF Init, Types
<1>3. Alone
  BY <1>1 DEF Init, Alone, Idle
<1>4. HandleInv
  BY DEF Init, HandleInv
<1> QED
  BY <1>1, <1>2, <1>3, <1>4 DEF UploadInv

(* Between requests a step keeps the invariant if it opens no file.        *)
LEMMA QuietStep ==
    ASSUME UploadInv, Uncut, \A d \in Clients : request[d] = NoRequest,
           network' = network, request' = request, misused' = misused,
           file'.open => file.open, Types', Alone'
    PROVE  UploadInv'
<1>1. HandleInv'
  BY DEF UploadInv, HandleInv
<1> QED
  BY <1>1 DEF UploadInv

LEMMA AllIdle ==
    ASSUME Uncut, NEW c \in Clients, MayAsk(c)
    PROVE  \A d \in Clients : Idle(d) /\ request[d] = NoRequest
  BY DEF MayAsk, Uncut, Idle

LEMMA BeginStep ==
    ASSUME UploadInv, Uncut, NEW c \in Clients, NEW name \in Names, NEW data \in DataSets,
           Begin(c, name, data)
    PROVE  UploadInv'
<1> DEFINE r == [name |-> name, data |-> data, left |-> Body(c, data)]
<1>1. \A d \in Clients : Idle(d) /\ request[d] = NoRequest
  BY AllIdle DEF Begin
<1>2. /\ Body(c, data) \in Seq(Tokens) /\ Len(Body(c, data)) = Len(data) + 6
      /\ data \in Seq(Tokens) /\ Len(data) \in Nat
  BY BodyShape, DataShape
<1>3. /\ Types /\ HandleInv /\ request \in [Clients -> [name : Names \cup {NoName}, data : Seq(Tokens), left : Seq(Tokens)]]
      /\ file \in [name : Names \cup {NoName}, written : Seq(Tokens), open : BOOLEAN]
  BY DEF UploadInv, Types
<1>4. /\ request' = [request EXCEPT ![c] = r] /\ told' = [told EXCEPT ![c] = "none"]
      /\ file' = (IF fsInit THEN file ELSE [file EXCEPT !.open = FALSE])
      /\ files' = (IF fsInit THEN files ELSE [n \in Names |-> <<>>])
      /\ network' = network /\ page' = page /\ misused' = misused
      /\ action' = name /\ stage' = 0 /\ total' = Len(Body(c, data)) /\ got' = 0
  BY DEF Begin
<1>5. request'[c] = r /\ \A d \in Clients : d # c => request'[d] = NoRequest
  <2> HIDE DEF r
  <2> QED
    BY <1>1, <1>3, <1>4
<1>6. /\ file' \in [name : Names \cup {NoName}, written : Seq(Tokens), open : BOOLEAN]
      /\ file'.open => file.open
  BY <1>3, <1>4
<1>7. Types'
  <2>1. request' \in [Clients -> [name : Names \cup {NoName}, data : Seq(Tokens), left : Seq(Tokens)]]
    <3>1. r \in [name : Names \cup {NoName}, data : Seq(Tokens), left : Seq(Tokens)]
      BY <1>2
    <3> HIDE DEF r
    <3> QED
      BY <1>3, <1>4, <3>1
  <2>2. files' \in [Names -> Seq(Tokens)]
    BY <1>3, <1>4, EmptySeq DEF Types
  <2>3. told' \in [Clients -> {"none", "done", "scan"}]
    BY <1>3, <1>4 DEF Types
  <2> QED
    BY <1>3, <1>4, <1>6, <2>1, <2>2, <2>3 DEF Types
<1>8. Alone'
  BY <1>1, <1>3, <1>4, <1>5 DEF Alone, Idle, Types
<1>9. HandleInv'
  BY <1>1, <1>3, <1>4, <1>6 DEF HandleInv
<1>10. InProgress(c)'
  <2>1. SubSeq(Body(c, data), 1, Len(Body(c, data))) = Body(c, data)
    BY <1>2, SubSeqFull
  <2>2. Body(c, data) = LeftFrom(c, data, 0)
    BY <1>2, <2>1 DEF LeftFrom
  <2>3. /\ request'[c].name = name /\ request'[c].data = data
        /\ request'[c].left = Body(c, data) /\ told'[c] = "none"
    BY <1>3, <1>4, <1>5 DEF Types
  <2> HIDE DEF r
  <2> QED
    BY <1>2, <1>4, <2>2, <2>3 DEF InProgress
<1> QED
  BY <1>5, <1>7, <1>8, <1>9, <1>10 DEF UploadInv

LEMMA InRequest ==
    ASSUME UploadInv, Uncut, NEW c \in Clients, NEW n \in 1 .. Len(request[c].left)
    PROVE  request[c] # NoRequest /\ InProgress(c) /\ n \in Nat
<1>1. request[c] # NoRequest
  BY DEF NoRequest
<1>2. Len(request[c].left) \in Nat
  BY LenProperties DEF UploadInv, Types
<1> QED
  BY <1>1, <1>2 DEF UploadInv

LEMMA ReceiveStep ==
    ASSUME UploadInv, Uncut, NEW c \in Clients, NEW n \in 1 .. Len(request[c].left), Receive(c, n)
    PROVE  /\ UploadInv'
           /\ Advanced(c, n) \/ Answers(c, n)
<1>1. request[c] # NoRequest /\ InProgress(c) /\ n \in Nat /\ Types /\ Alone /\ HandleInv
  BY InRequest DEF UploadInv
<1>2. /\ got + n \in 5 .. Len(request[c].data) + 6 /\ n > 0
      /\ got' = got + n /\ stage' = 2 /\ boundary' = c /\ total' = total /\ page' = page
      /\ misused' = (misused \/ (got = 0 /\ file.open) \/ (got > 0 /\ ~file.open))
      /\ file' \in [name : Names \cup {NoName}, written : Seq(Tokens), open : BOOLEAN]
      /\ files' \in [Names -> Seq(Tokens)]
      /\ Advanced(c, n) \/ Answers(c, n)
  BY <1>1, Received
<1>3. \A d \in Clients : d # c => Idle(d) /\ request[d] = NoRequest
  BY <1>1 DEF Alone, Idle
<1>4. network' = network
  BY DEF Receive
<1>5. "closed" \notin network => ~misused'
  <2> HAVE "closed" \notin network
  <2>1. ~misused
    BY <1>1 DEF HandleInv
  <2>2. got = 0 => ~file.open
    <3>1. ~(got > 0) => ~file.open
      BY <1>1, "closed" \notin network DEF HandleInv
    <3> QED
      BY <3>1
  <2>3. got > 0 => file.open
    BY <1>1, <2>1 DEF InProgress
  <2> QED
    BY <1>2, <2>1, <2>2, <2>3, Zenon
<1>6. /\ request[c].name \in Names /\ request[c].data \in DataSets
      /\ Len(request[c].data) \in Nat /\ got \in Nat
      /\ request \in [Clients -> [name : Names \cup {NoName}, data : Seq(Tokens), left : Seq(Tokens)]]
  BY <1>1, DataShape DEF InProgress, Types
<1>7. ASSUME Advanced(c, n) PROVE UploadInv'
  <2> DEFINE d == request[c].data
             l == LeftFrom(c, d, got + n)
  <2>1. /\ request' = [request EXCEPT ![c].left = l]
        /\ request'[c] = [name |-> request[c].name, data |-> d, left |-> l]
        /\ request'[c].name = request[c].name /\ request'[c].data = d /\ request'[c].left = l
        /\ \A x \in Clients : x # c => request'[x] = NoRequest
    <3>1. request' = [request EXCEPT ![c].left = l]
      BY <1>7 DEF Advanced
    <3> HIDE DEF l
    <3> QED
      BY <1>3, <1>6, <3>1
  <2>2. l \in Seq(Tokens)
    <3>1. got + n \in 0 .. Len(d) + 5 /\ 1 \in 1 .. Len(d) + 6 - (got + n)
      BY <1>2, <1>6, <1>7 DEF Advanced, Finished
    <3> DEFINE a == (got + n) + 1
               b == Len(d) + 6
    <3>2. a \in 1 .. Len(d) + 7 /\ b \in a - 1 .. Len(d) + 6
      BY <1>6, <3>1
    <3> HIDE DEF a, b
    <3>3. SubSeq(Body(c, d), a, b) \in Seq(Tokens)
      BY <1>6, <3>2, PartOfBody
    <3> QED
      BY <3>3 DEF a, b, LeftFrom
  <2>3. Types'
    <3>1. request' \in [Clients -> [name : Names \cup {NoName}, data : Seq(Tokens), left : Seq(Tokens)]]
      <4> HIDE DEF l
      <4> QED
        BY <1>6, <2>1, <2>2
    <3>2. told' = told /\ misused' \in BOOLEAN
      BY <1>1, <1>2, <1>7 DEF Advanced, Types
    <3> QED
      BY <1>1, <1>2, <1>4, <3>1, <3>2 DEF Types
  <2>4. request'[c] # NoRequest
    BY <1>6, <2>1, ServerAssumption DEF NoRequest
  <2>5. Alone'
    <3>1. c \notin page
      BY <1>1 DEF Alone
    <3> QED
      BY <1>1, <1>2, <1>3, <2>1, <3>1 DEF Alone, Idle, Types
  <2>6. HandleInv'
    BY <1>2, <1>4, <1>5, <1>6, <2>4 DEF HandleInv
  <2>7. InProgress(c)'
    <3>1. got' \in 5 .. Len(d) + 5 /\ got' # 0 /\ got' > 0
      BY <1>2, <1>6, <1>7 DEF Advanced, Finished
    <3>2. /\ action' = request'[c].name /\ total' = Len(request'[c].data) + 6 /\ told'[c] = "none"
      BY <1>1, <1>2, <1>7, <2>1 DEF InProgress, Advanced
    <3>3. "cutEnd" \notin network' => got' < Len(d) + 4
      BY <1>2, <1>4, <1>7 DEF Advanced
    <3>4. ~misused' => file' = [name |-> request'[c].name, open |-> TRUE,
                                written |-> SubSeq(Body(c, request'[c].data), 5, got')]
      BY <1>2, <1>7, <2>1 DEF Advanced
    <3>5. request'[c].left = LeftFrom(c, request'[c].data, got')
      BY <1>2, <2>1
    <3>6. request'[c].name \in Names /\ request'[c].data \in DataSets
      BY <1>6, <2>1
    <3>7. "cutEnd" \notin network' => got' < Len(request'[c].data) + 4
      BY <2>1, <3>3
    <3>8. got' \in {0} \cup 5 .. Len(request'[c].data) + 5 /\ stage' = (IF got' = 0 THEN 0 ELSE 2)
      BY <1>2, <2>1, <3>1
    <3> QED
      BY <1>2, <3>1, <3>2, <3>4, <3>5, <3>6, <3>7, <3>8 DEF InProgress
  <2> QED
    BY <2>1, <2>3, <2>5, <2>6, <2>7 DEF UploadInv
<1>8. ASSUME Answers(c, n) PROVE UploadInv'
  <2>1. request' = [request EXCEPT ![c] = NoRequest] /\ told' = [told EXCEPT ![c] = "done"]
        /\ ~file'.open
    BY <1>8 DEF Answers
  <2>2. \A x \in Clients : request'[x] = NoRequest
    BY <1>3, <1>6, <2>1
  <2>3. Types'
    <3>1. request' \in [Clients -> [name : Names \cup {NoName}, data : Seq(Tokens), left : Seq(Tokens)]]
      BY <1>6, <2>1, EmptySeq DEF NoRequest
    <3>2. told' \in [Clients -> {"none", "done", "scan"}] /\ misused' \in BOOLEAN
      BY <1>1, <1>2, <2>1 DEF Types
    <3> QED
      BY <1>1, <1>2, <1>4, <3>1, <3>2 DEF Types
  <2>4. Alone'
    BY <1>1, <1>2, <1>3, <2>2 DEF Alone, Idle, Types
  <2>5. HandleInv'
    BY <1>4, <1>5, <2>1 DEF HandleInv
  <2> QED
    BY <2>2, <2>3, <2>4, <2>5 DEF UploadInv
<1> QED
  BY <1>2, <1>7, <1>8

LEMMA OtherSteps ==
    ASSUME UploadInv, Uncut, NEW c \in Clients,
           \/ Abort(c) \/ ClosePage(c) \/ EraseFlash(c) \/ ScanFlash(c)
           \/ \E a \in Pages : OpenPage(c, a)
    PROVE  UploadInv'
<1>1. Types /\ Alone /\ HandleInv
  BY DEF UploadInv
<1>2. CASE Abort(c)
  <2>1. \A d \in Clients : d # c => request[d] = NoRequest
    BY <1>1, <1>2 DEF Alone, Idle, Abort
  <2>2. /\ request' = [request EXCEPT ![c] = NoRequest] /\ "closed" \in network
        /\ UNCHANGED <<network, page, told, file, files, misused>>
    BY <1>2 DEF Abort
  <2>3. \A d \in Clients : request'[d] = NoRequest
    BY <1>1, <2>1, <2>2 DEF Types
  <2>4. Types'
    <3>1. NoRequest \in [name : Names \cup {NoName}, data : Seq(Tokens), left : Seq(Tokens)]
      BY EmptySeq DEF NoRequest
    <3> HIDE DEF NoRequest
    <3> QED
      BY <1>1, <2>2, <3>1 DEF Types
  <2>5. Alone'
    BY <1>1, <2>2, <2>3 DEF Alone, Idle, Types
  <2>6. HandleInv'
    BY <2>2 DEF HandleInv
  <2> QED
    BY <2>3, <2>4, <2>5, <2>6 DEF UploadInv
<1>3. CASE ClosePage(c)
  <2>1. \A d \in Clients : request[d] = NoRequest
    BY <1>1, <1>3 DEF Alone, Idle, ClosePage
  <2>2. page' = page \ {c} /\ UNCHANGED <<network, request, told, file, files, misused>>
    BY <1>3 DEF ClosePage
  <2>3. Types' /\ Alone'
    BY <1>1, <2>2 DEF Types, Alone, Idle
  <2> QED
    BY <2>1, <2>2, <2>3, QuietStep
<1>4. CASE EraseFlash(c)
  <2>1. \A d \in Clients : Idle(d) /\ request[d] = NoRequest
    BY <1>4, AllIdle DEF EraseFlash
  <2>2. /\ file' = [file EXCEPT !.open = FALSE] /\ files' = [n \in Names |-> <<>>]
        /\ told' = [told EXCEPT ![c] = "done"] /\ UNCHANGED <<network, request, page, misused>>
    BY <1>4 DEF EraseFlash
  <2>3. Types' /\ Alone' /\ ~file'.open
    BY <1>1, <2>2, EmptySeq DEF Types, Alone, Idle
  <2> QED
    BY <2>1, <2>2, <2>3, QuietStep
<1>5. CASE ScanFlash(c) \/ \E a \in Pages : OpenPage(c, a)
  <2>1. \A d \in Clients : Idle(d) /\ request[d] = NoRequest
    BY <1>5, AllIdle DEF ScanFlash, OpenPage
  <2>2. page' = page \cup {c} /\ UNCHANGED <<network, request, told, file, files, misused>>
    BY <1>5 DEF ScanFlash, OpenPage
  <2>3. Types' /\ Alone'
    BY <1>1, <2>1, <2>2 DEF Types, Alone, Idle
  <2> QED
    BY <2>1, <2>2, <2>3, QuietStep
<1> QED
  BY <1>2, <1>3, <1>4, <1>5

LEMMA NextUpload == UploadInv /\ [Next]_vars => UploadInv'
<1> SUFFICES ASSUME UploadInv, [Next]_vars PROVE UploadInv'
  OBVIOUS
<1>1. network' = network
  BY DEF Next, vars, Begin, Receive, Abort, OpenPage, ClosePage, EraseFlash, ScanFlash
<1>2. CASE ~Uncut
  BY <1>1, <1>2 DEF UploadInv, Uncut
<1>3. CASE Uncut /\ UNCHANGED vars
  <2>1. Types' /\ Alone' /\ HandleInv'
    BY <1>3 DEF UploadInv, vars, globals, Types, Alone, Idle, HandleInv
  <2>2. \A c \in Clients : request'[c] # NoRequest => InProgress(c)'
    BY <1>3 DEF UploadInv, vars, globals, InProgress
  <2> QED
    BY <2>1, <2>2 DEF UploadInv
<1>4. CASE Uncut /\ Next
  <2>1. PICK c \in Clients :
          \/ \E name \in Names, data \in DataSets : Begin(c, name, data)
          \/ \E n \in 1 .. Len(request[c].left) : Receive(c, n)
          \/ Abort(c)
          \/ \E a \in Pages : OpenPage(c, a)
          \/ ClosePage(c) \/ EraseFlash(c) \/ ScanFlash(c)
    BY <1>4 DEF Next
  <2> QED
    BY <1>4, <2>1, BeginStep, ReceiveStep, OtherSteps
<1> QED
  BY <1>2, <1>3, <1>4

LEMMA UploadInvariant == Spec => []UploadInv
  BY InitUpload, NextUpload, PTL DEF Spec

-----------------------------------------------------------------------------
(* What the client is told.                                                *)

LEMMA AnsweredBy ==
    ASSUME UploadInv, Uncut, [Next]_vars, NEW c \in Clients, Answered(c)
    PROVE  InProgress(c) /\ \E n \in Nat : Answers(c, n)
<1>1. request[c] # NoRequest /\ InProgress(c) /\ told[c] = "none" /\ told'[c] = "done"
  BY DEF UploadInv, Answered, InProgress
<1>2. Types /\ Alone
  BY DEF UploadInv
<1>3. ~Idle(c) /\ told' # told
  BY <1>1 DEF Idle
<1>4. Next
  BY <1>3 DEF vars
<1>5. PICK d \in Clients :
        \/ \E name \in Names, data \in DataSets : Begin(d, name, data)
        \/ \E n \in 1 .. Len(request[d].left) : Receive(d, n)
        \/ Abort(d)
        \/ \E a \in Pages : OpenPage(d, a)
        \/ ClosePage(d) \/ EraseFlash(d) \/ ScanFlash(d)
  BY <1>4 DEF Next
<1>6. PICK n \in 1 .. Len(request[d].left) : Receive(d, n)
  <2>1. ~MayAsk(d)
    BY <1>1, AllIdle
  <2> QED
    BY <1>3, <1>5, <2>1 DEF Begin, Abort, OpenPage, ClosePage, EraseFlash, ScanFlash
<1>7. d = c
  <2>1. request[d] # NoRequest
    BY InRequest
  <2> QED
    BY <1>2, <1>3, <2>1 DEF Alone, Idle
<1>8. ~Advanced(d, n)
  BY <1>3 DEF Advanced
<1> QED
  BY <1>1, <1>6, <1>7, <1>8, InRequest, ReceiveStep

(* When littlefs was used right, the file holds the data, and nothing else *)
(* unless the closing boundary was cut.                                    *)
LEMMA WhatIsStored ==
    ASSUME UploadInv, Uncut, [Next]_vars, ~misused', NEW c \in Clients, Answered(c)
    PROVE  /\ request[c].data \in DataSets
           /\ files'[request[c].name] = Contents(c)
           /\ "cutEnd" \notin network => Contents(c) = request[c].data
<1>1. InProgress(c)
  BY AnsweredBy
<1>2. PICK n \in Nat : Answers(c, n)
  BY AnsweredBy
<1> QED
  BY <1>1, <1>2 DEF InProgress, Contents, Answers, Types, UploadInv

LEMMA ContentsInclude ==
    ASSUME NEW c \in Clients, request[c].data \in DataSets
    PROVE  Includes(Contents(c), request[c].data)
<1> DEFINE d == request[c].data
           s == SubSeq(Body(c, d), 5, Len(d) + 6)
<1>1. d \in Seq(Tokens) /\ Len(d) \in Nat \ {0}
  BY DataShape
<1>2. CASE got < Len(d) + 4
  <2>1. SubSeq(d, 1, Len(d)) = d
    BY <1>1, SubSeqFull
  <2>2. 0 \in 0 .. Len(d) - Len(d) /\ 0 + 1 = 1 /\ 0 + Len(d) = Len(d)
    BY <1>1
  <2>3. Includes(d, d)
    BY <2>1, <2>2, Zenon DEF Includes
  <2> QED
    BY <1>2, <2>3 DEF Contents
<1>3. CASE ~(got < Len(d) + 4)
  <2> DEFINE a == 5
             b == Len(d) + 6
  <2>1. a \in 1 .. Len(d) + 7 /\ b \in a - 1 .. Len(d) + 6 /\ b - a + 1 = Len(d) + 2
    BY <1>1
  <2>2. s = SubSeq(Body(c, d), a, b)
    OBVIOUS
  <2> HIDE DEF a, b
  <2>3. s \in Seq(Tokens) /\ Len(s) = Len(d) + 2
    BY <2>1, <2>2, PartOfBody
  <2>4. SubSeq(s, 1, Len(d)) = SubSeq(Body(c, d), 5, Len(d) + 4)
    <3> DEFINE k == 4
               n == Len(d) + 2
    <3>1. /\ k \in 0 .. Len(d) + 5 /\ n \in 1 .. Len(d) + 6 - k
          /\ 1 \in 1 .. n /\ Len(d) \in 1 .. n
          /\ k + 1 = 5 /\ k + n = Len(d) + 6 /\ k + Len(d) = Len(d) + 4
      BY <1>1
    <3> HIDE DEF k, n
    <3>2. SubSeq(Segment(c, d, k, n), 1, Len(d)) = SubSeq(Body(c, d), k + 1, k + Len(d))
      BY <3>1, PartOfSegment
    <3>3. Segment(c, d, k, n) = s
      BY <3>1 DEF Segment
    <3> QED
      BY <3>1, <3>2, <3>3
  <2>5. SubSeq(s, 1, Len(d)) = d
    BY <2>4, DataOfBody
  <2>6. 0 \in 0 .. Len(s) - Len(d) /\ 0 + 1 = 1 /\ 0 + Len(d) = Len(d)
    BY <1>1, <2>3
  <2>7. Includes(s, d)
    BY <2>5, <2>6, Zenon DEF Includes
  <2> QED
    BY <1>3, <2>7 DEF Contents
<1> QED
  BY <1>2, <1>3

(* A handle of littlefs is opened when it is closed and written and closed *)
(* when it is open, however bodies are cut behind the part header, as long *)
(* as no connection is closed within an upload (boot0/main.c:599-620).     *)
THEOREM HandleIsUsedRight == Spec => []HandleDiscipline
<1>1. UploadInv => HandleDiscipline
  BY DEF UploadInv, Uncut, HandleInv, HandleDiscipline
<1> QED
  BY <1>1, UploadInvariant, PTL

(* Over a network that cuts neither the part header nor the closing        *)
(* boundary, "Successful!" says that the file system holds the upload      *)
(* (boot0/main.c:703-862, done.html:7), for any contents and any cuts.     *)
THEOREM SuccessMeansStored == Spec => SuccessIsTrue
<1>1. UploadInv /\ UploadInv' /\ [Next]_vars => [network = {} => Stored]_vars
  <2> SUFFICES ASSUME UploadInv, UploadInv', [Next]_vars, network = {}, NEW c \in Clients, Answered(c)
               PROVE  files'[request[c].name] = request[c].data
    BY DEF Stored
  <2>1. Uncut
    BY DEF Uncut
  <2>2. ~misused'
    <3>1. network' = network
      BY DEF Next, vars, Begin, Receive, Abort, OpenPage, ClosePage, EraseFlash, ScanFlash
    <3> QED
      BY <3>1 DEF UploadInv, Uncut, HandleInv
  <2> QED
    BY <2>1, <2>2, WhatIsStored
<1> QED
  BY <1>1, UploadInvariant, PTL DEF Spec, SuccessIsTrue

(* When the closing boundary is cut, too, what is stored still contains    *)
(* the whole upload in one piece (boot0/main.c:769-797).                   *)
THEOREM UploadsLoseNothing == Spec => NothingLost
<1>1. UploadInv /\ UploadInv' /\ [Next]_vars =>
        [network \subseteq {"cutEnd"} =>
           \A c \in Clients : Answered(c) => Includes(files'[request[c].name], request[c].data)]_vars
  <2> SUFFICES ASSUME UploadInv, UploadInv', [Next]_vars, network \subseteq {"cutEnd"},
                      NEW c \in Clients, Answered(c)
               PROVE  Includes(files'[request[c].name], request[c].data)
    OBVIOUS
  <2>1. Uncut
    BY DEF Uncut
  <2>2. ~misused'
    <3>1. network' = network
      BY DEF Next, vars, Begin, Receive, Abort, OpenPage, ClosePage, EraseFlash, ScanFlash
    <3> QED
      BY <3>1 DEF UploadInv, Uncut, HandleInv
  <2> QED
    BY <2>1, <2>2, WhatIsStored, ContentsInclude
<1> QED
  BY <1>1, UploadInvariant, PTL DEF Spec, NothingLost

(* However connections are closed, a file changes only to what a client    *)
(* uploaded and was answered for, or is erased (boot0/main.c:606-620).     *)
THEOREM OldFileOrNewFile == Spec => OldOrNew
<1>1. UploadInv /\ [Next]_vars => [Replaces]_vars
  <2> SUFFICES ASSUME UploadInv, [Next]_vars, network \subseteq {"closed"}, ~misused',
                      NEW m \in Names, files'[m] \notin {files[m], <<>>}
               PROVE  \E c \in Clients : Answered(c) /\ request[c].name = m
                                            /\ request[c].data = files'[m]
    BY DEF Replaces
  <2>1. Uncut /\ "cutEnd" \notin network /\ files' # files
    BY DEF Uncut
  <2>2. Next
    BY <2>1 DEF vars
  <2>3. PICK c \in Clients :
          \/ \E name \in Names, data \in DataSets : Begin(c, name, data)
          \/ \E n \in 1 .. Len(request[c].left) : Receive(c, n)
          \/ Abort(c)
          \/ \E a \in Pages : OpenPage(c, a)
          \/ ClosePage(c) \/ EraseFlash(c) \/ ScanFlash(c)
    BY <2>2 DEF Next
  <2>4. PICK n \in 1 .. Len(request[c].left) : Receive(c, n)
    BY <2>1, <2>3 DEF Begin, Abort, OpenPage, ClosePage, EraseFlash, ScanFlash
  <2>5. request[c] # NoRequest /\ InProgress(c) /\ Types
    BY <2>1, InRequest DEF UploadInv
  <2>6. Answers(c, n)
    BY <2>1, <2>4, ReceiveStep DEF Advanced
  <2>7. Answered(c)
    BY <2>5, <2>6 DEF Answered, Answers, Types
  <2>8. files' = [files EXCEPT ![request[c].name] = request[c].data]
    <3>1. Contents(c) = request[c].data
      BY <2>1, <2>7, WhatIsStored
    <3> QED
      BY <2>6, <3>1 DEF Answers
  <2>9. request[c].name = m /\ files'[m] = request[c].data
    BY <2>5, <2>8 DEF Types
  <2> QED
    BY <2>7, <2>9
<1> QED
  BY <1>1, UploadInvariant, PTL DEF Spec, OldOrNew
=============================================================================
