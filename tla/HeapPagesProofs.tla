--------------------------- MODULE HeapPagesProofs ---------------------------
(***************************************************************************)
(* For every page size, heap and set of sizes: no trim takes a byte of a   *)
(* living block that the estimate of malloc covers.  The invariant says    *)
(* that chunks do not overlap and that a byte in use lies on a marked      *)
(* page; malloc keeps it because the marks reach from the page of the      *)
(* block's first byte to that of its last but seven, free because what it  *)
(* clears lies inside the chunk.                                           *)
(***************************************************************************)
EXTENDS HeapPages, TLAPS

(* Quotient and remainder.                                                 *)
LEMMA Division ==
    ASSUME NEW x \in Nat, NEW w \in Nat \ {0}
    PROVE  /\ x \div w \in Nat /\ x % w \in 0 .. w - 1
           /\ x = w * (x \div w) + (x % w)
           /\ w * (x \div w) \in Nat
           /\ w * (x \div w) <= x /\ x < w * (x \div w) + w
<1> DEFINE q == x \div w
<1> DEFINE r == x % w
<1>1. q \in Nat /\ r \in 0 .. w - 1 /\ x = w * q + r
  OBVIOUS
<1> HIDE DEF q, r
<1>2. w * q \in Nat
  BY <1>1
<1> DEFINE p == w * q
<1>3. p \in Nat /\ x = p + r /\ r \in 0 .. w - 1
  BY <1>1, <1>2
<1> HIDE DEF p
<1>4. p <= x /\ x < p + w
  BY <1>3
<1> QED
  BY <1>1, <1>2, <1>4 DEF p, q, r

(* Multiples of the width.                                                 *)
LEMMA Multiples ==
    ASSUME NEW w \in Nat, NEW k \in Int
    PROVE  /\ w * (k + 1) = w * k + w
           /\ w * (k + 2) = w * k + 2 * w
           /\ w * (k - 2) = w * k - 2 * w
           /\ w * k \in Int
           /\ w * 1 = w
  OBVIOUS

LEMMA PageFrom ==
    ASSUME NEW x \in Nat, NEW w \in Nat \ {0}, NEW k \in Int, w * k <= x
    PROVE  k <= x \div w
<1> DEFINE q == x \div w
<1>1. q \in Nat /\ x < w * (q + 1)
  BY Division, Multiples
<1>2. w * k < w * (q + 1)
  BY <1>1
<1>3. k < q + 1
  BY <1>1, <1>2
<1> QED
  BY <1>1, <1>3

LEMMA PageTo ==
    ASSUME NEW x \in Nat, NEW w \in Nat \ {0}, NEW k \in Int, x < w * (k + 1)
    PROVE  x \div w <= k
<1> DEFINE q == x \div w
<1>1. q \in Nat /\ w * q <= x
  BY Division
<1>2. w * q < w * (k + 1)
  BY <1>1
<1>3. q < k + 1
  BY <1>1, <1>2
<1> QED
  BY <1>1, <1>3

LEMMA Eights ==
    ASSUME NEW a \in Nat, NEW b \in Nat, a % 8 = 0, b % 8 = 0, a < b
    PROVE  a + 8 <= b
<1> DEFINE u == a \div 8
<1> DEFINE v == b \div 8
<1>1. u \in Nat /\ v \in Nat /\ a = 8 * u /\ b = 8 * v
  OBVIOUS
<1> HIDE DEF u, v
<1> QED
  BY <1>1

(* An address 4 bytes off a multiple of 8 is at least 4 bytes away from    *)
(* the end of its page.                                                    *)
LEMMA Offset ==
    ASSUME NEW a \in Nat, a % 8 = 0, a >= 12, NEW w \in Nat \ {0}, w % 8 = 0
    PROVE  (a - 12) % w <= w - 4
<1> DEFINE q == (a - 12) \div w
<1> DEFINE r == (a - 12) % w
<1> DEFINE u == w \div 8
<1> DEFINE v == a \div 8
<1>0. a - 12 \in Nat
  OBVIOUS
<1>1. q \in Nat /\ r \in 0 .. w - 1 /\ a - 12 = w * q + r
  BY <1>0, Division
<1>2. u \in Nat /\ v \in Nat /\ w = 8 * u /\ a = 8 * v
  OBVIOUS
<1>3. w * q = 8 * (u * q) /\ u * q \in Nat
  BY <1>1, <1>2
<1> HIDE DEF q, r, u, v
<1>4. r = 8 * v - 12 - 8 * (u * q)
  BY <1>1, <1>2, <1>3
<1> DEFINE z == u * q
<1>5. z \in Nat /\ r = 8 * v - 12 - 8 * z /\ r <= 8 * u - 1
  BY <1>1, <1>2, <1>3, <1>4
<1> HIDE DEF z
<1>6. r <= 8 * u - 4
  BY <1>2, <1>5
<1> QED
  BY <1>2, <1>6 DEF r

-----------------------------------------------------------------------------
(* The chunks of the allocator.                                            *)

Chunk == [at : Nat, size : Nat]
Living == [at : Nat, n : Sizes, size : Nat]

LEMMA Facts ==
    /\ PageSize \in Nat \ {0} /\ PageSize % 8 = 0 /\ PageSize >= 32
    /\ HeapStart \in Nat /\ HeapStart >= 64 /\ HeapStart % 8 = 0 /\ HeapEnd \in Nat
    /\ \A n \in Sizes : n \in Nat
  BY HeapAssumption

LEMMA ChunkSizeFacts ==
    ASSUME NEW n \in Nat
    PROVE  /\ ChunkSize(n) \in Nat /\ ChunkSize(n) % 8 = 0 /\ ChunkSize(n) >= 16
           /\ ChunkSize(n) >= n + 4
           /\ n <= 12 => ChunkSize(n) = 16
           /\ n > 12 => ChunkSize(n) <= n + 11
  BY DEF ChunkSize

LEMMA TakenFacts ==
    ASSUME NEW c \in Chunk, Shaped(c), NEW n \in Sizes, Fits(c, n)
    PROVE  LET t == Taken(c, n)
           IN  /\ t.at = c.at /\ t.n = n /\ t \in Living
               /\ Shaped(t) /\ t.size >= ChunkSize(n) /\ End(t) <= End(c)
               /\ Cuts(c, n) => t.size = ChunkSize(n)
               /\ ~Cuts(c, n) => End(t) = End(c) /\ ~IsTop(c)
<1> DEFINE t == Taken(c, n)
<1>1. /\ n \in Nat /\ c.at \in Nat /\ c.size \in Nat /\ HeapEnd \in Nat
      /\ ChunkSize(n) \in Nat /\ ChunkSize(n) % 8 = 0 /\ ChunkSize(n) >= 16
  BY ChunkSizeFacts, Facts DEF Chunk
<1>2. t.at = c.at /\ t.n = n /\ t.size = IF Cuts(c, n) THEN ChunkSize(n) ELSE c.size
  BY DEF Taken
<1>3. t.size \in Nat /\ t.size % 8 = 0 /\ t.size >= 16 /\ t.size <= c.size
  BY <1>1, <1>2 DEF Shaped, Cuts
<1>4. t \in Living
  BY <1>1, <1>2, <1>3 DEF Living, Taken
<1>5. End(t) <= End(c)
  BY <1>1, <1>2, <1>3 DEF End
<1>6. Shaped(t)
  BY <1>1, <1>2, <1>3, <1>5 DEF Shaped, End
<1>7. t.size >= ChunkSize(n)
  BY <1>1, <1>2 DEF Fits, Cuts
<1>8. ~Cuts(c, n) => End(t) = End(c) /\ ~IsTop(c)
  BY <1>2 DEF End, Fits
<1> QED
  BY <1>2, <1>4, <1>5, <1>6, <1>7, <1>8

LEMMA LeftFacts ==
    ASSUME NEW c \in Chunk, Shaped(c), NEW n \in Sizes, NEW l \in Left(c, n)
    PROVE  /\ Cuts(c, n) /\ l \in Chunk /\ Shaped(l)
           /\ l.at = c.at + ChunkSize(n) /\ End(l) = End(c)
<1>1. /\ n \in Nat /\ c.at \in Nat /\ c.size \in Nat /\ HeapEnd \in Nat /\ HeapStart \in Nat
      /\ ChunkSize(n) \in Nat /\ ChunkSize(n) % 8 = 0 /\ ChunkSize(n) >= 16
  BY ChunkSizeFacts, Facts DEF Chunk
<1>2. Cuts(c, n) /\ l = [at |-> c.at + ChunkSize(n), size |-> c.size - ChunkSize(n)]
  BY DEF Left
<1>3. /\ l.at = c.at + ChunkSize(n) /\ l.size = c.size - ChunkSize(n)
      /\ l.at \in Nat /\ l.size \in Nat /\ l.size >= 16
  BY <1>1, <1>2 DEF Cuts
<1>4. l \in Chunk
  BY <1>2, <1>3 DEF Chunk
<1>5. End(l) = End(c)
  BY <1>1, <1>3 DEF End
<1>6. l.at % 8 = 0 /\ l.size % 8 = 0
  BY <1>1, <1>3 DEF Shaped
<1> QED
  BY <1>1, <1>2, <1>3, <1>4, <1>5, <1>6 DEF Shaped

-----------------------------------------------------------------------------
(* What malloc marks and free clears.                                      *)

(* How many pages after that of y the page of x can be.                    *)
LEMMA Within ==
    ASSUME NEW x \in Nat, NEW y \in Nat, NEW w \in Nat \ {0}, NEW d \in Nat,
           (x - y) + (y % w) < w * d + w
    PROVE  x \div w <= y \div w + d
<1> DEFINE q == y \div w
<1> DEFINE r == y % w
<1>1. q \in Nat /\ r \in 0 .. w - 1 /\ y = w * q + r
  BY Division
<1> HIDE DEF q
<1>2. w * (q + d + 1) = w * q + w * d + w /\ w * q \in Nat /\ w * d \in Nat
  BY <1>1
<1> DEFINE qq == w * q
<1> DEFINE dd == w * d
<1>3. x < qq + dd + w
  <2>1. qq \in Nat /\ dd \in Nat /\ r \in Nat /\ y = qq + r /\ x - y + r < dd + w
    BY <1>1, <1>2
  <2> HIDE DEF qq, dd, r
  <2> QED
    BY <2>1
<1>4. x < w * (q + d + 1)
  BY <1>2, <1>3
<1>5. x \div w <= q + d
  <2>1. q + d \in Int
    BY <1>1
  <2> QED
    BY <2>1, <1>4, PageTo
<1> QED
  BY <1>5 DEF q

(* The first 16 bytes of the chunk, and the block but for its unlucky end, *)
(* are on pages malloc marks; the 12 bytes behind it that a free chunk     *)
(* uses are there or on the page after.                                    *)
LEMMA MarksReach ==
    ASSUME NEW b \in Living, Shaped(b), NEW x \in Nat, x >= b.at,
           x < Block(b) + b.n + 19 \/ (b.n <= 12 /\ x < Block(b) + 24)
    PROVE  /\ x <= b.at + 15 => Page(x) \in MarkedBy(b)
           /\ x <= Block(b) + b.n - 8 => Page(x) \in MarkedBy(b)
           /\ ~Short(b) /\ x <= Block(b) + b.n - 1 => Page(x) \in MarkedBy(b)
           /\ Page(x) # Page(Block(b) - 12) + b.n \div PageSize + 2 => Page(x) \in MarkedBy(b)
<1> DEFINE w == PageSize
<1> DEFINE y == b.at - 4
<1> DEFINE q == y \div w
<1> DEFINE r == y % w
<1> DEFINE k == b.n \div w
<1> DEFINE m == b.n % w
<1>1. /\ w \in Nat \ {0} /\ w >= 32 /\ b.at \in Nat /\ b.n \in Nat /\ y \in Nat /\ x \in Nat
      /\ Block(b) = b.at + 8 /\ Block(b) - 12 = y /\ y = b.at - 4
  BY Facts DEF Living, Block, Shaped
<1>2. q \in Nat /\ r \in 0 .. w - 1
  BY <1>1, Division
<1>3. k \in Nat /\ m \in 0 .. w - 1 /\ b.n = w * k + m /\ w * k \in Nat
  <2>1. k \in Nat /\ m \in 0 .. w - 1 /\ b.n = w * k + m
    BY <1>1, Division
  <2> QED
    BY <2>1, <1>1
<1>4. r <= w - 4
  <2>1. Block(b) \in Nat /\ Block(b) % 8 = 0 /\ Block(b) >= 12
    BY <1>1, Facts DEF Shaped, Block
  <2>2. (Block(b) - 12) % w <= w - 4
    BY <1>1, <2>1, Facts, Offset
  <2> QED
    BY <2>2, <1>1
<1>5. q <= x \div w
  <2>1. w * q <= y
    BY <1>1, Division
  <2>2. w * q <= x /\ q \in Int
    BY <2>1, <1>1, <1>2
  <2> QED
    BY <2>2, <1>1, PageFrom
<1>6. x \div w \in Nat
  BY <1>1, Division
<1> DEFINE kk == w * k
<1> DEFINE e == x - y
<1>7. /\ kk \in Nat /\ e \in Int /\ b.n = kk + m /\ m \in Nat /\ m <= w - 1
      /\ r \in Nat /\ r <= w - 4
  BY <1>1, <1>2, <1>3, <1>4
<1>8. /\ e < b.n + 31 \/ (b.n <= 12 /\ e < 36)
      /\ x <= b.at + 15 => e <= 19
      /\ x <= Block(b) + b.n - 8 => e <= b.n + 4
      /\ x <= Block(b) + b.n - 1 => e <= b.n + 11
  BY <1>1
<1> HIDE DEF q, r, k, m, w, kk, e, y
<1>9. w * (k + 1) = kk + w /\ w * (k + 2) = kk + 2 * w /\ w * 1 = w
  BY <1>1, <1>3, Multiples DEF kk
<1>10. x \div w <= q + k + 2
  <2>1. e + r < kk + 3 * w
    BY <1>1, <1>7, <1>8
  <2>2. (x - y) + (y % w) < w * (k + 2) + w /\ k + 2 \in Nat
    BY <2>1, <1>1, <1>3, <1>7, <1>9 DEF e, r
  <2>3. x \div w <= y \div w + (k + 2)
    BY <2>2, <1>1, Within
  <2> QED
    BY <2>3, <1>2, <1>3 DEF q
<1>11. ASSUME x <= b.at + 15 PROVE x \div w <= q + k + 1
  <2>1. (x - y) + (y % w) < w * 1 + w
    BY <1>11, <1>1, <1>7, <1>8, <1>9 DEF e, r
  <2>2. x \div w <= y \div w + 1
    BY <2>1, <1>1, Within
  <2> QED
    BY <2>2, <1>2, <1>3, <1>6 DEF q
<1>12. ASSUME x <= Block(b) + b.n - 8 \/ (m <= w - 8 /\ x <= Block(b) + b.n - 1)
       PROVE x \div w <= q + k + 1
  <2>1. e + r < kk + 2 * w
    BY <1>12, <1>1, <1>7, <1>8
  <2>2. (x - y) + (y % w) < w * (k + 1) + w /\ k + 1 \in Nat
    BY <2>1, <1>1, <1>3, <1>7, <1>9 DEF e, r
  <2>3. x \div w <= y \div w + (k + 1)
    BY <2>2, <1>1, Within
  <2> QED
    BY <2>3, <1>2, <1>3 DEF q
<1>13. Page(Block(b) - 12) = q /\ b.n \div PageSize = k /\ Page(x) = x \div w
  BY <1>1 DEF Page, q, k, w
<1>14. MarkedBy(b) = q - 1 .. q + k + 1
  BY <1>13 DEF MarkedBy
<1>15. ~Short(b) => m <= w - 8
  BY <1>1, <1>3 DEF Short, m, w
<1>16. x \div w <= q + k + 1 => Page(x) \in MarkedBy(b)
  BY <1>2, <1>3, <1>5, <1>6, <1>13, <1>14
<1>17. x \div w # q + k + 2 => x \div w <= q + k + 1
  BY <1>2, <1>3, <1>6, <1>10
<1> QED
  BY <1>11, <1>12, <1>13, <1>15, <1>16, <1>17

(* free clears only pages that lie inside the chunk, behind its first 16   *)
(* bytes.                                                                  *)
LEMMA ClearsInside ==
    ASSUME NEW b \in Living, Shaped(b), NEW x \in Nat, Page(x) \in ClearedBy(b)
    PROVE  b.at + 16 <= x /\ x < End(b)
<1> DEFINE w == PageSize
<1> DEFINE a == b.at + 8
<1> DEFINE i == a \div w
<1> DEFINE k == b.size \div w
<1> DEFINE z == x \div w
<1>1. /\ w \in Nat \ {0} /\ w >= 32 /\ b.at \in Nat /\ a \in Nat /\ b.size \in Nat
      /\ Block(b) = a
  BY Facts DEF Living, Block
<1>2. i \in Nat /\ w * i <= a /\ a < w * i + w
  BY <1>1, Division
<1>3. k \in Nat /\ w * k <= b.size
  BY <1>1, Division
<1>4. z \in Nat /\ w * z <= x /\ x < w * z + w
  BY <1>1, Division
<1>5. i + 1 <= z /\ z <= i + k - 2
  BY <1>1 DEF ClearedBy, Page
<1>6. w * (i + 1) <= w * z
  BY <1>1, <1>2, <1>4, <1>5
<1>7. w * (i + 1) >= a + 8
  <2>1. a % 8 = 0 /\ w * (i + 1) > a /\ w * (i + 1) \in Nat
    <3>1. w * (i + 1) = w * i + w
      BY <1>1, <1>2, Multiples
    <3> QED
      BY <3>1, <1>1, <1>2 DEF Shaped
  <2>2. (w * (i + 1)) % 8 = 0
    <3> DEFINE u == w \div 8
    <3>1. u \in Nat /\ w = 8 * u
      BY <1>1, Facts
    <3> HIDE DEF u, w, i
    <3>2. w * (i + 1) = 8 * (u * (i + 1)) /\ u * (i + 1) \in Nat
      BY <3>1, <1>2
    <3> DEFINE t == u * (i + 1)
    <3>3. t \in Nat /\ w * (i + 1) = 8 * t
      BY <3>2
    <3> HIDE DEF t
    <3> QED
      BY <3>3
  <2> QED
    BY <2>1, <2>2, <1>1, Eights
<1>8. w * z <= w * (i + k - 2)
  BY <1>1, <1>2, <1>3, <1>4, <1>5
<1>9. w * (i + k - 2) = w * i + w * k - 2 * w
  BY <1>1, <1>2, <1>3
<1>10. w * (i + 1) <= x
  <2>1. w * (i + 1) \in Nat /\ w * z \in Nat
    BY <1>1, <1>2, <1>4
  <2> QED
    BY <2>1, <1>4, <1>6
<1>11. x < a + b.size - w
  <2> DEFINE p1 == w * z
  <2> DEFINE p2 == w * i
  <2> DEFINE p3 == w * k
  <2>1. p1 \in Nat /\ p2 \in Nat /\ p3 \in Nat
    BY <1>1, <1>2, <1>3, <1>4
  <2>2. x < p1 + w /\ p1 <= p2 + p3 - 2 * w /\ p2 <= a /\ p3 <= b.size
    BY <1>2, <1>3, <1>4, <1>8, <1>9
  <2> HIDE DEF p1, p2, p3
  <2> QED
    BY <2>1, <2>2, <1>1
<1> QED
  BY <1>1, <1>7, <1>10, <1>11 DEF End

-----------------------------------------------------------------------------
(* The inductive invariant.                                                *)

Apart(c, d) == End(c) <= d.at \/ End(d) <= c.at

(* A block fits into its chunk, and chunks do not overlap.                 *)
Room == \A b \in used : ChunkSize(b.n) <= b.size

Disjoint ==
    /\ \A c, d \in used : c = d \/ Apart(c, d)
    /\ \A c, d \in free : c = d \/ Apart(c, d)
    /\ \A c \in used, d \in free : Apart(c, d)

(* Chunks leave no holes, and no two free ones are next to each other.     *)
FreeNext == \A c \in free : IsTop(c) \/ \E d \in used : d.at = End(c)
UsedNext == \A c \in used : IsTop(c) \/ \E d \in used \cup free : d.at = End(c)

(* What a free chunk keeps behind its end lies here.                       *)
FrontMarked == \A b \in used : \A x \in b.at .. b.at + 15 : Page(x) \in marked

(* What was not written since SysMonitor looked was without a mark then.   *)
Unmarked(b) == IF Short(b) THEN Tail(b) ELSE {}

Watch ==
    checked # None =>
      /\ \A b \in used : \A x \in Payload(b) \cup Length(b) :
            Page(x) = checked => x \in written \cup Unmarked(b)
      /\ \A c \in free : \A x \in Books(c) :
            Page(x) = checked => x \in written \/ \E b \in used : x \in Behind(b)

HeapInv ==
    /\ TypeOK /\ Room /\ Disjoint /\ FreeNext /\ UsedNext
    /\ FrontMarked /\ BlocksAreMarked /\ BooksAreMarked /\ Watch

LEMMA Shapes ==
    ASSUME TypeOK
    PROVE  /\ \A b \in used :
                /\ b \in Living /\ Shaped(b) /\ b.at \in Nat /\ b.n \in Nat /\ b.size \in Nat
                /\ b.at >= 64 /\ b.size >= 16 /\ End(b) \in Nat /\ End(b) <= HeapEnd
                /\ End(b) = b.at + b.size /\ Block(b) = b.at + 8
           /\ \A c \in free :
                /\ c \in Chunk /\ Shaped(c) /\ c.at \in Nat /\ c.size \in Nat
                /\ c.at >= 64 /\ c.size >= 16 /\ End(c) \in Nat /\ End(c) <= HeapEnd
                /\ End(c) = c.at + c.size
  BY Facts DEF TypeOK, Living, Chunk, Shaped, End, Block

LEMMA BooksFacts ==
    ASSUME NEW c \in Chunk, Shaped(c), NEW x \in Books(c)
    PROVE  /\ x \in Nat /\ x >= c.at + 4
           /\ x <= c.at + 15 \/ (~IsTop(c) /\ x >= End(c) /\ x <= End(c) + 3)
<1>1. c.at \in Nat /\ c.size \in Nat /\ End(c) = c.at + c.size
  BY DEF Chunk, End
<1> QED
  BY <1>1 DEF Books, Length, Shaped

(* What the allocator keeps of a free chunk that is no neighbour of a      *)
(* block lies neither in the block nor within 16 bytes of its end.         *)
LEMMA FarBooks ==
    ASSUME HeapInv, NEW b \in used, NEW e \in free, e \notin Neighbours(b),
           NEW x \in Books(e)
    PROVE  x \in Nat /\ (x < b.at \/ x > End(b) + 15)
<1> USE DEF HeapInv
<1>1. /\ b.at \in Nat /\ b.size \in Nat /\ b.size >= 16 /\ End(b) = b.at + b.size
      /\ e.at \in Nat /\ e.size \in Nat /\ e.size >= 16 /\ End(e) = e.at + e.size
      /\ End(e) <= HeapEnd /\ End(b) <= HeapEnd /\ HeapEnd \in Nat /\ e \in Chunk /\ Shaped(e)
  BY Shapes, Facts
<1>2. End(e) # b.at /\ e.at # End(b)
  BY DEF Neighbours
<1>3. /\ x \in Nat /\ x >= e.at + 4
      /\ x <= e.at + 15 \/ (x >= End(e) /\ x <= End(e) + 3)
  BY <1>1, BooksFacts
<1>4. Apart(b, e)
  BY DEF Disjoint
<1>5. CASE End(b) <= e.at
  <2>1. ~IsTop(b)
    BY <1>1, <1>5 DEF IsTop
  <2>2. PICK d \in used \cup free : d.at = End(b)
    BY <2>1 DEF UsedNext
  <2>3. d.at \in Nat /\ d.size \in Nat /\ d.size >= 16 /\ End(d) = d.at + d.size
    BY Shapes
  <2>4. Apart(d, e)
    BY <1>2, <2>2 DEF Disjoint
  <2> QED
    BY <1>1, <1>3, <1>5, <2>2, <2>3, <2>4 DEF Apart
<1>6. CASE End(e) <= b.at
  <2>1. ~IsTop(e)
    BY <1>1, <1>2, <1>6 DEF IsTop
  <2>2. PICK d \in used : d.at = End(e)
    BY <2>1 DEF FreeNext
  <2>3. d.at \in Nat /\ d.size \in Nat /\ d.size >= 16 /\ End(d) = d.at + d.size
    BY Shapes
  <2>4. Apart(d, b)
    BY <1>2, <2>2 DEF Disjoint
  <2> QED
    BY <1>1, <1>2, <1>3, <1>6, <2>2, <2>3, <2>4 DEF Apart
<1> QED
  BY <1>4, <1>5, <1>6 DEF Apart

-----------------------------------------------------------------------------
(* malloc.                                                                 *)

LEMMA MallocStep ==
    ASSUME HeapInv, NEW n \in Sizes, Malloc(n)
    PROVE  HeapInv'
<1> USE DEF HeapInv
<1>0. PICK c \in free :
         /\ Fits(c, n)
         /\ used' = used \cup {Taken(c, n)}
         /\ free' = (free \ {c}) \cup Left(c, n)
         /\ marked' = marked \cup MarkedBy(Taken(c, n))
         /\ Writes(InUse({Taken(c, n)}, Left(c, n)))
  BY DEF Malloc
<1> DEFINE t == Taken(c, n)
<1> DEFINE L == Left(c, n)
<1>1. checked' = checked /\ ruined' = ruined
  BY DEF Malloc
<1>2. /\ c \in Chunk /\ Shaped(c) /\ c.at \in Nat /\ c.size \in Nat
      /\ End(c) \in Nat /\ End(c) <= HeapEnd /\ HeapEnd \in Nat /\ c.size >= 16
      /\ End(c) = c.at + c.size
  BY Shapes, Facts
<1>3. /\ t.at = c.at /\ t.n = n /\ t \in Living /\ Shaped(t)
      /\ t.size >= ChunkSize(n) /\ End(t) <= End(c)
      /\ Cuts(c, n) => t.size = ChunkSize(n)
      /\ ~Cuts(c, n) => End(t) = End(c) /\ ~IsTop(c)
  BY <1>0, <1>2, TakenFacts
<1>4. /\ n \in Nat /\ t.at \in Nat /\ t.size \in Nat /\ t.size >= 16 /\ t.n \in Nat
      /\ End(t) = t.at + t.size /\ Block(t) = t.at + 8 /\ t.at >= 64
  BY <1>3, Facts DEF Living, Shaped, End, Block
<1>5. /\ ChunkSize(n) \in Nat /\ ChunkSize(n) >= n + 4
      /\ n <= 12 => ChunkSize(n) = 16
      /\ n > 12 => ChunkSize(n) <= n + 11
  BY <1>4, ChunkSizeFacts
<1>6. \A l \in L : /\ Cuts(c, n) /\ l \in Chunk /\ Shaped(l)
                   /\ l.at = c.at + ChunkSize(n) /\ End(l) = End(c)
                   /\ l.at = End(t) /\ l.at \in Nat /\ l.size \in Nat
                   /\ End(l) = l.at + l.size /\ l.size >= 16
  <2> TAKE l \in L
  <2>1. /\ Cuts(c, n) /\ l \in Chunk /\ Shaped(l)
        /\ l.at = c.at + ChunkSize(n) /\ End(l) = End(c)
    BY <1>2, LeftFacts
  <2>2. l.at \in Nat /\ l.size \in Nat /\ End(l) = l.at + l.size /\ l.size >= 16
    BY <2>1 DEF Chunk, End, Shaped
  <2> QED
    BY <2>1, <2>2, <1>3, <1>4
<1>7. Cuts(c, n) => \E l \in L : l.at = End(t)
  <2>1. Cuts(c, n) => \E l \in L : TRUE
    BY DEF Left
  <2> QED
    BY <2>1, <1>6
<1>8. /\ used' = used \cup {t} /\ free' = (free \ {c}) \cup L
      /\ marked' = marked \cup MarkedBy(t)
      /\ written' = written \cup {x \in InUse({t}, L) : checked # None /\ Page(x) = checked}
  BY <1>0 DEF Writes
<1> HIDE DEF t, L
<1>9. \A x \in InUse({t}, L) : x \in Nat
  <2>1. \A x \in Payload(t) \cup Length(t) : x \in Nat
    BY <1>4 DEF Payload, Length
  <2>2. \A l \in L : \A x \in Books(l) : x \in Nat
    BY <1>6, BooksFacts
  <2> QED
    BY <2>1, <2>2 DEF InUse
<1>10. TypeOK'
  <2>1. used' \subseteq [at : Nat, n : Sizes, size : Nat]
    BY <1>3, <1>8 DEF TypeOK, Living
  <2>2. free' \subseteq [at : Nat, size : Nat]
    BY <1>6, <1>8 DEF TypeOK, Chunk
  <2>3. \A d \in used' \cup free' : Shaped(d)
    BY <1>3, <1>6, <1>8 DEF TypeOK
  <2>4. marked' \subseteq Nat
    <3>1. MarkedBy(t) \subseteq Nat
      <4> DEFINE y == Block(t) - 12
      <4>1. y \in Nat /\ PageSize \in Nat \ {0} /\ PageSize * 1 <= y /\ 1 \in Int
        BY <1>3, <1>4, Facts, HeapAssumption DEF Shaped
      <4> HIDE DEF y
      <4>2. y \div PageSize \in Nat /\ 1 <= y \div PageSize
        BY <4>1, PageFrom, Division
      <4>3. t.n \div PageSize \in Nat
        BY <1>4, <4>1, Division
      <4> QED
        BY <4>2, <4>3 DEF MarkedBy, Page, y
    <3> QED
      BY <3>1, <1>8 DEF TypeOK
  <2>5. written' \subseteq Nat
    BY <1>8, <1>9 DEF TypeOK
  <2> QED
    BY <2>1, <2>2, <2>3, <2>4, <2>5, <1>1 DEF TypeOK
<1>11. Room'
  BY <1>3, <1>8 DEF Room
<1>12. Disjoint'
  <2>1. \A d \in used : Apart(d, t) /\ Apart(t, d) /\ \A l \in L : Apart(d, l)
    <3> TAKE d \in used
    <3>1. d.at \in Nat /\ End(d) \in Nat /\ Apart(d, c)
      BY Shapes DEF Disjoint
    <3> QED
      BY <3>1, <1>2, <1>3, <1>4, <1>6 DEF Apart
  <2>2. \A d \in free \ {c} : Apart(t, d) /\ \A l \in L : Apart(d, l) /\ Apart(l, d)
    <3> TAKE d \in free \ {c}
    <3>1. d.at \in Nat /\ End(d) \in Nat /\ Apart(d, c)
      BY Shapes DEF Disjoint
    <3> QED
      BY <3>1, <1>2, <1>3, <1>4, <1>6 DEF Apart
  <2>3. \A l \in L : Apart(t, l)
    BY <1>4, <1>6 DEF Apart
  <2>4. \A l1, l2 \in L : l1 = l2
    BY DEF L, Left
  <2> QED
    BY <2>1, <2>2, <2>3, <2>4, <1>8 DEF Disjoint
<1>13. FreeNext'
  <2>1. \A e \in free : IsTop(e) \/ \E d \in used' : d.at = End(e)
    BY <1>8 DEF FreeNext
  <2>2. \A l \in L : IsTop(l) \/ \E d \in used' : d.at = End(l)
    BY <1>6, <2>1 DEF IsTop
  <2> QED
    BY <2>1, <2>2, <1>8 DEF FreeNext
<1>14. UsedNext'
  <2>1. \A d \in used : IsTop(d) \/ \E e \in used' \cup free' : e.at = End(d)
    BY <1>3, <1>8 DEF UsedNext
  <2>2. \E e \in used' \cup free' : e.at = End(t)
    BY <1>3, <1>7, <1>8 DEF FreeNext
  <2> QED
    BY <2>1, <2>2, <1>8 DEF UsedNext
<1>15. FrontMarked'
  <2>1. \A x \in t.at .. t.at + 15 : Page(x) \in MarkedBy(t)
    BY <1>3, <1>4, MarksReach
  <2> QED
    BY <2>1, <1>8 DEF FrontMarked
<1>16. BlocksAreMarked'
  <2>1. \A x \in Payload(t) : Page(x) \in MarkedBy(t) \/ (Short(t) /\ x \in Tail(t))
    BY <1>3, <1>4, MarksReach DEF Payload, Tail
  <2> QED
    BY <2>1, <1>8 DEF BlocksAreMarked
<1>17. BooksAreMarked'
  <2>1. \A e \in free : \A x \in Books(e) :
           \/ Page(x) \in marked' \/ Page(x) \notin Looked
           \/ \E b \in used' : x \in Behind(b)
    BY <1>8 DEF BooksAreMarked
  <2>2. ASSUME NEW l \in L, NEW x \in Books(l), x <= l.at + 15
        PROVE  Page(x) \in marked' \/ x \in Behind(t)
    <3>1. x \in Nat /\ x >= l.at + 4
      BY <1>6, BooksFacts
    <3>2. l.at = t.at + ChunkSize(n) /\ End(t) = l.at
      BY <1>3, <1>6
    <3>3. x < Block(t) + t.n + 19 \/ (t.n <= 12 /\ x < Block(t) + 24)
      BY <2>2, <3>1, <3>2, <1>3, <1>4, <1>5
    <3>4. x >= t.at /\ x >= Block(t) + t.n /\ x <= End(t) + 15
      BY <2>2, <3>1, <3>2, <1>3, <1>4, <1>5
    <3>5. \/ Page(x) = Page(Block(t) - 12) + t.n \div PageSize + 2
          \/ Page(x) \in MarkedBy(t)
      BY <3>1, <3>3, <3>4, <1>3, MarksReach
    <3>6. x \in Block(t) + t.n .. End(t) + 15
      BY <3>1, <3>4, <1>4
    <3> QED
      BY <3>5, <3>6, <1>8 DEF Behind
  <2>3. ASSUME NEW l \in L, NEW x \in Books(l), ~(x <= l.at + 15)
        PROVE  Page(x) \in marked'
    <3>1. x \in Nat /\ ~IsTop(l) /\ x >= End(l) /\ x <= End(l) + 3
      BY <2>3, <1>6, BooksFacts
    <3>2. PICK d \in used' : d.at = End(l)
      BY <3>1, <1>8, <1>13 DEF FreeNext
    <3>3. End(l) \in Nat /\ d.at \in Nat
      BY <3>2, <1>2, <1>6
    <3> QED
      BY <3>1, <3>2, <3>3, <1>15 DEF FrontMarked
  <2>4. \A l \in L : \A x \in Books(l) :
           Page(x) \in marked' \/ \E b \in used' : x \in Behind(b)
    BY <2>2, <2>3, <1>8
  <2> QED
    BY <2>1, <2>4, <1>8 DEF BooksAreMarked
<1>18. Watch'
  <2> SUFFICES ASSUME checked # None
               PROVE  /\ \A b \in used' : \A x \in Payload(b) \cup Length(b) :
                            Page(x) = checked => x \in written' \cup Unmarked(b)
                      /\ \A e \in free' : \A x \in Books(e) :
                            Page(x) = checked => x \in written' \/ \E b \in used' : x \in Behind(b)
    BY <1>1 DEF Watch
  <2>1. \A x \in InUse({t}, L) : Page(x) = checked => x \in written'
    BY <1>8
  <2>2. \A x \in Payload(t) \cup Length(t) : x \in InUse({t}, L)
    BY DEF InUse
  <2>3. \A l \in L : \A x \in Books(l) : x \in InUse({t}, L)
    BY DEF InUse
  <2>4. \A b \in used : \A x \in Payload(b) \cup Length(b) :
           Page(x) = checked => x \in written' \cup Unmarked(b)
    BY <1>8 DEF Watch
  <2>5. \A e \in free : \A x \in Books(e) :
           Page(x) = checked => x \in written' \/ \E b \in used' : x \in Behind(b)
    BY <1>8 DEF Watch
  <2> QED
    BY <2>1, <2>2, <2>3, <2>4, <2>5, <1>8
<1> QED
  BY <1>10, <1>11, <1>12, <1>13, <1>14, <1>15, <1>16, <1>17, <1>18

-----------------------------------------------------------------------------
(* free.                                                                   *)

(* Where the freed chunk, joined with its free neighbours, begins and ends.*)
LEMMA JoinedFacts ==
    ASSUME HeapInv, NEW b \in used
    PROVE  LET j == Joined(b)
           IN  /\ j \in Chunk /\ Shaped(j) /\ j.at <= b.at /\ End(b) <= End(j)
               /\ \/ j.at = b.at /\ \A f \in free : End(f) # b.at
                  \/ \E f \in free : End(f) = b.at /\ f.at = j.at
               /\ \/ End(j) = End(b) /\ \A f \in free : f.at # End(b)
                  \/ \E f \in free : f.at = End(b) /\ End(f) = End(j)
<1> USE DEF HeapInv
<1> DEFINE first == IF \E c \in free : End(c) = b.at
                    THEN (CHOOSE c \in free : End(c) = b.at).at ELSE b.at
<1> DEFINE last == IF \E c \in free : c.at = End(b)
                   THEN End(CHOOSE c \in free : c.at = End(b)) ELSE End(b)
<1> DEFINE j == Joined(b)
<1>1. /\ b.at \in Nat /\ b.size \in Nat /\ b.size >= 16 /\ End(b) = b.at + b.size
      /\ Shaped(b) /\ HeapEnd \in Nat /\ HeapStart \in Nat
  BY Shapes, Facts
<1>2. \A f \in free : /\ f.at \in Nat /\ f.size \in Nat /\ f.size >= 16
                      /\ End(f) = f.at + f.size /\ Shaped(f)
  BY Shapes
<1>3. /\ \/ first = b.at /\ \A f \in free : End(f) # b.at
         \/ \E f \in free : End(f) = b.at /\ f.at = first
      /\ first \in Nat /\ first % 8 = 0 /\ HeapStart <= first /\ first <= b.at
  <2>1. CASE \E c \in free : End(c) = b.at
    <3> DEFINE f == CHOOSE c \in free : End(c) = b.at
    <3>1. f \in free /\ End(f) = b.at /\ first = f.at
      BY <2>1
    <3> HIDE DEF f, first
    <3>2. /\ f.at \in Nat /\ f.size \in Nat /\ End(f) = f.at + f.size /\ HeapStart <= f.at
          /\ f.at % 8 = 0
      BY <3>1, <1>2 DEF Shaped
    <3> QED
      BY <3>1, <3>2, <1>1
  <2>2. CASE ~\E c \in free : End(c) = b.at
    <3>1. first = b.at
      BY <2>2
    <3> QED
      BY <3>1, <2>2, <1>1 DEF Shaped
  <2> QED
    BY <2>1, <2>2
<1>4. /\ \/ last = End(b) /\ \A f \in free : f.at # End(b)
         \/ \E f \in free : f.at = End(b) /\ End(f) = last
      /\ last \in Nat /\ last % 8 = 0 /\ last <= HeapEnd /\ last >= End(b)
  <2>1. CASE \E c \in free : c.at = End(b)
    <3> DEFINE f == CHOOSE c \in free : c.at = End(b)
    <3>1. f \in free /\ f.at = End(b) /\ last = End(f)
      BY <2>1
    <3> HIDE DEF f, last
    <3>2. /\ f.at \in Nat /\ f.size \in Nat /\ End(f) = f.at + f.size /\ End(f) <= HeapEnd
          /\ f.at % 8 = 0 /\ f.size % 8 = 0
      BY <3>1, <1>2 DEF Shaped
    <3> QED
      BY <3>1, <3>2, <1>1
  <2>2. CASE ~\E c \in free : c.at = End(b)
    <3>1. last = End(b)
      BY <2>2
    <3> QED
      BY <3>1, <2>2, <1>1 DEF Shaped
  <2> QED
    BY <2>1, <2>2
<1>5. j = [at |-> first, size |-> last - first]
  BY DEF Joined
<1> HIDE DEF first, last, j
<1>6. j.at = first /\ j.size = last - first /\ j.size \in Nat /\ j.size >= 16
  BY <1>1, <1>3, <1>4, <1>5
<1>7. End(j) = last
  BY <1>3, <1>4, <1>6 DEF End
<1>8. j \in Chunk
  BY <1>3, <1>5, <1>6 DEF Chunk
<1>9. j.size % 8 = 0
  BY <1>3, <1>4, <1>6
<1>10. Shaped(j)
  BY <1>3, <1>4, <1>6, <1>7, <1>9 DEF Shaped
<1> QED
  BY <1>3, <1>4, <1>6, <1>7, <1>8, <1>10 DEF j

LEMMA FreeStep ==
    ASSUME HeapInv, NEW b \in used, Free(b)
    PROVE  HeapInv'
<1> USE DEF HeapInv
<1> DEFINE j == Joined(b)
<1> DEFINE E == free \ Neighbours(b)
<1>1. /\ used' = used \ {b} /\ free' = E \cup {j} /\ marked' = marked \ ClearedBy(b)
      /\ written' = written \cup {x \in Books(j) : checked # None /\ Page(x) = checked}
      /\ checked' = checked /\ ruined' = ruined
  BY DEF Free, Writes
<1>2. /\ b.at \in Nat /\ b.n \in Nat /\ b.size \in Nat /\ b.size >= 16 /\ End(b) = b.at + b.size
      /\ b \in Living /\ Shaped(b) /\ End(b) <= HeapEnd /\ HeapEnd \in Nat
      /\ Block(b) = b.at + 8 /\ ChunkSize(b.n) <= b.size
  BY Shapes, Facts DEF Room
<1>3. /\ j \in Chunk /\ Shaped(j) /\ j.at <= b.at /\ End(b) <= End(j)
      /\ \/ j.at = b.at /\ \A f \in free : End(f) # b.at
         \/ \E f \in free : End(f) = b.at /\ f.at = j.at
      /\ \/ End(j) = End(b) /\ \A f \in free : f.at # End(b)
         \/ \E f \in free : f.at = End(b) /\ End(f) = End(j)
  BY JoinedFacts
<1>4. j.at \in Nat /\ j.size \in Nat /\ End(j) = j.at + j.size /\ j.size >= 16
  BY <1>3 DEF Chunk, End, Shaped
<1>5. \A x \in Nat : Page(x) \in ClearedBy(b) => b.at + 16 <= x /\ x < End(b)
  BY <1>2, ClearsInside
<1>6. \A e \in E : /\ e \in free /\ End(e) # b.at /\ e.at # End(b)
                   /\ e.at \in Nat /\ e.size \in Nat /\ e.size >= 16
                   /\ End(e) = e.at + e.size /\ Apart(b, e)
  BY Shapes DEF Neighbours, Disjoint
<1>7. \A d \in used \ {b} :
         /\ d.at \in Nat /\ d.size \in Nat /\ d.size >= 16 /\ d.n \in Nat /\ d.n + 4 <= d.size
         /\ End(d) = d.at + d.size /\ Block(d) = d.at + 8 /\ Apart(b, d) /\ Apart(d, b)
  <2> TAKE d \in used \ {b}
  <2>1. d.n \in Nat /\ ChunkSize(d.n) <= d.size /\ d.size \in Nat
    BY Shapes DEF Room
  <2>2. d.n + 4 <= d.size
    BY <2>1, ChunkSizeFacts
  <2> QED
    BY <2>2, Shapes DEF Disjoint
<1> HIDE DEF j, E
<1>8. \A x \in Books(j) : x \in Nat
  BY <1>3, BooksFacts
<1>9. TypeOK'
  <2>1. used' \subseteq [at : Nat, n : Sizes, size : Nat]
    BY <1>1 DEF TypeOK
  <2>2. free' \subseteq [at : Nat, size : Nat]
    BY <1>1, <1>3, <1>6 DEF TypeOK, Chunk
  <2>3. \A d \in used' \cup free' : Shaped(d)
    BY <1>1, <1>3, <1>6 DEF TypeOK
  <2> QED
    BY <2>1, <2>2, <2>3, <1>1, <1>8 DEF TypeOK
<1>10. Room'
  BY <1>1 DEF Room
<1>11. Disjoint'
  <2>1. \A d \in used \ {b} : Apart(d, j)
    <3> TAKE d \in used \ {b}
    <3>1. \A f \in free : /\ Apart(d, f) /\ f.at \in Nat /\ f.size \in Nat /\ f.size >= 16
                          /\ End(f) = f.at + f.size
      BY Shapes DEF Disjoint
    <3> QED
      BY <3>1, <1>2, <1>3, <1>4, <1>7 DEF Apart
  <2>2. \A e \in E : Apart(e, j) /\ Apart(j, e)
    <3> TAKE e \in E
    <3>1. \A f \in free : /\ f = e \/ (Apart(e, f) /\ Apart(f, e))
                          /\ f.at \in Nat /\ f.size \in Nat /\ f.size >= 16
                          /\ End(f) = f.at + f.size
      BY <1>6, Shapes DEF Disjoint
    <3>2. Apart(b, e) /\ End(e) # b.at /\ e.at # End(b)
      BY <1>6
    <3> QED
      BY <3>1, <3>2, <1>2, <1>3, <1>4, <1>6 DEF Apart
  <2> QED
    BY <2>1, <2>2, <1>1, <1>6 DEF Disjoint
<1>12. IsTop(j) \/ \E d \in used' : d.at = End(j)
  <2>1. CASE End(j) = End(b) /\ \A f \in free : f.at # End(b)
    <3>1. IsTop(b) \/ \E d \in used \cup free : d.at = End(b)
      BY DEF UsedNext
    <3>2. b.at # End(b)
      BY <1>2
    <3> QED
      BY <2>1, <3>1, <3>2, <1>1 DEF IsTop
  <2>2. CASE \E f \in free : f.at = End(b) /\ End(f) = End(j)
    <3>1. PICK f \in free : f.at = End(b) /\ End(f) = End(j)
      BY <2>2
    <3>2. IsTop(f) \/ \E d \in used : d.at = End(f)
      BY DEF FreeNext
    <3>3. b.at # End(f)
      BY <1>2, <1>3, <1>4, <3>1
    <3> QED
      BY <3>1, <3>2, <3>3, <1>1 DEF IsTop
  <2> QED
    BY <2>1, <2>2, <1>3
<1>13. FreeNext'
  <2>1. \A e \in E : IsTop(e) \/ \E d \in used' : d.at = End(e)
    BY <1>1, <1>6 DEF FreeNext
  <2> QED
    BY <2>1, <1>1, <1>12 DEF FreeNext
<1>14. UsedNext'
  <2> SUFFICES ASSUME NEW d \in used \ {b}, ~IsTop(d)
               PROVE  \E e \in used' \cup free' : e.at = End(d)
    BY <1>1 DEF UsedNext
  <2>1. PICK e \in used \cup free : e.at = End(d)
    BY DEF UsedNext
  <2>2. CASE e = b
    <3>1. \A f \in free : End(f) # b.at
      <4> SUFFICES ASSUME NEW f \in free, End(f) = b.at
                   PROVE  FALSE
        OBVIOUS
      <4>1. /\ Apart(d, f) /\ f.at \in Nat /\ f.size \in Nat /\ f.size >= 16
            /\ End(f) = f.at + f.size
        BY Shapes DEF Disjoint
      <4>2. d.at \in Nat /\ d.size \in Nat /\ d.size >= 16 /\ End(d) = d.at + d.size
        BY <1>7
      <4>3. End(d) = End(f)
        BY <2>1, <2>2
      <4> QED
        BY <4>1, <4>2, <4>3 DEF Apart
    <3> QED
      BY <3>1, <2>1, <2>2, <1>1, <1>3
  <2>3. CASE e \in free /\ e \in Neighbours(b)
    <3>1. /\ e.at \in Nat /\ e.size \in Nat /\ e.size >= 16 /\ End(e) = e.at + e.size
      BY <2>3, Shapes
    <3>2. End(e) = b.at
      <4>1. e.at # End(b)
        BY <2>1, <1>2, <1>7 DEF Apart
      <4> QED
        BY <4>1, <2>3 DEF Neighbours
    <3>3. \A f \in free : End(f) = b.at => f.at = e.at
      <4> SUFFICES ASSUME NEW f \in free, End(f) = b.at, f # e
                   PROVE  FALSE
        OBVIOUS
      <4>1. /\ Apart(e, f) /\ f.at \in Nat /\ f.size \in Nat /\ f.size >= 16
            /\ End(f) = f.at + f.size
        BY <2>3, Shapes DEF Disjoint
      <4> QED
        BY <4>1, <3>1, <3>2 DEF Apart
    <3>4. j.at = e.at
      BY <3>2, <3>3, <2>3, <1>3
    <3> QED
      BY <3>4, <2>1, <1>1
  <2>4. CASE e \in used \ {b} \/ (e \in free /\ e \notin Neighbours(b))
    BY <2>1, <2>4, <1>1 DEF E
  <2> QED
    BY <2>2, <2>3, <2>4
<1>15. FrontMarked'
  <2> SUFFICES ASSUME NEW d \in used \ {b}, NEW x \in d.at .. d.at + 15
               PROVE  Page(x) \in marked \ ClearedBy(b)
    BY <1>1 DEF FrontMarked
  <2>1. Page(x) \in marked
    BY DEF FrontMarked
  <2>2. x \in Nat /\ ~(b.at + 16 <= x /\ x < End(b))
    BY <1>2, <1>7 DEF Apart
  <2> QED
    BY <2>1, <2>2, <1>5
<1>16. BlocksAreMarked'
  <2> SUFFICES ASSUME NEW d \in used \ {b}, NEW x \in Payload(d)
               PROVE  Page(x) \in marked \ ClearedBy(b) \/ (Short(d) /\ x \in Tail(d))
    BY <1>1 DEF BlocksAreMarked
  <2>1. Page(x) \in marked \/ (Short(d) /\ x \in Tail(d))
    BY DEF BlocksAreMarked
  <2>2. CASE x < End(d)
    <3>1. x \in Nat /\ ~(b.at + 16 <= x /\ x < End(b))
      BY <2>2, <1>2, <1>7 DEF Apart, Payload
    <3> QED
      BY <2>1, <3>1, <1>5
  <2>3. CASE ~(x < End(d))
    <3>1. x \in Nat /\ x >= End(d) /\ x <= End(d) + 3
      BY <2>3, <1>7 DEF Payload
    <3>2. ~IsTop(d) => \E e \in used \cup free : e.at = End(d)
      BY DEF UsedNext
    <3>3. \A e \in used \cup free : e.size >= 16 /\ e.size \in Nat /\ e.at \in Nat /\ End(e) = e.at + e.size
      BY Shapes
    <3>4. \A e \in used \cup free : e # b => Apart(b, e)
      BY DEF Disjoint, Apart
    <3>5. ~(b.at + 16 <= x /\ x < End(b))
      BY <3>1, <3>2, <3>3, <3>4, <1>2, <1>7 DEF Apart, IsTop
    <3> QED
      BY <2>1, <3>1, <3>5, <1>5
  <2> QED
    BY <2>2, <2>3
<1>17. BooksAreMarked'
  <2>1. ASSUME NEW e \in E, NEW x \in Books(e)
        PROVE  \/ Page(x) \in marked' \/ Page(x) \notin Looked
               \/ \E d \in used' : x \in Behind(d)
    <3>1. x \in Nat /\ (x < b.at \/ x > End(b) + 15)
      BY <1>6, FarBooks DEF E
    <3>2. Page(x) \notin ClearedBy(b)
      BY <3>1, <1>2, <1>5
    <3>3. x \notin Behind(b)
      BY <3>1, <1>2 DEF Behind
    <3>4. \/ Page(x) \in marked \/ Page(x) \notin Looked
          \/ \E d \in used : x \in Behind(d)
      BY <1>6 DEF BooksAreMarked
    <3> QED
      BY <3>2, <3>3, <3>4, <1>1
  <2>2. ASSUME NEW x \in Books(j), x <= j.at + 15
        PROVE  \/ Page(x) \in marked' \/ Page(x) \notin Looked
               \/ \E d \in used' : x \in Behind(d)
    <3>1. x \in Nat /\ x >= j.at + 4
      BY <1>3, BooksFacts
    <3>2. CASE j.at = b.at
      <4>1. Page(x) \in marked
        BY <3>1, <3>2, <2>2, <1>2 DEF FrontMarked
      <4>2. Page(x) \notin ClearedBy(b)
        BY <3>1, <3>2, <2>2, <1>2, <1>5
      <4> QED
        BY <4>1, <4>2, <1>1
    <3>3. CASE \E f \in free : End(f) = b.at /\ f.at = j.at
      <4>1. PICK f \in free : End(f) = b.at /\ f.at = j.at
        BY <3>3
      <4>2. f.at \in Nat /\ f.size \in Nat /\ f.size >= 16 /\ End(f) = f.at + f.size
        BY Shapes
      <4>3. x < b.at
        BY <3>1, <4>1, <4>2, <2>2
      <4>4. x \in Books(f)
        <5>1. End(f) # HeapEnd
          BY <4>1, <1>2
        <5>2. x \in f.at + 4 .. f.at + 15
          BY <3>1, <4>1, <4>2, <2>2
        <5> QED
          BY <5>1, <5>2 DEF Books, IsTop
      <4>5. Page(x) \notin ClearedBy(b)
        BY <3>1, <4>3, <1>2, <1>5
      <4>6. x \notin Behind(b)
        BY <3>1, <4>3, <1>2 DEF Behind
      <4>7. \/ Page(x) \in marked \/ Page(x) \notin Looked
            \/ \E d \in used : x \in Behind(d)
        BY <4>4 DEF BooksAreMarked
      <4> QED
        BY <4>5, <4>6, <4>7, <1>1
    <3> QED
      BY <3>2, <3>3, <1>3
  <2>3. ASSUME NEW x \in Books(j), ~(x <= j.at + 15)
        PROVE  Page(x) \in marked'
    <3>1. x \in Nat /\ ~IsTop(j) /\ x >= End(j) /\ x <= End(j) + 3
      BY <2>3, <1>3, BooksFacts
    <3>2. PICK d \in used' : d.at = End(j)
      BY <3>1, <1>12
    <3> QED
      BY <3>1, <3>2, <1>4, <1>15 DEF FrontMarked
  <2> QED
    BY <2>1, <2>2, <2>3, <1>1 DEF BooksAreMarked
<1>18. Watch'
  <2> SUFFICES ASSUME checked # None
               PROVE  /\ \A d \in used' : \A x \in Payload(d) \cup Length(d) :
                            Page(x) = checked => x \in written' \cup Unmarked(d)
                      /\ \A e \in free' : \A x \in Books(e) :
                            Page(x) = checked => x \in written' \/ \E d \in used' : x \in Behind(d)
    BY <1>1 DEF Watch
  <2>1. \A d \in used' : \A x \in Payload(d) \cup Length(d) :
           Page(x) = checked => x \in written' \cup Unmarked(d)
    BY <1>1 DEF Watch
  <2>2. \A x \in Books(j) : Page(x) = checked => x \in written'
    BY <1>1
  <2>3. ASSUME NEW e \in E, NEW x \in Books(e), Page(x) = checked
        PROVE  x \in written' \/ \E d \in used' : x \in Behind(d)
    <3>1. x \in Nat /\ (x < b.at \/ x > End(b) + 15)
      BY <1>6, FarBooks DEF E
    <3>2. x \notin Behind(b)
      BY <3>1, <1>2 DEF Behind
    <3> QED
      BY <2>3, <3>2, <1>1, <1>6 DEF Watch
  <2> QED
    BY <2>1, <2>2, <2>3, <1>1
<1> QED
  BY <1>9, <1>10, <1>11, <1>13, <1>14, <1>15, <1>16, <1>17, <1>18

-----------------------------------------------------------------------------
(* The beginning, and the trims.                                           *)

LEMMA InitHeapInv ==
    ASSUME Init
    PROVE  HeapInv
<1> DEFINE c == [at |-> HeapStart, size |-> HeapEnd - HeapStart]
<1>1. /\ c.at = HeapStart /\ c.size = HeapEnd - HeapStart /\ c.size \in Nat /\ c.size >= 16
      /\ c.at \in Nat /\ HeapEnd \in Nat /\ c.at % 8 = 0 /\ c.size % 8 = 0
      /\ PageSize \in Nat \ {0} /\ PageSize % 8 = 0
  BY HeapAssumption
<1>2. free = {c} /\ used = {} /\ marked = {} /\ checked = None /\ written = {} /\ ruined = {}
  BY DEF Init
<1>3. End(c) = HeapEnd
  BY <1>1 DEF End
<1>4. c \in [at : Nat, size : Nat]
  BY <1>1
<1> HIDE DEF c
<1>5. TypeOK
  BY <1>1, <1>2, <1>3, <1>4 DEF TypeOK, Shaped
<1>6. \A x \in Books(c) : Page(x) \notin Looked
  <2> TAKE x \in Books(c)
  <2>1. x \in Nat /\ x <= HeapStart + 7
    BY <1>1, <1>3 DEF Books, IsTop, Length
  <2> DEFINE q == HeapStart \div PageSize
  <2> DEFINE p == PageSize * q
  <2>2. q \in Nat /\ p \in Nat /\ HeapStart < p + PageSize
    BY <1>1, Division
  <2>3. p % 8 = 0
    <3> DEFINE u == PageSize \div 8
    <3>1. u \in Nat /\ PageSize = 8 * u
      BY <1>1
    <3> HIDE DEF u, q
    <3>2. PageSize * q = 8 * (u * q) /\ u * q \in Nat
      BY <2>2, <3>1
    <3> DEFINE t == u * q
    <3>3. t \in Nat /\ p = 8 * t
      BY <3>2
    <3> HIDE DEF t, p
    <3> QED
      BY <3>3
  <2>4. PageSize * (q + 1) = p + PageSize
    BY <1>1, <2>2, Multiples
  <2> HIDE DEF q, p
  <2>5. HeapStart + 8 <= p + PageSize
    BY <1>1, <2>2, <2>3, Eights
  <2>6. x < PageSize * (q + 1) /\ q \in Int
    BY <1>1, <2>1, <2>2, <2>4, <2>5
  <2>7. x \div PageSize <= q /\ x \div PageSize \in Nat
    BY <1>1, <2>1, <2>6, PageTo, Division
  <2> QED
    BY <2>2, <2>7 DEF Looked, Page, q
<1>7. BooksAreMarked
  BY <1>2, <1>6 DEF BooksAreMarked
<1>8. FreeNext /\ Disjoint
  BY <1>2, <1>3 DEF FreeNext, Disjoint, IsTop
<1> QED
  BY <1>2, <1>5, <1>7, <1>8
  DEF HeapInv, Room, UsedNext, FrontMarked, BlocksAreMarked, Watch

(* What the pages without a mark hold.                                     *)
LEMMA Spare ==
    ASSUME HeapInv, NEW S, S \subseteq Looked \ marked
    PROVE  OnPages(S) \subseteq Unlucky
<1> USE DEF HeapInv
<1> SUFFICES ASSUME NEW x \in InUse(used, free), Page(x) \in Looked, Page(x) \notin marked
             PROVE  x \in Unlucky
  BY DEF OnPages
<1>1. CASE \E b \in used : x \in Payload(b)
  BY <1>1 DEF BlocksAreMarked, Unlucky
<1>2. CASE \E b \in used : x \in Length(b)
  <2>1. PICK b \in used : x \in Length(b)
    BY <1>2
  <2>2. x \in b.at .. b.at + 15
    BY <2>1, Shapes DEF Length
  <2> QED
    BY <2>1, <2>2 DEF FrontMarked
<1>3. CASE \E c \in free : x \in Books(c)
  BY <1>3 DEF BooksAreMarked, Unlucky
<1> QED
  BY <1>1, <1>2, <1>3 DEF InUse

LEMMA InUseNat ==
    ASSUME TypeOK
    PROVE  InUse(used, free) \subseteq Nat
<1>1. \A b \in used : Payload(b) \cup Length(b) \subseteq Nat
  BY Shapes DEF Payload, Length
<1>2. \A c \in free : Books(c) \subseteq Nat
  BY Shapes, BooksFacts
<1> QED
  BY <1>1, <1>2 DEF InUse

LEMMA NoneOutside == None \notin Looked
<1>1. HeapStart \div PageSize \in Nat
  BY Facts, Division
<1> QED
  BY <1>1 DEF None, Looked, Page

LEMMA ChecksStep ==
    ASSUME HeapInv, MonitorChecks
    PROVE  HeapInv'
<1> USE DEF HeapInv
<1>1. /\ checked' \in Looked \ marked /\ written' = {}
      /\ used' = used /\ free' = free /\ marked' = marked /\ ruined' = ruined
  BY DEF MonitorChecks
<1>2. TypeOK'
  BY <1>1 DEF TypeOK
<1>3. Watch'
  <2>1. \A b \in used : \A x \in Payload(b) \cup Length(b) :
           Page(x) = checked' => x \in Unmarked(b)
    <3> TAKE b \in used
    <3>1. \A x \in Payload(b) : Page(x) = checked' => x \in Unmarked(b)
      BY <1>1 DEF BlocksAreMarked, Unmarked
    <3>2. \A x \in Length(b) : x \in b.at .. b.at + 15
      BY Shapes DEF Length
    <3> QED
      BY <3>1, <3>2, <1>1 DEF FrontMarked
  <2>2. \A c \in free : \A x \in Books(c) :
           Page(x) = checked' => \E b \in used : x \in Behind(b)
    BY <1>1 DEF BooksAreMarked
  <2> QED
    BY <2>1, <2>2, <1>1 DEF Watch
<1> QED
  BY <1>1, <1>2, <1>3
  DEF Room, Disjoint, FreeNext, UsedNext, FrontMarked, BlocksAreMarked, BooksAreMarked

LEMMA TrimStep ==
    ASSUME HeapInv, TrimSuspended \/ MonitorTrims
    PROVE  HeapInv'
<1> USE DEF HeapInv
<1>1. /\ used' = used /\ free' = free /\ marked' = marked
      /\ \/ checked' = checked /\ written' = written
         \/ checked' = None /\ written' = {}
  BY DEF TrimSuspended, MonitorTrims
<1>2. ruined' \subseteq Nat
  BY InUseNat DEF TrimSuspended, MonitorTrims, OnPages, TypeOK
<1>3. TypeOK'
  BY <1>1, <1>2 DEF TypeOK
<1>4. Watch'
  BY <1>1 DEF Watch
<1> QED
  BY <1>1, <1>3, <1>4
  DEF Room, Disjoint, FreeNext, UsedNext, FrontMarked, BlocksAreMarked, BooksAreMarked

LEMMA NextHeapInv ==
    ASSUME HeapInv, [Next]_vars
    PROVE  HeapInv'
<1>1. ASSUME NEW n \in Sizes, Malloc(n) PROVE HeapInv'
  BY <1>1, MallocStep
<1>2. ASSUME NEW b \in used, Free(b) PROVE HeapInv'
  BY <1>2, FreeStep
<1>3. CASE MonitorChecks
  BY <1>3, ChecksStep
<1>4. CASE TrimSuspended \/ MonitorTrims
  BY <1>4, TrimStep
<1>5. CASE UNCHANGED vars
  BY <1>5
  DEF vars, HeapInv, TypeOK, Room, Disjoint, FreeNext, UsedNext, FrontMarked,
      BlocksAreMarked, BooksAreMarked, Watch
<1> QED
  BY <1>1, <1>2, <1>3, <1>4, <1>5 DEF Next

LEMMA HeapInvariant == Spec => []HeapInv
  BY InitHeapInv, NextHeapInv, PTL DEF Spec

(* Every chunk is well formed and every mark a page, whatever the sizes    *)
(* malloc is asked for (system/stub.c:122-168).                            *)
THEOREM HeapTypes == Spec => []TypeOK
  BY HeapInvariant, PTL DEF HeapInv

(* The estimates of malloc and free never leave a byte of a living block   *)
(* without a mark, except the last ones of a block of an unlucky size.     *)
THEOREM MarksCoverBlocks == Spec => []BlocksAreMarked
  BY HeapInvariant, PTL DEF HeapInv

(* Nor the lengths and links the allocator keeps in free memory, except    *)
(* right behind such a block.                                              *)
THEOREM MarksCoverBooks == Spec => []BooksAreMarked
  BY HeapInvariant, PTL DEF HeapInv

(* What a trim takes of the bytes in use (system/stub.c:220-232): by       *)
(* app_stop only the unlucky ones, by SysMonitor also those written after  *)
(* it looked.                                                              *)
THEOREM TrimsTakeSpare == Spec => TrimsSpare
<1> DEFINE A == /\ TrimSuspended => ruined' \subseteq Unlucky
                /\ MonitorTrims => ruined' \subseteq Unlucky \cup written
<1>1. ASSUME HeapInv, [Next]_vars
      PROVE  [A]_vars
  <2> SUFFICES ASSUME Next PROVE A
    BY <1>1
  <2>1. ruined = {}
    BY DEF Next
  <2>2. TrimSuspended => ruined' \subseteq Unlucky
    <3>1. OnPages(Looked \ marked) \subseteq Unlucky
      BY <1>1, Spare
    <3> QED
      BY <2>1, <3>1 DEF TrimSuspended
  <2>3. MonitorTrims => ruined' \subseteq Unlucky \cup written
    <3> SUFFICES ASSUME checked # None, NEW x \in InUse(used, free), Page(x) = checked
                 PROVE  x \in Unlucky \cup written
      BY <2>1 DEF MonitorTrims, OnPages
    <3>1. CASE \E b \in used : x \in Payload(b) \cup Length(b)
      BY <1>1, <3>1 DEF HeapInv, Watch, Unmarked, Unlucky
    <3>2. CASE \E c \in free : x \in Books(c)
      BY <1>1, <3>2 DEF HeapInv, Watch, Unlucky
    <3> QED
      BY <3>1, <3>2 DEF InUse
  <2> QED
    BY <2>2, <2>3
<1> QED
  BY <1>1, HeapInvariant, PTL DEF Spec, TrimsSpare
=============================================================================
