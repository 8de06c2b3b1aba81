---------------------------- MODULE BackupProofs ----------------------------
(***************************************************************************)
(* Theorems about the dump and the restore of the flash, for any number    *)
(* and size of its pages, any contents, and any bytes that are no markers  *)
(* behind the image.                                                       *)
(***************************************************************************)
EXTENDS BackupStream, SequenceTheorems, FiniteSetTheorems, WellFoundedInduction, TLAPS

(* A non-empty set of natural numbers below a bound has a greatest one.    *)
LEMMA GreatestBelow ==
    ASSUME NEW n \in Nat, NEW S \in SUBSET (0 .. n), S # {}
    PROVE  \E x \in S : \A y \in S : y <= x
<1> DEFINE T == {n - x : x \in S}
           Less == {ss \in Nat \X Nat : ss[1] < ss[2]}
<1>1. T \subseteq Nat /\ T # {}
  <2>1. \A x \in S : n - x \in Nat
    OBVIOUS
  <2> QED
    BY <2>1
<1>2. Less = OpToRel(<, Nat)
  BY Zenon DEF OpToRel
<1>3. IsWellFoundedOn(Less, Nat)
  BY <1>2, NatLessThanWellFounded, Zenon
<1>4. PICK t \in T : \A u \in T : <<u, t>> \notin Less
  <2> HIDE DEF Less, T
  <2> QED BY <1>1, <1>3, WFMin
<1>5. \A u \in T : t <= u
  <2> TAKE u \in T
  <2>1. u \in Nat /\ t \in Nat /\ <<u, t>> \notin Less
    BY <1>1, <1>4
  <2>2. u < t => <<u, t>> \in Less
    BY <2>1
  <2> QED
    BY <2>1, <2>2
<1>6. PICK x \in S : t = n - x
  BY <1>4
<1>7. \A y \in S : y <= x
  <2> TAKE y \in S
  <2>1. t <= n - y
    BY <1>5
  <2> QED
    BY <2>1, <1>6
<1> QED
  BY <1>7

-----------------------------------------------------------------------------
(* Where the record of each page begins in the image: off[p] of them, the  *)
(* last element of which is where the next one will begin.                 *)

RecordLen(p) == IF flash[p] = Blank THEN 1 ELSE Count

IsRecord(s, k, p) ==
    /\ s[k + 1] = IF flash[p] = Blank THEN F7 ELSE CE
    /\ flash[p] # Blank => \A i \in 1 .. PageSize : s[k + 1 + i] = flash[p][i]

Layout(off) ==
    /\ off \in [0 .. page -> 0 .. Len(image)]
    /\ off[0] = 0 /\ off[page] = Len(image)
    /\ \A p \in 0 .. page - 1 : off[p + 1] = off[p] + RecordLen(p) /\ IsRecord(image, off[p], p)

(* How far the restore has come: in the page pgs, or behind it; at a time  *)
(* when bytes follow the image, the last page is written, too.             *)
Filled ==
    /\ buffer \in Seq(Bytes) /\ Len(buffer) = PageSize - skip
    /\ \A i \in 1 .. PageSize - skip : buffer[i] = flash[pgs][i]

Progress(off) ==
    /\ pgs = -1 => pos = 0 /\ skip = 0
    /\ pgs >= 0 => empty = (flash[pgs] = Blank)
    /\ pgs >= 0 /\ flash[pgs] # Blank => Filled
    /\ skip > 0 => pgs >= 0 /\ flash[pgs] # Blank /\ pos = off[pgs] + 1 + (PageSize - skip)
    /\ pgs >= 0 /\ skip = 0 =>
         pos = off[pgs + 1] \/ (pgs = NumPages - 1 /\ pos > Len(image))
    /\ target = [p \in Pages |-> IF p < pgs \/ pos > Len(image) THEN flash[p] ELSE Blank]

BackupTypes ==
    /\ flash \in [Pages -> Contents \cup {Blank}]
    /\ page \in 0 .. NumPages
    /\ image \in Seq(Bytes)
    /\ tail \in Seq({"other"})
    /\ pos \in 0 .. Len(image) + Len(tail)
    /\ pgs \in -1 .. NumPages - 1
    /\ skip \in 0 .. PageSize

NotBegun == pos = 0 /\ pgs = -1 /\ skip = 0 /\ target = [p \in Pages |-> Blank]

BackupInv ==
    /\ BackupTypes
    /\ page < NumPages => NotBegun
    /\ \E off : Layout(off) /\ Progress(off)

-----------------------------------------------------------------------------
LEMMA InitBackup == Init => BackupInv
<1> SUFFICES ASSUME Init PROVE BackupInv
  OBVIOUS
<1> USE BackupAssumption
<1>1. BackupTypes
  BY DEF Init, BackupTypes
<1>2. NotBegun
  BY DEF Init, NotBegun
<1> DEFINE off == [p \in 0 .. 0 |-> 0]
<1>3. Layout(off)
  BY DEF Init, Layout
<1>4. Progress(off)
  <2>1. \A p \in Pages : ~(p < pgs \/ pos > Len(image))
    BY DEF Init, Pages
  <2> QED
    BY <2>1 DEF Init, Progress
<1> QED
  BY <1>1, <1>2, <1>3, <1>4 DEF BackupInv

(* A run of blank pages is an interval.                                    *)
LEMMA RunIsInterval ==
    ASSUME BackupTypes, page < NumPages, BlankRun(page) # {}
    PROVE  LET run == Cardinality(BlankRun(page))
           IN  /\ run \in 1 .. NumPages - page
               /\ \A q \in page .. page + run - 1 : flash[q] = Blank
<1> USE BackupAssumption
<1> DEFINE R == BlankRun(page)
<1>1. R \in SUBSET (0 .. NumPages) /\ NumPages \in Nat /\ page \in Nat
  BY DEF BackupTypes, BlankRun, Pages
<1>2. PICK m \in R : \A y \in R : y <= m
  <2>1. R # {}
    OBVIOUS
  <2> HIDE DEF R
  <2> QED
    BY <1>1, <2>1, GreatestBelow
<1>3. m \in Pages /\ m >= page /\ m < page + Count /\ \A r \in page .. m : flash[r] = Blank
  BY <1>2 DEF BlankRun
<1>4. R = page .. m
  <2>1. ASSUME NEW q \in R PROVE q \in page .. m
    BY <2>1, <1>1, <1>2, <1>3 DEF BlankRun, Pages
  <2>2. ASSUME NEW q \in page .. m PROVE q \in R
    <3>1. q \in Pages /\ q >= page /\ q < page + Count
      BY <2>2, <1>1, <1>3 DEF Pages, Count
    <3>2. \A r \in page .. q : flash[r] = Blank
      BY <2>2, <1>1, <1>3 DEF Pages
    <3> QED
      BY <3>1, <3>2 DEF BlankRun
  <2> QED
    BY <2>1, <2>2
<1>5. Cardinality(R) = m - page + 1
  BY <1>1, <1>3, <1>4, FS_Interval DEF Pages
<1> QED
  BY <1>1, <1>3, <1>5 DEF Pages

(* What the dump appends leaves the records before as they are.            *)
LEMMA OldRecords ==
    ASSUME BackupTypes, NEW off, Layout(off), NEW new \in Seq(Bytes),
           NEW p \in 0 .. page - 1
    PROVE  IsRecord(image \o new, off[p], p)
<1> USE BackupAssumption
<1>1. /\ p \in 0 .. page /\ p + 1 \in 0 .. page /\ page \in Nat /\ Len(image) \in Nat
      /\ off[p] \in 0 .. Len(image) /\ off[p + 1] \in 0 .. Len(image)
      /\ off[p + 1] = off[p] + RecordLen(p) /\ IsRecord(image, off[p], p)
  BY LenProperties DEF BackupTypes, Layout
<1>2. \A i \in 1 .. Len(image) : (image \o new)[i] = image[i]
  BY ConcatProperties DEF BackupTypes
<1>3. off[p] + 1 \in 1 .. Len(image)
  BY <1>1 DEF RecordLen, Count
<1>4. flash[p] # Blank => \A i \in 1 .. PageSize : off[p] + 1 + i \in 1 .. Len(image)
  BY <1>1 DEF RecordLen, Count
<1> QED
  BY <1>1, <1>2, <1>3, <1>4 DEF IsRecord

LEMMA ReadBlankStep ==
    ASSUME BackupInv, ReadBlank
    PROVE  BackupInv'
<1> USE BackupAssumption
<1>1. BackupTypes /\ NotBegun /\ page < NumPages /\ page \in Nat /\ NumPages \in Nat
  BY DEF BackupInv, ReadBlank, BackupTypes
<1>2. PICK off : Layout(off) /\ Progress(off)
  BY DEF BackupInv
<1> DEFINE run == Cardinality(BlankRun(page))
           new == [i \in 1 .. run |-> F7]
<1>3. /\ BlankRun(page) # {} /\ image' = image \o new /\ page' = page + run
      /\ flash' = flash /\ tail' = tail
      /\ pos' = pos /\ pgs' = pgs /\ skip' = skip /\ empty' = empty
      /\ buffer' = buffer /\ target' = target
  <2>1. run > 0
    BY DEF ReadBlank
  <2>2. BlankRun(page) # {}
    BY <2>1, FS_EmptySet
  <2> QED
    BY <2>2 DEF ReadBlank, AfterRun, restoreVars
<1>4. run \in 1 .. NumPages - page /\ \A q \in page .. page + run - 1 : flash[q] = Blank
  BY <1>1, <1>3, RunIsInterval
<1> HIDE DEF run
<1>5. /\ new \in Seq(Bytes) /\ Len(new) = run /\ \A i \in 1 .. run : new[i] = F7
  BY <1>1, <1>4, IsASeq DEF Bytes
<1>6. /\ image' \in Seq(Bytes) /\ Len(image) \in Nat /\ Len(image') = Len(image) + run
      /\ \A i \in 1 .. run : image'[Len(image) + i] = F7
  <2> HIDE DEF new
  <2>1. \A i \in Len(image) + 1 .. Len(image) + run : image'[i] = new[i - Len(image)]
    BY <1>1, <1>3, <1>5, ConcatProperties DEF BackupTypes
  <2>2. Len(image) \in Nat
    BY <1>1 DEF BackupTypes
  <2>3. ASSUME NEW i \in 1 .. run PROVE image'[Len(image) + i] = F7
    BY <1>1, <1>4, <1>5, <2>1, <2>2
  <2> QED
    BY <1>1, <1>3, <1>5, <2>2, <2>3, ConcatProperties DEF BackupTypes
<1>12. PICK later : later = [p \in 0 .. page + run |-> IF p <= page THEN off[p] ELSE off[page] + (p - page)]
  OBVIOUS
<1>7. /\ off \in [0 .. page -> 0 .. Len(image)] /\ off[0] = 0 /\ off[page] = Len(image)
      /\ \A p \in 0 .. page - 1 : off[p + 1] = off[p] + RecordLen(p)
  BY <1>2 DEF Layout
<1>8. Layout(later)'
  <2>1. later \in [0 .. page' -> 0 .. Len(image')]
    BY <1>1, <1>3, <1>4, <1>6, <1>7, <1>12
  <2>2. later[0] = 0 /\ later[page'] = Len(image')
    BY <1>1, <1>3, <1>4, <1>6, <1>7, <1>12
  <2>3. ASSUME NEW p \in 0 .. page' - 1, p < page
        PROVE  later[p + 1] = later[p] + RecordLen(p)' /\ IsRecord(image, later[p], p)'
    <3>1. p \in 0 .. page - 1 /\ later[p] = off[p] /\ later[p + 1] = off[p + 1]
      BY <1>1, <1>3, <1>4, <1>12, <2>3
    <3>2. off[p + 1] = off[p] + RecordLen(p) /\ IsRecord(image', off[p], p)
      BY <1>1, <1>2, <1>3, <1>5, <1>7, <3>1, OldRecords
    <3> QED
      BY <1>3, <3>1, <3>2 DEF RecordLen, IsRecord
  <2>4. ASSUME NEW p \in 0 .. page' - 1, p >= page
        PROVE  later[p + 1] = later[p] + RecordLen(p)' /\ IsRecord(image, later[p], p)'
    <3>1. p \in page .. page + run - 1 /\ flash[p] = Blank /\ flash'[p] = Blank
      BY <1>1, <1>3, <1>4, <2>4
    <3>2. later[p + 1] = later[p] + 1 /\ later[p] + 1 = Len(image) + (p - page + 1)
      BY <1>1, <1>4, <1>6, <1>7, <1>12, <3>1
    <3>3. p - page + 1 \in 1 .. run
      BY <1>1, <1>4, <3>1
    <3>4. image'[later[p] + 1] = F7
      BY <1>6, <3>2, <3>3
    <3> QED
      BY <3>1, <3>2, <3>4 DEF RecordLen, IsRecord
  <2>5. \A p \in 0 .. page' - 1 :
          later[p + 1] = later[p] + RecordLen(p)' /\ IsRecord(image, later[p], p)'
    <3> TAKE p \in 0 .. page' - 1
    <3>1. p < page \/ p >= page
      BY <1>1, <1>3, <1>4
    <3> QED
      BY <2>3, <2>4, <3>1
  <2> QED
    BY <2>1, <2>2, <2>5 DEF Layout
<1>9. Progress(later)'
  <2>1. Len(image') \in Nat
    BY <1>4, <1>6
  <2>2. pos' = 0 /\ pgs' = -1 /\ skip' = 0 /\ target' = [p \in Pages |-> Blank]
    BY <1>1, <1>3 DEF NotBegun
  <2>3. \A p \in Pages : ~(p < pgs' \/ pos' > Len(image'))
    BY <2>1, <2>2 DEF Pages
  <2> QED
    BY <2>2, <2>3 DEF Progress
<1>10. BackupTypes'
  BY <1>1, <1>3, <1>4, <1>6 DEF BackupTypes, NotBegun
<1>11. NotBegun'
  BY <1>1, <1>3 DEF NotBegun
<1> QED
  BY <1>8, <1>9, <1>10, <1>11 DEF BackupInv

LEMMA ReadPageStep ==
    ASSUME BackupInv, ReadPage
    PROVE  BackupInv'
<1> USE BackupAssumption
<1>1. BackupTypes /\ NotBegun /\ page < NumPages /\ page \in Nat /\ NumPages \in Nat
  BY DEF BackupInv, ReadPage, BackupTypes
<1>2. PICK off : Layout(off) /\ Progress(off)
  BY DEF BackupInv
<1> DEFINE new == <<CE>> \o flash[page]
<1>3. /\ flash[page] # Blank /\ image' = image \o new /\ page' = page + 1
      /\ flash' = flash /\ tail' = tail
      /\ pos' = pos /\ pgs' = pgs /\ skip' = skip /\ empty' = empty
      /\ buffer' = buffer /\ target' = target
  <2>1. image \o <<CE>> \o flash[page] = image \o new
    <3>1. image \in Seq(Bytes) /\ <<CE>> \in Seq(Bytes) /\ flash[page] \in Contents
      BY <1>1 DEF BackupTypes, Bytes, Pages, ReadPage
    <3>2. flash[page] \in Seq(Bytes)
      BY <3>1, IsASeq DEF Contents
    <3>3. \A a, b, e \in Seq(Bytes) : (a \o b) \o e = a \o (b \o e)
      BY ConcatAssociative
    <3> QED
      BY <3>1, <3>2, <3>3
  <2> QED
    BY <2>1 DEF ReadPage, restoreVars
<1>4. flash[page] \in Seq(Bytes) /\ Len(flash[page]) = PageSize
  <2>1. flash[page] \in Contents
    BY <1>1, <1>3 DEF BackupTypes, Pages
  <2> QED
    BY <2>1, IsASeq DEF Contents
<1>5. /\ new \in Seq(Bytes) /\ Len(new) = Count /\ new[1] = CE
      /\ \A i \in 1 .. PageSize : new[1 + i] = flash[page][i]
  <2>1. <<CE>> \in Seq(Bytes) /\ Len(<<CE>>) = 1 /\ <<CE>>[1] = CE
    BY DEF Bytes
  <2>2. /\ new \in Seq(Bytes) /\ Len(new) = 1 + PageSize
        /\ \A i \in 1 .. 1 : new[i] = <<CE>>[i]
        /\ \A i \in 1 + 1 .. 1 + PageSize : new[i] = flash[page][i - 1]
    BY <1>4, <2>1, ConcatProperties
  <2>3. \A i \in 1 .. PageSize : 1 + i \in 1 + 1 .. 1 + PageSize /\ (1 + i) - 1 = i
    OBVIOUS
  <2> HIDE DEF new
  <2> QED
    BY <2>1, <2>2, <2>3 DEF Count
<1> HIDE DEF new
<1>6. /\ image' \in Seq(Bytes) /\ Len(image) \in Nat /\ Len(image') = Len(image) + Count
      /\ \A i \in 1 .. Count : image'[Len(image) + i] = new[i]
  <2>1. \A i \in Len(image) + 1 .. Len(image) + Count : image'[i] = new[i - Len(image)]
    BY <1>1, <1>3, <1>5, ConcatProperties DEF BackupTypes
  <2>2. Len(image) \in Nat /\ Count \in Nat
    BY <1>1 DEF BackupTypes, Count
  <2>3. ASSUME NEW i \in 1 .. Count PROVE image'[Len(image) + i] = new[i]
    BY <2>1, <2>2
  <2> QED
    BY <1>1, <1>3, <1>5, <2>2, <2>3, ConcatProperties DEF BackupTypes
<1>12. PICK later : later = [p \in 0 .. page + 1 |-> IF p <= page THEN off[p] ELSE off[page] + Count]
  OBVIOUS
<1>7. /\ off \in [0 .. page -> 0 .. Len(image)] /\ off[0] = 0 /\ off[page] = Len(image)
      /\ \A p \in 0 .. page - 1 : off[p + 1] = off[p] + RecordLen(p)
  BY <1>2 DEF Layout
<1>8. Layout(later)'
  <2>0. Count \in Nat
    BY DEF Count
  <2>1. later \in [0 .. page' -> 0 .. Len(image')]
    BY <1>1, <1>3, <1>6, <1>7, <1>12, <2>0
  <2>2. later[0] = 0 /\ later[page'] = Len(image')
    BY <1>1, <1>3, <1>6, <1>7, <1>12, <2>0
  <2>3. ASSUME NEW p \in 0 .. page' - 1, p < page
        PROVE  later[p + 1] = later[p] + RecordLen(p)' /\ IsRecord(image, later[p], p)'
    <3>1. p \in 0 .. page - 1 /\ later[p] = off[p] /\ later[p + 1] = off[p + 1]
      BY <1>1, <1>3, <1>12, <2>3
    <3>2. off[p + 1] = off[p] + RecordLen(p) /\ IsRecord(image', off[p], p)
      BY <1>1, <1>2, <1>3, <1>5, <1>7, <3>1, OldRecords
    <3> QED
      BY <1>3, <3>1, <3>2 DEF RecordLen, IsRecord
  <2>4. ASSUME NEW p \in 0 .. page' - 1, p = page
        PROVE  later[p + 1] = later[p] + RecordLen(p)' /\ IsRecord(image, later[p], p)'
    <3>1. later[page] = Len(image) /\ later[page + 1] = Len(image) + Count
      BY <1>1, <1>7, <1>12
    <3>4. flash'[p] = flash[page] /\ flash'[p] # Blank
      BY <1>3, <2>4
    <3>2. image'[Len(image) + 1] = CE
      BY <1>5, <1>6 DEF Count
    <3>3. ASSUME NEW i \in 1 .. PageSize PROVE image'[Len(image) + 1 + i] = flash[page][i]
      <4>1. 1 + i \in 1 .. Count /\ Len(image) + 1 + i = Len(image) + (1 + i)
        BY <1>6 DEF Count
      <4> QED
        BY <1>5, <1>6, <4>1
    <3> QED
      BY <2>4, <3>1, <3>2, <3>3, <3>4 DEF RecordLen, IsRecord
  <2>5. \A p \in 0 .. page' - 1 :
          later[p + 1] = later[p] + RecordLen(p)' /\ IsRecord(image, later[p], p)'
    <3> QED
      BY <1>1, <1>3, <2>3, <2>4
  <2> QED
    BY <2>1, <2>2, <2>5 DEF Layout
<1>9. Progress(later)'
  <2>1. Len(image') \in Nat
    BY <1>6 DEF Count
  <2>2. pos' = 0 /\ pgs' = -1 /\ skip' = 0 /\ target' = [p \in Pages |-> Blank]
    BY <1>1, <1>3 DEF NotBegun
  <2>3. \A p \in Pages : ~(p < pgs' \/ pos' > Len(image'))
    BY <2>1, <2>2 DEF Pages
  <2> QED
    BY <2>2, <2>3 DEF Progress
<1>10. BackupTypes'
  BY <1>1, <1>3, <1>6 DEF BackupTypes, NotBegun, Count
<1>11. NotBegun'
  BY <1>1, <1>3 DEF NotBegun
<1> QED
  BY <1>8, <1>9, <1>10, <1>11 DEF BackupInv

-----------------------------------------------------------------------------
(* The restore.  The dump is over, so that every page has its record.      *)

LEMMA WholePage ==
    ASSUME BackupTypes, Filled, skip = 0, pgs >= 0, flash[pgs] # Blank
    PROVE  buffer = flash[pgs]
<1> USE BackupAssumption
<1>1. flash[pgs] \in [1 .. PageSize -> Bytes]
  BY DEF BackupTypes, Pages, Contents
<1>2. buffer \in [1 .. PageSize -> Bytes]
  BY DEF Filled
<1> QED
  BY <1>1, <1>2 DEF Filled

LEMMA Places ==
    ASSUME BackupTypes, NEW off, Layout(off), page = NumPages
    PROVE  /\ NumPages \in Nat \ {0} /\ PageSize \in Nat \ {0} /\ Len(image) \in Nat \ {0}
           /\ off[0] = 0 /\ off[NumPages] = Len(image)
           /\ \A p \in Pages : /\ off[p] \in 0 .. Len(image) /\ off[p] < Len(image)
                               /\ off[p + 1] = off[p] + RecordLen(p) /\ off[p + 1] <= Len(image)
                               /\ RecordLen(p) \in Nat \ {0} /\ IsRecord(image, off[p], p)
<1> USE BackupAssumption
<1>1. /\ off \in [0 .. NumPages -> 0 .. Len(image)] /\ Len(image) \in Nat
      /\ off[0] = 0 /\ off[NumPages] = Len(image)
      /\ \A p \in Pages : off[p + 1] = off[p] + RecordLen(p) /\ IsRecord(image, off[p], p)
  BY DEF Layout, BackupTypes, Pages
<1>2. ASSUME NEW p \in Pages
      PROVE  /\ off[p] \in 0 .. Len(image) /\ off[p] < Len(image) /\ off[p + 1] <= Len(image)
             /\ RecordLen(p) \in Nat \ {0}
  <2>1. p \in 0 .. NumPages /\ p + 1 \in 0 .. NumPages
    BY DEF Pages
  <2>2. RecordLen(p) \in Nat \ {0}
    BY DEF RecordLen, Count
  <2>3. off[p] \in 0 .. Len(image) /\ off[p + 1] \in 0 .. Len(image)
    BY <1>1, <2>1
  <2> QED
    BY <1>1, <2>2, <2>3
<1>3. Len(image) # 0
  <2>1. 0 \in Pages
    BY DEF Pages
  <2> QED
    BY <1>1, <1>2, <2>1
<1> QED
  BY <1>1, <1>2, <1>3

(* A byte of a page is the next one of its contents.                       *)
LEMMA ByteStep ==
    ASSUME BackupInv, Stream, TakeByte((image \o tail)[pos + 1])
    PROVE  BackupInv'
<1> USE BackupAssumption
<1>1. BackupTypes /\ page = NumPages
  BY DEF BackupInv, Stream, Dumped
<1>2. PICK off : Layout(off) /\ Progress(off)
  BY DEF BackupInv
<1> DEFINE n == PageSize - skip
<1>3. /\ pgs \in Pages /\ flash[pgs] # Blank /\ pos = off[pgs] + 1 + n
      /\ skip \in 1 .. PageSize /\ n \in 0 .. PageSize - 1 /\ Filled /\ empty = FALSE
  <2>1. skip \in 1 .. PageSize /\ n \in 0 .. PageSize - 1
    BY <1>1 DEF BackupTypes, TakeByte
  <2>2. skip > 0
    BY DEF TakeByte
  <2>3. pgs >= 0 /\ flash[pgs] # Blank /\ pos = off[pgs] + 1 + (PageSize - skip)
    BY <1>2, <2>2 DEF Progress
  <2>4. pgs \in Pages
    BY <1>1, <2>3 DEF BackupTypes, Pages
  <2>5. Filled
    BY <1>2, <2>3 DEF Progress
  <2>6. empty = FALSE
    BY <1>2, <2>3, Zenon DEF Progress
  <2> QED
    BY <2>1, <2>3, <2>4, <2>5, <2>6
<1>4. /\ off[pgs] \in 0 .. Len(image) /\ off[pgs + 1] = off[pgs] + 1 + PageSize
      /\ off[pgs + 1] <= Len(image) /\ IsRecord(image, off[pgs], pgs) /\ Len(image) \in Nat
  BY <1>1, <1>2, <1>3, Places DEF RecordLen, Count
<1>5. pos \in Nat /\ pos < Len(image) /\ pos + 1 = off[pgs] + 1 + (n + 1) /\ n + 1 \in 1 .. PageSize
  <2> DEFINE o == off[pgs]
  <2>1. o \in Nat /\ n \in 0 .. PageSize - 1 /\ pos = o + 1 + n
    BY <1>3, <1>4
  <2>2. o + 1 + PageSize <= Len(image) /\ Len(image) \in Nat
    BY <1>4
  <2> HIDE DEF o, n
  <2>3. pos \in Nat /\ pos < Len(image) /\ pos + 1 = o + 1 + (n + 1) /\ n + 1 \in 1 .. PageSize
    BY <2>1, <2>2
  <2> QED
    BY <2>3 DEF o
<1>6. (image \o tail)[pos + 1] = flash[pgs][n + 1]
  <2>1. pos + 1 \in 1 .. Len(image)
    BY <1>4, <1>5
  <2>2. tail \in Seq(Bytes)
    BY <1>1, SeqMonotonic, {"other"} \subseteq Bytes DEF BackupTypes, Bytes
  <2>3. (image \o tail)[pos + 1] = image[pos + 1]
    BY <1>1, <2>1, <2>2, ConcatProperties DEF BackupTypes
  <2>4. image[off[pgs] + 1 + (n + 1)] = flash[pgs][n + 1]
    BY <1>3, <1>4, <1>5 DEF IsRecord
  <2> QED
    BY <1>5, <2>3, <2>4
<1>7. flash[pgs][n + 1] \in Bytes
  <2>1. flash[pgs] \in Contents
    BY <1>1, <1>3 DEF BackupTypes
  <2> QED
    BY <1>5, <2>1 DEF Contents
<1>8. /\ buffer' = Append(buffer, flash[pgs][n + 1]) /\ skip' = skip - 1 /\ pos' = pos + 1
      /\ UNCHANGED <<pgs, empty, target, flash, page, image, tail>>
  BY <1>6 DEF TakeByte, Stream, dumpVars
<1>9. Filled'
  <2>1. PageSize - skip' = n + 1
    BY <1>3, <1>8
  <2>2. buffer \in Seq(Bytes) /\ Len(buffer) = n /\ \A i \in 1 .. n : buffer[i] = flash[pgs][i]
    BY <1>3 DEF Filled
  <2>3. /\ buffer' \in Seq(Bytes) /\ Len(buffer') = n + 1
        /\ \A i \in 1 .. n : buffer'[i] = buffer[i]
        /\ buffer'[n + 1] = flash[pgs][n + 1]
    BY <1>7, <1>8, <2>2, AppendProperties
  <2>4. ASSUME NEW i \in 1 .. n + 1 PROVE buffer'[i] = flash'[pgs'][i]
    <3>1. n \in Nat /\ flash' = flash /\ pgs' = pgs
      BY <1>3, <1>8
    <3> HIDE DEF n
    <3>2. CASE i \in 1 .. n
      BY <2>2, <2>3, <3>1, <3>2
    <3>3. CASE i = n + 1
      BY <2>3, <3>1, <3>3
    <3> QED
      BY <3>1, <3>2, <3>3
  <2> QED
    BY <2>1, <2>3, <2>4 DEF Filled
<1>10. Progress(off)'
  <2>1. skip' \in 0 .. PageSize - 1 /\ PageSize - skip' = n + 1 /\ pos' <= Len(image)
    BY <1>3, <1>5, <1>8, <1>4
  <2>2. skip' > 0 => pos' = off[pgs] + 1 + (PageSize - skip')
    <3>1. pos' = off[pgs] + 1 + (n + 1)
      BY <1>5, <1>8
    <3> QED
      BY <2>1, <3>1
  <2>3. skip' = 0 => pos' = off[pgs + 1]
    BY <1>3, <1>4, <1>8
  <2>4. ~(pos > Len(image)) /\ ~(pos' > Len(image')) /\ pgs' = pgs
    BY <1>4, <1>5, <1>8, <2>1
  <2>5. target' = [p \in Pages |-> IF p < pgs' \/ pos' > Len(image') THEN flash'[p] ELSE Blank]
    BY <1>2, <1>8, <2>4 DEF Progress
  <2>6. pgs >= 0 /\ pgs # -1 /\ empty' = FALSE
    BY <1>3, <1>8 DEF Pages
  <2> QED
    BY <1>3, <1>8, <1>9, <2>2, <2>3, <2>5, <2>6 DEF Progress
<1>11. BackupTypes'
  <2>1. pos' \in 0 .. Len(image) + Len(tail)
    BY <1>1, <1>4, <1>5, <1>8 DEF BackupTypes
  <2> QED
    BY <1>1, <1>3, <1>8, <2>1 DEF BackupTypes
<1>12. Layout(off)' /\ ~(page' < NumPages)
  BY <1>1, <1>2, <1>8 DEF Layout, RecordLen, IsRecord
<1> QED
  BY <1>10, <1>11, <1>12 DEF BackupInv

(* A byte that is not of a page writes the page before, and begins the     *)
(* record of the next one, if the image is not over.                       *)
LEMMA MarkerStep ==
    ASSUME BackupInv, Stream, TakeMarker((image \o tail)[pos + 1])
    PROVE  BackupInv'
<1> USE BackupAssumption
<1>1. BackupTypes /\ page = NumPages /\ skip = 0
  BY DEF BackupInv, Stream, Dumped, TakeMarker
<1>2. PICK off : Layout(off) /\ Progress(off)
  BY DEF BackupInv
<1> DEFINE b == (image \o tail)[pos + 1]
<1>3. /\ pos' = pos + 1 /\ UNCHANGED <<flash, page, image, tail>>
      /\ pos < Len(image \o tail)
      /\ target' = IF Writes THEN [target EXCEPT ![pgs] = Programmed(@, buffer)] ELSE target
  BY DEF Stream, dumpVars, TakeMarker
<1>4. tail \in Seq(Bytes) /\ Len(tail) \in Nat /\ Len(image) \in Nat \ {0}
      /\ Len(image \o tail) = Len(image) + Len(tail)
      /\ pos \in Nat /\ pos < Len(image) + Len(tail)
  <2>1. tail \in Seq(Bytes)
    BY <1>1, SeqMonotonic, {"other"} \subseteq Bytes DEF BackupTypes, Bytes
  <2> QED
    BY <1>1, <1>2, <1>3, <2>1, Places, ConcatProperties, LenProperties DEF BackupTypes
<1>5. target = [p \in Pages |-> IF p < pgs \/ pos > Len(image) THEN flash[p] ELSE Blank]
  BY <1>2 DEF Progress
<1>6. ASSUME pgs >= 0
      PROVE  /\ pgs \in Pages /\ (Writes <=> flash[pgs] # Blank)
             /\ flash[pgs] # Blank => buffer = flash[pgs]
  <2>1. pgs \in Pages
    BY <1>1, <1>6 DEF BackupTypes, Pages
  <2>2. empty = (flash[pgs] = Blank)
    BY <1>2, <1>6, Zenon DEF Progress
  <2>3. Writes <=> flash[pgs] # Blank
    BY <1>6, <2>2 DEF Writes
  <2>4. flash[pgs] # Blank => buffer = flash[pgs]
    <3>1. flash[pgs] # Blank => Filled
      BY <1>2, <1>6 DEF Progress
    <3> QED
      BY <1>1, <1>6, <3>1, WholePage
  <2> QED
    BY <2>1, <2>3, <2>4
<1>7. ASSUME pgs >= 0
      PROVE  target' = [p \in Pages |-> IF p < pgs + 1 \/ pos > Len(image) THEN flash[p] ELSE Blank]
  <2>1. pgs \in Pages /\ pgs \in Nat
    BY <1>6, <1>7 DEF Pages
  <2>2. \A p \in Pages : p < pgs + 1 <=> p < pgs \/ p = pgs
    BY <2>1 DEF Pages
  <2>3. target[pgs] \in {Blank, flash[pgs]}
    BY <1>5, <2>1
  <2>4. CASE flash[pgs] = Blank
    <3>1. target' = target
      BY <1>3, <1>6, <1>7, <2>4
    <3>2. \A p \in Pages : target[p] = IF p < pgs + 1 \/ pos > Len(image) THEN flash[p] ELSE Blank
      BY <1>5, <2>2, <2>4
    <3> QED
      BY <1>5, <3>1, <3>2
  <2>5. CASE flash[pgs] # Blank
    <3>1. target' = [target EXCEPT ![pgs] = flash[pgs]]
      BY <1>3, <1>6, <1>7, <2>3, <2>5 DEF Programmed
    <3>2. \A p \in Pages : target'[p] = IF p < pgs + 1 \/ pos > Len(image) THEN flash[p] ELSE Blank
      BY <1>5, <2>1, <2>2, <3>1
    <3> QED
      BY <1>5, <3>1, <3>2
  <2> QED
    BY <2>4, <2>5
<1>8. Layout(off)' /\ ~(page' < NumPages)
  BY <1>1, <1>2, <1>3 DEF Layout, RecordLen, IsRecord
<1>9. pos' \in 0 .. Len(image') + Len(tail')
  BY <1>3, <1>4
<1>10. CASE pos < Len(image)
  <2> DEFINE q == pgs + 1
  <2>1. pos = off[q] /\ q \in Pages /\ ~(pos > Len(image)) /\ pgs \in Int
    <3>1. pgs = -1 \/ pgs >= 0
      BY <1>1 DEF BackupTypes
    <3>2. pos = off[q]
      BY <1>1, <1>2, <1>4, <1>10, <3>1, Places DEF Progress
    <3>3. q \in 0 .. NumPages /\ q # NumPages
      BY <1>1, <1>2, <1>10, <3>2, Places DEF BackupTypes
    <3> QED
      BY <1>1, <1>4, <1>10, <3>2, <3>3 DEF Pages, BackupTypes
  <2>2. target' = [p \in Pages |-> IF p < q \/ pos' > Len(image') THEN flash'[p] ELSE Blank]
    <3>1. ~(pos' > Len(image'))
      BY <1>3, <1>4, <1>10
    <3>2. CASE pgs >= 0
      BY <1>3, <1>7, <2>1, <3>1, <3>2
    <3>3. CASE ~(pgs >= 0)
      <4>1. target' = target
        BY <1>3, <3>3 DEF Writes
      <4>2. \A p \in Pages : ~(p < pgs) /\ ~(p < q)
        BY <2>1, <3>3 DEF Pages
      <4> QED
        BY <1>5, <2>1, <3>1, <4>1, <4>2
    <3> QED
      BY <3>2, <3>3
  <2>3. b = IF flash[q] = Blank THEN F7 ELSE CE
    <3>1. b = image[pos + 1]
      BY <1>1, <1>4, <1>10, ConcatProperties DEF BackupTypes
    <3>2. IsRecord(image, off[q], q)
      BY <1>1, <1>2, <2>1, Places
    <3> QED
      BY <2>1, <3>1, <3>2 DEF IsRecord
  <2>4. off[q + 1] = off[q] + RecordLen(q) /\ off[q] \in Nat
    BY <1>1, <1>2, <2>1, Places
  <2>5. q \in -1 .. NumPages - 1 /\ q >= 0 /\ q # -1
    BY <2>1 DEF Pages
  <2>6. CASE flash[q] = Blank
    <3>1. skip' = 0 /\ pgs' = q /\ empty' = TRUE
      BY <2>3, <2>6 DEF TakeMarker, CE, F7
    <3>2. pos' = off[q + 1]
      BY <1>3, <2>1, <2>4, <2>6 DEF RecordLen
    <3>5. flash'[pgs'] = Blank /\ skip' = 0 /\ pgs' >= 0 /\ pgs' # -1 /\ ~(skip' > 0)
      BY <1>3, <2>5, <2>6, <3>1
    <3>3. Progress(off)'
      BY <2>2, <3>1, <3>2, <3>5 DEF Progress
    <3>4. BackupTypes'
      BY <1>1, <1>3, <1>9, <2>5, <3>1 DEF BackupTypes
    <3> QED
      BY <1>8, <3>3, <3>4 DEF BackupInv
  <2>7. CASE flash[q] # Blank
    <3>1. skip' = PageSize /\ pgs' = q /\ empty' = FALSE /\ buffer' = <<>>
      BY <2>3, <2>7 DEF TakeMarker, CE, F7, Skip
    <3>2. pos' = off[q] + 1 + (PageSize - skip')
      BY <1>3, <2>1, <2>4, <3>1
    <3>3. Filled'
      BY <3>1 DEF Filled
    <3>4. Progress(off)'
      BY <1>3, <2>2, <2>5, <2>7, <3>1, <3>2, <3>3 DEF Progress
    <3>5. BackupTypes'
      BY <1>1, <1>3, <1>9, <2>5, <3>1 DEF BackupTypes
    <3> QED
      BY <1>8, <3>4, <3>5 DEF BackupInv
  <2> QED
    BY <2>6, <2>7
<1>11. CASE pos >= Len(image)
  <2>1. pgs = NumPages - 1 /\ pgs >= 0
    <3>1. pgs \in -1 .. NumPages - 1 /\ pgs # -1
      BY <1>1, <1>2, <1>4, <1>11 DEF Progress, BackupTypes
    <3>2. ASSUME pgs < NumPages - 1 PROVE FALSE
      <4>1. pgs + 1 \in Pages /\ pgs >= 0
        BY <3>1, <3>2 DEF Pages
      <4>2. off[pgs + 1] < Len(image) /\ off[pgs + 1] \in Nat
        BY <1>1, <1>2, <4>1, Places
      <4>3. pos = off[pgs + 1]
        BY <1>1, <1>2, <3>2, <4>1 DEF Progress
      <4> QED
        BY <1>4, <1>11, <4>2, <4>3
    <3> QED
      BY <3>1, <3>2
  <2>2. b = "other"
    <3>1. /\ b = tail[pos + 1 - Len(image)] /\ pos + 1 - Len(image) \in 1 .. Len(tail)
      BY <1>1, <1>4, <1>11, ConcatProperties DEF BackupTypes
    <3> QED
      BY <1>1, <3>1, ElementOfSeq DEF BackupTypes
  <2>3. UNCHANGED <<buffer, skip, pgs, empty>>
    BY <2>2 DEF TakeMarker, CE, F7
  <2>4. pos' > Len(image') /\ \A p \in Pages : p < pgs + 1
    BY <1>3, <1>4, <1>11, <2>1 DEF Pages
  <2>5. target' = [p \in Pages |-> IF p < pgs' \/ pos' > Len(image') THEN flash'[p] ELSE Blank]
    BY <1>3, <1>7, <2>1, <2>4
  <2>6. Filled => Filled'
    BY <1>3, <2>3 DEF Filled
  <2>7. Progress(off)'
    BY <1>1, <1>2, <1>3, <2>1, <2>3, <2>4, <2>5, <2>6 DEF Progress
  <2>8. BackupTypes'
    BY <1>1, <1>3, <1>9, <2>3 DEF BackupTypes
  <2> QED
    BY <1>8, <2>7, <2>8 DEF BackupInv
<1> QED
  BY <1>4, <1>10, <1>11

THEOREM BackupInvariant == Spec => []BackupInv
<1>1. BackupInv /\ [Next]_vars => BackupInv'
  <2> SUFFICES ASSUME BackupInv, [Next]_vars PROVE BackupInv'
    OBVIOUS
  <2>1. CASE Stream
    BY <2>1, ByteStep, MarkerStep DEF Stream
  <2>2. CASE UNCHANGED vars
    BY <2>2 DEF vars, BackupInv, BackupTypes, NotBegun, Layout, Progress, Filled, RecordLen, IsRecord
  <2> QED
    BY <2>1, <2>2, ReadBlankStep, ReadPageStep DEF Next
<1> QED
  BY <1>1, InitBackup, PTL DEF Spec

(* Whatever a page holds, at any time of the restore it is blank or right  *)
(* on the target, and a complete upload to an erased flash restores all    *)
(* but the last page, and that one too if bytes follow the image           *)
(* (boot0/main.c:658-693).                                                 *)
THEOREM RestoreIsTrue == Spec => []RestoresAllButLast
<1>1. BackupInv => RestoresAllButLast
  <2> USE BackupAssumption
  <2> SUFFICES ASSUME BackupInv PROVE RestoresAllButLast
    OBVIOUS
  <2>1. PICK off : Layout(off) /\ Progress(off)
    BY DEF BackupInv
  <2>2. target = [p \in Pages |-> IF p < pgs \/ pos > Len(image) THEN flash[p] ELSE Blank]
    BY <2>1 DEF Progress
  <2>3. OnlyTruePages
    BY <2>2 DEF OnlyTruePages
  <2>4. ASSUME Restored, NEW p \in Pages, p < NumPages - 1 \/ tail # <<>>
        PROVE  target[p] = flash[p]
    <3>1. BackupTypes /\ page = NumPages /\ pos = Len(image \o tail)
      BY <2>4 DEF BackupInv, Restored, Dumped
    <3>2. pos = Len(image) + Len(tail) /\ Len(image) \in Nat \ {0} /\ Len(tail) \in Nat
      <4>1. tail \in Seq(Bytes)
        BY <3>1, SeqMonotonic, {"other"} \subseteq Bytes DEF BackupTypes, Bytes
      <4> QED
        BY <2>1, <3>1, <4>1, Places, ConcatProperties, LenProperties DEF BackupTypes
    <3>3. CASE tail # <<>>
      <4>1. Len(tail) # 0
        BY <3>1, <3>3, EmptySeq DEF BackupTypes
      <4> QED
        BY <2>2, <3>2, <4>1
    <3>4. CASE tail = <<>>
      <4>1. pos = Len(image) /\ p < NumPages - 1
        BY <2>4, <3>2, <3>4
      <4>2. pgs # -1 /\ pgs \in Pages
        BY <2>1, <3>1, <3>2, <4>1 DEF Progress, BackupTypes, Pages
      <4>3. ASSUME pgs < NumPages - 1 PROVE FALSE
        <5>1. pgs + 1 \in Pages /\ pgs >= 0
          BY <4>2, <4>3 DEF Pages
        <5>2. off[pgs + 1] < Len(image) /\ off[pgs + 1] \in Nat
          BY <2>1, <3>1, <5>1, Places
        <5>3. skip = 0 => pos = off[pgs + 1]
          BY <2>1, <4>1, <4>3, <5>1 DEF Progress, Pages
        <5>4. skip > 0 => pos < off[pgs + 1]
          <6> SUFFICES ASSUME skip > 0 PROVE pos < off[pgs + 1]
            OBVIOUS
          <6>1. flash[pgs] # Blank /\ pos = off[pgs] + 1 + (PageSize - skip)
            BY <2>1 DEF Progress
          <6>2. off[pgs + 1] = off[pgs] + 1 + PageSize /\ off[pgs] \in Nat
            <7>1. off[pgs + 1] = off[pgs] + RecordLen(pgs) /\ off[pgs] \in Nat
              BY <2>1, <3>1, <4>2, Places
            <7> QED
              BY <6>1, <7>1 DEF RecordLen, Count
          <6> QED
            BY <3>1, <6>1, <6>2 DEF BackupTypes
        <5> QED
          BY <3>1, <4>1, <5>2, <5>3, <5>4 DEF BackupTypes
      <4> QED
        BY <2>2, <4>1, <4>2, <4>3 DEF Pages
    <3> QED
      BY <3>3, <3>4
  <2> QED
    BY <2>3, <2>4 DEF RestoresAllButLast
<1> QED
  BY <1>1, BackupInvariant, PTL

(* An interrupted restore leaves no page with the bytes of another         *)
(* (boot0/main.c:670-688).                                                 *)
THEOREM NoWrongPage == Spec => []OnlyTruePages
<1>1. RestoresAllButLast => OnlyTruePages
  BY DEF RestoresAllButLast
<1> QED
  BY <1>1, RestoreIsTrue, PTL
-----------------------------------------------------------------------------
(* The concatenation of a sequence of sequences, one element at a time.    *)

(* Induction, for a set in place of a predicate.                           *)
LEMMA SetInduction ==
    ASSUME NEW T \in SUBSET Nat, 0 \in T, \A n \in T : n + 1 \in T
    PROVE  T = Nat
<1> DEFINE Less == {ss \in Nat \X Nat : ss[1] < ss[2]}
           Rest == Nat \ T
<1> SUFFICES ASSUME Rest # {} PROVE FALSE
  OBVIOUS
<1>1. Less = OpToRel(<, Nat)
  BY Zenon DEF OpToRel
<1>2. IsWellFoundedOn(Less, Nat)
  BY <1>1, NatLessThanWellFounded, Zenon
<1>3. PICK m \in Rest : \A u \in Rest : <<u, m>> \notin Less
  <2>1. Rest \subseteq Nat
    OBVIOUS
  <2> HIDE DEF Less, Rest
  <2> QED
    BY <1>2, <2>1, WFMin
<1>4. m \in Nat /\ m # 0 /\ m - 1 \in Nat
  BY <1>3
<1>5. <<m - 1, m>> \in Less
  BY <1>4
<1>6. m - 1 \in T
  BY <1>3, <1>4, <1>5
<1>7. (m - 1) + 1 \in T
  BY <1>6
<1> QED
  BY <1>3, <1>4, <1>7

Join(a, b) == a \o b

(* What the recursive function in FlattenSeq satisfies.                    *)
Unrolls(f, s, n) == f = [i \in 1 .. n |-> IF i = 1 THEN s[i] ELSE Join(f[i - 1], s[i])]

LEMMA FoldExists ==
    ASSUME NEW s, NEW n \in Nat
    PROVE  \E f : Unrolls(f, s, n)
<1> DEFINE T == {k \in Nat : \E f : Unrolls(f, s, k)}
<1>1. 0 \in T
  <2>1. PICK f : f = [i \in 1 .. 0 |-> 0]
    OBVIOUS
  <2>2. Unrolls(f, s, 0)
    BY <2>1 DEF Unrolls
  <2> QED
    BY <2>2
<1>2. ASSUME NEW k \in T PROVE k + 1 \in T
  <2>1. PICK f : Unrolls(f, s, k)
    OBVIOUS
  <2>2. PICK g : g = [i \in 1 .. k + 1 |-> IF i <= k THEN f[i] ELSE IF i = 1 THEN s[i] ELSE Join(f[k], s[i])]
    OBVIOUS
  <2>3. ASSUME NEW i \in 1 .. k + 1
        PROVE  g[i] = IF i = 1 THEN s[i] ELSE Join(g[i - 1], s[i])
    <3>1. CASE i = 1
      <4>1. i <= k => f[i] = s[i]
        BY <2>1, <3>1 DEF Unrolls
      <4> QED
        BY <2>2, <3>1, <4>1
    <3>2. CASE i # 1 /\ i <= k
      <4>1. i \in 1 .. k /\ i - 1 \in 1 .. k
        BY <3>2
      <4>2. f[i] = Join(f[i - 1], s[i])
        BY <2>1, <3>2, <4>1 DEF Unrolls
      <4> QED
        BY <2>2, <3>2, <4>1, <4>2
    <3>3. CASE i # 1 /\ i = k + 1
      <4>1. k \in 1 .. k + 1 /\ ~(k + 1 <= k) /\ i - 1 = k
        BY <3>3
      <4> QED
        BY <2>2, <3>3, <4>1
    <3> QED
      BY <3>1, <3>2, <3>3
  <2>4. g = [i \in 1 .. k + 1 |-> IF i = 1 THEN s[i] ELSE Join(g[i - 1], s[i])]
    BY <2>2, <2>3
  <2>5. Unrolls(g, s, k + 1)
    BY <2>4 DEF Unrolls
  <2> QED
    BY <2>5
<1>3. T = Nat
  <2> HIDE DEF T
  <2>1. T \in SUBSET Nat
    BY DEF T
  <2> QED
    BY <1>1, <1>2, <2>1, SetInduction
<1> QED
  BY <1>3

(* It depends on the elements up to its argument only.                     *)
LEMMA FoldUnique ==
    ASSUME NEW s, NEW t, NEW f, NEW g, NEW m \in Nat, NEW n \in Nat, m <= n,
           Unrolls(f, s, m), Unrolls(g, t, n), \A i \in 1 .. m : s[i] = t[i]
    PROVE  \A i \in 1 .. m : f[i] = g[i]
<1> DEFINE T == {k \in Nat : k \in 1 .. m => f[k] = g[k]}
<1>1. 0 \in T
  OBVIOUS
<1>2. ASSUME NEW k \in T PROVE k + 1 \in T
  <2>1. CASE k = 0
    BY <2>1 DEF Unrolls
  <2>2. CASE k # 0 /\ k + 1 \in 1 .. m
    <3>1. /\ k \in 1 .. m /\ k + 1 \in 1 .. n /\ k + 1 # 1 /\ (k + 1) - 1 = k
          /\ f[k] = g[k]
      BY <2>2
    <3>2. f[k + 1] = Join(f[k], s[k + 1])
      BY <2>2, <3>1 DEF Unrolls
    <3>3. g[k + 1] = Join(g[k], t[k + 1])
      BY <3>1 DEF Unrolls
    <3> QED
      BY <2>2, <3>1, <3>2, <3>3
  <2>3. CASE k + 1 \notin 1 .. m
    BY <2>3
  <2> QED
    BY <2>1, <2>2, <2>3
<1>3. T = Nat
  <2> HIDE DEF T
  <2>1. T \in SUBSET Nat
    BY DEF T
  <2> QED
    BY <1>1, <1>2, <2>1, SetInduction
<1> QED
  BY <1>3

LEMMA FlattenIs ==
    ASSUME NEW s, NEW n \in Nat \ {0}, Len(s) = n
    PROVE  \E f : Unrolls(f, s, n) /\ FlattenSeq(s) = f[n]
<1>1. PICK f : f = CHOOSE g : g = [i \in 1 .. n |-> IF i = 1 THEN s[i] ELSE g[i - 1] \o s[i]]
  OBVIOUS
<1>2. \E g : g = [i \in 1 .. n |-> IF i = 1 THEN s[i] ELSE g[i - 1] \o s[i]]
  <2>1. PICK g : Unrolls(g, s, n)
    BY FoldExists
  <2> QED
    BY <2>1 DEF Unrolls, Join
<1>3. Unrolls(f, s, n)
  BY <1>1, <1>2, Zenon DEF Unrolls, Join
<1>4. FlattenSeq(s) = f[n]
  BY <1>1 DEF FlattenSeq
<1> QED
  BY <1>3, <1>4

(* The concatenation of one sequence more.                                 *)
LEMMA FlattenOneMore ==
    ASSUME NEW S, NEW n \in Nat, NEW s \in Seq(Seq(S)), NEW t \in Seq(Seq(S)),
           Len(s) = n, Len(t) = n + 1, \A i \in 1 .. n : s[i] = t[i]
    PROVE  FlattenSeq(t) = FlattenSeq(s) \o t[n + 1]
<1>1. PICK g : Unrolls(g, t, n + 1) /\ FlattenSeq(t) = g[n + 1]
  BY FlattenIs, n + 1 \in Nat \ {0}
<1>2. CASE n = 0
  <2>1. FlattenSeq(s) = <<>>
    BY <1>2, EmptySeq DEF FlattenSeq
  <2>2. g[n + 1] = t[n + 1] /\ t[n + 1] \in Seq(S)
    BY <1>1, <1>2 DEF Unrolls
  <2> QED
    BY <1>1, <2>1, <2>2
<1>3. CASE n # 0
  <2>1. PICK f : Unrolls(f, s, n) /\ FlattenSeq(s) = f[n]
    BY <1>3, FlattenIs
  <2>2. f[n] = g[n]
    <3>1. n + 1 \in Nat /\ n <= n + 1 /\ n \in 1 .. n
      BY <1>3
    <3> QED
      BY <1>1, <2>1, <3>1, FoldUnique
  <2>3. g[n + 1] = Join(g[n], t[n + 1])
    BY <1>1, <1>3 DEF Unrolls
  <2> QED
    BY <1>1, <2>1, <2>2, <2>3 DEF Join
<1> QED
  BY <1>2, <1>3

-----------------------------------------------------------------------------
(* The image, record by record.                                            *)

Records(n) == [i \in 1 .. n |-> Record(i - 1)]
Dump(n) == FlattenSeq(Records(n))

LEMMA RecordType ==
    ASSUME BackupTypes, NEW p \in Pages
    PROVE  Record(p) \in Seq(Bytes)
<1> USE BackupAssumption
<1>1. CASE flash[p] = Blank
  BY <1>1 DEF Record, Bytes
<1>2. CASE flash[p] # Blank
  <2>1. flash[p] \in Contents
    BY <1>2 DEF BackupTypes
  <2>2. flash[p] \in Seq(Bytes) /\ <<CE>> \in Seq(Bytes)
    BY <2>1, IsASeq DEF Contents, Bytes
  <2> QED
    BY <1>2, <2>2, ConcatProperties DEF Record
<1> QED
  BY <1>1, <1>2

LEMMA RecordsType ==
    ASSUME BackupTypes, NEW n \in 0 .. NumPages
    PROVE  Records(n) \in Seq(Seq(Bytes)) /\ Len(Records(n)) = n
<1> USE BackupAssumption
<1>1. \A i \in 1 .. n : Record(i - 1) \in Seq(Bytes)
  <2> TAKE i \in 1 .. n
  <2>1. i - 1 \in Pages
    BY DEF Pages
  <2> QED
    BY <2>1, RecordType
<1>2. n \in Nat
  OBVIOUS
<1> QED
  BY <1>1, <1>2, IsASeq DEF Records

(* The image of the first pages ends with the record of the last of them.  *)
LEMMA DumpOneMore ==
    ASSUME BackupTypes, NEW n \in Pages
    PROVE  Dump(n + 1) = Dump(n) \o Record(n)
<1> USE BackupAssumption
<1>1. /\ n \in Nat /\ n \in 0 .. NumPages /\ n + 1 \in 0 .. NumPages /\ n + 1 \in 1 .. n + 1
      /\ (n + 1) - 1 = n /\ \A i \in 1 .. n : i \in 1 .. n + 1
  BY DEF Pages
<1>2. /\ Records(n) \in Seq(Seq(Bytes)) /\ Len(Records(n)) = n
      /\ Records(n + 1) \in Seq(Seq(Bytes)) /\ Len(Records(n + 1)) = n + 1
  BY <1>1, RecordsType
<1>3. \A i \in 1 .. n : Records(n)[i] = Records(n + 1)[i]
  BY <1>1 DEF Records
<1>4. Records(n + 1)[n + 1] = Record(n)
  BY <1>1 DEF Records
<1>5. PICK s, t : s = Records(n) /\ t = Records(n + 1)
  OBVIOUS
<1>6. FlattenSeq(t) = FlattenSeq(s) \o t[n + 1]
  BY <1>1, <1>2, <1>3, <1>5, FlattenOneMore
<1> QED
  BY <1>4, <1>5, <1>6 DEF Dump

LEMMA DumpNone == Dump(0) = <<>>
<1>1. Records(0) = <<>>
  BY DEF Records
<1>2. Len(<<>>) = 0
  OBVIOUS
<1> QED
  BY <1>1, <1>2 DEF Dump, FlattenSeq

LEMMA DumpType ==
    ASSUME BackupTypes
    PROVE  \A n \in 0 .. NumPages : Dump(n) \in Seq(Bytes)
<1> USE BackupAssumption
<1> DEFINE T == {n \in Nat : n <= NumPages => Dump(n) \in Seq(Bytes)}
<1>2. 0 \in T
  <2>1. <<>> \in Seq(Bytes)
    OBVIOUS
  <2> QED
    BY <2>1, DumpNone
<1>3. ASSUME NEW n \in T PROVE n + 1 \in T
  <2> SUFFICES ASSUME n + 1 <= NumPages PROVE Dump(n + 1) \in Seq(Bytes)
    OBVIOUS
  <2>1. n \in Pages /\ n \in Nat /\ n <= NumPages
    BY DEF Pages
  <2>2. Dump(n) \in Seq(Bytes) /\ Record(n) \in Seq(Bytes)
    BY <2>1, RecordType
  <2> QED
    BY <2>1, <2>2, DumpOneMore, ConcatProperties
<1>4. T = Nat
  <2>1. T \in SUBSET Nat
    OBVIOUS
  <2> HIDE DEF T
  <2> QED
    BY <1>2, <1>3, <2>1, SetInduction
<1> QED
  BY <1>4

(* A run of blank pages adds as many bytes 0xF7.                           *)
LEMMA DumpBlanks ==
    ASSUME BackupTypes, NEW p \in 0 .. NumPages, NEW run \in 0 .. NumPages - p,
           \A q \in p .. p + run - 1 : flash[q] = Blank
    PROVE  Dump(p + run) = Dump(p) \o [i \in 1 .. run |-> F7]
<1> USE BackupAssumption
<1> DEFINE F7s(k) == [i \in 1 .. k |-> F7]
<1> DEFINE T == {k \in Nat : k <= run => Dump(p + k) = Dump(p) \o F7s(k)}
<1>2. \A k \in Nat : F7s(k) \in Seq(Bytes) /\ Len(F7s(k)) = k
  BY IsASeq DEF Bytes
<1>3. Dump(p) \in Seq(Bytes)
  BY DumpType
<1>4. 0 \in T
  <2>1. F7s(0) = <<>>
    OBVIOUS
  <2>2. Dump(p + 0) = Dump(p) \o F7s(0)
    BY <1>3, <2>1, ConcatEmptySeq
  <2> QED
    BY <2>2
<1>5. ASSUME NEW k \in T PROVE k + 1 \in T
  <2> SUFFICES ASSUME k + 1 <= run PROVE Dump(p + (k + 1)) = Dump(p) \o F7s(k + 1)
    <3>1. k + 1 \in Nat
      OBVIOUS
    <3> HIDE DEF F7s
    <3> QED
      BY <3>1
  <2>1. k \in Nat /\ k <= run /\ p + k \in Pages /\ p + k \in p .. p + run - 1
    BY DEF Pages
  <2>2. Dump(p + k) = Dump(p) \o F7s(k)
    BY <2>1
  <2>3. Dump((p + k) + 1) = Dump(p + k) \o <<F7>>
    BY <2>1, DumpOneMore DEF Record
  <2>4. F7s(k + 1) = F7s(k) \o <<F7>>
    <3> HIDE DEF F7s
    <3>1. F7s(k) \in Seq(Bytes) /\ <<F7>> \in Seq(Bytes) /\ Len(F7s(k)) = k /\ Len(<<F7>>) = 1
      BY <1>2, <2>1 DEF Bytes
    <3>2. F7s(k) \o <<F7>> \in Seq(Bytes) /\ Len(F7s(k) \o <<F7>>) = k + 1
      BY <2>1, <3>1, ConcatProperties
    <3>3. F7s(k + 1) \in Seq(Bytes) /\ Len(F7s(k + 1)) = k + 1
      BY <1>2, <2>1
    <3>4. ASSUME NEW i \in 1 .. k + 1 PROVE F7s(k + 1)[i] = (F7s(k) \o <<F7>>)[i]
      <4>1. F7s(k + 1)[i] = F7
        BY <2>1 DEF F7s
      <4>2. CASE i \in 1 .. k
        <5>1. F7s(k)[i] = F7
          BY <4>2 DEF F7s
        <5> QED
          BY <2>1, <3>1, <4>1, <4>2, <5>1, ConcatProperties
      <4>3. CASE i = k + 1
        BY <2>1, <3>1, <4>1, <4>3, ConcatProperties
      <4>4. i \in 1 .. k \/ i = k + 1
        BY <2>1
      <4> QED
        BY <4>2, <4>3, <4>4
    <3> QED
      BY <3>2, <3>3, <3>4, SeqEqual
  <2>5. F7s(k) \in Seq(Bytes) /\ <<F7>> \in Seq(Bytes)
    BY <1>2, <2>1 DEF Bytes
  <2> HIDE DEF F7s
  <2>6. (Dump(p) \o F7s(k)) \o <<F7>> = Dump(p) \o (F7s(k) \o <<F7>>)
    BY <1>3, <2>5, ConcatAssociative
  <2>7. p + (k + 1) = (p + k) + 1
    BY <2>1
  <2> QED
    BY <2>2, <2>3, <2>4, <2>6, <2>7
<1>6. T = Nat
  <2>1. T \in SUBSET Nat
    OBVIOUS
  <2> HIDE DEF T
  <2> QED
    BY <1>4, <1>5, <2>1, SetInduction
<1>7. run \in Nat /\ run <= run
  OBVIOUS
<1> HIDE DEF F7s
<1>8. Dump(p + run) = Dump(p) \o F7s(run)
  BY <1>6, <1>7
<1> QED
  BY <1>8 DEF F7s

(* The dump, cut into reads whose lengths depend on the runs of blank      *)
(* pages, is the sequence of one record for every page, in order           *)
(* (boot0/main.c:999-1035).                                                 *)
THEOREM DumpIsTheImage == Spec => []DumpIsImage
<1>1. DumpIsImage <=> image = Dump(page)
  BY DEF DumpIsImage, Dump, Records
<1>2. Init => DumpIsImage
  BY <1>1, DumpNone DEF Init
<1>3. BackupInv /\ DumpIsImage /\ [Next]_vars => DumpIsImage'
  <2> USE BackupAssumption
  <2> SUFFICES ASSUME BackupInv, DumpIsImage, [Next]_vars PROVE DumpIsImage'
    OBVIOUS
  <2>1. BackupTypes /\ page \in 0 .. NumPages /\ image = Dump(page)
    BY <1>1 DEF BackupInv, BackupTypes
  <2>2. flash' = flash
    BY DEF Next, ReadBlank, ReadPage, Stream, vars
  <2>3. SUFFICES image' = Dump(page')
    <3>1. [i \in 1 .. page' |-> Record(i - 1)'] = Records(page')
      BY <2>2 DEF Record, Records
    <3> QED
      BY <2>3, <3>1 DEF DumpIsImage, Dump
  <2>4. CASE ReadBlank
    <3>1. PICK run : run = Cardinality(BlankRun(page))
      OBVIOUS
    <3>2. /\ page < NumPages /\ run > 0
          /\ image' = image \o [i \in 1 .. run |-> F7] /\ page' = page + run
      BY <2>4, <3>1 DEF ReadBlank, AfterRun
    <3>3. BlankRun(page) # {}
      <4>1. Cardinality(BlankRun(page)) > 0
        BY <3>1, <3>2
      <4> QED
        BY <4>1, FS_EmptySet
    <3>4. run \in 1 .. NumPages - page /\ \A q \in page .. page + run - 1 : flash[q] = Blank
      BY <2>1, <3>1, <3>2, <3>3, RunIsInterval
    <3>5. PICK p : p = page
      OBVIOUS
    <3>6. p \in 0 .. NumPages /\ run \in 0 .. NumPages - p
      BY <2>1, <3>4, <3>5
    <3>7. \A q \in p .. p + run - 1 : flash[q] = Blank
      BY <3>4, <3>5
    <3>8. Dump(p + run) = Dump(p) \o [i \in 1 .. run |-> F7]
      BY <2>1, <3>6, <3>7, DumpBlanks
    <3> QED
      BY <2>1, <3>2, <3>5, <3>8
  <2>5. CASE ReadPage
    <3>1. /\ page \in Pages /\ flash[page] # Blank /\ page' = page + 1
          /\ image' = image \o <<CE>> \o flash[page]
      BY <2>1, <2>5 DEF ReadPage, Pages
    <3>2. PICK p : p = page
      OBVIOUS
    <3>3. Dump(p + 1) = Dump(p) \o (<<CE>> \o flash[p])
      BY <2>1, <3>1, <3>2, DumpOneMore DEF Record
    <3>4. image \in Seq(Bytes) /\ <<CE>> \in Seq(Bytes) /\ flash[p] \in Seq(Bytes)
      <4>1. flash[p] \in Contents
        BY <2>1, <3>1, <3>2 DEF BackupTypes
      <4> QED
        BY <2>1, <4>1, IsASeq DEF Contents, BackupTypes, Bytes
    <3>5. \A a, b, e \in Seq(Bytes) : (a \o b) \o e = a \o (b \o e)
      BY ConcatAssociative
    <3> QED
      BY <2>1, <3>1, <3>2, <3>3, <3>4, <3>5
  <2>6. CASE Stream
    BY <2>1, <2>6 DEF Stream, dumpVars
  <2>7. CASE UNCHANGED vars
    BY <2>1, <2>7 DEF vars
  <2> QED
    BY <2>4, <2>5, <2>6, <2>7 DEF Next
<1> QED
  BY <1>2, <1>3, BackupInvariant, PTL DEF Spec
=============================================================================
