----------------------------- MODULE FirmwareProof -----------------------------
(***************************************************************************)
(* Partition arithmetic and the invariants of one vendor image on its way  *)
(* to a BaseOS image, for every set of cards.                              *)
(***************************************************************************)
EXTENDS Firmware, TLAPS

(* The tables parse_gpt accepts. *)

Firsts == 1 .. 7

\* A table whose entries 1 to 7 are there and follow each other.
Ordered(t) ==
  /\ \A i \in Firsts : Used(t[i]) /\ 4 <= t[i].first /\ t[i].first <= t[i].last
  /\ t[1].last < t[2].first /\ t[2].last < t[3].first /\ t[3].last < t[4].first
  /\ t[4].last < t[5].first /\ t[5].last < t[6].first /\ t[6].last < t[7].first
  /\ Used(t[8]) => t[7].last < t[8].first /\ t[8].first <= t[8].last

LEMMA NamedIsUsed ==
  ASSUME NEW t \in GptTables, NEW i \in Numbers, t[i].name # "none"
  PROVE  Used(t[i])
BY DEF GptTables, GptEntries, NoEntry, Used

LEMMA EntryTypes ==
  ASSUME NEW t \in GptTables, NEW i \in Numbers
  PROVE  /\ t[i] = [name |-> t[i].name, id |-> t[i].id, first |-> t[i].first,
                    last |-> t[i].last, hidden |-> t[i].hidden]
         /\ t[i].id \in Nat
         /\ t[i].first \in Nat /\ t[i].last \in Nat /\ t[i].hidden \in BOOLEAN
<1>1. t[i] \in GptEntries
  BY DEF GptTables
<1>2. CASE t[i] = NoEntry
  <2>1. /\ t[i].name = "none" /\ t[i].id = 0 /\ t[i].first = 0
        /\ t[i].last = 0 /\ t[i].hidden = FALSE
    BY <1>2 DEF NoEntry
  <2>2. t[i] = [name |-> "none", id |-> 0, first |-> 0, last |-> 0, hidden |-> FALSE]
    BY <1>2 DEF NoEntry
  <2> QED
    BY <2>1, <2>2
<1>3. CASE t[i] # NoEntry
  BY <1>1, <1>3 DEF GptEntries
<1> QED
  BY <1>2, <1>3

\* The fields of the entries are numbers.
Plain(t) == \A k \in Numbers : t[k].first \in Nat /\ t[k].last \in Nat

\* No accepted table lacks one of its first seven entries.
LEMMA AcceptedNames ==
  ASSUME NEW t \in GptTables, NamesOf(t) \in FirmwareNames, NEW i \in Firsts
  PROVE  t[i].name # "none"
<1>1. i \in {1, 2, 3, 4, 5, 6, 7}
  BY DEF Firsts
<1>2. NamesOf(t)[i] = t[i].name
  BY DEF NamesOf, Numbers, Firsts
<1>3. EXPECTED_NAMES[i] # "none"
  BY <1>1 DEF EXPECTED_NAMES
<1>4. STOCKMOD_BASE_NAMES[i] # "none"
  BY <1>1 DEF EXPECTED_NAMES, STOCKMOD_BASE_NAMES
<1>5. STOCK_NAMES[i] # "none"
  BY <1>1 DEF EXPECTED_NAMES, STOCKMOD_BASE_NAMES, STOCK_NAMES
<1> QED
  BY <1>2, <1>3, <1>4, <1>5 DEF FirmwareNames

LEMMA AcceptedIsOrdered ==
  ASSUME NEW img \in GptImages, Accepts(img, FirmwareNames)
  PROVE  /\ img.table \in GptTables /\ NamesOf(img.table) \in FirmwareNames
         /\ Plain(img.table) /\ Ordered(img.table)
<1> DEFINE t == img.table
<1>1. t \in GptTables
  BY DEF GptImages
<1>2. NamesOf(t) \in FirmwareNames
  BY DEF Accepts, FullDisk, TrimmedBase, FirmwareNames
<1>3. \A i \in Firsts : Used(t[i])
  BY <1>1, <1>2, AcceptedNames, NamedIsUsed DEF Firsts, Numbers
<1>4. \A i \in Numbers : Used(t[i]) => 4 <= t[i].first /\ t[i].first <= t[i].last
  BY DEF Accepts, EntriesInside
<1>5. \A i \in 1 .. 7 : Used(t[i]) /\ Used(t[i + 1]) => t[i].last < t[i + 1].first
  BY DEF Accepts, Disjoint
<1>6. Used(t[1]) /\ Used(t[2]) /\ Used(t[3]) /\ Used(t[4]) /\ Used(t[5]) /\ Used(t[6]) /\ Used(t[7])
  BY <1>3 DEF Firsts
<1> HIDE DEF t
<1>7. /\ t[1].last < t[2].first /\ t[2].last < t[3].first /\ t[3].last < t[4].first
      /\ t[4].last < t[5].first /\ t[5].last < t[6].first /\ t[6].last < t[7].first
      /\ Used(t[8]) => t[7].last < t[8].first
  BY <1>5, <1>6
<1>8. Ordered(t)
  BY <1>3, <1>4, <1>7 DEF Ordered, Firsts, Numbers
<1>9. Plain(t)
  BY <1>1, EntryTypes DEF Plain
<1> QED
  BY <1>1, <1>2, <1>8, <1>9 DEF t

\* The partitions of an accepted card do not overlap.
LEMMA OnePartition ==
  ASSUME NEW t, Plain(t), Ordered(t), NEW s \in Int,
         NEW i \in Firsts, Within(s, t[i]),
         NEW j \in Numbers, Used(t[j]), Within(s, t[j])
  PROVE  i = j
<1>1. \A k \in Numbers : t[k].first \in Nat /\ t[k].last \in Nat
  BY DEF Plain
<1>2. \A k \in Firsts : t[k].first <= t[k].last
  BY DEF Ordered
<1>3. /\ t[1].first <= t[1].last /\ t[2].first <= t[2].last /\ t[3].first <= t[3].last
      /\ t[4].first <= t[4].last /\ t[5].first <= t[5].last /\ t[6].first <= t[6].last
      /\ t[7].first <= t[7].last
  BY <1>2 DEF Firsts
<1>4. /\ t[1].last < t[2].first /\ t[2].last < t[3].first /\ t[3].last < t[4].first
      /\ t[4].last < t[5].first /\ t[5].last < t[6].first /\ t[6].last < t[7].first
      /\ Used(t[8]) => t[7].last < t[8].first
  BY DEF Ordered
<1>5. i \in {1, 2, 3, 4, 5, 6, 7} /\ j \in {1, 2, 3, 4, 5, 6, 7, 8}
  BY DEF Firsts, Numbers
<1> QED
  BY <1>1, <1>3, <1>4, <1>5, SMTT(60) DEF Within, Numbers

\* What the vendor has in a sector of partition i.
LEMMA VendorSector ==
  ASSUME NEW t, Plain(t), Ordered(t), NEW s \in Int,
         NEW i \in Firsts, Within(s, t[i])
  PROVE  Vendor(t, s) = [part |-> i, off |-> s - t[i].first]
<1>1. \A k \in Numbers : t[k].first \in Nat /\ t[k].last \in Nat
  BY DEF Plain
<1>2. ~(s < t[1].first)
  <2>1. t[1].first <= t[i].first
    BY <1>1, SMTT(60) DEF Ordered, Firsts, Numbers
  <2> QED
    BY <1>1, <2>1 DEF Within, Firsts, Numbers
<1>3. i \in Numbers /\ Used(t[i])
  BY DEF Ordered, Firsts, Numbers
<1>4. (CHOOSE j \in Numbers : Used(t[j]) /\ Within(s, t[j])) = i
  BY <1>3, OnePartition
<1> QED
  BY <1>2, <1>3, <1>4 DEF Vendor

\* Only the raw boot region holds what is called partition 0, and only
\* partition i what is called i.
LEMMA VendorPart ==
  ASSUME NEW t, Plain(t), NEW s \in Int
  PROVE  /\ s < t[1].first => Vendor(t, s) = [part |-> 0, off |-> s]
         /\ s >= t[1].first => Vendor(t, s).part # 0
         /\ \A i \in Numbers : Vendor(t, s).part = i =>
              Within(s, t[i]) /\ Vendor(t, s).off = s - t[i].first
         /\ Vendor(t, s).part \in 0 .. 9
<1>1. \A k \in Numbers : t[k].first \in Nat /\ t[k].last \in Nat
  BY DEF Plain
<1>2. t[1].first \in Nat
  BY <1>1 DEF Numbers
<1>3. CASE s < t[1].first
  BY <1>2, <1>3 DEF Vendor, Numbers
<1>4. CASE ~(s < t[1].first) /\ \E i \in Numbers : Used(t[i]) /\ Within(s, t[i])
  <2> DEFINE j == CHOOSE i \in Numbers : Used(t[i]) /\ Within(s, t[i])
  <2>1. j \in Numbers /\ Within(s, t[j])
    BY <1>4
  <2>2. Vendor(t, s) = [part |-> j, off |-> s - t[j].first]
    BY <1>4 DEF Vendor
  <2> HIDE DEF j
  <2> QED
    BY <1>2, <1>4, <2>1, <2>2 DEF Numbers
<1>5. CASE ~(s < t[1].first) /\ ~\E i \in Numbers : Used(t[i]) /\ Within(s, t[i])
  BY <1>2, <1>5 DEF Vendor, Numbers
<1> QED
  BY <1>3, <1>4, <1>5

-----------------------------------------------------------------------------
(* normalise_stock_layout moves the partitions and keeps their order.      *)

LEMMA NormalisedEntries ==
  ASSUME NEW t \in GptTables, Ordered(t)
  PROVE  LET n == NormaliseTable(t) IN
         /\ n[1].first = t[1].first /\ n[1].last = t[1].first + SpecialSectors - 1
         /\ n[1].id = t[1].id /\ n[1].name = "special"
         /\ \A i \in 2 .. 7 : /\ n[i].first = t[i].first - Shift(t)
                             /\ n[i].last = t[i].last - Shift(t)
                             /\ n[i].id = t[i].id /\ n[i].name = t[i].name
         /\ ~Used(t[8]) => n[8] = t[8]
<1> DEFINE n == NormaliseTable(t)
<1>1. \A i \in Numbers :
        t[i] = [name |-> t[i].name, id |-> t[i].id, first |-> t[i].first,
                last |-> t[i].last, hidden |-> t[i].hidden]
  BY EntryTypes
<1>2. n[1] = [t[1] EXCEPT !.name = "special", !.last = t[1].first + SpecialSectors - 1]
  BY DEF NormaliseTable, Numbers
<1>3. \A i \in 2 .. 7 :
        n[i] = [t[i] EXCEPT !.first = t[i].first - Shift(t), !.last = t[i].last - Shift(t)]
  BY DEF NormaliseTable, Numbers, Ordered, Firsts
<1>4. ~Used(t[8]) => n[8] = t[8]
  BY DEF NormaliseTable, Numbers
<1> HIDE DEF n
<1>5. \A i \in 2 .. 7 : /\ n[i].first = t[i].first - Shift(t)
                       /\ n[i].last = t[i].last - Shift(t)
                       /\ n[i].id = t[i].id /\ n[i].name = t[i].name
  <2> TAKE i \in 2 .. 7
  <2>1. t[i] = [name |-> t[i].name, id |-> t[i].id, first |-> t[i].first,
                last |-> t[i].last, hidden |-> t[i].hidden]
    BY <1>1 DEF Numbers
  <2>2. n[i] = [name |-> t[i].name, id |-> t[i].id, first |-> t[i].first - Shift(t),
                last |-> t[i].last - Shift(t), hidden |-> t[i].hidden]
    BY <1>3, <2>1
  <2> QED
    BY <2>2
<1>6. /\ n[1].first = t[1].first /\ n[1].last = t[1].first + SpecialSectors - 1
      /\ n[1].id = t[1].id /\ n[1].name = "special"
  BY <1>1, <1>2 DEF Numbers
<1> QED
  BY <1>4, <1>5, <1>6 DEF n

\* The layout of a preparation is again a table in order, behind the same boot
\* region, with partitions of the same size.
LEMMA LayoutOrdered ==
  ASSUME NEW img \in GptImages, Preparable(img)
  PROVE  /\ Plain(Layout(img)) /\ Ordered(Layout(img))
         /\ Layout(img)[1].first = img.table[1].first
         /\ \A i \in 2 .. 5 : Size(Layout(img)[i]) = Size(img.table[i])
<1> DEFINE t == img.table
           n == Layout(img)
<1>1. t \in GptTables /\ NamesOf(t) \in FirmwareNames /\ Plain(t) /\ Ordered(t)
  BY AcceptedIsOrdered DEF Preparable
<1>2. CASE ~FromStock(img)
  BY <1>1, <1>2 DEF Layout
<1>3. CASE FromStock(img)
  <2>1. n = NormaliseTable(t)
    BY <1>3 DEF Layout
  <2>2. Shift(t) > 0
    BY <1>3 DEF Preparable
  <2>3. /\ n[1].first = t[1].first /\ n[1].last = t[1].first + SpecialSectors - 1
        /\ n[1].id = t[1].id
        /\ \A i \in 2 .. 7 : /\ n[i].first = t[i].first - Shift(t)
                             /\ n[i].last = t[i].last - Shift(t)
                             /\ n[i].id = t[i].id
        /\ ~Used(t[8]) => n[8] = t[8]
    BY <1>1, <2>1, NormalisedEntries
  <2>4. ~Used(t[8])
    <3>1. NamesOf(t)[8] = "none"
      BY <1>3 DEF FromStock, STOCK_NAMES, STOCKMOD_BASE_NAMES, EXPECTED_NAMES
    <3>2. t[8].name = "none" /\ t[8] \in GptEntries
      BY <1>1, <3>1 DEF NamesOf, Numbers, GptTables
    <3> QED
      BY <3>2 DEF GptEntries, NoEntry, Used
  <2> HIDE DEF n, t
  <2>5. \A k \in Numbers : t[k].first \in Nat /\ t[k].last \in Nat
    BY <1>1 DEF Plain
  <2>6. Shift(t) = t[1].last - t[1].first + 1 - SpecialSectors /\ Shift(t) \in Int
    BY <2>5, StockAssumption DEF Shift, Size, Numbers
  <2>7. SpecialSectors \in Nat /\ SpecialSectors > 0
    BY StockAssumption
  <2>8. /\ 4 <= t[1].first /\ \A i \in 1 .. 7 : t[i].first <= t[i].last /\ Used(t[i])
        /\ t[1].last < t[2].first /\ t[2].last < t[3].first /\ t[3].last < t[4].first
        /\ t[4].last < t[5].first /\ t[5].last < t[6].first /\ t[6].last < t[7].first
    BY <1>1 DEF Ordered, Firsts
  <2>9. /\ \A i \in 2 .. 7 : n[i].first \in Int /\ n[i].last \in Int /\ n[i].first <= n[i].last
        /\ n[1].first \in Nat /\ n[1].last \in Nat /\ n[1].first <= n[1].last
        /\ 4 <= n[1].first
    BY <2>3, <2>5, <2>6, <2>7, <2>8 DEF Numbers
  <2>10. /\ n[1].last < n[2].first /\ n[2].last < n[3].first /\ n[3].last < n[4].first
         /\ n[4].last < n[5].first /\ n[5].last < n[6].first /\ n[6].last < n[7].first
    BY <2>3, <2>5, <2>6, <2>7, <2>8 DEF Numbers
  <2>11. \A i \in 2 .. 7 : n[i].first > 4
    <3>1. /\ n[2].first > 4 /\ n[3].first > 4 /\ n[4].first > 4
          /\ n[5].first > 4 /\ n[6].first > 4 /\ n[7].first > 4
      BY <2>9, <2>10
    <3> QED
      BY <3>1
  <2>12. \A i \in 1 .. 7 : Used(n[i])
    BY <2>3, <2>8 DEF Used
  <2>13. Plain(n)
    <3>1. \A k \in 2 .. 7 : n[k].first \in Nat /\ n[k].last \in Nat
      BY <2>9, <2>11
    <3>2. n[8].first \in Nat /\ n[8].last \in Nat
      BY <2>3, <2>4, <2>5 DEF Numbers
    <3> QED
      BY <2>9, <3>1, <3>2 DEF Plain, Numbers
  <2>14. Ordered(n)
    <3>1. ~Used(n[8])
      BY <2>3, <2>4
    <3> QED
      BY <2>9, <2>10, <2>11, <2>12, <3>1 DEF Ordered, Firsts
  <2>15. \A i \in 2 .. 5 : Size(n[i]) = Size(t[i])
    BY <2>3, <2>5, <2>6 DEF Size, Numbers
  <2> QED
    BY <2>3, <2>13, <2>14, <2>15 DEF n, t
<1> QED
  BY <1>2, <1>3

-----------------------------------------------------------------------------
(* What a boot prefix holds. *)

Contents == [part: Nat, off: Int]

\* The sectors of a prefix with table t.
PrefixSectors(t) == 4 .. t[5].first - 1

LEMMA SectorPlaces ==
  ASSUME NEW t, Plain(t), Ordered(t)
  PROVE  /\ t[1].first \in PrefixSectors(t)
         /\ \A s \in 4 .. t[1].first - 1 : s \in PrefixSectors(t)
         /\ \A i \in 1 .. 4 : \A s \in t[i].first .. t[i].last : s \in PrefixSectors(t)
         /\ \A i \in 2 .. 4 : \A s \in t[i].first .. t[i].last : ~Within(s, t[1]) /\ t[1].first < s
<1>1. /\ t[1].first \in Nat /\ t[1].last \in Nat /\ t[2].first \in Nat /\ t[2].last \in Nat
      /\ t[3].first \in Nat /\ t[3].last \in Nat /\ t[4].first \in Nat /\ t[4].last \in Nat
      /\ t[5].first \in Nat
  BY DEF Plain, Numbers
<1>2. /\ 4 <= t[1].first /\ t[1].first <= t[1].last /\ t[2].first <= t[2].last
      /\ t[3].first <= t[3].last /\ t[4].first <= t[4].last
      /\ t[1].last < t[2].first /\ t[2].last < t[3].first /\ t[3].last < t[4].first
      /\ t[4].last < t[5].first
  BY DEF Ordered, Firsts
<1>3. /\ \A i \in 1 .. 4 : 4 <= t[i].first /\ t[i].last < t[5].first
      /\ \A i \in 2 .. 4 : t[1].last < t[i].first
  BY <1>1, <1>2, SMTT(30)
<1>4. t[1].first \in PrefixSectors(t) /\ \A s \in 4 .. t[1].first - 1 : s \in PrefixSectors(t)
  BY <1>1, <1>2 DEF PrefixSectors
<1>5. \A i \in 1 .. 4 : t[i].first \in Nat /\ t[i].last \in Nat
  BY <1>1
<1> QED
  BY <1>1, <1>2, <1>3, <1>4, <1>5 DEF PrefixSectors, Within

\* A partition the prefix carries, counted from its start.
LEMMA PartitionPlaces ==
  ASSUME NEW t, Plain(t), NEW i \in Numbers
  PROVE  /\ \A k \in 0 .. Size(t[i]) - 1 : t[i].first + k \in t[i].first .. t[i].last
         /\ \A s \in t[i].first .. t[i].last : s - t[i].first \in 0 .. Size(t[i]) - 1
BY DEF Plain, Size

\* The prefix of a card in the StockMod layout is a copy.
LEMMA CopiedPrefix ==
  ASSUME NEW img \in GptImages, Preparable(img), ~FromStock(img),
         NEW s \in PrefixSectors(Layout(img))
  PROVE  PrefixData(img)[s] = Vendor(img.table, s)
BY DEF PrefixData, PrefixSectors

\* The prefix of a stock card is put together sector by sector.
LEMMA RecastPrefix ==
  ASSUME NEW img \in GptImages, Preparable(img), FromStock(img),
         NEW s \in PrefixSectors(Layout(img))
  PROVE  LET n == Layout(img) t == img.table IN
         /\ s < n[1].first => PrefixData(img)[s] = [part |-> 0, off |-> s]
         /\ s >= n[1].first /\ Within(s, n[1])
              => PrefixData(img)[s] = [part |-> 11, off |-> s - n[1].first]
         /\ \A i \in 2 .. 4 : s >= n[1].first /\ ~Within(s, n[1]) /\ Within(s, n[i])
              => PrefixData(img)[s] = [part |-> i, off |-> s - n[i].first]
         /\ s >= n[1].first /\ ~Within(s, n[1]) /\ (\A i \in 2 .. 4 : ~Within(s, n[i]))
              => PrefixData(img)[s] = [part |-> 10, off |-> 0]
<1> DEFINE n == Layout(img)
           t == img.table
<1>1. t \in GptTables /\ Plain(t) /\ Ordered(t)
  BY AcceptedIsOrdered DEF Preparable
<1>2. /\ Plain(n) /\ Ordered(n) /\ n[1].first = t[1].first
      /\ \A i \in 2 .. 5 : Size(n[i]) = Size(t[i])
  BY LayoutOrdered
<1>3. PrefixData(img)[s] = NormalisedSector(t, n, s)
  BY DEF PrefixData, PrefixSectors
<1>4. s \in Int /\ n[1].first \in Int
  BY <1>2 DEF PrefixSectors, Plain, Numbers
<1> HIDE DEF n, t
<1>5. ASSUME s < n[1].first PROVE NormalisedSector(t, n, s) = [part |-> 0, off |-> s]
  BY <1>1, <1>2, <1>4, <1>5, VendorPart DEF NormalisedSector
<1>6. ASSUME s >= n[1].first, Within(s, n[1])
      PROVE  NormalisedSector(t, n, s) = [part |-> 11, off |-> s - n[1].first]
  BY <1>4, <1>6 DEF NormalisedSector, EmptySpecial
<1>7. ASSUME NEW i \in 2 .. 4, s >= n[1].first, ~Within(s, n[1]), Within(s, n[i])
      PROVE  NormalisedSector(t, n, s) = [part |-> i, off |-> s - n[i].first]
  <2>1. \A j \in 2 .. 4 : Within(s, n[j]) => j = i
    <3> TAKE j \in 2 .. 4
    <3>1. Used(n[j])
      BY <1>2 DEF Ordered, Firsts
    <3> QED
      BY <1>2, <1>4, <1>7, <3>1, OnePartition DEF Firsts, Numbers
  <2>2. (CHOOSE j \in 2 .. 4 : Within(s, n[j])) = i
    BY <1>7, <2>1
  <2>3. NormalisedSector(t, n, s) = Vendor(t, t[i].first + (s - n[i].first))
    <3>1. ~(s < n[1].first)
      BY <1>4, <1>7
    <3> QED
      BY <1>7, <2>2, <3>1 DEF NormalisedSector
  <2>4. /\ n[i].first \in Nat /\ n[i].last \in Nat /\ t[i].first \in Nat /\ t[i].last \in Nat
        /\ Size(n[i]) = Size(t[i])
    BY <1>1, <1>2 DEF Plain, Numbers
  <2>5. Within(t[i].first + (s - n[i].first), t[i])
    BY <1>4, <1>7, <2>4 DEF Within, Size
  <2>6. Vendor(t, t[i].first + (s - n[i].first))
          = [part |-> i, off |-> (t[i].first + (s - n[i].first)) - t[i].first]
    BY <1>1, <1>4, <2>4, <2>5, VendorSector DEF Firsts
  <2> QED
    BY <1>4, <2>3, <2>4, <2>6
<1>8. ASSUME s >= n[1].first, ~Within(s, n[1]), \A i \in 2 .. 4 : ~Within(s, n[i])
      PROVE  NormalisedSector(t, n, s) = [part |-> 10, off |-> 0]
  BY <1>4, <1>8 DEF NormalisedSector, Zeros
<1> QED
  BY <1>3, <1>5, <1>6, <1>7, <1>8 DEF n, t

\* What the prefix of a preparation holds, of either layout: the raw boot
\* region in place, partitions 2 to 4 where the layout has them, and neither of
\* them anywhere else.
LEMMA PrefixTrue ==
  ASSUME NEW img \in GptImages, Preparable(img)
  PROVE  LET n == Layout(img) d == PrefixData(img) IN
         /\ d \in [PrefixSectors(n) -> Contents]
         /\ \A s \in 4 .. n[1].first - 1 : d[s] = Original(0, s)
         /\ \A i \in 2 .. 4 : \A s \in n[i].first .. n[i].last :
              d[s] = Original(i, s - n[i].first)
         /\ \A s \in PrefixSectors(n) : d[s].part = 0 => s < n[1].first
         /\ \A s \in PrefixSectors(n) : d[s].part = 4 =>
              s \in n[4].first .. n[4].last /\ d[s].off = s - n[4].first
<1> DEFINE n == Layout(img)
           d == PrefixData(img)
           t == img.table
<1>1. Plain(t) /\ Ordered(t)
  BY AcceptedIsOrdered DEF Preparable
<1>2. Plain(n) /\ Ordered(n) /\ n[1].first = t[1].first
  BY LayoutOrdered
<1>3. /\ DOMAIN d = PrefixSectors(n)
      /\ d = [s \in PrefixSectors(n) |-> d[s]]
  BY DEF PrefixData, PrefixSectors
<1>4. \A i \in Numbers : n[i].first \in Nat /\ n[i].last \in Nat
  BY <1>2 DEF Plain
<1>5. \A s \in PrefixSectors(n) : s \in Int
  BY <1>4 DEF PrefixSectors, Numbers
<1>6. /\ \A s \in 4 .. n[1].first - 1 : s \in PrefixSectors(n) /\ s < n[1].first
      /\ \A i \in 2 .. 4 : \A s \in n[i].first .. n[i].last :
           /\ s \in PrefixSectors(n) /\ s >= n[1].first
           /\ ~Within(s, n[1]) /\ Within(s, n[i])
  <2>1. \A s \in 4 .. n[1].first - 1 : s \in PrefixSectors(n) /\ s < n[1].first
    BY <1>2, <1>4, SectorPlaces DEF Numbers
  <2>2. \A i \in 2 .. 4 : \A s \in n[i].first .. n[i].last :
           s \in PrefixSectors(n) /\ ~Within(s, n[1]) /\ n[1].first < s
    BY <1>2, SectorPlaces
  <2>3. \A i \in 2 .. 4 : \A s \in n[i].first .. n[i].last : Within(s, n[i])
    BY <1>4 DEF Within, Numbers
  <2> QED
    BY <1>4, <1>5, <2>1, <2>2, <2>3 DEF Numbers
<1>7. CASE ~FromStock(img)
  <2>1. n = t
    BY <1>7 DEF Layout
  <2>2. \A s \in PrefixSectors(n) : d[s] = Vendor(t, s)
    BY <1>7, CopiedPrefix
  <2> HIDE DEF n, d, t
  <2>3. \A s \in PrefixSectors(n) :
          /\ s < n[1].first => d[s] = [part |-> 0, off |-> s]
          /\ s >= n[1].first => d[s].part # 0
          /\ \A i \in Numbers : d[s].part = i =>
               Within(s, n[i]) /\ d[s].off = s - n[i].first
          /\ d[s].part \in 0 .. 9
    BY <1>1, <1>5, <2>1, <2>2, VendorPart
  <2>4. \A i \in 2 .. 4 : \A s \in n[i].first .. n[i].last :
          d[s] = [part |-> i, off |-> s - n[i].first]
    BY <1>1, <1>5, <1>6, <2>1, <2>2, VendorSector DEF Firsts
  <2>5. \A s \in PrefixSectors(n) : d[s] \in Contents
    <3> TAKE s \in PrefixSectors(n)
    <3>1. Vendor(t, s) \in [part: 0 .. 9, off: Int]
      <4>0. s \in Int /\ \A k \in Numbers : t[k].first \in Nat
        BY <1>1, <1>5 DEF Plain
      <4>1. CASE s < t[1].first
        BY <4>0, <4>1 DEF Vendor
      <4>2. CASE ~(s < t[1].first) /\ \E i \in Numbers : Used(t[i]) /\ Within(s, t[i])
        <5> DEFINE j == CHOOSE i \in Numbers : Used(t[i]) /\ Within(s, t[i])
        <5>1. j \in Numbers
          BY <4>2
        <5>2. Vendor(t, s) = [part |-> j, off |-> s - t[j].first]
          BY <4>2 DEF Vendor
        <5> HIDE DEF j
        <5> QED
          BY <4>0, <5>1, <5>2 DEF Numbers
      <4>3. CASE ~(s < t[1].first) /\ ~\E i \in Numbers : Used(t[i]) /\ Within(s, t[i])
        BY <4>0, <4>3 DEF Vendor
      <4> QED
        BY <4>1, <4>2, <4>3
    <3> QED
      BY <2>2, <3>1 DEF Contents
  <2>6. /\ d \in [PrefixSectors(n) -> Contents]
        /\ \A s \in 4 .. n[1].first - 1 : d[s] = Original(0, s)
        /\ \A i \in 2 .. 4 : \A s \in n[i].first .. n[i].last :
             d[s] = Original(i, s - n[i].first)
    <3>1. d \in [PrefixSectors(n) -> Contents]
      BY <1>3, <2>5
    <3> QED
      BY <3>1, <1>6, <2>3, <2>4 DEF Original
  <2>7. \A s \in PrefixSectors(n) : d[s].part = 0 => s < n[1].first
    <3> TAKE s \in PrefixSectors(n)
    <3>1. s \in Int /\ n[1].first \in Int
      BY <1>4, <1>5 DEF Numbers
    <3>2. s >= n[1].first => d[s].part # 0
      BY <2>3
    <3> QED
      BY <3>1, <3>2
  <2>8. \A s \in PrefixSectors(n) : d[s].part = 4 =>
              s \in n[4].first .. n[4].last /\ d[s].off = s - n[4].first
    <3> TAKE s \in PrefixSectors(n)
    <3>1. s \in Int /\ n[4].first \in Int /\ n[4].last \in Int
      BY <1>4, <1>5 DEF Numbers
    <3>2. 4 \in Numbers
      BY DEF Numbers
    <3>3. d[s].part = 4 => Within(s, n[4]) /\ d[s].off = s - n[4].first
      BY <2>3, <3>2
    <3> QED
      BY <3>1, <3>3 DEF Within
  <2> QED
    BY <2>6, <2>7, <2>8 DEF n, d
<1>8. CASE FromStock(img)
  <2>1. \A s \in PrefixSectors(n) :
          /\ s < n[1].first => d[s] = [part |-> 0, off |-> s]
          /\ s >= n[1].first /\ Within(s, n[1]) => d[s] = [part |-> 11, off |-> s - n[1].first]
          /\ \A i \in 2 .. 4 : s >= n[1].first /\ ~Within(s, n[1]) /\ Within(s, n[i])
               => d[s] = [part |-> i, off |-> s - n[i].first]
          /\ s >= n[1].first /\ ~Within(s, n[1]) /\ (\A i \in 2 .. 4 : ~Within(s, n[i]))
               => d[s] = [part |-> 10, off |-> 0]
    BY <1>8, RecastPrefix
  <2> HIDE DEF n, d, t
  <2>2. ASSUME NEW s \in PrefixSectors(n)
        PROVE  /\ d[s] \in Contents
               /\ d[s].part = 0 => s < n[1].first
               /\ d[s].part = 4 => Within(s, n[4]) /\ d[s].off = s - n[4].first
    <3>1. s \in Nat /\ n[1].first \in Nat
      BY <1>4 DEF PrefixSectors, Numbers
    <3>2. CASE s < n[1].first
      <4>1. d[s] = [part |-> 0, off |-> s]
        BY <2>1, <3>2
      <4> QED
        BY <3>1, <3>2, <4>1 DEF Contents
    <3>3. CASE s >= n[1].first /\ Within(s, n[1])
      <4>1. d[s] = [part |-> 11, off |-> s - n[1].first]
        BY <2>1, <3>3
      <4> QED
        BY <3>1, <4>1 DEF Contents
    <3>4. CASE s >= n[1].first /\ ~Within(s, n[1]) /\ \E i \in 2 .. 4 : Within(s, n[i])
      <4>1. PICK i \in 2 .. 4 : Within(s, n[i])
        BY <3>4
      <4>2. d[s] = [part |-> i, off |-> s - n[i].first]
        BY <2>1, <3>4, <4>1
      <4>3. n[i].first \in Nat
        BY <1>4 DEF Numbers
      <4>4. d[s] \in Contents
        BY <3>1, <4>2, <4>3 DEF Contents
      <4>5. d[s].part = i /\ d[s].off = s - n[i].first
        BY <4>2
      <4> QED
        BY <4>1, <4>4, <4>5
    <3>5. CASE s >= n[1].first /\ ~Within(s, n[1]) /\ \A i \in 2 .. 4 : ~Within(s, n[i])
      <4>1. d[s] = [part |-> 10, off |-> 0]
        BY <2>1, <3>5
      <4> QED
        BY <4>1 DEF Contents
    <3> QED
      BY <3>1, <3>2, <3>3, <3>4, <3>5
  <2>4. d \in [PrefixSectors(n) -> Contents]
    BY <1>3, <2>2
  <2>5. \A s \in 4 .. n[1].first - 1 : d[s] = Original(0, s)
    BY <1>6, <2>1 DEF Original
  <2>6. \A i \in 2 .. 4 : \A s \in n[i].first .. n[i].last :
             d[s] = Original(i, s - n[i].first)
    <3> TAKE i \in 2 .. 4
    <3> TAKE s \in n[i].first .. n[i].last
    <3>1. d[s] = [part |-> i, off |-> s - n[i].first]
      BY <1>6, <2>1
    <3> QED
      BY <3>1 DEF Original
  <2>7. \A s \in PrefixSectors(n) : d[s].part = 0 => s < n[1].first
    BY <2>2
  <2>8. \A s \in PrefixSectors(n) : d[s].part = 4 => Within(s, n[4]) /\ d[s].off = s - n[4].first
    BY <2>2
  <2>9. \A s \in PrefixSectors(n) : Within(s, n[4]) => s \in n[4].first .. n[4].last
    BY <1>4, <1>5 DEF Within, Numbers
  <2> QED
    BY <2>4, <2>5, <2>6, <2>7, <2>8, <2>9 DEF n, d
<1> QED
  BY <1>7, <1>8

\* The harvest is taken from the vendor's rootfs.
LEMMA RootTrue ==
  ASSUME NEW img \in GptImages, Preparable(img), NEW k \in 1 .. Size(img.table[5])
  PROVE  RootData(img)[k] = Original(5, k - 1)
<1> DEFINE t == img.table
<1>1. Plain(t) /\ Ordered(t)
  BY AcceptedIsOrdered DEF Preparable
<1>2. t[5].first \in Nat /\ t[5].last \in Nat
  BY <1>1 DEF Plain, Numbers
<1>3. Within(t[5].first + k - 1, t[5]) /\ t[5].first + k - 1 \in Int
  BY <1>2 DEF Within, Size
<1>4. Vendor(t, t[5].first + k - 1) = [part |-> 5, off |-> (t[5].first + k - 1) - t[5].first]
  BY <1>1, <1>3, VendorSector DEF Firsts
<1>5. k \in Int
  BY <1>2 DEF Size
<1> QED
  BY <1>2, <1>4, <1>5 DEF RootData, Original

-----------------------------------------------------------------------------
(* The files of a preparation are those of the card. *)

\* The stages with a preparation, and with a composed image.
Made ==
  {"prepared", "composed", "package", "pair", "logo", "verified", "rejected", "payload"}

\* The manifest and the root partition are never touched again.
FileInv ==
  /\ stage # "idle" => card \in Cards
  /\ stage \in {"idle", "card"} => manifest = NoFile
  /\ stage \in Made => manifest # NoFile
  /\ manifest # NoFile =>
       /\ stage # "idle" /\ Preparable(card)
       /\ manifest = Prefix(card) /\ root = RootData(card)

LEMMA PrefixIsFile ==
  ASSUME NEW img \in GptImages, Preparable(img)
  PROVE  Prefix(img) # NoFile
<1>1. Plain(Layout(img)) /\ Ordered(Layout(img))
  BY LayoutOrdered
<1>2. Used(Layout(img)[1])
  BY <1>1 DEF Ordered, Firsts
<1>3. Prefix(img).table[1].id # 0
  BY <1>2 DEF Prefix, Used
<1>4. NoFile.table[1].id = 0
  BY DEF NoFile, NoEntry, Numbers
<1> QED
  BY <1>3, <1>4

LEMMA FileInvInit == FirmwareInit => FileInv
BY DEF FirmwareInit, FileInv, Made

LEMMA FileInvStep == FileInv /\ [FirmwareNext]_firmwareVars => FileInv'
<1> SUFFICES ASSUME FileInv, [FirmwareNext]_firmwareVars PROVE FileInv'
  OBVIOUS
<1> USE DEF FileInv, Made
<1>1. CASE Pick
  BY <1>1 DEF Pick
<1>2. CASE PrepareStock
  <2>1. CASE Preparable(card)
    <3>1. /\ manifest' = Prefix(card) /\ root' = RootData(card) /\ card' = card
          /\ stage' = "prepared" /\ card \in Cards
      BY <1>2, <2>1 DEF PrepareStock
    <3>2. Prefix(card) # NoFile
      BY <2>1, <3>1, FirmwareAssumption, PrefixIsFile
    <3> QED
      BY <2>1, <3>1, <3>2
  <2>2. CASE ~Preparable(card)
    BY <1>2, <2>2 DEF PrepareStock
  <2> QED
    BY <2>1, <2>2
<1>3. CASE ComposeImage
  BY <1>3 DEF ComposeImage
<1>4. CASE ApplyPackage
  BY <1>4 DEF ApplyPackage
<1>5. CASE ApplyBoot
  BY <1>5 DEF ApplyBoot
<1>6. CASE ReplaceLogo \/ VerifyImage \/ CutPayload
  BY <1>6 DEF ReplaceLogo, VerifyImage, CutPayload
<1>7. CASE Again
  BY <1>7 DEF Again
<1>8. CASE Damage
  BY <1>8 DEF Damage
<1>9. CASE UNCHANGED firmwareVars
  BY <1>9 DEF firmwareVars
<1> QED
  BY <1>1, <1>2, <1>3, <1>4, <1>5, <1>6, <1>7, <1>8, <1>9 DEF FirmwareNext

LEMMA FileInvariant == FirmwareSpec => []FileInv
BY FileInvInit, FileInvStep, PTL DEF FirmwareSpec

\* Whatever vendor image is prepared: the boot region, partitions 2 to 4 and the
\* rootfs of the preparation are the card's, also when the table was recast.
THEOREM PreparationIsTrue == FirmwareSpec => []PreparedFromCard
<1>1. ASSUME FileInv, manifest # NoFile PROVE PreparedFromCard
  <2>1. card \in GptImages /\ Preparable(card) /\ manifest = Prefix(card) /\ root = RootData(card)
    BY <1>1, FirmwareAssumption DEF FileInv
  <2> DEFINE n == Layout(card)
  <2>2. /\ \A s \in 4 .. n[1].first - 1 : PrefixData(card)[s] = Original(0, s)
        /\ \A i \in 2 .. 4 : \A s \in n[i].first .. n[i].last :
             PrefixData(card)[s] = Original(i, s - n[i].first)
    BY <2>1, PrefixTrue
  <2>3. /\ Plain(n) /\ \A i \in 2 .. 4 : Size(n[i]) = Size(card.table[i])
    BY <2>1, LayoutOrdered
  <2>4. manifest.table = n /\ manifest.data = PrefixData(card)
    BY <2>1 DEF Prefix
  <2>5. ASSUME NEW i \in 2 .. 4, NEW k \in 0 .. Size(card.table[i]) - 1
        PROVE  manifest.data[manifest.table[i].first + k] = Original(i, k)
    <3>1. n[i].first \in Nat /\ n[i].last \in Nat
      BY <2>3 DEF Plain, Numbers
    <3> HIDE DEF n
    <3>2. k \in 0 .. Size(n[i]) - 1 /\ Size(n[i]) = n[i].last - n[i].first + 1
      BY <2>3 DEF Size
    <3>3. k \in Int /\ n[i].first + k \in n[i].first .. n[i].last
      BY <3>1, <3>2
    <3>4. (n[i].first + k) - n[i].first = k
      BY <3>1, <3>3
    <3> QED
      BY <2>2, <2>4, <3>3, <3>4
  <2>6. \A k \in 1 .. Size(card.table[5]) : root[k] = Original(5, k - 1)
    BY <2>1, RootTrue
  <2> QED
    BY <2>2, <2>4, <2>5, <2>6 DEF PreparedFromCard
<1>2. FileInv => PreparedFromCard
  BY <1>1 DEF PreparedFromCard
<1> QED
  BY <1>2, FileInvariant, PTL

-----------------------------------------------------------------------------
(* The image keeps the table mkgpt.py gave it; only sectors change.        *)

Composed == Made \ {"prepared"}

TotalOf(t) == t[5].first + 2 * SlotSectors + UdiskSectors + 5

\* The image composed from a prefix with table t, with d in its sectors.
ImageOf(t, d) ==
  [sectors |-> TotalOf(t), headerOk |-> TRUE,
   backupLba |-> TotalOf(t) - 1, lastUsable |-> LastUsable(TotalOf(t)),
   table |-> ComposedTable(t, SlotSectors, UdiskSectors, TotalOf(t)),
   backup |-> [ok |-> TRUE, lastUsable |-> LastUsable(TotalOf(t)),
               table |-> ComposedTable(t, SlotSectors, UdiskSectors, TotalOf(t))],
   data |-> d]

\* What the sectors of a file may hold.
DataOf(t) == [PrefixSectors(t) -> Contents]

ShapeInv ==
  /\ stage \in Made =>
       /\ prefix = [table |-> manifest.table, data |-> prefix.data]
       /\ prefix.data \in DataOf(manifest.table)
  /\ stage \in Composed =>
       /\ Composable(manifest.table, SlotSectors, UdiskSectors, TotalOf(manifest.table))
       /\ image = ImageOf(manifest.table, image.data)
       /\ image.data \in DataOf(manifest.table)

LEMMA ImageFields ==
  ASSUME NEW t, NEW d, NEW e
  PROVE  /\ ImageOf(t, d).data = d
         /\ ImageOf(t, d).table = ComposedTable(t, SlotSectors, UdiskSectors, TotalOf(t))
         /\ [ImageOf(t, d) EXCEPT !.data = e] = ImageOf(t, e)
<1>1. /\ ImageOf(t, d).data = d
      /\ ImageOf(t, d).table = ComposedTable(t, SlotSectors, UdiskSectors, TotalOf(t))
  BY DEF ImageOf
<1>2. [ImageOf(t, d) EXCEPT !.data = e] = ImageOf(t, e)
  <2> DEFINE n == TotalOf(t)
             yes == TRUE
             u == LastUsable(n)
             a == ComposedTable(t, SlotSectors, UdiskSectors, n)
             b == [ok |-> TRUE, lastUsable |-> u, table |-> a]
             shell(c) == [sectors |-> n, headerOk |-> yes, backupLba |-> n - 1,
                          lastUsable |-> u, table |-> a, backup |-> b, data |-> c]
  <2>1. ImageOf(t, d) = shell(d) /\ ImageOf(t, e) = shell(e)
    BY DEF ImageOf
  <2> HIDE DEF n, yes, u, a, b
  <2>2. [shell(d) EXCEPT !.data = e] = shell(e)
    OBVIOUS
  <2> QED
    BY <2>1, <2>2
<1> QED
  BY <1>1, <1>2

LEMMA ComposeMakes ==
  ASSUME NEW t, NEW d, NEW p, p = [table |-> t, data |-> d]
  PROVE  Compose(p, SlotSectors, UdiskSectors, TotalOf(t)) = ImageOf(t, d)
BY DEF Compose, ImageOf

LEMMA PatchedContents ==
  ASSUME NEW c \in Contents
  PROVE  Patched(c) = [part |-> c.part + 20, off |-> c.off] /\ Patched(c) \in Contents
BY DEF Patched, Contents

LEMMA PackagePatches ==
  ASSUME NEW S, NEW d \in [S -> Contents]
  PROVE  /\ PatchedWhere(d, InPackage) \in [S -> Contents]
         /\ \A s \in S : PatchedWhere(d, InPackage)[s] = IF InPackage(s) THEN Patched(d[s]) ELSE d[s]
<1>1. PatchedWhere(d, InPackage) = [s \in S |-> IF InPackage(s) THEN Patched(d[s]) ELSE d[s]]
  BY DEF PatchedWhere
<1>2. \A s \in S : d[s] \in Contents /\ Patched(d[s]) \in Contents
  BY PatchedContents
<1> QED
  BY <1>1, <1>2

LEMMA BootPatches ==
  ASSUME NEW S, NEW d \in [S -> Contents]
  PROVE  /\ PatchedWhere(d, InBoot) \in [S -> Contents]
         /\ \A s \in S : PatchedWhere(d, InBoot)[s] = IF InBoot(s) THEN Patched(d[s]) ELSE d[s]
<1>1. PatchedWhere(d, InBoot) = [s \in S |-> IF InBoot(s) THEN Patched(d[s]) ELSE d[s]]
  BY DEF PatchedWhere
<1>2. \A s \in S : d[s] \in Contents /\ Patched(d[s]) \in Contents
  BY PatchedContents
<1> QED
  BY <1>1, <1>2

LEMMA OneSector ==
  ASSUME NEW S, NEW d \in [S -> Contents], NEW s, NEW c \in Contents
  PROVE  [d EXCEPT ![s] = c] \in [S -> Contents]
OBVIOUS

LEMMA MarksAreContents == Junk \in Contents /\ Logo \in Contents
BY DEF Junk, Logo, Contents

LEMMA PrefixShape ==
  ASSUME NEW img \in GptImages, Preparable(img)
  PROVE  /\ Prefix(img).table = Layout(img) /\ Prefix(img).data = PrefixData(img)
         /\ Prefix(img) = [table |-> Layout(img), data |-> PrefixData(img)]
         /\ PrefixData(img) \in DataOf(Layout(img))
BY PrefixTrue DEF Prefix, DataOf

LEMMA ShapeStep == FileInv /\ ShapeInv /\ [FirmwareNext]_firmwareVars => ShapeInv'
<1> SUFFICES ASSUME FileInv, ShapeInv, [FirmwareNext]_firmwareVars PROVE ShapeInv'
  OBVIOUS
<1> DEFINE t == manifest.table
<1> USE DEF ShapeInv, Made, Composed
<1>1. CASE Pick
  BY <1>1 DEF Pick
<1>2. CASE PrepareStock
  <2>1. CASE Preparable(card)
    <3>1. /\ manifest' = Prefix(card) /\ prefix' = Prefix(card)
          /\ stage' = "prepared" /\ card \in Cards
      BY <1>2, <2>1 DEF PrepareStock, FileInv
    <3>2. prefix' = [table |-> (manifest.table)', data |-> (prefix.data)']
            /\ (prefix.data)' \in DataOf((manifest.table)')
      BY <2>1, <3>1, FirmwareAssumption, PrefixShape
    <3> QED
      BY <3>1, <3>2 DEF DataOf, PrefixSectors
  <2>2. CASE ~Preparable(card)
    BY <1>2, <2>2 DEF PrepareStock
  <2> QED
    BY <2>1, <2>2
<1>3. CASE ComposeImage
  <2>0. UNCHANGED <<manifest, prefix>> /\ stage = "prepared" /\ stage' \in {"composed", "refused"}
    BY <1>3 DEF ComposeImage
  <2>1. CASE stage' = "composed"
    <3>1. prefix = [table |-> t, data |-> prefix.data] /\ prefix.data \in DataOf(t)
      BY <2>0
    <3>2. Total = TotalOf(t)
      BY <3>1 DEF Total, TotalOf
    <3>3. /\ Composable(prefix.table, SlotSectors, UdiskSectors, Total)
          /\ image' = Compose(prefix, SlotSectors, UdiskSectors, Total)
      BY <1>3, <2>1 DEF ComposeImage
    <3>4. image' = ImageOf(t, prefix.data)
      BY <3>1, <3>2, <3>3, ComposeMakes
    <3>5. (image.data)' = prefix.data
      BY <3>4, ImageFields
    <3>6. Composable(t, SlotSectors, UdiskSectors, TotalOf(t))
      BY <3>1, <3>2, <3>3
    <3> QED
      BY <2>0, <2>1, <3>1, <3>4, <3>5, <3>6
         DEF DataOf, PrefixSectors, TotalOf, ImageOf, Composable, Eighth
  <2> QED
    BY <2>0, <2>1
<1>4. ASSUME stage \in Composed, stage' \in Composed \union {"refused"},
             UNCHANGED <<manifest, prefix>>,
             \/ UNCHANGED image
             \/ \E d \in DataOf(t) : image' = [image EXCEPT !.data = d]
      PROVE  ShapeInv'
  <2>1. CASE UNCHANGED image
    BY <1>4, <2>1
  <2>2. CASE \E d \in DataOf(t) : image' = [image EXCEPT !.data = d]
    <3>1. PICK d \in DataOf(t) : image' = [image EXCEPT !.data = d]
      BY <2>2
    <3>2. image' = ImageOf(t, d) /\ (image.data)' = d
      BY <1>4, <3>1, ImageFields
    <3> QED
      BY <1>4, <3>2
         DEF DataOf, PrefixSectors, TotalOf, ImageOf, Composable, Eighth
  <2> QED
    BY <1>4, <2>1, <2>2
<1>5. CASE ApplyPackage
  <2>1. CASE image' = [image EXCEPT !.data = PatchedWhere(@, InPackage)]
    <3>1. image.data \in DataOf(t)
      BY <1>5 DEF ApplyPackage
    <3>2. PatchedWhere(image.data, InPackage) \in DataOf(t)
      BY <3>1, PackagePatches DEF DataOf
    <3> QED
      BY <1>4, <1>5, <2>1, <3>2 DEF ApplyPackage
  <2>2. CASE UNCHANGED image
    BY <1>4, <1>5, <2>2 DEF ApplyPackage
  <2> QED
    BY <1>5, <2>1, <2>2 DEF ApplyPackage
<1>6. CASE ApplyBoot
  <2>1. CASE image' = [image EXCEPT !.data = PatchedWhere(@, InBoot)]
    <3>1. image.data \in DataOf(t)
      BY <1>6 DEF ApplyBoot
    <3>2. PatchedWhere(image.data, InBoot) \in DataOf(t)
      BY <3>1, BootPatches DEF DataOf
    <3> QED
      BY <1>4, <1>6, <2>1, <3>2 DEF ApplyBoot
  <2>2. CASE UNCHANGED image
    BY <1>4, <1>6, <2>2 DEF ApplyBoot
  <2> QED
    BY <1>6, <2>1, <2>2 DEF ApplyBoot
<1>7. CASE ReplaceLogo
  <2>1. PICK s : image' = [image EXCEPT !.data[s] = Logo]
    BY <1>7 DEF ReplaceLogo
  <2>2. image.data \in DataOf(t)
    BY <1>7 DEF ReplaceLogo
  <2>3. [image.data EXCEPT ![s] = Logo] \in DataOf(t)
    BY <2>2, OneSector, MarksAreContents DEF DataOf
  <2>4. image' = [image EXCEPT !.data = [image.data EXCEPT ![s] = Logo]]
    BY <2>1
  <2> QED
    BY <1>4, <1>7, <2>3, <2>4 DEF ReplaceLogo
<1>8. CASE VerifyImage \/ CutPayload
  BY <1>4, <1>8 DEF VerifyImage, CutPayload
<1>9. CASE Again
  BY <1>9 DEF Again
<1>10. CASE Damage
  <2>0. stage' = stage /\ manifest' = manifest
    BY <1>10 DEF Damage
  <2>1. CASE \E s \in DOMAIN prefix.data : prefix' = [prefix EXCEPT !.data[s] = Junk] /\ UNCHANGED image
    <3>1. PICK s : prefix' = [prefix EXCEPT !.data[s] = Junk]
      BY <2>1
    <3>2. prefix = [table |-> t, data |-> prefix.data] /\ prefix.data \in DataOf(t)
      BY <1>10 DEF Damage
    <3>3. [prefix.data EXCEPT ![s] = Junk] \in DataOf(t)
      BY <3>2, OneSector, MarksAreContents DEF DataOf
    <3>4. prefix' = [table |-> t, data |-> [prefix.data EXCEPT ![s] = Junk]]
      BY <3>1, <3>2
    <3> QED
      BY <2>0, <2>1, <3>3, <3>4
  <2>2. CASE \E s \in DOMAIN image.data : stage # "prepared"
               /\ image' = [image EXCEPT !.data[s] = Junk] /\ UNCHANGED prefix
    <3>1. PICK s : image' = [image EXCEPT !.data[s] = Junk]
      BY <2>2
    <3>2. image.data \in DataOf(t) /\ stage \in Composed
      BY <1>10, <2>2 DEF Damage
    <3>3. [image.data EXCEPT ![s] = Junk] \in DataOf(t)
      BY <3>2, OneSector, MarksAreContents DEF DataOf
    <3>4. image' = [image EXCEPT !.data = [image.data EXCEPT ![s] = Junk]]
      BY <3>1
    <3> QED
      BY <1>4, <2>0, <2>2, <3>2, <3>3, <3>4
  <2> QED
    BY <1>10, <2>1, <2>2 DEF Damage
<1>11. CASE UNCHANGED firmwareVars
  BY <1>11 DEF firmwareVars
<1> QED
  BY <1>1, <1>2, <1>3, <1>5, <1>6, <1>7, <1>8, <1>9, <1>10, <1>11 DEF FirmwareNext

LEMMA ShapeInvariant == FirmwareSpec => [](FileInv /\ ShapeInv)
<1>1. FirmwareInit => ShapeInv
  BY DEF FirmwareInit, ShapeInv, Made, Composed
<1> QED
  BY <1>1, FileInvInit, FileInvStep, ShapeStep, PTL DEF FirmwareSpec

-----------------------------------------------------------------------------
(* The table of the image. *)

\* An entry with all its fields.
IsEntry(e) ==
  e = [name |-> e.name, id |-> e.id, first |-> e.first, last |-> e.last, hidden |-> e.hidden]

LEMMA RecordIsEntry ==
  ASSUME NEW n, NEW g, NEW f, NEW l, NEW h
  PROVE  IsEntry([name |-> n, id |-> g, first |-> f, last |-> l, hidden |-> h])
BY DEF IsEntry

LEMMA RecastEntry ==
  ASSUME NEW e, IsEntry(e), NEW a, NEW b
  PROVE  /\ IsEntry([e EXCEPT !.name = "special", !.last = b])
         /\ IsEntry([e EXCEPT !.first = a, !.last = b])
<1> DEFINE n == e.name
           g == e.id
           f == e.first
           l == e.last
           k == e.hidden
           s == "special"
           q == [e EXCEPT !.name = s, !.last = b]
           r == [e EXCEPT !.first = a, !.last = b]
<1>1. e = [name |-> n, id |-> g, first |-> f, last |-> l, hidden |-> k]
  BY DEF IsEntry
<1>2. q = [e EXCEPT !.name = s, !.last = b] /\ r = [e EXCEPT !.first = a, !.last = b]
  OBVIOUS
<1> HIDE DEF n, g, f, l, k, s, q, r
<1>3. q = [name |-> q.name, id |-> q.id, first |-> q.first, last |-> q.last, hidden |-> q.hidden]
  BY <1>1, <1>2
<1>4. r = [name |-> r.name, id |-> r.id, first |-> r.first, last |-> r.last, hidden |-> r.hidden]
  BY <1>1, <1>2
<1> QED
  BY <1>2, <1>3, <1>4 DEF IsEntry, s

LEMMA LayoutEntries ==
  ASSUME NEW img \in GptImages, Preparable(img), NEW i \in Numbers
  PROVE  IsEntry(Layout(img)[i])
<1> DEFINE t == img.table
           e == t[i]
           n == Layout(img)[i]
<1>1. IsEntry(e)
  BY EntryTypes DEF IsEntry, GptImages
<1>2. \/ n = e
      \/ n = [e EXCEPT !.name = "special", !.last = t[1].first + SpecialSectors - 1]
      \/ n = [e EXCEPT !.first = e.first - Shift(t), !.last = e.last - Shift(t)]
  <2>1. CASE ~FromStock(img)
    BY <2>1 DEF Layout
  <2>2. CASE FromStock(img)
    <3>1. n = NormaliseTable(t)[i]
      BY <2>2 DEF Layout
    <3>2. CASE i = 1
      BY <3>1, <3>2 DEF NormaliseTable
    <3>3. CASE i # 1 /\ Used(t[i])
      BY <3>1, <3>3 DEF NormaliseTable
    <3>4. CASE i # 1 /\ ~Used(t[i])
      BY <3>1, <3>4 DEF NormaliseTable
    <3> QED
      BY <3>2, <3>3, <3>4
  <2> QED
    BY <2>1, <2>2
<1> DEFINE a == e.first - Shift(t)
           b == e.last - Shift(t)
           c == t[1].first + SpecialSectors - 1
<1>3. \/ n = e
      \/ n = [e EXCEPT !.name = "special", !.last = c]
      \/ n = [e EXCEPT !.first = a, !.last = b]
  BY <1>2
<1> HIDE DEF a, b, c, n, e
<1>4. /\ IsEntry([e EXCEPT !.name = "special", !.last = c])
      /\ IsEntry([e EXCEPT !.first = a, !.last = b])
  BY <1>1, RecastEntry
<1>5. IsEntry(n)
  BY <1>1, <1>3, <1>4
<1> QED
  BY <1>5 DEF n

LEMMA PlacedEntry ==
  ASSUME NEW e, IsEntry(e), NEW a, NEW b, NEW h
  PROVE  Placed(e, a, b, h) = [name |-> e.name, id |-> e.id, first |-> a, last |-> b, hidden |-> h]
<1> DEFINE n == e.name
           g == e.id
           f == e.first
           l == e.last
           k == e.hidden
           r == Placed(e, a, b, h)
<1>1. e = [name |-> n, id |-> g, first |-> f, last |-> l, hidden |-> k]
  BY DEF IsEntry
<1>2. r = [e EXCEPT !.first = a, !.last = b, !.hidden = h]
  BY DEF Placed
<1> HIDE DEF n, g, f, l, k, r
<1>3. r = [name |-> r.name, id |-> r.id, first |-> r.first, last |-> r.last, hidden |-> r.hidden]
  BY <1>1, <1>2
<1>4. r.name = n
  BY <1>1, <1>2
<1>5. r.id = g
  BY <1>1, <1>2
<1>6. r.first = a
  BY <1>1, <1>2
<1>7. r.last = b
  BY <1>1, <1>2
<1>8. r.hidden = h
  BY <1>1, <1>2
<1>9. r = [name |-> n, id |-> g, first |-> a, last |-> b, hidden |-> h]
  BY <1>3, <1>4, <1>5, <1>6, <1>7, <1>8
<1> QED
  BY <1>9 DEF n, g, r

\* The entries mkgpt.py writes: the four boot partitions stay, slot A is where
\* the vendor's rootfs was, and the user's partition fills the rest.
ImageEntries(c, t, slot, udisk, total) ==
  /\ \A i \in 1 .. 4 :
       c[i] = [name |-> t[i].name, id |-> t[i].id, first |-> t[i].first,
               last |-> t[i].last, hidden |-> TRUE]
  /\ c[5] = [name |-> t[5].name, id |-> t[5].id, first |-> t[5].first,
             last |-> t[5].first + slot - 1, hidden |-> TRUE]
  /\ c[6] = [name |-> t[7].name, id |-> t[7].id, first |-> t[5].first + 2 * slot,
             last |-> t[5].first + 2 * slot + udisk - 1, hidden |-> TRUE]
  /\ c[7] = [name |-> Eighth(t).name, id |-> Eighth(t).id,
             first |-> t[5].first + 2 * slot + udisk, last |-> LastUsable(total),
             hidden |-> FALSE]
  /\ c[8] = NoEntry

LEMMA ComposedEntries ==
  ASSUME NEW t, \A i \in Numbers : IsEntry(t[i]), NEW slot, NEW udisk, NEW total
  PROVE  ImageEntries(ComposedTable(t, slot, udisk, total), t, slot, udisk, total)
<1> DEFINE c == ComposedTable(t, slot, udisk, total)
           data == t[5].first + 2 * slot
           yes == TRUE
           no == FALSE
<1>1. /\ c[1] = Placed(t[1], t[1].first, t[1].last, yes)
      /\ c[2] = Placed(t[2], t[2].first, t[2].last, yes)
      /\ c[3] = Placed(t[3], t[3].first, t[3].last, yes)
      /\ c[4] = Placed(t[4], t[4].first, t[4].last, yes)
      /\ c[5] = Placed(t[5], t[5].first, t[5].first + slot - 1, yes)
      /\ c[6] = Placed(t[7], data, data + udisk - 1, yes)
      /\ c[7] = Placed(Eighth(t), data + udisk, LastUsable(total), no)
      /\ c[8] = NoEntry
  BY DEF ComposedTable
<1>2. IsEntry(Eighth(t))
  <2>1. IsEntry(Primary)
    <3> DEFINE h == FALSE
    <3>1. Primary = [name |-> "primary", id |-> 9, first |-> 0, last |-> 0, hidden |-> h]
      BY DEF Primary
    <3> HIDE DEF h
    <3> QED
      BY <3>1, RecordIsEntry
  <2> QED
    BY <2>1 DEF Eighth, Numbers
<1>3. \A i \in 1 .. 8 : IsEntry(t[i])
  BY DEF Numbers
<1> HIDE DEF c, data, yes, no
<1>4. \A i \in 1 .. 4 : c[i] = Placed(t[i], t[i].first, t[i].last, yes)
  BY <1>1
<1>5. \A i \in 1 .. 4 :
        c[i] = [name |-> t[i].name, id |-> t[i].id, first |-> t[i].first,
                last |-> t[i].last, hidden |-> yes]
  <2> TAKE i \in 1 .. 4
  <2>1. IsEntry(t[i])
    BY <1>3
  <2> QED
    BY <1>4, <2>1, PlacedEntry
<1>6. IsEntry(t[5]) /\ IsEntry(t[7])
  BY <1>3
<1>7. c[5] = [name |-> t[5].name, id |-> t[5].id, first |-> t[5].first,
              last |-> t[5].first + slot - 1, hidden |-> yes]
  BY <1>1, <1>6, PlacedEntry
<1>8. c[6] = [name |-> t[7].name, id |-> t[7].id, first |-> data,
              last |-> data + udisk - 1, hidden |-> yes]
  BY <1>1, <1>6, PlacedEntry
<1>9. c[7] = [name |-> Eighth(t).name, id |-> Eighth(t).id, first |-> data + udisk,
              last |-> LastUsable(total), hidden |-> no]
  BY <1>1, <1>2, PlacedEntry
<1> QED
  BY <1>1, <1>5, <1>7, <1>8, <1>9 DEF c, data, yes, no, ImageEntries

\* What is known of an image from its composition on.
LEMMA ImageTableOf ==
  ASSUME FileInv, ShapeInv, stage \in Composed
  PROVE  LET t == manifest.table
             c == image.table
         IN  /\ card \in GptImages /\ Preparable(card)
             /\ t = Layout(card) /\ Plain(t) /\ Ordered(t)
             /\ c = ComposedTable(t, SlotSectors, UdiskSectors, TotalOf(t))
             /\ ImageEntries(c, t, SlotSectors, UdiskSectors, TotalOf(t))
<1> DEFINE t == manifest.table
           c == image.table
<1>1. card \in GptImages /\ Preparable(card) /\ manifest = Prefix(card)
  BY FirmwareAssumption DEF FileInv, Made, Composed
<1>2. t = Layout(card)
  BY <1>1 DEF Prefix
<1>3. Plain(t) /\ Ordered(t)
  BY <1>1, <1>2, LayoutOrdered
<1>4. \A i \in Numbers : IsEntry(t[i])
  BY <1>1, <1>2, LayoutEntries
<1>5. c = ComposedTable(t, SlotSectors, UdiskSectors, TotalOf(t))
  <2>1. image = ImageOf(t, image.data)
    BY DEF ShapeInv
  <2> QED
    BY <2>1, ImageFields
<1> HIDE DEF t, c
<1>6. ImageEntries(c, t, SlotSectors, UdiskSectors, TotalOf(t))
  BY <1>4, <1>5, ComposedEntries
<1> QED
  BY <1>1, <1>2, <1>3, <1>5, <1>6 DEF t, c

\* mkupdate.py cuts the payload from entry 5 of the image it is given.
CutInv == stage = "payload" => payload = RootfsExtent(image)

LEMMA CutInvariant == FirmwareSpec => []CutInv
<1>1. FirmwareInit => CutInv
  BY DEF FirmwareInit, CutInv
<1>2. CutInv /\ [FirmwareNext]_firmwareVars => CutInv'
  <2> SUFFICES ASSUME CutInv, [FirmwareNext]_firmwareVars PROVE CutInv'
    OBVIOUS
  <2> USE DEF CutInv
  <2>1. CASE CutPayload
    BY <2>1 DEF CutPayload, RootfsExtent
  <2>2. CASE UNCHANGED firmwareVars
    BY <2>2 DEF firmwareVars, RootfsExtent
  <2>3. CASE FirmwareNext /\ ~CutPayload
    <3>1. stage' # "payload"
      BY <2>3 DEF FirmwareNext, Pick, PrepareStock, ComposeImage, ApplyPackage, ApplyBoot,
                  ReplaceLogo, VerifyImage, Again, Damage
    <3> QED
      BY <3>1
  <2> QED
    BY <2>1, <2>2, <2>3
<1> QED
  BY <1>1, <1>2, PTL DEF FirmwareSpec

\* Whatever card and whatever sizes were asked for: an image has slot A right
\* behind the boot chain, slot B of the same size behind it, and the payload is
\* slot A.
THEOREM ImageHasSlots == FirmwareSpec => []SlotsComposed
<1>1. FileInv /\ ShapeInv /\ CutInv => SlotsComposed
  <2> SUFFICES ASSUME FileInv, ShapeInv, CutInv, Done PROVE SlotsComposed
    BY DEF SlotsComposed
  <2> DEFINE t == manifest.table
             c == image.table
             view == SlotView(c)
             b == t[5].first
  <2>1. stage \in Composed
    BY DEF Done, Composed, Made
  <2>2. /\ Plain(t)
        /\ c[4].last = t[4].last
        /\ c[5].first = b /\ c[5].last = b + SlotSectors - 1
        /\ c[6].first = b + 2 * SlotSectors
    BY <2>1, ImageTableOf DEF ImageEntries
  <2>3. /\ b \in Nat /\ t[4].last \in Nat
        /\ SlotSectors \in Nat /\ SlotSectors >= 2
    BY <2>2, FirmwareAssumption DEF Plain, Numbers
  <2>4. b = t[4].last + 1
    BY <2>1 DEF ShapeInv, Composable
  <2>5. DOMAIN image.data = PrefixSectors(t)
    BY <2>1 DEF ShapeInv, DataOf
  <2>6. stage = "payload" => payload.start = c[5].first /\ payload.sectors = Size(c[5])
    BY DEF CutInv, RootfsExtent
  <2>7. /\ view.bootEnd = c[4].last /\ view.rootStart = c[5].first
        /\ view.rootEnd = c[5].last /\ view.udiskStart = c[6].first
    BY DEF SlotView
  <2> HIDE DEF t, c, view, b
  <2>8. Sectors(view) = SlotSectors /\ Base(view) = b
    BY <2>2, <2>3, <2>4, <2>7 DEF Sectors, Base
  <2>9. AtA(view)
    BY <2>2, <2>7, <2>8 DEF AtA
  <2>10. IsSlotLayout(view)
    BY <2>2, <2>3, <2>7, <2>8, <2>9 DEF IsSlotLayout
  <2>11. \A s \in DOMAIN image.data : s < view.rootStart
    <3>1. \A s \in PrefixSectors(t) : s < b
      BY <2>3 DEF PrefixSectors, b
    <3> QED
      BY <2>2, <2>5, <2>7, <3>1
  <2>12. ASSUME stage = "payload"
         PROVE  payload.start .. payload.start + payload.sectors - 1 = RootSlot(view)
    <3>1. payload.start = b /\ payload.sectors = SlotSectors
      BY <2>2, <2>3, <2>6, <2>12 DEF Size
    <3>2. RootSlot(view) = b .. b + SlotSectors - 1
      BY <2>2, <2>7 DEF RootSlot
    <3> QED
      BY <3>1, <3>2
  <2> QED
    BY <2>9, <2>10, <2>11, <2>12 DEF SlotsComposed, view, c
<1> QED
  BY <1>1, ShapeInvariant, CutInvariant, PTL

-----------------------------------------------------------------------------
(* What passed verify-image. *)

VerifiedInv ==
  Done => VerifyPrepared /\ VerifyComposed(manifest.table, prefix, image)

LEMMA VerifiedInvariant == FirmwareSpec => []VerifiedInv
<1>1. FirmwareInit => VerifiedInv
  BY DEF FirmwareInit, VerifiedInv, Done
<1>2. VerifiedInv /\ [FirmwareNext]_firmwareVars => VerifiedInv'
  <2> SUFFICES ASSUME VerifiedInv, [FirmwareNext]_firmwareVars PROVE VerifiedInv'
    OBVIOUS
  <2>1. ASSUME UNCHANGED <<manifest, prefix, image>>,
               VerifyPrepared /\ VerifyComposed(manifest.table, prefix, image)
        PROVE  VerifiedInv'
    <3>1. VerifyPrepared' <=> VerifyPrepared
      BY <2>1 DEF VerifyPrepared
    <3>2. VerifyComposed(manifest.table, prefix, image)'
            <=> VerifyComposed(manifest.table, prefix, image)
      BY <2>1
    <3> QED
      BY <2>1, <3>1, <3>2 DEF VerifiedInv
  <2>2. CASE VerifyImage /\ stage' = "verified"
    BY <2>1, <2>2 DEF VerifyImage
  <2>3. CASE CutPayload
    BY <2>1, <2>3 DEF CutPayload, VerifiedInv, Done
  <2>4. CASE UNCHANGED firmwareVars
    <3>1. CASE Done
      BY <2>1, <2>4, <3>1 DEF firmwareVars, VerifiedInv
    <3>2. CASE ~Done
      BY <2>4, <3>2 DEF firmwareVars, VerifiedInv, Done
    <3> QED
      BY <3>1, <3>2
  <2>5. CASE FirmwareNext /\ ~(VerifyImage /\ stage' = "verified") /\ ~CutPayload
    <3>1. stage' \notin {"verified", "payload"}
      BY <2>5 DEF FirmwareNext, Pick, PrepareStock, ComposeImage, ApplyPackage, ApplyBoot,
                  ReplaceLogo, VerifyImage, Again, Damage
    <3> QED
      BY <3>1 DEF VerifiedInv, Done
  <2> QED
    BY <2>2, <2>3, <2>4, <2>5
<1> QED
  BY <1>1, <1>2, PTL DEF FirmwareSpec

\* The pair is put over a prefix sector by sector.
LEMMA GzipSectors ==
  ASSUME NEW S, NEW d \in [S -> Contents]
  PROVE  /\ GzipData(d) \in [S -> Contents]
         /\ DOMAIN GzipData(d) = S
         /\ \A s \in S :
              /\ ~InPackage(s) /\ ~InBoot(s) => GzipData(d)[s] = d[s]
              /\ InPackage(s) /\ ~InBoot(s) => GzipData(d)[s] = Patched(d[s])
              /\ ~InPackage(s) /\ InBoot(s) => GzipData(d)[s] = Patched(d[s])
<1> DEFINE g == PatchedWhere(d, InPackage)
<1>1. /\ g \in [S -> Contents]
      /\ \A s \in S : g[s] = IF InPackage(s) THEN Patched(d[s]) ELSE d[s]
  BY PackagePatches
<1>2. GzipData(d) = PatchedWhere(g, InBoot)
  BY DEF GzipData
<1> HIDE DEF g
<1> DEFINE h == PatchedWhere(g, InBoot)
<1>3. /\ h \in [S -> Contents]
      /\ \A s \in S : h[s] = IF InBoot(s) THEN Patched(g[s]) ELSE g[s]
  BY <1>1, BootPatches
<1> HIDE DEF h
<1>4. GzipData(d) = h
  BY <1>2 DEF h
<1> QED
  BY <1>1, <1>3, <1>4

\* The pair belongs where it was pinned: the package in the raw boot region,
\* the kernel over all of p4 from its first sector on.
LEMMA PinnedPlaces ==
  ASSUME NEW img \in GptImages, Preparable(img), Pinned(PrefixData(img))
  PROVE  LET n == Layout(img) IN
         /\ \A s \in Int : InPackage(s) => s \in 4 .. n[1].first - 1
         /\ \A s \in Int : InBoot(s) => s \in n[4].first .. n[4].last
         /\ BootSectors > 0 => BootAt = n[4].first
<1> DEFINE n == Layout(img)
           d == PrefixData(img)
<1>1. /\ d \in [PrefixSectors(n) -> Contents]
      /\ \A s \in PrefixSectors(n) : d[s].part = 0 => s < n[1].first
      /\ \A s \in PrefixSectors(n) : d[s].part = 4 =>
           s \in n[4].first .. n[4].last /\ d[s].off = s - n[4].first
  BY PrefixTrue
<1>2. Plain(n)
  BY LayoutOrdered
<1>3. /\ \A s \in PackageAt .. PackageAt + PackageSectors - 1 :
           s \in DOMAIN d /\ d[s] = [part |-> 0, off |-> s]
      /\ \A s \in BootAt .. BootAt + BootSectors - 1 :
           s \in DOMAIN d /\ d[s] = [part |-> 4, off |-> s - BootAt]
  BY DEF Pinned, PackagePinned, BootPinned
<1> HIDE DEF n, d
<1>4. DOMAIN d = PrefixSectors(n)
  BY <1>1
<1>5. n[1].first \in Nat /\ n[4].first \in Nat /\ n[4].last \in Nat /\ n[5].first \in Nat
  BY <1>2 DEF Plain, Numbers
<1>6. PackageAt \in Nat /\ PackageSectors \in Nat /\ BootAt \in Nat /\ BootSectors \in Nat
  BY StockAssumption
<1>7. ASSUME NEW s \in Int, InPackage(s) PROVE s \in 4 .. n[1].first - 1
  <2>1. s \in PrefixSectors(n) /\ d[s] = [part |-> 0, off |-> s]
    BY <1>3, <1>4, <1>7 DEF InPackage
  <2>2. s < n[1].first /\ s >= 4
    <3>1. d[s].part = 0
      BY <2>1
    <3> QED
      BY <1>1, <1>5, <2>1, <3>1 DEF PrefixSectors
  <2> QED
    BY <1>5, <2>2
<1>8. ASSUME NEW s \in Int, InBoot(s)
      PROVE  s \in n[4].first .. n[4].last /\ s - BootAt = s - n[4].first
  <2>1. s \in PrefixSectors(n) /\ d[s] = [part |-> 4, off |-> s - BootAt]
    BY <1>3, <1>4, <1>8 DEF InBoot
  <2>2. d[s].part = 4 /\ d[s].off = s - BootAt
    BY <2>1
  <2> QED
    BY <1>1, <2>1, <2>2
<1>9. ASSUME BootSectors > 0 PROVE BootAt = n[4].first
  <2>1. InBoot(BootAt) /\ BootAt \in Int
    BY <1>6, <1>9 DEF InBoot
  <2>2. BootAt - BootAt = BootAt - n[4].first
    BY <1>8, <2>1
  <2> QED
    BY <1>5, <1>6, <2>2
<1> QED
  BY <1>7, <1>8, <1>9 DEF n

\* Whatever was damaged on the way and however often: an image that passes
\* verify-image has the card's own boot chain, patched where the pair belongs.
THEOREM VerifiedIsTheVendors == FirmwareSpec => []VerifiedHoldsBootChain
<1>1. FileInv /\ ShapeInv /\ VerifiedInv => VerifiedHoldsBootChain
  <2> SUFFICES ASSUME FileInv, ShapeInv, VerifiedInv, Done PROVE VerifiedHoldsBootChain
    BY DEF VerifiedHoldsBootChain
  <2> DEFINE t == manifest.table
             c == image.table
             d == PrefixData(card)
             e == image.data
  <2>1. stage \in Composed
    BY DEF Done, Composed, Made
  <2>2. /\ card \in GptImages /\ Preparable(card) /\ t = Layout(card) /\ Plain(t) /\ Ordered(t)
        /\ \A i \in 1 .. 4 : c[i].first = t[i].first
    BY <2>1, ImageTableOf DEF ImageEntries
  <2>3. prefix.data = d
    <3>1. prefix = manifest /\ manifest = Prefix(card)
      BY <2>1 DEF VerifiedInv, VerifyPrepared, FileInv, Composed
    <3> QED
      BY <3>1 DEF Prefix
  <2>4. /\ Pinned(d)
        /\ \A s \in t[3].first .. t[3].last : e[s] = d[s]
        /\ Size(t[4]) = BootSectors
        /\ \A k \in 0 .. BootSectors - 1 : e[t[4].first + k] = Patched(d[BootAt + k])
        /\ \A s \in 4 .. t[1].first - 1 : e[s] = GzipData(d)[s]
    BY <2>3 DEF VerifiedInv, VerifyComposed
  <2>5. /\ d \in [PrefixSectors(t) -> Contents]
        /\ \A s \in 4 .. t[1].first - 1 : d[s] = Original(0, s)
        /\ \A i \in 2 .. 4 : \A s \in t[i].first .. t[i].last :
              d[s] = Original(i, s - t[i].first)
    BY <2>2, PrefixTrue
  <2>6. /\ \A s \in Int : InPackage(s) => s \in 4 .. t[1].first - 1
        /\ \A s \in Int : InBoot(s) => s \in t[4].first .. t[4].last
        /\ BootSectors > 0 => BootAt = t[4].first
    BY <2>2, <2>4, PinnedPlaces
  <2>7. \A i \in 2 .. 4 : Size(t[i]) = Size(card.table[i])
    BY <2>2, LayoutOrdered
  <2>8. /\ \A s \in 4 .. t[1].first - 1 : s \in PrefixSectors(t)
        /\ \A s \in t[4].first .. t[4].last : t[1].first < s
    BY <2>2, SectorPlaces
  <2> HIDE DEF t, c, d, e
  <2>9. /\ t[1].first \in Nat /\ t[3].first \in Nat /\ t[3].last \in Nat
        /\ t[4].first \in Nat /\ t[4].last \in Nat /\ t[4].first <= t[4].last
    BY <2>2 DEF Plain, Ordered, Firsts, Numbers
  <2>10. ASSUME NEW s \in 4 .. t[1].first - 1
         PROVE  e[s] = IF InPackage(s) THEN Patched(Original(0, s)) ELSE Original(0, s)
    <3>1. s \in PrefixSectors(t) /\ d[s] = Original(0, s) /\ s \in Int /\ s < t[1].first
      BY <2>5, <2>8, <2>9
    <3>2. ~InBoot(s)
      BY <2>6, <2>8, <2>9, <3>1
    <3>3. GzipData(d)[s] = IF InPackage(s) THEN Patched(d[s]) ELSE d[s]
      BY <2>5, <3>1, <3>2, GzipSectors
    <3> QED
      BY <2>4, <3>1, <3>3
  <2>11. ASSUME NEW k \in 0 .. Size(card.table[3]) - 1
         PROVE  e[t[3].first + k] = Original(3, k)
    <3>1. /\ k \in 0 .. Size(t[3]) - 1 /\ Size(t[3]) = t[3].last - t[3].first + 1
      BY <2>7 DEF Size
    <3>2. /\ k \in Int /\ t[3].first + k \in t[3].first .. t[3].last
          /\ (t[3].first + k) - t[3].first = k
      BY <2>9, <3>1
    <3> QED
      BY <2>4, <2>5, <3>2
  <2>12. ASSUME NEW k \in 0 .. Size(card.table[4]) - 1
         PROVE  e[t[4].first + k] = Patched(Original(4, k))
    <3>1. /\ k \in 0 .. Size(t[4]) - 1 /\ Size(t[4]) = t[4].last - t[4].first + 1
          /\ Size(t[4]) = BootSectors
      BY <2>4, <2>7 DEF Size
    <3>2. /\ k \in Int /\ t[4].first + k \in t[4].first .. t[4].last
          /\ (t[4].first + k) - t[4].first = k /\ BootSectors > 0
      BY <2>9, <3>1
    <3>3. d[t[4].first + k] = Original(4, k) /\ BootAt = t[4].first
      BY <2>5, <2>6, <3>2
    <3> QED
      BY <2>4, <3>1, <3>3
  <2>13. c[1].first = t[1].first /\ c[3].first = t[3].first /\ c[4].first = t[4].first
    BY <2>2
  <2> QED
    BY <2>10, <2>11, <2>12, <2>13 DEF VerifiedHoldsBootChain, c, e
<1> QED
  BY <1>1, ShapeInvariant, VerifiedInvariant, PTL

-----------------------------------------------------------------------------
(* Nothing but damage is rejected. *)

LEMMA ImageAccepted ==
  ASSUME FileInv, ShapeInv, stage \in Composed
  PROVE  /\ Accepts(image, {BASEOS_NAMES})
         /\ \A i \in Numbers : Used(image.table[i]) =>
              image.table[i].hidden = (image.table[i].name # "primary")
<1> DEFINE t == manifest.table
           c == image.table
           b == t[5].first
           n == TotalOf(t)
<1>1. /\ Plain(t) /\ Ordered(t)
      /\ \A i \in 1 .. 4 :
           c[i] = [name |-> t[i].name, id |-> t[i].id, first |-> t[i].first,
                   last |-> t[i].last, hidden |-> TRUE]
      /\ c[5] = [name |-> t[5].name, id |-> t[5].id, first |-> t[5].first,
                 last |-> t[5].first + SlotSectors - 1, hidden |-> TRUE]
      /\ c[6] = [name |-> t[7].name, id |-> t[7].id, first |-> b + 2 * SlotSectors,
                 last |-> b + 2 * SlotSectors + UdiskSectors - 1, hidden |-> TRUE]
      /\ c[7] = [name |-> Eighth(t).name, id |-> Eighth(t).id,
                 first |-> b + 2 * SlotSectors + UdiskSectors,
                 last |-> LastUsable(n), hidden |-> FALSE]
      /\ c[8] = NoEntry
  BY ImageTableOf DEF ImageEntries
<1>2. /\ \A i \in 1 .. 7 : t[i].name = EXPECTED_NAMES[i]
      /\ Eighth(t).name = "primary"
  BY DEF ShapeInv, Composable
<1>3. /\ image.headerOk /\ image.sectors = n /\ image.backupLba = n - 1
      /\ image.lastUsable = LastUsable(n)
      /\ image.backup.ok /\ image.backup.lastUsable = LastUsable(n) /\ image.backup.table = c
  <2>1. image = ImageOf(t, image.data)
    BY DEF ShapeInv
  <2>2. /\ ImageOf(t, image.data).headerOk /\ ImageOf(t, image.data).sectors = n
        /\ ImageOf(t, image.data).backupLba = n - 1
        /\ ImageOf(t, image.data).lastUsable = LastUsable(n)
        /\ ImageOf(t, image.data).backup.ok
        /\ ImageOf(t, image.data).backup.lastUsable = LastUsable(n)
        /\ ImageOf(t, image.data).backup.table = ImageOf(t, image.data).table
    BY DEF ImageOf
  <2> HIDE DEF t, n
  <2> QED
    BY <2>1, <2>2
<1>4. n = b + 2 * SlotSectors + UdiskSectors + 5
  BY DEF TotalOf
<1> HIDE DEF t, c, b, n
<1>5. /\ \A i \in 1 .. 5 : t[i].first \in Nat /\ t[i].last \in Nat /\ t[i].first <= t[i].last
      /\ b \in Nat /\ b = t[5].first
      /\ 4 <= t[1].first /\ t[1].last < t[2].first /\ t[2].last < t[3].first
      /\ t[3].last < t[4].first /\ t[4].last < b
      /\ SlotSectors \in Nat /\ SlotSectors >= 2 /\ UdiskSectors \in Nat /\ UdiskSectors >= 1
  BY <1>1, FirmwareAssumption DEF Plain, Ordered, Firsts, Numbers, b
<1>6. LastUsable(n) = n - 4 /\ n \in Nat
  BY <1>4, <1>5 DEF LastUsable
<1>7. /\ c[1].first = t[1].first /\ c[1].last = t[1].last
      /\ c[2].first = t[2].first /\ c[2].last = t[2].last
      /\ c[3].first = t[3].first /\ c[3].last = t[3].last
      /\ c[4].first = t[4].first /\ c[4].last = t[4].last
      /\ c[5].first = b /\ c[5].last = b + SlotSectors - 1
      /\ c[6].first = b + 2 * SlotSectors /\ c[6].last = b + 2 * SlotSectors + UdiskSectors - 1
      /\ c[7].first = b + 2 * SlotSectors + UdiskSectors /\ c[7].last = LastUsable(n)
      /\ ~Used(c[8])
  BY <1>1, <1>5 DEF Used, NoEntry
<1>8. HeaderOk(image)
  BY <1>3, <1>6 DEF HeaderOk
<1>9. EntriesInside(image)
  <2>1. \A i \in 1 .. 7 : 4 <= c[i].first /\ c[i].first <= c[i].last /\ c[i].last <= n - 4
    <3>1. /\ 4 <= c[1].first /\ c[1].first <= c[1].last /\ c[1].last <= n - 4
          /\ 4 <= c[2].first /\ c[2].first <= c[2].last /\ c[2].last <= n - 4
          /\ 4 <= c[3].first /\ c[3].first <= c[3].last /\ c[3].last <= n - 4
          /\ 4 <= c[4].first /\ c[4].first <= c[4].last /\ c[4].last <= n - 4
      BY <1>4, <1>5, <1>7, SMTT(30)
    <3>2. /\ 4 <= c[5].first /\ c[5].first <= c[5].last /\ c[5].last <= n - 4
          /\ 4 <= c[6].first /\ c[6].first <= c[6].last /\ c[6].last <= n - 4
          /\ 4 <= c[7].first /\ c[7].first <= c[7].last /\ c[7].last <= n - 4
      BY <1>4, <1>5, <1>6, <1>7, SMTT(30)
    <3> QED
      BY <3>1, <3>2
  <2>2. \A i \in Numbers : Used(c[i]) => i \in 1 .. 7
    BY <1>7 DEF Numbers
  <2>3. \A i \in Numbers : Used(c[i]) =>
          4 <= c[i].first /\ c[i].first <= c[i].last /\ c[i].last <= n - 4
    BY <2>1, <2>2
  <2>4. \A i \in 1 .. 7 : c[i].last \in Int
    BY <1>5, <1>6, <1>7
  <2>5. \A i \in Numbers : Used(c[i]) => c[i].last < n
    BY <1>6, <2>2, <2>3, <2>4
  <2> QED
    BY <1>3, <1>6, <2>3, <2>5 DEF EntriesInside, c
<1>10. Disjoint(c)
  <2>1. /\ c[1].last < c[2].first /\ c[2].last < c[3].first /\ c[3].last < c[4].first
        /\ c[4].last < c[5].first /\ c[5].last < c[6].first /\ c[6].last < c[7].first
    BY <1>5, <1>7
  <2> QED
    BY <1>7, <2>1 DEF Disjoint
<1>11. /\ c[1].name = "special" /\ c[2].name = "boot-resource" /\ c[3].name = "env"
       /\ c[4].name = "boot" /\ c[5].name = "rootfs" /\ c[6].name = "UDISK"
       /\ c[7].name = "primary" /\ c[8].name = "none"
  BY <1>1, <1>2 DEF EXPECTED_NAMES, NoEntry
<1>12. NamesOf(c) = BASEOS_NAMES
  BY <1>11 DEF NamesOf, BASEOS_NAMES, Numbers
<1>13. FullDisk(image, {BASEOS_NAMES})
  BY <1>3, <1>12 DEF FullDisk, c
<1>14. Accepts(image, {BASEOS_NAMES})
  BY <1>8, <1>9, <1>10, <1>13 DEF Accepts, c
<1>15. ASSUME NEW i \in Numbers, Used(c[i]) PROVE c[i].hidden = (c[i].name # "primary")
  <2>1. /\ c[1].hidden /\ c[2].hidden /\ c[3].hidden /\ c[4].hidden /\ c[5].hidden
        /\ c[6].hidden /\ ~c[7].hidden
    BY <1>1
  <2>2. CASE i \in 1 .. 6
    <3>1. c[i].hidden = TRUE /\ c[i].name # "primary"
      BY <1>1, <1>11, <2>2
    <3> QED
      BY <3>1
  <2>3. CASE i = 7
    <3>1. c[i].hidden = FALSE /\ c[i].name = "primary"
      BY <1>1, <1>11, <2>3
    <3> QED
      BY <3>1
  <2> QED
    BY <1>7, <1>15, <2>2, <2>3 DEF Numbers
<1> QED
  BY <1>14, <1>15 DEF c

NamesInOrder(t) == \A i \in Numbers : Used(t[i]) => t[i].name = EXPECTED_NAMES[i]

\* What the image holds at each step while nothing was damaged.
CleanInv ==
  /\ damage \in Nat
  /\ stage \in Composed => NamesInOrder(manifest.table)
  /\ damage = 0 =>
       /\ stage # "rejected"
       /\ stage \in Made => prefix = manifest
       /\ stage \in {"package", "pair", "logo"} => Pinned(manifest.data)
       /\ stage = "composed" => image.data = manifest.data
       /\ stage = "package" => image.data = PatchedWhere(manifest.data, InPackage)
       /\ stage = "pair" => image.data = GzipData(manifest.data)
       /\ stage = "logo" => \E s \in manifest.table[2].first .. manifest.table[2].last :
                              image.data = [GzipData(manifest.data) EXCEPT ![s] = Logo]

LEMMA PairFits ==
  ASSUME NEW img \in GptImages, Preparable(img), Pinned(PrefixData(img))
  PROVE  PairApplied(PrefixData(img), GzipData(PrefixData(img)))
<1> DEFINE n == Layout(img)
           d == PrefixData(img)
<1>1. d \in [PrefixSectors(n) -> Contents]
  BY PrefixTrue
<1>2. /\ \A s \in Int : InPackage(s) => s \in 4 .. n[1].first - 1
      /\ \A s \in Int : InBoot(s) => s \in n[4].first .. n[4].last
  BY PinnedPlaces
<1>3. Plain(n) /\ Ordered(n)
  BY LayoutOrdered
<1>4. \A s \in n[4].first .. n[4].last : n[1].first < s
  BY <1>3, SectorPlaces
<1>5. n[1].first \in Nat /\ n[5].first \in Nat
  BY <1>3 DEF Plain, Numbers
<1> HIDE DEF n
<1>6. ASSUME NEW s \in PrefixSectors(n), InPackage(s) \/ InBoot(s)
      PROVE  GzipData(d)[s] = Patched(d[s])
  <2>1. s \in Int
    BY <1>5 DEF PrefixSectors
  <2>2. ~(InPackage(s) /\ InBoot(s))
    BY <1>2, <1>4, <1>5, <2>1
  <2> QED
    BY <1>1, <1>6, <2>2, GzipSectors
<1>7. DOMAIN GzipData(d) = PrefixSectors(n)
  BY <1>1, GzipSectors
<1> QED
  BY <1>6, <1>7 DEF PairApplied

\* What kernel_gzip.py and the logo make of an undamaged prefix is what
\* verify_composed asks for.
LEMMA CleanVerifies ==
  ASSUME FileInv, ShapeInv, PinsWholePartition, stage = "logo",
         NamesInOrder(manifest.table), prefix = manifest, Pinned(manifest.data),
         NEW z \in manifest.table[2].first .. manifest.table[2].last,
         image.data = [GzipData(manifest.data) EXCEPT ![z] = Logo]
  PROVE  VerifyComposed(manifest.table, prefix, image)
<1> DEFINE t == manifest.table
           c == image.table
           d == manifest.data
           e == image.data
           b == t[5].first
<1>1. stage \in Composed
  BY DEF Composed, Made
<1>2. /\ card \in GptImages /\ Preparable(card) /\ t = Layout(card) /\ Plain(t) /\ Ordered(t)
      /\ \A i \in 1 .. 4 : /\ c[i].name = t[i].name /\ c[i].id = t[i].id
                          /\ c[i].first = t[i].first /\ c[i].last = t[i].last
      /\ c[5].first = b /\ c[5].last = b + SlotSectors - 1
      /\ c[6].first = b + 2 * SlotSectors
  BY <1>1, ImageTableOf DEF ImageEntries
<1>3. card \in Cards /\ d = PrefixData(card)
  <2>1. card \in Cards /\ manifest = Prefix(card)
    BY <1>1 DEF FileInv, Composed
  <2> QED
    BY <2>1 DEF Prefix
<1>4. d \in [PrefixSectors(t) -> Contents]
  BY <1>2, <1>3, PrefixTrue
<1>5. /\ \A s \in Int : InPackage(s) => s \in 4 .. t[1].first - 1
      /\ \A s \in Int : InBoot(s) => s \in t[4].first .. t[4].last
      /\ BootSectors > 0 => BootAt = t[4].first
  BY <1>2, <1>3, PinnedPlaces
<1>6. Size(t[4]) = BootSectors
  BY <1>2, <1>3 DEF PinsWholePartition
<1>7. /\ Accepts(image, {BASEOS_NAMES})
      /\ \A i \in Numbers : Used(c[i]) => c[i].hidden = (c[i].name # "primary")
  BY <1>1, ImageAccepted
<1>8. prefix.data = d /\ e = [GzipData(d) EXCEPT ![z] = Logo] /\ Pinned(d) /\ NamesInOrder(t)
  OBVIOUS
<1>9. /\ \A s \in 4 .. t[1].first - 1 : s \in PrefixSectors(t)
      /\ \A i \in 1 .. 4 : \A s \in t[i].first .. t[i].last : s \in PrefixSectors(t)
  BY <1>2, SectorPlaces
<1>10. z \in t[2].first .. t[2].last
  OBVIOUS
<1> HIDE DEF t, c, d, e, b
<1>11. /\ t[1].first \in Nat /\ t[1].last \in Nat /\ t[2].first \in Nat /\ t[2].last \in Nat
       /\ t[3].first \in Nat /\ t[3].last \in Nat /\ t[4].first \in Nat /\ t[4].last \in Nat
       /\ b \in Nat /\ t[1].first <= t[1].last /\ t[2].first <= t[2].last
       /\ t[3].first <= t[3].last /\ t[4].first <= t[4].last /\ t[1].last < t[2].first
       /\ t[2].last < t[3].first /\ t[3].last < t[4].first
  BY <1>2 DEF Plain, Ordered, Firsts, Numbers, b
<1>12. \A s \in PrefixSectors(t) : s # z => e[s] = GzipData(d)[s]
  <2>1. GzipData(d) \in [PrefixSectors(t) -> Contents]
    BY <1>4, GzipSectors
  <2> QED
    BY <1>8, <2>1
<1>13. \A i \in 1 .. 4 : SameEntry(t[i], c[i])
  BY <1>2 DEF SameEntry
<1>14. ASSUME NEW i \in {1, 3}, NEW s \in t[i].first .. t[i].last
       PROVE  e[s] = d[s]
  <2>1. s \in PrefixSectors(t)
    BY <1>9
  <2>2. s \in Int /\ s # z /\ ~InPackage(s) /\ ~InBoot(s)
    BY <1>5, <1>10, <1>11
  <2>3. GzipData(d)[s] = d[s]
    BY <1>4, <2>1, <2>2, GzipSectors
  <2> QED
    BY <1>12, <2>1, <2>2, <2>3
<1>15. ASSUME NEW k \in 0 .. BootSectors - 1
       PROVE  e[t[4].first + k] = Patched(d[BootAt + k])
  <2>1. /\ BootSectors \in Nat /\ BootAt = t[4].first /\ k \in Int
        /\ BootSectors = t[4].last - t[4].first + 1
    BY <1>5, <1>6, <1>11, StockAssumption DEF Size
  <2> DEFINE s == t[4].first + k
  <2>2. s \in t[4].first .. t[4].last /\ s \in Int
    BY <1>11, <2>1
  <2>3. InBoot(s)
    BY <1>11, <2>1, <2>2 DEF InBoot
  <2>4. s \in PrefixSectors(t)
    BY <1>9, <2>2
  <2> HIDE DEF s
  <2>5. s # z /\ ~InPackage(s)
    BY <1>5, <1>10, <1>11, <2>2
  <2>6. GzipData(d)[s] = Patched(d[s])
    BY <1>4, <2>3, <2>4, <2>5, GzipSectors
  <2>7. e[s] = Patched(d[s])
    BY <1>12, <2>4, <2>5, <2>6
  <2> QED
    BY <2>1, <2>7 DEF s
<1>16. ASSUME NEW s \in 4 .. t[1].first - 1
       PROVE  e[s] = GzipData(d)[s]
  <2>1. s \in PrefixSectors(t) /\ s # z
    BY <1>9, <1>10, <1>11
  <2> QED
    BY <1>12, <2>1
<1>17. c[6].first = c[5].first + 2 * Size(c[5])
  <2>1. SlotSectors \in Nat
    BY FirmwareAssumption
  <2> QED
    BY <1>2, <1>11, <2>1 DEF Size
<1>18. t[5].first = b
  BY DEF b
<1> QED
  BY <1>2, <1>6, <1>7, <1>8, <1>13, <1>14, <1>15, <1>16, <1>17, <1>18
     DEF VerifyComposed, NamesInOrder, t, c, e

LEMMA CleanStep ==
  ASSUME PinsWholePartition, FileInv, ShapeInv, CleanInv, [FirmwareNext]_firmwareVars
  PROVE  CleanInv'
<1> DEFINE t == manifest.table
           d == manifest.data
<1> USE DEF CleanInv, Made, Composed
<1>1. CASE Pick
  BY <1>1 DEF Pick
<1>2. CASE PrepareStock
  BY <1>2 DEF PrepareStock
<1>3. CASE ComposeImage
  <2>1. UNCHANGED <<manifest, prefix, damage>> /\ stage = "prepared"
    BY <1>3 DEF ComposeImage
  <2>2. CASE stage' = "composed"
    <3>1. VerifyPrepared /\ image' = Compose(prefix, SlotSectors, UdiskSectors, Total)
      BY <1>3, <2>2 DEF ComposeImage
    <3>2. NamesInOrder(t) /\ prefix = manifest
      BY <3>1 DEF VerifyPrepared, NamesInOrder
    <3>3. image'.data = prefix.data
      BY <3>1 DEF Compose
    <3> QED
      BY <2>1, <2>2, <3>2, <3>3 DEF NamesInOrder
  <2>3. CASE stage' = "refused"
    BY <2>1, <2>3
  <2> QED
    BY <1>3, <2>2, <2>3 DEF ComposeImage
<1>4. CASE ApplyPackage
  <2>1. UNCHANGED <<manifest, prefix, damage>> /\ stage = "composed"
    BY <1>4 DEF ApplyPackage
  <2>2. CASE stage' = "package"
    <3>1. Pinned(prefix.data) /\ image' = [image EXCEPT !.data = PatchedWhere(@, InPackage)]
      BY <1>4, <2>2 DEF ApplyPackage
    <3>2. image = ImageOf(t, image.data)
      BY <2>1 DEF ShapeInv
    <3>3. image'.data = PatchedWhere(image.data, InPackage)
      BY <3>1, <3>2, ImageFields
    <3>4. damage = 0 => prefix.data = d /\ image.data = d
      BY <2>1
    <3>5. damage = 0 => Pinned(d) /\ image'.data = PatchedWhere(d, InPackage)
      BY <3>1, <3>3, <3>4
    <3>6. manifest' = manifest /\ prefix' = prefix /\ damage' = damage /\ NamesInOrder(t)
      BY <2>1
    <3> QED
      BY <2>1, <2>2, <3>5, <3>6 DEF NamesInOrder
  <2>3. CASE stage' = "refused"
    BY <2>1, <2>3
  <2> QED
    BY <1>4, <2>2, <2>3 DEF ApplyPackage
<1>5. CASE ApplyBoot
  <2>1. UNCHANGED <<manifest, prefix, damage>> /\ stage = "package"
    BY <1>5 DEF ApplyBoot
  <2>2. CASE stage' \in {"pair", "rejected"}
    <3>1. image' = [image EXCEPT !.data = PatchedWhere(@, InBoot)]
      BY <1>5, <2>2 DEF ApplyBoot
    <3>2. image = ImageOf(t, image.data)
      BY <2>1 DEF ShapeInv
    <3>3. image'.data = PatchedWhere(image.data, InBoot)
      BY <3>1, <3>2, ImageFields
    <3>4. ASSUME damage = 0
          PROVE  Pinned(d) /\ image'.data = GzipData(d) /\ stage' = "pair"
      <4>1. prefix = manifest /\ Pinned(d) /\ image.data = PatchedWhere(d, InPackage)
        BY <2>1, <3>4
      <4>2. image'.data = GzipData(d)
        BY <3>3, <4>1 DEF GzipData
      <4>3. card \in GptImages /\ Preparable(card) /\ d = PrefixData(card)
        BY <2>1, FirmwareAssumption DEF FileInv, Prefix
      <4>4. PairApplied(d, GzipData(d))
        BY <4>1, <4>3, PairFits
      <4>5. PairApplied(prefix.data, image'.data)
        BY <4>1, <4>2, <4>4
      <4> QED
        BY <1>5, <2>2, <4>1, <4>2, <4>5 DEF ApplyBoot
    <3>5. manifest' = manifest /\ prefix' = prefix /\ damage' = damage /\ NamesInOrder(t)
      BY <2>1
    <3> QED
      BY <2>1, <2>2, <3>4, <3>5 DEF NamesInOrder
  <2>3. CASE stage' = "refused"
    BY <2>1, <2>3
  <2> QED
    BY <1>5, <2>2, <2>3 DEF ApplyBoot
<1>6. CASE ReplaceLogo
  <2>1. UNCHANGED <<manifest, prefix, damage>> /\ stage = "pair" /\ stage' = "logo"
    BY <1>6 DEF ReplaceLogo
  <2>2. PICK s \in t[2].first .. t[2].last : image' = [image EXCEPT !.data[s] = Logo]
    BY <1>6 DEF ReplaceLogo
  <2>3. image = ImageOf(t, image.data)
    BY <2>1 DEF ShapeInv
  <2>4. image' = [image EXCEPT !.data = [image.data EXCEPT ![s] = Logo]]
    BY <2>2
  <2>5. image'.data = [image.data EXCEPT ![s] = Logo]
    BY <2>3, <2>4, ImageFields
  <2>6. damage = 0 => image.data = GzipData(d)
    BY <2>1
  <2>7. damage = 0 => image'.data = [GzipData(d) EXCEPT ![s] = Logo]
    BY <2>5, <2>6
  <2>8. damage = 0 => prefix = manifest /\ Pinned(d)
    BY <2>1
  <2>9. manifest' = manifest /\ prefix' = prefix /\ damage' = damage /\ NamesInOrder(t)
    BY <2>1
  <2> QED
    BY <2>1, <2>2, <2>7, <2>8, <2>9 DEF NamesInOrder
<1>7. CASE VerifyImage
  <2>1. UNCHANGED <<manifest, prefix, image, damage>> /\ stage = "logo"
    BY <1>7 DEF VerifyImage
  <2>2. ASSUME damage = 0 PROVE stage' = "verified"
    <3>1. /\ NamesInOrder(t) /\ prefix = manifest /\ Pinned(d)
          /\ \E s \in t[2].first .. t[2].last : image.data = [GzipData(d) EXCEPT ![s] = Logo]
      BY <2>1, <2>2
    <3>2. VerifyComposed(t, prefix, image)
      BY <2>1, <3>1, CleanVerifies
    <3>3. VerifyPrepared
      BY <3>1 DEF VerifyPrepared, NamesInOrder
    <3> QED
      BY <1>7, <3>2, <3>3 DEF VerifyImage
  <2>3. stage' \in {"verified", "rejected"}
    BY <1>7 DEF VerifyImage
  <2>4. damage = 0 => prefix = manifest
    BY <2>1
  <2>5. manifest' = manifest /\ prefix' = prefix /\ damage' = damage /\ NamesInOrder(t)
    BY <2>1
  <2> QED
    BY <2>2, <2>3, <2>4, <2>5 DEF NamesInOrder
<1>8. CASE CutPayload
  <2>1. /\ stage = "verified" /\ stage' = "payload"
        /\ manifest' = manifest /\ prefix' = prefix /\ damage' = damage
    BY <1>8 DEF CutPayload
  <2> QED
    BY <2>1 DEF NamesInOrder
<1>9. CASE Again
  BY <1>9 DEF Again
<1>10. CASE Damage
  <2>1. stage' = stage /\ manifest' = manifest /\ damage' = damage + 1 /\ damage \in Nat
    BY <1>10 DEF Damage
  <2>2. damage' \in Nat /\ damage' # 0
    BY <2>1
  <2> QED
    BY <2>1, <2>2 DEF NamesInOrder
<1>11. CASE UNCHANGED firmwareVars
  <2>1. /\ stage' = stage /\ manifest' = manifest /\ prefix' = prefix
        /\ image' = image /\ damage' = damage
    BY <1>11 DEF firmwareVars
  <2> QED
    BY <2>1 DEF NamesInOrder
<1> QED
  BY <1>1, <1>2, <1>3, <1>4, <1>5, <1>6, <1>7, <1>8, <1>9, <1>10, <1>11 DEF FirmwareNext

\* When the catalog pins whole boot partitions, the tools never reject what
\* they made themselves, for every card, slot size and place of the logo.
THEOREM OnlyDamageIsRejected ==
  ASSUME PinsWholePartition PROVE FirmwareSpec => []RejectedWasDamaged
<1>1. FirmwareInit => CleanInv
  BY DEF FirmwareInit, CleanInv, Made, Composed
<1>2. (FileInv /\ ShapeInv) /\ CleanInv /\ [FirmwareNext]_firmwareVars => CleanInv'
  BY CleanStep
<1>3. CleanInv => RejectedWasDamaged
  BY DEF CleanInv, RejectedWasDamaged
<1> QED
  BY <1>1, <1>2, <1>3, ShapeInvariant, PTL DEF FirmwareSpec

=============================================================================
