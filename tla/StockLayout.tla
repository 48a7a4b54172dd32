------------------------------ MODULE StockLayout ------------------------------
(***************************************************************************)
(* From a vendor card to a BaseOS image: the partition tables that         *)
(* tools/prepare_stock.py accepts and recasts, the boot prefix it cuts,    *)
(* the table tools/mkgpt.py authors, and what tools/source_manifest.py     *)
(* demands of the result.  All of it is batch work on files, so these are  *)
(* operators.  CRCs, signatures, shapes and fixed header fields are one    *)
(* bit of a header (headerOk); a GUID pair is a number; the content of a   *)
(* sector is the place of the vendor card it comes from.                   *)
(***************************************************************************)
EXTENDS GptLayout

CONSTANTS
  SpecialSectors,  \* length of `special` in the StockMod table
  PackageAt,       \* the sector where the pinned U-Boot package starts ...
  PackageSectors,  \* ... and its length
  BootAt,          \* the sector where the pinned boot partition starts ...
  BootSectors      \* ... and its length

ASSUME StockAssumption ==
  /\ SpecialSectors \in Nat \ {0}
  /\ {PackageAt, PackageSectors, BootAt, BootSectors} \subseteq Nat

Numbers == 1 .. 8

NoEntry == [name |-> "none", id |-> 0, first |-> 0, last |-> 0, hidden |-> FALSE]

\* A type GUID of zeros is an entry that is not there, and has no name.
Used(e) == e.id # 0

GptEntries ==
  [name: STRING \ {"none"}, id: Nat \ {0}, first: Nat, last: Nat, hidden: BOOLEAN]
    \union {NoEntry}

GptTables == [Numbers -> GptEntries]

Size(e) == e.last - e.first + 1

NamesOf(t) == [i \in Numbers |-> t[i].name]

EXPECTED_NAMES ==
  <<"special", "boot-resource", "env", "boot", "rootfs", "appfs", "UDISK", "primary">>

STOCKMOD_BASE_NAMES == [EXPECTED_NAMES EXCEPT ![8] = "none"]

STOCK_NAMES == [STOCKMOD_BASE_NAMES EXCEPT ![1] = "Roms"]

BASEOS_NAMES ==
  <<"special", "boot-resource", "env", "boot", "rootfs", "UDISK", "primary", "none">>

FirmwareNames == {EXPECTED_NAMES, STOCKMOD_BASE_NAMES, STOCK_NAMES}

-----------------------------------------------------------------------------
(* parse_gpt.  An image is its length, its primary header and table, and   *)
(* what is found where the header says the backup is.                      *)

GptImages ==
  [sectors: Nat, headerOk: BOOLEAN, backupLba: Nat, lastUsable: Int, table: GptTables,
   backup: [ok: BOOLEAN, lastUsable: Int, table: GptTables]]

HeaderOk(img) == img.headerOk /\ img.lastUsable = img.backupLba - 3

EntriesInside(img) ==
  \A i \in Numbers : Used(img.table[i]) =>
    /\ 4 <= img.table[i].first
    /\ img.table[i].first <= img.table[i].last
    /\ img.table[i].last <= img.lastUsable
    /\ img.table[i].last < img.sectors

\* A whole card: the backup copy is in its last sector and says the same.
FullDisk(img, names) ==
  /\ img.backupLba = img.sectors - 1
  /\ NamesOf(img.table) \in names
  /\ img.backup.ok
  /\ img.backup.lastUsable = img.lastUsable
  /\ img.backup.table = img.table

\* A StockMod BASE archive ends with partition 7; its backup is cut off.
TrimmedBase(img) ==
  /\ img.backupLba >= img.sectors
  /\ NamesOf(img.table) = STOCKMOD_BASE_NAMES
  /\ img.table[7].last = img.sectors - 1

Disjoint(t) ==
  \A i \in 1 .. 7 : Used(t[i]) /\ Used(t[i + 1]) => t[i].last < t[i + 1].first

Accepts(img, names) ==
  /\ HeaderOk(img)
  /\ EntriesInside(img)
  /\ FullDisk(img, names) \/ TrimmedBase(img)
  /\ Disjoint(img.table)

FromStock(img) == NamesOf(img.table) = STOCK_NAMES

-----------------------------------------------------------------------------
(* normalise_stock_layout and the boot prefix *)

Shift(t) == Size(t[1]) - SpecialSectors

NormaliseTable(t) ==
  [i \in Numbers |->
     CASE i = 1 -> [t[1] EXCEPT !.name = "special", !.last = t[1].first + SpecialSectors - 1]
       [] i # 1 /\ Used(t[i]) -> [t[i] EXCEPT !.first = @ - Shift(t), !.last = @ - Shift(t)]
       [] OTHER -> t[i]]

\* What main() prepares from: a stock table whose p1 is too short is refused.
Preparable(img) ==
  Accepts(img, FirmwareNames) /\ (FromStock(img) => Shift(img.table) > 0)

\* `layout` of the manifest, and the table in the prefix.
Layout(img) == IF FromStock(img) THEN NormaliseTable(img.table) ELSE img.table

Within(s, e) == e.first <= s /\ s <= e.last

\* The content of a vendor sector: partition 0 is the raw boot region.
Vendor(t, s) ==
  IF s < t[1].first THEN [part |-> 0, off |-> s]
  ELSE IF \E i \in Numbers : Used(t[i]) /\ Within(s, t[i])
       THEN LET i == CHOOSE i \in Numbers : Used(t[i]) /\ Within(s, t[i])
            IN  [part |-> i, off |-> s - t[i].first]
       ELSE [part |-> 9, off |-> s]

Zeros == [part |-> 10, off |-> 0]

EmptySpecial(k) == [part |-> 11, off |-> k]

\* A slip of NormalisedSector: p2 to p4 are copied from where they will be.
SlipNormalisedSector(src, t, s) ==
  IF Within(s, t[1]) THEN EmptySpecial(s - t[1].first) ELSE Vendor(src, s)

\* build_normalised_prefix on top of truncate: boot0 and U-Boot in place, an
\* empty ext4 as p1, p2 to p4 copied from where the stock card has them.
NormalisedSector(src, t, s) ==
  IF s < t[1].first THEN Vendor(src, s)
  ELSE IF Within(s, t[1]) THEN EmptySpecial(s - t[1].first)
  ELSE IF \E i \in 2 .. 4 : Within(s, t[i])
       THEN LET i == CHOOSE i \in 2 .. 4 : Within(s, t[i])
            IN  Vendor(src, src[i].first + (s - t[i].first))
       ELSE Zeros

\* The prefix ends where p5 starts; the GPT sectors are its table.
PrefixData(img) ==
  [s \in 4 .. Layout(img)[5].first - 1 |->
     IF FromStock(img) THEN NormalisedSector(img.table, Layout(img), s)
     ELSE Vendor(img.table, s)]

Prefix(img) == [table |-> Layout(img), data |-> PrefixData(img)]

-----------------------------------------------------------------------------
(* mkgpt.py *)

\* The identity mkgpt gives to p8 when a trimmed archive has none.
Primary == [name |-> "primary", id |-> 9, first |-> 0, last |-> 0, hidden |-> FALSE]

Eighth(t) == IF t[8] = NoEntry THEN Primary ELSE t[8]

\* A slip of Composable: a gap before the rootfs is let through.
SlipComposable(t, slot, udisk, total) ==
  /\ \A i \in 1 .. 7 : t[i].name = EXPECTED_NAMES[i]
  /\ Eighth(t).name = "primary"
  /\ t[5].first + 2 * slot + udisk < LastUsable(total)

Composable(t, slot, udisk, total) ==
  /\ \A i \in 1 .. 7 : t[i].name = EXPECTED_NAMES[i]
  /\ Eighth(t).name = "primary"
  /\ t[5].first = t[4].last + 1
  /\ t[5].first + 2 * slot + udisk < LastUsable(total)

Placed(e, first, last, hidden) ==
  [e EXCEPT !.first = first, !.last = last, !.hidden = hidden]

\* A slip of ComposedTable: no room is left for slot B.
SlipComposedTable(t, slot, udisk, total) ==
  LET base == t[5].first
      data == base + slot
  IN << Placed(t[1], t[1].first, t[1].last, TRUE), Placed(t[2], t[2].first, t[2].last, TRUE),
        Placed(t[3], t[3].first, t[3].last, TRUE), Placed(t[4], t[4].first, t[4].last, TRUE),
        Placed(t[5], base, base + slot - 1, TRUE),
        Placed(t[7], data, data + udisk - 1, TRUE),
        Placed(Eighth(t), data + udisk, LastUsable(total), FALSE), NoEntry >>

ComposedTable(t, slot, udisk, total) ==
  LET base == t[5].first
      data == base + 2 * slot
  IN << Placed(t[1], t[1].first, t[1].last, TRUE), Placed(t[2], t[2].first, t[2].last, TRUE),
        Placed(t[3], t[3].first, t[3].last, TRUE), Placed(t[4], t[4].first, t[4].last, TRUE),
        Placed(t[5], base, base + slot - 1, TRUE),
        Placed(t[7], data, data + udisk - 1, TRUE),
        Placed(Eighth(t), data + udisk, LastUsable(total), FALSE), NoEntry >>

-----------------------------------------------------------------------------
(* build-image.sh: the gzip pair is put over the prefix, then everything   *)
(* is verified.                                                            *)

InPackage(s) == s \in PackageAt .. PackageAt + PackageSectors - 1

InBoot(s) == s \in BootAt .. BootAt + BootSectors - 1

\* kernel_gzip.derive knows exactly one package and one boot partition, each
\* at one place of the prefix.
PackagePinned(data) ==
  \A s \in PackageAt .. PackageAt + PackageSectors - 1 :
    s \in DOMAIN data /\ data[s] = [part |-> 0, off |-> s]

BootPinned(data) ==
  \A s \in BootAt .. BootAt + BootSectors - 1 :
    s \in DOMAIN data /\ data[s] = [part |-> 4, off |-> s - BootAt]

Pinned(data) == PackagePinned(data) /\ BootPinned(data)

Patched(c) == [c EXCEPT !.part = @ + 20]

PatchedWhere(data, In(_)) ==
  [s \in DOMAIN data |-> IF In(s) THEN Patched(data[s]) ELSE data[s]]

\* kernel_gzip.verify
PairApplied(prefix, data) ==
  /\ Pinned(prefix)
  /\ \A s \in DOMAIN data : InPackage(s) \/ InBoot(s) => data[s] = Patched(prefix[s])

GzipData(data) == PatchedWhere(PatchedWhere(data, InPackage), InBoot)

\* cp, truncate, mkgpt.
Compose(prefix, slot, udisk, total) ==
  LET t == ComposedTable(prefix.table, slot, udisk, total) IN
  [sectors |-> total, headerOk |-> TRUE,
   backupLba |-> total - 1, lastUsable |-> LastUsable(total), table |-> t,
   backup |-> [ok |-> TRUE, lastUsable |-> LastUsable(total), table |-> t],
   data |-> prefix.data]

SameEntry(a, b) == <<a.name, a.id, a.first, a.last>> = <<b.name, b.id, b.first, b.last>>

\* source_manifest.verify_prepared, verify_composed: `layout` and the hashes
\* are those the manifest recorded, `prefix` is the file beside it.
VerifyComposed(layout, prefix, img) ==
  /\ \A i \in Numbers : Used(layout[i]) => layout[i].name = EXPECTED_NAMES[i]
  /\ Accepts(img, {BASEOS_NAMES})
  /\ Pinned(prefix.data)
  /\ \A i \in 1 .. 4 : SameEntry(layout[i], img.table[i])
  /\ \A i \in {1, 3} : \A s \in layout[i].first .. layout[i].last : img.data[s] = prefix.data[s]
  /\ Size(layout[4]) = BootSectors
  /\ \A k \in 0 .. BootSectors - 1 :
       img.data[layout[4].first + k] = Patched(prefix.data[BootAt + k])
  /\ \A s \in 4 .. layout[1].first - 1 : img.data[s] = GzipData(prefix.data)[s]
  /\ img.table[5].first = layout[5].first
  /\ img.table[6].first = img.table[5].first + 2 * Size(img.table[5])
  /\ \A i \in Numbers : Used(img.table[i]) =>
       img.table[i].hidden = (img.table[i].name # "primary")

\* mkupdate.rootfs_extent: what a payload is cut from.
RootfsExtent(img) == [start |-> img.table[5].first, sectors |-> Size(img.table[5])]

\* The six numbers gptslot and gptgrow read from the same table.
SlotView(t) ==
  [bootEnd |-> t[4].last, rootStart |-> t[5].first, rootEnd |-> t[5].last,
   udiskStart |-> t[6].first, lastStart |-> t[7].first, lastEnd |-> t[7].last]

=============================================================================
