------------------------------- MODULE KernelGzip -------------------------------
(***************************************************************************)
(* The derivation of a gzip boot pair from audited vendor firmware:        *)
(* tools/kernel_gzip.py, and the experiment it was validated against,      *)
(* experiments/rgsp-kernel-gzip/install/prepare.py.  A U-Boot package is a *)
(* sequence of machine words, one of which is the sum of the others; the   *)
(* U-Boot in it carries a sum of its own.  An Android boot image is a      *)
(* header and a sequence of bytes, cut into components that start on page  *)
(* boundaries.  A digest of something is that thing.                       *)
(***************************************************************************)
EXTENDS Integers, SequencesExt

CONSTANTS
  W,           \* words are integers modulo W, 2^32 in the code
  STAMP,       \* what the vendor adds to a sum
  Page,        \* bytes per page of a boot image, 2048 in the code
  RawSelector, GzipSelector,   \* the instruction word that picks the decoder
  PackageSum, PackageLength,   \* the header words of the package ...
  UbootAt, UbootWords,         \* ... where its U-Boot lies ...
  UbootSum, UbootLength,       \* ... the header words of the U-Boot ...
  SelectorAt,                  \* ... and its selector
  Room,                        \* bytes between the load addresses
  Pairs,       \* packages and boot partitions the tools are given ...
  Audited,     \* ... and those whose hashes are in the catalog
  Lengths      \* lengths of a compressed kernel

ASSUME GzipAssumption ==
  /\ W \in Nat \ {0} /\ Page \in Nat \ {0}
  /\ STAMP \in Nat /\ GzipSelector \in 0 .. W - 1 /\ Lengths \subseteq Nat
  /\ UbootAt \in Nat \ {0} /\ UbootWords \in Nat
  /\ {PackageSum, PackageLength} \cap (UbootAt .. UbootAt + UbootWords - 1) = {}
  /\ {UbootSum, UbootLength, SelectorAt} \subseteq 1 .. UbootWords
  /\ UbootSum # UbootLength /\ SelectorAt \notin {UbootSum, UbootLength}

\* A package is words with a header; a boot image has five components, and a
\* boot partition of the catalog whole pages.
ASSUME PairAssumption ==
  /\ \A pair \in Pairs :
       /\ pair.package \in Seq(0 .. W - 1)
       /\ {PackageSum, PackageLength} \subseteq DOMAIN pair.package
       /\ pair.boot.sizes \in Seq(Nat) /\ Len(pair.boot.sizes) = 5
       /\ pair.boot.body \in Seq(Range(pair.boot.body))
  /\ \A pair \in Pairs \cap Audited : Len(pair.boot.body) % Page = 0

-----------------------------------------------------------------------------
(* The package *)

Sum(words) == FoldLeft(LAMBDA a, b : (a + b) % W, 0, words)

Checksum(words, field) == (Sum(words) - words[field] + STAMP) % W

Seal(words, field) == [words EXCEPT ![field] = Checksum(words, field)]

Uboot(package) == SubSeq(package, UbootAt, UbootAt + UbootWords - 1)

WithUboot(package, uboot) == ReplaceSubSeqAt(UbootAt, uboot, uboot, package)

\* The checks of derive: the place of the U-Boot, both lengths, both sums.
PackageValid(package) ==
  /\ UbootAt + UbootWords - 1 <= Len(package)
  /\ package[PackageLength] = Len(package) % W
  /\ package[PackageSum] = Checksum(package, PackageSum)
  /\ Uboot(package)[UbootLength] = UbootWords % W
  /\ Uboot(package)[UbootSum] = Checksum(Uboot(package), UbootSum)

\* A slip of PatchPackage: the outer sum is taken before the inner one.
SlipPatchPackage(package) ==
  LET uboot == [Uboot(package) EXCEPT ![SelectorAt] = GzipSelector]
      outer == Seal(WithUboot(package, uboot), PackageSum)
  IN  WithUboot(outer, Seal(uboot, UbootSum))

\* One instruction changes, then the inner sum, then the outer one.
PatchPackage(package) ==
  LET uboot == [Uboot(package) EXCEPT ![SelectorAt] = GzipSelector]
  IN  Seal(WithUboot(package, Seal(uboot, UbootSum)), PackageSum)

Allowed == {PackageSum, UbootAt + UbootSum - 1, UbootAt + SelectorAt - 1}

Changed(old, new) == {i \in DOMAIN old : old[i] # new[i]}

PackageDerivable(package) ==
  /\ PackageValid(package)
  /\ Uboot(package)[SelectorAt] = RawSelector
  /\ Changed(package, PatchPackage(package)) \subseteq Allowed

-----------------------------------------------------------------------------
(* The boot image: parts are kernel, ramdisk, two empty ones and dtb.      *)

Align(size) == ((size + Page - 1) \div Page) * Page

Zero == [of |-> "zero", at |-> 0]

Padded(part) == part \o [i \in 1 .. Align(Len(part)) - Len(part) |-> Zero]

Sizes(parts) == [i \in DOMAIN parts |-> Len(parts[i])]

\* The header with its image_id, and the padded components behind it.
AndroidImage(parts) ==
  [sizes |-> Sizes(parts), id |-> parts,
   body |-> FlattenSeq([i \in DOMAIN parts |-> Padded(parts[i])])]

Offset(sizes, i) ==
  FoldLeft(LAMBDA at, size : at + Align(size), 0, SubSeq(sizes, 1, i - 1))

Components(partition) ==
  [i \in DOMAIN partition.sizes |->
     SubSeq(partition.body, Offset(partition.sizes, i) + 1,
                            Offset(partition.sizes, i) + partition.sizes[i])]

\* The meaningful length of a partition; the rest is an unused tail.
ImageLength(partition) == Offset(partition.sizes, Len(partition.sizes) + 1)

BootValid(partition) ==
  /\ partition.sizes[3] = 0 /\ partition.sizes[4] = 0
  /\ partition.sizes[1] \in 1 .. Room
  /\ \A i \in DOMAIN partition.sizes :
       Offset(partition.sizes, i) + partition.sizes[i] <= Len(partition.body)
  /\ partition.id = Components(partition)

\* gzip: a sequence of some length that decompresses to the kernel.
Gzip(kernel, length) == [i \in 1 .. length |-> [of |-> "gzip", at |-> i, from |-> kernel]]

\* A slip of GzipParts: the dtb goes where an empty component was.
SlipGzipParts(partition, length) ==
  LET parts == Components(partition)
  IN  <<Gzip(parts[1], length), parts[2], parts[5], parts[4], parts[3]>>

GzipParts(partition, length) == [Components(partition) EXCEPT ![1] = Gzip(@, length)]

\* expected_boot: the image over the partition, whose tail stays as it was.
ExpectedBoot(partition, length) ==
  LET image == AndroidImage(GzipParts(partition, length))
      n == Len(image.body)
  IN  [image EXCEPT !.body = @ \o SubSeq(partition.body, n + 1, Len(partition.body))]

BootDerivable(partition, length) ==
  /\ BootValid(partition)
  /\ Len(AndroidImage(GzipParts(partition, length)).body) < ImageLength(partition)

-----------------------------------------------------------------------------
VARIABLES
  gzip,    \* "idle", "derived" by kernel_gzip.py or by the "experiment"
  given, made

gzipVars == <<gzip, given, made>>

NoPair == [package |-> <<>>, boot |-> [sizes |-> <<>>, id |-> <<>>, body |-> <<>>]]

GzipInit == gzip = "idle" /\ given = NoPair /\ made = NoPair

Derived(pair, length) ==
  [package |-> PatchPackage(pair.package), boot |-> ExpectedBoot(pair.boot, length)]

\* derive; prepare and apply write its result.
Derive ==
  /\ gzip = "idle"
  /\ \E pair \in Pairs \cap Audited, length \in Lengths :
       /\ PackageDerivable(pair.package) /\ BootDerivable(pair.boot, length)
       /\ given' = pair /\ made' = Derived(pair, length)
  /\ gzip' = "derived"

Erased == [of |-> "erased", at |-> 0]

\* prepare.py: the pinned backup of one device, whose tail is erased flash and
\* whose compressed kernel has a known length.
Experiment ==
  /\ gzip = "idle"
  /\ \E pair \in Pairs \cap Audited, length \in Lengths :
       /\ PackageDerivable(pair.package) /\ BootDerivable(pair.boot, length)
       /\ \A i \in ImageLength(pair.boot) + 1 .. Len(pair.boot.body) :
            pair.boot.body[i] = Erased
       /\ given' = pair /\ made' = Derived(pair, length)
  /\ gzip' = "experiment"

NextPair ==
  /\ gzip # "idle"
  /\ gzip' = "idle" /\ given' = NoPair /\ made' = NoPair

GzipNext == Derive \/ Experiment \/ NextPair

GzipSpec == GzipInit /\ [][GzipNext]_gzipVars

-----------------------------------------------------------------------------
(* Properties, with boot0 and the loader as references. *)

\* boot0 and U-Boot add up every word, the stamp standing in for the sum.
Accepted(words, field) == words[field] = Sum([words EXCEPT ![field] = STAMP % W])

\* Where the loader finds component i: at the first page behind the one before.
LoadedAt(sizes, i) ==
  LET at[j \in DOMAIN sizes] ==
        IF j = 1 THEN 0
        ELSE CHOOSE p \in at[j - 1] + sizes[j - 1] .. at[j - 1] + sizes[j - 1] + Page - 1 :
               p % Page = 0
  IN  at[i]

LoadedPart(partition, i) ==
  LET at == LoadedAt(partition.sizes, i)
  IN  SubSeq(partition.body, at + 1, at + partition.sizes[i])

\* boot0 starts a derived package, whose U-Boot picks the gzip decoder and is
\* otherwise the vendor's, like everything else in the package (kernel_gzip:
\* "preserving the Android layout and every other TOC1 component").
PackageStarts ==
  gzip # "idle" =>
    /\ Accepted(made.package, PackageSum) /\ Accepted(Uboot(made.package), UbootSum)
    /\ Uboot(made.package)[SelectorAt] = GzipSelector
    /\ Changed(given.package, made.package) \subseteq Allowed

\* The loader finds in a derived partition the compressed kernel and the
\* vendor's ramdisk and dtb, and behind the image the vendor's bytes
\* (kernel_gzip: "Preserve unused p4 tail exactly").
KernelStarts ==
  gzip # "idle" =>
    /\ LoadedPart(made.boot, 1) = Gzip(LoadedPart(given.boot, 1), made.boot.sizes[1])
    /\ \A i \in {2, 5} : LoadedPart(made.boot, i) = LoadedPart(given.boot, i)
    /\ made.boot.sizes[3] = 0 /\ made.boot.sizes[4] = 0
    /\ Len(made.boot.body) = Len(given.boot.body)
    /\ \A i \in ImageLength(given.boot) + 1 .. Len(given.boot.body) :
         made.boot.body[i] = given.boot.body[i]

=============================================================================
