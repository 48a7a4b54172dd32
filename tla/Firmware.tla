-------------------------------- MODULE Firmware --------------------------------
(***************************************************************************)
(* One vendor image on its way to a BaseOS image: prepare_stock.py writes  *)
(* the boot prefix, the root partition for the harvest and the manifest;   *)
(* build-image.sh checks them, lets mkgpt.py author the table, applies the *)
(* gzip pair, replaces the boot logo, and verifies what it made;           *)
(* mkupdate.py cuts the payload.  Between two steps a sector of a file may *)
(* come to differ: a copy that went wrong, a tool that hit the wrong       *)
(* partition, a file somebody edited.                                      *)
(***************************************************************************)
EXTENDS StockLayout

CONSTANTS
  Cards,          \* vendor images
  SlotSectors, UdiskSectors,   \* what build-image.sh asks mkgpt.py for
  DamageLimit     \* sectors that may change behind the tools' back

ASSUME FirmwareAssumption ==
  /\ Cards \subseteq GptImages
  /\ SlotSectors \in Nat \ {0, 1} /\ UdiskSectors \in Nat \ {0}
  /\ DamageLimit \in Nat

\* kernel_gzip pins a partition p4, from its first sector to its last: no card
\* has the pinned sectors and a longer p4 around them.
PinsWholePartition ==
  \A c \in Cards : Preparable(c) /\ Pinned(PrefixData(c)) => Size(Layout(c)[4]) = BootSectors

VARIABLES
  stage,      \* how far the image is
  card,       \* the vendor image
  manifest,   \* source.json: the layout, and the prefix whose hashes it has
  prefix,     \* boot-prefix.img
  root,       \* the partition the harvest is taken from
  image,      \* baseos-<target>.img
  payload,    \* where mkupdate.py cuts it
  damage      \* sectors that have changed

firmwareVars == <<stage, card, manifest, prefix, root, image, payload, damage>>

NoFile == [table |-> [i \in Numbers |-> NoEntry], data |-> <<>>]

NoExtent == [start |-> 0, sectors |-> 0]

NoCard ==
  [sectors |-> 0, headerOk |-> FALSE, backupLba |-> 0, lastUsable |-> 0, table |-> NoFile.table,
   backup |-> [ok |-> FALSE, lastUsable |-> 0, table |-> NoFile.table]]

FirmwareInit ==
  /\ stage = "idle" /\ card = NoCard
  /\ manifest = NoFile /\ prefix = NoFile /\ image = NoFile
  /\ root = <<>> /\ payload = NoExtent /\ damage = 0

\* prepare-stock.sh is given a card.
Pick ==
  /\ stage = "idle"
  /\ stage' = "card" /\ card' \in Cards
  /\ UNCHANGED <<manifest, prefix, root, image, payload, damage>>

\* The root partition is read from where the card has it.
RootData(img) ==
  [k \in 1 .. Size(img.table[5]) |-> Vendor(img.table, img.table[5].first + k - 1)]

PrepareStock ==
  /\ stage = "card"
  /\ IF Preparable(card)
     THEN /\ stage' = "prepared"
          /\ manifest' = Prefix(card) /\ prefix' = Prefix(card) /\ root' = RootData(card)
     ELSE stage' = "refused" /\ UNCHANGED <<manifest, prefix, root>>
  /\ UNCHANGED <<card, image, payload, damage>>

\* verify_prepared: a manifest that names the partitions in order, files as
\* they were hashed.
VerifyPrepared ==
  /\ \A i \in Numbers : Used(manifest.table[i]) => manifest.table[i].name = EXPECTED_NAMES[i]
  /\ prefix = manifest

Total == prefix.table[5].first + 2 * SlotSectors + UdiskSectors + 5

\* build-image.sh up to mkgpt.py, which may refuse the table.
ComposeImage ==
  /\ stage = "prepared"
  /\ IF VerifyPrepared /\ Composable(prefix.table, SlotSectors, UdiskSectors, Total)
     THEN /\ stage' = "composed"
          /\ image' = Compose(prefix, SlotSectors, UdiskSectors, Total)
     ELSE stage' = "refused" /\ UNCHANGED image
  /\ UNCHANGED <<card, manifest, prefix, root, payload, damage>>

\* kernel_gzip.apply: the pair is derived from the prefix; each part of it
\* replaces the pinned original in the image.
ApplyPackage ==
  /\ stage = "composed"
  /\ IF Pinned(prefix.data) /\ PackagePinned(image.data)
     THEN stage' = "package" /\ image' = [image EXCEPT !.data = PatchedWhere(@, InPackage)]
     ELSE stage' = "refused" /\ UNCHANGED image
  /\ UNCHANGED <<card, manifest, prefix, root, payload, damage>>

\* apply ends with a verification of both parts.
ApplyBoot ==
  /\ stage = "package"
  /\ IF BootPinned(image.data)
     THEN /\ image' = [image EXCEPT !.data = PatchedWhere(@, InBoot)]
          /\ stage' = IF PairApplied(prefix.data, image'.data) THEN "pair" ELSE "rejected"
     ELSE stage' = "refused" /\ UNCHANGED image
  /\ UNCHANGED <<card, manifest, prefix, root, payload, damage>>

Logo == [part |-> 12, off |-> 0]

\* mcopy changes sectors of p2, found by the manifest.
ReplaceLogo ==
  /\ stage = "pair"
  /\ stage' = "logo"
  /\ \E s \in manifest.table[2].first .. manifest.table[2].last :
       image' = [image EXCEPT !.data[s] = Logo]
  /\ UNCHANGED <<card, manifest, prefix, root, payload, damage>>

\* A slip of VerifyImage: only the table of the image is looked at.
SlipVerifyImage ==
  /\ stage = "logo"
  /\ stage' = IF Accepts(image, {BASEOS_NAMES}) THEN "verified" ELSE "rejected"
  /\ UNCHANGED <<card, manifest, prefix, root, image, payload, damage>>

VerifyImage ==
  /\ stage = "logo"
  /\ stage' = IF VerifyPrepared /\ VerifyComposed(manifest.table, prefix, image)
              THEN "verified" ELSE "rejected"
  /\ UNCHANGED <<card, manifest, prefix, root, image, payload, damage>>

CutPayload ==
  /\ stage = "verified"
  /\ stage' = "payload" /\ payload' = RootfsExtent(image)
  /\ UNCHANGED <<card, manifest, prefix, root, image, damage>>

\* The next card.
Again ==
  /\ stage \in {"payload", "refused", "rejected"}
  /\ stage' = "idle" /\ card' = NoCard
  /\ manifest' = NoFile /\ prefix' = NoFile /\ image' = NoFile
  /\ root' = <<>> /\ payload' = NoExtent /\ damage' = 0

Junk == [part |-> 13, off |-> 0]

Damage ==
  /\ stage \in {"prepared", "composed", "package", "pair", "logo"}
  /\ damage < DamageLimit /\ damage' = damage + 1
  /\ \/ \E s \in DOMAIN prefix.data : prefix' = [prefix EXCEPT !.data[s] = Junk]
        /\ UNCHANGED image
     \/ /\ stage # "prepared"
        /\ \E s \in DOMAIN image.data : image' = [image EXCEPT !.data[s] = Junk]
        /\ UNCHANGED prefix
  /\ UNCHANGED <<stage, card, manifest, root, payload>>

FirmwareNext ==
  Pick \/ PrepareStock \/ ComposeImage \/ ApplyPackage \/ ApplyBoot \/ ReplaceLogo
    \/ VerifyImage \/ CutPayload \/ Again \/ Damage

FirmwareSpec == FirmwareInit /\ [][FirmwareNext]_firmwareVars

-----------------------------------------------------------------------------
(* Properties. *)

Done == stage \in {"verified", "payload"}

\* What the vendor card has in sector k of partition i.
Original(i, k) == [part |-> i, off |-> k]

\* The files of a preparation hold what the card held: the raw boot region in
\* place, partitions 2 to 4 wherever the new layout has them, and the vendor's
\* rootfs, also when the table was recast (normalise_stock_layout: "This is
\* safe because StockMod performs the same re-partition and boots").
PreparedFromCard ==
  manifest # NoFile =>
    /\ \A s \in 4 .. manifest.table[1].first - 1 : manifest.data[s] = Original(0, s)
    /\ \A i \in 2 .. 4 : \A k \in 0 .. Size(card.table[i]) - 1 :
         manifest.data[manifest.table[i].first + k] = Original(i, k)
    /\ \A k \in 1 .. Size(card.table[5]) : root[k] = Original(5, k - 1)

\* An image that passes verify-image carries the vendor's boot chain with the
\* gzip pair and nothing else, whatever happened to the files on the way
\* (source_manifest: "All four boot partitions retain their GPT identity and
\* geometry. p2 has the replacement bootlogo; p4 must match the exact gzip
\* derivation").
VerifiedHoldsBootChain ==
  Done =>
    /\ \A s \in 4 .. image.table[1].first - 1 :
         image.data[s] = IF InPackage(s) THEN Patched(Original(0, s)) ELSE Original(0, s)
    /\ \A k \in 0 .. Size(card.table[3]) - 1 :
         image.data[image.table[3].first + k] = Original(3, k)
    /\ \A k \in 0 .. Size(card.table[4]) - 1 :
         image.data[image.table[4].first + k] = Patched(Original(4, k))

\* Nothing but damage makes verify-image reject what mkgpt.py and
\* kernel_gzip.py have made of an accepted card: the tools agree on the layout.
RejectedWasDamaged == stage = "rejected" => damage > 0

\* The table of an image is one gptslot and gptgrow work on, and the payload
\* is cut from slot A, behind the boot chain and before slot B
\* (source_manifest: "gptslot derives the same relationship at runtime and
\* refuses anything else").
SlotsComposed ==
  Done =>
    LET view == SlotView(image.table) IN
    /\ IsSlotLayout(view) /\ AtA(view)
    /\ \A s \in DOMAIN image.data : s < view.rootStart
    /\ stage = "payload" =>
         payload.start .. payload.start + payload.sectors - 1 = RootSlot(view)

=============================================================================
