-------------------------------- MODULE GptDisk --------------------------------
(***************************************************************************)
(* The two partition tables of a boot card, and the tools that rewrite     *)
(* them: gptslot flip (an update, a rollback) and, on the first boot,      *)
(* expand-storage, which runs gptgrow and formats partition 7.             *)
(*                                                                         *)
(* A write changes the page cache; it reaches the card at an fsync or, in  *)
(* any order, at a write-back.  A header is one sector and the entries     *)
(* that change share one sector, so each is old or new, never torn.  A     *)
(* header is stood for by the entry table its CRC belongs to and by the    *)
(* place of the backup copy; its own CRC is always refreshed with it.      *)
(***************************************************************************)
EXTENDS GptLayout

CONSTANTS
  BootEnd, SlotSectors, UdiskSectors,   \* the layout the image was built with
  ImageTotal,                           \* sectors of the image
  CardTotal,                            \* sectors of the card
  CutPhases,                            \* phases in which the power may be cut
  Faults                                \* a subset of {"io"}: writes may fail

FlipPhases ==
  {"backup entries", "backup header", "sync backup",
   "primary entries", "primary header", "sync primary", "flipped"}

GrowPhases ==
  {"grow primary header", "grow backup header", "grow primary entries",
   "grow backup entries", "grow sync"}

FormatPhases == {"format", "readme"}

Phases == {"off", "expand", "up"} \union FlipPhases \union GrowPhases
            \union FormatPhases

ASSUME GptAssumption ==
  /\ BootEnd \in Nat /\ SlotSectors \in Nat \ {0, 1}
  /\ UdiskSectors \in Nat \ {0}
  /\ ImageTotal \in Nat /\ CardTotal \in Nat /\ ImageTotal < CardTotal
  /\ ImageFits(BootEnd, SlotSectors, UdiskSectors, ImageTotal)
  /\ CutPhases \subseteq Phases
  /\ Faults \subseteq {"io"}

\* The primary copy at LBA 1 to 3, and the places a backup copy may be: at the
\* end of the image, and at the end of the card.
Copies == {"primary", "image end", "card end"}

None == [sum |-> "no GPT header"]

Headers == [sum: Tables, backup: {"image end", "card end"}]

Factory == ImageTable(BootEnd, SlotSectors, UdiskSectors, ImageTotal)

VARIABLES
  hdr, tab,    \* headers and entry tables, as programs read them
  hdrD, tabD,  \* ... and as they are on the card
  pc,          \* what the card is being used for
  from,        \* the table the running flip or growth has read
  head,        \* the primary header it has read
  fat,         \* partition 7: "shipped", "broken" or "fresh"
  user         \* the user has copied a frontend to partition 7

cache == <<hdr, tab>>
card == <<hdrD, tabD>>
p7 == <<fat, user>>
vars == <<hdr, tab, hdrD, tabD, pc, from, head, fat, user>>

WriteHeader(c, h) == hdr' = [hdr EXCEPT ![c] = h] /\ UNCHANGED <<tab, card>>

WriteEntries(c, t) == tab' = [tab EXCEPT ![c] = t] /\ UNCHANGED <<hdr, card>>

Sync == hdrD' = hdr /\ tabD' = tab /\ UNCHANGED cache

-----------------------------------------------------------------------------
Init ==
  /\ tab = [c \in Copies |-> Factory]
  /\ hdr = [c \in Copies |->
              IF c = "card end" THEN None
                ELSE [sum |-> Factory, backup |-> "image end"]]
  /\ hdrD = hdr /\ tabD = tab
  /\ pc = "off"
  /\ from = Factory /\ head = hdr["primary"]
  /\ fat = "shipped" /\ user = FALSE

\* rcS runs expand-storage on every boot.
PowerOn ==
  /\ pc = "off"
  /\ pc' = "expand"
  /\ UNCHANGED <<cache, card, from, head, p7>>

\* gptgrow: exit 1, p7 already fills the disk, or exit 2, it lies past its end.
NothingToGrow ==
  /\ pc = "expand"
  /\ ~Growable(tab["primary"], CardTotal)
  /\ pc' = "up"
  /\ UNCHANGED <<cache, card, from, head, p7>>

\* gptgrow reads the primary header and entries and finds a shorter p7.
StartGrow ==
  /\ pc = "expand"
  /\ Growable(tab["primary"], CardTotal)
  /\ from' = tab["primary"] /\ head' = hdr["primary"]
  /\ pc' = "grow primary header"
  /\ UNCHANGED <<cache, card, p7>>

Grown == GrowTable(from, CardTotal)

GrownHeader == [sum |-> Grown, backup |-> "card end"]

\* The four writes of gptgrow, in its order.
GrowWrite ==
  /\ \/ /\ pc = "grow primary header" /\ pc' = "grow backup header"
        /\ WriteHeader("primary", GrownHeader)
     \/ /\ pc = "grow backup header" /\ pc' = "grow primary entries"
        /\ WriteHeader("card end", GrownHeader)
     \/ /\ pc = "grow primary entries" /\ pc' = "grow backup entries"
        /\ WriteEntries("primary", Grown)
     \/ /\ pc = "grow backup entries" /\ pc' = "grow sync"
        /\ WriteEntries("card end", Grown)
  /\ UNCHANGED <<from, head, p7>>

\* A pwrite fails: exit 2, and expand-storage leaves p7 alone.
GrowFails ==
  /\ "io" \in Faults /\ pc \in GrowPhases \ {"grow sync"}
  /\ pc' = "up"
  /\ UNCHANGED <<cache, card, from, head, p7>>

\* A slip of GrowSync: the fsync is forgotten.
SlipGrowSync ==
  /\ pc = "grow sync" /\ pc' = "format"
  /\ UNCHANGED <<cache, card, from, head, p7>>

\* fsync, whose result gptgrow does not look at; then exit 0.
GrowSync ==
  /\ pc = "grow sync" /\ pc' = "format"
  /\ Sync \/ ("io" \in Faults /\ UNCHANGED <<cache, card>>)
  /\ UNCHANGED <<from, head, p7>>

\* mkfs.vfat, which may fail half way.
Format ==
  /\ pc = "format"
  /\ \/ pc' = "readme" /\ fat' = "fresh"
     \/ "io" \in Faults /\ pc' = "up" /\ fat' \in {fat, "broken"}
  /\ user' = FALSE
  /\ UNCHANGED <<cache, card, from, head>>

\* README.txt and baseos.conf, and a sync when the mount succeeds.
CopyReadme ==
  /\ pc = "readme" /\ pc' = "up"
  /\ Sync \/ UNCHANGED <<cache, card>>
  /\ UNCHANGED <<from, head, p7>>

-----------------------------------------------------------------------------
(* gptslot flip. *)

\* read_gpt and derive on the primary copy; commit then asks for a backup
\* header where the primary header says it is.
StartFlip ==
  /\ pc = "up"
  /\ IsSlotLayout(tab["primary"])
  /\ hdr[hdr["primary"].backup] # None
  /\ from' = tab["primary"] /\ head' = hdr["primary"]
  /\ pc' = "backup entries"
  /\ UNCHANGED <<cache, card, p7>>

Flipped == FlipTable(from)

\* A slip of FlippedHeader: the entry table CRC is not refreshed.
SlipFlippedHeader(h) == h

\* commit: both headers keep every field but the two CRCs.
FlippedHeader(h) == [h EXCEPT !.sum = Flipped]

\* The four writes of commit, in its order.
FlipWrite ==
  /\ \/ /\ pc = "backup entries" /\ pc' = "backup header"
        /\ WriteEntries(head.backup, Flipped)
     \/ /\ pc = "backup header" /\ pc' = "sync backup"
        /\ WriteHeader(head.backup, FlippedHeader(hdr[head.backup]))
     \/ /\ pc = "primary entries" /\ pc' = "primary header"
        /\ WriteEntries("primary", Flipped)
     \/ /\ pc = "primary header" /\ pc' = "sync primary"
        /\ WriteHeader("primary", FlippedHeader(head))
  /\ UNCHANGED <<from, head, p7>>

\* A slip of SyncBackup: the fsync between the two copies is left out.
SlipSyncBackup ==
  /\ pc = "sync backup" /\ pc' = "primary entries"
  /\ UNCHANGED <<cache, card, from, head, p7>>

SyncBackup ==
  /\ pc = "sync backup" /\ pc' = "primary entries"
  /\ Sync
  /\ UNCHANGED <<from, head, p7>>

\* A slip of SyncPrimary: success is reported before the fsync.
SlipSyncPrimary ==
  /\ pc = "sync primary" /\ pc' = "flipped"
  /\ UNCHANGED <<cache, card, from, head, p7>>

SyncPrimary ==
  /\ pc = "sync primary" /\ pc' = "flipped"
  /\ Sync
  /\ UNCHANGED <<from, head, p7>>

\* Exit 0.
EndFlip ==
  /\ pc = "flipped" /\ pc' = "up"
  /\ UNCHANGED <<cache, card, from, head, p7>>

\* A pwrite or an fsync fails: commit returns at once.
FlipFails ==
  /\ "io" \in Faults /\ pc \in FlipPhases \ {"flipped"}
  /\ pc' = "up"
  /\ UNCHANGED <<cache, card, from, head, p7>>

-----------------------------------------------------------------------------
(* The rest of the world. *)

\* A sector reaches the card.
WriteBack ==
  /\ pc # "off"
  /\ \E c \in Copies :
       \/ hdrD' = [hdrD EXCEPT ![c] = hdr[c]] /\ UNCHANGED tabD
       \/ tabD' = [tabD EXCEPT ![c] = tab[c]] /\ UNCHANGED hdrD
  /\ UNCHANGED <<cache, pc, from, head, p7>>

\* The cache is gone; a file system that was being made is broken.
PowerCut ==
  /\ pc \in CutPhases \ {"off"}
  /\ pc' = "off"
  /\ hdr' = hdrD /\ tab' = tabD
  /\ fat' \in {fat} \union (IF pc \in FormatPhases THEN {"broken"} ELSE {})
  /\ UNCHANGED <<card, from, head, user>>

\* rcK syncs and unmounts.
Shutdown ==
  /\ pc = "up" /\ pc' = "off"
  /\ Sync
  /\ UNCHANGED <<from, head, p7>>

\* After the first boot the user copies a frontend onto the card.
CopyFrontend ==
  /\ pc = "up" /\ fat # "broken"
  /\ user' = TRUE
  /\ UNCHANGED <<cache, card, pc, from, head, fat>>

Expand == NothingToGrow \/ StartGrow \/ GrowWrite \/ GrowFails \/ GrowSync
            \/ Format \/ CopyReadme

Flip == StartFlip \/ FlipWrite \/ SyncBackup \/ SyncPrimary \/ EndFlip
          \/ FlipFails

Next == PowerOn \/ Expand \/ Flip \/ WriteBack \/ PowerCut \/ Shutdown
          \/ CopyFrontend

Spec == Init /\ [][Next]_vars

-----------------------------------------------------------------------------
(* Properties. *)

\* A copy whose entries have the CRC its header gives them.
Whole(c) == hdrD[c] # None /\ tabD[c] = hdrD[c].sum

Backup == hdrD["primary"].backup

\* Types of the variables; every table is an A/B layout gptslot accepts, and
\* the headers a flip refreshes are there.
TypeOK ==
  /\ hdr \in [Copies -> Headers \union {None}]
  /\ hdrD \in [Copies -> Headers \union {None}]
  /\ tab \in [Copies -> Tables] /\ tabD \in [Copies -> Tables]
  /\ \A c \in Copies : IsSlotLayout(tab[c]) /\ IsSlotLayout(tabD[c])
  /\ pc \in Phases
  /\ from \in Tables /\ IsSlotLayout(from)
  /\ head \in Headers
  /\ hdr["primary"] # None /\ hdrD["primary"] # None
  /\ pc \in FlipPhases => hdr[head.backup] # None
  /\ fat \in {"shipped", "broken", "fresh"} /\ user \in BOOLEAN

\* As long as a flip runs that found the primary copy whole, the card holds one
\* whole copy, the primary or the backup it leads to, however the writes reach
\* it: the card a power cut would leave behind (commit: "Backup copy first").
\* A flip that starts on a primary copy an earlier cut has broken has no such
\* net.
FoundWhole == head.sum = from

OneCopyWhole ==
  pc \in FlipPhases /\ FoundWhole => Whole("primary") \/ Whole(Backup)

\* A flip that succeeds leaves both copies whole and alike on the card, also
\* when an earlier one was interrupted (commit: "Refresh both headers'
\* entry-table CRC").
FlipRepairs ==
  pc = "flipped" =>
    \A c \in {"primary", Backup} : Whole(c) /\ tabD[c] = Flipped

\* A frontend on partition 7 is never formatted away (expand-storage: "a
\* frontend the user has copied on is never touched").
UserDataKept == [][user => user']_vars

\* A card that fills the disk was set up: gptgrow has nothing left to do only
\* when both copies are whole (gptgrow: "Idempotent: exits 1 (no change) if
\* already at the end").
FullMeansWhole ==
  pc = "up" /\ Full(tab["primary"], CardTotal)
    => Whole("primary") /\ Whole(Backup)

\* A card that fills the disk has been formatted (expand-storage: "a card that
\* already fills the disk - i.e. one the user has already set up").
FullMeansFormatted ==
  pc = "up" /\ Full(tab["primary"], CardTotal) => fat = "fresh"

\* What a power cut during a flip leaves is a card whose primary copy is valid
\* (commit: "If power is lost mid-commit the primary still describes the old
\* slot, so the device boots exactly as before").  It does not hold: entries
\* and header are two writes.
MidCommitBoots == pc \in FlipPhases /\ FoundWhole => Whole("primary")

\* The primary copy of the card, as SlotPointer sees it.
FirstHalf == {"backup entries", "backup header", "sync backup"}

SecondHalf == {"primary entries", "primary header", "sync primary", "flipped"}

Job ==
  IF pc \in FirstHalf THEN "backup"
  ELSE IF pc \in SecondHalf THEN "primary"
  ELSE IF pc \in GrowPhases THEN "grow" ELSE "idle"

SlotOnCard == Letter(tabD["primary"])

SlotBefore == IF pc \in FlipPhases THEN Letter(from) ELSE SlotOnCard

Pointer == INSTANCE SlotPointer WITH
  at <- SlotOnCard, valid <- Whole("primary"), job <- Job, was <- SlotBefore

\* While no write fails a flip touches the primary copy in its second half only,
\* changes its slot once, and leaves it valid when it succeeds (commit: "Backup
\* copy first").
ImplementsSlotPointer == Pointer!Spec

=============================================================================
