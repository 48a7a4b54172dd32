------------------------------ MODULE RestoreCard ------------------------------
(***************************************************************************)
(* experiments/rgsp-kernel-gzip/install/restore-card.py: the original boot *)
(* pair is written back to the card of one device, with another computer.  *)
(* The card must be the one the backup is of, by the cells of its package  *)
(* that no patch touches; it may carry the gzip pair, half of either, or   *)
(* what an interrupted restore has left.  A cell is a sector, or the part  *)
(* of the first one that is compared.                                      *)
(***************************************************************************)
CONSTANTS
  PackageCells, BootCells,   \* the two regions
  IdentityCells,             \* what restore-card.py compares
  FragileCells               \* cells where a write may store something else

ASSUME RestoreAssumption ==
  /\ PackageCells \cap BootCells = {}
  /\ IdentityCells \subseteq PackageCells
  /\ FragileCells \cap IdentityCells = {}

Cells == PackageCells \union BootCells

CellContents == {"original", "gzip", "other"}

VARIABLES
  restore,      \* the step restore-card.py is at
  left,         \* cells of the current region that have not been written
  seen, medium  \* the card as it reads, and as it is

restoreVars == <<restore, left, seen, medium>>

RestoreSteps ==
  {"none", "idle", "boot", "sync_boot", "read_boot", "package", "sync_package",
   "read_package", "restored"}

Blank == [c \in Cells |-> "other"]

RestoreInit ==
  /\ restore = "none" /\ left = {}
  /\ medium = Blank /\ seen = Blank

\* A card is put into the reader.
Insert ==
  /\ restore = "none"
  /\ restore' = "idle" /\ left' = {}
  /\ medium' \in [Cells -> CellContents] /\ seen' = medium'

Eject ==
  /\ restore = "idle" /\ seen = medium
  /\ restore' = "none" /\ left' = {}
  /\ medium' = Blank /\ seen' = Blank

Recognised(contents) == \A c \in IdentityCells : contents[c] = "original"

\* A slip of StartRestore: the package is not looked at.
SlipStartRestore ==
  /\ restore = "idle"
  /\ restore' = "boot" /\ left' = BootCells
  /\ UNCHANGED <<seen, medium>>

\* The GPT and the package are those of the RG SP.
StartRestore ==
  /\ restore = "idle" /\ Recognised(seen)
  /\ restore' = "boot" /\ left' = BootCells
  /\ UNCHANGED <<seen, medium>>

\* disk.write takes some of the bytes.
WriteChunk ==
  /\ restore \in {"boot", "package"}
  /\ \E chunk \in (SUBSET left) \ {{}}, bad \in SUBSET FragileCells :
       /\ seen' = [c \in Cells |-> IF c \notin chunk THEN seen[c]
                                   ELSE IF c \in bad THEN "other" ELSE "original"]
       /\ left' = left \ chunk
  /\ UNCHANGED <<restore, medium>>

RegionWritten ==
  /\ left = {}
  /\ \/ restore = "boot" /\ restore' = "sync_boot"
     \/ restore = "package" /\ restore' = "sync_package"
  /\ UNCHANGED <<left, seen, medium>>

\* A slip of FsyncCard: nothing is flushed.
SlipFsyncCard ==
  /\ \/ restore = "sync_boot" /\ restore' = "read_boot"
     \/ restore = "sync_package" /\ restore' = "read_package"
  /\ UNCHANGED <<left, seen, medium>>

FsyncCard ==
  /\ \/ restore = "sync_boot" /\ restore' = "read_boot"
     \/ restore = "sync_package" /\ restore' = "read_package"
  /\ medium' = seen
  /\ UNCHANGED <<left, seen>>

\* The region is read back and compared; the boot partition comes first.
ReadBack ==
  /\ \/ /\ restore = "read_boot" /\ \A c \in BootCells : seen[c] = "original"
        /\ restore' = "package" /\ left' = PackageCells
     \/ /\ restore = "read_package" /\ \A c \in PackageCells : seen[c] = "original"
        /\ restore' = "restored" /\ left' = {}
  /\ UNCHANGED <<seen, medium>>

\* An OSError or a failed comparison ends the script, at any point.
Fail ==
  /\ restore \notin {"none", "idle"}
  /\ restore' = "idle" /\ left' = {}
  /\ UNCHANGED <<seen, medium>>

\* A cell reaches the card.
FlushCell ==
  /\ restore # "none"
  /\ \E c \in Cells : medium' = [medium EXCEPT ![c] = seen[c]]
  /\ UNCHANGED <<restore, left, seen>>

\* The card is pulled, or the computer goes down.
Pull ==
  /\ restore # "none"
  /\ restore' = "idle" /\ left' = {}
  /\ seen' = medium
  /\ UNCHANGED medium

RestoreNext ==
  Insert \/ Eject \/ StartRestore \/ WriteChunk \/ RegionWritten \/ FsyncCard \/ ReadBack \/ Fail
    \/ FlushCell \/ Pull

RestoreSpec == RestoreInit /\ [][RestoreNext]_restoreVars

-----------------------------------------------------------------------------
RestoreTypeOK ==
  /\ restore \in RestoreSteps /\ left \subseteq Cells
  /\ seen \in [Cells -> CellContents] /\ medium \in [Cells -> CellContents]

\* "Original boot pair restored and verified" is printed only when the whole
\* pair is on the card, whatever was there and however often the script was
\* interrupted and run again.
RestoredIsOriginal == restore = "restored" => medium = [c \in Cells |-> "original"]

\* A card of another device is never written, and a card that was recognised
\* stays so: an interrupted restore can be run again (restore-card.py:
\* "Identify the pinned RG SP package while permitting damaged patch
\* sectors").
ForeignUntouched ==
  [][restore # "none" /\ restore' # "none" =>
       /\ ~Recognised(medium) => medium' = medium
       /\ Recognised(medium) => Recognised(medium')]_restoreVars

=============================================================================
