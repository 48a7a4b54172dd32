------------------------------- MODULE GptLayout -------------------------------
(***************************************************************************)
(* Partition arithmetic: what tools/gptslot.c derives from the entry table *)
(* and changes in it, what tools/gptgrow.c changes, and the table          *)
(* tools/mkgpt.py puts into an image.  A table keeps the six LBAs these    *)
(* tools look at: the end of entry 4 (boot), entry 5 (rootfs), the start   *)
(* of entry 6 (UDISK) and entry 7 (primary, the last one).                 *)
(***************************************************************************)
EXTENDS Integers

Tables ==
  [bootEnd: Nat, rootStart: Nat, rootEnd: Nat, udiskStart: Nat,
   lastStart: Nat, lastEnd: Nat]

-----------------------------------------------------------------------------
(* derive *)

Base(t) == t.bootEnd + 1

Sectors(t) == t.rootEnd - t.rootStart + 1

AtA(t) == t.rootStart = Base(t)

AtB(t) == t.rootStart = Base(t) + Sectors(t)

\* The layout gptslot accepts; the names of the entries are left out.
IsSlotLayout(t) ==
  /\ t.rootEnd > t.rootStart
  /\ AtA(t) \/ AtB(t)
  /\ t.udiskStart = Base(t) + 2 * Sectors(t)

Letter(t) == IF AtA(t) THEN "A" ELSE "B"

Inactive(t) == IF AtA(t) THEN Base(t) + Sectors(t) ELSE Base(t)

\* The sectors an update writes, and the ones the running system is on.
InactiveSlot(t) == Inactive(t) .. Inactive(t) + Sectors(t) - 1

RootSlot(t) == t.rootStart .. t.rootEnd

-----------------------------------------------------------------------------
(* What the tools write. *)

\* A slip of FlipTable: the end is one too far.
SlipFlipTable(t) ==
  [t EXCEPT !.rootStart = Inactive(t), !.rootEnd = Inactive(t) + Sectors(t)]

\* gptslot flip: entry 5 moves, nothing else does.
FlipTable(t) ==
  [t EXCEPT !.rootStart = Inactive(t), !.rootEnd = Inactive(t) + Sectors(t) - 1]

LastUsable(total) == total - 4

\* gptgrow: exit 1 when entry 7 is as long as it can be, exit 2 when its start
\* is past the end of the disk.
Full(t, total) == t.lastEnd >= LastUsable(total)

Growable(t, total) == ~Full(t, total) /\ t.lastStart < LastUsable(total)

GrowTable(t, total) == [t EXCEPT !.lastEnd = LastUsable(total)]

\* mkgpt.py: slot A where the vendor's rootfs starts, slot B after it, then
\* UDISK and primary.
ImageTable(bootEnd, slotSectors, udiskSectors, total) ==
  LET udisk == bootEnd + 1 + 2 * slotSectors IN
  [bootEnd |-> bootEnd,
   rootStart |-> bootEnd + 1, rootEnd |-> bootEnd + slotSectors,
   udiskStart |-> udisk,
   lastStart |-> udisk + udiskSectors, lastEnd |-> LastUsable(total)]

\* mkgpt.py: "image too small for the requested partition sizes" otherwise.
ImageFits(bootEnd, slotSectors, udiskSectors, total) ==
  bootEnd + 1 + 2 * slotSectors + udiskSectors < LastUsable(total)

=============================================================================
