-------------------------------- MODULE MCTools --------------------------------
(***************************************************************************)
(* The tools of the build host.  What they work on is given to each by the *)
(* model of the others (a verified image, a fitting module), so a behaviour *)
(* is about one of them.                                                   *)
(***************************************************************************)
EXTENDS Firmware, MCModules, KernelGzip, RestoreCard, MCBuild

Sized(name, id, first, last) ==
  [name |-> name, id |-> id, first |-> first, last |-> last, hidden |-> FALSE]

Card(table, sectors, backupLba) ==
  [sectors |-> sectors, headerOk |-> TRUE, backupLba |-> backupLba,
   lastUsable |-> backupLba - 3, table |-> table,
   backup |-> [ok |-> TRUE, lastUsable |-> backupLba - 3, table |-> table]]

\* A StockMod card: one sector of special, the boot partition at 12 and 13.
StockMod ==
  << Sized("special", 1, 8, 8), Sized("boot-resource", 2, 9, 10), Sized("env", 3, 11, 11),
     Sized("boot", 4, 12, 13), Sized("rootfs", 5, 14, 16), Sized("appfs", 6, 17, 17),
     Sized("UDISK", 7, 18, 18), Sized("primary", 8, 19, 20) >>

Base7 == [StockMod EXCEPT ![8] = NoEntry]

\* The same firmware on a stock card, behind two more sectors of Roms.
Stock ==
  << Sized("Roms", 1, 8, 10), Sized("boot-resource", 2, 11, 12), Sized("env", 3, 13, 13),
     Sized("boot", 4, 14, 15), Sized("rootfs", 5, 16, 18), Sized("appfs", 6, 19, 19),
     Sized("UDISK", 7, 20, 20), NoEntry >>

Whole(t) == Card(t, 24, 23)

\* p5 one sector late: mkgpt.py must refuse it.
Gap(t) == [t EXCEPT ![5].first = @ + 1]

MCCards ==
  { Whole(StockMod), Whole(Base7), Whole(Stock),
    Card(Base7, 19, 23),                        \* trimmed after p7
    Card(Base7, 20, 23), Card(Stock, 21, 23),   \* cut elsewhere, a stock card cut
    Whole(Gap(StockMod)), Whole(Gap(Stock)),
    Whole([StockMod EXCEPT ![3].last = 12]),     \* env overlaps boot
    Whole([StockMod EXCEPT ![2].name = "env", ![3].name = "boot-resource"]),
    Whole([Stock EXCEPT ![1].last = 8]),         \* no room for a special
    Whole([Stock EXCEPT ![1].last = 9]),         \* recast, but not onto the pinned sectors
    [Whole(StockMod) EXCEPT !.headerOk = FALSE],
    [Whole(StockMod) EXCEPT !.backup.table = Base7],
    [Whole(StockMod) EXCEPT !.lastUsable = 22] }

ASSUME CatalogAssumption == PinsWholePartition

ASSUME HarvestAssumption == SectionsInLine /\ FewStrays /\ OneBuild /\ HarvestOfKernel

-----------------------------------------------------------------------------
\* A package of nine words; words 3 to 6 are its U-Boot.
MCPackage(selector, rest) ==
  LET blank == <<0, 9, 0, 4, selector, rest, 11, 3, 15>>
      uboot == Seal(Uboot(blank), 1)
  IN  Seal(WithUboot(blank, uboot), 1)

Bytes(of, n) == [i \in 1 .. n |-> [of |-> of, at |-> i]]

MCBoot(kernelSize, ramdiskSize, dtbSize, tail) ==
  LET android == AndroidImage(<<Bytes("kernel", kernelSize), Bytes("ramdisk", ramdiskSize),
                              <<>>, <<>>, Bytes("dtb", dtbSize)>>)
  IN  [android EXCEPT !.body = @ \o [i \in 1 .. 3 |-> tail]]

Known == [of |-> "known", at |-> 0]

MCAudited ==
  [package : {MCPackage(5, rest) : rest \in 0 .. 15} \union
               {MCPackage(9, 1), [MCPackage(5, 1) EXCEPT ![1] = (@ + 1) % 16],
                [MCPackage(5, 2) EXCEPT ![3] = (@ + 1) % 16], [MCPackage(5, 3) EXCEPT ![2] = 8]},
   boot : {MCBoot(k, r, 4, tail) : k \in {1, 6, 7}, r \in 2 .. 4, tail \in {Erased, Known}} \union
            {[MCBoot(7, 2, 4, Known) EXCEPT !.body[1] = Known],
             [MCBoot(6, 2, 4, Known) EXCEPT !.body = SubSeq(@, 1, 12)]}]

MCPairs ==
  MCAudited \union {[package |-> MCPackage(5, 1), boot |-> MCBoot(5, 2, 3, Known)]}

-----------------------------------------------------------------------------
VARIABLE tool   \* the tools a behaviour is about

ToolsInit ==
  /\ tool \in {"firmware", "modules", "gzip", "restore", "build"}
  /\ FirmwareInit /\ ModulesInit /\ GzipInit /\ RestoreInit /\ BuildInit

ToolsNext ==
  /\ UNCHANGED tool
  /\ \/ tool = "firmware" /\ FirmwareNext /\ UNCHANGED <<moduleVars, gzipVars, restoreVars, buildVars>>
     \/ tool = "modules" /\ ModulesNext /\ UNCHANGED <<firmwareVars, gzipVars, restoreVars, buildVars>>
     \/ tool = "gzip" /\ GzipNext /\ UNCHANGED <<firmwareVars, moduleVars, restoreVars, buildVars>>
     \/ tool = "restore" /\ RestoreNext /\ UNCHANGED <<firmwareVars, moduleVars, gzipVars, buildVars>>
     \/ tool = "build" /\ BuildNext /\ UNCHANGED <<firmwareVars, moduleVars, gzipVars, restoreVars>>

ToolsSpec ==
  ToolsInit /\ [][ToolsNext]_<<tool, firmwareVars, moduleVars, gzipVars, restoreVars, buildVars>>

=============================================================================
