--------------------------- MODULE BootMigrateProof ---------------------------
(***************************************************************************)
(* The boot pair migration, for every choice of faults and power cuts that *)
(* leaves a blocked session alone.                                         *)
(***************************************************************************)
EXTENDS BootMigrate, TLAPS

\* Nobody kills a session that waits for ever.
NoKill == "kill" \notin Faults

SavePhases ==
  {"save boot", "saved boot", "save package", "saved package", "begin"}

ExchangePhases ==
  WritePhases \union {"verify", "failed", "verify original"}

UpPhases == {"gate", "mark", "marked", "session"}

True(m) ==
  /\ m \in {"installed", "already"} => pair = All("gzip")
  /\ m = "rolled-back" => pair = All("original")

\* Backups are complete before the first write, the marker is absent until the
\* last one, and outside the exchange the device boots.
MigrateInv ==
  /\ savedD \subseteq saved
  /\ markD \in {mark, "none"}
  /\ pc \in UpPhases => Boots
  /\ pc \in SavePhases => pair = All("original")
  /\ pc \notin {"saved boot", "saved package"} => savedD = saved
  /\ pc \in {"saved boot", "save package"} => "boot" \in saved
  /\ pc \in {"saved package", "begin"} \union ExchangePhases => saved = Parts
  /\ pc \in SavePhases \union ExchangePhases \union {"mark"} => mark = "none"
  /\ pc = "mark" => True(outcome)
  /\ mark # "none" => Boots /\ True(mark)
  /\ ~Boots => savedD = Parts

-----------------------------------------------------------------------------
LEMMA PartTypes ==
  ASSUME pair \in [Parts -> Contents], NEW p \in Parts, NEW c \in Contents
  PROVE  [pair EXCEPT ![p] = c] \in [Parts -> Contents] /\ pair[p] \in Contents
OBVIOUS

LEMMA AllTypes ==
  ASSUME NEW c \in Contents
  PROVE  All(c) \in [Parts -> Contents]
BY DEF All

\* Types of the variables, for any faults and cuts.
THEOREM MigrateTypeCorrect == Spec => []TypeOK
<1>1. Init => TypeOK
  BY DEF Init, TypeOK, All, Parts, Contents, Outcomes, Phases
<1>2. TypeOK /\ [Next]_vars => TypeOK'
  <2> SUFFICES ASSUME TypeOK, [Next]_vars PROVE TypeOK'
    OBVIOUS
  <2> USE DEF TypeOK, Outcomes, Phases, WritePhases, state, where
  <2>1. CASE PowerOn
    BY <2>1 DEF PowerOn
  <2>2. CASE Gate
    BY <2>2 DEF Gate, Bypass, Defer, Unfit, Compare, Reach, LogFails, Finish
  <2>3. CASE Backup
    <3>1. PICK p \in Parts : Save(p) \/ SaveSync(p)
      BY <2>3 DEF Backup
    <3>2. CASE Save(p)
      BY <3>2 DEF Save, After, Reach, LogFails, Finish
    <3>3. CASE SaveSync(p)
      BY <3>3 DEF SaveSync, After, Sync
    <3> QED
      BY <3>1, <3>2, <3>3
  <2>4. CASE WriteBoot \/ WritePackage \/ RestoreBoot \/ RestorePackage
    <3>0. /\ "boot" \in Parts /\ "package" \in Parts
          /\ "original" \in Contents /\ "gzip" \in Contents
          /\ "torn" \in Contents
      BY DEF Parts, Contents
    <3>1. CASE WriteBoot
      <4>1. \/ pair' = pair
            \/ pair' = [pair EXCEPT !["boot"] = "gzip"]
            \/ pair' = [pair EXCEPT !["boot"] = "torn"]
            \/ pair' = [pair EXCEPT !["boot"] = pair["boot"]]
        BY <3>1 DEF WriteBoot, Put
      <4>2. pair' \in [Parts -> Contents]
        BY <3>0, <4>1, PartTypes
      <4> QED
        BY <3>1, <4>2 DEF WriteBoot, Put
    <3>2. CASE WritePackage
      <4>1. \/ pair' = pair
            \/ pair' = [pair EXCEPT !["package"] = "gzip"]
            \/ pair' = [pair EXCEPT !["package"] = "torn"]
            \/ pair' = [pair EXCEPT !["package"] = pair["package"]]
        BY <3>2 DEF WritePackage, Put
      <4>2. pair' \in [Parts -> Contents]
        BY <3>0, <4>1, PartTypes
      <4> QED
        BY <3>2, <4>2 DEF WritePackage, Put
    <3>3. CASE RestoreBoot
      <4>1. \/ pair' = pair
            \/ pair' = [pair EXCEPT !["boot"] = "original"]
            \/ pair' = [pair EXCEPT !["boot"] = "torn"]
            \/ pair' = [pair EXCEPT !["boot"] = pair["boot"]]
        BY <3>3 DEF RestoreBoot, Put
      <4>2. pair' \in [Parts -> Contents]
        BY <3>0, <4>1, PartTypes
      <4> QED
        BY <3>3, <4>2 DEF RestoreBoot, Put
    <3>4. CASE RestorePackage
      <4>1. \/ pair' = pair
            \/ pair' = [pair EXCEPT !["package"] = "original"]
            \/ pair' = [pair EXCEPT !["package"] = "torn"]
            \/ pair' = [pair EXCEPT !["package"] = pair["package"]]
        BY <3>4 DEF RestorePackage, Put
      <4>2. pair' \in [Parts -> Contents]
        BY <3>0, <4>1, PartTypes
      <4> QED
        BY <3>4, <4>2 DEF RestorePackage, Put
    <3> QED
      BY <2>4, <3>1, <3>2, <3>3, <3>4
  <2>5. CASE BeginExchange \/ VerifyNew \/ InstallFailed \/ VerifyOriginal
    BY <2>5 DEF BeginExchange, VerifyNew, InstallFailed, VerifyOriginal, Reach, LogFails,
       Finish
  <2>6. CASE Complete
    BY <2>6 DEF Complete, MarkWrite, MarkSync, Sync, LogFails, Reach
  <2>7. CASE Respawn \/ Shutdown
    BY <2>7 DEF Respawn, Shutdown, Sync
  <2>8. CASE PowerCut
    <3>1. /\ pc' = "off" /\ UNCHANGED <<outcome, where>>
          /\ saved' \subseteq saved /\ savedD' = saved'
          /\ mark' \in {mark, markD} /\ markD' = mark'
      BY <2>8 DEF PowerCut
    <3>2. pair' \in [Parts -> Contents]
      BY <2>8 DEF PowerCut, Contents
    <3> QED
      BY <3>1, <3>2
  <2>9. CASE OfflineRestore
    <3>1. pair' \in [Parts -> Contents]
      BY <2>9, AllTypes DEF OfflineRestore, Contents
    <3> QED
      BY <2>9, <3>1 DEF OfflineRestore
  <2>10. CASE UNCHANGED vars
    BY <2>10 DEF vars
  <2> QED
    BY <2>1, <2>2, <2>3, <2>4, <2>5, <2>6, <2>7, <2>8, <2>9, <2>10
       DEF Next, Exchange
<1> QED
  BY <1>1, <1>2, PTL DEF Spec

LEMMA MigrateStep ==
  ASSUME NoKill, TypeOK, MigrateInv, [Next]_vars
  PROVE  MigrateInv'
<1> USE DEF MigrateInv, UpPhases, SavePhases, ExchangePhases, WritePhases, state,
        where
<1>1. CASE PowerOn
  BY <1>1 DEF PowerOn, Boots, True
<1>2. CASE Gate
  <2>1. pc = "gate" /\ UNCHANGED <<pair, saved, savedD, mark, markD>>
    BY <1>2 DEF Gate, Bypass, Defer, Unfit, Compare, Reach, LogFails, Finish
  <2>2. \/ pc' \in {"session", "blocked"}
        \/ pc' = "save boot" /\ pair = All("original") /\ mark = "none"
        \/ pc' = "mark" /\ True(outcome') /\ mark = "none"
    BY <1>2 DEF Gate, Bypass, Defer, Unfit, Compare, Reach, LogFails, Finish,
       Wanted, True
  <2> QED
    BY <2>1, <2>2 DEF Boots, True
<1>3. CASE Backup
  <2>1. PICK p \in Parts : Save(p) \/ SaveSync(p)
    BY <1>3 DEF Backup
  <2>2. CASE SaveSync(p)
    BY <2>2 DEF SaveSync, Sync, After, Parts, Boots, True
  <2>3. CASE Save(p)
    <3>0. p = "boot" \/ p = "package"
      BY DEF Parts
    <3>1. CASE p \in saved /\ Reach(After(p))
      <4>1. UNCHANGED <<pair, state>>
        BY <3>1 DEF Reach
      <4>2. CASE p = "boot"
        <5>1. pc = "save boot" /\ pc' = "save package"
          BY <2>3, <3>1, <4>2 DEF Save, Reach, After
        <5> QED
          BY <3>1, <4>1, <4>2, <5>1 DEF Boots, True
      <4>3. CASE p = "package"
        <5>1. pc = "save package" /\ pc' = "begin"
          BY <2>3, <3>1, <4>3 DEF Save, Reach, After
        <5>2. saved = Parts
          BY <3>1, <4>3, <5>1 DEF Parts, TypeOK
        <5> QED
          BY <4>1, <5>1, <5>2 DEF Boots, True
      <4> QED
        BY <3>0, <4>2, <4>3
    <3>2. CASE /\ saved' = saved \union {p}
               /\ pc' = (IF p = "boot" THEN "saved boot" ELSE "saved package")
               /\ UNCHANGED <<pair, savedD, mark, markD, outcome, where>>
      <4>1. savedD' \subseteq saved'
        BY <3>2
      <4>2. CASE p = "boot"
        BY <2>3, <3>2, <4>1, <4>2 DEF Save, Boots, True
      <4>3. CASE p = "package"
        <5>1. pc = "save package" /\ pc' = "saved package"
          BY <2>3, <3>2, <4>3 DEF Save
        <5>2. saved' = Parts
          BY <3>2, <4>3, <5>1 DEF Parts, TypeOK
        <5> QED
          BY <3>2, <4>1, <5>1, <5>2 DEF Boots, True
      <4> QED
        BY <3>0, <4>2, <4>3
    <3>3. CASE Finish("skipped")
      BY <2>3, <3>3 DEF Save, Finish, LogFails, Reach, Boots, True
    <3> QED
      BY <2>3, <3>1, <3>2, <3>3 DEF Save
  <2> QED
    BY <2>1, <2>2, <2>3
<1>4. CASE WriteBoot \/ WritePackage \/ RestoreBoot \/ RestorePackage
  <2>1. pc \in WritePhases /\ pc' \in ExchangePhases /\ UNCHANGED <<state>>
    BY <1>4 DEF WriteBoot, WritePackage, RestoreBoot, RestorePackage, Put
  <2> QED
    BY <2>1
<1>5. CASE BeginExchange \/ InstallFailed
  BY <1>5 DEF BeginExchange, InstallFailed, Reach, LogFails, Boots, True
<1>6. CASE VerifyNew \/ VerifyOriginal
  <2>1. pc \in {"verify", "verify original"} /\ UNCHANGED <<pair, state>>
    BY <1>6 DEF VerifyNew, VerifyOriginal, Reach, Finish, LogFails
  <2>2. \/ pc' \in {"failed", "blocked"}
        \/ pc' = "mark" /\ Boots /\ True(outcome')
    BY <1>6 DEF VerifyNew, VerifyOriginal, Reach, Finish, LogFails, Reads, Boots,
       True
  <2> QED
    BY <2>1, <2>2 DEF Boots, True
<1>7. CASE Complete
  BY <1>7 DEF Complete, MarkWrite, MarkSync, Sync, LogFails, Reach, Boots, True
<1>8. CASE Respawn
  BY <1>8 DEF Respawn, NoKill, Boots, True
<1>9. CASE Shutdown
  BY <1>9 DEF Shutdown, Sync, Boots, True
<1>10. CASE PowerCut
  <2>1. /\ pc' = "off" /\ savedD' = saved' /\ savedD \subseteq savedD'
        /\ savedD' \subseteq saved
        /\ mark' \in {mark, markD} /\ markD' = mark'
    BY <1>10 DEF PowerCut
  <2>2. CASE pc \in WritePhases
    BY <2>1, <2>2
  <2>3. CASE pc \notin WritePhases
    <3>1. pair' = pair
      BY <1>10, <2>3 DEF PowerCut, Part
    <3>2. savedD = Parts => savedD' = Parts
      BY <2>1 DEF TypeOK
    <3> QED
      BY <2>1, <3>1, <3>2 DEF Boots, True
  <2> QED
    BY <2>2, <2>3
<1>11. CASE OfflineRestore
  BY <1>11 DEF OfflineRestore, Boots, True
<1>12. CASE UNCHANGED vars
  BY <1>12 DEF vars, Boots, True
<1> QED
  BY <1>1, <1>2, <1>3, <1>4, <1>5, <1>6, <1>7, <1>8, <1>9, <1>10, <1>11, <1>12
     DEF Next, Exchange

LEMMA MigrateInvariant ==
  ASSUME NoKill
  PROVE  Spec => []MigrateInv
<1>1. Init => MigrateInv
  BY DEF Init, MigrateInv, UpPhases, SavePhases, ExchangePhases, WritePhases,
     Boots, True
<1>2. TypeOK /\ MigrateInv /\ [Next]_vars => MigrateInv'
  BY MigrateStep
<1> QED
  BY <1>1, <1>2, MigrateTypeCorrect, PTL DEF Spec

\* Whatever fails and wherever the power is cut: a device that does not boot
\* has both backups.
THEOREM MigrationRecoverable ==
  ASSUME NoKill
  PROVE  Spec => []Recoverable
<1>1. MigrateInv => Recoverable
  BY DEF MigrateInv, Recoverable
<1> QED
  BY <1>1, MigrateInvariant, PTL

\* A session runs only on a device that boots.
THEOREM SessionNeverStranded ==
  ASSUME NoKill
  PROVE  Spec => []SessionBoots
<1>1. MigrateInv => SessionBoots
  BY DEF MigrateInv, SessionBoots, UpPhases
<1> QED
  BY <1>1, MigrateInvariant, PTL

\* The marker tells what is on the card, under every fault.
THEOREM MarkerTrue ==
  ASSUME NoKill
  PROVE  Spec => []MarkTellsPair
<1>1. MigrateInv => MarkTellsPair
  BY DEF MigrateInv, MarkTellsPair, True
<1> QED
  BY <1>1, MigrateInvariant, PTL

\* A recorded migration is never followed by another write.
THEOREM FirmwareWrittenOnce ==
  ASSUME NoKill
  PROVE  Spec => WrittenOnce
<1>1. ASSUME MigrateInv, [Next]_vars, mark # "none" PROVE pair' = pair
  <2>1. pc \notin WritePhases /\ ~OfflineRestore
    BY <1>1 DEF MigrateInv, ExchangePhases, OfflineRestore
  <2>2. ~(WriteBoot \/ WritePackage \/ RestoreBoot \/ RestorePackage)
    BY <2>1 DEF WriteBoot, WritePackage, RestoreBoot, RestorePackage, WritePhases
  <2>3. CASE PowerCut
    BY <2>1, <2>3 DEF PowerCut, Part, WritePhases
  <2> QED
    BY <1>1, <2>1, <2>2, <2>3 DEF Next, PowerOn, Gate, Bypass, Defer, Unfit,
       Compare, Backup, Save, SaveSync, Exchange, BeginExchange, VerifyNew,
       InstallFailed, VerifyOriginal, Complete, MarkWrite, MarkSync, Respawn,
       Shutdown, Reach, LogFails, Finish, vars
<1>2. MigrateInv /\ [Next]_vars => [mark # "none" => pair' = pair]_vars
  BY <1>1
<1> QED
  BY <1>2, MigrateInvariant, PTL DEF Spec, WrittenOnce

=============================================================================
