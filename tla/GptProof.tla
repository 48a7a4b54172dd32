------------------------------- MODULE GptProof -------------------------------
(***************************************************************************)
(* Theorems about GptLayout and GptDisk, for cards, images and slots of    *)
(* any size.                                                               *)
(***************************************************************************)
EXTENDS GptDisk, TLAPS

-----------------------------------------------------------------------------
(* The arithmetic of the slots. *)

\* Tables with the same fields are the same.
LEMMA SameTable ==
  ASSUME NEW t \in Tables, NEW u \in Tables,
         t.bootEnd = u.bootEnd, t.rootStart = u.rootStart, t.rootEnd = u.rootEnd,
         t.udiskStart = u.udiskStart, t.lastStart = u.lastStart,
         t.lastEnd = u.lastEnd
  PROVE  t = u
BY DEF Tables

LEMMA SlotNumbers ==
  ASSUME NEW t \in Tables, IsSlotLayout(t)
  PROVE  /\ Inactive(t) \in Nat /\ Sectors(t) \in Nat \ {0, 1}
         /\ Base(t) \in Nat
         /\ Inactive(t) + Sectors(t) - 1 \in Nat
         /\ t.rootEnd = t.rootStart + Sectors(t) - 1
BY DEF Tables, IsSlotLayout, AtA, AtB, Base, Sectors, Inactive

LEMMA FlipFields ==
  ASSUME NEW t \in Tables, IsSlotLayout(t)
  PROVE  LET f == FlipTable(t) IN
         /\ f \in Tables
         /\ f.bootEnd = t.bootEnd /\ f.udiskStart = t.udiskStart
         /\ f.lastStart = t.lastStart /\ f.lastEnd = t.lastEnd
         /\ f.rootStart = Inactive(t)
         /\ f.rootEnd = Inactive(t) + Sectors(t) - 1
BY SlotNumbers DEF Tables, FlipTable

\* A flip leaves a layout that gptslot accepts, with the other slot selected.
THEOREM FlipKeepsLayout ==
  ASSUME NEW t \in Tables, IsSlotLayout(t)
  PROVE  /\ FlipTable(t) \in Tables
         /\ IsSlotLayout(FlipTable(t))
         /\ Letter(FlipTable(t)) # Letter(t)
         /\ Base(FlipTable(t)) = Base(t) /\ Sectors(FlipTable(t)) = Sectors(t)
<1> DEFINE f == FlipTable(t)
<1>1. /\ f \in Tables
      /\ f.bootEnd = t.bootEnd /\ f.udiskStart = t.udiskStart
      /\ f.rootStart = Inactive(t)
      /\ f.rootEnd = Inactive(t) + Sectors(t) - 1
  BY FlipFields
<1>2. /\ Inactive(t) \in Nat /\ Sectors(t) \in Nat \ {0, 1}
      /\ Base(t) \in Nat
  BY SlotNumbers
<1> HIDE DEF f
<1>3. Base(f) = Base(t) /\ Sectors(f) = Sectors(t)
  BY <1>1, <1>2 DEF Base, Sectors
<1>4. t.udiskStart = Base(t) + 2 * Sectors(t) /\ (AtA(t) \/ AtB(t))
  BY DEF IsSlotLayout
<1>5. f.rootEnd > f.rootStart
  BY <1>1, <1>2
<1>6. CASE AtA(t)
  <2>1. f.rootStart = Base(t) + Sectors(t)
    BY <1>1, <1>6 DEF Inactive
  <2>2. ~AtA(f) /\ AtB(f)
    BY <2>1, <1>2, <1>3 DEF AtA, AtB
  <2> QED
    BY <1>1, <1>3, <1>4, <1>5, <1>6, <2>2 DEF IsSlotLayout, Letter, f
<1>7. CASE ~AtA(t)
  <2>1. AtA(f)
    BY <1>1, <1>3, <1>7 DEF AtA, Inactive
  <2> QED
    BY <1>1, <1>3, <1>4, <1>5, <1>7, <2>1 DEF IsSlotLayout, Letter, f
<1> QED
  BY <1>6, <1>7

\* Two flips are none: a rollback restores the table the update found.
THEOREM FlipTwice ==
  ASSUME NEW t \in Tables, IsSlotLayout(t)
  PROVE  FlipTable(FlipTable(t)) = t
<1> DEFINE f == FlipTable(t)
           g == FlipTable(f)
<1>1. f \in Tables /\ IsSlotLayout(f)
  BY FlipKeepsLayout
<1>2. Base(f) = Base(t) /\ Sectors(f) = Sectors(t) /\ Letter(f) # Letter(t)
  BY FlipKeepsLayout
<1>3. /\ f.bootEnd = t.bootEnd /\ f.udiskStart = t.udiskStart
      /\ f.lastStart = t.lastStart /\ f.lastEnd = t.lastEnd
  BY FlipFields
<1> HIDE DEF f
<1>4. /\ g \in Tables
      /\ g.bootEnd = f.bootEnd /\ g.udiskStart = f.udiskStart
      /\ g.lastStart = f.lastStart /\ g.lastEnd = f.lastEnd
      /\ g.rootStart = Inactive(f)
      /\ g.rootEnd = Inactive(f) + Sectors(f) - 1
  BY <1>1, FlipFields
<1>5. Inactive(f) = t.rootStart
  BY <1>2 DEF Inactive, Letter, IsSlotLayout, AtA, AtB
<1>6. t.rootEnd = t.rootStart + Sectors(t) - 1
  BY SlotNumbers
<1> HIDE DEF g
<1>7. g = t
  BY <1>2, <1>3, <1>4, <1>5, <1>6, SameTable
<1> QED
  BY <1>7 DEF f, g

\* The sectors an update writes are none of the running system's, of the boot
\* partition's or of UDISK's.
THEOREM SlotsApart ==
  ASSUME NEW t \in Tables, IsSlotLayout(t), NEW n \in InactiveSlot(t)
  PROVE  n \notin RootSlot(t) /\ n > t.bootEnd /\ n < t.udiskStart
BY DEF Tables, IsSlotLayout, AtA, AtB, Base, Sectors, Inactive, InactiveSlot,
       RootSlot

\* A table of the layout before 1.0, with a partition one slot in, is refused.
THEOREM OldLayoutRefused ==
  ASSUME NEW t \in Tables, t.udiskStart = Base(t) + Sectors(t)
  PROVE  ~IsSlotLayout(t)
BY DEF Tables, IsSlotLayout, AtA, AtB, Base, Sectors

\* Growing the last partition leaves the slots as they are.
THEOREM GrowKeepsSlots ==
  ASSUME NEW t \in Tables, IsSlotLayout(t), NEW total \in Nat,
         LastUsable(total) \in Nat
  PROVE  /\ GrowTable(t, total) \in Tables
         /\ IsSlotLayout(GrowTable(t, total))
         /\ Letter(GrowTable(t, total)) = Letter(t)
         /\ Full(GrowTable(t, total), total)
<1> DEFINE g == GrowTable(t, total)
<1>2. /\ g \in Tables
      /\ g.bootEnd = t.bootEnd /\ g.udiskStart = t.udiskStart
      /\ g.rootStart = t.rootStart /\ g.rootEnd = t.rootEnd
      /\ g.lastEnd = LastUsable(total)
  BY DEF Tables, GrowTable
<1> HIDE DEF g
<1>3. Base(g) = Base(t) /\ Sectors(g) = Sectors(t)
  BY <1>2 DEF Base, Sectors
<1>4. IsSlotLayout(g) /\ Letter(g) = Letter(t)
  BY <1>2, <1>3 DEF IsSlotLayout, AtA, AtB, Letter
<1>5. Full(g, total)
  BY <1>2 DEF Full
<1> QED
  BY <1>2, <1>4, <1>5 DEF g

\* The table mkgpt.py builds is one that gptslot accepts, with slot A selected.
THEOREM ImageIsLayout ==
  ASSUME NEW b \in Nat, NEW s \in Nat \ {0, 1}, NEW u \in Nat, NEW n \in Nat,
         ImageFits(b, s, u, n)
  PROVE  /\ ImageTable(b, s, u, n) \in Tables
         /\ IsSlotLayout(ImageTable(b, s, u, n))
         /\ Letter(ImageTable(b, s, u, n)) = "A"
BY DEF Tables, IsSlotLayout, ImageTable, ImageFits, LastUsable, Letter, AtA, AtB,
       Base, Sectors

-----------------------------------------------------------------------------
(* The two copies: types. *)

LEMMA NoneIsNoHeader == None \notin Headers
<1>1. DOMAIN None = {"sum"}
  BY DEF None
<1>2. \A h \in Headers : DOMAIN h = {"sum", "backup"}
  BY DEF Headers
<1> QED
  BY <1>1, <1>2

LEMMA CardEnd == LastUsable(CardTotal) \in Nat
BY GptAssumption DEF ImageFits, LastUsable

LEMMA FactoryTypes ==
  /\ Factory \in Tables /\ IsSlotLayout(Factory)
  /\ Letter(Factory) = "A"
BY GptAssumption, ImageIsLayout DEF Factory

\* A header that is written takes the place of one or of none.
LEMMA WriteHeaderTypes ==
  ASSUME TypeOK, NEW c \in Copies, NEW h \in Headers, WriteHeader(c, h)
  PROVE  /\ hdr' \in [Copies -> Headers \union {None}]
         /\ \A d \in Copies : hdr[d] # None => hdr'[d] # None
BY NoneIsNoHeader DEF TypeOK, WriteHeader

\* The type invariant of GptDisk.
THEOREM GptTypeCorrect == Spec => []TypeOK
<1>1. Init => TypeOK
  <2> SUFFICES ASSUME Init PROVE TypeOK
    OBVIOUS
  <2>1. [sum |-> Factory, backup |-> "image end"] \in Headers
    BY FactoryTypes DEF Headers
  <2>2. /\ hdr \in [Copies -> Headers \union {None}]
        /\ hdrD \in [Copies -> Headers \union {None}]
        /\ hdr["primary"] \in Headers /\ hdr["primary"] # None
        /\ hdrD["primary"] # None
    BY <2>1, NoneIsNoHeader DEF Init, Copies
  <2>3. /\ tab \in [Copies -> Tables] /\ tabD \in [Copies -> Tables]
        /\ \A c \in Copies : IsSlotLayout(tab[c]) /\ IsSlotLayout(tabD[c])
    BY FactoryTypes DEF Init
  <2> QED
    BY <2>2, <2>3, FactoryTypes DEF Init, TypeOK, Phases, FlipPhases
<1>2. ASSUME TypeOK, [Next]_vars PROVE TypeOK'
  <2> USE <1>2 DEF TypeOK, cache, card, p7
  <2>0. \A c \in Copies : hdr[c] # None => hdr[c] \in Headers
    OBVIOUS
  <2>1. CASE PowerOn
    BY <2>1 DEF PowerOn, Phases, FlipPhases
  <2>2. CASE NothingToGrow
    BY <2>2 DEF NothingToGrow, Phases, FlipPhases
  <2>3. CASE StartGrow
    <3>1. "primary" \in Copies
      BY DEF Copies
    <3> QED
      BY <2>0, <2>3, <3>1 DEF StartGrow, Phases, FlipPhases, GrowPhases
  <2>4. CASE GrowWrite
    <3>1. pc' \in Phases /\ pc' \notin FlipPhases
      BY <2>4 DEF GrowWrite, Phases, GrowPhases, FlipPhases
    <3>2. Grown \in Tables /\ IsSlotLayout(Grown)
      BY CardEnd, GptAssumption, GrowKeepsSlots DEF Grown
    <3>3. GrownHeader \in Headers
      BY <3>2 DEF GrownHeader, Headers
    <3>4. /\ hdr' \in [Copies -> Headers \union {None}]
          /\ hdr'["primary"] # None
      BY <2>4, <3>3, NoneIsNoHeader DEF GrowWrite, WriteHeader, WriteEntries, Copies
    <3>5. /\ tab' \in [Copies -> Tables]
          /\ \A c \in Copies : IsSlotLayout(tab'[c])
      BY <2>4, <3>2 DEF GrowWrite, WriteHeader, WriteEntries
    <3>6. UNCHANGED <<hdrD, tabD, from, head, fat, user>>
      BY <2>4 DEF GrowWrite, WriteHeader, WriteEntries
    <3> QED
      BY <3>1, <3>4, <3>5, <3>6
  <2>5. CASE GrowFails
    BY <2>5 DEF GrowFails, Phases, FlipPhases
  <2>6. CASE GrowSync
    BY <2>6 DEF GrowSync, Phases, FlipPhases, FormatPhases, Sync
  <2>7. CASE Format
    BY <2>7 DEF Format, Phases, FlipPhases, FormatPhases
  <2>8. CASE CopyReadme
    BY <2>8 DEF CopyReadme, Phases, FlipPhases, Sync
  <2>9. CASE StartFlip
    BY <2>0, <2>9 DEF StartFlip, Phases, FlipPhases, Copies
  <2>10. CASE FlipWrite
    <3>1. pc \in FlipPhases /\ pc' \in Phases /\ pc' \in FlipPhases
      BY <2>10 DEF FlipWrite, Phases, FlipPhases
    <3>2. Flipped \in Tables /\ IsSlotLayout(Flipped)
      BY FlipKeepsLayout DEF Flipped
    <3>3. head.backup \in Copies /\ hdr[head.backup] \in Headers
      BY <3>1, <2>0 DEF Headers, Copies
    <3>4. \A h \in Headers : FlippedHeader(h) \in Headers
      BY <3>2 DEF FlippedHeader, Headers
    <3>5. /\ hdr' \in [Copies -> Headers \union {None}]
          /\ hdr'["primary"] # None /\ hdr'[head.backup] # None
      <4>1. CASE UNCHANGED hdr
        BY <4>1, <3>1
      <4>2. CASE WriteHeader(head.backup, FlippedHeader(hdr[head.backup]))
        BY <4>2, <3>1, <3>3, <3>4, WriteHeaderTypes DEF Copies
      <4>3. CASE WriteHeader("primary", FlippedHeader(head))
        BY <4>3, <3>1, <3>3, <3>4, WriteHeaderTypes DEF Copies
      <4> QED
        BY <2>10, <4>1, <4>2, <4>3 DEF FlipWrite, WriteEntries
    <3>6. /\ tab' \in [Copies -> Tables]
          /\ \A c \in Copies : IsSlotLayout(tab'[c])
      BY <2>10, <3>2, <3>3 DEF FlipWrite, WriteHeader, WriteEntries
    <3>7. UNCHANGED <<hdrD, tabD, from, head, fat, user>>
      BY <2>10 DEF FlipWrite, WriteHeader, WriteEntries
    <3> QED
      BY <3>1, <3>5, <3>6, <3>7
  <2>11. CASE SyncBackup
    BY <2>11 DEF SyncBackup, Sync, Phases, FlipPhases
  <2>12. CASE SyncPrimary
    BY <2>12 DEF SyncPrimary, Sync, Phases, FlipPhases
  <2>13. CASE EndFlip
    BY <2>13 DEF EndFlip, Phases, FlipPhases
  <2>14. CASE FlipFails
    BY <2>14 DEF FlipFails, Phases, FlipPhases
  <2>15. CASE WriteBack
    <3>1. /\ hdrD' \in [Copies -> Headers \union {None}] /\ hdrD'["primary"] # None
          /\ tabD' \in [Copies -> Tables]
          /\ \A c \in Copies : IsSlotLayout(tabD'[c])
      <4>1. PICK c \in Copies :
              \/ hdrD' = [hdrD EXCEPT ![c] = hdr[c]] /\ UNCHANGED tabD
              \/ tabD' = [tabD EXCEPT ![c] = tab[c]] /\ UNCHANGED hdrD
        BY <2>15 DEF WriteBack
      <4>2. CASE hdrD' = [hdrD EXCEPT ![c] = hdr[c]] /\ UNCHANGED tabD
        BY <4>2 DEF Copies
      <4>3. CASE tabD' = [tabD EXCEPT ![c] = tab[c]] /\ UNCHANGED hdrD
        BY <4>3
      <4> QED
        BY <4>1, <4>2, <4>3
    <3> QED
      BY <2>15, <3>1 DEF WriteBack
  <2>16. CASE PowerCut
    BY <2>16 DEF PowerCut, Phases, FlipPhases
  <2>17. CASE Shutdown
    BY <2>17 DEF Shutdown, Sync, Phases, FlipPhases
  <2>18. CASE CopyFrontend
    BY <2>18 DEF CopyFrontend, Phases, FlipPhases
  <2>19. CASE UNCHANGED vars
    BY <2>19 DEF vars
  <2> QED
    BY <2>1, <2>2, <2>3, <2>4, <2>5, <2>6, <2>7, <2>8, <2>9, <2>10, <2>11,
       <2>12, <2>13, <2>14, <2>15, <2>16, <2>17, <2>18, <2>19
       DEF Next, Expand, Flip
<1> QED
  BY <1>1, <1>2, PTL DEF Spec

-----------------------------------------------------------------------------
(* A frontend on partition 7 survives every power cut. *)

NoFaults == Faults = {}

Long(t) == ~Growable(t, CardTotal)

\* Once the user may copy a frontend, partition 7 cannot be grown again: its
\* entry is long in the cache and, since gptgrow fsyncs before the format, on
\* the card a power cut goes back to.
UserInv ==
  /\ pc \in {"off", "expand"} => tab["primary"] = tabD["primary"]
  /\ pc \in {"up"} \union FormatPhases \union FlipPhases
       => Long(tab["primary"]) /\ Long(tabD["primary"])
  /\ pc \in {"grow backup entries", "grow sync"} => Long(tab["primary"])
  /\ pc \in FlipPhases => Long(from)
  /\ user => pc \notin GrowPhases \union FormatPhases /\ Long(tabD["primary"])

LEMMA LongTables ==
  ASSUME TypeOK
  PROVE  Long(Grown) /\ (Long(from) => Long(Flipped))
<1>1. Full(Grown, CardTotal)
  BY CardEnd, GptAssumption, GrowKeepsSlots DEF TypeOK, Grown
<1>2. Flipped.lastEnd = from.lastEnd /\ Flipped.lastStart = from.lastStart
  BY FlipFields DEF TypeOK, Flipped
<1> QED
  BY <1>1, <1>2 DEF Long, Growable, Full

LEMMA UserStep ==
  ASSUME NoFaults, TypeOK, UserInv, [Next]_vars
  PROVE  UserInv'
<1> USE DEF UserInv, FlipPhases, GrowPhases, FormatPhases, cache, card, p7
<1>0. "primary" \in Copies /\ head.backup \in Copies \ {"primary"}
  BY DEF TypeOK, Headers, Copies
<1>1. CASE PowerOn
  BY <1>1 DEF PowerOn
<1>2. CASE NothingToGrow
  BY <1>2 DEF NothingToGrow, Long
<1>3. CASE StartGrow
  BY <1>3 DEF StartGrow, Long
<1>4. CASE GrowWrite
  <2>1. pc = "grow primary entries" => tab'["primary"] = Grown
    BY <1>0, <1>4 DEF GrowWrite, WriteEntries, TypeOK
  <2>2. pc = "grow backup entries" => tab'["primary"] = tab["primary"]
    BY <1>0, <1>4 DEF GrowWrite, WriteEntries, TypeOK, Copies
  <2> QED
    BY <1>4, <2>1, <2>2, LongTables
       DEF GrowWrite, WriteEntries, WriteHeader, Long
<1>5. CASE GrowFails
  BY <1>5 DEF GrowFails, NoFaults
<1>6. CASE GrowSync
  BY <1>6 DEF GrowSync, Sync, NoFaults
<1>7. CASE Format
  BY <1>7 DEF Format, NoFaults
<1>8. CASE CopyReadme
  BY <1>8 DEF CopyReadme, Sync
<1>9. CASE StartFlip
  BY <1>9 DEF StartFlip
<1>10. CASE FlipWrite
  <2>1. Long(tab'["primary"])
    BY <1>0, <1>10, LongTables DEF FlipWrite, WriteEntries, WriteHeader, TypeOK
  <2>2. Long(from')
    BY <1>10 DEF FlipWrite, Long
  <2> QED
    BY <1>10, <2>1, <2>2 DEF FlipWrite, WriteEntries, WriteHeader
<1>11. CASE SyncBackup
  BY <1>11 DEF SyncBackup, Sync
<1>12. CASE SyncPrimary
  BY <1>12 DEF SyncPrimary, Sync
<1>13. CASE EndFlip
  BY <1>13 DEF EndFlip
<1>14. CASE FlipFails
  BY <1>14 DEF FlipFails, NoFaults
<1>15. CASE WriteBack
  <2>1. tabD'["primary"] \in {tabD["primary"], tab["primary"]}
    BY <1>0, <1>15 DEF WriteBack, TypeOK
  <2>2. user => pc \in {"off", "expand", "up"} \union FlipPhases
    BY DEF TypeOK, Phases
  <2> QED
    BY <1>15, <2>1, <2>2 DEF WriteBack
<1>16. CASE PowerCut
  BY <1>16 DEF PowerCut
<1>17. CASE Shutdown
  BY <1>17 DEF Shutdown, Sync
<1>18. CASE CopyFrontend
  BY <1>18 DEF CopyFrontend
<1>19. CASE UNCHANGED vars
  BY <1>19 DEF vars
<1> QED
  BY <1>1, <1>2, <1>3, <1>4, <1>5, <1>6, <1>7, <1>8, <1>9, <1>10, <1>11, <1>12,
     <1>13, <1>14, <1>15, <1>16, <1>17, <1>18, <1>19 DEF Next, Expand, Flip

LEMMA UserInvariant ==
  ASSUME NoFaults
  PROVE  Spec => []UserInv
<1>1. Init => UserInv
  BY DEF Init, UserInv, FlipPhases, GrowPhases, FormatPhases
<1>2. TypeOK /\ UserInv /\ [Next]_vars => UserInv'
  BY UserStep
<1> QED
  BY <1>1, <1>2, GptTypeCorrect, PTL DEF Spec

\* While no write fails, a frontend the user has copied is never formatted
\* away, wherever and however often the power is cut.
THEOREM FrontendKept ==
  ASSUME NoFaults
  PROVE  Spec => UserDataKept
<1>1. ASSUME UserInv, [Next]_vars, user PROVE user'
  <2>1. ~Format
    BY <1>1 DEF Format, UserInv, FormatPhases
  <2> QED
    BY <1>1, <2>1 DEF Next, Expand, Flip, PowerOn, NothingToGrow, StartGrow,
       GrowWrite, GrowFails, GrowSync, CopyReadme, StartFlip, FlipWrite,
       SyncBackup, SyncPrimary, EndFlip, FlipFails, WriteBack, PowerCut,
       Shutdown, CopyFrontend, p7, vars
<1>2. UserInv /\ [Next]_vars => [user => user']_vars
  BY <1>1
<1> QED
  BY <1>2, UserInvariant, PTL DEF Spec, UserDataKept

-----------------------------------------------------------------------------
(* One copy is whole at every moment of a flip. *)

Resting == {"off", "expand", "up"} \union FormatPhases

\* The primary copy is untouched until the backup copy is whole, in the cache
\* and on the card, and the backup copy is not touched any more after that.
CopyInv ==
  /\ pc \in Resting => hdr = hdrD /\ tab = tabD
  /\ pc \in FlipPhases
       => hdr["primary"].backup = head.backup /\ Backup = head.backup
  /\ pc \in FirstHalf
       => /\ hdr["primary"] = head /\ hdrD["primary"] = head
          /\ tab["primary"] = from /\ tabD["primary"] = from
  /\ pc \in {"backup header", "sync backup"} => tab[head.backup] = Flipped
  /\ pc = "sync backup" => hdr[head.backup].sum = Flipped
  /\ pc \in SecondHalf
       => /\ hdr[head.backup] = hdrD[head.backup]
          /\ hdr[head.backup].sum = Flipped
          /\ tab[head.backup] = Flipped /\ tabD[head.backup] = Flipped
  /\ pc = "flipped" => hdr = hdrD /\ tab = tabD

LEMMA HeaderFlipped ==
  ASSUME NEW h \in Headers
  PROVE  FlippedHeader(h).sum = Flipped /\ FlippedHeader(h).backup = h.backup
BY DEF FlippedHeader, Headers

LEMMA CopyStep ==
  ASSUME NoFaults, TypeOK, TypeOK', CopyInv, [Next]_vars
  PROVE  CopyInv'
<1> USE DEF CopyInv, Resting, FirstHalf, SecondHalf, FlipPhases, GrowPhases,
        FormatPhases, cache, card, p7
<1>0. "primary" \in Copies /\ head.backup \in Copies \ {"primary"}
  BY DEF TypeOK, Headers, Copies
<1>1. CASE PowerOn
  BY <1>1 DEF PowerOn, Backup
<1>2. CASE NothingToGrow
  BY <1>2 DEF NothingToGrow, Backup
<1>3. CASE StartGrow
  BY <1>3 DEF StartGrow
<1>4. CASE GrowWrite
  BY <1>4 DEF GrowWrite
<1>5. CASE GrowFails
  BY <1>5 DEF GrowFails, NoFaults
<1>6. CASE GrowSync
  BY <1>6 DEF GrowSync, Sync, NoFaults
<1>7. CASE Format
  BY <1>7 DEF Format, NoFaults, Backup
<1>8. CASE CopyReadme
  BY <1>8 DEF CopyReadme, Sync, Backup
<1>9. CASE StartFlip
  BY <1>9 DEF StartFlip, Backup
<1>10. CASE FlipWrite
  <2>1. CASE pc = "backup entries"
    BY <1>0, <1>10, <2>1
       DEF FlipWrite, WriteEntries, Flipped, Backup, TypeOK
  <2>2. CASE pc = "backup header"
    <3>0. hdr' = [hdr EXCEPT ![head.backup] = FlippedHeader(hdr[head.backup])]
      BY <1>10, <2>2 DEF FlipWrite, WriteHeader
    <3>1. hdr'[head.backup].sum = Flipped /\ hdr'["primary"] = hdr["primary"]
      BY <1>0, <2>2, <3>0, HeaderFlipped DEF TypeOK
    <3>2. pc' = "sync backup" /\ UNCHANGED <<tab, card, from, head>>
      BY <1>10, <2>2 DEF FlipWrite, WriteHeader
    <3> QED
      BY <2>2, <3>1, <3>2 DEF Flipped, Backup
  <2>3. CASE pc = "primary entries"
    BY <1>0, <1>10, <2>3
       DEF FlipWrite, WriteEntries, Flipped, Backup, TypeOK
  <2>4. CASE pc = "primary header"
    <3>1. /\ hdr'["primary"].backup = head.backup
          /\ hdr'[head.backup] = hdr[head.backup]
      <4>1. hdr' = [hdr EXCEPT !["primary"] = FlippedHeader(head)]
        BY <1>10, <2>4 DEF FlipWrite, WriteHeader
      <4> QED
        BY <1>0, <4>1, HeaderFlipped DEF TypeOK
    <3>2. pc' = "sync primary" /\ UNCHANGED <<tab, card, from, head>>
      BY <1>10, <2>4 DEF FlipWrite, WriteHeader
    <3> QED
      BY <2>4, <3>1, <3>2 DEF Flipped, Backup
  <2> QED
    BY <1>10, <2>1, <2>2, <2>3, <2>4 DEF FlipWrite
<1>11. CASE SyncBackup
  BY <1>11 DEF SyncBackup, Sync, Flipped, Backup
<1>12. CASE SyncPrimary
  BY <1>12 DEF SyncPrimary, Sync, Flipped, Backup
<1>13. CASE EndFlip
  BY <1>13 DEF EndFlip
<1>14. CASE FlipFails
  BY <1>14 DEF FlipFails, NoFaults
<1>15. CASE WriteBack
  <2>1. PICK c \in Copies :
           \/ hdrD' = [hdrD EXCEPT ![c] = hdr[c]] /\ UNCHANGED tabD
           \/ tabD' = [tabD EXCEPT ![c] = tab[c]] /\ UNCHANGED hdrD
    BY <1>15 DEF WriteBack
  <2>2. UNCHANGED <<hdr, tab, pc, from, head>> /\ pc # "off"
    BY <1>15 DEF WriteBack
  <2>3. CASE pc \in Resting \union {"flipped"}
    <3>1. hdrD' = hdrD /\ tabD' = tabD
      BY <2>1, <2>2, <2>3 DEF TypeOK
    <3> QED
      BY <2>2, <2>3, <3>1 DEF Flipped, Backup
  <2>4. CASE pc \in FirstHalf
    <3>1. hdrD'["primary"] = head /\ tabD'["primary"] = from
      <4>1. CASE hdrD' = [hdrD EXCEPT ![c] = hdr[c]] /\ UNCHANGED tabD
        BY <4>1, <1>0, <2>4 DEF TypeOK
      <4>2. CASE tabD' = [tabD EXCEPT ![c] = tab[c]] /\ UNCHANGED hdrD
        BY <4>2, <1>0, <2>4 DEF TypeOK
      <4> QED
        BY <2>1, <4>1, <4>2
    <3> QED
      BY <2>2, <2>4, <3>1 DEF Flipped, Backup
  <2>5. CASE pc \in SecondHalf \ {"flipped"}
    <3>1. hdrD'["primary"].backup = head.backup
      BY <1>0, <2>1, <2>5 DEF TypeOK, Backup
    <3>2. hdrD'[head.backup] = hdr[head.backup] /\ tabD'[head.backup] = Flipped
      BY <1>0, <2>1, <2>5 DEF TypeOK
    <3> QED
      BY <2>2, <2>5, <3>1, <3>2 DEF Flipped, Backup
  <2>6. CASE pc \in GrowPhases
    BY <2>2, <2>6
  <2> QED
    BY <2>3, <2>4, <2>5, <2>6 DEF TypeOK, Phases
<1>16. CASE PowerCut
  BY <1>16 DEF PowerCut
<1>17. CASE Shutdown
  BY <1>17 DEF Shutdown, Sync, Backup
<1>18. CASE CopyFrontend
  BY <1>18 DEF CopyFrontend, Backup
<1>19. CASE UNCHANGED vars
  BY <1>19 DEF vars, Flipped, Backup
<1> QED
  BY <1>1, <1>2, <1>3, <1>4, <1>5, <1>6, <1>7, <1>8, <1>9, <1>10, <1>11, <1>12,
     <1>13, <1>14, <1>15, <1>16, <1>17, <1>18, <1>19 DEF Next, Expand, Flip

\* While no write fails, a flip that found the primary copy whole keeps a whole
\* copy on the card at every moment, in whatever order the kernel writes the
\* sectors back.
THEOREM CutLeavesOneCopy ==
  ASSUME NoFaults
  PROVE  Spec => []OneCopyWhole
<1>1. Init => CopyInv
  BY DEF Init, CopyInv, FirstHalf, SecondHalf, FlipPhases
<1>2. TypeOK /\ TypeOK' /\ CopyInv /\ [Next]_vars => CopyInv'
  BY CopyStep
<1>3. TypeOK /\ CopyInv => OneCopyWhole
  <2> SUFFICES ASSUME TypeOK, CopyInv, FoundWhole, pc \in FlipPhases
               PROVE  Whole("primary") \/ Whole(Backup)
    BY DEF OneCopyWhole
  <2>0. head.backup \in Copies \ {"primary"}
    BY DEF TypeOK, Headers, Copies
  <2>1. CASE pc \in FirstHalf
    BY <2>1 DEF CopyInv, FoundWhole, Whole, TypeOK, FirstHalf, FlipPhases
  <2>2. CASE pc \in SecondHalf
    BY <2>0, <2>2 DEF CopyInv, Whole, TypeOK, SecondHalf, FlipPhases
  <2> QED
    BY <2>1, <2>2 DEF FirstHalf, SecondHalf, FlipPhases
<1> QED
  BY <1>1, <1>2, <1>3, GptTypeCorrect, PTL DEF Spec

-----------------------------------------------------------------------------
(* A flip that reports success has repaired both copies.                   *)

BackupTableDone == FlipPhases \ {"backup entries"}

BackupHeaderDone == BackupTableDone \ {"backup header"}

PrimaryTableDone == {"primary header", "sync primary", "flipped"}

PrimaryHeaderDone == {"sync primary", "flipped"}

\* What a flip has written is in the cache until it ends, and on the card after
\* the last fsync.  Nothing is asked of the card before, so cuts, write-backs
\* and failing writes do not matter.
RepairInv ==
  /\ pc \in BackupTableDone => tab[head.backup] = Flipped
  /\ pc \in BackupHeaderDone => hdr[head.backup].sum = Flipped
  /\ pc \in PrimaryTableDone => tab["primary"] = Flipped
  /\ pc \in PrimaryHeaderDone =>
       hdr["primary"].sum = Flipped /\ hdr["primary"].backup = head.backup
  /\ pc = "flipped" => hdrD = hdr /\ tabD = tab

\* Every step keeps what the running flip has written.
LEMMA RepairStep ==
  ASSUME TypeOK, RepairInv, [Next]_vars
  PROVE  RepairInv'
<1> USE DEF RepairInv, BackupTableDone, BackupHeaderDone, PrimaryTableDone,
        PrimaryHeaderDone, FlipPhases, cache, card, p7
<1>0. "primary" \in Copies /\ head.backup \in Copies \ {"primary"}
  BY DEF TypeOK, Headers, Copies
<1>1. CASE PowerOn \/ Expand
  <2>1. pc' \notin FlipPhases
    BY <1>1 DEF PowerOn, Expand, NothingToGrow, StartGrow, GrowWrite, GrowFails,
       GrowSync, Format, CopyReadme
  <2> QED
    BY <2>1
<1>2. CASE StartFlip \/ EndFlip \/ FlipFails \/ PowerCut \/ Shutdown
  BY <1>2 DEF StartFlip, EndFlip, FlipFails, PowerCut, Shutdown
<1>3. CASE FlipWrite
  <2>1. CASE pc = "backup entries"
    BY <1>0, <1>3, <2>1 DEF FlipWrite, WriteEntries, Flipped, TypeOK
  <2>2. CASE pc = "backup header"
    <3>0. hdr' = [hdr EXCEPT ![head.backup] = FlippedHeader(hdr[head.backup])]
      BY <1>3, <2>2 DEF FlipWrite, WriteHeader
    <3>1. hdr'[head.backup].sum = Flipped
      BY <1>0, <2>2, <3>0, HeaderFlipped DEF TypeOK
    <3>2. pc' = "sync backup" /\ UNCHANGED <<tab, card, from, head>>
      BY <1>3, <2>2 DEF FlipWrite, WriteHeader
    <3> QED
      BY <2>2, <3>1, <3>2 DEF Flipped
  <2>3. CASE pc = "primary entries"
    BY <1>0, <1>3, <2>3 DEF FlipWrite, WriteEntries, Flipped, TypeOK
  <2>4. CASE pc = "primary header"
    <3>0. hdr' = [hdr EXCEPT !["primary"] = FlippedHeader(head)]
      BY <1>3, <2>4 DEF FlipWrite, WriteHeader
    <3>1. /\ hdr'["primary"].sum = Flipped /\ hdr'["primary"].backup = head.backup
          /\ hdr'[head.backup] = hdr[head.backup]
      BY <1>0, <3>0, HeaderFlipped DEF TypeOK
    <3>2. pc' = "sync primary" /\ UNCHANGED <<tab, card, from, head>>
      BY <1>3, <2>4 DEF FlipWrite, WriteHeader
    <3> QED
      BY <2>4, <3>1, <3>2 DEF Flipped
  <2> QED
    BY <1>3, <2>1, <2>2, <2>3, <2>4 DEF FlipWrite
<1>4. CASE SyncBackup
  BY <1>4 DEF SyncBackup, Sync, Flipped
<1>5. CASE SyncPrimary
  BY <1>5 DEF SyncPrimary, Sync, Flipped
<1>6. CASE WriteBack
  <2>1. UNCHANGED <<hdr, tab, pc, from, head>>
    BY <1>6 DEF WriteBack
  <2>2. ASSUME pc = "flipped" PROVE hdrD' = hdrD /\ tabD' = tabD
    BY <1>6, <2>2 DEF WriteBack, TypeOK
  <2> QED
    BY <2>1, <2>2 DEF Flipped
<1>7. CASE CopyFrontend
  BY <1>7 DEF CopyFrontend, Flipped
<1>8. CASE UNCHANGED vars
  BY <1>8 DEF vars, Flipped
<1> QED
  BY <1>1, <1>2, <1>3, <1>4, <1>5, <1>6, <1>7, <1>8 DEF Next, Flip

\* A flip that succeeds leaves both copies whole and alike on the card, whatever
\* writes failed and wherever the power was cut before.
THEOREM FlipsRepair == Spec => []FlipRepairs
<1>1. Init => RepairInv
  BY DEF Init, RepairInv, BackupTableDone, BackupHeaderDone, PrimaryTableDone,
     PrimaryHeaderDone, FlipPhases
<1>2. TypeOK /\ RepairInv /\ [Next]_vars => RepairInv'
  BY RepairStep
<1>3. TypeOK /\ RepairInv => FlipRepairs
  BY DEF TypeOK, RepairInv, FlipRepairs, Whole, Backup, BackupTableDone,
     BackupHeaderDone, PrimaryTableDone, PrimaryHeaderDone, FlipPhases
<1> QED
  BY <1>1, <1>2, <1>3, GptTypeCorrect, PTL DEF Spec

-----------------------------------------------------------------------------
(* gptslot flip as the change of one pointer. *)

\* The slot on the card is the one the flip has read, until it writes the
\* primary entries; from then on it is that one or the other, and after the
\* last fsync the other.
LetterInv ==
  /\ pc \notin FlipPhases => Letter(tab["primary"]) = Letter(tabD["primary"])
  /\ pc \in GrowPhases => Letter(from) = Letter(tab["primary"])
  /\ pc \in FirstHalf \union {"primary entries"}
       => /\ Letter(tab["primary"]) = Letter(from)
          /\ Letter(tabD["primary"]) = Letter(from)
  /\ pc \in SecondHalf \ {"primary entries"} => tab["primary"] = Flipped
  /\ pc = "flipped" => tabD["primary"] = Flipped

LEMMA Letters ==
  ASSUME TypeOK
  PROVE  /\ Letter(Grown) = Letter(from)
         /\ Letter(Flipped) # Letter(from)
         /\ Pointer!Other(Letter(from)) = Letter(Flipped)
<1>1. Letter(Grown) = Letter(from)
  BY CardEnd, GptAssumption, GrowKeepsSlots DEF TypeOK, Grown
<1>2. Letter(Flipped) # Letter(from)
  BY FlipKeepsLayout DEF TypeOK, Flipped
<1> QED
  BY <1>1, <1>2 DEF Letter, Pointer!Other

LEMMA LetterStep ==
  ASSUME NoFaults, TypeOK, LetterInv, [Next]_vars
  PROVE  LetterInv'
<1> USE DEF LetterInv, FirstHalf, SecondHalf, FlipPhases, GrowPhases,
        FormatPhases, cache, card, p7
<1>0. "primary" \in Copies /\ head.backup \in Copies \ {"primary"}
  BY DEF TypeOK, Headers, Copies
<1>1. CASE PowerOn
  BY <1>1 DEF PowerOn
<1>2. CASE NothingToGrow
  BY <1>2 DEF NothingToGrow
<1>3. CASE StartGrow
  BY <1>3 DEF StartGrow
<1>4. CASE GrowWrite
  <2>1. Letter(tab'["primary"]) = Letter(tab["primary"])
    BY <1>0, <1>4, Letters DEF GrowWrite, WriteEntries, WriteHeader, TypeOK, Copies
  <2> QED
    BY <1>4, <2>1 DEF GrowWrite, WriteEntries, WriteHeader
<1>5. CASE GrowFails
  BY <1>5 DEF GrowFails, NoFaults
<1>6. CASE GrowSync
  BY <1>6 DEF GrowSync, Sync, NoFaults
<1>7. CASE Format
  BY <1>7 DEF Format
<1>8. CASE CopyReadme
  BY <1>8 DEF CopyReadme, Sync
<1>9. CASE StartFlip
  BY <1>9 DEF StartFlip
<1>10. CASE FlipWrite
  <2>1. pc = "primary entries" => tab'["primary"] = Flipped
    BY <1>0, <1>10 DEF FlipWrite, WriteEntries, TypeOK
  <2>2. pc # "primary entries" => tab'["primary"] = tab["primary"]
    BY <1>0, <1>10 DEF FlipWrite, WriteEntries, WriteHeader, TypeOK
  <2> QED
    BY <1>10, <2>1, <2>2 DEF FlipWrite, WriteEntries, WriteHeader, Flipped
<1>11. CASE SyncBackup
  BY <1>11 DEF SyncBackup, Sync
<1>12. CASE SyncPrimary
  BY <1>12 DEF SyncPrimary, Sync, Flipped
<1>13. CASE EndFlip
  BY <1>13 DEF EndFlip
<1>14. CASE FlipFails
  BY <1>14 DEF FlipFails, NoFaults
<1>15. CASE WriteBack
  <2>1. tabD'["primary"] \in {tabD["primary"], tab["primary"]}
    BY <1>0, <1>15 DEF WriteBack, TypeOK
  <2> QED
    BY <1>15, <2>1 DEF WriteBack, Flipped
<1>16. CASE PowerCut
  BY <1>16 DEF PowerCut
<1>17. CASE Shutdown
  BY <1>17 DEF Shutdown, Sync
<1>18. CASE CopyFrontend
  BY <1>18 DEF CopyFrontend
<1>19. CASE UNCHANGED vars
  BY <1>19 DEF vars, Flipped
<1> QED
  BY <1>1, <1>2, <1>3, <1>4, <1>5, <1>6, <1>7, <1>8, <1>9, <1>10, <1>11, <1>12,
     <1>13, <1>14, <1>15, <1>16, <1>17, <1>18, <1>19 DEF Next, Expand, Flip

\* While the card grows, what was written of the primary copy is in the cache.
GrowInv ==
  /\ pc \in GrowPhases \ {"grow primary header"} => hdr["primary"].sum = Grown
  /\ pc \in {"grow backup entries", "grow sync"} => tab["primary"] = Grown

LEMMA GrowStep ==
  ASSUME TypeOK, GrowInv, [Next]_vars
  PROVE  GrowInv'
<1> USE DEF GrowInv, GrowPhases, cache, card, p7
<1>0. "primary" \in Copies /\ "card end" \in Copies \ {"primary"}
  BY DEF Copies
<1>1. CASE GrowWrite
  <2>1. pc = "grow primary header" => hdr'["primary"].sum = Grown
    <3>1. GrownHeader.sum = Grown
      BY DEF GrownHeader
    <3> QED
      BY <1>0, <1>1, <3>1 DEF GrowWrite, WriteHeader, TypeOK
  <2>2. pc # "grow primary header" => hdr'["primary"] = hdr["primary"]
    BY <1>0, <1>1 DEF GrowWrite, WriteHeader, WriteEntries, TypeOK
  <2>3. pc = "grow primary entries" => tab'["primary"] = Grown
    BY <1>0, <1>1 DEF GrowWrite, WriteEntries, TypeOK
  <2>4. pc = "grow backup entries" => tab'["primary"] = tab["primary"]
    BY <1>0, <1>1 DEF GrowWrite, WriteEntries, TypeOK
  <2>5. Grown' = Grown
    BY <1>1 DEF GrowWrite, Grown
  <2> QED
    BY <1>1, <2>1, <2>2, <2>3, <2>4, <2>5 DEF GrowWrite
<1>2. CASE PowerOn \/ NothingToGrow \/ StartGrow \/ GrowFails \/ GrowSync \/ Format
             \/ CopyReadme \/ PowerCut \/ Shutdown
  BY <1>2 DEF PowerOn, NothingToGrow, StartGrow, GrowFails, GrowSync, Format,
     CopyReadme, PowerCut, Shutdown
<1>3. CASE Flip
  <2>1. pc' \notin GrowPhases
    BY <1>3 DEF Flip, StartFlip, FlipWrite, SyncBackup, SyncPrimary, EndFlip, FlipFails
  <2> QED
    BY <2>1
<1>4. CASE WriteBack \/ CopyFrontend \/ UNCHANGED vars
  <2>1. UNCHANGED <<hdr, tab, pc, from>>
    BY <1>4 DEF WriteBack, CopyFrontend, vars
  <2> QED
    BY <2>1 DEF Grown
<1> QED
  BY <1>1, <1>2, <1>3, <1>4 DEF Next, Expand

\* All that is known of the two copies.
DiskInv == LetterInv /\ CopyInv /\ RepairInv /\ GrowInv

LEMMA JobOfPhase ==
  ASSUME TypeOK
  PROVE  /\ Job = "idle" <=> pc \in Resting
         /\ Job = "backup" <=> pc \in FirstHalf
         /\ Job = "primary" <=> pc \in SecondHalf
         /\ Job = "grow" <=> pc \in GrowPhases
         /\ FlipPhases = FirstHalf \union SecondHalf
         /\ FlipPhases \cap Resting = {} /\ FlipPhases \cap GrowPhases = {}
BY DEF TypeOK, Phases, Job, Resting, FirstHalf, SecondHalf, FlipPhases, GrowPhases,
   FormatPhases

\* What a step leaves of the primary copy on the card where nothing writes it.
LEMMA PrimaryStays ==
  ASSUME TypeOK, DiskInv, WriteBack \/ Sync \/ UNCHANGED card,
         pc \in Resting \union FirstHalf \union {"flipped"}
  PROVE  /\ hdrD'["primary"] = hdrD["primary"] /\ tabD'["primary"] = tabD["primary"]
         /\ SlotOnCard' = SlotOnCard /\ Whole("primary")' = Whole("primary")
<1>0. "primary" \in Copies
  BY DEF Copies
<1>1. hdr["primary"] = hdrD["primary"] /\ tab["primary"] = tabD["primary"]
  BY DEF DiskInv, CopyInv
<1>2. hdrD'["primary"] = hdrD["primary"] /\ tabD'["primary"] = tabD["primary"]
  BY <1>0, <1>1 DEF WriteBack, Sync, card, TypeOK
<1> QED
  BY <1>2 DEF SlotOnCard, Whole

\* A step that keeps the phase, or leads to one of the same job.
LEMMA PointerStutters ==
  ASSUME Job' = Job, SlotOnCard' = SlotOnCard, Whole("primary")' = Whole("primary"),
         SlotBefore' = SlotBefore
  PROVE  UNCHANGED Pointer!vars
BY DEF Pointer!vars

\* A step during a growth or the second half of a flip, by what it does to the card.
LEMMA PointerWrites ==
  ASSUME TypeOK, DiskInv, WriteBack \/ Sync \/ UNCHANGED card,
         UNCHANGED from, Job' = Job,
         pc \in GrowPhases \union (SecondHalf \ {"flipped"})
  PROVE  [Pointer!Next]_(Pointer!vars)
<1>0. "primary" \in Copies
  BY DEF Copies
<1>1. tabD'["primary"] \in {tabD["primary"], tab["primary"]}
  BY <1>0 DEF WriteBack, Sync, card, TypeOK
<1>2. Whole("primary")' \in BOOLEAN
  BY DEF Whole
<1>3. CASE pc \in GrowPhases
  <2>1. Job = "grow" /\ Job' = "grow"
    BY <1>3, JobOfPhase
  <2>2. SlotOnCard' = SlotOnCard
    BY <1>1, <1>3 DEF SlotOnCard, DiskInv, LetterInv, GrowPhases, FlipPhases
  <2>3. SlotBefore = SlotOnCard /\ SlotBefore' = SlotOnCard'
    BY <2>1 DEF SlotBefore, Job, FlipPhases, FirstHalf, SecondHalf
  <2>4. Pointer!Refresh
    BY <1>2, <2>1, <2>2, <2>3 DEF Pointer!Refresh
  <2> QED
    BY <2>4 DEF Pointer!Next
<1>4. CASE pc \in SecondHalf \ {"flipped"}
  <2>1. Job = "primary" /\ Job' = "primary"
    BY <1>4, JobOfPhase
  <2>2. SlotBefore = Letter(from) /\ SlotBefore' = SlotBefore
    BY <2>1 DEF SlotBefore, Job, FlipPhases, FirstHalf, SecondHalf, GrowPhases
  <2>3. CASE SlotOnCard' = SlotOnCard
    <3>1. Pointer!Refresh
      BY <1>2, <2>1, <2>2, <2>3 DEF Pointer!Refresh
    <3> QED
      BY <3>1 DEF Pointer!Next
  <2>4. CASE SlotOnCard' # SlotOnCard
    <3>1. tab["primary"] = Flipped \/ Letter(tab["primary"]) = Letter(tabD["primary"])
      <4>1. CASE pc = "primary entries"
        <5>1. pc \in FirstHalf \union {"primary entries"}
          BY <4>1
        <5>2. Letter(tab["primary"]) = Letter(from) /\ Letter(tabD["primary"]) = Letter(from)
          BY <5>1 DEF DiskInv, LetterInv
        <5> QED
          BY <5>2
      <4>2. CASE pc # "primary entries"
        <5>1. pc \in SecondHalf \ {"primary entries"}
          BY <1>4, <4>2
        <5> QED
          BY <5>1 DEF DiskInv, LetterInv
      <4> QED
        BY <4>1, <4>2
    <3>2. SlotOnCard' = Letter(Flipped)
      BY <1>1, <2>4, <3>1 DEF SlotOnCard
    <3>3. SlotOnCard = Letter(from)
      BY <2>4, <3>2, Letters DEF SlotOnCard, Letter
    <3>4. Pointer!Take
      BY <1>2, <2>1, <2>2, <3>2, <3>3, Letters DEF Pointer!Take
    <3> QED
      BY <3>4 DEF Pointer!Next
  <2> QED
    BY <2>3, <2>4
<1> QED
  BY <1>3, <1>4

LEMMA PointerStep ==
  ASSUME NoFaults, TypeOK, TypeOK', DiskInv, [Next]_vars
  PROVE  [Pointer!Next]_(Pointer!vars)
<1> USE DEF cache, card, p7
<1> DEFINE before == SlotBefore
<1>0. \/ WriteBack \/ Sync \/ UNCHANGED card
  BY DEF Next, Expand, Flip, PowerOn, NothingToGrow, StartGrow, GrowWrite, GrowFails,
     GrowSync, Format, CopyReadme, StartFlip, FlipWrite, SyncBackup, SyncPrimary,
     EndFlip, FlipFails, PowerCut, Shutdown, CopyFrontend, WriteHeader, WriteEntries,
     NoFaults, vars
<1>1. CASE StartFlip
  <2>1. pc \in Resting /\ pc' \in FirstHalf
    BY <1>1 DEF StartFlip, Resting, FirstHalf
  <2>2. Job = "idle" /\ Job' = "backup"
    BY <2>1, JobOfPhase DEF Job
  <2>3. SlotOnCard' = SlotOnCard /\ Whole("primary")' = Whole("primary")
    BY <1>0, <2>1, PrimaryStays
  <2>4. SlotBefore = SlotOnCard /\ SlotBefore' = SlotOnCard
    BY <1>1, <2>1 DEF StartFlip, SlotBefore, SlotOnCard, DiskInv, LetterInv,
       FirstHalf, FlipPhases
  <2>5. Pointer!Begin
    BY <2>2, <2>3, <2>4 DEF Pointer!Begin
  <2> QED
    BY <2>5 DEF Pointer!Next
<1>2. CASE SyncBackup
  <2>1. pc \in FirstHalf /\ pc' \in SecondHalf /\ from' = from
    BY <1>2 DEF SyncBackup, FirstHalf, SecondHalf
  <2>2. Job = "backup" /\ Job' = "primary"
    BY <2>1 DEF Job, FirstHalf, SecondHalf
  <2>3. SlotOnCard' = SlotOnCard /\ Whole("primary")' = Whole("primary")
    BY <1>0, <2>1, PrimaryStays
  <2>4. SlotBefore' = SlotBefore
    BY <2>1 DEF SlotBefore, FirstHalf, SecondHalf, FlipPhases
  <2>5. Pointer!Turn
    BY <2>2, <2>3, <2>4 DEF Pointer!Turn
  <2> QED
    BY <2>5 DEF Pointer!Next
<1>3. CASE EndFlip
  <2>1. pc = "flipped" /\ pc' \in Resting
    BY <1>3 DEF EndFlip, Resting
  <2>2. Job = "primary" /\ Job' = "idle"
    BY <2>1 DEF Job, FirstHalf, SecondHalf, Resting, GrowPhases, FormatPhases
  <2>3. SlotOnCard' = SlotOnCard /\ Whole("primary")' = Whole("primary")
    BY <1>3 DEF EndFlip, SlotOnCard, Whole
  <2>4. Whole("primary") /\ SlotOnCard = Letter(Flipped)
    BY <2>1 DEF DiskInv, LetterInv, RepairInv, PrimaryHeaderDone, PrimaryTableDone,
       Whole, SlotOnCard, TypeOK
  <2>5. SlotBefore = Letter(from) /\ SlotBefore' = SlotOnCard'
    BY <1>3, <2>1 DEF EndFlip, SlotBefore, FlipPhases
  <2>6. Pointer!Succeed
    BY <2>2, <2>3, <2>4, <2>5, Letters DEF Pointer!Succeed
  <2> QED
    BY <2>6 DEF Pointer!Next
<1>4. CASE StartGrow
  <2>1. pc \in Resting /\ pc' \in GrowPhases
    BY <1>4 DEF StartGrow, Resting, GrowPhases
  <2>2. Job = "idle" /\ Job' = "grow"
    BY <2>1, JobOfPhase DEF Job, GrowPhases, FirstHalf, SecondHalf
  <2>3. SlotOnCard' = SlotOnCard /\ Whole("primary")' = Whole("primary")
    BY <1>0, <2>1, PrimaryStays
  <2>4. SlotBefore = SlotOnCard /\ SlotBefore' = SlotOnCard
    BY <1>4, <2>3 DEF StartGrow, SlotBefore, FlipPhases
  <2>5. Pointer!Grow
    BY <2>2, <2>3, <2>4 DEF Pointer!Grow
  <2> QED
    BY <2>5 DEF Pointer!Next
<1>5. CASE GrowSync
  <2>1. pc = "grow sync" /\ pc' = "format" /\ Sync
    BY <1>5 DEF GrowSync, NoFaults
  <2>2. Job = "grow" /\ Job' = "idle"
    BY <2>1 DEF Job, FirstHalf, SecondHalf, GrowPhases
  <2>3. SlotOnCard' = SlotOnCard
    BY <2>1 DEF SlotOnCard, Sync, DiskInv, LetterInv, FlipPhases
  <2>4. Whole("primary")'
    BY <2>1 DEF Whole, Sync, DiskInv, GrowInv, GrowPhases, TypeOK
  <2>5. SlotBefore = SlotOnCard /\ SlotBefore' = SlotOnCard
    BY <2>1, <2>3 DEF SlotBefore, FlipPhases
  <2>6. Pointer!Grown
    BY <2>2, <2>3, <2>4, <2>5 DEF Pointer!Grown
  <2> QED
    BY <2>6 DEF Pointer!Next
<1>6. CASE PowerCut
  <2>1. pc' = "off" /\ SlotOnCard' = SlotOnCard /\ Whole("primary")' = Whole("primary")
    BY <1>6 DEF PowerCut, SlotOnCard, Whole
  <2>2. Job' = "idle" /\ SlotBefore' = SlotOnCard'
    BY <2>1 DEF Job, SlotBefore, FirstHalf, SecondHalf, GrowPhases, FlipPhases
  <2>3. CASE Job = "idle"
    <3>1. SlotBefore = SlotOnCard
      BY <2>3 DEF Job, SlotBefore, FirstHalf, SecondHalf, GrowPhases, FlipPhases
    <3> QED
      BY <2>1, <2>2, <2>3, <3>1, PointerStutters
  <2>4. CASE Job # "idle"
    <3>1. Pointer!Crash
      BY <2>1, <2>2, <2>4 DEF Pointer!Crash
    <3> QED
      BY <3>1 DEF Pointer!Next
  <2> QED
    BY <2>3, <2>4
<1>7. CASE PowerOn \/ NothingToGrow \/ Format \/ CopyReadme \/ Shutdown
  <2>1. pc \in Resting /\ pc' \in Resting
    BY <1>7 DEF PowerOn, NothingToGrow, Format, CopyReadme, Shutdown, Resting,
       FormatPhases, NoFaults
  <2>2. SlotOnCard' = SlotOnCard /\ Whole("primary")' = Whole("primary")
    BY <1>0, <2>1, PrimaryStays
  <2>3. Job = "idle" /\ Job' = "idle"
    BY <2>1 DEF Job, Resting, FirstHalf, SecondHalf, GrowPhases, FormatPhases
  <2>4. SlotBefore = SlotOnCard /\ SlotBefore' = SlotOnCard'
    BY <2>1 DEF SlotBefore, Resting, FlipPhases, FormatPhases
  <2> QED
    BY <2>2, <2>3, <2>4, PointerStutters
<1>8. ASSUME Job' = Job, from' = from,
             GrowWrite \/ FlipWrite \/ SyncPrimary \/ WriteBack \/ CopyFrontend
               \/ UNCHANGED vars
      PROVE  [Pointer!Next]_(Pointer!vars)
  <2>1. CASE pc \in GrowPhases \union (SecondHalf \ {"flipped"})
    BY <1>0, <1>8, <2>1, PointerWrites
  <2>2. CASE pc \in Resting \union FirstHalf \union {"flipped"}
    <3>1. SlotOnCard' = SlotOnCard /\ Whole("primary")' = Whole("primary")
      BY <1>0, <2>2, PrimaryStays
    <3>2. pc \in FlipPhases <=> pc' \in FlipPhases
      BY <1>8 DEF Job, FirstHalf, SecondHalf, FlipPhases, GrowPhases
    <3>3. SlotBefore' = SlotBefore
      BY <1>8, <3>1, <3>2 DEF SlotBefore
    <3> QED
      BY <1>8, <3>1, <3>3, PointerStutters
  <2> QED
    BY <2>1, <2>2 DEF TypeOK, Phases, Resting, FirstHalf, SecondHalf, FlipPhases
<1>9. CASE GrowWrite \/ FlipWrite \/ SyncPrimary \/ WriteBack \/ CopyFrontend
             \/ UNCHANGED vars
  <2>1. from' = from
    BY <1>9 DEF GrowWrite, FlipWrite, SyncPrimary, WriteBack, CopyFrontend, vars
  <2>2. Job' = Job
    BY <1>9 DEF GrowWrite, FlipWrite, SyncPrimary, WriteBack, CopyFrontend, vars,
       Job, FirstHalf, SecondHalf, GrowPhases
  <2> QED
    BY <1>8, <1>9, <2>1, <2>2
<1>10. CASE GrowFails \/ FlipFails
  BY <1>10 DEF GrowFails, FlipFails, NoFaults
<1> QED
  BY <1>1, <1>2, <1>3, <1>4, <1>5, <1>6, <1>7, <1>9, <1>10 DEF Next, Expand, Flip

\* While no write fails, and wherever the power is cut, a flip leaves the copy
\* that the loaders read alone until the backup copy is done, then changes the
\* selected slot once, and has made the copy valid again when it succeeds.  What
\* the copy is when a cut ends the second half is left open: it may be invalid.
THEOREM PointerRefinement ==
  ASSUME NoFaults
  PROVE  Spec => ImplementsSlotPointer
<1>1. Init => Pointer!Init
  <2> SUFFICES ASSUME Init PROVE Pointer!Init
    OBVIOUS
  <2>1. pc = "off"
    BY DEF Init
  <2>2. SlotOnCard = "A"
    BY FactoryTypes DEF Init, SlotOnCard, Copies
  <2>3. Whole("primary")
    <3> DEFINE h == [sum |-> Factory, backup |-> "image end"]
    <3>1. h \in Headers /\ h.sum = Factory
      BY FactoryTypes DEF Headers
    <3>2. h # None
      BY <3>1, NoneIsNoHeader
    <3> HIDE DEF h
    <3>3. hdrD["primary"] = h /\ tabD["primary"] = Factory
      BY DEF Init, Copies, h
    <3> QED
      BY <3>1, <3>2, <3>3 DEF Whole
  <2>4. Job = "idle" /\ SlotBefore = SlotOnCard
    BY <2>1 DEF Job, SlotBefore, FirstHalf, SecondHalf, GrowPhases, FlipPhases
  <2> QED
    BY <2>2, <2>3, <2>4 DEF Pointer!Init
<1>2. Init => DiskInv
  BY DEF Init, DiskInv, LetterInv, CopyInv, RepairInv, GrowInv, FirstHalf, SecondHalf,
     FlipPhases, GrowPhases, BackupTableDone, BackupHeaderDone, PrimaryTableDone,
     PrimaryHeaderDone
<1>3. TypeOK /\ TypeOK' /\ DiskInv /\ [Next]_vars => DiskInv'
  BY LetterStep, CopyStep, RepairStep, GrowStep DEF DiskInv
<1>4. TypeOK /\ TypeOK' /\ DiskInv /\ [Next]_vars => [Pointer!Next]_(Pointer!vars)
  BY PointerStep
<1> QED
  BY <1>1, <1>2, <1>3, <1>4, GptTypeCorrect, PTL
     DEF Spec, ImplementsSlotPointer, Pointer!Spec

=============================================================================
