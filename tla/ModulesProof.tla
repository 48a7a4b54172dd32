------------------------------ MODULE ModulesProof ------------------------------
(***************************************************************************)
(* For any modules and kernels: a stripped module is the same to the       *)
(* loader, and modules that pass the gates have the versions the kernel    *)
(* asks for, as far as the recovery of its exports can be trusted.         *)
(***************************************************************************)
EXTENDS KernelModules, FiniteSetTheorems, TLAPS

(* strip_gpu_module. *)

\* In a table without two sections of one name, a name finds its section.
LEMMA OneSection ==
  ASSUME NEW m, m.sections \in Seq(Range(m.sections)), WellFormed(m),
         NEW i \in DOMAIN m.sections, NEW j \in DOMAIN m.sections,
         m.sections[i].name = m.sections[j].name
  PROVE  i = j
<1> DEFINE n == Len(m.sections)
           names == SectionNames(m)
           f == [k \in 1 .. n |-> m.sections[k].name]
<1>1. n \in Nat /\ DOMAIN m.sections = 1 .. n
  OBVIOUS
<1>2. f \in Surjection(1 .. n, names)
  <2>1. names = {m.sections[k].name : k \in 1 .. n}
    BY <1>1 DEF SectionNames
  <2>2. f \in [1 .. n -> names]
    BY <2>1
  <2>3. \A y \in names : \E k \in 1 .. n : f[k] = y
    BY <2>1
  <2> QED
    BY <2>2, <2>3 DEF Surjection
<1>3. IsFiniteSet(1 .. n) /\ Cardinality(1 .. n) = n
  <2>1. IsFiniteSet(1 .. n) /\ Cardinality(1 .. n) = IF 1 > n THEN 0 ELSE n - 1 + 1
    BY <1>1, FS_Interval
  <2> QED
    BY <1>1, <2>1
<1>4. Cardinality(names) = n
  BY DEF WellFormed
<1> HIDE DEF f, n, names
<1>5. f \in Injection(1 .. n, names)
  BY <1>2, <1>3, <1>4, FS_Surjection
<1>6. f[i] = m.sections[i].name /\ f[j] = m.sections[j].name
  BY <1>1 DEF f
<1>7. \A a, b \in 1 .. n : f[a] = f[b] => a = b
  BY <1>5 DEF Injection, IsInjective
<1> QED
  BY <1>1, <1>6, <1>7

\* A relocation by names, as verify_stripped counts it.
Key(m, r) ==
  [target |-> m.sections[r.section].name, offset |-> r.offset,
   symbol |-> Resolved(m, m.symbols[r.symbol])]

PatchOf(v) == <<v.offset, v.symbol.name, v.symbol.value, v.symbol.section>>

\* The places patched in the section called n.
PatchesIn(m, n) ==
  {<<m.relocs[i].offset, m.symbols[m.relocs[i].symbol].name,
     m.symbols[m.relocs[i].symbol].value,
     Resolved(m, m.symbols[m.relocs[i].symbol]).section>> :
     i \in {i \in DOMAIN m.relocs : m.sections[m.relocs[i].section].name = n}}

LEMMA RelocationKeys ==
  ASSUME NEW m
  PROVE  DOMAIN Relocations(m)
           = {Key(m, m.relocs[i]) :
                i \in {i \in DOMAIN m.relocs : ~m.sections[m.relocs[i].section].debug}}
BY DEF Relocations, Count, Key

LEMMA KeyPatches ==
  ASSUME NEW m, NEW r
  PROVE  /\ Key(m, r).target = m.sections[r.section].name
         /\ PatchOf(Key(m, r)) = <<r.offset, m.symbols[r.symbol].name, m.symbols[r.symbol].value,
                                   Resolved(m, m.symbols[r.symbol]).section>>
<1>1. /\ Resolved(m, m.symbols[r.symbol]).name = m.symbols[r.symbol].name
      /\ Resolved(m, m.symbols[r.symbol]).value = m.symbols[r.symbol].value
  BY DEF Resolved
<1>2. /\ Key(m, r).target = m.sections[r.section].name
      /\ Key(m, r).offset = r.offset
      /\ Key(m, r).symbol = Resolved(m, m.symbols[r.symbol])
  BY DEF Key
<1> QED
  BY <1>1, <1>2 DEF PatchOf

\* What is patched in a section that is kept can be read off the count.
LEMMA PatchesAreCounted ==
  ASSUME NEW m, m.sections \in Seq(Range(m.sections)), WellFormed(m),
         NEW n \in {s.name : s \in Retained(m)}
  PROVE  PatchesIn(m, n)
           = {PatchOf(v) : v \in {v \in DOMAIN Relocations(m) : v.target = n}}
<1> DEFINE sec(i) == m.relocs[i].section
<1>1. PICK k \in DOMAIN m.sections : m.sections[k].name = n /\ ~m.sections[k].debug
  BY DEF Retained, Range
<1>2. ASSUME NEW i \in DOMAIN m.relocs, m.sections[sec(i)].name = n
      PROVE  ~m.sections[sec(i)].debug
  <2>1. sec(i) \in DOMAIN m.sections
    BY DEF WellFormed
  <2>2. sec(i) = k
    BY <1>1, <1>2, <2>1, OneSection
  <2> QED
    BY <1>1, <2>2
<1> DEFINE key(i) == Key(m, m.relocs[i])
           name(i) == m.sections[sec(i)].name
           patch(i) == <<m.relocs[i].offset, m.symbols[m.relocs[i].symbol].name,
                         m.symbols[m.relocs[i].symbol].value,
                         Resolved(m, m.symbols[m.relocs[i].symbol]).section>>
           debug(i) == m.sections[sec(i)].debug
           all == DOMAIN m.relocs
           keys == DOMAIN Relocations(m)
<1>3. keys = {key(i) : i \in {i \in all : ~debug(i)}}
  BY RelocationKeys
<1>4. \A i \in all : key(i).target = name(i) /\ PatchOf(key(i)) = patch(i)
  BY KeyPatches
<1>5. \A i \in all : name(i) = n => ~debug(i)
  BY <1>2
<1>6. PatchesIn(m, n) = {patch(i) : i \in {i \in all : name(i) = n}}
  BY DEF PatchesIn
<1> HIDE DEF sec, key, name, patch, debug, all, keys
<1>7. {v \in keys : v.target = n} = {key(i) : i \in {i \in all : name(i) = n}}
  BY <1>3, <1>4, <1>5
<1>8. {patch(i) : i \in {i \in all : name(i) = n}}
        = {PatchOf(key(i)) : i \in {i \in all : name(i) = n}}
  BY <1>4
<1>9. PatchesIn(m, n) = {PatchOf(v) : v \in {v \in keys : v.target = n}}
  BY <1>6, <1>7, <1>8
<1> QED
  BY <1>9 DEF keys

LEMMA VerifiedLoadsAlike ==
  ASSUME NEW a, NEW b, a.sections \in Seq(Range(a.sections)),
         b.sections \in Seq(Range(b.sections)), VerifyStripped(a, b)
  PROVE  Loaded(a) = Loaded(b)
<1>1. /\ WellFormed(a) /\ WellFormed(b) /\ Retained(a) = Retained(b)
      /\ DOMAIN Relocations(a) = DOMAIN Relocations(b)
  BY DEF VerifyStripped
<1> DEFINE names == {s.name : s \in Retained(a)}
           data(n) == (CHOOSE s \in Retained(a) : s.name = n).data
<1>2. \A n \in names : PatchesIn(a, n) = PatchesIn(b, n)
  BY <1>1, PatchesAreCounted
<1>3. Loaded(a) = [n \in names |-> [data |-> data(n), patches |-> PatchesIn(a, n)]]
  BY DEF Loaded, PatchesIn
<1>4. Loaded(b) = [n \in names |-> [data |-> data(n), patches |-> PatchesIn(b, n)]]
  BY <1>1 DEF Loaded, PatchesIn
<1> QED
  BY <1>2, <1>3, <1>4

StripInv ==
  gate = "stripped" => gpu \in Gpus /\ stripped \in Strips /\ VerifyStripped(gpu, stripped)

\* Whatever strip makes of whatever module: what is sealed has the sections the
\* loader keeps, with the same bytes and the same places patched.
THEOREM StrippedIsAlike == ModulesSpec => []StrippedLoadsAlike
<1>1. ModulesInit => StripInv
  BY DEF ModulesInit, StripInv
<1>2. StripInv /\ [ModulesNext]_moduleVars => StripInv'
  <2> SUFFICES ASSUME StripInv, [ModulesNext]_moduleVars PROVE StripInv'
    OBVIOUS
  <2>1. CASE StripGpu
    BY <2>1 DEF StripGpu, StripInv
  <2>2. CASE UNCHANGED moduleVars
    BY <2>2 DEF moduleVars, StripInv
  <2>3. CASE ModulesNext /\ ~StripGpu
    <3>1. gate' # "stripped"
      BY <2>3 DEF ModulesNext, PickKernel, Recover, CheckAbi, SealAudio, NextTarget
    <3> QED
      BY <3>1 DEF StripInv
  <2> QED
    BY <2>1, <2>2, <2>3
<1>3. StripInv => StrippedLoadsAlike
  BY SectionsAssumption, VerifiedLoadsAlike DEF StripInv, StrippedLoadsAlike
<1> QED
  BY <1>1, <1>2, <1>3, PTL DEF ModulesSpec

-----------------------------------------------------------------------------
(* The recovery of exports. *)

\* The places of a section are numbers.
LEMMA SectionPlaces ==
  ASSUME NEW k \in Kernels, NEW known, NEW b \in Found(k, known)
  PROVE  IsFiniteSet(DOMAIN b) /\ DOMAIN b \subseteq Int
<1>1. PICK base : b \in SymbolBlocks(k, base)
  BY DEF Found
<1>2. PICK a \in SymbolEntries(k, base) : b = Block(k, base, a)
  BY <1>1 DEF SymbolBlocks
<1> DEFINE n == Cardinality(SymbolEntries(k, base))
<1>3. n \in Nat
  <2>1. SymbolEntries(k, base) \subseteq DOMAIN k.relocs
    BY DEF SymbolEntries, Entries
  <2> QED
    BY <2>1, KernelsAssumption, FS_Subset, FS_CardinalityType
<1>4. DOMAIN b \subseteq 0 .. n
  BY <1>2 DEF Block
<1>5. IsFiniteSet(0 .. n)
  BY <1>3, FS_Interval
<1> QED
  BY <1>3, <1>4, <1>5, FS_Subset

LEMMA TablePlace ==
  ASSUME NEW k \in Kernels, NEW known, NEW b \in Found(k, known),
         NEW t \in CrcTables(k, b, known)
  PROVE  t \in Int
<1>1. PICK a \in DOMAIN k.relocs, i \in Middle(Usable(b, known)) : t = a - i
  BY DEF CrcTables
<1>2. i \in Int /\ a \in Int
  BY SectionPlaces, KernelsAssumption DEF Middle, Usable
<1> QED
  BY <1>1, <1>2

\* A table that is accepted agrees in more places than there are strays, so one
\* of them at least is the own record of its name.
LEMMA OneIsOwn ==
  ASSUME FewStrays, NEW k \in Kernels, NEW ms \in ModuleSets,
         NEW b \in Found(k, Merged(ms)), NEW t \in CrcTables(k, b, Merged(ms))
  PROVE  \E i \in DOMAIN b : k.crcs[b[i]] = t + i
<1> DEFINE known == Merged(ms)
           agree == Agree(k, b, known, t)
           strays == Strays(k, b, known)
           usable == Usable(b, known)
<1>0. IsFiniteSet(DOMAIN b) /\ DOMAIN b \subseteq Int
  BY SectionPlaces
<1>1. Enough(Cardinality(agree), Cardinality(usable))
  BY DEF CrcTables
<1>2. t \in Int
  BY TablePlace
<1>3. SUFFICES ASSUME \A i \in DOMAIN b : k.crcs[b[i]] # t + i PROVE FALSE
  OBVIOUS
<1>4. \A i \in agree : t + i \in strays
  BY <1>3 DEF Agree, Usable, Strays
<1>5. IsFiniteSet(strays) /\ Cardinality(strays) \in Nat
  <2>1. strays \subseteq DOMAIN k.relocs
    BY DEF Strays
  <2> QED
    BY <2>1, KernelsAssumption, FS_Subset, FS_CardinalityType
<1>6. agree \subseteq Int /\ usable \subseteq DOMAIN b
  BY <1>0 DEF Agree, Usable
<1>7. Cardinality(agree) <= Cardinality(strays)
  <2> DEFINE f == [i \in agree |-> t + i]
  <2>1. f \in Injection(agree, strays)
    <3>1. f \in [agree -> strays]
      BY <1>4
    <3>2. \A i, j \in agree : f[i] = f[j] => i = j
      <4>1. \A i, j \in Int : t + i = t + j => i = j
        BY <1>2
      <4> QED
        BY <1>6, <4>1
    <3> QED
      BY <3>1, <3>2 DEF Injection, IsInjective
  <2> QED
    BY <1>5, <2>1, FS_Injection
<1>8. Cardinality(agree) \in Nat /\ Cardinality(usable) \in Nat
  <2>1. agree \subseteq DOMAIN b
    BY DEF Agree, Usable
  <2> QED
    BY <1>0, <1>6, <2>1, FS_Subset, FS_CardinalityType
<1>9. Cardinality(agree) >= MIN_AGREE
        /\ Cardinality(agree) >= (Cardinality(usable) * 95) \div 100
  BY <1>1 DEF Enough
<1>10. \/ Cardinality(strays) < MIN_AGREE
       \/ Cardinality(strays) < (Cardinality(usable) * 95) \div 100
  BY DEF FewStrays
<1> DEFINE needed == (Cardinality(usable) * 95) \div 100
<1>11. needed \in Int
  BY <1>8
<1> HIDE DEF needed, agree, strays, usable
<1> QED
  BY <1>5, <1>7, <1>8, <1>9, <1>10, <1>11, KernelsAssumption DEF needed

\* The CRCs taken from one section are the kernel's.
LEMMA SectionIsTrue ==
  ASSUME SectionsInLine, FewStrays, NEW k \in Kernels, NEW ms \in ModuleSets,
         NEW b \in Found(k, Merged(ms)), NEW n \in DOMAIN CrcTable(k, b, Merged(ms))
  PROVE  n \in DOMAIN Exports(k) /\ CrcTable(k, b, Merged(ms))[n] = Exports(k)[n]
<1> DEFINE known == Merged(ms)
           tables == CrcTables(k, b, known)
           first == {t \in tables : \A u \in tables : t <= u}
           found == {p \in first \X DOMAIN b : p[1] + p[2] \in DOMAIN k.relocs}
           q == CHOOSE p \in found : b[p[2]] = n
<1>1. CrcTable(k, b, known)
        = [m \in {b[p[2]] : p \in found} |->
             LET p == CHOOSE p \in found : b[p[2]] = m IN k.relocs[p[1] + p[2]]]
  BY DEF CrcTable
<1>2. n \in {b[p[2]] : p \in found}
  BY <1>1
<1>3. CrcTable(k, b, known)[n] = k.relocs[q[1] + q[2]]
  BY <1>1, <1>2
<1>4. q \in found /\ b[q[2]] = n
  BY <1>2
<1>5. q[1] \in tables /\ q[2] \in DOMAIN b
  BY <1>4
<1>6. PICK i \in DOMAIN b : k.crcs[b[i]] = q[1] + i
  BY <1>5, OneIsOwn
<1>7. b[q[2]] \in DOMAIN k.crcs /\ k.crcs[b[q[2]]] = (q[1] + i) + (q[2] - i)
  BY <1>5, <1>6 DEF SectionsInLine
<1>8. q[1] \in Int /\ q[2] \in Int /\ i \in Int
  BY <1>5, SectionPlaces, TablePlace
<1>9. k.crcs[n] = q[1] + q[2]
  BY <1>4, <1>7, <1>8
<1> QED
  BY <1>3, <1>4, <1>7, <1>9 DEF Exports

LEMMA ExportsAreTrue ==
  ASSUME SectionsInLine, FewStrays, NEW k \in Kernels, NEW ms \in ModuleSets,
         NEW n \in DOMAIN ExportedCrcs(k, Merged(ms))
  PROVE  /\ n \in DOMAIN Exports(k)
         /\ ExportedCrcs(k, Merged(ms))[n] = Exports(k)[n]
<1> DEFINE known == Merged(ms)
           tables == {CrcTable(k, b, known) : b \in Found(k, known)}
           exports == ExportedCrcs(k, known)
           t == CHOOSE t \in tables : n \in DOMAIN t
<1>1. exports = [m \in UNION {DOMAIN u : u \in tables} |->
                   (CHOOSE u \in tables : m \in DOMAIN u)[m]]
  BY DEF ExportedCrcs
<1>2. n \in UNION {DOMAIN u : u \in tables}
  BY <1>1
<1>3. exports[n] = t[n]
  BY <1>1, <1>2
<1>4. t \in tables /\ n \in DOMAIN t
  BY <1>2
<1>5. PICK b \in Found(k, known) : t = CrcTable(k, b, known)
  BY <1>4
<1> HIDE DEF t, tables, exports
<1>6. n \in DOMAIN CrcTable(k, b, known)
  BY <1>4, <1>5
<1>7. n \in DOMAIN Exports(k) /\ CrcTable(k, b, known)[n] = Exports(k)[n]
  BY <1>6, SectionIsTrue
<1> QED
  BY <1>3, <1>5, <1>7 DEF exports

\* The gates and what they let through.
ModulesInv ==
  /\ gate \in {"kernel", "recovered", "fits", "misfit", "sealed"} =>
       kernel \in Kernels /\ modules \in ModuleSets
  /\ gate \in {"idle", "kernel", "recovered", "fits", "misfit", "sealed", "stripped"}
  /\ gate = "recovered" => recovered = ExportedCrcs(kernel, Merged(modules))
  /\ gate = "fits" => CheckPasses(kernel, modules)
  /\ gate = "sealed" => ValidateModule(built, kernel, modules)

LEMMA ModulesInvariant == ModulesSpec => []ModulesInv
<1>1. ModulesInit => ModulesInv
  BY DEF ModulesInit, ModulesInv
<1>2. ModulesInv /\ [ModulesNext]_moduleVars => ModulesInv'
  <2> SUFFICES ASSUME ModulesInv, [ModulesNext]_moduleVars PROVE ModulesInv'
    OBVIOUS
  <2> USE DEF ModulesInv
  <2>1. CASE PickKernel
    BY <2>1 DEF PickKernel
  <2>2. CASE Recover
    BY <2>2 DEF Recover
  <2>3. CASE CheckAbi
    BY <2>3 DEF CheckAbi
  <2>4. CASE SealAudio
    <3>1. /\ gate \in {"fits", "misfit"} /\ gate' = "sealed"
          /\ kernel' = kernel /\ modules' = modules
          /\ ValidateModule(built', kernel, modules)
      BY <2>4 DEF SealAudio
    <3> QED
      BY <3>1
  <2>5. CASE StripGpu
    BY <2>5 DEF StripGpu
  <2>6. CASE NextTarget
    BY <2>6 DEF NextTarget
  <2>7. CASE UNCHANGED moduleVars
    BY <2>7 DEF moduleVars
  <2> QED
    BY <2>1, <2>2, <2>3, <2>4, <2>5, <2>6, <2>7 DEF ModulesNext
<1> QED
  BY <1>1, <1>2, PTL DEF ModulesSpec

\* Where the sections found are sections of the kernel and their stray records
\* are fewer than the agreements the tool asks for, every CRC recovered is the
\* one the kernel exports the symbol with: an accepted table then has one own
\* record at least, and that one fixes the place of all others.
THEOREM RecoveryIsTrue ==
  ASSUME SectionsInLine, FewStrays PROVE ModulesSpec => []RecoveredAreTrue
<1>1. ModulesInv => RecoveredAreTrue
  <2> SUFFICES ASSUME ModulesInv, gate = "recovered", NEW n \in DOMAIN recovered
               PROVE  n \in DOMAIN Exports(kernel) /\ recovered[n] = Exports(kernel)[n]
    BY DEF RecoveredAreTrue
  <2>1. /\ kernel \in Kernels /\ modules \in ModuleSets
        /\ recovered = ExportedCrcs(kernel, Merged(modules))
    BY DEF ModulesInv
  <2> QED
    BY <2>1, ExportsAreTrue
<1> QED
  BY <1>1, ModulesInvariant, PTL

\* Of the versions of a harvest built for one kernel none is lost in the merge.
LEMMA MergedVersions ==
  ASSUME OneBuild, NEW ms \in ModuleSets, NEW m \in ms, NEW n \in DOMAIN m.versions
  PROVE  n \in DOMAIN Merged(ms) /\ Merged(ms)[n] = m.versions[n]
<1> DEFINE o == CHOOSE o \in ms : n \in DOMAIN o.versions
<1>1. n \in UNION {DOMAIN x.versions : x \in ms}
  OBVIOUS
<1>2. o \in ms /\ n \in DOMAIN o.versions
  OBVIOUS
<1>3. n \in DOMAIN Merged(ms) /\ Merged(ms)[n] = o.versions[n]
  BY <1>1 DEF Merged
<1>4. m.versions[n] = o.versions[n]
  BY <1>2 DEF OneBuild
<1> QED
  BY <1>3, <1>4

\* Every module of a harvest that passes the check has, for each import, the
\* version the kernel asks for.
THEOREM FittingIsMatching ==
  ASSUME SectionsInLine, FewStrays, OneBuild PROVE ModulesSpec => []FittingModulesMatch
<1>1. ModulesInv => FittingModulesMatch
  <2> SUFFICES ASSUME ModulesInv, gate = "fits", NEW m \in modules
               PROVE  VersionsMatch(m, kernel)
    BY DEF FittingModulesMatch
  <2> DEFINE exports == ExportedCrcs(kernel, Merged(modules))
  <2>1. /\ kernel \in Kernels /\ modules \in ModuleSets
        /\ CheckPasses(kernel, modules)
    BY DEF ModulesInv
  <2>2. \A n \in DOMAIN Merged(modules) :
          n \in DOMAIN exports /\ exports[n] = Merged(modules)[n]
    BY <2>1 DEF CheckPasses
  <2>3. ASSUME NEW n \in m.undefined \union {ModuleLayout}
        PROVE  /\ n \in DOMAIN Exports(kernel) /\ n \in DOMAIN m.versions
               /\ m.versions[n] = Exports(kernel)[n]
    <3>1. n \in DOMAIN m.versions
      BY <2>1 DEF OneBuild
    <3>2. n \in DOMAIN Merged(modules) /\ Merged(modules)[n] = m.versions[n]
      BY <2>1, <3>1, MergedVersions
    <3>3. n \in DOMAIN exports /\ exports[n] = m.versions[n]
      BY <2>2, <3>2
    <3> QED
      BY <2>1, <3>1, <3>3, ExportsAreTrue
  <2> QED
    BY <2>3 DEF VersionsMatch
<1> QED
  BY <1>1, ModulesInvariant, PTL

\* An audio module that passes verify loads into the kernel of the harvest,
\* also when the harvest itself did not fit.
THEOREM SealedIsLoadable ==
  ASSUME SectionsInLine, FewStrays, HarvestOfKernel PROVE ModulesSpec => []SealedModuleLoads
<1>1. ModulesInv => SealedModuleLoads
  <2> SUFFICES ASSUME ModulesInv, gate = "sealed" PROVE Loads(built, kernel)
    BY DEF SealedModuleLoads
  <2> DEFINE exports == ExportedCrcs(kernel, Merged(modules))
  <2>1. /\ kernel \in Kernels /\ modules \in ModuleSets
        /\ ValidateModule(built, kernel, modules)
    BY DEF ModulesInv
  <2>2. /\ \A m \in modules : m.identity = built.identity
        /\ built.undefined \subseteq DOMAIN built.versions
        /\ ModuleLayout \in DOMAIN built.versions
        /\ \A n \in DOMAIN built.versions :
             n \in DOMAIN exports /\ exports[n] = built.versions[n]
    BY <2>1 DEF ValidateModule
  <2>3. built.identity = kernel.identity
    BY <2>1, <2>2 DEF HarvestOfKernel
  <2>4. ASSUME NEW n \in built.undefined \union {ModuleLayout}
        PROVE  /\ n \in DOMAIN Exports(kernel) /\ n \in DOMAIN built.versions
               /\ built.versions[n] = Exports(kernel)[n]
    <3>1. n \in DOMAIN built.versions
      BY <2>2
    <3>2. n \in DOMAIN exports /\ exports[n] = built.versions[n]
      BY <2>2, <3>1
    <3> QED
      BY <2>1, <3>1, <3>2, ExportsAreTrue
  <2> QED
    BY <2>3, <2>4 DEF Loads, VersionsMatch
<1> QED
  BY <1>1, ModulesInvariant, PTL

=============================================================================
