------------------------------ MODULE KernelModules ------------------------------
(***************************************************************************)
(* The gates between kernel modules and the vendor kernel they are loaded  *)
(* into: tools/kernel_abi.py recovers the export table of a kernel from *)
(* its relocation records and compares it with what modules import,        *)
(* tools/audio_module.py validates the module BaseOS builds itself, and    *)
(* tools/strip_gpu_module.py compares a stripped module with the original. *)
(*                                                                         *)
(* Addresses count words of eight bytes; an addend below KERNEL_ADDR is a  *)
(* CRC, any other is a pointer.  A name is the number of its place in the  *)
(* alphabet.  A kernel is its relocations, the strings in its image, and   *)
(* crcs, which the tools do not see: where the CRC of each symbol lies that *)
(* it really exports.  The records of a kernel are in order of address.    *)
(***************************************************************************)
EXTENDS Integers, Sequences, FiniteSets, Functions

CONSTANTS
  KERNEL_ADDR,
  PageWords,     \* the image base is a multiple of it
  MIN_BLOCK,     \* names in a section, at least; 32 in the code
  MIN_SCORE,     \* pointers to names at the right base, at least; 100
  MIN_AGREE,     \* CRCs that must agree, at least; 4
  MaxPointers,   \* pointers that are scored, at most; 4000
  MaxAnchors,    \* names that are tried as anchors, at most; 64
  Kernels, ModuleSets, Built, Gpus, Strips   \* what the tools are given

ASSUME KernelsAssumption ==
  /\ MIN_AGREE \in Nat
  /\ \A k \in Kernels :
       /\ IsFiniteSet(DOMAIN k.relocs) /\ DOMAIN k.relocs \subseteq Nat
       /\ \A n \in DOMAIN k.crcs : k.crcs[n] \in DOMAIN k.relocs

\* The section table of a module is a sequence.
ASSUME SectionsAssumption ==
  \A m \in Gpus \union Strips : m.sections \in Seq(Range(m.sections))

-----------------------------------------------------------------------------
(* exported_crcs *)

Pointers(k) == {a \in DOMAIN k.relocs : k.relocs[a] >= KERNEL_ADDR}

Named(k, base, p) == p - base \in DOMAIN k.strings

ReadString(k, base, p) == k.strings[p - base]

\* The first n of a set of numbers.
Lowest(n, S) == {x \in S : Cardinality({y \in S : y < x}) < n}

Score(k, base) ==
  Cardinality({a \in Lowest(MaxPointers, Pointers(k)) : Named(k, base, k.relocs[a])})

Candidates(k, anchor) ==
  {b \in {k.relocs[a] - t : a \in Pointers(k),
                                 t \in Lowest(1, {t \in DOMAIN k.strings : k.strings[t] = anchor})} :
     /\ b % PageWords = 0
     /\ \A a \in DOMAIN k.relocs : b <= a /\ a - b < k.size}

\* The best of the candidates, the lowest of equals.
Best(k, anchor) ==
  {b \in Candidates(k, anchor) :
     \A c \in Candidates(k, anchor) \ {b} :
       Score(k, c) < Score(k, b) \/ (Score(k, c) = Score(k, b) /\ b < c)}

\* Anchors are tried in alphabetical order.
SolveBase(k, names) ==
  LET anchors == Lowest(MaxAnchors, names)
      good(n) == {b \in Best(k, n) : Score(k, b) >= MIN_SCORE}
  IN  UNION {good(n) : n \in {n \in anchors :
                                \A m \in anchors : m < n => good(m) = {}}}

\* Entries of a symbol table: address, and name in the word behind it.
Entries(k, base, phase) ==
  {a \in DOMAIN k.relocs :
     /\ a + 1 \in Pointers(k) /\ (a + 1) % 2 = phase
     /\ Named(k, base, k.relocs[a + 1])}

SymbolEntries(k, base) ==
  LET odd == Entries(k, base, 1)
      even == Entries(k, base, 0)
  IN  IF Cardinality(even) > Cardinality(odd) THEN even ELSE odd

NameAt(k, base, a) == ReadString(k, base, k.relocs[a + 1])

\* A section is a run of entries in ascending order.
StartsBlock(k, base, a) ==
  \/ a - 2 \notin SymbolEntries(k, base)
  \/ NameAt(k, base, a) < NameAt(k, base, a - 2)

\* The names of the section that starts at a.
Block(k, base, a) ==
  LET entries == SymbolEntries(k, base)
      goesOn(j) == a + 2 * j \in entries /\ ~StartsBlock(k, base, a + 2 * j)
  IN  [j \in {j \in 0 .. Cardinality(entries) : \A i \in 1 .. j : goesOn(i)} |->
         NameAt(k, base, a + 2 * j)]

SymbolBlocks(k, base) ==
  {b \in {Block(k, base, a) : a \in {a \in SymbolEntries(k, base) :
                                            StartsBlock(k, base, a)}} :
     Cardinality(DOMAIN b) >= MIN_BLOCK}

Usable(block, known) == {i \in DOMAIN block : block[i] \in DOMAIN known}

\* The anchor: the middle one of the usable positions.
Middle(usable) ==
  {i \in usable : Cardinality({j \in usable : j < i}) = Cardinality(usable) \div 2}

Agree(k, block, known, t) ==
  {i \in Usable(block, known) :
     t + i \in DOMAIN k.relocs /\ k.relocs[t + i] = known[block[i]]}

\* A slip of Enough: one agreement, the anchor's own, will do.
SlipEnough(agree, usable) == agree >= 1

Enough(agree, usable) == agree >= MIN_AGREE /\ agree >= (usable * 95) \div 100

\* Where a table may start that has the anchor's CRC in the anchor's place and
\* agrees in enough of the others.
CrcTables(k, block, known) ==
  LET usable == Usable(block, known) IN
  IF Cardinality(usable) < MIN_AGREE THEN {}
  ELSE {t \in {a - i : a \in DOMAIN k.relocs, i \in Middle(usable)} :
          /\ \E i \in Middle(usable) : i \in Agree(k, block, known, t)
          /\ Enough(Cardinality(Agree(k, block, known, t)), Cardinality(usable))}

\* The CRCs of one section, by name, from the first table that is accepted.
CrcTable(k, block, known) ==
  LET tables == CrcTables(k, block, known)
      first == {t \in tables : \A u \in tables : t <= u}
      found == {p \in first \X DOMAIN block : p[1] + p[2] \in DOMAIN k.relocs}
  IN  [n \in {block[p[2]] : p \in found} |->
         LET p == CHOOSE p \in found : block[p[2]] = n IN k.relocs[p[1] + p[2]]]

\* The sections the tool finds with these known CRCs.
Found(k, known) == UNION {SymbolBlocks(k, base) : base \in SolveBase(k, DOMAIN known)}

\* No base, or no table at all, ends the tool: nothing is exported.
ExportedCrcs(k, known) ==
  LET tables == {CrcTable(k, b, known) : b \in Found(k, known)}
  IN  [n \in UNION {DOMAIN t : t \in tables} |->
         (CHOOSE t \in tables : n \in DOMAIN t)[n]]

-----------------------------------------------------------------------------
(* check, and the audio module *)

\* dict.update over the modules: of two CRCs for a name one is kept.
Merged(ms) ==
  [n \in UNION {DOMAIN m.versions : m \in ms} |->
     (CHOOSE m \in ms : n \in DOMAIN m.versions).versions[n]]

\* A slip of CheckPasses: a name the kernel does not export is no failure.
SlipCheckPasses(k, ms) ==
  LET expected == Merged(ms)
      t == ExportedCrcs(k, expected)
  IN  /\ DOMAIN expected # {}
      /\ \A n \in DOMAIN expected : n \in DOMAIN t => t[n] = expected[n]

CheckPasses(k, ms) ==
  LET expected == Merged(ms)
      t == ExportedCrcs(k, expected)
  IN  /\ DOMAIN expected # {}
      /\ \A n \in DOMAIN expected : n \in DOMAIN t /\ t[n] = expected[n]

ModuleLayout == 1

\* A slip of ValidateModule: imports without a version are let through.
SlipValidateModule(module, k, ms) ==
  LET exports == ExportedCrcs(k, Merged(ms)) IN
  /\ Cardinality({m.identity : m \in ms}) = 1
  /\ \A m \in ms : m.identity = module.identity
  /\ ModuleLayout \in DOMAIN module.versions
  /\ \A n \in DOMAIN module.versions : n \in DOMAIN exports /\ exports[n] = module.versions[n]

\* vendor_contract, validate_module.  identity is vermagic and the size of
\* struct module.
ValidateModule(module, k, ms) ==
  LET exports == ExportedCrcs(k, Merged(ms)) IN
  /\ Cardinality({m.identity : m \in ms}) = 1
  /\ \A m \in ms : m.identity = module.identity
  /\ module.undefined \subseteq DOMAIN module.versions
  /\ ModuleLayout \in DOMAIN module.versions
  /\ \A n \in DOMAIN module.versions : n \in DOMAIN exports /\ exports[n] = module.versions[n]

\* What the kernel really exports.
Exports(k) == [n \in DOMAIN k.crcs |-> k.relocs[k.crcs[n]]]

\* The kernel's loader: every import is exported, and the module says with
\* which version it was built.
VersionsMatch(module, k) ==
  \A n \in module.undefined \union {ModuleLayout} :
    /\ n \in DOMAIN Exports(k) /\ n \in DOMAIN module.versions
    /\ module.versions[n] = Exports(k)[n]

Loads(module, k) == module.identity = k.identity /\ VersionsMatch(module, k)

-----------------------------------------------------------------------------
(* strip_gpu_module.  A module is a sequence of sections (name, debug,     *)
(* data), one of symbols (name, section index or 0, value, kind) and one   *)
(* of relocations (section index, offset, symbol index).                   *)

SectionNames(m) == {m.sections[i].name : i \in DOMAIN m.sections}

\* Symbols and relocations point at sections and symbols that are there, and
\* no two sections have one name.
WellFormed(m) ==
  /\ ~m.signed
  /\ Cardinality(SectionNames(m)) = Len(m.sections)
  /\ \A i \in DOMAIN m.symbols : m.symbols[i].section \in {0} \union DOMAIN m.sections
  /\ \A i \in DOMAIN m.relocs :
       /\ m.relocs[i].section \in DOMAIN m.sections
       /\ m.relocs[i].symbol \in DOMAIN m.symbols

Retained(m) == {s \in Range(m.sections) : ~s.debug}

\* A symbol with its section by name instead of by index.
Resolved(m, symbol) ==
  [name |-> symbol.name, value |-> symbol.value, kind |-> symbol.kind,
   section |-> IF symbol.section = 0 THEN "undefined" ELSE m.sections[symbol.section].name]

InDebug(m, section) == section # 0 /\ m.sections[section].debug

Count(seq, Value(_), Test(_)) ==
  [v \in {Value(seq[i]) : i \in {i \in DOMAIN seq : Test(seq[i])}} |->
     Cardinality({i \in DOMAIN seq : Test(seq[i]) /\ Value(seq[i]) = v})]

RuntimeSymbols(m) ==
  Count(m.symbols, LAMBDA s : Resolved(m, s),
        LAMBDA s : s.kind \notin {"section", "file"} /\ ~InDebug(m, s.section))

Relocations(m) ==
  Count(m.relocs,
        LAMBDA r : [target |-> m.sections[r.section].name, offset |-> r.offset,
                    symbol |-> Resolved(m, m.symbols[r.symbol])],
        LAMBDA r : ~m.sections[r.section].debug)

\* A slip of VerifyStripped: relocations are not compared.
SlipVerifyStripped(before, after) ==
  /\ WellFormed(before) /\ WellFormed(after)
  /\ Retained(before) = Retained(after)
  /\ RuntimeSymbols(before) = RuntimeSymbols(after)
  /\ \A s \in Range(after.sections) : ~s.debug

VerifyStripped(before, after) ==
  /\ WellFormed(before) /\ WellFormed(after)
  /\ Retained(before) = Retained(after)
  /\ RuntimeSymbols(before) = RuntimeSymbols(after)
  /\ Relocations(before) = Relocations(after)
  /\ \A s \in Range(after.sections) : ~s.debug

\* What the loader puts into memory: the bytes of each section that is kept,
\* and for each patched place the symbol, found by its index.
Loaded(m) ==
  [n \in {s.name : s \in Retained(m)} |->
     [data |-> (CHOOSE s \in Retained(m) : s.name = n).data,
      patches |-> {<<m.relocs[i].offset, m.symbols[m.relocs[i].symbol].name,
                     m.symbols[m.relocs[i].symbol].value,
                     Resolved(m, m.symbols[m.relocs[i].symbol]).section>> :
                     i \in {i \in DOMAIN m.relocs : m.sections[m.relocs[i].section].name = n}}]]

-----------------------------------------------------------------------------
(* One target at a time: its kernel and modules are checked, the audio     *)
(* module is built and validated, the GPU module is stripped.              *)

VARIABLES
  gate,          \* the last step taken
  kernel, modules,
  recovered,       \* the exports the tools have recovered
  built,         \* the audio module the compiler has made
  gpu, stripped  \* the GPU module before and after strip

moduleVars == <<gate, kernel, modules, recovered, built, gpu, stripped>>

NoModule == [identity |-> 0, undefined |-> {}, versions |-> <<>>]

NoKernel == [relocs |-> <<>>, strings |-> <<>>, size |-> 0, crcs |-> <<>>, identity |-> 0]

NoGpu == [sections |-> <<>>, symbols |-> <<>>, relocs |-> <<>>, signed |-> FALSE]

ModulesInit ==
  /\ gate = "idle"
  /\ kernel = NoKernel /\ modules = {} /\ recovered = <<>>
  /\ built = NoModule /\ gpu = NoGpu /\ stripped = NoGpu

PickKernel ==
  /\ gate = "idle"
  /\ gate' = "kernel" /\ kernel' \in Kernels /\ modules' \in ModuleSets
  /\ UNCHANGED <<recovered, built, gpu, stripped>>

\* kernel_abi.py exports.
Recover ==
  /\ gate = "kernel"
  /\ gate' = "recovered" /\ recovered' = ExportedCrcs(kernel, Merged(modules))
  /\ UNCHANGED <<kernel, modules, built, gpu, stripped>>

\* kernel_abi.py check.
CheckAbi ==
  /\ gate = "kernel"
  /\ gate' = IF CheckPasses(kernel, modules) THEN "fits" ELSE "misfit"
  /\ UNCHANGED <<kernel, modules, recovered, built, gpu, stripped>>

\* audio_module.py verify, on whatever was compiled.
SealAudio ==
  /\ gate \in {"fits", "misfit"}
  /\ \E m \in Built : ValidateModule(m, kernel, modules) /\ built' = m
  /\ gate' = "sealed"
  /\ UNCHANGED <<kernel, modules, recovered, gpu, stripped>>

\* strip_module, on whatever strip has made of the module.
StripGpu ==
  /\ gate = "idle"
  /\ \E g \in Gpus, s \in Strips : VerifyStripped(g, s) /\ gpu' = g /\ stripped' = s
  /\ gate' = "stripped"
  /\ UNCHANGED <<kernel, modules, recovered, built>>

NextTarget ==
  /\ gate \in {"recovered", "fits", "misfit", "sealed", "stripped"} /\ gate' = "idle"
  /\ kernel' = NoKernel /\ modules' = {} /\ recovered' = <<>>
  /\ built' = NoModule /\ gpu' = NoGpu /\ stripped' = NoGpu

ModulesNext == PickKernel \/ Recover \/ CheckAbi \/ SealAudio \/ StripGpu \/ NextTarget

ModulesSpec == ModulesInit /\ [][ModulesNext]_moduleVars

-----------------------------------------------------------------------------
(* What the gates cannot see for themselves. *)

\* The sections the tool finds are sections of the kernel: the names are exported, and their CRCs lie
\* in the same order one behind the other.
SectionsInLine ==
  \A k \in Kernels, ms \in ModuleSets : \A b \in Found(k, Merged(ms)) :
    \A i, j \in DOMAIN b :
      b[i] \in DOMAIN k.crcs /\ k.crcs[b[j]] = k.crcs[b[i]] + (j - i)

\* Records that carry the known CRC of a name and are not that name's own.
Strays(k, block, known) ==
  {a \in DOMAIN k.relocs : \E i \in Usable(block, known) :
     k.relocs[a] = known[block[i]] /\ a # k.crcs[block[i]]}

\* For no section there are MIN_AGREE of them that are also 95% of its names.
FewStrays ==
  \A k \in Kernels, ms \in ModuleSets : \A b \in Found(k, Merged(ms)) :
    LET strays == Cardinality(Strays(k, b, Merged(ms))) IN
    \/ strays < MIN_AGREE
    \/ strays < (Cardinality(Usable(b, Merged(ms))) * 95) \div 100

\* The modules of a harvest have a version for each import, and were built for
\* one kernel.
OneBuild ==
  \A ms \in ModuleSets : \A m \in ms :
    /\ m.undefined \union {ModuleLayout} \subseteq DOMAIN m.versions
    /\ \A o \in ms : \A n \in DOMAIN m.versions \intersect DOMAIN o.versions :
         m.versions[n] = o.versions[n]

\* A module of the harvest at least is one the kernel loads.
HarvestOfKernel ==
  \A k \in Kernels, ms \in ModuleSets : \E m \in ms : m.identity = k.identity

-----------------------------------------------------------------------------
(* Properties. *)

\* Every CRC the tools recover from a kernel is the one it exports the symbol
\* with, although a few other relocation records look like CRCs (kernel_abi:
\* "each CRC table is accepted only when it reproduces CRCs the modules
\* recorded independently").
RecoveredAreTrue ==
  gate = "recovered" =>
    \A n \in DOMAIN recovered :
      n \in DOMAIN Exports(kernel) /\ recovered[n] = Exports(kernel)[n]

\* Modules that pass the check have the versions the kernel loader asks for
\* (kernel_abi: "a module whose modversions no longer match simply fails to
\* insmod on the device").
FittingModulesMatch ==
  gate = "fits" => \A m \in modules : VersionsMatch(m, kernel)

\* A sealed audio module can be loaded into the vendor kernel.
SealedModuleLoads == gate = "sealed" => Loads(built, kernel)

\* A stripped module is the same to the loader (strip_gpu_module: "Remove GPU
\* module debug data only after checking the module's loadable ABI").
StrippedLoadsAlike == gate = "stripped" => Loaded(stripped) = Loaded(gpu)

=============================================================================
