------------------------------- MODULE MCModules -------------------------------
(***************************************************************************)
(* A kernel with seven exports in two sections, whose CRCs are 11 to 17.   *)
(***************************************************************************)
EXTENDS KernelModules

SectionNamesAt == << [names |-> <<1, 2, 4, 6>>, symAt |-> 110, crcAt |-> 130],
                     [names |-> <<3, 5, 7>>, symAt |-> 118, crcAt |-> 136] >>

Truth == [n \in 1 .. 7 |-> 10 + n]

MCStrings == [o \in 1 .. 7 |-> o]

\* The records of the two symbol tables and the two CRC tables.
Records(exports) ==
  UNION {UNION {LET s == SectionNamesAt[k] n == s.names[i] IN
                {<<s.symAt + 2 * i - 2, 150>>, <<s.symAt + 2 * i - 1, 100 + n>>,
                 <<s.crcAt + i - 1, exports[n]>>} :
                i \in DOMAIN SectionNamesAt[k].names} : k \in 1 .. 2}

CrcPlaces ==
  [n \in 1 .. 7 |->
     CHOOSE a \in 130 .. 138 : \E k \in 1 .. 2 : \E i \in DOMAIN SectionNamesAt[k].names :
       SectionNamesAt[k].names[i] = n /\ a = SectionNamesAt[k].crcAt + i - 1]

MCKernel(exports, stray) ==
  LET recs == Records(exports)
      all == recs \union (IF stray[1] \in {r[1] : r \in recs} THEN {} ELSE {stray})
  IN  [relocs |-> [a \in {r[1] : r \in all} |-> (CHOOSE r \in all : r[1] = a)[2]],
       strings |-> MCStrings, size |-> 60, crcs |-> CrcPlaces, identity |-> 1]

\* One stray record, anywhere; at most one CRC other than the modules know.
MCKernels ==
  {MCKernel(e, <<a, v>>) :
     e \in {Truth} \union {[Truth EXCEPT ![n] = 19] : n \in {2, 5, 6}},
     a \in {104, 128, 129, 135, 139}, v \in {11, 12, 14, 15, 105}}

Vendor1(versions) ==
  [identity |-> 1, undefined |-> DOMAIN versions \ {1}, versions |-> versions]

VersionsOf(names) == [n \in names |-> Truth[n]]

MCModuleSets ==
  { {Vendor1(VersionsOf({1, 2, 4})), Vendor1(VersionsOf({1, 3, 5, 7}))},
    {Vendor1(VersionsOf({1, 2, 4, 6}))},
    {Vendor1([VersionsOf({1, 2, 4}) EXCEPT ![4] = 18]), Vendor1(VersionsOf({3, 5, 7, 1}))},
    {Vendor1(VersionsOf({1, 2})), [Vendor1(VersionsOf({1, 4})) EXCEPT !.identity = 2]} }

\* Two modules built for different kernels, which disagree about symbol 2.
MCTwoBuilds ==
  { {Vendor1([VersionsOf({1, 2, 4}) EXCEPT ![2] = 18]), Vendor1(VersionsOf({1, 2, 6}))} }

MCBuilt ==
  LET good == Vendor1(VersionsOf({1, 2, 6})) IN
  { good, [good EXCEPT !.versions[6] = 18], [good EXCEPT !.identity = 2],
    [good EXCEPT !.versions = VersionsOf({1, 2})],
    [good EXCEPT !.versions = VersionsOf({2, 6})],
    Vendor1(VersionsOf({1, 3, 4})) }

-----------------------------------------------------------------------------
Text == [name |-> "text", debug |-> FALSE, data |-> 1]
Data == [name |-> "data", debug |-> FALSE, data |-> 2]
Info == [name |-> "debug", debug |-> TRUE, data |-> 3]

Sym(name, section, value, kind) ==
  [name |-> name, section |-> section, value |-> value, kind |-> kind]

Patch(section, offset, symbol) ==
  [section |-> section, offset |-> offset, symbol |-> symbol]

MCGpus ==
  LET mali == [sections |-> <<Text, Info, Data>>,
              symbols |-> <<Sym("", 1, 0, "section"), Sym("mali", 1, 4, "func"),
                            Sym("printk", 0, 0, "notype"), Sym("die", 2, 0, "func")>>,
              relocs |-> <<Patch(1, 8, 3), Patch(3, 0, 2), Patch(2, 0, 4), Patch(1, 16, 1)>>,
              signed |-> FALSE]
  IN  {mali, [mali EXCEPT !.signed = TRUE], [mali EXCEPT !.relocs = SubSeq(@, 1, 3)]}

MCStrips ==
  {[sections |-> secs,
    symbols |-> <<Sym("", 1, 0, "section"), Sym("mali", at, 4, "func"),
                  Sym("printk", 0, 0, "notype")>>,
    relocs |-> patches, signed |-> FALSE] :
     secs \in {<<Text, Data>>, <<Data, Text>>, <<Text, Info, Data>>, <<Text>>,
               <<[Text EXCEPT !.data = 4], Data>>},
     at \in 1 .. 2,
     patches \in {<<Patch(i, 8, j), Patch(3 - i, 0, k)>> : i \in 1 .. 2, j \in 1 .. 3, k \in 1 .. 3}
       \union {<<Patch(i, 8, j), Patch(3 - i, 0, 2), Patch(i, 16, k)>> :
                 i \in 1 .. 2, j \in 1 .. 3, k \in 1 .. 3}}

=============================================================================
