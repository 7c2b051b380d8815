-------------------------------- MODULE MCReport -------------------------------
(* Reports for TLC, in three families: images in memory, meta information of the *)
(* crash, contents of debug files.                                               *)
EXTENDS Report

Arch(name) == <<name>>
MCArchOf == [name \in Cpu |-> Arch(name)]
MCNameOf == [arch \in {Arch(name) : name \in Cpu} |-> arch[1]]
NewArch == Arch("new")
MCSourceFiles == {<<"/", "a", "x">>, <<"/", "b", "x">>}

--------------------------------------------------------------------------------
(* Debug files.                                                                  *)

Section(name, inside, content) ==
    [segname |-> "__DWARF", sectname |-> name, inside |-> inside, content |-> content]
Segment(name, vmaddr, sections) ==
    [cmd |-> "segment", name |-> name, vmaddr |-> vmaddr, vmsize |-> 8, sections |-> sections]
Entry(tag, dir, name) == [tag |-> tag, comp_dir |-> dir, name |-> name]
Image(arch, uuid, vmaddr, sections) ==
    [kind |-> "mach", arch |-> arch,
     commands |-> <<[cmd |-> "uuid", uuid |-> uuid], Segment("__TEXT", vmaddr, <<>>),
                    Segment("__DWARF", 64, sections)>>]
Fat(archs, images_, inside) ==
    [kind |-> "fat",
     files |-> [i \in DOMAIN archs |-> [arch |-> archs[i], inside |-> inside, file |-> images_[i]]]]

A == <<"/", "a">>
B == <<"/", "b">>
Unit(dir) == Entry("compile_unit", dir, <<"x">>)
UnitLists ==
    {<<>>, <<Unit(A)>>, <<Unit(B), Unit(A)>>, <<Entry("other", A, <<"x">>)>>,
     <<Entry("compile_unit", NoText, <<"x">>), Entry("compile_unit", B, <<"/", "a", "x">>)>>,
     <<Unit(A), Entry("unreadable", NoText, NoText)>>,
     <<Entry("unreadable", NoText, NoText), Unit(A)>>}
Dwarf(units) == <<Section("__debug_info", TRUE, units), Section("__debug_abbrev", TRUE, <<>>),
                  Section("__debug_str", TRUE, <<>>)>>
SectionLists ==
    {Dwarf(units) : units \in UnitLists}
    \cup {<<>>, Tail(Dwarf(<<Unit(A)>>)), <<Section("__debug_info", TRUE, <<Unit(B)>>)>> \o Dwarf(<<Unit(A)>>),
          [Dwarf(<<Unit(A)>>) EXCEPT ![3].inside = FALSE]}

Archs == {Arch("arm64"), Arch("armv7"), NewArch}
Thin == {Image(arch, "u1", 16, Dwarf(<<Unit(A)>>)) : arch \in Archs}
        \cup {Image(Arch("arm64"), "u1", 0, sections) : sections \in SectionLists}
Pairs(arch) == {<<Image(Arch("arm64"), "u1", 16, one), Image(arch, "u2", 32, Dwarf(<<Unit(B)>>))>> :
                one \in SectionLists}
Fats == {Fat(order, <<pair[1], pair[2]>>, inside) :
           order \in {<<Arch("arm64"), Arch("armv7")>>}, pair \in Pairs(Arch("armv7")), inside \in BOOLEAN}
        \cup {Fat(<<Arch("armv7"), Arch("arm64")>>, <<pair[2], pair[1]>>, TRUE) :
                 pair \in Pairs(Arch("armv7"))}
        \cup {Fat(<<Arch("arm64"), Arch("arm64")>>, <<pair[2], pair[1]>>, TRUE) :
                 pair \in Pairs(Arch("arm64"))}
        \cup {Fat(<<Arch("armv7"), Arch("arm64")>>, pair, TRUE) : pair \in Pairs(Arch("armv7"))}
\* An image of the architecture behind something of the architecture that is none.
Archive == {Fat(<<Arch("arm64"), Arch("arm64")>>,
                <<[kind |-> "other"], Image(Arch("arm64"), "u1", 16, Dwarf(<<Unit(A)>>))>>, TRUE)}
DebugFileList == Thin \cup Fats \cup Archive \cup {[kind |-> "other"], [kind |-> "unreadable"]}
Plain == Image(Arch("arm64"), "u1", 16, Dwarf(<<Unit(A)>>))
Other == Image(Arch("arm64"), "u2", 32, Dwarf(<<Unit(B)>>))

--------------------------------------------------------------------------------
(* Reports.                                                                      *)

Loaded(addr, uuid, arch, vmaddr) == [addr |-> addr, uuid |-> uuid, arch |-> arch, vmaddr |-> vmaddr]
LoadAddresses == {0, 8, 12}
InMemory ==
    /\ images \in UNION {[1..n -> {Loaded(a, u, arch, 0) :
           a \in LoadAddresses, u \in Uuid, arch \in {Arch("arm64"), NewArch}}] : n \in 0..2}
    /\ files \in [Uuid -> {NoFile, Plain, Other}]
    /\ frames \in {<<a>> : a \in {0, 1, 8, 9, 12, 13}}
    /\ meta = NoMeta
CrashFile(name, place) ==
    Fat(<<Arch(name), NewArch>>,
        <<Image(Arch(name), "u1", place, <<>>), Image(NewArch, "u2", 64, <<>>)>>, TRUE)
MCDebugFiles == DebugFileList \cup {Plain, Other}
                \cup {CrashFile(name, place) : name \in Cpu, place \in {0, 16}}
Crashes ==
    \E name \in Cpu, place \in {0, 16}, vmaddr \in {0, 32} :
        /\ images = <<Loaded(8, "u1", Arch(name), vmaddr)>>
        /\ files = [u \in Uuid |-> CrashFile(name, place)]
        /\ frames \in {<<a, b>> : a \in 8..15, b \in {9, 13}}
        /\ meta \in [signal : {0, SIGSEGV},
                     registers : UNION {[S -> {9, 14}] : S \in {{}, {"pc"}, {"rip"}}}]
DebugFilesOnly ==
    /\ images \in {<<Loaded(8, "u1", Arch(name), vmaddr)>> : name \in {"arm64", "armv7"}, vmaddr \in {0, 32}}
    /\ files \in [Uuid -> DebugFileList]
    /\ files["u1"] = files["u2"]
    /\ frames \in {<<11, 15>>}
    /\ meta = NoMeta

MCInit == Start /\ (InMemory \/ Crashes \/ DebugFilesOnly)
MCSpec == MCInit /\ [][Next]_vars
================================================================================
