------------------------------- MODULE DebugInfo -------------------------------
(* Reading a debug file (libdebug/src/read.rs), its errors on the way through    *)
(* the C interface (cabi.rs, error.rs), and the queries of symsynd/libdebug.py.  *)
(* A file is what mach_object makes of it: a Mach-O image, a fat file of several *)
(* or something else. An image has an architecture and load commands. `inside`   *)
(* says whether an offset found in the file lies in the file.                    *)
EXTENDS Naturals, Sequences, SequencesExt

CONSTANTS
    ArchOf,   \* get_arch_from_flag(): names of architectures to architectures
    NameOf,   \* get_arch_name_from_types(): architectures to names
    NoUuid, NoText, Nothing  \* Uuid::nil(), an attribute that is not there, None

\* The two tables of mach_object agree.
ASSUME ArchAssumption ==
    \A arch \in DOMAIN NameOf :
        NameOf[arch] \in DOMAIN ArchOf /\ ArchOf[NameOf[arch]] = arch

Ok(value) == [ok |-> TRUE, value |-> value]
Err(error) == [ok |-> FALSE, error |-> error]
\* landingpad(): a panic becomes an error of the library.
Panic == Err("Internal")

--------------------------------------------------------------------------------
(* The reader.                                                                   *)

\* Mutant: the last image of the architecture.
get_arch_last(file, cpu_name) ==
    LET IsArch(part) == part.arch = ArchOf[cpu_name]
        at == SelectLastInSeq(file.files, IsArch)
    IN IF cpu_name \notin DOMAIN ArchOf THEN Err("NoSuchArch")
       ELSE IF file.kind = "fat" /\ at # 0
       THEN IF file.files[at].inside THEN Ok(file.files[at].file) ELSE Panic
       ELSE IF file.kind = "mach" /\ file.arch = ArchOf[cpu_name] THEN Ok(file)
       ELSE Err("NoSuchArch")

get_arch(file, cpu_name) ==
    LET IsArch(part) == part.arch = ArchOf[cpu_name]
        at == SelectInSeq(file.files, IsArch)
    IN IF cpu_name \notin DOMAIN ArchOf THEN Err("NoSuchArch")
       ELSE IF file.kind = "fat" /\ at # 0
       THEN IF file.files[at].inside THEN Ok(file.files[at].file) ELSE Panic
       ELSE IF file.kind = "mach" /\ file.arch = ArchOf[cpu_name] THEN Ok(file)
       ELSE Err("NoSuchArch")

Commands(image, cmd) ==
    IF image.kind = "mach" THEN SelectSeq(image.commands, LAMBDA c : c.cmd = cmd) ELSE <<>>
Sections(image) ==
    LET segments == Commands(image, "segment")
    IN FlattenSeq([i \in DOMAIN segments |-> segments[i].sections])

SectionIn(sections, segname, sectname) ==
    LET Named(section) == section.segname = segname /\ section.sectname = sectname
        at == SelectInSeq(sections, Named)
    IN IF at = 0 THEN Err("NoSuchSection")
       ELSE IF sections[at].inside THEN Ok(sections[at].content) ELSE Panic
get_section(file, cpu_name, segname, sectname) ==
    LET image == get_arch(file, cpu_name)
    IN IF image.ok THEN SectionIn(Sections(image.value), segname, sectname) ELSE image

\* extract_variants(): the last command of a kind counts.
VariantOf(image) ==
    LET commands == image.commands
        uuid == SelectLastInSeq(commands, LAMBDA c : c.cmd = "uuid")
        name == SelectLastInSeq(commands, LAMBDA c : c.cmd = "name")
        text == SelectLastInSeq(commands, LAMBDA c : c.cmd = "segment" /\ c.name = "__TEXT")
    IN [cpu_name |-> IF image.arch \in DOMAIN NameOf THEN NameOf[image.arch] ELSE Nothing,
        uuid |-> IF uuid = 0 THEN NoUuid ELSE commands[uuid].uuid,
        name |-> IF name = 0 THEN Nothing ELSE commands[name].name,
        vmaddr |-> IF text = 0 THEN 0 ELSE commands[text].vmaddr,
        vmsize |-> IF text = 0 THEN 0 ELSE commands[text].vmsize]
\* By the place of the image in the file, for those that are Mach-O images.
get_variants(file) ==
    LET images == IF file.kind = "fat" THEN [i \in 1..Len(file.files) |-> file.files[i].file]
                  ELSE <<file>>
    IN [i \in {j \in DOMAIN images : images[j].kind = "mach"} |-> VariantOf(images[i])]

--------------------------------------------------------------------------------
(* Compilation directories. A path is the sequence of its components.            *)

Absolute(path) == path # <<>> /\ Head(path) = "/"
\* Path::join()
join(path, name) == IF Absolute(name) THEN name ELSE path \o name

\* The unit of an entry is the one asked for.
Compiles(entry, filename) ==
    /\ entry.tag = "compile_unit"
    /\ entry.comp_dir # NoText /\ entry.name # NoText
    /\ join(entry.comp_dir, entry.name) = filename

\* Entries up to the unit, or up to one that gimli cannot read.
DirectoryIn(entries, filename) ==
    LET at == SelectInSeq(entries, LAMBDA e : e.tag = "unreadable" \/ Compiles(e, filename))
    IN IF at = 0 THEN Err("NoSuchAttribute")
       ELSE IF entries[at].tag = "unreadable" THEN Err("Dwarf")
       ELSE Ok(entries[at].comp_dir)
\* The first section that is missing says why there is no directory.
SearchedIn(info, abbrev, str, filename) ==
    IF ~info.ok THEN info ELSE IF ~abbrev.ok THEN abbrev ELSE IF ~str.ok THEN str
    ELSE DirectoryIn(info.value, filename)
get_compilation_dir_cstr(file, cpu_name, filename) ==
    LET Section(name) == get_section(file, cpu_name, "__DWARF", name)
    IN SearchedIn(Section("__debug_info"), Section("__debug_abbrev"), Section("__debug_str"), filename)

--------------------------------------------------------------------------------
(* The C interface and the classes of exceptions in Python.                      *)

get_error_code ==
    [Internal |-> 1, NoSuchArch |-> 2, NoSuchSection |-> 3, NoSuchAttribute |-> 4,
     MachObject |-> 5, Io |-> 6, Dwarf |-> 7]

special_errors == {2, 3, 4}
\* DwarfLookupError or one of its children; everything else is a plain DebugInfoError.
IsLookupError(result) == ~result.ok /\ get_error_code[result.error] \in special_errors

Raised == [raised |-> TRUE]
Returned(value) == [raised |-> FALSE, value |-> value]

\* Mutant: whatever goes wrong, there is no directory.
rustcall_or_none(result) == IF result.ok THEN Returned(result.value) ELSE Returned(Nothing)
\* rustcall(), and what get_compilation_dir() makes of the error.
rustcall(result) ==
    IF result.ok THEN Returned(result.value)
    ELSE IF IsLookupError(result) THEN Returned(Nothing) ELSE Raised
get_compilation_dir(file, cpu_name, filename) ==
    rustcall(get_compilation_dir_cstr(file, cpu_name, filename))

\* The first of a name; with a UUID it is v.uuid that is compared.
get_variant(file, cpu_name) ==
    LET variants == get_variants(file)
        named == {i \in DOMAIN variants : variants[i].cpu_name = cpu_name}
    IN IF named = {} THEN Nothing ELSE variants[Min(named)]
================================================================================
