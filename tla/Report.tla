--------------------------------- MODULE Report --------------------------------
(* Symbolicating a backtrace: class ReportSymbolizer of tests/conftest.py, which *)
(* looks up the image and the instruction of each frame and asks the driver      *)
(* (symsynd/symbolizer.py), which finds out where the image lies in its file.    *)
(* LLVM answers what it likes.                                                   *)
EXTENDS ImageLookup, Heuristics, DebugInfo

CONSTANTS
    Uuid, CpuType, \* identities of images, their architectures
    DebugFiles,    \* contents of debug files
    SourceFiles,   \* paths LLVM may answer with
    NoFile, NoMeta

\* Addresses and sizes in files are unsigned, and a variant is an object.
ASSUME ReportAssumption ==
    \A file \in DebugFiles, cpu_name \in Cpu :
        /\ LET variant == get_variant(file, cpu_name)
           IN variant # Nothing => variant.vmaddr \in Nat
        /\ LET image == get_arch(file, cpu_name).value
           IN get_arch(file, cpu_name).ok /\ image.kind = "mach" =>
                /\ VariantOf(image) # Nothing
                /\ VariantOf(image).vmaddr \in Nat /\ VariantOf(image).vmsize \in Nat
ASSUME CpuNameAssumption == \A arch \in DOMAIN NameOf : NameOf[arch] \in Cpu
ASSUME NothingAssumption ==
    /\ NoFile \notin DebugFiles /\ Nothing \notin Cpu
    /\ NoMeta \notin [registers : Registers, signal : Nat]
    /\ NoImage \notin [addr : Nat, uuid : Uuid, arch : CpuType, vmaddr : Nat]

VARIABLES
    images,   \* binary_images: address, uuid, arch and address in the file, 0 if unknown
    files,    \* what find_debug_images() found for each uuid
    frames,   \* the addresses of the backtrace
    meta,     \* signal and registers, or none
    at,       \* the frame that is next
    asked,    \* of LLVM for the latest frame, or nothing
    rv,       \* the result
    outcome   \* "running", "done" or why it was given up
inputs == <<images, files, frames, meta>>
vars == <<inputs, at, asked, rv, outcome>>

Start ==
    /\ at = 1 /\ asked = Nothing /\ rv = <<>> /\ outcome = "running"

\* Any report; see the instance for a bound.
BinaryImage == [addr : Nat, uuid : Uuid, arch : CpuType, vmaddr : Nat]
Init ==
    /\ images \in Seq(BinaryImage)
    /\ files \in [Uuid -> DebugFiles \cup {NoFile}]
    /\ frames \in Seq(Nat)
    /\ meta \in {NoMeta} \cup [registers : Registers, signal : Nat]
    /\ Start

\* Mutant: the first image with an address.
image_paths_first ==
    LET Found(i) == images[i].arch \in DOMAIN NameOf /\ files[images[i].uuid] # NoFile
        found == {i \in DOMAIN images : Found(i)}
    IN [a \in {images[i].addr : i \in found} |-> files[images[Min(found)].uuid]]
\* The files by address; an image without file leaves the one of an earlier image.
image_paths ==
    LET Found(i) == images[i].arch \in DOMAIN NameOf /\ files[images[i].uuid] # NoFile
        found == {i \in DOMAIN images : Found(i)}
    IN [a \in {images[i].addr : i \in found} |->
          files[images[Max({i \in found : images[i].addr = a})].uuid]]

\* The frame goes into the result as it came, or once for each symbol.
Continue(symbols, ask) ==
    /\ rv' = rv \o (IF symbols = <<>> THEN <<[frame |-> at, found |-> FALSE]>>
                   ELSE [i \in DOMAIN symbols |-> [frame |-> at, found |-> TRUE]])
    /\ asked' = ask
    /\ at' = at + 1
    /\ UNCHANGED <<inputs, outcome>>
GiveUp(why, ask) ==
    /\ outcome' = why
    /\ asked' = ask
    /\ UNCHANGED <<inputs, at, rv>>

Instruction(cpu_name) ==
    IF meta = NoMeta THEN frames[at]
    ELSE find_best_instruction(frames[at], cpu_name,
           [frame_number |-> at - 1, registers |-> meta.registers, signal |-> meta.signal])

\* Symbolizer.symbolize(): where the image lies in its file.
slide(image, file, cpu_name) ==
    LET variant == get_variant(file, cpu_name)
    IN IF image.vmaddr # 0 \/ variant = Nothing THEN image.vmaddr ELSE variant.vmaddr

\* The symbols LLVM may find: none, or some, with or without a source file.
Answers == {<<>>} \cup [1..1 -> SourceFiles \cup {NoText}]
           \cup [1..2 -> SourceFiles \cup {NoText}]

\* Only a file that is a debug file can be asked for anything.
Opens(file) == file.kind # "unreadable"

Ask(image, file, cpu_name) ==
    LET addr == slide(image, file, cpu_name) + Instruction(cpu_name) - image.addr
        ask == [image |-> image, file |-> file, cpu_name |-> cpu_name, addr |-> addr,
                frame |-> at]
        Fails(source) == /\ source # NoText
                         /\ ~Opens(file) \/ get_compilation_dir(file, cpu_name, source).raised
    IN IF ~Opens(file) /\ image.vmaddr = 0 THEN GiveUp("DebugInfoError", Nothing)
       ELSE IF addr < 0 THEN GiveUp("OverflowError", ask)
       ELSE \/ GiveUp("SymbolicationError", ask)
            \/ \E symbols \in Answers :
                 IF \E j \in DOMAIN symbols : Fails(symbols[j]) THEN GiveUp("DebugInfoError", ask)
                 ELSE Continue(symbols, ask)

\* symbolize() of the backtrace's next frame.
symbolize ==
    /\ outcome = "running" /\ at <= Len(frames)
    /\ LET image == find_image(images, frames[at])
       IN IF image = NoImage \/ image.addr \notin DOMAIN image_paths
          THEN Continue(<<>>, Nothing)
          ELSE LET file == image_paths[image.addr]
               IN IF image.arch \in DOMAIN NameOf THEN Ask(image, file, NameOf[image.arch])
                  \* nobody expects None for a name: a TypeError, AttributeError or the like
                  ELSE GiveUp("no cpu name", Nothing)

symbolize_backtrace ==
    /\ outcome = "running" /\ at > Len(frames)
    /\ outcome' = "done"
    /\ UNCHANGED <<inputs, at, asked, rv>>

Next == symbolize \/ symbolize_backtrace

Spec == Init /\ [][Next]_vars

--------------------------------------------------------------------------------

Asked == asked # Nothing
\* No two images at one address.
Apart == \A i, j \in DOMAIN images : i # j => images[i].addr # images[j].addr
\* The headers of a fat file say what its images say.
Consistent(file) ==
    file.kind = "fat" =>
        \A i \in 1..Len(file.files) :
            file.files[i].file.kind = "mach" => file.files[i].file.arch = file.files[i].arch
\* Where the address LLVM is asked for lies in memory.
Looked == asked.addr - slide(asked.image, asked.file, asked.cpu_name) + asked.image.addr

(* A frame is looked up in the image that lies nearest below it, the latest one  *)
(* of several, and never in one that starts behind it (ImageLookup of images.py, *)
(* except for the first address of an image, which goes to the one before).      *)
NearestImage ==
    Asked => LET addr == frames[asked.frame]
             IN /\ asked.image.addr < addr
                /\ \A i \in DOMAIN images :
                      images[i].addr < addr => images[i].addr <= asked.image.addr
                /\ \A i \in DOMAIN images : images[i].addr = asked.image.addr =>
                      \E j \in i..Len(images) : images[j] = asked.image

(* "Given an instruction address this locates the image this address is          *)
(* contained in": an image contains its own first address.                       *)
ContainsBase ==
    Asked => LET addr == frames[asked.frame]
             IN (\E i \in DOMAIN images : images[i].addr = addr) => asked.image.addr = addr

(* The file belongs to the image: find_debug_images() and ImageLookup fill their *)
(* tables in the same order, so that the same image wins in both unless it has   *)
(* no file (images.py lines 82 and 96).                                          *)
RightFile ==
    Asked /\ (Apart \/ \A u \in DOMAIN files : files[u] # NoFile) =>
        asked.file = files[asked.image.uuid]

(* LLVM is asked for an address inside the very image of the file it will look   *)
(* at, if the frame lies inside the image in memory and the image ends between   *)
(* two instructions; then the address is not negative either (get_variant(), the *)
(* slide and the sum of symbolizer.py).                                          *)
InsideImage ==
    Asked /\ asked.image.vmaddr = 0 /\ Consistent(asked.file) =>
        LET found == get_arch(asked.file, asked.cpu_name)
            text == VariantOf(found.value)
            offset == frames[asked.frame] - asked.image.addr
            end == asked.image.addr + text.vmsize
        IN /\ found.ok /\ found.value.kind = "mach"
           /\ offset \in Width(asked.cpu_name)..(text.vmsize - 1)
           /\ end % Width(asked.cpu_name) = 0
           => asked.addr \in text.vmaddr..(text.vmaddr + text.vmsize - 1)

(* The frames above the crash hold return addresses: what is looked up is the    *)
(* end of the instruction before, the call; the crashing frame is looked up      *)
(* inside its own instruction unless its registers disagree (heuristics.py).     *)
CallersBehind ==
    Asked /\ meta # NoMeta /\ asked.frame > 1 =>
        LET addr == frames[asked.frame]
        IN Looked + 1 = Align(addr, asked.cpu_name) /\ Looked < addr
CrashInside ==
    Asked /\ meta # NoMeta /\ asked.frame = 1 =>
        IF Displaced(frames[1], asked.cpu_name, meta) THEN Looked < frames[1]
        ELSE Looked \in frames[1]..(frames[1] + Width(asked.cpu_name) - 1)

\* The places of a section of debug information, and the compile units of an image.
Places(sections, name) ==
    {i \in 1..Len(sections) : sections[i].segname = "__DWARF" /\ sections[i].sectname = name}
Units(sections) ==
    UNION {{sections[i].content[j] : j \in 1..Len(sections[i].content)} :
              i \in Places(sections, "__debug_info")}
\* A directory that is there is not None.
ASSUME DirectoryAssumption ==
    \A file \in DebugFiles, cpu_name \in Cpu :
        LET found == get_arch(file, cpu_name)
        IN found.ok => \A unit \in Units(Sections(found.value)) : unit.comp_dir # Nothing
\* Everything the lookup touches is there and can be read, the units once.
Sound(sections) ==
    /\ \A name \in {"__debug_info", "__debug_abbrev", "__debug_str"} :
          /\ Places(sections, name) # {}
          /\ \A i \in Places(sections, name) : sections[i].inside
    /\ \A i, j \in Places(sections, "__debug_info") : i = j
    /\ \A unit \in Units(sections) : unit.tag # "unreadable"

\* What Python answers, what the library answered, and the image it found.
Right(answer, result, found, source) ==
    LET sections == Sections(found.value)
        Naming == {unit \in Units(sections) : Compiles(unit, source)}
    IN /\ ~answer.raised /\ answer.value # Nothing =>
             found.ok /\ \E unit \in Naming : unit.comp_dir = answer.value
       /\ found.ok /\ Sound(sections) =>
             ~answer.raised /\ (answer.value = Nothing <=> Naming = {})
       /\ answer.raised <=> result \in {Panic, Err("Dwarf")}

(* The compilation directory of a source file is that of a unit of the cpu asked *)
(* for; nothing goes wrong when there is none, and in a sound file a unit that   *)
(* is there is found (DebugInfo.get_compilation_dir() through read.rs and        *)
(* cabi.rs: "If the information is not available a NoSuchArch / NoSuchAttribute  *)
(* or NoSuchSection error will be returned").                                    *)
DirectoryRight ==
    Asked => \A source \in SourceFiles :
        Right(get_compilation_dir(asked.file, asked.cpu_name, source),
              get_compilation_dir_cstr(asked.file, asked.cpu_name, source),
              get_arch(asked.file, asked.cpu_name), source)
================================================================================
