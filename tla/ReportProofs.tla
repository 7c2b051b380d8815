------------------------------ MODULE ReportProofs -----------------------------
(* The search of images, the instruction arithmetic and module Report, for any   *)
(* number of images, frames and debug files: which image, which file and which   *)
(* instruction a frame is looked up in.                                          *)
EXTENDS Report, Extremes

--------------------------------------------------------------------------------
(* The table and its search.                                                     *)

Positions(list, a) == {i \in DOMAIN list : list[i].addr = a}

(* The image in the table is the latest one with its address.                    *)
LEMMA LatestImage ==
    ASSUME NEW Image, \A image \in Image : image.addr \in Nat,
           NEW list \in Seq(Image), NEW a \in DOMAIN Table(list)
    PROVE  /\ a \in Nat
           /\ Max(Positions(list, a)) \in Positions(list, a)
           /\ \A i \in Positions(list, a) : i <= Max(Positions(list, a))
           /\ Table(list)[a] = list[Max(Positions(list, a))]
           /\ Table(list)[a] \in Image
           /\ Table(list)[a].addr = a
  <1> DEFINE at_ == Positions(list, a)
  <1> USE DEF Positions
  <1>1. PICK i \in DOMAIN list : list[i].addr = a
    BY DEF Table
  <1>2. at_ \in SUBSET Nat /\ at_ # {} /\ Len(list) \in Nat /\ \A x \in at_ : x <= Len(list)
    BY <1>1
  <1>3. Max(at_) \in at_ /\ \A x \in at_ : x <= Max(at_)
    BY <1>2, MaxOfBounded
  <1>4. Table(list)[a] = list[Max(at_)]
    BY DEF Table
  <1>5. list[Max(at_)] \in Image /\ list[Max(at_)].addr = a
    BY <1>3
  <1>6. QED
    BY <1>3, <1>4, <1>5

(* find_image() answers with the image at the greatest address below.            *)
LEMMA FoundImage ==
    ASSUME NEW Image, \A image \in Image : image.addr \in Nat,
           NEW list \in Seq(Image), NEW addr \in Nat, find_image(list, addr) # NoImage
    PROVE  LET image == find_image(list, addr)
           IN /\ image \in Image
              /\ image.addr \in DOMAIN Table(list)
              /\ image = Table(list)[image.addr]
              /\ image.addr < addr
              /\ \A a \in DOMAIN Table(list) : a < addr => a <= image.addr
  <1> DEFINE below == {a \in DOMAIN Table(list) : a < addr}
  <1>1. below # {} /\ find_image(list, addr) = Table(list)[Max(below)]
    BY DEF find_image
  <1>2. \A a \in DOMAIN Table(list) : a \in Nat
    BY LatestImage
  <1>3. Max(below) \in below /\ \A x \in below : x <= Max(below)
    <2>1. below \in SUBSET Nat /\ \A x \in below : x <= addr
      BY <1>2
    <2> HIDE DEF below
    <2>2. QED
      BY <1>1, <2>1, MaxOfBounded
  <1>4. Table(list)[Max(below)] \in Image /\ Table(list)[Max(below)].addr = Max(below)
    BY <1>3, LatestImage
  <1>5. QED
    BY <1>1, <1>3, <1>4

--------------------------------------------------------------------------------
(* The address of the instruction.                                               *)

(* Rounding down: an instruction boundary at or below the address, less    *)
(* than one instruction away.                                              *)
LEMMA AlignFacts ==
  ASSUME NEW addr \in Int, NEW cpu \in Cpu
  PROVE  /\ Width(cpu) \in {1, 2, 4}
         /\ Align(addr, cpu) \in Int
         /\ Align(addr, cpu) <= addr /\ addr < Align(addr, cpu) + Width(cpu)
         /\ Align(addr, cpu) % Width(cpu) = 0
  <1>1. CASE Width(cpu) = 4
    BY <1>1 DEF Align
  <1>2. CASE Width(cpu) = 2
    BY <1>2 DEF Align
  <1>3. CASE Width(cpu) = 1
    BY <1>3 DEF Align
  <1>4. Width(cpu) \in {1, 2, 4}
    BY DEF Width
  <1>5. QED
    BY <1>1, <1>2, <1>3, <1>4

(* A boundary stays one when whole instructions are added, and rounding    *)
(* from anywhere inside an instruction gives its boundary.                 *)
LEMMA AlignShift ==
  ASSUME NEW addr \in Int, NEW cpu \in Cpu
  PROVE  /\ Align(Align(addr, cpu), cpu) = Align(addr, cpu)
         /\ Align(Align(addr, cpu) + Width(cpu), cpu) = Align(addr, cpu) + Width(cpu)
         /\ Align(Align(addr, cpu) - Width(cpu), cpu) = Align(addr, cpu) - Width(cpu)
  <1> DEFINE a == Align(addr, cpu)
  <1>1. a \in Int /\ a % Width(cpu) = 0 /\ Width(cpu) \in {1, 2, 4}
    BY AlignFacts
  <1>2. CASE Width(cpu) = 4
    BY <1>1, <1>2 DEF Align
  <1>3. CASE Width(cpu) = 2
    BY <1>1, <1>3 DEF Align
  <1>4. CASE Width(cpu) = 1
    BY <1>1, <1>4 DEF Align
  <1>5. QED
    BY <1>1, <1>2, <1>3, <1>4

(* The lookup address is the last byte of the frame's own instruction, or  *)
(* of the one before.                                                      *)
LEMMA BestInstruction ==
  ASSUME NEW addr \in Int, NEW cpu \in Cpu, NEW info
  PROVE  find_best_instruction(addr, cpu, info) =
           IF info.frame_number # 0 \/ Displaced(addr, cpu, info)
           THEN Align(addr, cpu) - 1
           ELSE Align(addr, cpu) + Width(cpu) - 1
  <1>1. Align(addr, cpu) \in Int /\ Width(cpu) \in Int
    BY AlignFacts
  <1>2. CASE info.frame_number # 0 \/ Displaced(addr, cpu, info)
    BY <1>1, <1>2, AlignShift
    DEF find_best_instruction, round_to_instruction_end, get_previous_instruction
  <1>3. CASE ~(info.frame_number # 0 \/ Displaced(addr, cpu, info))
    BY <1>1, <1>3 DEF find_best_instruction, round_to_instruction_end
  <1>4. QED
    BY <1>2, <1>3

(* Return addresses are looked up inside the call instruction.             *)
THEOREM CallersLookBehind ==
  \A addr \in Nat, cpu \in Cpu, info \in Meta : CallerLooksBehind(addr, cpu, info)
  BY BestInstruction, AlignFacts DEF CallerLooksBehind

(* The crashing frame is looked up inside its own instruction unless the   *)
(* registers say that the address is not the one that faulted.             *)
THEOREM CrashesLookInside ==
  \A addr \in Nat, cpu \in Cpu, info \in Meta : CrashLooksInside(addr, cpu, info)
  <1> SUFFICES ASSUME NEW addr \in Nat, NEW cpu \in Cpu, NEW info \in Meta,
                      info.frame_number = 0
               PROVE  LET best == find_best_instruction(addr, cpu, info)
                      IN IF Displaced(addr, cpu, info) THEN best < addr
                         ELSE best \in addr..(addr + Width(cpu) - 1)
    BY DEF CrashLooksInside
  <1>1. /\ Width(cpu) \in {1, 2, 4} /\ Align(addr, cpu) \in Int
        /\ Align(addr, cpu) <= addr /\ addr < Align(addr, cpu) + Width(cpu)
    BY AlignFacts
  <1>2. CASE Displaced(addr, cpu, info)
    BY <1>1, <1>2, BestInstruction
  <1>3. CASE ~Displaced(addr, cpu, info)
    BY <1>1, <1>3, BestInstruction
  <1>4. QED
    BY <1>2, <1>3

(* No frame at or above the first full instruction of the address space    *)
(* yields a negative address.                                              *)
THEOREM AddressesNonNegative ==
  \A addr \in Nat, cpu \in Cpu, info \in Meta : LooksAtAddress(addr, cpu, info)
  <1> SUFFICES ASSUME NEW addr \in Nat, NEW cpu \in Cpu, NEW info \in Meta,
                      addr >= Width(cpu)
               PROVE  find_best_instruction(addr, cpu, info) >= 0
    BY DEF LooksAtAddress
  <1>1. Width(cpu) \in {1, 2, 4} /\ Align(addr, cpu) \in Int
    BY AlignFacts
  <1>2. Align(addr, cpu) >= 1
    <2>1. Align(addr, cpu) > 0
      BY AlignFacts
    <2>2. QED
      BY <1>1, <2>1
  <1>3. QED
    BY <1>1, <1>2, BestInstruction

(* Stepping to a neighbouring instruction and back.                        *)
THEOREM NeighboursAreInverse ==
  \A addr \in Nat, cpu \in Cpu : NeighboursInverse(addr, cpu)
  <1> SUFFICES ASSUME NEW addr \in Nat, NEW cpu \in Cpu PROVE NeighboursInverse(addr, cpu)
    OBVIOUS
  <1>1. Align(addr, cpu) \in Int /\ Width(cpu) \in Int
    BY AlignFacts
  <1>2. QED
    BY <1>1, AlignShift
    DEF NeighboursInverse, get_previous_instruction, get_next_instruction,
        round_to_instruction_end


--------------------------------------------------------------------------------
(* The inductive invariant.                                                      *)

InputsInv ==
    /\ images \in Seq(BinaryImage)
    /\ files \in [Uuid -> DebugFiles \cup {NoFile}]
    /\ frames \in Seq(Nat)
    /\ meta \in {NoMeta} \cup [registers : Registers, signal : Nat]
    /\ at \in Nat \ {0}

\* Instruction(), for the frame that was asked about.
InstructionOf(frame, cpu_name) ==
    IF meta = NoMeta THEN frames[frame]
    ELSE find_best_instruction(frames[frame], cpu_name,
           [frame_number |-> frame - 1, registers |-> meta.registers, signal |-> meta.signal])

\* What LLVM is asked for a frame.
Question(ask) ==
    /\ ask.frame \in 1..Len(frames)
    /\ ask.image = find_image(images, frames[ask.frame])
    /\ ask.image # NoImage
    /\ ask.image.addr \in DOMAIN image_paths
    /\ ask.image.arch \in DOMAIN NameOf
    /\ ask.cpu_name = NameOf[ask.image.arch]
    /\ ask.file = image_paths[ask.image.addr]
    /\ ask.addr = slide(ask.image, ask.file, ask.cpu_name)
                  + InstructionOf(ask.frame, ask.cpu_name) - ask.image.addr

ReportInv == InputsInv /\ (Asked => Question(asked))

(* A question stays right as long as the report is the same.                     *)
LEMMA QuestionStays ==
    ASSUME UNCHANGED inputs, NEW CONSTANT q, Question(q), asked' = q
    PROVE  Question(asked)'
  <1>1. images' = images /\ files' = files /\ frames' = frames /\ meta' = meta
    BY DEF inputs
  <1>2. image_paths' = image_paths
    BY <1>1 DEF image_paths
  <1>3. InstructionOf(asked.frame, asked.cpu_name)' = InstructionOf(q.frame, q.cpu_name)
    BY <1>1 DEF InstructionOf
  <1>4. slide(asked.image, asked.file, asked.cpu_name)' = slide(q.image, q.file, q.cpu_name)
    BY DEF slide
  <1>5. Question(q)
    OBVIOUS
  <1>6. QED
    BY <1>1, <1>2, <1>3, <1>4, <1>5 DEF Question

(* The question of a step is the one its frame calls for.                        *)
LEMMA AskInv ==
    ASSUME InputsInv, at <= Len(frames), NEW image, NEW file, NEW cpu_name,
           image = find_image(images, frames[at]), image # NoImage,
           image.addr \in DOMAIN image_paths, file = image_paths[image.addr],
           image.arch \in DOMAIN NameOf, cpu_name = NameOf[image.arch],
           Ask(image, file, cpu_name), UNCHANGED inputs
    PROVE  Asked' => Question(asked)'
  <1> DEFINE ask == [image |-> image, file |-> file, cpu_name |-> cpu_name,
                     addr |-> slide(image, file, cpu_name) + Instruction(cpu_name) - image.addr,
                     frame |-> at]
  <1>1. asked' = Nothing \/ asked' = ask
    BY DEF Ask, GiveUp, Continue
  <1>2. at \in 1..Len(frames)
    BY DEF InputsInv
  <1>3. Instruction(cpu_name) = InstructionOf(at, cpu_name)
    BY DEF Instruction, InstructionOf
  <1>4. Question(ask)
    BY <1>2, <1>3 DEF Question
  <1> HIDE DEF ask
  <1>5. CASE asked' = Nothing
    BY <1>5 DEF Asked
  <1>6. CASE asked' = ask
    <2>1. PICK q : q = ask
      OBVIOUS
    <2>2. Question(q) /\ asked' = q
      BY <1>4, <1>6, <2>1
    <2>3. QED
      BY <2>2, QuestionStays
  <1>7. QED
    BY <1>1, <1>5, <1>6

(* The inputs do not change, and frames are taken one after the other.           *)
LEMMA InputsStay ==
    ASSUME InputsInv, [Next]_vars
    PROVE  InputsInv' /\ UNCHANGED inputs
  <1>1. UNCHANGED inputs /\ (at' = at \/ at' = at + 1)
    <2>1. CASE symbolize
      BY <2>1 DEF symbolize, Ask, Continue, GiveUp
    <2>2. CASE symbolize_backtrace
      BY <2>2 DEF symbolize_backtrace
    <2>3. CASE UNCHANGED vars
      BY <2>3 DEF vars
    <2>4. QED
      BY <2>1, <2>2, <2>3 DEF Next
  <1>2. images' = images /\ files' = files /\ frames' = frames /\ meta' = meta
    BY <1>1 DEF inputs
  <1>3. QED
    BY <1>1, <1>2 DEF InputsInv

(* What was asked stays right until the next question.                           *)
LEMMA AskedStays ==
    ASSUME UNCHANGED inputs, UNCHANGED asked, Asked => Question(asked)
    PROVE  Asked' => Question(asked)'
  <1>1. SUFFICES ASSUME Asked' PROVE Question(asked)'
    OBVIOUS
  <1>2. PICK q : q = asked
    OBVIOUS
  <1>3. Question(q) /\ asked' = q
    BY <1>1, <1>2 DEF Asked
  <1>4. QED
    BY <1>3, QuestionStays

(* The invariant holds in every report.                                          *)
THEOREM ReportInvariant == Spec => []ReportInv
  <1>1. Init => ReportInv
    BY DEF Init, Start, ReportInv, InputsInv, Asked
  <1>2. ReportInv /\ [Next]_vars => ReportInv'
    <2> SUFFICES ASSUME ReportInv, [Next]_vars PROVE ReportInv'
      OBVIOUS
    <2>1. InputsInv /\ InputsInv' /\ UNCHANGED inputs
      BY InputsStay DEF ReportInv
    <2>2. CASE symbolize
      <3> DEFINE image == find_image(images, frames[at])
      <3>1. CASE image = NoImage \/ image.addr \notin DOMAIN image_paths
        BY <2>1, <2>2, <3>1 DEF symbolize, Continue, ReportInv, Asked
      <3>2. CASE /\ image # NoImage /\ image.addr \in DOMAIN image_paths
                 /\ image.arch \notin DOMAIN NameOf
        BY <2>1, <2>2, <3>2 DEF symbolize, GiveUp, ReportInv, Asked
      <3>3. CASE /\ image # NoImage /\ image.addr \in DOMAIN image_paths
                 /\ image.arch \in DOMAIN NameOf
        <4>1. /\ at <= Len(frames)
              /\ Ask(image, image_paths[image.addr], NameOf[image.arch])
          BY <2>2, <3>3 DEF symbolize
        <4>2. Asked' => Question(asked)'
          BY <2>1, <3>3, <4>1, AskInv
        <4>3. QED
          BY <2>1, <4>2 DEF ReportInv
      <3>4. QED
        BY <3>1, <3>2, <3>3
    <2>3. CASE symbolize_backtrace \/ UNCHANGED vars
      BY <2>1, <2>3, AskedStays DEF symbolize_backtrace, vars, ReportInv
    <2>4. QED
      BY <2>2, <2>3 DEF Next
  <1>3. QED
    BY <1>1, <1>2, PTL DEF Spec

--------------------------------------------------------------------------------
(* Images and files.                                                             *)

(* The image asked about, from what ImageLookup finds.                           *)
LEMMA AskedImage ==
    ASSUME InputsInv, Asked, Question(asked)
    PROVE  /\ frames[asked.frame] \in Nat
           /\ asked.image \in BinaryImage
           /\ asked.image.addr < frames[asked.frame]
           /\ asked.image.addr \in DOMAIN Table(images)
           /\ asked.image = Table(images)[asked.image.addr]
           /\ \A a \in DOMAIN Table(images) :
                 a < frames[asked.frame] => a <= asked.image.addr
  <1>1. frames[asked.frame] \in Nat
    BY DEF InputsInv, Question
  <1>2. \A image \in BinaryImage : image.addr \in Nat
    BY DEF BinaryImage
  <1>3. images \in Seq(BinaryImage) /\ find_image(images, frames[asked.frame]) # NoImage
    BY DEF InputsInv, Question
  <1>4. asked.image = find_image(images, frames[asked.frame])
    BY DEF Question
  <1> HIDE DEF BinaryImage
  <1>5. QED
    BY <1>1, <1>2, <1>3, <1>4, FoundImage

\* The places of images with a file, and of those at one address.
WithFile == {i \in DOMAIN images : images[i].arch \in DOMAIN NameOf /\ files[images[i].uuid] # NoFile}
FilesAt(a) == {i \in WithFile : images[i].addr = a}

(* A file in the table is that of the latest image at the address that has one.  *)
LEMMA LatestFile ==
    ASSUME InputsInv, NEW a \in DOMAIN image_paths
    PROVE  /\ Max(FilesAt(a)) \in FilesAt(a)
           /\ \A i \in FilesAt(a) : i <= Max(FilesAt(a))
           /\ image_paths[a] = files[images[Max(FilesAt(a))].uuid]
           /\ image_paths[a] \in DebugFiles
  <1>1. image_paths = [b \in {images[i].addr : i \in WithFile} |->
                          files[images[Max(FilesAt(b))].uuid]]
    BY DEF image_paths, WithFile, FilesAt
  <1>2. a \in {images[i].addr : i \in WithFile}
    BY <1>1
  <1>3. FilesAt(a) # {}
    BY <1>2 DEF FilesAt
  <1>4. FilesAt(a) \in SUBSET Nat /\ Len(images) \in Nat /\ \A i \in FilesAt(a) : i <= Len(images)
    BY DEF FilesAt, WithFile, InputsInv
  <1>5. Max(FilesAt(a)) \in FilesAt(a) /\ \A i \in FilesAt(a) : i <= Max(FilesAt(a))
    BY <1>3, <1>4, MaxOfBounded
  <1>6. image_paths[a] = files[images[Max(FilesAt(a))].uuid]
    BY <1>1, <1>2
  <1>7. files[images[Max(FilesAt(a))].uuid] \in DebugFiles
    <2> DEFINE i == Max(FilesAt(a))
    <2>1. i \in DOMAIN images /\ files[images[i].uuid] # NoFile
      BY <1>5 DEF FilesAt, WithFile
    <2> HIDE DEF i
    <2>2. images[i] \in BinaryImage
      BY <2>1 DEF InputsInv
    <2>3. images[i].uuid \in Uuid
      BY <2>2 DEF BinaryImage
    <2>4. files[images[i].uuid] \in DebugFiles
      BY <2>1, <2>3 DEF InputsInv
    <2>5. QED
      BY <2>4 DEF i
  <1>8. QED
    BY <1>5, <1>6, <1>7

(* A frame is looked up in the image nearest below it, the latest of several:    *)
(* ImageLookup of images.py, for any images in any order.                        *)
THEOREM LooksInNearestImage == Spec => []NearestImage
  <1>1. ReportInv => NearestImage
    <2> SUFFICES ASSUME InputsInv, Asked, Question(asked) PROVE NearestImage
      BY DEF ReportInv, NearestImage
    <2>1. asked.image.addr < frames[asked.frame]
      BY AskedImage
    <2>2. \A i \in DOMAIN images : images[i].addr < frames[asked.frame] =>
              images[i].addr <= asked.image.addr
      <3>1. \A i \in DOMAIN images : images[i].addr \in DOMAIN Table(images)
        BY DEF Table
      <3>2. QED
        BY <3>1, AskedImage
    <2>3. \A i \in DOMAIN images : images[i].addr = asked.image.addr =>
              \E j \in i..Len(images) : images[j] = asked.image
      <3> DEFINE here == Positions(images, asked.image.addr)
      <3>1. \A image \in BinaryImage : image.addr \in Nat
        BY DEF BinaryImage
      <3>2. images \in Seq(BinaryImage) /\ asked.image.addr \in DOMAIN Table(images)
        BY AskedImage DEF InputsInv
      <3>3. /\ Max(here) \in here /\ \A i \in here : i <= Max(here)
            /\ Table(images)[asked.image.addr] = images[Max(here)]
        BY <3>1, <3>2, LatestImage
      <3>4. images[Max(here)] = asked.image
        BY <3>3, AskedImage
      <3>5. here \subseteq 1..Len(images)
        BY <3>2 DEF Positions
      <3>6. SUFFICES ASSUME NEW i \in DOMAIN images, images[i].addr = asked.image.addr
                     PROVE  \E j \in i..Len(images) : images[j] = asked.image
        OBVIOUS
      <3>7. i \in here
        BY <3>6 DEF Positions
      <3> HIDE DEF here
      <3>8. Max(here) \in i..Len(images)
        BY <3>3, <3>5, <3>7
      <3>9. QED
        BY <3>4, <3>8
    <2>4. QED
      BY <2>1, <2>2, <2>3 DEF NearestImage
  <1>2. QED
    BY <1>1, ReportInvariant, PTL

(* The file that is read belongs to the image: two tables that are filled from   *)
(* one list agree when no two images share an address or all have files          *)
(* (images.py lines 82 and 96, ReportSymbolizer of tests/conftest.py).           *)
THEOREM LooksInRightFile == Spec => []RightFile
  <1>1. ReportInv => RightFile
    <2> SUFFICES ASSUME InputsInv, Asked, Question(asked),
                        Apart \/ \A u \in DOMAIN files : files[u] # NoFile
                 PROVE  asked.file = files[asked.image.uuid]
      BY DEF ReportInv, RightFile
    <2> DEFINE a == asked.image.addr
               here == Positions(images, a)
    <2>1. \A image \in BinaryImage : image.addr \in Nat
      BY DEF BinaryImage
    <2>2. images \in Seq(BinaryImage) /\ a \in DOMAIN Table(images)
      BY AskedImage DEF InputsInv
    <2>3. /\ Max(here) \in here /\ \A i \in here : i <= Max(here)
          /\ Table(images)[a] = images[Max(here)]
      BY <2>1, <2>2, LatestImage
    <2>4. images[Max(here)] = asked.image
      BY <2>3, AskedImage
    <2>5. a \in DOMAIN image_paths /\ asked.file = image_paths[a]
      BY DEF Question
    <2>6. /\ Max(FilesAt(a)) \in FilesAt(a)
          /\ \A i \in FilesAt(a) : i <= Max(FilesAt(a))
          /\ asked.file = files[images[Max(FilesAt(a))].uuid]
      BY <2>5, LatestFile
    <2>7. here \subseteq Nat /\ here \subseteq DOMAIN images /\ FilesAt(a) \subseteq here
      BY <2>2 DEF Positions, FilesAt, WithFile
    <2>8. Max(FilesAt(a)) = Max(here)
      <3>1. CASE Apart
        BY <2>3, <2>6, <2>7, <3>1 DEF Apart, Positions
      <3>2. CASE \A u \in DOMAIN files : files[u] # NoFile
        <4>1. images[Max(here)].arch \in DOMAIN NameOf
          BY <2>4 DEF Question
        <4>2. images[Max(here)].uuid \in DOMAIN files
          <5>1. images[Max(here)] \in BinaryImage
            BY <2>2, <2>3, <2>7
          <5>2. images[Max(here)].uuid \in Uuid
            BY <5>1 DEF BinaryImage
          <5>3. QED
            BY <5>2 DEF InputsInv
        <4>3. Max(here) \in FilesAt(a)
          BY <2>3, <2>7, <3>2, <4>1, <4>2 DEF FilesAt, WithFile, Positions
        <4>4. Max(FilesAt(a)) \in Nat /\ Max(here) \in Nat
          BY <2>3, <2>6, <2>7
        <4>5. Max(FilesAt(a)) <= Max(here) /\ Max(here) <= Max(FilesAt(a))
          BY <2>3, <2>6, <2>7, <4>3
        <4>6. QED
          BY <4>4, <4>5
      <3>3. QED
        BY <3>1, <3>2
    <2>9. QED
      BY <2>4, <2>6, <2>8
  <1>2. QED
    BY <1>1, ReportInvariant, PTL

--------------------------------------------------------------------------------
(* Instructions.                                                                 *)

(* What LLVM is asked, brought back into memory, is the instruction chosen by    *)
(* find_best_instruction(): slide and image address cancel out.                  *)
LEMMA LookedAtInstruction ==
    ASSUME InputsInv, Asked, Question(asked)
    PROVE  /\ frames[asked.frame] \in Nat
           /\ asked.cpu_name \in Cpu
           /\ meta # NoMeta =>
                 /\ meta.registers \in Registers /\ meta.signal \in Nat
                 /\ Looked = find_best_instruction(frames[asked.frame], asked.cpu_name,
                               [frame_number |-> asked.frame - 1,
                                registers |-> meta.registers, signal |-> meta.signal])
  <1> DEFINE addr == frames[asked.frame]
             cpu == asked.cpu_name
             m == [frame_number |-> asked.frame - 1,
                   registers |-> meta.registers, signal |-> meta.signal]
             place == slide(asked.image, asked.file, cpu)
  <1>1. addr \in Nat /\ asked.image \in BinaryImage
    BY AskedImage
  <1>2. cpu \in Cpu
    BY CpuNameAssumption DEF Question
  <1>3. asked.image.addr \in Nat /\ asked.image.vmaddr \in Nat
    BY <1>1 DEF BinaryImage
  <1>4. asked.file \in DebugFiles
    BY LatestFile DEF Question
  <1>5. place \in Nat
    BY <1>2, <1>3, <1>4, ReportAssumption DEF slide
  <1>6. find_best_instruction(addr, cpu, m) \in Int
    <2>1. Align(addr, cpu) \in Int /\ Width(cpu) \in Int
      BY <1>1, <1>2, AlignFacts
    <2>2. QED
      BY <1>1, <1>2, <2>1, BestInstruction
  <1>7. asked.addr = place + InstructionOf(asked.frame, cpu) - asked.image.addr
    BY DEF Question
  <1>8. meta # NoMeta => InstructionOf(asked.frame, cpu) = find_best_instruction(addr, cpu, m)
    BY DEF InstructionOf
  <1>9. meta # NoMeta => Looked = find_best_instruction(addr, cpu, m)
    <2> HIDE DEF m, place, addr
    <2>1. Looked = asked.addr - place + asked.image.addr
      BY DEF Looked, place
    <2>2. QED
      BY <1>3, <1>5, <1>6, <1>7, <1>8, <2>1
  <1>10. meta # NoMeta => meta.registers \in Registers /\ meta.signal \in Nat
    BY DEF InputsInv
  <1>11. QED
    BY <1>1, <1>2, <1>9, <1>10

(* Every frame behind the first is looked up at the end of the instruction       *)
(* before its return address (heuristics.py and symbolizer.py:81), wherever the  *)
(* image lies in memory and in its file.                                         *)
THEOREM LooksBehindCallers == Spec => []CallersBehind
  <1>1. ReportInv => CallersBehind
    <2> SUFFICES ASSUME InputsInv, Asked, Question(asked), meta # NoMeta, asked.frame > 1
                 PROVE  /\ Looked + 1 = Align(frames[asked.frame], asked.cpu_name)
                        /\ Looked < frames[asked.frame]
      BY DEF ReportInv, CallersBehind
    <2> DEFINE addr == frames[asked.frame]
               m == [frame_number |-> asked.frame - 1,
                     registers |-> meta.registers, signal |-> meta.signal]
    <2>1. /\ addr \in Nat /\ asked.cpu_name \in Cpu
          /\ meta.registers \in Registers /\ meta.signal \in Nat
          /\ Looked = find_best_instruction(addr, asked.cpu_name, m)
      BY LookedAtInstruction
    <2>2. asked.frame - 1 \in Int /\ asked.frame - 1 # 0
      BY DEF Question
    <2>3. m \in Meta /\ m.frame_number # 0
      BY <2>1, <2>2 DEF Meta
    <2> HIDE DEF m, addr
    <2>4. CallerLooksBehind(addr, asked.cpu_name, m)
      BY <2>1, <2>3, CallersLookBehind
    <2>5. QED
      BY <2>1, <2>3, <2>4 DEF CallerLooksBehind, addr
  <1>2. QED
    BY <1>1, ReportInvariant, PTL

(* The first frame is looked up inside its own instruction, or before it when    *)
(* the registers of the report disagree under a fault signal.                    *)
THEOREM LooksInsideCrash == Spec => []CrashInside
  <1>1. ReportInv => CrashInside
    <2> SUFFICES ASSUME InputsInv, Asked, Question(asked), meta # NoMeta, asked.frame = 1
                 PROVE  IF Displaced(frames[1], asked.cpu_name, meta) THEN Looked < frames[1]
                        ELSE Looked \in frames[1]..(frames[1] + Width(asked.cpu_name) - 1)
      BY DEF ReportInv, CrashInside
    <2> DEFINE m == [frame_number |-> asked.frame - 1,
                     registers |-> meta.registers, signal |-> meta.signal]
    <2>1. /\ frames[1] \in Nat /\ asked.cpu_name \in Cpu
          /\ meta.registers \in Registers /\ meta.signal \in Nat
          /\ Looked = find_best_instruction(frames[1], asked.cpu_name, m)
      BY LookedAtInstruction
    <2>2. m \in Meta /\ m.frame_number = 0
      BY <2>1 DEF Meta
    <2>3. Displaced(frames[1], asked.cpu_name, m) <=> Displaced(frames[1], asked.cpu_name, meta)
      BY DEF Displaced
    <2> HIDE DEF m
    <2>4. CrashLooksInside(frames[1], asked.cpu_name, m)
      BY <2>1, <2>2, CrashesLookInside
    <2>5. QED
      BY <2>1, <2>2, <2>3, <2>4 DEF CrashLooksInside
  <1>2. QED
    BY <1>1, ReportInvariant, PTL

--------------------------------------------------------------------------------
(* Places in a debug file.                                                       *)

(* What get_arch() finds is the first image that the file announces for the cpu, *)
(* or the whole file.                                                            *)
LEMMA ArchFound ==
    ASSUME NEW file, NEW cpu_name, get_arch(file, cpu_name).ok
    PROVE  LET image == get_arch(file, cpu_name).value
               arch == ArchOf[cpu_name]
           IN \/ /\ file.kind = "fat"
                 /\ \E at_ \in 1..Len(file.files) :
                      /\ image = file.files[at_].file /\ file.files[at_].arch = arch
                      /\ \A i \in 1..Len(file.files) : file.files[i].arch = arch => at_ <= i
              \/ file.kind = "mach" /\ file.arch = arch /\ image = file
  <1> DEFINE arch == ArchOf[cpu_name]
             announced == {i \in 1..Len(file.files) : file.files[i].arch = arch}
             first == IF announced # {} THEN Min(announced) ELSE 0
  <1>1. get_arch(file, cpu_name) =
          IF cpu_name \notin DOMAIN ArchOf THEN Err("NoSuchArch")
          ELSE IF file.kind = "fat" /\ first # 0
          THEN IF file.files[first].inside THEN Ok(file.files[first].file) ELSE Panic
          ELSE IF file.kind = "mach" /\ file.arch = arch THEN Ok(file)
          ELSE Err("NoSuchArch")
    BY DEF get_arch, SelectInSeq
  <1>2. announced \in SUBSET Nat
    OBVIOUS
  <1>3. announced # {} => Min(announced) \in announced /\ \A i \in announced : Min(announced) <= i
    BY <1>2, MinOfNat
  <1>4. first # 0 => /\ first \in 1..Len(file.files) /\ file.files[first].arch = arch
                     /\ \A i \in 1..Len(file.files) : file.files[i].arch = arch => first <= i
    BY <1>3
  <1> HIDE DEF first, announced, arch
  <1>5. \/ file.kind = "fat" /\ first # 0 /\ get_arch(file, cpu_name) = Ok(file.files[first].file)
        \/ file.kind = "mach" /\ file.arch = arch /\ get_arch(file, cpu_name) = Ok(file)
    BY <1>1 DEF Err, Panic
  <1>6. CASE file.kind = "fat" /\ first # 0 /\ get_arch(file, cpu_name) = Ok(file.files[first].file)
    BY <1>4, <1>6 DEF Ok, arch
  <1>7. CASE file.kind = "mach" /\ file.arch = arch /\ get_arch(file, cpu_name) = Ok(file)
    BY <1>7 DEF Ok, arch
  <1>8. QED
    BY <1>5, <1>6, <1>7

(* The two searches of a file, by its headers and by those of its images, find   *)
(* the same image when they agree.                                               *)
LEMMA SameImage ==
    ASSUME NEW file, NEW arch \in DOMAIN NameOf, Consistent(file),
           get_arch(file, NameOf[arch]).ok,
           get_arch(file, NameOf[arch]).value.kind = "mach"
    PROVE  get_variant(file, NameOf[arch]) = VariantOf(get_arch(file, NameOf[arch]).value)
  <1> DEFINE cpu_name == NameOf[arch]
             image == get_arch(file, cpu_name).value
             parts == IF file.kind = "fat" THEN [i \in 1..Len(file.files) |-> file.files[i].file]
                      ELSE <<file>>
             machs == {j \in DOMAIN parts : parts[j].kind = "mach"}
             named == {i \in machs : VariantOf(parts[i]).cpu_name = cpu_name}
  <1>1. get_variants(file) = [i \in machs |-> VariantOf(parts[i])]
    BY DEF get_variants
  <1>2. get_variant(file, cpu_name) = IF named = {} THEN Nothing ELSE VariantOf(parts[Min(named)])
    <2> DEFINE variants == [i \in machs |-> VariantOf(parts[i])]
               chosen == {i \in DOMAIN variants : variants[i].cpu_name = cpu_name}
    <2>1. get_variant(file, cpu_name) = IF chosen = {} THEN Nothing ELSE variants[Min(chosen)]
      BY <1>1 DEF get_variant
    <2>2. chosen = named
      OBVIOUS
    <2>3. named \in SUBSET Nat
      OBVIOUS
    <2>4. named # {} => Min(named) \in machs
      BY <2>3, MinOfNat
    <2> HIDE DEF chosen, named, machs, parts
    <2>5. named # {} => variants[Min(named)] = VariantOf(parts[Min(named)])
      BY <2>4
    <2>6. QED
      BY <2>1, <2>2, <2>5
  <1>3. ArchOf[cpu_name] = arch /\ cpu_name # Nothing
    BY ArchAssumption, CpuNameAssumption, NothingAssumption
  <1>4. machs \subseteq Nat
    OBVIOUS
  <1>5. \A i \in machs : VariantOf(parts[i]).cpu_name = cpu_name <=> parts[i].arch = arch
    <2>1. SUFFICES ASSUME NEW part
                   PROVE  VariantOf(part).cpu_name = cpu_name <=> part.arch = arch
      OBVIOUS
    <2>2. VariantOf(part).cpu_name = IF part.arch \in DOMAIN NameOf THEN NameOf[part.arch]
                                     ELSE Nothing
      BY DEF VariantOf
    <2>3. QED
      BY <1>3, <2>2, ArchAssumption
  <1>6. \E place \in named : image = parts[place] /\ \A i \in named : place <= i
    <2>1. CASE file.kind = "fat"
      <3>1. PICK place \in 1..Len(file.files) :
              /\ image = file.files[place].file /\ file.files[place].arch = arch
              /\ \A i \in 1..Len(file.files) : file.files[i].arch = arch => place <= i
        BY <1>3, <2>1, ArchFound
      <3>2. DOMAIN parts = 1..Len(file.files) /\ \A i \in DOMAIN parts : parts[i] = file.files[i].file
        BY <2>1
      <3> HIDE DEF parts
      <3>3. \A i \in machs : i \in 1..Len(file.files) /\ file.files[i].arch = parts[i].arch
        BY <2>1, <3>2 DEF Consistent
      <3> HIDE DEF image
      <3>4. place \in machs /\ image = parts[place]
        BY <3>1, <3>2 DEF image
      <3>5. place \in named
        BY <1>5, <3>1, <3>3, <3>4
      <3>6. \A i \in named : place <= i
        BY <1>5, <3>1, <3>3
      <3>7. QED
        BY <3>4, <3>5, <3>6
    <2>2. CASE file.kind = "mach"
      <3>1. image = file /\ file.arch = arch /\ parts = <<file>>
        BY <1>3, <2>2, ArchFound
      <3>2. machs = {1} /\ parts[1] = file
        BY <2>2, <3>1
      <3>3. named = {1}
        BY <1>5, <3>1, <3>2
      <3>4. image = parts[1]
        BY <3>1
      <3> HIDE DEF named, image, parts
      <3>5. QED
        BY <3>3, <3>4
    <2>3. QED
      BY <2>1, <2>2, ArchFound
  <1>7. Min(named) \in named /\ \A i \in named : Min(named) <= i
    <2>1. named \in SUBSET Nat
      BY <1>4
    <2> HIDE DEF named
    <2>3. named # {}
      BY <1>6
    <2>2. QED
      BY <2>1, <2>3, MinOfNat
  <1>8. image = parts[Min(named)]
    <2>1. named \subseteq Nat
      BY <1>4
    <2>2. PICK place \in named : image = parts[place] /\ \A i \in named : place <= i
      BY <1>6
    <2> HIDE DEF named, image, parts
    <2>3. place \in Nat /\ Min(named) \in Nat /\ place <= Min(named) /\ Min(named) <= place
      BY <1>7, <2>1, <2>2
    <2>4. place = Min(named)
      BY <2>3
    <2>5. QED
      BY <2>2, <2>4
  <1>9. QED
    BY <1>2, <1>7, <1>8

(* An instruction that is looked up lies between the start and the end of what   *)
(* its frame lies in, if that begins one instruction before the frame and ends   *)
(* between two.                                                                  *)
LEMMA InstructionWithin ==
    ASSUME InputsInv, Asked, Question(asked), NEW start \in Nat, NEW end \in Nat,
           frames[asked.frame] \in (start + Width(asked.cpu_name))..(end - 1),
           end % Width(asked.cpu_name) = 0
    PROVE  InstructionOf(asked.frame, asked.cpu_name) \in start..(end - 1)
  <1> DEFINE addr == frames[asked.frame]
             cpu == asked.cpu_name
             m == [frame_number |-> asked.frame - 1,
                   registers |-> meta.registers, signal |-> meta.signal]
  <1>1. addr \in Nat /\ cpu \in Cpu
    BY LookedAtInstruction
  <1>2. /\ Width(cpu) \in {1, 2, 4} /\ Align(addr, cpu) \in Int
        /\ Align(addr, cpu) <= addr /\ addr < Align(addr, cpu) + Width(cpu)
        /\ Align(addr, cpu) % Width(cpu) = 0
    BY <1>1, AlignFacts
  <1>3. addr \in (start + Width(cpu))..(end - 1) /\ end % Width(cpu) = 0
    OBVIOUS
  <1>4. \/ InstructionOf(asked.frame, cpu) = addr
        \/ InstructionOf(asked.frame, cpu) = Align(addr, cpu) - 1
        \/ InstructionOf(asked.frame, cpu) = Align(addr, cpu) + Width(cpu) - 1
    <2>1. InstructionOf(asked.frame, cpu) = addr
          \/ InstructionOf(asked.frame, cpu) = find_best_instruction(addr, cpu, m)
      BY DEF InstructionOf
    <2> HIDE DEF addr, cpu, m
    <2>2. QED
      BY <1>1, <2>1, BestInstruction
  <1>5. PICK a \in Int, b \in Int, width \in {1, 2, 4} :
           a = addr /\ b = Align(addr, cpu) /\ width = Width(cpu)
    BY <1>1, <1>2
  <1>6. \/ InstructionOf(asked.frame, cpu) = a
        \/ InstructionOf(asked.frame, cpu) = b - 1
        \/ InstructionOf(asked.frame, cpu) = b + width - 1
    BY <1>4, <1>5
  <1>7. /\ b <= a /\ a < b + width /\ b % width = 0
        /\ a \in (start + width)..(end - 1) /\ end % width = 0
    BY <1>2, <1>3, <1>5
  <1> HIDE DEF addr, cpu
  <1>8. b + width <= end
    BY <1>7
  <1>9. QED
    BY <1>6, <1>7, <1>8 DEF cpu

(* Wherever an image was loaded and wherever it lies in its file, a frame inside *)
(* it is looked up inside it: the variant that gives the slide is the image that *)
(* LLVM searches, and neither the slide nor the choice of the instruction leads  *)
(* out of it (get_arch(), get_variants(), symbolizer.py).                        *)
THEOREM LooksInsideImage == Spec => []InsideImage
  <1>1. ReportInv => InsideImage
    <2> DEFINE found == get_arch(asked.file, asked.cpu_name)
               text == VariantOf(found.value)
               start == asked.image.addr
               end == start + text.vmsize
               place == InstructionOf(asked.frame, asked.cpu_name)
    <2> SUFFICES ASSUME InputsInv, Asked, Question(asked), asked.image.vmaddr = 0,
                        Consistent(asked.file), found.ok, found.value.kind = "mach",
                        frames[asked.frame] - start
                          \in Width(asked.cpu_name)..(text.vmsize - 1),
                        end % Width(asked.cpu_name) = 0
                 PROVE  asked.addr \in text.vmaddr..(text.vmaddr + text.vmsize - 1)
      BY DEF ReportInv, InsideImage
    <2>1. /\ asked.cpu_name = NameOf[asked.image.arch] /\ asked.image.arch \in DOMAIN NameOf
          /\ asked.file \in DebugFiles /\ asked.cpu_name \in Cpu
      BY CpuNameAssumption, LatestFile DEF Question
    <2>2. text # Nothing /\ text.vmaddr \in Nat /\ text.vmsize \in Nat
      BY <2>1, ReportAssumption
    <2>3. get_variant(asked.file, asked.cpu_name) = text
      BY <2>1, SameImage
    <2>4. slide(asked.image, asked.file, asked.cpu_name) = text.vmaddr
      BY <2>2, <2>3 DEF slide
    <2>5. frames[asked.frame] \in Nat /\ start \in Nat
      BY AskedImage DEF BinaryImage
    <2>6. Width(asked.cpu_name) \in Nat
      BY DEF Width
    <2>7. asked.addr = text.vmaddr + place - start
      BY <2>4 DEF Question
    <2> HIDE DEF text, found
    <2>8. /\ frames[asked.frame] \in (start + Width(asked.cpu_name))..(end - 1)
          /\ end \in Nat
      BY <2>2, <2>5, <2>6
    <2>9. place \in start..(end - 1)
      BY <2>5, <2>8, InstructionWithin
    <2> HIDE DEF place, start
    <2>10. QED
      BY <2>2, <2>5, <2>7, <2>9
  <1>2. QED
    BY <1>1, ReportInvariant, PTL

--------------------------------------------------------------------------------
(* Compilation directories.                                                      *)

(* get_section() finds a section of the name that lies in the file; without one  *)
(* it says so, and a section outside the file is a panic.                        *)
LEMMA SectionFound ==
    ASSUME NEW sections, NEW name
    PROVE  LET result == SectionIn(sections, "__DWARF", name)
               places == Places(sections, name)
           IN /\ \/ \E i \in places : sections[i].inside /\ result = Ok(sections[i].content)
                 \/ result = Err("NoSuchSection") \/ result = Panic
              /\ places # {} /\ (\A i \in places : sections[i].inside) =>
                    \E i \in places : result = Ok(sections[i].content)
  <1> DEFINE result == SectionIn(sections, "__DWARF", name)
             places == Places(sections, name)
             first == IF places # {} THEN Min(places) ELSE 0
  <1>1. places \in SUBSET Nat /\ 0 \notin places
    BY DEF Places
  <1>2. result = IF first = 0 THEN Err("NoSuchSection")
                 ELSE IF sections[first].inside THEN Ok(sections[first].content) ELSE Panic
    BY DEF SectionIn, SelectInSeq, Places
  <1>3. places # {} => first \in places /\ first # 0
    BY <1>1, MinOfNat
  <1> HIDE DEF places, first, result
  <1>4. QED
    BY <1>2, <1>3 DEF places, result, first

(* The search of the entries ends at the unit of the file, unless there is none  *)
(* or an entry before it cannot be read.                                         *)
LEMMA DirectoryFound ==
    ASSUME NEW entries, NEW filename
    PROVE  LET result == DirectoryIn(entries, filename)
               units == {i \in 1..Len(entries) : Compiles(entries[i], filename)}
           IN /\ \/ \E i \in units : result = Ok(entries[i].comp_dir)
                 \/ result = Err("NoSuchAttribute") \/ result = Err("Dwarf")
              /\ (\A i \in 1..Len(entries) : entries[i].tag # "unreadable") =>
                    IF units = {} THEN result = Err("NoSuchAttribute")
                    ELSE \E i \in units : result = Ok(entries[i].comp_dir)
  <1> DEFINE result == DirectoryIn(entries, filename)
             units == {i \in 1..Len(entries) : Compiles(entries[i], filename)}
             ends == {i \in 1..Len(entries) :
                        entries[i].tag = "unreadable" \/ Compiles(entries[i], filename)}
             first == IF ends # {} THEN Min(ends) ELSE 0
  <1>1. ends \in SUBSET Nat /\ 0 \notin ends
    OBVIOUS
  <1>2. result = IF first = 0 THEN Err("NoSuchAttribute")
                 ELSE IF entries[first].tag = "unreadable" THEN Err("Dwarf")
                 ELSE Ok(entries[first].comp_dir)
    BY DEF DirectoryIn, SelectInSeq
  <1>3. ends # {} => first \in ends /\ first # 0
    <2> HIDE DEF ends
    <2>1. QED
      BY <1>1, MinOfNat
  <1>4. units \subseteq ends /\ \A i \in ends \ units : entries[i].tag = "unreadable"
    OBVIOUS
  <1>5. (\A i \in 1..Len(entries) : entries[i].tag # "unreadable") =>
           \A i \in ends : entries[i].tag # "unreadable"
    OBVIOUS
  <1>6. ends = {} => first = 0
    OBVIOUS
  <1> HIDE DEF units, ends, first, result
  <1>7. \/ \E i \in units : result = Ok(entries[i].comp_dir)
        \/ result = Err("NoSuchAttribute") \/ result = Err("Dwarf")
    BY <1>2, <1>3, <1>4, <1>6
  <1>8. ASSUME \A i \in 1..Len(entries) : entries[i].tag # "unreadable"
        PROVE  IF units = {} THEN result = Err("NoSuchAttribute")
               ELSE \E i \in units : result = Ok(entries[i].comp_dir)
    BY <1>2, <1>3, <1>4, <1>5, <1>6, <1>8
  <1>9. QED
    BY <1>7, <1>8 DEF units, result

(* Errors that mean "not there" become None, the others an exception.            *)
LEMMA Rustcalls ==
    /\ \A value : /\ ~rustcall(Ok(value)).raised /\ rustcall(Ok(value)).value = value
                  /\ Ok(value) # Panic /\ Ok(value) # Err("Dwarf")
    /\ \A error \in {"NoSuchArch", "NoSuchSection", "NoSuchAttribute"} :
          /\ ~rustcall(Err(error)).raised /\ rustcall(Err(error)).value = Nothing
          /\ Err(error) # Panic /\ Err(error) # Err("Dwarf")
    /\ rustcall(Panic).raised /\ rustcall(Err("Dwarf")).raised
  BY DEF rustcall, Ok, Err, Panic, Raised, Returned, IsLookupError, get_error_code, special_errors

(* Units that are looked at are units of the sections.                           *)
LEMMA UnitOfSection ==
    ASSUME NEW sections, NEW i \in Places(sections, "__debug_info"),
           NEW j \in 1..Len(sections[i].content)
    PROVE  sections[i].content[j] \in Units(sections)
  BY DEF Units

(* The answer for an image that is there, from its sections.                     *)
LEMMA AnswerInSections ==
    ASSUME NEW sections, NEW source, NEW result,
           \A unit \in Units(sections) : unit.comp_dir # Nothing,
           result = SearchedIn(SectionIn(sections, "__DWARF", "__debug_info"),
                               SectionIn(sections, "__DWARF", "__debug_abbrev"),
                               SectionIn(sections, "__DWARF", "__debug_str"), source)
    PROVE  LET Naming == {unit \in Units(sections) : Compiles(unit, source)}
           IN /\ \/ \E unit \in Naming : result = Ok(unit.comp_dir)
                 \/ result \in {Err("NoSuchSection"), Err("NoSuchAttribute"), Err("Dwarf"), Panic}
              /\ Sound(sections) =>
                    IF Naming = {} THEN result = Err("NoSuchAttribute")
                    ELSE \E unit \in Naming : result = Ok(unit.comp_dir)
  <1> DEFINE info == SectionIn(sections, "__DWARF", "__debug_info")
             abbrev == SectionIn(sections, "__DWARF", "__debug_abbrev")
             str == SectionIn(sections, "__DWARF", "__debug_str")
             Naming == {unit \in Units(sections) : Compiles(unit, source)}
             places == Places(sections, "__debug_info")
             UnitsAt(i) == {j \in 1..Len(sections[i].content) :
                              Compiles(sections[i].content[j], source)}
  <1>1. \A i \in places :
           \A j \in 1..Len(sections[i].content) : sections[i].content[j] \in Units(sections)
    BY UnitOfSection
  <1>2. \A i \in places : \A j \in UnitsAt(i) : sections[i].content[j] \in Naming
    BY <1>1
  <1>3. result = IF ~info.ok THEN info ELSE IF ~abbrev.ok THEN abbrev ELSE IF ~str.ok THEN str
                 ELSE DirectoryIn(info.value, source)
    BY DEF SearchedIn
  <1>4. \/ result = Err("NoSuchSection") \/ result = Panic
        \/ \E i \in places : info = Ok(sections[i].content) /\ result = DirectoryIn(info.value, source)
    <2>1. \/ \E i \in places : info = Ok(sections[i].content)
          \/ info = Err("NoSuchSection") \/ info = Panic
      BY SectionFound
    <2>2. abbrev.ok = TRUE \/ abbrev = Err("NoSuchSection") \/ abbrev = Panic
      BY SectionFound DEF Ok
    <2>3. str.ok = TRUE \/ str = Err("NoSuchSection") \/ str = Panic
      BY SectionFound DEF Ok
    <2>4. Err("NoSuchSection").ok = FALSE /\ Panic.ok = FALSE
      BY DEF Err, Panic
    <2> HIDE DEF info, abbrev, str, places
    <2>5. QED
      BY <1>3, <2>1, <2>2, <2>3, <2>4 DEF Ok
  <1>5. ASSUME NEW i \in places, info = Ok(sections[i].content),
               result = DirectoryIn(info.value, source)
        PROVE  \/ \E j \in UnitsAt(i) : result = Ok(sections[i].content[j].comp_dir)
               \/ result = Err("NoSuchAttribute") \/ result = Err("Dwarf")
    <2>1. result = DirectoryIn(sections[i].content, source)
      BY <1>5 DEF Ok
    <2>2. QED
      BY <2>1, DirectoryFound
  <1>6. ASSUME Sound(sections)
        PROVE  IF Naming = {} THEN result = Err("NoSuchAttribute")
               ELSE \E unit \in Naming : result = Ok(unit.comp_dir)
    <2>1. PICK i \in places : info = Ok(sections[i].content)
      BY <1>6, SectionFound DEF Sound
    <2>2. abbrev.ok = TRUE /\ str.ok = TRUE
      BY <1>6, SectionFound DEF Sound, Ok
    <2>3. result = DirectoryIn(sections[i].content, source)
      BY <1>3, <2>1, <2>2 DEF Ok
    <2>4. \A j \in 1..Len(sections[i].content) : sections[i].content[j].tag # "unreadable"
      BY <1>1, <1>6 DEF Sound
    <2>5. IF UnitsAt(i) = {} THEN result = Err("NoSuchAttribute")
          ELSE \E j \in UnitsAt(i) : result = Ok(sections[i].content[j].comp_dir)
      BY <2>3, <2>4, DirectoryFound
    <2>6. \A unit \in Naming : \E j \in UnitsAt(i) : unit = sections[i].content[j]
      <3>1. \A i2 \in places : i2 = i
        BY <1>6 DEF Sound
      <3>2. SUFFICES ASSUME NEW unit \in Naming
                     PROVE  \E j \in UnitsAt(i) : unit = sections[i].content[j]
        OBVIOUS
      <3>3. PICK i2 \in places : unit \in {sections[i2].content[j] : j \in 1..Len(sections[i2].content)}
        BY DEF Units
      <3>4. PICK j \in 1..Len(sections[i].content) : unit = sections[i].content[j]
        BY <3>1, <3>3
      <3>5. QED
        BY <3>4
    <2> HIDE DEF Naming, UnitsAt, places, info
    <2>7. QED
      BY <1>2, <2>5, <2>6
  <1>7. \/ \E unit \in Naming : result = Ok(unit.comp_dir)
        \/ result \in {Err("NoSuchSection"), Err("NoSuchAttribute"), Err("Dwarf"), Panic}
    <2> HIDE DEF Naming, UnitsAt, places, info
    <2>1. QED
      BY <1>2, <1>4, <1>5
  <1>8. QED
    BY <1>6, <1>7

(* What Python answers for a source file, in any debug file.                     *)
LEMMA AnswerRight ==
    ASSUME NEW file \in DebugFiles, NEW cpu_name \in Cpu, NEW source
    PROVE  Right(get_compilation_dir(file, cpu_name, source),
                 get_compilation_dir_cstr(file, cpu_name, source),
                 get_arch(file, cpu_name), source)
  <1> DEFINE found == get_arch(file, cpu_name)
             sections == Sections(found.value)
             Naming == {unit \in Units(sections) : Compiles(unit, source)}
             result == get_compilation_dir_cstr(file, cpu_name, source)
             answer == get_compilation_dir(file, cpu_name, source)
             Section(name) == IF found.ok THEN SectionIn(sections, "__DWARF", name) ELSE found
  <1>1. answer = rustcall(result)
    BY DEF get_compilation_dir
  <1>2. result = SearchedIn(Section("__debug_info"), Section("__debug_abbrev"),
                            Section("__debug_str"), source)
    BY DEF get_compilation_dir_cstr, get_section
  <1>3. SUFFICES /\ ~answer.raised /\ answer.value # Nothing =>
                       found.ok /\ \E unit \in Naming : unit.comp_dir = answer.value
                 /\ found.ok /\ Sound(sections) =>
                       ~answer.raised /\ (answer.value = Nothing <=> Naming = {})
                 /\ answer.raised <=> result \in {Panic, Err("Dwarf")}
    BY DEF Right
  <1>4. CASE ~found.ok
    <2>1. found = Err("NoSuchArch") \/ found = Panic
      BY <1>4 DEF get_arch, Ok
    <2>2. result = found
      BY <1>2, <1>4 DEF SearchedIn
    <2> HIDE DEF found, result, answer, Naming, sections
    <2>3. QED
      BY <1>1, <1>4, <2>1, <2>2, Rustcalls
  <1>5. CASE found.ok
    <2>1. result = SearchedIn(SectionIn(sections, "__DWARF", "__debug_info"),
                              SectionIn(sections, "__DWARF", "__debug_abbrev"),
                              SectionIn(sections, "__DWARF", "__debug_str"), source)
      BY <1>2, <1>5
    <2>2. \A unit \in Units(sections) : unit.comp_dir # Nothing
      BY <1>5, DirectoryAssumption
    <2> HIDE DEF sections, result
    <2>3. /\ \/ \E unit \in Naming : result = Ok(unit.comp_dir)
             \/ result \in {Err("NoSuchSection"), Err("NoSuchAttribute"), Err("Dwarf"), Panic}
          /\ Sound(sections) =>
                IF Naming = {} THEN result = Err("NoSuchAttribute")
                ELSE \E unit \in Naming : result = Ok(unit.comp_dir)
      BY <2>1, <2>2, AnswerInSections
    <2>4. \A unit \in Naming : unit.comp_dir # Nothing
      BY <2>2
    <2> HIDE DEF found, answer, Naming
    <2>5. CASE \E unit \in Naming : result = Ok(unit.comp_dir)
      <3>1. PICK unit \in Naming : result = Ok(unit.comp_dir)
        BY <2>5
      <3>2. ~answer.raised /\ answer.value = unit.comp_dir /\ unit.comp_dir # Nothing
        BY <1>1, <2>4, <3>1, Rustcalls
      <3>3. result # Panic /\ result # Err("Dwarf")
        BY <3>1, Rustcalls
      <3>4. QED
        BY <1>5, <3>1, <3>2, <3>3
    <2>6. CASE result \in {Err("NoSuchSection"), Err("NoSuchAttribute"), Err("Dwarf"), Panic}
      <3>1. \A value : result # Ok(value)
        BY <2>6 DEF Ok, Err, Panic
      <3>2. Sound(sections) => Naming = {} /\ result = Err("NoSuchAttribute")
        BY <2>3, <3>1
      <3>3. QED
        BY <1>1, <1>5, <2>6, <3>2, Rustcalls
    <2>7. QED
      BY <2>3, <2>5, <2>6
  <1>6. QED
    BY <1>4, <1>5

(* For any debug file, whatever its commands, sections and entries, the          *)
(* directory is that of a unit of the cpu that compiles the file, and "not       *)
(* there" is never taken for a failure nor a failure for "not there" (read.rs,   *)
(* cabi.rs, rustcall() of libdebug.py).                                          *)
THEOREM DirectoryOfUnit == Spec => []DirectoryRight
  <1>1. ReportInv => DirectoryRight
    <2> SUFFICES ASSUME InputsInv, Asked, Question(asked) PROVE DirectoryRight
      BY DEF ReportInv, DirectoryRight
    <2>1. asked.file \in DebugFiles /\ asked.cpu_name \in Cpu
      BY CpuNameAssumption, LatestFile DEF Question
    <2>2. QED
      BY <2>1, AnswerRight DEF DirectoryRight
  <1>2. QED
    BY <1>1, ReportInvariant, PTL

================================================================================
