----------------------------- MODULE Heuristics -----------------------------
(***************************************************************************)
(* Which address of a frame is looked up (symsynd/heuristics.py).          *)
(* Addresses are what parse_addr() returns, registers a function from the  *)
(* names present to addresses, and a frame without meta information is one *)
(* whose frame number is not known.                                        *)
(***************************************************************************)
EXTENDS Integers

CONSTANTS
  Cpu,      \* cpu names
  Arm,      \* those that start with "arm"
  Arm64,    \* those that start with "arm64"
  NoAddr    \* None in place of an address

ASSUME HeuristicsAssumption ==
  Arm64 \subseteq Arm /\ Arm \subseteq Cpu /\ "x86_64" \in Cpu \ Arm /\ NoAddr \notin Int

SIGILL == 4
SIGBUS == 10
SIGSEGV == 11

(* The unit that "& -4" and "& -2" round down to.                          *)
Width(cpu) == IF cpu \in Arm64 THEN 4 ELSE IF cpu \in Arm THEN 2 ELSE 1
Align(addr, cpu) == addr - (addr % Width(cpu))

get_previous_instruction(addr, cpu) == Align(addr, cpu) - Width(cpu)

get_next_instruction(addr, cpu) == Align(addr, cpu) + Width(cpu)

get_ip_register(registers, cpu) ==
  IF cpu \in Arm /\ "pc" \in DOMAIN registers THEN registers["pc"]
  ELSE IF cpu = "x86_64" /\ "rip" \in DOMAIN registers THEN registers["rip"]
  ELSE NoAddr

round_to_instruction_end(addr, cpu) == Align(addr, cpu) + Width(cpu) - 1

(* The crashing frame is taken as it is unless the program counter and the *)
(* signal say that the address is not where the program crashed.           *)
Displaced(addr, cpu, meta) ==
  LET ip == get_ip_register(meta.registers, cpu)
  IN ip # NoAddr /\ ip # addr /\ meta.signal \in {SIGILL, SIGBUS, SIGSEGV}

(* Mutant: only the frame number counts.                                   *)
best_instruction_by_frame(addr, cpu, meta) ==
  round_to_instruction_end(
    IF meta.frame_number # 0 THEN get_previous_instruction(addr, cpu) ELSE addr, cpu)

(* Mutant: frames above the crashing one are taken as they are.            *)
best_instruction_of_callers(addr, cpu, meta) ==
  round_to_instruction_end(
    IF meta.frame_number = 0 THEN get_previous_instruction(addr, cpu) ELSE addr, cpu)

find_best_instruction(addr, cpu, meta) ==
  round_to_instruction_end(
    IF meta.frame_number # 0 \/ Displaced(addr, cpu, meta)
    THEN get_previous_instruction(addr, cpu) ELSE addr,
    cpu)

-----------------------------------------------------------------------------
(* The frames a report can contain.                                        *)
Registers == UNION {[S -> Nat] : S \in SUBSET {"pc", "rip"}}
Meta == [frame_number : Int, registers : Registers, signal : Nat]

(* A caller's frame holds a return address: what is looked up lies before  *)
(* it, in the instruction that ends where the return address's begins, so  *)
(* that the line of the call is found and not the line after it.           *)
CallerLooksBehind(addr, cpu, meta) ==
  meta.frame_number # 0 =>
    LET best == find_best_instruction(addr, cpu, meta)
    IN best < addr /\ best + 1 = Align(addr, cpu)

(* The crashing frame is looked up inside its own instruction, or in the   *)
(* one before when the registers disagree under a fault signal.            *)
CrashLooksInside(addr, cpu, meta) ==
  meta.frame_number = 0 =>
    LET best == find_best_instruction(addr, cpu, meta)
    IN IF Displaced(addr, cpu, meta) THEN best < addr ELSE best \in addr..(addr + Width(cpu) - 1)

(* The address handed to C as unsigned is not negative unless the frame's  *)
(* address is below the first full instruction of the address space.       *)
LooksAtAddress(addr, cpu, meta) ==
  addr >= Width(cpu) => find_best_instruction(addr, cpu, meta) >= 0

(* Going to the next instruction and back returns to where one was, and so *)
(* does the other way round, whatever offset inside the instruction.       *)
NeighboursInverse(addr, cpu) ==
  /\ get_previous_instruction(get_next_instruction(addr, cpu), cpu) = Align(addr, cpu)
  /\ get_next_instruction(get_previous_instruction(addr, cpu), cpu) = Align(addr, cpu)
  /\ get_next_instruction(addr, cpu) = round_to_instruction_end(addr, cpu) + 1

=============================================================================
