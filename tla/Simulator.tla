----------------------------- MODULE Simulator ------------------------------
(***************************************************************************)
(* The simulator of A5/src: main.c puts the arguments of the simulated     *)
(* program into Memory, read_exec.c loads a listing line by line into      *)
(* Memory and the AssemblyTable, and simulate.c runs it, one instruction   *)
(* at a time.                                                              *)
(*                                                                         *)
(* Two abstractions.  Registers and memory have Width bits instead of 32,  *)
(* while instructions and pc keep their 32 bits and instructions are       *)
(* decoded as the code does; the words of the instruction lines are        *)
(* therefore kept beside the memory (`code`), and a program neither reads  *)
(* nor writes its own code.  A line is what the sscanf patterns see in it: *)
(* its kind, numbers and words; a hexadecimal digit has Width/8 bits, and  *)
(* -1 is any other character.                                              *)
(***************************************************************************)
EXTENDS Sequences, SequencesExt, Memory, AssemblyTable

CONSTANTS
  UpperBits,  \* bits below the immediate of LUI and AUIPC: 12
  ArgBase,    \* where the arguments are put: 0x1000000
  Commands,   \* a listing with the strings from "--" on, if any: how sim is called
  Chars       \* what getchar may return

VARIABLES
  listing,  \* the file
  args,     \* the arguments from "--" on
  phase,    \* "args", "load", "run" or "end"
  mem, table, code,
  lineNo,   \* lines read
  startAddr,
  regs, pc,
  output,   \* what putchar has printed
  exit      \* how the simulator ended

machine == <<regs, pc, output, exit>>
loaded  == <<listing, args, table, code, lineNo, startAddr>>
vars    == <<listing, args, phase, mem, table, code, lineNo, startAddr, machine>>

NoAddr == -1

Init ==
  /\ \E command \in Commands : listing = command.listing /\ args = command.args
  /\ phase = "args"
  /\ mem = memory_create
  /\ table = assembly_create
  /\ code = [q \in {} |-> 0]
  /\ lineNo = 0
  /\ startAddr = NoAddr
  /\ regs = [r \in 0..31 |-> 0]
  /\ pc = 0
  /\ output = << >>
  /\ exit = ""

-----------------------------------------------------------------------------
(* main.c: the arguments.                                                  *)

\* Bytes that are written one by one, from addr on.
WriteBytes(m, addr, bytes) ==
  LET written[k \in 0..Len(bytes)] ==
        IF k = 0 THEN m ELSE memory_wr_b(written[k - 1], addr + k - 1, bytes[k])
  IN  written[Len(bytes)]

\* mutant: the strings start where the last pointer should be
StringsStart_TooEarly == ArgBase + 4 * Len(args)

StringsStart == ArgBase + 4 + 4 * Len(args)

\* Where the k-th string starts; each has its terminating zero.
StringAt[k \in 1..Len(args)] == IF k = 1 THEN StringsStart ELSE StringAt[k - 1] + Len(args[k - 1]) + 1

\* The memory after k of the arguments: the pointer to each, and its characters.
Passed[k \in 0..Len(args)] ==
  IF k = 0
  THEN memory_wr_w(mem, ArgBase, Len(args))
  ELSE LET pointed == memory_wr_w(Passed[k - 1], ArgBase + 4 * k, StringAt[k])
       IN  WriteBytes(pointed, StringAt[k], Append(args[k], 0))

pass_args_to_program ==
  /\ phase = "args"
  /\ phase' = "load"
  /\ mem' = IF args = << >> THEN mem ELSE Passed[Len(args)]
  /\ UNCHANGED <<loaded, machine>>

-----------------------------------------------------------------------------
(* read_exec.c: one line of the listing.                                   *)

line == listing[lineNo + 1]

is_hex(c)     == c >= 0
to_hex2(c, d) == c * 2^(Width \div 8) + d

\* The bytes that count_hexes finds: it counts the hexadecimal digits of the
\* words, of each the first eight characters, up to the first other character or
\* the end of a shorter word.
CountedDigits(words) ==
  LET digits(w) == Min({j \in 1..9 : j > 8 \/ j > Len(w) \/ ~is_hex(w[j])}) - 1
      full      == {k \in 1..Len(words) : \A j \in 1..k : digits(words[j]) = 8}
      whole     == Cardinality(full)
  IN  8 * whole + IF whole < Len(words) THEN digits(words[whole + 1]) ELSE 0

count_hexes(words) == CountedDigits(words) \div 2

HexByte(words, i) ==
  LET word == words[i \div 4 + 1]
      disp == (i % 4) * 2 + 1
  IN  to_hex2(word[disp], word[disp + 1])

NextLine == lineNo' = lineNo + 1

\* The words of the line, with the first four that sscanf splits off: the column
\* of characters behind the bytes may be among them.
DataLine ==
  /\ line.kind = "data" /\ count_hexes(line.words) > 0
  /\ mem' = WriteBytes(mem, line.addr, [k \in 1..count_hexes(line.words) |-> HexByte(line.words, k - 1)])
  /\ UNCHANGED <<table, code, startAddr>>

InsnLine ==
  /\ line.kind = "insn"
  /\ code' = [q \in DOMAIN code \cup {line.addr} |-> IF q = line.addr THEN line.word ELSE code[q]]
  /\ table' = IF line.text = "" THEN table ELSE assembly_set(table, line.addr, line.text)
  /\ UNCHANGED <<mem, startAddr>>

StartLine ==
  /\ line.kind = "start"
  /\ startAddr' = line.addr
  /\ UNCHANGED <<mem, table, code>>

OtherLine ==
  /\ line.kind = "other" \/ (line.kind = "data" /\ count_hexes(line.words) = 0)
  /\ UNCHANGED <<mem, table, code, startAddr>>

ReadLine ==
  /\ phase = "load" /\ lineNo < Len(listing)
  /\ DataLine \/ InsnLine \/ StartLine \/ OtherLine
  /\ NextLine
  /\ UNCHANGED <<listing, args, phase, machine>>

\* The file has been read: it starts at _start, or the simulator gives up.
Start ==
  /\ phase = "load" /\ lineNo = Len(listing)
  /\ IF startAddr = NoAddr
     THEN phase' = "end" /\ exit' = "no start" /\ UNCHANGED pc
     ELSE phase' = "run" /\ pc' = startAddr /\ UNCHANGED exit
  /\ UNCHANGED <<loaded, mem, regs, output>>

-----------------------------------------------------------------------------
(* simulate.c: the fields of the instruction at pc.                        *)

ins == code[pc]

\* (ins >> lo) & (2^n - 1)
Field(lo, n) == (ins \div 2^lo) % 2^n
Bit31        == IF ins < 0 THEN 1 ELSE 0

SignExtend(v, n) == IF v >= 2^(n - 1) THEN v - 2^n ELSE v

opcode == Field(0, 7)
funct3 == Field(12, 3)
funct7 == Field(25, 7)
rd     == Field(7, 5)
rs1    == Field(15, 5)
rs2    == Field(20, 5)

ImmI == SignExtend(Field(20, 12), 12)
ImmS == SignExtend(Field(25, 7) * 32 + Field(7, 5), 12)

ImmB == SignExtend(Field(8, 4) * 2 + Field(25, 6) * 32 + Field(7, 1) * 2^11 + Bit31 * 2^12, 13)
ImmJ == SignExtend(Field(21, 10) * 2 + Field(20, 1) * 2^11 + Field(12, 8) * 2^12 + Bit31 * 2^20, 21)
ImmU == (ins \div 2^12) * 2^UpperBits

\* The codes of simulate.h.
Opcodes  == [LUI |-> 55, AUIPC |-> 23, JAL |-> 111, JALR |-> 103, ECALL |-> 115, BRANCH |-> 99,
             LOAD |-> 3, STORE |-> 35, OP_IMM |-> 19, OP |-> 51]
Branches == [BEQ |-> 0, BNE |-> 1, BLT |-> 4, BGE |-> 5, BLTU |-> 6, BGEU |-> 7]
Loads    == [LB |-> 0, LH |-> 1, LW |-> 2, LBU |-> 4, LHU |-> 5]
Stores   == [SB |-> 0, SH |-> 1, SW |-> 2]
OpImms   == [ADD |-> 0, SLL |-> 1, SLT |-> 2, SLTIU |-> 3, XOR |-> 4, SRI |-> 5, OR |-> 6, AND |-> 7]
Ops      == [ADUB |-> 0, SLL |-> 1, SLT |-> 2, SLTU |-> 3, XOR |-> 4, SR |-> 5, OR |-> 6, AND |-> 7]
Ms       == [MUL |-> 0, MULH |-> 1, MULHSU |-> 2, MULHU |-> 3, DIV |-> 4, DIVU |-> 5, REM |-> 6, REMU |-> 7]

\* The case of a switch over a table of codes.
Case(codes, n) == IF \E name \in DOMAIN codes : codes[name] = n
                  THEN CHOOSE name \in DOMAIN codes : codes[name] = n
                  ELSE "default"

\* mutant: the arithmetic shift to the right is taken for the logical one
ShiftRight_Logical(f7) == IF f7 \in {0, 32} THEN "SRL" ELSE "default"

ShiftRight(f7) == IF f7 = 0 THEN "SRL" ELSE IF f7 = 32 THEN "SRA" ELSE "default"

\* The operation that the nested switches of OP and OP_IMM come to.
OpCase ==
  LET name == Case(Ops, funct3)
  IN  IF funct7 = 1 THEN Case(Ms, funct3)
      ELSE CASE name = "ADUB" -> IF funct7 = 0 THEN "ADD" ELSE IF funct7 = 32 THEN "SUB" ELSE "default"
             [] name = "SR"   -> ShiftRight(funct7)
             [] OTHER         -> name
OpImmCase == LET name == Case(OpImms, funct3) IN IF name = "SRI" THEN ShiftRight(funct7) ELSE name

-----------------------------------------------------------------------------
(* simulate.c: what an instruction does.                                   *)

\* The registers once register 0 has been reset, and the operands.
cleared == [regs EXCEPT ![0] = 0]
op1 == cleared[rs1]
op2 == cleared[rs2]

Flag(condition) == IF condition THEN 1 ELSE 0

\* The hardware takes the low bits of the amount of a shift.
Amount(n) == n % Width

\* C's division, which rounds to zero.
Quotient(m, n) ==
  LET magnitude(v) == IF v < 0 THEN -v ELSE v
      q == magnitude(m) \div magnitude(n)
  IN  IF (m < 0) # (n < 0) THEN -q ELSE q

Result(op, m, n) ==
  CASE op = "ADD"   -> m + n
    [] op = "SUB"   -> m - n
    [] op = "SLL"   -> m * 2^Amount(n)
    [] op = "SLT"   -> Flag(m < n)
    [] op = "SLTU"  -> Flag(m < n)
    [] op = "SLTIU" -> Flag(Unsigned(m) < Unsigned(n))
    [] op = "XOR"   -> BitXor(Unsigned(m), Unsigned(n))
    [] op = "SRL"   -> Unsigned(m) \div 2^Amount(n)
    [] op = "SRA"   -> m \div 2^Amount(n)
    [] op = "OR"    -> BitOr(Unsigned(m), Unsigned(n))
    [] op = "AND"   -> BitAnd(Unsigned(m), Unsigned(n))
    [] op = "MUL"   -> m * n
    [] op = "MULH"  -> Signed(m * n) \div HalfValues
    [] op = "MULHSU" -> Unsigned(m * n) \div HalfValues
    [] op = "MULHU" -> Unsigned(m * n) \div HalfValues
    [] op = "DIV"   -> Quotient(m, n)
    [] op = "REM"   -> m - n * Quotient(m, n)
    [] op = "DIVU"  -> Unsigned(m) \div Unsigned(n)
    [] op = "REMU"  -> Unsigned(m) % Unsigned(n)

\* Divisions that the processor answers with a signal.
Faults(op, m, n) ==
  \/ op \in {"DIV", "DIVU", "REM", "REMU"} /\ n = 0
  \/ op \in {"DIV", "REM"} /\ n = -1 /\ m = -(WordValues \div 2)

SetReg(d, v) == regs' = [cleared EXCEPT ![d] = Signed(v)]
GoTo(addr)   == pc' = addr
NextInsn     == GoTo(pc + 4)
Quiet        == UNCHANGED <<mem, output, exit, phase>>
Ends(how)    == phase' = "end" /\ exit' = how

Is(name) == opcode = Opcodes[name]

Upper ==
  \/ Is("LUI") /\ SetReg(rd, ImmU) /\ NextInsn /\ Quiet
  \/ Is("AUIPC") /\ SetReg(rd, pc + ImmU) /\ NextInsn /\ Quiet

Jump ==
  \/ Is("JAL") /\ SetReg(rd, pc + 4) /\ GoTo(pc + ImmJ) /\ Quiet
  \/ /\ Is("JALR") /\ SetReg(rd, pc + 4) /\ Quiet
     /\ LET to_jump == Signed(op1 + ImmI) IN GoTo(to_jump - (to_jump % 2))

Ecall ==
  /\ Is("ECALL")
  /\ \/ cleared[17] = 1 /\ (\E c \in Chars : SetReg(10, c)) /\ NextInsn /\ Quiet
     \/ /\ cleared[17] = 2 /\ output' = Append(output, cleared[10] % ByteValues)
        /\ regs' = cleared /\ NextInsn /\ UNCHANGED <<mem, exit, phase>>
     \/ cleared[17] \in {3, 93} /\ Ends("terminate") /\ regs' = cleared /\ UNCHANGED <<mem, output, pc>>
     \/ cleared[17] \notin {1, 2, 3, 93} /\ regs' = cleared /\ UNCHANGED pc /\ Quiet

BranchTaken(name) ==
  CASE name = "BEQ"  -> op1 = op2
    [] name = "BNE"  -> op1 # op2
    [] name = "BLT"  -> op1 < op2
    [] name = "BGE"  -> op1 >= op2
    [] name = "BLTU" -> Unsigned(op1) < Unsigned(op2)
    [] name = "BGEU" -> Unsigned(op1) >= Unsigned(op2)

Branch ==
  /\ Is("BRANCH") /\ regs' = cleared
  /\ LET name == Case(Branches, funct3)
     IN  IF name = "default"
         THEN Ends("undefined") /\ UNCHANGED <<mem, output, pc>>
         ELSE GoTo(pc + IF BranchTaken(name) THEN ImmB ELSE 4) /\ Quiet

Unaligned(name, adr) ==
  \/ name \in {"LW", "SW"} /\ UnalignedWord(adr)
  \/ name \in {"LH", "LHU", "SH"} /\ UnalignedHalf(adr)

Load ==
  /\ Is("LOAD")
  /\ LET name == Case(Loads, funct3)
         adr  == Signed(op1 + ImmI)
     IN  IF Unaligned(name, adr)
         THEN Ends("unaligned") /\ regs' = cleared /\ UNCHANGED <<mem, output, pc>>
         ELSE /\ IF name = "default"
                 THEN regs' = cleared /\ UNCHANGED mem
                 ELSE /\ SetReg(rd, CASE name \in {"LB", "LBU"} -> memory_rd_b(mem, adr)
                                      [] name \in {"LH", "LHU"} -> memory_rd_h(mem, adr)
                                      [] name = "LW"            -> memory_rd_w(mem, adr))
                      /\ mem' = get_page(mem, adr)
              /\ NextInsn /\ UNCHANGED <<output, exit, phase>>

Store ==
  /\ Is("STORE") /\ regs' = cleared
  /\ LET name == Case(Stores, funct3)
         adr  == Signed(op1 + ImmS)
     IN  IF Unaligned(name, adr)
         THEN Ends("unaligned") /\ UNCHANGED <<mem, output, pc>>
         ELSE /\ mem' = CASE name = "SB" -> memory_wr_b(mem, adr, op2)
                          [] name = "SH" -> memory_wr_h(mem, adr, op2)
                          [] name = "SW" -> memory_wr_w(mem, adr, op2)
                          [] OTHER       -> mem
              /\ NextInsn /\ UNCHANGED <<output, exit, phase>>

Compute(name, operand) ==
  /\ IF name = "default" THEN regs' = cleared ELSE SetReg(rd, Result(name, op1, operand))
  /\ NextInsn /\ Quiet

Arithmetic ==
  \/ Is("OP_IMM") /\ Compute(OpImmCase, ImmI)
  \/ Is("OP") /\ ~Faults(OpCase, op1, op2) /\ Compute(OpCase, op2)
  \/ /\ Is("OP") /\ Faults(OpCase, op1, op2)
     /\ Ends("signal") /\ regs' = cleared /\ UNCHANGED <<mem, output, pc>>

\* The word at pc is no instruction that the switch knows, or pc is odd.
Undefined == Ends("undefined") /\ UNCHANGED <<regs, mem, output, pc>>

simulate ==
  /\ phase = "run"
  /\ IF pc \in DOMAIN code /\ ~UnalignedWord(pc) /\ \E name \in DOMAIN Opcodes : Is(name)
     THEN Upper \/ Jump \/ Ecall \/ Branch \/ Load \/ Store \/ Arithmetic
     ELSE Undefined
  /\ UNCHANGED loaded

Next == pass_args_to_program \/ ReadLine \/ Start \/ simulate

Spec == Init /\ [][Next]_vars

-----------------------------------------------------------------------------
(* Properties.                                                             *)

\* Where simulate departs from the instruction set, whatever it then computes:
\* SLTU compares signed, LB and LH do not extend the sign, the high halves of
\* products are taken from their low 32 bits, and divisions that the set
\* defines end in a signal.
Departs(op, m, n) ==
  \/ op = "SLTU" /\ (m < 0) # (n < 0)
  \/ op = "LB" /\ m < 0
  \/ op = "LH" /\ m < 0
  \/ op \in {"MULH", "MULHSU", "MULHU"}
  \/ Faults(op, m, n)

ByteAt(addr) == memory_rd_b(mem, addr)

\* The machine that the simulator shows: its memory counts from the start on.
ISA ==
  INSTANCE RiscV WITH
    x         <- [q \in 0..31 |-> IF q = 0 THEN 0 ELSE regs[q]],
    bytes     <- [q \in 0..(WordValues - 1) |->
                    IF phase \in {"args", "load"} \/ exit = "no start" THEN 0 ELSE ByteAt(q)],
    status    <- CASE phase \in {"args", "load"} -> "off"
                   [] phase = "run"             -> "running"
                   [] exit = "terminate"        -> "ended"
                   [] OTHER                     -> "trapped",
    printed   <- output,
    Registers <- 0..31,
    ArgArea   <- ArgBase..(WordValues \div 2 - 1),
    Tolerated <- Departs

\* The simulator does what the RISC-V specification says of the listing, for
\* every instruction and system call of opgave.md:77-101, but for Departs
\* (simulate.c over memory.c and read_exec.c).
ImplementsISA == ISA!Spec

\* However the table has grown, every address is found with the latest text that
\* a line read so far has given it, and no other address is (assembly.c).
TableHasTheTexts ==
  LET lines(addr) == {k \in 1..lineNo : /\ listing[k].kind = "insn" /\ listing[k].addr = addr
                                        /\ listing[k].text # ""}
  IN  \A addr \in 0..(WordValues \div 2 - 1) :
        assembly_get(table, addr) =
          IF lines(addr) = {} THEN "" ELSE listing[CHOOSE k \in lines(addr) : \A j \in lines(addr) : j <= k].text

\* The memory that the arguments take up.
ArgExtent(strings) ==
  ArgBase..(ArgBase + 3 + 4 * Len(strings) + SumOver(DOMAIN strings, [k \in DOMAIN strings |-> Len(strings[k]) + 1]))

\* A line: the words and the word in it are those of the bytes and of the
\* instruction.  Addresses are not negative, instructions aligned.
IsLine(l) ==
  \/ l.kind = "other"
  \/ l.kind = "start" /\ l.addr \in Nat
  \/ /\ l.kind = "data" /\ l.addr \in Nat /\ l.bytes \in Seq(0..(ByteValues - 1))
     /\ l.addr + Len(l.bytes) <= WordValues
     /\ count_hexes(l.words) = Len(l.bytes)
     /\ \A k \in DOMAIN l.bytes : HexByte(l.words, k - 1) = l.bytes[k]
  \/ /\ l.kind = "insn" /\ l.addr \in 0..(WordValues \div 2 - 1) /\ l.addr % 4 = 0
     /\ ISA!IsInstruction(l.insn) /\ l.word = ISA!Encode(l.insn) /\ l.text \in STRING

\* The listings have lines, the arguments characters other than 0; there is
\* room for them, and the listing puts no data there.
ASSUME CommandsAssumption ==
  /\ ArgBase \in Nat /\ ArgBase % 4 = 0 /\ Chars \subseteq Int /\ UpperBits \in 0..31
  /\ \A command \in Commands :
       /\ DOMAIN command.listing = 1..Len(command.listing) /\ Len(command.listing) \in Nat
       /\ \A k \in DOMAIN command.listing :
            /\ IsLine(command.listing[k])
            /\ command.listing[k].kind = "data" =>
                 command.listing[k].addr..(command.listing[k].addr + Len(command.listing[k].bytes) - 1)
                   \cap ArgExtent(command.args) = {}
       /\ command.args \in Seq(Seq(1..(ByteValues - 1)))
       /\ ArgExtent(command.args) \subseteq 0..(WordValues \div 2 - 1)

\* When the program starts it finds what its start-up code (A6/handout/lib.c
\* args_to_main) reads: the number of its arguments, and behind it the address
\* of each, where the string is with its terminating zero.
ArgumentsArePassed ==
  [][phase = "load" /\ phase' = "run" =>
       /\ memory_rd_w(mem, ArgBase) = Len(args)
       /\ \A k \in DOMAIN args :
            LET at == memory_rd_w(mem, ArgBase + 4 * k)
            IN  /\ \A j \in DOMAIN args[k] : ByteAt(at + j - 1) = args[k][j]
                /\ ByteAt(at + Len(args[k])) = 0]_vars
=============================================================================
