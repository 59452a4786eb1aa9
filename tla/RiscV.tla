------------------------------- MODULE RiscV --------------------------------
(***************************************************************************)
(* The machine that A5/opgave.md asks to be simulated: the RISC-V base     *)
(* instruction set RV32I with the extension M, after the RISC-V            *)
(* specification v2.2 that it refers to, without the instructions it       *)
(* leaves out, and with its three system calls.  The memory is an array of *)
(* bytes, register 0 is 0, instructions are records.  The widths are       *)
(* parameters: 32 bits, 12 bits below the upper immediate.                 *)
(***************************************************************************)
EXTENDS Bits, Sequences

CONSTANTS
  UpperBits,   \* bits below the immediate of LUI and AUIPC
  Chars,       \* what getchar may return
  Registers,   \* 0..31
  ArgArea,     \* addresses whose first contents are not the listing's
  Tolerated(_, _, _)  \* results of operations on which any value is accepted

VARIABLES
  listing,  \* the file that is loaded, a sequence of lines
  x,        \* the registers
  pc,       \* the address of the next instruction
  bytes,    \* the memory
  status,   \* "off", "running", "ended" by the program, or "trapped"
  printed   \* what putchar has printed

riscvVars == <<listing, x, pc, bytes, status, printed>>

Addresses == 0..(2^Width - 1)
ByteSize  == 2^(Width \div 4)

Signed(v)   == ((v + 2^(Width - 1)) % 2^Width) - 2^(Width - 1)
Unsigned(v) == v % 2^Width
Smallest    == -(2^(Width - 1))

-----------------------------------------------------------------------------
(* Instructions and their encodings.                                       *)

Branches == {"BEQ", "BNE", "BLT", "BGE", "BLTU", "BGEU"}
Loads    == {"LB", "LH", "LW", "LBU", "LHU"}
Stores   == {"SB", "SH", "SW"}
Shifts   == {"SLLI", "SRLI", "SRAI"}
OpImms   == {"ADDI", "SLTI", "SLTIU", "XORI", "ORI", "ANDI"} \cup Shifts
Ops      == {"ADD", "SUB", "SLL", "SLT", "SLTU", "XOR", "SRL", "SRA", "OR", "AND",
             "MUL", "MULH", "MULHSU", "MULHU", "DIV", "DIVU", "REM", "REMU"}

\* funct3 of every instruction that has one.
F3 == [BEQ |-> 0, BNE |-> 1, BLT |-> 4, BGE |-> 5, BLTU |-> 6, BGEU |-> 7,
       LB |-> 0, LH |-> 1, LW |-> 2, LBU |-> 4, LHU |-> 5, SB |-> 0, SH |-> 1, SW |-> 2,
       ADDI |-> 0, SLLI |-> 1, SLTI |-> 2, SLTIU |-> 3, XORI |-> 4, SRLI |-> 5, SRAI |-> 5,
       ORI |-> 6, ANDI |-> 7, ADD |-> 0, SUB |-> 0, SLL |-> 1, SLT |-> 2, SLTU |-> 3,
       XOR |-> 4, SRL |-> 5, SRA |-> 5, OR |-> 6, AND |-> 7, MUL |-> 0, MULH |-> 1,
       MULHSU |-> 2, MULHU |-> 3, DIV |-> 4, DIVU |-> 5, REM |-> 6, REMU |-> 7, JALR |-> 0]

F7(op) ==
  IF op \in {"SUB", "SRA", "SRAI"} THEN 32
  ELSE IF op \in {"MUL", "MULH", "MULHSU", "MULHU", "DIV", "DIVU", "REM", "REMU"} THEN 1
  ELSE 0

\* The bits lo to hi of a number.
Slice(v, hi, lo) == (v \div 2^lo) % 2^(hi - lo + 1)

\* -2^31 if v is negative: the sign is bit 31 in every format.
SignBit(v) == IF v < 0 THEN -(2^30) - 2^30 ELSE 0

\* The 32-bit word of an instruction (figures 2.2 and 2.3), as a signed number;
\* of a word that encodes none, imm is the word.
Encode(i) ==
  LET rd  == i.rd * 2^7
      rs1 == i.rs1 * 2^15
      rs2 == i.rs2 * 2^20
      f3  == F3[i.op] * 2^12
      f7  == F7(i.op) * 2^25
  IN  CASE i.op = "LUI"   -> i.imm * 2^12 + rd + 55
        [] i.op = "AUIPC" -> i.imm * 2^12 + rd + 23
        [] i.op = "JAL"   -> Slice(i.imm, 10, 1) * 2^21 + Slice(i.imm, 11, 11) * 2^20
                               + Slice(i.imm, 19, 12) * 2^12 + rd + 111 + SignBit(i.imm)
        [] i.op = "JALR"  -> i.imm * 2^20 + rs1 + f3 + rd + 103
        [] i.op = "ECALL" -> 115
        [] i.op \in Branches ->
             Slice(i.imm, 10, 5) * 2^25 + rs2 + rs1 + f3 + Slice(i.imm, 4, 1) * 2^8
               + Slice(i.imm, 11, 11) * 2^7 + 99 + SignBit(i.imm)
        [] i.op \in Loads  -> i.imm * 2^20 + rs1 + f3 + rd + 3
        [] i.op \in Stores -> (i.imm \div 32) * 2^25 + rs2 + rs1 + f3 + (i.imm % 32) * 2^7 + 35
        [] i.op \in Shifts -> f7 + i.imm * 2^20 + rs1 + f3 + rd + 19
        [] i.op \in OpImms \ Shifts -> i.imm * 2^20 + rs1 + f3 + rd + 19
        [] i.op \in Ops    -> f7 + rs2 + rs1 + f3 + rd + 51
        [] i.op = "reserved" -> i.imm

\* The words that are none of the instructions: of another opcode, or of one
\* that has no such function.
Unassigned(word) ==
  LET code == word % 2^7
      f3   == Slice(word, 14, 12)
      f7   == Slice(word, 31, 25)
  IN  \/ code \notin {55, 23, 111, 103, 115, 99, 3, 35, 19, 51}
      \/ code = 99 /\ f3 \in {2, 3}
      \/ code = 3 /\ f3 \in {3, 6, 7}
      \/ code = 35 /\ f3 \notin {0, 1, 2}
      \/ code = 19 /\ f3 = 5 /\ f7 \notin {0, 32}
      \/ code = 51 /\ f3 \in {0, 5} /\ f7 \notin {0, 1, 32}

\* The instructions, by their formats.
IsInstruction(i) ==
  /\ {i.rd, i.rs1, i.rs2} \subseteq 0..31
  /\ \/ i.op \in {"LUI", "AUIPC"} /\ i.imm \in -(2^19)..(2^19 - 1)
     \/ i.op = "JAL" /\ i.imm \in -(2^20)..(2^20 - 1) /\ i.imm % 2 = 0
     \/ i.op \in Branches /\ i.imm \in -(2^12)..(2^12 - 1) /\ i.imm % 2 = 0
     \/ i.op \in {"JALR"} \cup Loads \cup Stores \cup (OpImms \ Shifts) /\ i.imm \in -(2^11)..(2^11 - 1)
     \/ i.op \in Shifts /\ i.imm \in 0..31
     \/ i.op \in Ops \cup {"ECALL"}
     \/ i.op = "reserved" /\ i.imm \in -(2^30) - 2^30..2^30 - 1 + 2^30 /\ Unassigned(i.imm)

-----------------------------------------------------------------------------
(* What instructions compute.                                              *)

\* Division rounds to zero; dividing by zero and the overflow are defined.
Quotient(a, b) ==
  LET magnitude(n) == IF n < 0 THEN -n ELSE n
      q == magnitude(a) \div magnitude(b)
  IN  IF b = 0 THEN -1 ELSE IF (a < 0) # (b < 0) THEN -q ELSE q
Remainder(a, b) == IF b = 0 THEN a ELSE a - b * Quotient(a, b)

Flag(condition) == IF condition THEN 1 ELSE 0
Amount(b) == b % Width

\* The result of an operation with two operands, before it is cut to Width bits.
Alu(op, a, b) ==
  LET ua == Unsigned(a)
      ub == Unsigned(b)
  IN  CASE op \in {"ADD", "ADDI"}   -> a + b
        [] op = "SUB"               -> a - b
        [] op \in {"SLL", "SLLI"}   -> a * 2^Amount(b)
        [] op \in {"SLT", "SLTI"}   -> Flag(a < b)
        [] op \in {"SLTU", "SLTIU"} -> Flag(ua < ub)
        [] op \in {"XOR", "XORI"}   -> BitXor(ua, ub)
        [] op \in {"SRL", "SRLI"}   -> ua \div 2^Amount(b)
        [] op \in {"SRA", "SRAI"}   -> a \div 2^Amount(b)
        [] op \in {"OR", "ORI"}     -> BitOr(ua, ub)
        [] op \in {"AND", "ANDI"}   -> BitAnd(ua, ub)
        [] op = "MUL"               -> a * b
        [] op = "MULH"              -> (a * b) \div 2^Width
        [] op = "MULHSU"            -> (a * ub) \div 2^Width
        [] op = "MULHU"             -> (ua * ub) \div 2^Width
        [] op = "DIV"               -> Quotient(a, b)
        [] op = "REM"               -> Remainder(a, b)
        [] op = "DIVU"              -> IF ub = 0 THEN -1 ELSE ua \div ub
        [] op = "REMU"              -> IF ub = 0 THEN ua ELSE ua % ub

Taken(op, a, b) ==
  CASE op = "BEQ"  -> a = b
    [] op = "BNE"  -> a # b
    [] op = "BLT"  -> a < b
    [] op = "BGE"  -> a >= b
    [] op = "BLTU" -> Unsigned(a) < Unsigned(b)
    [] op = "BGEU" -> Unsigned(a) >= Unsigned(b)

\* The bytes of an access, and whether it is aligned.
AccessSize(op) == IF op \in {"LB", "LBU", "SB"} THEN 1 ELSE IF op \in {"LH", "LHU", "SH"} THEN 2 ELSE 4
Aligned(op, addr) == addr % AccessSize(op) = 0

\* The little-endian value of n bytes from addr on.
Value(addr, n) ==
  LET pair(a) == bytes[a] + ByteSize * bytes[a + 1]
  IN  CASE n = 1 -> bytes[addr]
        [] n = 2 -> pair(addr)
        [] n = 4 -> pair(addr) + ByteSize * ByteSize * pair(addr + 2)

\* What a load puts into its register: the signed ones extend the sign.
Loaded(op, addr) ==
  LET n    == AccessSize(op)
      v    == Value(addr, n)
      span == IF n = 1 THEN ByteSize ELSE ByteSize * ByteSize
  IN  IF op \in {"LB", "LH"} /\ v >= span \div 2 THEN v - span ELSE v

-----------------------------------------------------------------------------
(* The steps of the machine.                                               *)

Init ==
  /\ x = [r \in Registers |-> 0]
  /\ pc = 0
  /\ bytes = [a \in Addresses |-> 0]
  /\ status = "off"
  /\ printed = << >>

\* What the lines of a kind say of an address: the last one counts.
Last(S)       == CHOOSE k \in S : \A m \in S : m <= k
LinesOf(kind) == {k \in DOMAIN listing : listing[k].kind = kind}
Covering(a)   == {k \in LinesOf("data") : a - listing[k].addr \in 0..(Len(listing[k].bytes) - 1)}
InsnAt(a)     == {k \in LinesOf("insn") : listing[k].addr = a}

\* The listing has been loaded: its data are in the memory, and the machine is
\* at its start, if it has one.
Boot ==
  /\ status = "off" /\ LinesOf("start") # {}
  /\ status' = "running"
  /\ pc' = listing[Last(LinesOf("start"))].addr
  /\ \A a \in Addresses :
       IF Covering(a) # {}
       THEN LET line == listing[Last(Covering(a))] IN bytes'[a] = line.bytes[a - line.addr + 1]
       ELSE a \in ArgArea \/ bytes'[a] = 0
  /\ UNCHANGED <<listing, x, printed>>

\* The value goes to register rd, unless that is register 0.
Write(rd, v) == x' = IF rd = 0 THEN x ELSE [x EXCEPT ![rd] = Signed(v)]
GoTo(addr)   == pc' = addr
Trap         == status' = "trapped" /\ UNCHANGED <<x, pc, bytes, printed>>
Quiet        == UNCHANGED <<bytes, status, printed>>

Compute(i, a, b) ==
  \/ Write(i.rd, Alu(i.op, a, b)) /\ GoTo(pc + 4) /\ Quiet
  \/ /\ Tolerated(i.op, a, b)
     /\ \/ Trap
        \/ \E v \in Addresses : Write(i.rd, v) /\ GoTo(pc + 4) /\ Quiet

Load(i, addr) ==
  LET v == Loaded(i.op, addr)
  IN  \/ Write(i.rd, v) /\ GoTo(pc + 4) /\ Quiet
      \/ /\ Tolerated(i.op, v, 0)
         /\ \E u \in Addresses : Write(i.rd, u) /\ GoTo(pc + 4) /\ Quiet

Store(i, addr, b) ==
  /\ bytes' = [a \in Addresses |->
                 IF a \in addr..(addr + AccessSize(i.op) - 1)
                 THEN Slice(b, (a - addr + 1) * (Width \div 4) - 1, (a - addr) * (Width \div 4))
                 ELSE bytes[a]]
  /\ GoTo(pc + 4)
  /\ UNCHANGED <<x, status, printed>>

SystemCall ==
  \/ x[17] = 1 /\ (\E c \in Chars : Write(10, c)) /\ GoTo(pc + 4) /\ Quiet
  \/ /\ x[17] = 2 /\ printed' = Append(printed, x[10] % ByteSize)
     /\ GoTo(pc + 4) /\ UNCHANGED <<x, bytes, status>>
  \/ x[17] \in {3, 93} /\ status' = "ended" /\ UNCHANGED <<x, pc, bytes, printed>>

Execute(i) ==
  LET a    == x[i.rs1]
      b    == x[i.rs2]
      addr == Unsigned(a + i.imm)
  IN  \/ i.op \in Ops /\ Compute(i, a, b)
      \/ i.op \in OpImms /\ Compute(i, a, i.imm)
      \/ i.op = "LUI" /\ Write(i.rd, i.imm * 2^UpperBits) /\ GoTo(pc + 4) /\ Quiet
      \/ i.op = "AUIPC" /\ Write(i.rd, pc + i.imm * 2^UpperBits) /\ GoTo(pc + 4) /\ Quiet
      \/ i.op = "JAL" /\ Write(i.rd, pc + 4) /\ GoTo(pc + i.imm) /\ Quiet
      \/ i.op = "JALR" /\ Write(i.rd, pc + 4) /\ (LET to == Signed(addr) IN GoTo(to - (to % 2))) /\ Quiet
      \/ /\ i.op \in Branches /\ UNCHANGED x /\ Quiet
         /\ GoTo(pc + IF Taken(i.op, a, b) THEN i.imm ELSE 4)
      \/ i.op \in Loads /\ IF Aligned(i.op, addr) THEN Load(i, addr) ELSE Trap
      \/ i.op \in Stores /\ IF Aligned(i.op, addr) THEN Store(i, addr, b) ELSE Trap
      \/ i.op = "ECALL" /\ SystemCall
      \/ i.op = "reserved" /\ (Trap \/ (UNCHANGED x /\ GoTo(pc + 4) /\ Quiet))

Step ==
  /\ status = "running"
  /\ UNCHANGED listing
  /\ IF InsnAt(pc) # {} THEN Execute(listing[Last(InsnAt(pc))].insn) ELSE Trap

NoStart == status = "off" /\ LinesOf("start") = {} /\ Trap /\ UNCHANGED listing

Spec == Init /\ [][Boot \/ NoStart \/ Step]_riscvVars
=============================================================================
