---------------------------- MODULE MCSimulator -----------------------------
(* Listings for Simulator: every instruction on values of 8 bits.           *)
EXTENDS Simulator, Bitwise

\* Bits computes what the community module does.
ASSUME SameBits ==
  \A a, b \in 0..63 : BitAnd(a, b) = a & b /\ BitOr(a, b) = a | b /\ BitXor(a, b) = a ^^ b

Insn(op, rd_, rs1_, rs2_, imm) == [op |-> op, rd |-> rd_, rs1 |-> rs1_, rs2 |-> rs2_, imm |-> imm]

InsnAt(addr, text, i) == [kind |-> "insn", addr |-> addr, word |-> ISA!Encode(i), text |-> text, insn |-> i]
StartAt(addr)         == [kind |-> "start", addr |-> addr]

\* A line of the dump of a section: words of four bytes, two digits for a byte,
\* then the column of characters.
Data(addr, bytes) ==
  LET digits == FlattenSeq([k \in DOMAIN bytes |-> <<bytes[k] \div 2, bytes[k] % 2>>])
      words  == [w \in 1..((Len(bytes) + 3) \div 4) |->
                   SubSeq(digits, 8 * w - 7, IF 8 * w < Len(digits) THEN 8 * w ELSE Len(digits))]
  IN  [kind |-> "data", addr |-> addr, bytes |-> bytes,
       words |-> IF Len(words) < 4 THEN Append(words, <<-1>>) ELSE words]

BytesOf(w) == [k \in 1..4 |-> (Unsigned(w) \div 4^(k - 1)) % 4]

\* A program at 16 after the data lines, with a title above them.
Listing(data, insns) ==
  <<[kind |-> "other"]>> \o data \o <<StartAt(16)>>
    \o [k \in DOMAIN insns |-> InsnAt(12 + 4 * k, insns[k].op, insns[k])]

Exit == <<Insn("ADDI", 17, 0, 0, 93), Insn("ECALL", 0, 0, 0, 0)>>

\* The instruction i with the values m and n in x1 and x2; register 0 is read after it.
Try(i, m, n) ==
  Listing(<<Data(0, BytesOf(m) \o BytesOf(n)), Data(230, <<1, 2, 3, 3, 0, 1>>)>>,
          <<Insn("LW", 1, 0, 0, 0), Insn("LW", 2, 0, 0, 4), i, Insn("ADD", 4, 0, 1, 0)>> \o Exit)

Corners == {0, 1, 5, -1, -128, 127}
Imms    == {0, 1, 9, -1, 2047, -2048}
Jumps   == {8, -8, 2048, -4096, 1366, -1366}

Computing ==
       {Try(Insn(op, 3, 1, 2, 0), m, n) : op \in ISA!Ops, m \in Corners, n \in Corners}
  \cup {Try(Insn(op, 3, 1, 0, imm), m, 0) : op \in ISA!OpImms \ ISA!Shifts, m \in Corners, imm \in Imms}
  \cup {Try(Insn(op, 3, 1, 0, imm), m, 0) : op \in ISA!Shifts, m \in Corners, imm \in {0, 1, 7}}
  \cup {Try(Insn(op, 0, 1, 2, 8), 4, 3) : op \in {"ADD", "ADDI", "LUI", "JAL", "LBU"}}
  \cup {Try(Insn(op, 3, 0, 0, imm), 0, 0) : op \in {"LUI", "AUIPC"}, imm \in {0, 7, -1, -524288, 524287}}

Jumping ==
       {Try(Insn(op, 0, 1, 2, 8), m, n) : op \in ISA!Branches, m \in Corners, n \in Corners}
  \cup {Try(Insn("BEQ", 0, 1, 1, imm), 0, 0) : imm \in Jumps}
  \cup {Try(Insn("JAL", 3, 0, 0, imm), 0, 0) : imm \in Jumps \cup {524288, -1048576, 699050}}
  \cup {Try(Insn("JALR", 3, 1, 0, imm), 20, 0) : imm \in {4, 5, 8, -20, 2047}}

Accesses ==
       {Try(Insn(op, 3, 1, 0, imm), 6, n) : op \in ISA!Loads, imm \in -2..1, n \in Corners}
  \cup {Try(Insn(op, 0, 1, 2, imm), 14, n) : op \in ISA!Stores, imm \in -10..-7 \cup -2..3, n \in Corners}
  \cup {Try(Insn(op, 3, 1, 0, imm), -20, 0) : op \in ISA!Loads, imm \in -6..-3}

\* Words that encode no instruction: in every group an unused funct3 or funct7.
Reserved == {Try(Insn("reserved", 0, 0, 0, w), 5, 3) :
               w \in {0, 99 + 2 * 2^12, 3 + 3 * 2^12, 35 + 3 * 2^12, 19 + 5 * 2^12 + 2^26,
                      51 + 2^26, 51 + 5 * 2^12 + 2^26}}

\* It reads a character, prints it, loads its first argument's first character
\* and gives up with an unknown call.
Calls ==
  Listing(<<Data(200, <<1, 1, 1, 1, 2, 2, 2, 2, 3, 3, 3, 3, 0, 1, 2, 3>>)>>,
          <<Insn("ADDI", 17, 0, 0, 1), Insn("ECALL", 0, 0, 0, 0), Insn("ADDI", 17, 0, 0, 2),
            Insn("ECALL", 0, 0, 0, 0), Insn("LW", 1, 0, 0, 64), Insn("LW", 2, 0, 0, 68),
            Insn("LB", 3, 2, 0, 0), Insn("ADDI", 17, 0, 0, 4), Insn("ECALL", 0, 0, 0, 0)>>)

\* Instruction lines in any order, at addresses of which five fill a table of 5
\* but do not all find a place in one of 11; then another one, one without text or
\* one of them again.  There is no start.
Collisions == {32, 64, 76, 108, 120}
Line(addr, text) == InsnAt(addr, text, Insn("ECALL", 0, 0, 0, 0))
Unordered ==
  {Append([k \in 1..5 |-> Line(order[k], ToString(k))], last) :
     order \in SetToSeqs(Collisions), last \in {Line(12, "more"), Line(12, ""), Line(76, "again")}}

WithoutArgs(files) == {[listing |-> f, args |-> << >>] : f \in files}
MCCommands ==
       WithoutArgs(Computing \cup Jumping \cup Accesses \cup Reserved \cup Unordered)
  \cup {[listing |-> Calls, args |-> strings] :
          strings \in {<< >>, <<<<2, 2>>>>, <<<<2, 2>>, <<1>>, << >>, <<3, 1, 3>>>>}}

MCChars == {-1, 1, 2}
=============================================================================
