------------------------------- MODULE Decode -------------------------------
(***************************************************************************)
(* linking/decode.c: the length and the kind of the instruction at an      *)
(* address, and the crash that replaces one.  Code is bytes at addresses,  *)
(* but for a displacement of four bytes, which is a number in the first of *)
(* its cells.                                                              *)
(***************************************************************************)
EXTENDS Integers

Byte(code, a) == IF a \in DOMAIN code THEN code[a] ELSE 0

MODRM_MOD(v) == v \div 64
MODRM_REG(v) == (v \div 8) % 8
MODRM_RM(v) == v % 8

Instruction(op, length, addr) == [op |-> op, length |-> length, addr |-> addr]
Other(length) == Instruction("OTHER_OP", length, 0)
Unrecognized == Instruction("exit", 0, 0)    \* decode exits

Displacement(mod) == CASE mod = 1 -> 1 [] mod = 2 -> 4 [] OTHER -> 0

\* Opcode, ModRM byte and operand of mov, cmp, add and the like.
OperandLength(v) ==
    CASE MODRM_MOD(v) = 3 -> 2
      [] MODRM_MOD(v) = 0 /\ MODRM_RM(v) = 5 -> 6
      [] OTHER -> (IF MODRM_RM(v) = 4 THEN 3 ELSE 2) + Displacement(MODRM_MOD(v))

NopLength(v) ==
    IF MODRM_MOD(v) = 3 THEN 3
    ELSE 3 + Displacement(MODRM_MOD(v)) + (IF MODRM_RM(v) = 4 THEN 1 ELSE 0)

PushPop == {83, 84, 85, 91, 92, 93}
Variants == {99, 137, 139, 57, 59, 133, 1, 3, 41, 40, 49, 50}

\* Behind the prefixes: n bytes of them, and the size of an immediate.
Unprefixed(code, at, n, size) ==
    LET B(i) == Byte(code, at + n + i)
    IN  CASE B(0) = 15 /\ B(1) = 31 /\ MODRM_REG(B(2)) = 0 -> Other(n + NopLength(B(2)))
          [] B(0) \in PushPop -> Other(n + 1)
          [] B(0) \in Variants -> Other(n + OperandLength(B(1)))
          [] B(0) \in 184..191 -> Other(n + 1 + size)
          [] B(0) = 131 -> Other(n + 3)
          [] B(0) = 129 -> Other(n + 4)
          [] B(0) = 195 -> Instruction("RET_OP", n + 1, 0)
          [] B(0) = 243 /\ B(1) = 195 -> Instruction("RET_OP", n + 2, 0)
          [] B(0) = 235 -> Instruction("JMP_TO_ADDR_OP", n + 2, at + 2 + (IF B(1) > 127 THEN B(1) - 256 ELSE B(1)))
          [] B(0) = 233 -> Instruction("JMP_TO_ADDR_OP", n + 5, at + 5 + B(1))
          [] B(0) \in 144..152 -> Other(n + 1)
          [] OTHER -> Unrecognized

decode(code, at) ==
    LET B(i) == Byte(code, at + i)
        q == IF B(0) = 72 THEN 1 ELSE 0
        w == CHOOSE k \in 0..15 : B(q + k) # 102 /\ \A j \in 0..k - 1 : B(q + j) = 102
        cs == IF B(q + w) = 46 THEN 1 ELSE 0
    IN  CASE B(0) = 72 /\ B(1) = 139 /\ MODRM_MOD(B(2)) = 0 /\ MODRM_RM(B(2)) = 5 ->
                Instruction("MOV_ADDR_TO_REG_OP", 7, at + 7 + B(3))
          [] B(0) = 255 /\ B(1) = 37 -> Instruction("JMP_TO_ADDR_OP", 6, at + 6 + B(2))
          [] B(0) \in 112..127 -> Instruction("MAYBE_JMP_TO_ADDR_OP", 2, at + 2 + B(1))
          [] B(0) = 232 -> Instruction("CALL_OP", 5, at + 5 + B(1))
          [] B(0) = 144 -> Other(1)
          [] OTHER -> Unprefixed(code, at, q + w + cs, IF w > 0 THEN 2 ELSE IF q = 1 THEN 8 ELSE 4)

\* Not the code: the end of a long instruction is left as it is.
CrashInFront(code, at, ins) == [code EXCEPT ![at] = 205, ![at + 1] = 3]

\* int $3 in one byte or in two, and nops.
replace_with_crash(code, at, ins) ==
    [a \in DOMAIN code |->
        IF a \notin at .. at + ins.length - 1 THEN code[a]
        ELSE CASE a = at -> (IF ins.length = 1 THEN 204 ELSE 205) [] a = at + 1 -> 3 [] OTHER -> 144]
=============================================================================
