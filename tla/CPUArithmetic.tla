--------------------------- MODULE CPUArithmetic ---------------------------
(***************************************************************************)
(* GuestCPU.c, register instructions: what decode makes of a word, and     *)
(* what register_decoded, the arithmetic and the immediates of logical     *)
(* instructions compute.  Registers have Wide bits where the code's have   *)
(* 64, and an instruction of half the width has Narrow bits; the values    *)
(* of logical immediates are sets of bits and keep their real widths.      *)
(*                                                                         *)
(* A behaviour asks one question and gets its answer.  Only TLC uses this  *)
(* module.                                                                 *)
(***************************************************************************)
EXTENDS Integers, Sequences, FiniteSetsExt, Bitwise, TLC

CONSTANTS
    Wide, Narrow,       \* bits of a register, of the lower half that is used as one
    Field               \* bits a wide move inserts

VARIABLES question, answer
vars == <<question, answer>>

Values == 0 .. 2 ^ Wide - 1
Mask(width) == 2 ^ width - 1
Low(v, width) == v % 2 ^ width
Complement(v) == Mask(Wide) - v
Bit(v, i) == (v \div 2 ^ i) % 2 = 1

-----------------------------------------------------------------------------
(* Registers: x, sp, pc (in instructions) and the four flags.              *)

Reg(c, r, sp) == IF r < 31 THEN c.x[r] ELSE IF sp THEN c.sp ELSE 0
PutReg(c, r, value, width, sp) ==
    IF r < 31 THEN [c EXCEPT !.x[r] = Low(value, width)]
    ELSE IF sp THEN [c EXCEPT !.sp = Low(value, width)] ELSE c

Shifted(value, type, amount, width) ==
    LET v == Low(value, width)
        fill == Low(Mask(width) * 2 ^ (width - amount), width)
    IN  CASE amount = 0 -> v
          [] type = 0 /\ amount > 0 -> Low(v * 2 ^ amount, width)
          [] type = 1 /\ amount > 0 -> v \div 2 ^ amount
          [] type = 2 /\ amount > 0 -> (v \div 2 ^ amount) | (IF Bit(v, width - 1) THEN fill ELSE 0)
          [] type = 3 /\ amount > 0 -> Low((v \div 2 ^ amount) | (v * 2 ^ (width - amount)), width)

Condition(f, cond) ==
    LET result == CASE cond \div 2 = 0 -> f.z
                    [] cond \div 2 = 1 -> f.c
                    [] cond \div 2 = 2 -> f.n
                    [] cond \div 2 = 3 -> f.v
                    [] cond \div 2 = 4 -> f.c /\ ~f.z
                    [] cond \div 2 = 5 -> f.n = f.v
                    [] cond \div 2 = 6 -> ~f.z /\ f.n = f.v
                    [] OTHER -> TRUE
    IN  IF cond \div 2 = 7 THEN TRUE ELSE IF cond % 2 = 1 THEN ~result ELSE result

Result(a, b, sub, width) ==
    Low(IF sub THEN Low(a, width) - Low(b, width) ELSE Low(a, width) + Low(b, width), width)

\* Wrong form of Flags: the carry of a subtraction is a borrow.
FlagsBorrow(a, b, sub, width) ==
    LET r == Result(a, b, sub, width)
        Sign(v) == Bit(v, width - 1)
    IN  [n |-> Sign(r), z |-> r = 0,
         c |-> IF sub THEN Low(a, width) < Low(b, width) ELSE r < Low(a, width),
         v |-> (IF sub THEN Sign(a) # Sign(b) ELSE Sign(a) = Sign(b)) /\ Sign(a) # Sign(r)]

Flags(a, b, sub, width) ==
    LET r == Result(a, b, sub, width)
        Sign(v) == Bit(v, width - 1)
    IN  [n |-> Sign(r), z |-> r = 0,
         c |-> IF sub THEN Low(a, width) >= Low(b, width) ELSE r < Low(a, width),
         v |-> (IF sub THEN Sign(a) # Sign(b) ELSE Sign(a) = Sign(b)) /\ Sign(a) # Sign(r)]

-----------------------------------------------------------------------------
(* A decoded instruction: op, rd, rn, rm, ra, width, shift, amount, flags,  *)
(* immediate.  An instruction moves the pc on by one unless it branches.    *)

Next4(c) == Low(c.pc + 1, Wide)
Operand(c, d) ==
    IF d.op \in {"ADD_IMM", "LOGIC_IMM"} THEN d.immediate
    ELSE Shifted(Reg(c, d.rm, FALSE), d.shift, d.amount, d.width)

Moved(c, d) ==
    CASE d.flags = 0 -> Complement(d.immediate)
      [] d.flags = 2 -> d.immediate
      [] OTHER -> (Reg(c, d.rd, FALSE) & Complement(Low(Mask(Field) * 2 ^ d.amount, Wide))) | d.immediate

Logical(c, d) ==
    LET a == Reg(c, d.rn, FALSE)
        b == IF d.op = "LOGIC" /\ d.flags >= 4 THEN Complement(Operand(c, d)) ELSE Operand(c, d)
        kind == d.flags % 4
    IN  Low(CASE kind = 1 -> a | b [] kind = 2 -> a ^^ b [] OTHER -> a & b, d.width)

Selected(c, d) ==
    LET b == Reg(c, d.rm, FALSE)
    IN  IF Condition(c.nzcv, d.shift) THEN Reg(c, d.rn, FALSE)
        ELSE CASE d.flags = 0 -> b
               [] d.flags = 1 -> Low(b + 1, Wide)
               [] d.flags = 2 -> Complement(b)
               [] d.flags = 3 -> Low(-b, Wide)

Multiplied(c, d) ==
    LET product == Reg(c, d.rn, FALSE) * Reg(c, d.rm, FALSE)
        ra == Reg(c, d.ra, FALSE)
    IN  Low(IF d.flags = 1 THEN ra - product ELSE ra + product, Wide)

Target(c, d) ==
    LET taken == CASE d.op = "COND" -> Condition(c.nzcv, d.flags)
                   [] d.op = "CBZ" -> (Low(Reg(c, d.rd, FALSE), d.width) # 0) = (d.flags # 0)
                   [] d.op = "TBZ" -> Bit(Reg(c, d.rd, FALSE), d.amount) = (d.flags = 1)
                   [] OTHER -> TRUE
    IN  IF d.op = "BRANCH_REG" THEN Reg(c, d.rn, FALSE)
        ELSE IF taken THEN d.immediate ELSE Next4(c)

Registered(c, d) ==
    LET Goes(r) == [r EXCEPT !.pc = Next4(c)]
        Puts(r, value, sp) == Goes(PutReg(r, d.rd, value, d.width, sp))
        a == Reg(c, d.rn, d.op = "ADD_IMM")
        b == Operand(c, d)
        sub == d.flags >= 2
        linked == IF d.op \in {"BRANCH", "BRANCH_REG"} /\ d.flags = 1 THEN [c EXCEPT !.x[30] = Next4(c)] ELSE c
    IN  CASE d.op = "NOP" -> Goes(c)
          [] d.op = "WIDE" -> Puts(c, Moved(c, d), FALSE)
          [] d.op \in {"ADD_IMM", "ADD_REG"} ->
                Puts(IF d.flags % 2 = 1 THEN [c EXCEPT !.nzcv = Flags(a, b, sub, d.width)] ELSE c,
                     Result(a, b, sub, d.width), d.op = "ADD_IMM" /\ d.flags % 2 = 0)
          [] d.op \in {"LOGIC", "LOGIC_IMM"} ->
                LET value == Logical(c, d)
                IN  Puts(IF d.flags % 4 = 3
                         THEN [c EXCEPT !.nzcv = [n |-> Bit(value, d.width - 1), z |-> value = 0, c |-> FALSE, v |-> FALSE]]
                         ELSE c, value, d.op = "LOGIC_IMM" /\ d.flags % 4 # 3)
          [] d.op = "SELECT" -> Puts(c, Selected(c, d), FALSE)
          [] d.op = "MADD" -> Puts(c, Multiplied(c, d), FALSE)
          [] d.op = "ADDRESS" -> Puts(c, d.immediate, FALSE)
          [] d.op \in {"BRANCH", "BRANCH_REG", "COND", "CBZ", "TBZ"} -> [linked EXCEPT !.pc = Target(c, d)]
          [] OTHER -> c

-----------------------------------------------------------------------------
(* Immediates of logical instructions, as sets of bits.                    *)

Bits(v, n) == {i \in 0 .. n - 1 : Bit(v, i)}
Invalid == {-1}

\* A run of s + 1 ones in an element of 2 ^ length bits, rotated right by r and
\* repeated.  The length is the highest bit of n and the complement of imms.
LogicalImmediate(q) ==
    LET encoded == (IF q.n = 1 THEN {6} ELSE {}) \cup {i \in 0 .. 5 : i \notin Bits(q.imms, 6)}
        bits == 2 ^ Max(encoded \cup {0})
        s == q.imms % bits
        r == q.immr % bits
        run == 0 .. s
        right == {i - r : i \in {j \in run : j >= r}}
        left == {i + bits - r : i \in run}
        element == {i \in (IF r = 0 THEN run ELSE right \cup left) : i < bits}
    IN  IF encoded \subseteq {0} \/ (q.width = 32 /\ q.n = 1) \/ bits > q.width \/ s = bits - 1 THEN Invalid
        ELSE {at + i : at \in {k \in 0 .. q.width - 1 : k % bits = 0}, i \in element}

-----------------------------------------------------------------------------
(* Decoding: the bits of a word that are looked at and those that are set. *)

Pattern(op, mask, value) == [op |-> op, mask |-> mask, value |-> value]

Patterns ==
    { Pattern("NOP", 0 .. 31, {0, 1, 2, 3, 4, 13, 16, 17, 24, 26, 28, 30, 31}),
      Pattern("WIDE", 23 .. 28, {23, 25, 28}),
      Pattern("ADD_IMM", 23 .. 28, {24, 28}),
      Pattern("ADD_REG", {21} \cup 24 .. 28, {24, 25, 27}),
      Pattern("LOGIC", 24 .. 28, {25, 27}),
      Pattern("LOGIC_IMM", 23 .. 28, {25, 28}),
      Pattern("SELECT", {11} \cup 21 .. 29, {23, 25, 27, 28}),
      Pattern("MADD", 21 .. 30, {24, 25, 27, 28}),
      Pattern("BRANCH", 26 .. 30, {26, 28}),
      Pattern("BR", 0 .. 4 \cup 10 .. 31, {16, 17, 18, 19, 20, 25, 26, 28, 30, 31}),
      Pattern("BLR", 0 .. 4 \cup 10 .. 31, {16, 17, 18, 19, 20, 21, 25, 26, 28, 30, 31}),
      Pattern("RET", 0 .. 4 \cup 10 .. 31, {16, 17, 18, 19, 20, 22, 25, 26, 28, 30, 31}),
      Pattern("COND", {4} \cup 24 .. 31, {26, 28, 30}),
      Pattern("CBZ", 25 .. 30, {26, 28, 29}),
      Pattern("TBZ", 25 .. 30, {25, 26, 28, 29}),
      Pattern("ADDRESS", 24 .. 28, {28}),
      Pattern("LOAD_STORE", {24, 25, 26, 27, 28, 29}, {24, 27, 28, 29}) }

Matches(word) == {p \in Patterns : word \cap p.mask = p.value}

-----------------------------------------------------------------------------
(* Questions.                                                              *)

Clear == [n |-> FALSE, z |-> FALSE, c |-> FALSE, v |-> FALSE]
Start(a, b) == [x |-> (0 :> a) @@ (1 :> b) @@ (30 :> 0), sp |-> 5 % 2 ^ Wide, pc |-> 1, nzcv |-> Clear]
Decoded(op, rd, rn, rm, width, shift, amount, flags, immediate) ==
    [op |-> op, rd |-> rd, rn |-> rn, rm |-> rm, ra |-> 1, width |-> width, shift |-> shift,
     amount |-> amount, flags |-> flags, immediate |-> immediate]

Widths == {Wide, Narrow}
Instructions ==
    UNION {
      {Decoded("ADD_REG", 0, rn, 1, w, shift, amount, flags, 0) :
          rn \in {0, 31}, shift \in 0 .. 2, amount \in 0 .. w - 1, flags \in 0 .. 3} \cup
      {Decoded("LOGIC", 0, rn, 1, w, shift, amount, flags, 0) :
          rn \in {0, 31}, shift \in 0 .. 3, amount \in 0 .. w - 1, flags \in 0 .. 7} \cup
      {Decoded("ADD_IMM", rd, rn, 0, w, 0, 0, flags, i) :
          rd \in {0, 31}, rn \in {0, 31}, flags \in 0 .. 3, i \in Values} \cup
      {Decoded("LOGIC_IMM", rd, 0, 0, w, 0, 0, flags, i) :
          rd \in {0, 31}, flags \in 0 .. 3, i \in 0 .. Mask(w)} \cup
      {Decoded("WIDE", 0, 0, 0, w, 0, amount, flags, i * 2 ^ amount) :
          amount \in {k \in 0 .. w - 1 : k % Field = 0}, flags \in {0, 2, 3}, i \in 0 .. Mask(Field)} \cup
      {Decoded("SELECT", 0, 0, 1, w, cond, 0, flags, 0) : cond \in 0 .. 15, flags \in 0 .. 3} \cup
      {Decoded("MADD", 0, 0, 1, w, 0, 0, flags, 0) : flags \in {0, 1}} \cup
      {Decoded("CBZ", 0, 0, 0, w, 0, 0, flags, 3) : flags \in {0, 1}} \cup
      {Decoded(op, 0, 0, 0, w, 0, 0, flags, 3) : op \in {"BRANCH", "BRANCH_REG"}, flags \in {0, 1}} \cup
      {Decoded("TBZ", 0, 0, 0, w, 0, amount, flags, 3) : amount \in 0 .. Wide - 1, flags \in {0, 1}} \cup
      {Decoded("COND", 0, 0, 0, w, 0, 0, cond, 3) : cond \in 0 .. 15} \cup
      {Decoded(op, 0, 0, 0, w, 0, 0, 0, 3) : op \in {"NOP", "ADDRESS", "INVALID"}} : w \in Widths}

\* A word that has one pattern, and of another what that leaves open.
Words == {p.value \cup (q.value \ p.mask) : p, q \in Patterns}

Unanswered == <<>>
Init ==
    /\ answer = Unanswered
    /\ \/ \E a, b \in Values, d \in Instructions : question = [kind |-> "step", c |-> Start(a, b), d |-> d]
       \/ \E n \in {0, 1}, immr, imms \in 0 .. 63, width \in {32, 64} :
             question = [kind |-> "immediate", n |-> n, immr |-> immr, imms |-> imms, width |-> width]
       \/ \E word \in Words : question = [kind |-> "word", word |-> word]

Answers ==
    /\ answer = Unanswered
    /\ answer' = CASE question.kind = "step" -> <<Registered(question.c, question.d)>>
                   [] question.kind = "immediate" -> <<LogicalImmediate(question)>>
                   [] question.kind = "word" -> <<Matches(question.word)>>
    /\ UNCHANGED question

Spec == Init /\ [][Answers]_vars
-----------------------------------------------------------------------------
(* Properties.  Signed reads the low bits of a value as two's complement.  *)

Signed(v, width) == IF Bit(v, width - 1) THEN Low(v, width) - 2 ^ width ELSE Low(v, width)
Answered(ops) == answer # Unanswered /\ question.kind = "step" /\ question.d.op \in ops

\* The flags that ADDS and SUBS leave (arithmetic) are those of the exact sum or
\* difference of the operands, unsigned and signed, at either width.
FlagsAreExact ==
    (Answered({"ADD_IMM", "ADD_REG"}) /\ question.d.flags % 2 = 1) =>
        LET c == question.c
            d == question.d
            w == d.width
            a == Reg(c, d.rn, d.op = "ADD_IMM")
            b == Operand(c, d)
            Exact(x, y) == IF d.flags >= 2 THEN x - y ELSE x + y
            unsigned == Exact(Low(a, w), Low(b, w))
            signed == Exact(Signed(a, w), Signed(b, w))
        IN  /\ answer[1].nzcv.z = (unsigned % 2 ^ w = 0)
            /\ answer[1].nzcv.n = (Signed(unsigned % 2 ^ w, w) < 0)
            /\ answer[1].nzcv.c = IF d.flags >= 2 THEN unsigned >= 0 ELSE unsigned >= 2 ^ w
            /\ answer[1].nzcv.v = (signed # Signed(unsigned % 2 ^ w, w))

\* After a comparison (SUBS) the ten ordering conditions say how the operands
\* compare as unsigned and as signed integers.
ConditionsCompare ==
    (Answered({"ADD_IMM", "ADD_REG"}) /\ question.d.flags = 3) =>
        LET c == question.c
            d == question.d
            a == Reg(c, d.rn, d.op = "ADD_IMM")
            b == Operand(c, d)
            u == Low(a, d.width) - Low(b, d.width)
            s == Signed(a, d.width) - Signed(b, d.width)
            expected == (0 :> (u = 0)) @@ (1 :> (u # 0)) @@ (2 :> (u >= 0)) @@ (3 :> (u < 0))
                        @@ (8 :> (u > 0)) @@ (9 :> (u <= 0)) @@ (10 :> (s >= 0)) @@ (11 :> (s < 0))
                        @@ (12 :> (s > 0)) @@ (13 :> (s <= 0))
        IN  \A cond \in DOMAIN expected : Condition(answer[1].nzcv, cond) = expected[cond]

\* Shifted operands bit by bit: an ORR with the zero register yields the operand
\* of shifted, for all four kinds of shift.
ShiftsAreExact ==
    (Answered({"LOGIC"}) /\ question.d.flags = 1 /\ question.d.rn = 31) =>
        LET d == question.d
            b == question.c.x[1]
            From(i) == CASE d.shift = 0 -> i - d.amount
                         [] d.shift = 1 -> i + d.amount
                         [] d.shift = 2 -> Min({i + d.amount, d.width - 1})
                         [] d.shift = 3 -> (i + d.amount) % d.width
        IN  Bits(answer[1].x[0], Wide) =
                {i \in 0 .. d.width - 1 : From(i) \in 0 .. d.width - 1 /\ Bit(b, From(i))}

\* logical_immediate accepts what the architecture has: the element size is told
\* by the leading ones of imms, a run of ones fills part of it, and the value
\* repeats the run rotated by immr.
ImmediatesAreRuns ==
    (answer # Unanswered /\ question.kind = "immediate") =>
        LET q == question
            size == CASE q.n = 1 -> 64 [] OTHER ->
                    CASE q.imms < 32 -> 32 [] q.imms \in 32 .. 47 -> 16 [] q.imms \in 48 .. 55 -> 8
                      [] q.imms \in 56 .. 59 -> 4 [] q.imms \in 60 .. 61 -> 2 [] OTHER -> 0
            legal == size \in 2 .. q.width /\ (q.imms + 1) % size # 0
        IN  answer[1] = IF ~legal THEN Invalid
                     ELSE {i \in 0 .. q.width - 1 : (i + q.immr) % size <= q.imms % size}

\* No word fits two of decode's patterns, so the order of its tests decides
\* nothing.
WordsDecodeOneWay ==
    (answer # Unanswered /\ question.kind = "word") => Cardinality(answer[1]) = 1
=============================================================================
