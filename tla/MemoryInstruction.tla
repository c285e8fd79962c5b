------------------------- MODULE MemoryInstruction -------------------------
(***************************************************************************)
(* GuestMemoryInstruction.c: one load, store or atomic instruction carried *)
(* out on the sparse memory for a thread that trapped on it.  An           *)
(* instruction comes with its fields taken apart; the memory is any that   *)
(* reads, writes, exchanges and updates whole ranges or fails.             *)
(*                                                                         *)
(* A byte has one bit here: a register of 64 bits has 8, one of 32 has 4.  *)
(* Vectors are moved, not computed with: a structure access is answered by *)
(* the bytes it moves, at their real sizes.                                *)
(*                                                                         *)
(* A behaviour asks one question and gets its answer.                      *)
(***************************************************************************)
EXTENDS Integers, Sequences, FiniteSetsExt, TLC

CONSTANTS
    Cells,        \* addresses that are mapped: 0 .. Cells - 1
    Bases,        \* addresses in base registers
    Contents,     \* values of the other registers
    SpAlign       \* what the stack pointer is a multiple of

VARIABLES question, answer
vars == <<question, answer>>

Wide == 8
Narrow == 4
Low(v, bits) == v % 2 ^ bits
Extend(v, bits) == IF v >= 2 ^ (bits - 1) THEN Low(v - 2 ^ bits, Wide) ELSE v
Byte(v, k) == (v \div 2 ^ k) % 2

Get(r, n, stack) == IF n < 31 THEN r.x[n] ELSE IF stack THEN r.sp ELSE 0
Set(r, n, v) == IF n < 31 THEN [r EXCEPT !.x[n] = v] ELSE r
SetBase(r, n, v) == IF n = 31 THEN [r EXCEPT !.sp = v] ELSE [r EXCEPT !.x[n] = v]
ScalarBytes(v, size) == [k \in 1 .. size |-> Byte(v, k - 1)]
ScalarValue(bytes) == LET Term(k) == bytes[k] * 2 ^ (k - 1) IN MapThenSumSet(Term, DOMAIN bytes)

Answer(result, r, mem) == [result |-> result, r |-> r, mem |-> mem]
Advanced(r) == [r EXCEPT !.pc = @ + 1]

-----------------------------------------------------------------------------
(* The memory (external): accesses succeed on mapped cells only.           *)

Accessible(address, n) == address + n <= Cells
BytesAt(mem, address, n) == [k \in 1 .. n |-> mem[address + k - 1]]
Stored(mem, address, bytes) ==
    [a \in DOMAIN mem |-> IF a - address + 1 \in DOMAIN bytes THEN bytes[a - address + 1] ELSE mem[a]]

-----------------------------------------------------------------------------
(* Scalar accesses: [load, sign, narrow, size, pair, rt, rt2, rn, mode,    *)
(* offset, aligned].  The mode is "offset", "pre" or "post"; the offset is *)
(* what the immediate or the index register contributes.                   *)

Writeback(i) == i.mode \in {"pre", "post"}
Count(i) == IF i.pair THEN 2 ELSE 1
Index(i, k) == IF k = 1 THEN i.rt ELSE i.rt2

\* Forms whose outcome the architecture leaves open.
Unsupported(i) ==
    \/ i.pair /\ i.load /\ i.rt = i.rt2
    \/ Writeback(i) /\ i.rn # 31 /\ (i.rn = i.rt \/ (i.pair /\ i.rn = i.rt2))

Bytes(r, i) == ScalarBytes(Get(r, i.rt, FALSE), i.size)
               \o IF i.pair THEN ScalarBytes(Get(r, i.rt2, FALSE), i.size) ELSE <<>>

Value(bytes, i) ==
    LET v == ScalarValue(bytes)
        extended == IF i.sign THEN Extend(v, i.size) ELSE v
    IN  IF i.narrow THEN Low(extended, Narrow) ELSE extended
Loaded(r, bytes, i) ==
    LET Part(k) == Value(SubSeq(bytes, (k - 1) * i.size + 1, k * i.size), i)
        first == Set(r, i.rt, Part(1))
    IN  IF i.pair THEN Set(first, i.rt2, Part(2)) ELSE first

Scalar(r, mem, i) ==
    LET base == Get(r, i.rn, TRUE)
        newbase == Low(base + i.offset, Wide)
        address == IF i.mode = "post" THEN base ELSE newbase
        Finished(s) == Advanced(IF Writeback(i) THEN SetBase(s, i.rn, newbase) ELSE s)
    IN  IF i.rn = 31 /\ r.sp % SpAlign # 0 THEN Answer("FAULT", r, mem)
        ELSE IF Unsupported(i) THEN Answer("UNSUPPORTED", r, mem)
        ELSE IF i.aligned /\ address % i.size # 0 THEN Answer("FAULT", r, mem)
        ELSE IF ~Accessible(address, Count(i) * i.size) THEN Answer("FAULT", r, mem)
        ELSE IF i.load THEN Answer("OK", Finished(Loaded(r, BytesAt(mem, address, Count(i) * i.size), i)), mem)
        ELSE Answer("OK", Finished(r), Stored(mem, address, Bytes(r, i)))

-----------------------------------------------------------------------------
(* Atomics: [kind, size, rs, rt, rn]; kind is "cas", "casp" or "add", which *)
(* stands for the updates of gm_sparse_atomic.                              *)

\* Wrong form of Atomic: a failed exchange keeps what was expected.
AtomicKeepsExpected(r, mem, i) ==
    LET address == Get(r, i.rn, TRUE)
        old == BytesAt(mem, address, i.size)
        expected == ScalarBytes(Get(r, i.rs, FALSE), i.size)
    IN  IF ~Accessible(address, i.size) \/ address % i.size # 0 THEN Answer("FAULT", r, mem)
        ELSE IF i.kind # "cas" THEN Answer("UNSUPPORTED", r, mem)
        ELSE IF old # expected THEN Answer("OK", Advanced(r), mem)
        ELSE Answer("OK", Advanced(r), Stored(mem, address, ScalarBytes(Get(r, i.rt, FALSE), i.size)))

Atomic(r, mem, i) ==
    LET address == Get(r, i.rn, TRUE)
        pair == i.kind = "casp"
        total == IF pair THEN 2 * i.size ELSE i.size
        Two(n) == ScalarBytes(Get(r, n, FALSE), i.size)
                  \o IF pair THEN ScalarBytes(Get(r, n + 1, FALSE), i.size) ELSE <<>>
        old == BytesAt(mem, address, total)
        first == ScalarValue(SubSeq(old, 1, i.size))
        second == ScalarValue(SubSeq(old, i.size + 1, total))
        new == IF i.kind = "add" THEN ScalarBytes(first + Get(r, i.rs, FALSE), i.size)
               ELSE IF old = Two(i.rs) THEN Two(i.rt) ELSE old
        got == CASE i.kind = "add" -> Set(r, i.rt, first)
                 [] i.kind = "cas" -> Set(r, i.rs, first)
                 [] i.kind = "casp" -> Set(Set(r, i.rs, first), i.rs + 1, second)
    IN  IF i.rn = 31 /\ r.sp % SpAlign # 0 THEN Answer("FAULT", r, mem)
        ELSE IF pair /\ (i.rs % 2 = 1 \/ i.rt % 2 = 1) THEN Answer("UNSUPPORTED", r, mem)
        ELSE IF ~Accessible(address, total) \/ address % total # 0 THEN Answer("FAULT", r, mem)
        ELSE Answer("OK", Advanced(got), Stored(mem, address, new))

-----------------------------------------------------------------------------
(* Structures: [single, load, q, op, s, size, r]; op is three bits for a   *)
(* single structure and four for several.  Answered by the layout.         *)

NoLayout == [registers |-> 0]
Laid(registers, repeats, element, lane, replicate, i) ==
    [registers |-> registers, repeats |-> repeats, element |-> element, lane |-> lane,
     replicate |-> replicate, lanes |-> IF i.single THEN 1 ELSE (8 * (1 + i.q)) \div element]

Lane(i) == CASE i.op \div 2 = 0 -> i.q * 8 + i.s * 4 + i.size
             [] i.op \div 2 = 1 -> i.q * 4 + i.s * 2 + i.size \div 2
             [] OTHER -> IF i.size % 2 = 1 THEN i.q ELSE i.q * 2 + i.s

SingleLayout(i) ==
    LET registers == (i.op % 2) * 2 + i.r + 1
        scale == i.op \div 2
        element == CASE scale = 0 -> 1 [] scale = 1 -> 2 [] OTHER -> IF i.size % 2 = 1 THEN 8 ELSE 4
    IN  IF scale = 3 THEN IF ~i.load \/ i.s = 1 THEN NoLayout ELSE Laid(registers, 1, 2 ^ i.size, 0, TRUE, i)
        ELSE IF scale = 1 /\ i.size % 2 = 1 THEN NoLayout
        ELSE IF scale = 2 /\ (i.size >= 2 \/ (i.size = 1 /\ i.s = 1)) THEN NoLayout
        ELSE Laid(registers, 1, element, Lane(i), FALSE, i)

SeveralLayout(i) ==
    LET registers == CASE i.op = 0 -> 4 [] i.op = 4 -> 3 [] i.op = 8 -> 2 [] OTHER -> 1
        repeats == CASE i.op = 2 -> 4 [] i.op = 6 -> 3 [] i.op = 10 -> 2 [] OTHER -> 1
    IN  IF i.r = 1 \/ i.op \notin {0, 2, 4, 6, 7, 8, 10} THEN NoLayout
        ELSE IF i.size = 3 /\ i.q = 0 /\ registers # 1 THEN NoLayout
        ELSE Laid(registers, repeats, 2 ^ i.size, 0, FALSE, i)

Layout(i) == IF i.single THEN SingleLayout(i) ELSE SeveralLayout(i)
Total(l) == l.registers * l.repeats * l.lanes * l.element

\* The bytes moved: [reg, at, from], register and byte of it, byte of memory.
Moves(i, l) ==
    UNION {LET offset == ((repeat * l.lanes + e) * l.registers + reg) * l.element
               at == IF l.replicate THEN {k * l.element : k \in 0 .. (8 * (1 + i.q)) \div l.element - 1}
                     ELSE {(IF i.single THEN l.lane ELSE e) * l.element}
           IN  {[reg |-> repeat * l.registers + reg, at |-> a + b, from |-> offset + b] :
                   a \in at, b \in 0 .. l.element - 1} :
           repeat \in 0 .. l.repeats - 1, e \in 0 .. l.lanes - 1, reg \in 0 .. l.registers - 1}

-----------------------------------------------------------------------------
(* Questions.                                                              *)

Registers(base, a, b) == [x |-> (0 :> a) @@ (1 :> base) @@ (2 :> b) @@ (3 :> 0) @@ (30 :> b), sp |-> base, pc |-> 0]
Memories == {[a \in 0 .. Cells - 1 |-> (a + k) % 2] : k \in {0, 1}} \cup {[a \in 0 .. Cells - 1 |-> 1]}

ScalarInstructions ==
    {[load |-> load, sign |-> sign, narrow |-> narrow, size |-> size, pair |-> pair, rt |-> rt, rt2 |-> 2,
      rn |-> rn, mode |-> mode, offset |-> offset, aligned |-> aligned] :
        load, pair, sign, narrow, aligned \in BOOLEAN, size \in {1, 2, 4, 8}, rt \in {0, 1, 2, 31}, rn \in {1, 31},
        mode \in {"offset", "pre", "post"}, offset \in {-1, 0, 2}}
\* What the encodings have: signs on loads, narrow ones on signed loads, pairs
\* of four and eight bytes, alignment where nothing else is.
Encoded(i) ==
    /\ i.sign => i.load /\ i.size < 8
    /\ i.narrow => i.sign /\ i.size <= 2 /\ ~i.pair
    /\ i.pair => i.size >= 4
    /\ i.aligned => ~i.pair /\ ~i.sign /\ i.mode = "offset" /\ i.offset = 0

AtomicInstructions ==
    {[kind |-> kind, size |-> size, rs |-> rs, rt |-> rt, rn |-> rn] :
        kind \in {"cas", "casp", "add"}, size \in {1, 2, 4}, rs \in {0, 30}, rt \in {2, 3, 31}, rn \in {1, 31}}
AtomicEncoded(i) == i.kind = "casp" => i.size = 4 /\ i.rt # 31

Structures ==
    {[single |-> single, load |-> load, q |-> q, op |-> op, s |-> s, size |-> size, r |-> r] :
        single, load \in BOOLEAN, q, s, r \in {0, 1}, op \in 0 .. 15, size \in 0 .. 3}
StructureEncoded(i) == IF i.single THEN i.op < 8 ELSE i.s = 0

Unanswered == <<>>
Asked(kind, r, mem, i) == [kind |-> kind, r |-> r, mem |-> mem, i |-> i]
Init ==
    /\ answer = Unanswered
    /\ \/ \E base \in Bases, a, b \in Contents, mem \in Memories :
             \/ \E i \in {j \in ScalarInstructions : Encoded(j)} : question = Asked("scalar", Registers(base, a, b), mem, i)
             \/ \E i \in {j \in AtomicInstructions : AtomicEncoded(j)} : question = Asked("atomic", Registers(base, a, b), mem, i)
       \/ \E i \in {j \in Structures : StructureEncoded(j)} : question = Asked("structure", 0, 0, i)

Answers ==
    /\ answer = Unanswered
    /\ LET q == question
       IN  answer' = CASE q.kind = "scalar" -> <<Scalar(q.r, q.mem, q.i)>>
                       [] q.kind = "atomic" -> <<Atomic(q.r, q.mem, q.i)>>
                       [] q.kind = "structure" -> <<Layout(q.i)>>
    /\ UNCHANGED question

Spec == Init /\ [][Answers]_vars

-----------------------------------------------------------------------------
(* Properties.                                                             *)

Answered(kind) == answer # Unanswered /\ question.kind = kind

\* gm_memory_step either carries an instruction out or leaves registers, base
\* register included, and memory alone, so that it can be tried again.
FailuresChangeNothing ==
    (Answered("scalar") \/ Answered("atomic")) =>
        (answer[1].result # "OK" => answer[1].r = question.r /\ answer[1].mem = question.mem)

\* Where the architecture has the access, and what the base is after it.
Address(q) == IF q.i.mode = "post" THEN Get(q.r, q.i.rn, TRUE) ELSE Low(Get(q.r, q.i.rn, TRUE) + q.i.offset, Wide)

\* A load yields the integer the bytes are, signed or not, and at the width it
\* was asked for; a pair's second half does not disturb the first.
LoadsReadIntegers ==
    (Answered("scalar") /\ question.i.load /\ answer[1].result = "OK") =>
        LET i == question.i
            Unsigned(k) == ScalarValue(BytesAt(question.mem, Address(question) + (k - 1) * i.size, i.size))
            Integer(k) == IF i.sign /\ Unsigned(k) >= 2 ^ (i.size - 1) THEN Unsigned(k) - 2 ^ i.size ELSE Unsigned(k)
        IN  \A k \in 1 .. Count(i) : Index(i, k) # 31 =>
                answer[1].r.x[Index(i, k)] = Integer(k) % 2 ^ (IF i.narrow THEN Narrow ELSE Wide)

\* What a store writes, a load from the same place reads back, cut to its size;
\* no other cell changes.
StoresReadBack ==
    (Answered("scalar") /\ ~question.i.load /\ answer[1].result = "OK") =>
        LET i == question.i
            to == Address(question)
        IN  /\ \A k \in 1 .. Count(i) :
                  ScalarValue(BytesAt(answer[1].mem, to + (k - 1) * i.size, i.size)) = Low(Get(question.r, Index(i, k), FALSE), i.size)
            /\ \A a \in DOMAIN question.mem : a \notin to .. to + Count(i) * i.size - 1 => answer[1].mem[a] = question.mem[a]

\* Compare-and-exchange tells by its register whether it stored: the register
\* keeps what was expected exactly when the new value is in memory.
ExchangesTell ==
    (Answered("atomic") /\ question.i.kind = "cas" /\ answer[1].result = "OK" /\ question.i.rs # 31) =>
        LET i == question.i
            at == Get(question.r, i.rn, TRUE)
            old == ScalarValue(BytesAt(question.mem, at, i.size))
            same == old = Low(question.r.x[i.rs], i.size)
        IN  /\ answer[1].r.x[i.rs] = old
            /\ ScalarValue(BytesAt(answer[1].mem, at, i.size)) = IF same THEN Low(Get(question.r, i.rt, FALSE), i.size) ELSE old

\* A structure access stays inside the 64 bytes it is buffered in and inside
\* the 16 of a register, uses every byte of memory, and no byte of a register
\* twice; different lanes of a single structure are different bytes.
StructuresFit ==
    (Answered("structure") /\ answer[1] # NoLayout) =>
        LET l == answer[1]
            moves == Moves(question.i, l)
        IN  /\ Total(l) <= 64
            /\ \A m \in moves : m.at < 16 /\ m.reg < 4
            /\ {m.from : m \in moves} = 0 .. Total(l) - 1
            /\ Cardinality({<<m.reg, m.at>> : m \in moves}) = Cardinality(moves)
            /\ question.i.single /\ ~l.replicate => question.i.q = (IF l.lane * l.element >= 8 THEN 1 ELSE 0)

\* Several structures: LD2 to LD4 deal the elements of memory out to the
\* registers in turn; LD1 fills one register after the other.
StructuresInterleave ==
    (Answered("structure") /\ ~question.i.single /\ answer[1] # NoLayout) =>
        LET i == question.i
            width == 8 * (1 + i.q)
            size == 2 ^ i.size
            Dealt(n, m) == LET k == m.from \div size IN m.reg = k % n /\ m.at = (k \div n) * size + (m.from % size)
        IN  \A m \in Moves(i, answer[1]) :
                CASE i.op = 0 -> Dealt(4, m) [] i.op = 4 -> Dealt(3, m) [] i.op = 8 -> Dealt(2, m)
                  [] OTHER -> m.reg = m.from \div width /\ m.at = m.from % width
=============================================================================
