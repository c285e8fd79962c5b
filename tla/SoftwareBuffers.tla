-------------------------- MODULE SoftwareBuffers --------------------------
(***************************************************************************)
(* GuestSoftwareVM.c, buffers: the C library's string and memory functions *)
(* and file transfers for pointers into the software address range, which  *)
(* no host instruction can read.  They work through small chunks copied    *)
(* out of the sparse memory; a pointer may just as well be native.         *)
(*                                                                         *)
(* Cells 0 .. SoftCells - 1 are software memory in pages of PageCells, of  *)
(* which the first q.mapped are mapped; from SoftCells on there is one     *)
(* native object of q.object cells.  A behaviour asks one question and     *)
(* gets its answer.                                                        *)
(***************************************************************************)
EXTENDS Integers, Sequences, FiniteSetsExt

CONSTANTS SoftCells, NativeCells, PageCells,
          ScanSize,     \* bytes of a chunk that is scanned
          BounceSize,   \* bytes of a chunk that is copied
          Bytes         \* 0 is one of them

VARIABLES question, answer
vars == <<question, answer>>

All == 0 .. SoftCells + NativeCells - 1
Soft(p) == p < SoftCells
Cells(p, n) == p .. p + n - 1
Readable(q, p, n) == \A c \in Cells(p, n) : IF Soft(c) THEN c < q.mapped ELSE c < SoftCells + q.object

\* What a function leaves: the value it returns, the memory, and the bytes it
\* put into a file.  The other values are lengths, differences or NULL (-1).
Result(value, mem, sent) == [value |-> value, mem |-> mem, sent |-> sent]
Aborted == -9
Failed == -8
TooLong == -7
NULL == -1

Put(mem, p, bytes) == [c \in All |-> IF c - p + 1 \in DOMAIN bytes THEN bytes[c - p + 1] ELSE mem[c]]
Get(mem, p, n) == [i \in 1 .. n |-> mem[p + i - 1]]

-----------------------------------------------------------------------------
(* Scans.  A chunk that cannot be read aborts the process.                 *)

\* A chunk ends with its page.
ScanChunk(p, remaining) ==
    Min({remaining, ScanSize} \cup IF Soft(p) THEN {PageCells - (p % PageCells)} ELSE {})

\* The first of n cells from p with a byte in wanted, as an index, or n.
IndexOf(mem, p, n, wanted) == Min({i \in 0 .. n - 1 : mem[p + i] \in wanted} \cup {n})

\* Chunk by chunk to the first byte wanted: its index, limit, or abort.
Scan(q, p, limit, wanted) ==
    LET seek[done \in 0 .. limit] ==
            LET n == ScanChunk(p + done, limit - done)
                found == IndexOf(q.mem, p + done, n, wanted)
            IN  IF done = limit THEN limit
                ELSE IF ~Readable(q, p + done, n) THEN Aborted
                ELSE IF found < n THEN done + found ELSE seek[done + n]
    IN  seek[0]

StrNLen(q) == Scan(q, q.p, q.n, {0})
MemChr(q) == LET at == Scan(q, q.p, q.n, {q.byte}) IN IF at = q.n THEN NULL ELSE at

\* gsv_strchr has no limit: it finds the byte, the end, or memory that is not
\* there.
StrChr(q) ==
    LET space == SoftCells - q.p
        at == Scan(q, q.p, space, {0, q.byte})
    IN  IF at \in {Aborted, space} THEN Aborted ELSE IF q.mem[q.p + at] = q.byte THEN at ELSE NULL

\* Of a native string nothing behind its end is touched.
StringChunk(q, p, n) ==
    LET length == IndexOf(q.mem, p, n, {0})
    IN  IF ~Soft(p) /\ length < n THEN length + 1 ELSE n

\* The first difference; strings end at a zero.
Compare(q, string) ==
    LET diff[done \in 0 .. q.n] ==
            LET a == q.p + done
                b == q.r + done
                chunk == Min({ScanChunk(a, q.n - done), ScanChunk(b, q.n - done)})
                n == IF string THEN StringChunk(q, b, StringChunk(q, a, chunk)) ELSE chunk
                differ == {i \in 0 .. n - 1 : q.mem[a + i] # q.mem[b + i]}
                ends == IF string THEN {i \in 0 .. n - 1 : q.mem[a + i] = 0} ELSE {}
                first == Min(differ \cup ends)
            IN  IF done = q.n THEN 0
                ELSE IF ~Readable(q, a, n) \/ ~Readable(q, b, n) THEN Aborted
                ELSE IF differ \cup ends # {} THEN q.mem[a + first] - q.mem[b + first]
                ELSE diff[done + n]
    IN  diff[0]

\* gsv_string: byte by byte into a native buffer of n cells at r, up to and with
\* the end, the end of the buffer, or a byte that cannot be read.
CopiedString(q) ==
    LET room == Min({q.n, q.mapped - q.p})
        length == IndexOf(q.mem, q.p, room, {0})
        copied == Min({length + 1, room})
    IN  Result(IF length < room THEN copied ELSE IF room = q.n THEN TooLong ELSE Failed,
               Put(q.mem, q.r, Get(q.mem, q.p, copied)), <<>>)

-----------------------------------------------------------------------------
(* Transfers.  Software memory is prepared as a whole before any byte.     *)

Prepared(q, p, n) == Soft(p) => Readable(q, p, n)
Chunk(size, done) == Min({size - done, BounceSize})

\* Wrong form of Reverse: always forwards.
ReverseNever(q) == FALSE

Reverse(q) == q.r > q.p /\ q.r - q.p < q.n

\* gsv_copy from p to r, chunk by chunk, from the end where that overlaps.
Copy(q) ==
    LET moved[done \in 0 .. q.n] ==     \* the memory before the chunk at done
            LET before == Max({d \in 0 .. done - 1 : d % BounceSize = 0})
                n == Chunk(q.n, before)
                offset == IF Reverse(q) THEN q.n - before - n ELSE before
            IN  IF done = 0 THEN q.mem ELSE Put(moved[before], q.r + offset, Get(moved[before], q.p + offset, n))
    IN  IF Prepared(q, q.p, q.n) /\ Prepared(q, q.r, q.n) THEN Result(0, moved[q.n], <<>>)
        ELSE Result(Failed, q.mem, <<>>)

Fill(q) ==
    IF Prepared(q, q.p, q.n) THEN Result(0, Put(q.mem, q.p, [i \in 1 .. q.n |-> q.byte]), <<>>)
    ELSE Result(Failed, q.mem, <<>>)

\* done bytes go from the file to the buffer or the other way.
Transferred(q, value, done) ==
    IF q.writing THEN Result(value, q.mem, Get(q.mem, q.p, done))
    ELSE Result(value, Put(q.mem, q.p, SubSeq(q.file, 1, done)), <<>>)

\* Chunks until one comes short: bytes moved by a file with Len(q.file) to give
\* or to take.
StreamCount(q, total) ==
    LET moved[done \in 0 .. total] ==
            LET n == Chunk(total, done)
                got == Min({n, Len(q.file) - done})
            IN  IF done = total THEN done ELSE IF got < n THEN done + got ELSE moved[done + n]
    IN  moved[0]

\* gsv_fread and gsv_fwrite of n elements; whole elements are counted.
StreamIO(q) ==
    LET total == q.size * q.n
        done == StreamCount(q, total)
    IN  IF total = 0 \/ ~Prepared(q, q.p, total) THEN Result(0, q.mem, <<>>)
        ELSE Transferred(q, done \div q.size, Min({done, Len(q.file)}))

\* gsv_read and gsv_write: one system call with ordinary memory.
FileIO(q) ==
    LET done == Min({q.n, Len(q.file)})
    IN  IF Prepared(q, q.p, q.n) THEN Transferred(q, done, done) ELSE Result(Failed, q.mem, <<>>)

-----------------------------------------------------------------------------
(* Questions.  At least one pointer is into the software range; native     *)
(* objects hold what the caller says they hold.                            *)

Pairs == {"strncmp", "memcmp", "copy", "string"}
Files == {"stream", "file"}
Kinds == {"strnlen", "memchr", "strchr", "fill"} \cup Pairs \cup Files
Unanswered == <<>>

Answer(q) ==
    CASE q.kind = "strnlen" -> Result(StrNLen(q), q.mem, <<>>)
      [] q.kind = "memchr" -> Result(MemChr(q), q.mem, <<>>)
      [] q.kind = "strchr" -> Result(StrChr(q), q.mem, <<>>)
      [] q.kind = "strncmp" -> Result(Compare(q, TRUE), q.mem, <<>>)
      [] q.kind = "memcmp" -> Result(Compare(q, FALSE), q.mem, <<>>)
      [] q.kind = "string" -> CopiedString(q)
      [] q.kind = "copy" -> Copy(q)
      [] q.kind = "fill" -> Fill(q)
      [] q.kind = "stream" -> StreamIO(q)
      [] q.kind = "file" -> FileIO(q)

\* A pointer and a length a caller may pass: a native string may end early.
Passed(q, p) ==
    IF Soft(p) THEN p < q.mapped /\ p + q.size * q.n <= SoftCells
    ELSE LET left == SoftCells + q.object - p
         IN  left > 0 /\ (q.n <= left \/ (q.kind = "strncmp" /\ IndexOf(q.mem, p, left, {0}) < left
                                          /\ p + q.n <= SoftCells + NativeCells))

Init ==
    /\ answer = Unanswered
    /\ \E mem \in [All -> Bytes], kind \in Kinds, n \in 0 .. SoftCells, object \in 1 .. NativeCells,
          mapped \in {m \in 1 .. SoftCells : m % PageCells = 0} :
       \E p \in All, r \in (IF kind \in Pairs THEN All ELSE {0}), writing \in (IF kind \in Files THEN BOOLEAN ELSE {FALSE}),
          byte \in (IF kind \in {"memchr", "strchr", "fill"} THEN Bytes ELSE {0}),
          size \in (IF kind = "stream" THEN 1 .. 2 ELSE {1}),
          length \in (IF kind \in Files THEN 0 .. SoftCells ELSE {0}) :
          /\ question = [kind |-> kind, mem |-> mem, mapped |-> mapped, object |-> object, p |-> p, r |-> r, n |-> n,
                         byte |-> byte, size |-> size, file |-> [i \in 1 .. length |-> 1], writing |-> writing]
          /\ Soft(p) \/ (kind \in Pairs \ {"string"} /\ Soft(r))
          /\ kind = "string" => ~Soft(r)
          /\ Passed(question, p) /\ (kind \in Pairs => Passed(question, r))

Answers == answer = Unanswered /\ answer' = <<Answer(question)>> /\ UNCHANGED question

Spec == Init /\ [][Answers]_vars

-----------------------------------------------------------------------------
(* Properties: what the C library's functions promise, byte by byte.       *)

Answered(kinds) == answer # Unanswered /\ question.kind \in kinds
Value == answer[1].value

\* gsv_strnlen, gsv_memchr and gsv_strchr return what their namesakes do, and
\* abort only where those would have touched a cell that is not mapped: no chunk
\* reaches past the page in which the scan ends.
ScansAreExact ==
    Answered({"strnlen", "memchr", "strchr"}) =>
        LET q == question
            wanted == CASE q.kind = "strnlen" -> {0} [] q.kind = "memchr" -> {q.byte} [] OTHER -> {0, q.byte}
            limit == IF q.kind = "strchr" THEN SoftCells - q.p ELSE q.n
            end == IndexOf(q.mem, q.p, limit, wanted)
        IN  IF ~Readable(q, q.p, Min({end + 1, limit})) THEN Value = Aborted
            ELSE CASE q.kind = "strnlen" -> Value = end
                   [] q.kind = "memchr" -> Value = IF end < limit THEN end ELSE NULL
                   [] OTHER -> end < limit => Value = IF q.mem[q.p + end] = q.byte THEN end ELSE NULL

\* gsv_strncmp and gsv_memcmp order two buffers as their namesakes do wherever
\* the chunks of the two sides fall, and abort only where those would have read
\* memory that is not there: a comparison of strings touches nothing behind the
\* end of a native one.
ComparisonsAreExact ==
    Answered({"strncmp", "memcmp"}) =>
        LET q == question
            ends == IF q.kind = "strncmp" THEN {0} ELSE {}
            stop == {i \in 0 .. q.n - 1 : q.mem[q.p + i] # q.mem[q.r + i] \/ q.mem[q.p + i] \in ends}
            read == IF stop = {} THEN q.n ELSE Min(stop) + 1
        IN  IF ~Readable(q, q.p, read) \/ ~Readable(q, q.r, read) THEN Value = Aborted
            ELSE Value = IF stop = {} THEN 0 ELSE q.mem[q.p + Min(stop)] - q.mem[q.r + Min(stop)]

\* gsv_copy is memmove: the destination ends up with the bytes the source had,
\* overlapping or not, and a copy that cannot be made changes nothing.
CopiesMove ==
    Answered({"copy"}) =>
        answer[1].mem = IF Value = 0 THEN Put(question.mem, question.r, Get(question.mem, question.p, question.n))
                        ELSE question.mem

\* Transfers move the next bytes, as many as there are, and report no more than
\* they moved: in elements (fread, fwrite) or bytes (read, write).
TransfersReportWhatTheyMove ==
    (Answered(Files) /\ Readable(question, question.p, question.size * question.n)) =>
        LET q == question
            moved == Min({q.size * q.n, Len(q.file)})
        IN  /\ Value = moved \div q.size
            /\ IF q.writing THEN answer[1].sent = Get(q.mem, q.p, moved)
               ELSE answer[1].mem = Put(q.mem, q.p, SubSeq(q.file, 1, moved))

\* gsv_string hands out a string whole, its end included, or not at all, and
\* stays within the caller's buffer.
StringsAreWhole ==
    Answered({"string"}) =>
        LET q == question
            copy == Get(answer[1].mem, q.r, Value)
        IN  /\ Value > 0 => Value <= q.n /\ copy = Get(q.mem, q.p, Value) /\ \A i \in 1 .. Value : copy[i] = 0 <=> i = Value
            /\ \A c \in All \ Cells(q.r, q.n) : answer[1].mem[c] = q.mem[c]
=============================================================================
