------------------------------- MODULE Fixups -------------------------------
(***************************************************************************)
(* GuestFixups.c, dyld info: the little opcode programs by which an image  *)
(* lists the pointers to slide (rebase) and to fill with imports (bind,    *)
(* lazy and weak), and the variable-length integers in them.               *)
(*                                                                         *)
(* Addresses are in units of half a pointer, and 64 bits are Modulus.  An  *)
(* opcode is a record; its operands are already decoded (Leb).  A          *)
(* behaviour applies one image's programs and ends.                        *)
(***************************************************************************)
EXTENDS Integers, Sequences, SequencesExt

CONSTANTS Segments,     \* [address, size, prot], in load order
          Dylibs,       \* dylib_count
          Modulus, Slide, Symbols,
          CountLimit,   \* 1000000: of one opcode, and of all
          MaxLength,    \* opcodes in a program
          GroupBits, WordBits   \* a variable-length integer: 7 and 64

VARIABLES question, answer
vars == <<question, answer>>

Top == Modulus - 1
Pointer == 2
NoSegment == Len(Segments)      \* SIZE_MAX
NoSymbol == "none"
Self == 0
WeakLookup == -3
Wrap(v) == v % Modulus
Cells == UNION {s.address .. s.address + s.size - 1 : s \in {Segments[i] : i \in DOMAIN Segments}}

\* Segments count from 0.
Segment(seg) == Segments[seg + 1]

\* Wrong form of Target: a pointer may begin on the last cell.
TargetShort(seg, offset) ==
    seg < Len(Segments) /\ Segment(seg).prot /\ offset < Segment(seg).size /\ offset % Pointer = 0

\* A whole, aligned pointer of a mapped segment.
Target(seg, offset) ==
    /\ seg < Len(Segments) /\ Segment(seg).prot
    /\ offset <= Segment(seg).size /\ Pointer <= Segment(seg).size - offset /\ offset % Pointer = 0

\* What a program runs on: memory, the pointers told to the observer, a count.
Begin(mem, lazy, weak) ==
    [status |-> "running", mem |-> mem, log |-> <<>>, fixed |-> 0, lazy |-> lazy, weakStream |-> weak,
     seg |-> NoSegment, offset |-> 0, type |-> IF lazy \/ weak THEN 1 ELSE 0, addend |-> 0,
     ordinal |-> IF weak THEN WeakLookup ELSE Self, weak |-> FALSE, symbol |-> NoSymbol, ended |-> FALSE]
Fails(s) == [s EXCEPT !.status = "failed"]
Repeat(Step(_), s, count) == FoldLeft(LAMBDA acc, k : IF acc.status = "running" THEN Step(acc) ELSE acc, s, [k \in 1 .. count |-> k])

-----------------------------------------------------------------------------
(* rebases.                                                                *)

\* Adds without wrapping.
Add(s, n) == IF n > Top - s.offset THEN Fails(s) ELSE [s EXCEPT !.offset = @ + n]

Rebase(s, skip) ==
    LET address == Segment(s.seg).address + s.offset
        value == Wrap(s.mem[address] + Slide)
        written == [s EXCEPT !.mem[address] = value, !.fixed = @ + 1]
        moved == Add(written, Pointer + skip)
    IN  IF s.type # 1 \/ s.fixed = CountLimit \/ ~Target(s.seg, s.offset) THEN Fails(s)
        ELSE IF moved.status = "failed" THEN moved
        ELSE [moved EXCEPT !.log = Append(@, <<address, value>>)]

RebaseOp(s, o) ==
    CASE o.op = "done" -> [s EXCEPT !.status = "done"]
      [] o.op = "type" -> [s EXCEPT !.type = o.n]
      [] o.op = "segment" -> [s EXCEPT !.seg = o.n, !.offset = o.skip]
      [] o.op = "add" -> Add(s, o.skip)
      [] o.op = "times" ->
            IF o.n > CountLimit \/ o.skip > Top - Pointer THEN Fails(s)
            ELSE LET Step(acc) == Rebase(acc, o.skip) IN Repeat(Step, s, o.n)
      [] OTHER -> Fails(s)

-----------------------------------------------------------------------------
(* binds.                                                                  *)

\* The resolver, external: symbol "a" is found everywhere, others only weakly.
Resolves(symbol, weak) == symbol = "a" \/ weak
ResolvedTo(symbol, ordinal) == IF symbol = "a" THEN 8 + ordinal ELSE 0

Behind(offset, skip) == Wrap(offset + Pointer + skip)

\* Adds that wrap: linkers encode moves backwards so.
Bind(s, skip) ==
    LET address == Segment(s.seg).address + s.offset
        value == Wrap(ResolvedTo(s.symbol, s.ordinal) + s.addend)
    IN  IF \/ s.type # 1 \/ s.symbol = NoSymbol \/ s.ordinal > Dylibs \/ s.ordinal < WeakLookup
           \/ s.fixed = CountLimit \/ ~Target(s.seg, s.offset) \/ ~Resolves(s.symbol, s.weak \/ s.weakStream)
        THEN Fails(s)
        ELSE [s EXCEPT !.mem[address] = value, !.fixed = @ + 1, !.log = Append(@, <<address, value>>),
                       !.offset = Behind(@, skip)]

\* DONE between lazy records starts from nothing.
Ended(s) ==
    [s EXCEPT !.seg = NoSegment, !.offset = 0, !.addend = 0, !.ordinal = 0, !.weak = FALSE,
              !.type = 1, !.symbol = NoSymbol, !.ended = TRUE]

BindOp(before, o) ==
    LET s == [before EXCEPT !.ended = FALSE]
    IN  CASE o.op = "done" -> IF s.lazy THEN Ended(s) ELSE [s EXCEPT !.status = "done"]
          [] o.op = "type" -> [s EXCEPT !.type = o.n]
          [] o.op = "segment" -> [s EXCEPT !.seg = o.n, !.offset = o.skip]
          [] o.op = "add" -> [s EXCEPT !.offset = Wrap(@ + o.skip)]
          [] o.op = "ordinal" -> IF o.n > Dylibs THEN Fails(s) ELSE [s EXCEPT !.ordinal = o.n]
          [] o.op = "immediate" -> [s EXCEPT !.ordinal = o.n]    \* its range is tested by Bind
          [] o.op = "symbol" -> [s EXCEPT !.symbol = o.name, !.weak = (o.n = 1)]
          [] o.op = "addend" -> [s EXCEPT !.addend = o.skip]
          [] o.op = "times" ->
                IF o.n > CountLimit THEN Fails(s)
                ELSE LET Step(acc) == Bind(acc, o.skip) IN Repeat(Step, s, o.n)
          [] OTHER -> Fails(s)

-----------------------------------------------------------------------------
(* gf_apply_observed.                                                      *)

\* A program that runs out before DONE has failed; a lazy one ends with it.
Closed(s) ==
    CASE s.status = "running" -> IF s.lazy /\ s.ended THEN [s EXCEPT !.status = "done"] ELSE Fails(s)
      [] OTHER -> s

Run(Op(_, _), s, program) ==
    Closed(FoldLeft(LAMBDA acc, o : IF acc.status = "running" THEN Op(acc, o) ELSE acc, s, program))

Rebases(mem, program) == Run(RebaseOp, Begin(mem, FALSE, FALSE), program)
Binds(mem, program, lazy, weak, fixed) == Run(BindOp, [Begin(mem, lazy, weak) EXCEPT !.type = 1, !.fixed = fixed], program)

Order == <<"rebase", "lazy", "bind", "weak">>

\* Stream by stream; an absent one is skipped, a failed one ends it.  The binds of
\* all streams are counted together.
Apply(mem, programs) ==
    FoldLeft(LAMBDA acc, name :
                 IF acc.status = "failed" \/ programs[name] = <<>> THEN acc
                 ELSE LET s == IF name = "rebase" THEN Rebases(acc.mem, programs[name])
                               ELSE Binds(acc.mem, programs[name], name = "lazy", name = "weak", acc.binds)
                      IN  [status |-> s.status, mem |-> s.mem, log |-> acc.log \o s.log,
                           binds |-> IF name = "rebase" THEN 0 ELSE s.fixed],
             [status |-> "done", mem |-> mem, log |-> <<>>, binds |-> 0], Order)

-----------------------------------------------------------------------------
(* leb.  A byte is [bits, more].                                           *)

Sum(n, F(_)) == FoldLeft(LAMBDA acc, k : acc + F(k), 0, [k \in 1 .. n |-> k])
Bad == -1
Groups == ((WordBits - 1) \div GroupBits) + 1

\* The last group has one bit of the word.
LastFits(byte, sign) ==
    IF sign THEN byte.bits \in {0, 2 ^ GroupBits - 1} ELSE byte.bits \in {0, 1}

Leb(bytes, sign) ==
    LET ends == {k \in 1 .. Groups : k <= Len(bytes) /\ ~bytes[k].more}
        last == CHOOSE k \in ends : \A j \in ends : k <= j
        value == Sum(last, LAMBDA k : (bytes[k].bits % IF k = Groups THEN 2 ELSE 2 ^ GroupBits) * 2 ^ ((k - 1) * GroupBits))
        negative == sign /\ last < Groups /\ bytes[last].bits >= 2 ^ (GroupBits - 1)
    IN  IF ends = {} THEN Bad
        ELSE IF last = Groups /\ ~LastFits(bytes[last], sign) THEN Bad
        ELSE IF negative THEN value + 2 ^ WordBits - 2 ^ (last * GroupBits) ELSE value

-----------------------------------------------------------------------------
(* Questions.                                                              *)

Memory == [c \in Cells |-> c % 4]
NoOp == [op |-> "done", n |-> 0, skip |-> 0, name |-> NoSymbol]
Operands(op, ns, skips, names) == {[op |-> op, n |-> n, skip |-> k, name |-> y] : n \in ns, k \in skips, y \in names}
Moves ==
    {NoOp} \cup Operands("segment", 0 .. Len(Segments), {0, 2}, {NoSymbol}) \cup Operands("add", {0}, {2, Modulus - 2}, {NoSymbol})
    \cup Operands("times", 0 .. 2, {0, 2, Modulus - 4}, {NoSymbol})
RebaseOps == Moves \cup Operands("type", {1, 2}, {0}, {NoSymbol})
BindOps ==
    Moves \cup Operands("ordinal", {Dylibs + 1}, {0}, {NoSymbol}) \cup Operands("symbol", {0, 1}, {0}, Symbols)
    \cup Operands("immediate", {0, Dylibs + 1, WeakLookup - 1}, {0}, {NoSymbol})
    \cup Operands("addend", {0}, {3}, {NoSymbol})
Programs(ops) == UNION {[1 .. n -> ops] : n \in 0 .. MaxLength}

\* A prefix sets up what any program needs, so that short programs do something.
Prepared(kind) ==
    IF kind = "rebase" THEN <<[NoOp EXCEPT !.op = "type", !.n = 1], [NoOp EXCEPT !.op = "segment", !.n = 1]>>
    ELSE <<[NoOp EXCEPT !.op = "symbol", !.name = "a"], [NoOp EXCEPT !.op = "segment", !.n = 1]>>
LebBytes == [bits : 0 .. 2 ^ GroupBits - 1, more : BOOLEAN]
LazyParts == <<[NoOp EXCEPT !.op = "symbol", !.name = "a"], [NoOp EXCEPT !.op = "addend", !.skip = 3],
               [NoOp EXCEPT !.op = "ordinal", !.n = 1], [NoOp EXCEPT !.op = "segment", !.n = 1],
               [NoOp EXCEPT !.op = "times", !.n = 1], NoOp>>
LazyRecords == {FlattenSeq([k \in DOMAIN LazyParts |-> IF k \in parts THEN <<LazyParts[k]>> ELSE <<>>]) :
                parts \in SUBSET DOMAIN LazyParts}
Single(n) == <<[NoOp EXCEPT !.op = "symbol", !.name = "a"], [NoOp EXCEPT !.op = "segment", !.n = 1],
               [NoOp EXCEPT !.op = "addend", !.skip = n], [NoOp EXCEPT !.op = "times", !.n = 1], NoOp>>
Unanswered == <<>>
Asked(kind, program, programs, bytes, sign) ==
    [kind |-> kind, program |-> program, programs |-> programs, bytes |-> bytes, sign |-> sign]
NoPrograms == [name \in {"rebase", "lazy", "bind", "weak"} |-> <<>>]

Init ==
    /\ answer = Unanswered
    /\ \/ \E p \in Programs(RebaseOps) : question = Asked("rebase", Prepared("rebase") \o p, NoPrograms, <<>>, FALSE)
       \/ \E p \in Programs(BindOps), kind \in {"bind", "lazy", "weak"} :
             question = Asked(kind, Prepared("bind") \o p, NoPrograms, <<>>, FALSE)
       \/ \E p, r \in LazyRecords : question = Asked("lazy", p \o r, NoPrograms, <<>>, FALSE)
       \/ \E present \in SUBSET {"lazy", "bind", "weak"} :
             question = Asked("apply", <<>>, [name \in DOMAIN NoPrograms |-> IF name \notin present THEN <<>> ELSE
                              Single(CASE name = "lazy" -> 1 [] name = "bind" -> 2 [] OTHER -> 3)], <<>>, FALSE)
       \/ \E n \in 0 .. Groups + 1 : \E bytes \in [1 .. n -> LebBytes], sign \in BOOLEAN :
             question = Asked("leb", <<>>, NoPrograms, bytes, sign)

Answer(q) ==
    CASE q.kind = "rebase" -> [run |-> Rebases(Memory, q.program), leb |-> 0]
      [] q.kind = "apply" -> [run |-> Apply(Memory, q.programs), leb |-> 0]
      [] q.kind = "leb" -> [run |-> Begin(Memory, FALSE, FALSE), leb |-> Leb(q.bytes, q.sign)]
      [] OTHER -> [run |-> Binds(Memory, q.program, q.kind = "lazy", q.kind = "weak", 0), leb |-> 0]

Answers == answer = Unanswered /\ answer' = <<Answer(question)>> /\ UNCHANGED question
Spec == Init /\ [][Answers]_vars

-----------------------------------------------------------------------------
(* Properties.                                                             *)

Answered(kinds) == answer # Unanswered /\ question.kind \in kinds
Succeeded(kinds) == Answered(kinds) /\ answer[1].run.status = "done"
Outcome == answer[1].run
Opcodes == {"rebase", "bind", "lazy", "weak"}

\* Whatever a program says, only whole aligned pointers of mapped segments
\* change, and one that succeeds has told the observer of every one it changed.
FixupsAreConfined ==
    Answered(Opcodes) =>
        \A c \in Cells : Outcome.mem[c] # Memory[c] =>
            /\ \E i \in DOMAIN Segments : /\ Segments[i].prot /\ (c - Segments[i].address) % Pointer = 0
                                          /\ c >= Segments[i].address /\ c + Pointer <= Segments[i].address + Segments[i].size
            /\ Outcome.status = "done" => \E k \in DOMAIN Outcome.log : Outcome.log[k][1] = c

\* A rebase adds the slide to a pointer as often as the program lists it.
RebasesSlide ==
    Succeeded({"rebase"}) =>
        \A c \in Cells :
            Outcome.mem[c] = Wrap(Memory[c] + Slide * Len(SelectSeq(Outcome.log, LAMBDA e : e[1] = c)))

\* One opcode that repeats and skips stands for as many single ones with moves
\* between them, backwards (wrapping) ones included.
Expanded(program) ==
    FlattenSeq([k \in DOMAIN program |->
        IF program[k].op # "times" THEN <<program[k]>>
        ELSE FlattenSeq([j \in 1 .. program[k].n |->
                 <<[program[k] EXCEPT !.n = 1, !.skip = 0], [NoOp EXCEPT !.op = "add", !.skip = program[k].skip]>>])])
RepeatsAreLoops ==
    Succeeded(Opcodes) =>
        LET plain == IF question.kind = "rebase" THEN Rebases(Memory, Expanded(question.program))
                     ELSE Binds(Memory, Expanded(question.program), question.kind = "lazy", question.kind = "weak", 0)
        IN  plain.status = "done" /\ plain.mem = Outcome.mem /\ plain.log = Outcome.log

\* Lazy records stand alone: the stub binder may start at any of them, so what
\* one writes does not depend on the ones before it.
LazyRecordsStandAlone ==
    Succeeded({"lazy"}) =>
        LET ends == {k \in DOMAIN question.program : question.program[k].op = "done"}
        IN  \A k \in ends :
              LET rest == SubSeq(question.program, k + 1, Len(question.program))
                  alone == Binds(Memory, rest, TRUE, FALSE, 0)
              IN  rest # <<>> => alone.status = "done" /\ IsSuffix(alone.log, Outcome.log)

\* Of the streams that fill one pointer, weak definitions win over ordinary
\* binds, and those over lazy ones.
LaterStreamsWin ==
    Answered({"apply"}) =>
        LET value(name) == Binds(Memory, question.programs[name], name = "lazy", name = "weak", 0).mem
            winner == CASE question.programs["weak"] # <<>> -> value("weak")
                        [] question.programs["bind"] # <<>> -> value("bind")
                        [] question.programs["lazy"] # <<>> -> value("lazy")
                        [] OTHER -> Memory
        IN  Outcome.status = "done" /\ Outcome.mem = winner

\* A variable-length integer is its digits' value if the word can hold it, in
\* two's complement if signed, and refused otherwise.
LebIsExact ==
    Answered({"leb"}) =>
        LET q == question
            ends == {k \in DOMAIN q.bytes : ~q.bytes[k].more}
            last == CHOOSE k \in ends : \A j \in ends : k <= j
            digits == Sum(last, LAMBDA k : q.bytes[k].bits * 2 ^ ((k - 1) * GroupBits))
            exact == IF q.sign /\ q.bytes[last].bits >= 2 ^ (GroupBits - 1) THEN digits - 2 ^ (last * GroupBits) ELSE digits
            fits == IF q.sign THEN exact >= -(2 ^ (WordBits - 1)) /\ exact < 2 ^ (WordBits - 1) ELSE exact < 2 ^ WordBits
        IN  answer[1].leb = IF ends # {} /\ last <= Groups /\ fits THEN exact % 2 ^ WordBits ELSE Bad
=============================================================================
