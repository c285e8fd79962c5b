------------------------------ MODULE GuestCPU ------------------------------
(***************************************************************************)
(* GuestCPU.c: CPUs that interpret the words of one GuestMemory, each with *)
(* a cache of decoded instructions.  gc_run is a sequence of steps no      *)
(* other call interrupts; between runs the memory is mapped, protected and *)
(* written by others, and threads switch their JIT pages.                  *)
(*                                                                         *)
(* A word is 0 (no instruction), 1 (registers only, or a branch), 2 (a     *)
(* store) or 3 (a load).  Registers may hold anything: where a branch goes *)
(* and what a store writes is any choice.  CPUArithmetic has what register *)
(* instructions compute.                                                   *)
(***************************************************************************)
EXTENDS GuestMemory

CONSTANTS Cpus, CacheSize, MaxBudget

VARIABLES
    cpu,      \* cpu[c]: pc, thread, cache, and what the cache is valid for
    run       \* the run that is under way: its CPU, steps left, where to return

vars == <<memory, reply, calls, cpu, run>>

Idle == [cpu |-> "none", left |-> 0, end |-> 0]
Undecoded == [pc |-> 0, word |-> 0, valid |-> FALSE]
NoCache == [slot \in 0 .. CacheSize - 1 |-> Undecoded]
Slot(pc) == pc % CacheSize

\* gc_reset.
Reset(entry) ==
    [pc |-> entry, thread |-> "protected", cache |-> NoCache, generation |-> 0, seen |-> "writable"]

\* Wrong form of Current: the thread may have switched its JIT pages.
CurrentDespiteSwitch(p) == p.generation = memory.code

\* What the cache holds was decoded from the code as it is now, for this thread.
Current(p) == p.generation = memory.code /\ p.seen = p.thread
Refreshed(p) ==
    IF Current(p) THEN p
    ELSE [p EXCEPT !.cache = NoCache, !.generation = memory.code, !.seen = p.thread]

Ends(result) == run' = Idle /\ reply' = [op |-> <<"ran", run.cpu>>, result |-> result]

\* An instruction is done; the run goes on while its budget lasts.
Retires(p, next, word, m) ==
    /\ cpu' = [cpu EXCEPT ![run.cpu] = [p EXCEPT !.pc = next]]
    /\ memory' = m
    /\ run' = IF run.left = 1 THEN Idle ELSE [run EXCEPT !.left = @ - 1]
    /\ reply' = [op |-> <<"executed", run.cpu, p.pc, word>>,
                 result |-> IF run.left > 1 THEN "OK" ELSE IF next = run.end THEN "RETURNED" ELSE "BUDGET"]

\* The run ends at an instruction that cannot be executed.
Stops(p, m, result) == cpu' = [cpu EXCEPT ![run.cpu] = p] /\ memory' = m /\ Ends(result)

\* A decoded instruction is carried out.
Executes(p, m, word) ==
    \/ word = 0 /\ Stops(p, m, "UNSUPPORTED")
    \/ word = 1 /\ \E next \in Cells : Retires(p, next, word, m)
    \/ /\ word = 2
       /\ \E s \in CellRanges : \E words \in [1 .. s[2] -> Words] :
             \E done \in Write(m, p.thread, s[1], words, {"w"}) :
                IF done.result = "OK" THEN Retires(p, p.pc + 1, word, done.memory)
                ELSE Stops(p, done.memory, "MEMORY")
    \/ /\ word = 3
       /\ \E s \in CellRanges :
             LET done == Read(m, "none", s[1], s[2], {"r"})
             IN  IF done.result = "OK" THEN Retires(p, p.pc + 1, word, done.memory)
                 ELSE Stops(p, done.memory, "MEMORY")

Hit(entry, pc) == entry.valid /\ entry.pc = pc

\* One turn of gc_run's loop.
Step ==
    /\ run # Idle
    /\ LET p == Refreshed(cpu[run.cpu])
           entry == p.cache[Slot(p.pc)]
           fetched == Read(memory, p.thread, p.pc, 1, {"x"})
           decoded == [pc |-> p.pc, word |-> CellAt(memory, p.pc), valid |-> TRUE]
       IN  IF p.pc = run.end THEN /\ Ends("RETURNED")
                                  /\ UNCHANGED <<cpu, memory>>
           ELSE IF Hit(entry, p.pc) THEN Executes(p, memory, entry.word)
           ELSE IF fetched.result # "OK" THEN Stops(p, fetched.memory, "MEMORY")
           ELSE Executes([p EXCEPT !.cache[Slot(p.pc)] = decoded], fetched.memory, decoded.word)
    /\ UNCHANGED calls

\* gc_run is called with a budget and a return address.
Run(c, budget, end) ==
    /\ run' = [cpu |-> c, left |-> budget, end |-> end]
    /\ reply' = [op |-> <<"run", c>>, result |-> "OK"]
    /\ UNCHANGED <<memory, cpu>>

ResetCPU(c, entry) ==
    cpu' = [cpu EXCEPT ![c] = Reset(entry)] /\ reply' = [op |-> <<"reset", c>>, result |-> "OK"] /\ UNCHANGED <<memory, run>>

\* gd_jit_write_protect on a CPU's thread.
JitWriteProtect(c, thread) ==
    /\ cpu' = [cpu EXCEPT ![c].thread = thread]
    /\ reply' = [op |-> <<"jit", c>>, result |-> "OK"]
    /\ UNCHANGED <<memory, run>>

Init == MemoryInit /\ cpu = [c \in Cpus |-> Reset(0)] /\ run = Idle

\* Calls while no CPU runs.
Call ==
    /\ run = Idle /\ calls < MaxCalls /\ calls' = calls + 1
    /\ \/ Mappings /\ UNCHANGED <<cpu, run>>
       \/ /\ \E s \in CellRanges : \E words \in [1 .. s[2] -> Words] : Populate(s[1], words)
          /\ UNCHANGED <<cpu, run>>
       \/ \E c \in Cpus : \/ \E budget \in 1 .. MaxBudget, end \in Cells : Run(c, budget, end)
                          \/ \E entry \in Cells : ResetCPU(c, entry)
                          \/ \E thread \in {"protected", "writable"} : JitWriteProtect(c, thread)

Next == Call \/ Step

-----------------------------------------------------------------------------
\* A cache that is taken to be current has, at every valid entry, the word that
\* a fetch by its thread would return now.
CacheIsCurrent ==
    \A c \in Cpus : Current(cpu[c]) =>
        \A slot \in DOMAIN cpu[c].cache :
            LET d == cpu[c].cache[slot]
            IN  d.valid => /\ Check(memory, cpu[c].thread, d.pc, {"x"}) = "OK"
                           /\ CellAt(memory, d.pc) = d.word

\* gc_run executes what is in memory when it executes it, however it was
\* changed, by itself, another CPU or the loader, and only where the thread may
\* execute.
CodeRunsAsWritten ==
    reply'.op[1] = "executed" =>
        LET c == reply'.op[2]
            pc == reply'.op[3]
        IN  /\ Check(memory, cpu[c].thread, pc, {"x"}) = "OK"
            /\ CellAt(memory, pc) = reply'.op[4]

\* An instruction that is not supported or whose access fails stops at its own
\* address, and nothing of it is seen in memory.
StopsInPlace ==
    (reply'.op[1] = "ran" /\ run # Idle) =>
        /\ cpu'[run.cpu].pc = cpu[run.cpu].pc
        /\ View(memory') = View(memory)
=============================================================================
