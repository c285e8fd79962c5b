------------------------- MODULE ExclusiveSequence -------------------------
(***************************************************************************)
(* GuestExclusive.c: a load- or store-exclusive on guest memory traps, and *)
(* the handler carries out the instructions from there on with a monitor   *)
(* of its own until the sequence has stored, cleared the monitor or left   *)
(* its window.  Threads interleave at every access; the memory is the      *)
(* AddressSpace that the sparse memory implements.                         *)
(*                                                                         *)
(* Threads increment a counter: what a store-exclusive stores is one more  *)
(* than what the last load-exclusive read.  Other instructions come in any *)
(* order; plain accesses use another cell.                                 *)
(***************************************************************************)
EXTENDS AddressSpace

CONSTANTS
    Counter, Other,    \* the cells
    StepBudget,        \* instructions of one sequence
    MaxTraps           \* bound: sequences begun

VARIABLES
    seq,       \* seq[t]: the sequence under way: active, instructions done, what is next, register, the same at the trap
    outcome,   \* outcome[t]: how t's last sequence ended
    wrote,     \* history: whether t's current or last sequence has changed memory
    stores,    \* history: store-exclusives carried out, modulo the counter
    traps

seqVars == <<seq, outcome, wrote, stores, traps>>
vars == <<perm, data, link, reply, seq, outcome, wrote, stores, traps>>

Modulus == Cardinality(Byte)
Succ(v) == (v + 1) % Modulus
Instructions == {"ldxr", "stxr", "clrex", "register", "load", "store", "branch", "unknown", "unreadable"}
NoSequence == [active |-> FALSE, steps |-> 0, next |-> "none", value |-> 0, saved |-> 0]

-----------------------------------------------------------------------------
\* The handler returns; its monitor is gone.  Registers are those of the trap
\* unless the sequence was carried out.
Returns(t, result, s) ==
    /\ outcome' = [outcome EXCEPT ![t] = result]
    /\ seq' = [seq EXCEPT ![t] = [NoSequence EXCEPT !.value = IF result = "OK" THEN s.value ELSE s.saved]]

\* On to the next instruction, whatever it is, while the budget lasts.
Continues(t, s) ==
    IF s.steps + 1 = StepBudget THEN Returns(t, "UNSUPPORTED", s)
    ELSE /\ \E next \in Instructions : seq' = [seq EXCEPT ![t] = [s EXCEPT !.steps = @ + 1, !.next = next]]
         /\ UNCHANGED outcome

\* An instruction on memory: it faults, or the sequence goes on or is over.
After(t, s, over) ==
    IF reply'[2] \notin {"OK", "STORED", "LOST"} THEN Returns(t, "FAULT", s)
    ELSE IF over THEN Returns(t, "OK", s) ELSE Continues(t, s)

Changes(t, changed) == wrote' = [wrote EXCEPT ![t] = @ \/ changed]

LoadsExclusive(t) ==
    /\ LoadExclusive(t, Counter, 1)
    /\ After(t, IF reply'[2] = "OK" THEN [seq[t] EXCEPT !.value = reply'[3][1]] ELSE seq[t], FALSE)
    /\ UNCHANGED <<wrote, stores>>

\* Wrong form of StoresExclusive: the monitor is not looked at.
StoresUnlinked(t) ==
    /\ Write(Counter, <<Succ(seq[t].value)>>)
    /\ After(t, seq[t], TRUE)
    /\ Changes(t, reply'[2] = "OK")
    /\ stores' = IF reply'[2] = "OK" THEN Succ(stores) ELSE stores

StoresExclusive(t) ==
    /\ StoreExclusive(t, Counter, <<Succ(seq[t].value)>>)
    /\ After(t, seq[t], TRUE)
    /\ Changes(t, reply'[2] = "STORED")
    /\ stores' = IF reply'[2] = "STORED" THEN Succ(stores) ELSE stores

LoadsPlainly(t) ==
    /\ Read(Other, 1)
    /\ After(t, seq[t], FALSE)
    /\ UNCHANGED <<wrote, stores>>

\* A write ends the operation, so that no later rejection would undo it.
StoresPlainly(t) ==
    /\ \E v \in Byte : Write(Other, <<v>>)
    /\ After(t, seq[t], TRUE)
    /\ Changes(t, reply'[2] = "OK")
    /\ UNCHANGED stores

\* Instructions that leave memory alone: registers, CLREX, a branch out of the
\* window, one that is not supported, one that cannot be fetched.
LeavesMemory(t) ==
    /\ LET s == seq[t]
       IN  CASE s.next = "register" -> Continues(t, s)
             [] s.next \in {"clrex", "branch"} -> Returns(t, "OK", s)
             [] s.next = "unknown" -> Returns(t, "UNSUPPORTED", s)
             [] s.next = "unreadable" -> Returns(t, "FAULT", s)
    /\ UNCHANGED <<perm, data, link, reply, wrote, stores>>

Step(t) ==
    /\ seq[t].active
    /\ CASE seq[t].next = "ldxr" -> LoadsExclusive(t)
         [] seq[t].next = "stxr" -> StoresExclusive(t)
         [] seq[t].next = "load" -> LoadsPlainly(t)
         [] seq[t].next = "store" -> StoresPlainly(t)
         [] OTHER -> LeavesMemory(t)
    /\ UNCHANGED traps

\* A thread traps on an exclusive: a sequence begins, with no monitor.
Trap(t) ==
    /\ ~seq[t].active /\ traps < MaxTraps
    /\ traps' = traps + 1
    /\ \E first \in {"ldxr", "stxr"} :
          seq' = [seq EXCEPT ![t] = [@ EXCEPT !.active = TRUE, !.next = first, !.saved = seq[t].value]]
    /\ link' = [link EXCEPT ![t] = {}]
    /\ wrote' = [wrote EXCEPT ![t] = FALSE]
    /\ UNCHANGED <<perm, data, reply, outcome, stores>>

\* Another thread protects the pages meanwhile.
Protects == \E prot \in Protections : Protect(Pages, prot) /\ UNCHANGED seqVars

Init ==
    /\ perm = [p \in Pages |-> Mapped({"r", "w"}, {"r", "w"})]
    /\ data = [c \in Cells |-> 0]
    /\ link = [t \in Threads |-> {}]
    /\ reply = <<"init", "OK">>
    /\ seq = [t \in Threads |-> NoSequence]
    /\ outcome = [t \in Threads |-> "OK"]
    /\ wrote = [t \in Threads |-> FALSE]
    /\ stores = 0 /\ traps = 0

Next == Protects \/ \E t \in Threads : Trap(t) \/ Step(t)

\* The handler runs on the thread that trapped, which goes on running.
Spec == Init /\ [][Next]_vars /\ \A t \in Threads : WF_vars(Step(t))

-----------------------------------------------------------------------------
\* No increment is lost: the counter is the number of store-exclusives that
\* reported success, whatever the threads do in between.
NoLostUpdate == data[Counter] = stores

\* A sequence that is rejected or faults, and so is tried again or reported from
\* its first instruction, has not changed memory.
RejectedWithoutTrace == \A t \in Threads : outcome[t] # "OK" /\ ~seq[t].active => ~wrote[t]
=============================================================================
