-------------------------- MODULE SoftwareMapping --------------------------
(***************************************************************************)
(* GuestSoftwareVM.c, mappings: where a guest's mmap, mprotect, munmap and *)
(* madvise go.  A request is tried natively first and falls back to the    *)
(* software range, is forced there, or receives a native pool that was     *)
(* reserved at startup.  Next to it lives the code alias: a readable view  *)
(* of executable memory that faults fetch their instruction from.          *)
(*                                                                         *)
(* Addresses are units: 0 .. NativeCells - 1 native, 0 .. SoftCells - 1    *)
(* software.  A cell holds 0, the number of the thread it was given to,    *)
(* Code or Pool.  Every lock the code takes is inside the sparse memory    *)
(* (SparseMemory), so threads interleave between the steps of a call.      *)
(***************************************************************************)
EXTENDS Integers, FiniteSetsExt

CONSTANTS Threads,      \* positive numbers
          NativeCells, SoftCells,
          CodeStart, CodeSize,          \* the executable view
          LargeSize,    \* 64 MB: only requests from here on fall back
          Threshold,    \* force_threshold, 0 for none
          ForcedSize,   \* forced_pool_size, 0 for none
          MaxSize, MaxCalls

VARIABLES native, soft,  \* who has each cell
          hidden,        \* native cells that cannot be read
          pending,       \* pending_native_pool, -1 for none
          poolSize,      \* native_pool_size
          alias,         \* code_alias_enabled
          call,          \* the call each thread is in
          given,         \* the cells each thread was given and has not returned
          started, calls \* bounds: guest threads run; calls left
vars == <<native, soft, hidden, pending, poolSize, alias, call, given, started, calls>>

Free == 0
Code == -1
Pool == -2
None == -1
NativeSpace == 0 .. NativeCells - 1
SoftSpace == 0 .. SoftCells - 1
CodeCells == CodeStart .. CodeStart + CodeSize - 1
Cells(at, size) == at .. at + size - 1

\* Who has the cells of a range, and the same after a change of owner.
Owned(space, at, size, who) == [c \in DOMAIN space |-> IF c \in Cells(at, size) THEN who ELSE space[c]]
Fits(space, at, size) == Cells(at, size) \subseteq DOMAIN space
Gaps(space, size) == {a \in DOMAIN space : Fits(space, a, size) /\ \A c \in Cells(a, size) : space[c] = Free}

Idle == [stage |-> "idle", soft |-> FALSE, at |-> None, size |-> 1, fixed |-> FALSE, eligible |-> TRUE, op |-> "map"]

-----------------------------------------------------------------------------
(* The code alias.                                                         *)

Overlaps(at, size) == IF at <= CodeStart THEN size > CodeStart - at ELSE at - CodeStart < CodeSize

\* gsv_forget_code_alias.
Forgotten(at, size) == alias /\ ~Overlaps(at, size)

\* gsv_fetch_instruction reads this program counter through the alias.
FetchesAlias(pc) == alias /\ pc >= CodeStart /\ pc - CodeStart <= CodeSize - 1

\* gsv_code_alias, before guest entry and only once.
CodeAlias ==
    /\ ~started /\ ~alias
    /\ native' = Owned(native, CodeStart, CodeSize, Code)
    /\ \A c \in CodeCells : native[c] = Free
    /\ alias' = TRUE
    /\ UNCHANGED <<soft, hidden, pending, poolSize, call, given, started, calls>>

-----------------------------------------------------------------------------
(* gsv_prefer_native_pool, at startup.                                     *)

\* The old reservation is unmapped with the size it had.
PoolReleased(size) == IF pending = None THEN native ELSE Owned(native, pending, poolSize, Free)

PreferNativePool(size) ==
    LET released == PoolReleased(size)
    IN  /\ ~started
        /\ poolSize' = size
        /\ \/ /\ size > 0
              /\ \E at \in Gaps(released, size) :
                   pending' = at /\ native' = Owned(released, at, size, Pool)
           \/ pending' = None /\ native' = released
        /\ UNCHANGED <<soft, hidden, alias, call, given, started, calls>>

Start == ~started /\ started' = TRUE /\ UNCHANGED <<native, soft, hidden, pending, poolSize, alias, call, given, calls>>

-----------------------------------------------------------------------------
(* gsv_map.                                                                *)

Goes(t, stage) == call' = [call EXCEPT ![t].stage = stage]
Returns(t) == call' = [call EXCEPT ![t] = Idle]

\* The call hands a range of one space to its thread.
Gives(t, space, at) ==
    /\ Returns(t)
    /\ given' = [given EXCEPT ![t] = @ \cup {<<space, c>> : c \in Cells(at, call[t].size)}]

\* Requests that are not tried natively.
Forced(r) ==
    /\ r.eligible /\ ~r.fixed
    /\ \/ ForcedSize # 0 /\ r.size = ForcedSize
       \/ Threshold # 0 /\ r.size >= Threshold
       \/ poolSize # 0 /\ r.size >= LargeSize /\ r.size # poolSize

\* An exact request for the reserved pool.
WantsPool(r) == r.at = None /\ r.eligible /\ ~r.fixed /\ ~Forced(r) /\ r.size = poolSize

\* What the software range accepts.
SoftStage(r) ==
    IF ~r.eligible \/ (~r.soft /\ r.fixed) THEN "fail" ELSE IF r.soft /\ r.fixed THEN "fixed" ELSE "find"

Route(r) == IF WantsPool(r) THEN "pool" ELSE IF ~r.soft /\ ~Forced(r) THEN "native" ELSE SoftStage(r)

\* A fixed mapping forgets an alias it may replace, whatever becomes of it.
Map(t, r) ==
    /\ alias' = IF r.fixed /\ ~r.soft THEN Forgotten(r.at, r.size) ELSE alias
    /\ call' = [call EXCEPT ![t] = [r EXCEPT !.stage = Route(r)]]
    /\ given' = IF r.fixed THEN [given EXCEPT ![t] = @ \ {<<r.soft, c>> : c \in Cells(r.at, r.size)}] ELSE given
    /\ UNCHANGED <<native, soft, hidden, pending, poolSize>>

\* One exchange empties the reservation, so one caller gets it.
TakePool(t) == pending' = None

MapPool(t) ==
    /\ call[t].stage = "pool" /\ TakePool(t)
    /\ \/ pending = None /\ Goes(t, "native") /\ UNCHANGED <<native, given>>
       \/ pending # None /\ native' = Owned(native, pending, poolSize, t) /\ Gives(t, FALSE, pending)
       \/ pending # None /\ native' = Owned(native, pending, poolSize, Free) /\ Returns(t) /\ UNCHANGED given
    /\ UNCHANGED <<soft, hidden, poolSize, alias, started, calls>>

\* The host's mmap: a gap of its choice or the fixed range, or one of its errors;
\* a large request that found no memory goes on in software.
MapNative(t) ==
    LET r == call[t]
    IN  /\ r.stage = "native"
        /\ \/ \E at \in IF r.fixed THEN {r.at} ELSE Gaps(native, r.size) :
                /\ native' = Owned(native, at, r.size, t)
                /\ hidden' = hidden \ Cells(at, r.size)
                /\ Gives(t, FALSE, at)
           \/ Returns(t) /\ UNCHANGED <<native, hidden, given>>
           \/ r.size >= LargeSize /\ call' = [call EXCEPT ![t].stage = SoftStage(r), ![t].op = "fallback"] /\ UNCHANGED <<native, hidden, given>>
        /\ UNCHANGED <<soft, pending, poolSize, alias, started, calls>>

MapFails(t) == call[t].stage = "fail" /\ Returns(t) /\ UNCHANGED <<native, soft, hidden, pending, poolSize, alias, given, started, calls>>

\* gm_sparse_map with replacement.
MapFixed(t) ==
    LET r == call[t]
    IN  /\ r.stage = "fixed"
        /\ \/ Fits(soft, r.at, r.size) /\ soft' = Owned(soft, r.at, r.size, t) /\ Gives(t, TRUE, r.at)
           \/ Returns(t) /\ UNCHANGED <<soft, given>>
        /\ UNCHANGED <<native, hidden, pending, poolSize, alias, started, calls>>

\* gm_sparse_find_free: the lowest gap, but it is not held.
MapFinds(t) ==
    /\ call[t].stage = "find"
    /\ IF Gaps(soft, call[t].size) = {} THEN Returns(t)
       ELSE call' = [call EXCEPT ![t].stage = "place", ![t].at = Min(Gaps(soft, call[t].size))]
    /\ UNCHANGED <<native, soft, hidden, pending, poolSize, alias, given, started, calls>>

\* Wrong form of Overlapped: the gap found is taken for free.
OverlappedNever(t) == FALSE

\* GM_OVERLAP: another thread took a cell of the gap.
Overlapped(t) == call[t].at \notin Gaps(soft, call[t].size)

\* Wrong form of MapPlaces: every failure searches again.
MapPlacesAgain(t) ==
    LET r == call[t]
    IN  /\ r.stage = "place"
        /\ \/ ~Overlapped(t) /\ soft' = Owned(soft, r.at, r.size, t) /\ Gives(t, TRUE, r.at)
           \/ Goes(t, "find") /\ UNCHANGED <<soft, given>>
        /\ UNCHANGED <<native, hidden, pending, poolSize, alias, started, calls>>

\* gm_sparse_map without replacement: place, search again, or no memory.
MapPlaces(t) ==
    LET r == call[t]
    IN  /\ r.stage = "place"
        /\ \/ Overlapped(t) /\ Goes(t, "find") /\ UNCHANGED <<soft, given>>
           \/ ~Overlapped(t) /\ soft' = Owned(soft, r.at, r.size, t) /\ Gives(t, TRUE, r.at)
           \/ ~Overlapped(t) /\ Returns(t) /\ UNCHANGED <<soft, given>>
        /\ UNCHANGED <<native, hidden, pending, poolSize, alias, started, calls>>

-----------------------------------------------------------------------------
(* gsv_unmap, gsv_protect and gsv_advise.  Each forgets the alias before   *)
(* it touches memory.                                                      *)

Unmap(t, r) ==
    /\ alias' = IF r.soft THEN alias ELSE Forgotten(r.at, r.size)
    /\ call' = [call EXCEPT ![t] = [r EXCEPT !.stage = "unmap"]]
    /\ given' = [given EXCEPT ![t] = @ \ {<<r.soft, c>> : c \in Cells(r.at, r.size)}]
    /\ UNCHANGED <<native, soft, hidden, pending, poolSize>>

\* munmap or gm_sparse_unmap, which may also fail.
Unmaps(t) ==
    LET r == call[t]
    IN  /\ r.stage = "unmap" /\ Returns(t)
        /\ \/ r.soft /\ soft' = Owned(soft, r.at, r.size, Free) /\ UNCHANGED <<native, hidden>>
           \/ /\ ~r.soft /\ native' = Owned(native, r.at, r.size, Free)
              /\ hidden' = hidden \ Cells(r.at, r.size) /\ UNCHANGED soft
           \/ UNCHANGED <<soft, native, hidden>>
        /\ UNCHANGED <<pending, poolSize, alias, given, started, calls>>

\* gsv_protect of native memory; without read permission the alias goes.  In the
\* software range it changes permissions only, and gsv_advise nothing.
Protect(t, r) ==
    /\ alias' = IF r.soft \/ r.eligible THEN alias ELSE Forgotten(r.at, r.size)
    /\ call' = [call EXCEPT ![t] = [r EXCEPT !.stage = "protect"]]
    /\ UNCHANGED <<native, soft, hidden, pending, poolSize, given>>

Protects(t) ==
    LET r == call[t]
    IN  /\ r.stage = "protect" /\ Returns(t)
        /\ \/ ~r.soft /\ hidden' = IF r.eligible THEN hidden \ Cells(r.at, r.size) ELSE hidden \cup Cells(r.at, r.size)
           \/ UNCHANGED hidden
        /\ UNCHANGED <<native, soft, pending, poolSize, alias, given, started, calls>>

-----------------------------------------------------------------------------
(* Requests: anywhere, or at a range with nothing of another thread.  Only *)
(* one thread touches the code's memory.                                   *)

Mine(t, r) ==
    IF r.soft THEN Fits(soft, r.at, r.size) /\ \A c \in Cells(r.at, r.size) : <<TRUE, c>> \in given[t]
    ELSE Fits(native, r.at, r.size) /\ \A c \in Cells(r.at, r.size) : (native[c] = Code /\ t = Min(Threads)) \/ <<FALSE, c>> \in given[t]

Requests == [stage : {"idle"}, soft : BOOLEAN, at : {None} \cup NativeSpace, size : 1 .. MaxSize,
             fixed : BOOLEAN, eligible : BOOLEAN, op : {"map", "unmap", "protect"}]

Calls(t) ==
    /\ started /\ call[t].stage = "idle" /\ calls > 0
    /\ \E r \in Requests :
        /\ r.op = "map" /\ ~r.fixed => r.at = IF r.soft THEN 0 ELSE None
        /\ r.op # "map" => r.fixed
        /\ r.fixed => r.at # None /\ Mine(t, r)
        /\ \/ r.op = "map" /\ Map(t, r)
           \/ r.op = "unmap" /\ r.eligible /\ Unmap(t, r)
           \/ r.op = "protect" /\ Protect(t, r)   \* eligible: it may be read
    /\ calls' = calls - 1 /\ UNCHANGED started

Runs(t) == MapPool(t) \/ MapNative(t) \/ MapFails(t) \/ MapFixed(t) \/ MapFinds(t) \/ MapPlaces(t) \/ Unmaps(t) \/ Protects(t)

Init ==
    /\ native = [c \in NativeSpace |-> Free] /\ soft = [c \in SoftSpace |-> Free]
    /\ hidden = {} /\ pending = None /\ poolSize = 0 /\ alias = FALSE
    /\ call = [t \in Threads |-> Idle] /\ given = [t \in Threads |-> {}]
    /\ started = FALSE /\ calls = MaxCalls

Next ==
    \/ CodeAlias \/ Start
    \/ \E size \in {0} \cup LargeSize .. MaxSize : PreferNativePool(size)
    \/ \E t \in Threads : Calls(t) \/ Runs(t)

Spec == Init /\ [][Next]_vars /\ \A t \in Threads : WF_vars(Runs(t))

-----------------------------------------------------------------------------
(* Properties.                                                             *)

Owner(space, c) == IF space THEN soft[c] ELSE native[c]

\* Memory handed to a thread stays that thread's until it gives it up: neither
\* two searches of the software range at once nor the reserved pool hand the
\* same cell out twice.
GivenMemoryIsKept == \A t \in Threads : \A g \in given[t] : Owner(g[1], g[2]) = t

\* The reservation is exactly what pending_native_pool and native_pool_size say:
\* none of it leaks when it is replaced, taken or refused.
PoolIsConserved ==
    {c \in NativeSpace : native[c] = Pool} = IF pending = None THEN {} ELSE Cells(pending, poolSize)

\* A fault never fetches its instruction through the alias once the executable
\* memory it stands for was unmapped, replaced or made unreadable.
AliasIsTrue == \A pc \in NativeSpace : FetchesAlias(pc) => native[pc] = Code /\ pc \notin hidden

\* With a preferred native pool, no other large reservation that software could
\* serve is placed natively, and one of exactly that size goes to software only
\* after the host had no memory for it.
PreferenceIsHonoured ==
    \A t \in Threads :
        LET r == call[t]
        IN  (poolSize # 0 /\ r.op \in {"map", "fallback"} /\ r.eligible /\ ~r.fixed /\ r.size >= LargeSize) =>
              /\ r.stage = "native" => r.size = poolSize
              /\ (r.stage = "find" /\ r.size = poolSize /\ r.size # ForcedSize /\ Threshold = 0 /\ ~r.soft) => r.op = "fallback"
=============================================================================
