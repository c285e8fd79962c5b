---------------------------- MODULE LaunchProofs ----------------------------
(* Proofs about what the runtime sets up for a guest: the entry of a debugged   *)
(* launch, the unwind table, the storage of threads, the pages and the          *)
(* container of a signed launch, and the budget of the guest's reservations,    *)
(* for every value of the constants of MCLaunch.                                *)
(* Each subject has an inductive invariant of its own, which says nothing while *)
(* a state is about another one.                                                *)
EXTENDS MCLaunch, Sequences, SequenceTheorems, DataLemmas, TLAPS

-----------------------------------------------------------------------------
(* The entry of a debugged launch (DebuggerEntry).                             *)

PCs == {"idle", "request", "trap", "adopt", "refused", "provided", "let go", "survived",
        "own", "detached", "executes", "entered", "blocked", "dead"}
Calls == [pc : PCs, purpose : {"none", "reserve", "launch"}, size : Nat, attempt : Nat,
          candidate : Nat, launched : BOOLEAN, external : BOOLEAN]
RegionKinds == [size : Nat, exec : BOOLEAN]

EntryTypes ==
    /\ attached \in BOOLEAN /\ granted \in Nat /\ reserved \in Nat /\ arena \in Nat
    /\ call \in Calls /\ regions \in [DOMAIN regions -> RegionKinds]

\* Every region that is mapped is the reserved arena, the guest's, or the one that
\* is being adopted; the first two have their alias.
RegionsAreAccounted ==
    /\ DOMAIN regions = {reserved, arena, call.candidate} \ {0}
    /\ aliases = {reserved, arena} \ {0}
    /\ reserved # 0 => reserved # arena /\ reserved # call.candidate
    /\ arena # 0 => arena # call.candidate
    /\ call.candidate # 0 <=> call.pc = "adopt"

\* The debugger numbers its regions; the app's own has the number behind.
NumbersAreFresh ==
    /\ granted <= MaxRegions
    /\ reserved <= granted /\ call.candidate <= granted
    /\ arena <= granted \/ arena = MaxRegions + 1

\* How far a call is says which arenas there are.
CallIsPlaced ==
    /\ call.launched <=> call.purpose = "launch"
    /\ ~call.launched => arena = 0
    /\ call.purpose = "none" => call.pc = "idle"
    /\ call.purpose = "reserve" => call.pc \notin {"own", "detached", "executes", "entered", "blocked"}
    /\ call.purpose = "reserve" /\ call.pc \in {"request", "trap", "adopt", "refused"} => reserved = 0
    /\ call.purpose = "reserve" /\ call.pc \in {"provided", "let go", "survived"} => reserved # 0
    /\ call.launched => call.pc \notin {"idle", "survived"}
    /\ call.launched /\ call.pc \in {"request", "trap", "adopt", "refused", "own"} => arena = 0 /\ reserved = 0

\* What a launch that got so far has found out.
ArenaIsFound ==
    /\ call.launched /\ call.pc \in {"provided", "let go", "detached", "executes", "entered"} =>
          arena # 0 /\ reserved = 0 /\ regions[arena].size >= call.size
    /\ call.pc = "adopt" => regions[call.candidate].size = call.size
    /\ call.pc = "executes" => ~attached
    /\ call.pc = "entered" /\ call.external => ~attached /\ regions[arena].exec

EntryInv == EntryTypes /\ RegionsAreAccounted /\ NumbersAreFresh /\ CallIsPlaced /\ ArenaIsFound
-----------------------------------------------------------------------------

\* What the steps of a call leave of its record.
LEMMA GotoShape ==
    ASSUME call \in Calls, NEW p \in PCs
    PROVE  LET c == [call EXCEPT !.pc = p]
           IN  /\ c \in Calls /\ c.pc = p /\ c.purpose = call.purpose /\ c.size = call.size /\ c.attempt = call.attempt
               /\ c.candidate = call.candidate /\ c.launched = call.launched /\ c.external = call.external
BY DEF Calls

LEMMA CandidateShape ==
    ASSUME call \in Calls, NEW p \in PCs, NEW id \in Nat
    PROVE  LET c == [[call EXCEPT !.pc = p] EXCEPT !.candidate = id]
           IN  /\ c \in Calls /\ c.pc = p /\ c.purpose = call.purpose /\ c.size = call.size /\ c.attempt = call.attempt
               /\ c.candidate = id /\ c.launched = call.launched /\ c.external = call.external
BY DEF Calls

LEMMA AttemptShape ==
    ASSUME call \in Calls, NEW p \in PCs, NEW n \in Nat
    PROVE  LET c == [[call EXCEPT !.pc = p] EXCEPT !.attempt = n]
           IN  /\ c \in Calls /\ c.pc = p /\ c.purpose = call.purpose /\ c.size = call.size /\ c.attempt = n
               /\ c.candidate = call.candidate /\ c.launched = call.launched /\ c.external = call.external
BY DEF Calls

LEMMA EntryStarts == Debugger!Init => EntryInv
<1> SUFFICES ASSUME Debugger!Init PROVE EntryInv
  OBVIOUS
<1>1. call \in Calls /\ call.pc = "idle" /\ call.purpose = "none" /\ ~call.launched /\ ~call.external /\ call.candidate = 0
  BY DEF Debugger!Init, Debugger!Idle, Debugger!None, Calls, PCs
<1>2. DOMAIN regions = {} /\ reserved = 0 /\ arena = 0 /\ aliases = {} /\ granted = 0 /\ attached \in BOOLEAN
  BY DEF Debugger!Init, Debugger!None
<1>3. regions \in [DOMAIN regions -> RegionKinds]
  BY <1>2 DEF Debugger!Init
<1> QED
  BY <1>1, <1>2, <1>3, EntryAssumption DEF EntryInv, EntryTypes, RegionsAreAccounted, NumbersAreFresh, CallIsPlaced, ArenaIsFound

\* A debugger that goes leaves every region where it is, executable or not.
LEMMA GoneShape ==
    ASSUME EntryTypes, Debugger!GoesAway
    PROVE  /\ ~attached' /\ attached' \in BOOLEAN /\ DOMAIN regions' = DOMAIN regions
           /\ regions' \in [DOMAIN regions' -> RegionKinds]
           /\ \A id \in DOMAIN regions : regions'[id].size = regions[id].size
<1>1. PICK lost \in SUBSET DOMAIN regions :
        regions' = [id \in DOMAIN regions |-> [regions[id] EXCEPT !.exec = @ /\ id \notin lost]]
  BY DEF Debugger!GoesAway
<1>2. DOMAIN regions' = DOMAIN regions
  BY <1>1
<1>3. ASSUME NEW id \in DOMAIN regions
      PROVE  regions'[id] \in RegionKinds /\ regions'[id].size = regions[id].size
  <2>1. regions[id] \in RegionKinds
    BY DEF EntryTypes
  <2>2. regions'[id] = [regions[id] EXCEPT !.exec = @ /\ id \notin lost]
    BY <1>1
  <2> QED
    BY <2>1, <2>2 DEF RegionKinds
<1>4. regions' \in [DOMAIN regions' -> RegionKinds]
  BY <1>1, <1>2, <1>3
<1> QED
  BY <1>2, <1>3, <1>4 DEF Debugger!GoesAway

LEMMA LeavesKeeps == EntryInv /\ Debugger!Leaves => EntryInv'
<1> SUFFICES ASSUME EntryInv, Debugger!Leaves PROVE EntryInv'
  OBVIOUS
<1> USE DEF EntryInv
<1>1. /\ ~attached' /\ attached' \in BOOLEAN /\ DOMAIN regions' = DOMAIN regions
      /\ regions' \in [DOMAIN regions' -> RegionKinds]
      /\ \A id \in DOMAIN regions : regions'[id].size = regions[id].size
  BY GoneShape DEF Debugger!Leaves
<1>2. EntryTypes' /\ RegionsAreAccounted' /\ NumbersAreFresh' /\ CallIsPlaced'
  BY <1>1 DEF Debugger!Leaves, EntryTypes, RegionsAreAccounted, NumbersAreFresh, CallIsPlaced
<1>3. ArenaIsFound'
  BY <1>1, <1>2 DEF Debugger!Leaves, EntryTypes, RegionsAreAccounted, CallIsPlaced, ArenaIsFound
<1> QED
  BY <1>2, <1>3

LEMMA AttachesKeeps == EntryInv /\ Debugger!Attaches => EntryInv'
<1> SUFFICES ASSUME EntryInv, Debugger!Attaches PROVE EntryInv'
  OBVIOUS
<1> USE DEF EntryInv
<1>1. call.pc # "executes" /\ call.pc # "entered"
  BY DEF Debugger!Attaches, EntryTypes, Calls, CallIsPlaced
<1> QED
  BY <1>1 DEF Debugger!Attaches, EntryTypes, RegionsAreAccounted, NumbersAreFresh, CallIsPlaced, ArenaIsFound

LEMMA RequestsKeeps == EntryInv /\ Debugger!Requests => EntryInv'
<1> SUFFICES ASSUME EntryInv, Debugger!Requests PROVE EntryInv'
  OBVIOUS
<1> USE DEF EntryInv, EntryTypes
<1>1. PICK p \in {"trap", "refused"} : call' = [call EXCEPT !.pc = p]
  BY DEF Debugger!Requests, Debugger!Goto
<1>2. p \in PCs
  BY DEF PCs
<1>3. /\ call' \in Calls /\ call'.pc = p /\ call'.purpose = call.purpose /\ call'.size = call.size 
      /\ call'.candidate = call.candidate /\ call'.launched = call.launched /\ call'.external = call.external
  BY <1>1, <1>2, GotoShape
<1> QED
  BY <1>1, <1>3 DEF Debugger!Requests, RegionsAreAccounted, NumbersAreFresh, CallIsPlaced, ArenaIsFound
LEMMA TrapsKeeps == EntryInv /\ Debugger!Traps => EntryInv'
<1> SUFFICES ASSUME EntryInv, Debugger!Traps PROVE EntryInv'
  OBVIOUS
<1> USE DEF EntryInv, EntryTypes
<1>1. CASE /\ attached /\ granted < MaxRegions /\ granted' = granted + 1
           /\ regions' = [id \in DOMAIN regions \cup {granted + 1} |->
                             IF id = granted + 1 THEN [size |-> call.size, exec |-> TRUE] ELSE regions[id]]
           /\ call' = [Debugger!Goto("adopt") EXCEPT !.candidate = granted + 1]
  <2>1. /\ call' \in Calls /\ call'.pc = "adopt" /\ call'.purpose = call.purpose /\ call'.size = call.size
        /\ call'.candidate = granted + 1 /\ call'.launched = call.launched /\ call'.external = call.external
    <3>1. granted + 1 \in Nat /\ "adopt" \in PCs /\ call \in Calls
      BY DEF PCs
    <3>2. call' = [[call EXCEPT !.pc = "adopt"] EXCEPT !.candidate = granted + 1]
      BY <1>1 DEF Debugger!Goto
    <3> QED
      BY <3>1, <3>2, CandidateShape, ZenonT(40)
  <2>2. DOMAIN regions' = DOMAIN regions \cup {granted + 1}
    BY <1>1
  <2>3. regions' \in [DOMAIN regions' -> RegionKinds]
    <3>1. call.size \in Nat
      BY DEF Calls
    <3>2. ASSUME NEW id \in DOMAIN regions' PROVE regions'[id] \in RegionKinds
      BY <1>1, <2>2, <3>1 DEF RegionKinds
    <3> QED
      BY <1>1, <2>2, <3>2
  <2>4. call.candidate = 0
    BY DEF Debugger!Traps, RegionsAreAccounted
  <2>5. arena <= granted
    BY <1>1 DEF Debugger!Traps, CallIsPlaced, NumbersAreFresh, Calls
  <2>6. UNCHANGED <<attached, aliases, reserved, arena>> /\ call.pc = "trap"
    BY DEF Debugger!Traps
  <2>7. RegionsAreAccounted'
    BY <2>1, <2>2, <2>4, <2>5, <2>6 DEF RegionsAreAccounted, NumbersAreFresh
  <2>8. NumbersAreFresh'
    BY <1>1, <2>1, <2>5, <2>6, EntryAssumption DEF NumbersAreFresh
  <2>9. CallIsPlaced'
    BY <2>1, <2>6 DEF CallIsPlaced
  <2>10. regions'[call'.candidate].size = call'.size
    BY <1>1, <2>1
  <2>11. ArenaIsFound'
    BY <2>1, <2>10 DEF ArenaIsFound
  <2>12. EntryTypes'
    <3>1. granted' \in Nat
      BY <1>1
    <3> QED
      BY <2>1, <2>3, <2>6, <3>1
  <2> QED
    BY <2>7, <2>8, <2>9, <2>11, <2>12
<1>2. CASE /\ attached
           /\ call' = [Debugger!Goto(Debugger!Again) EXCEPT !.attempt = IF @ < Attempts THEN @ + 1 ELSE @]
           /\ UNCHANGED <<regions, granted>>
  <2>1. PICK p \in {"trap", "refused"}, n \in Nat : call' = [[call EXCEPT !.pc = p] EXCEPT !.attempt = n]
    <3> DEFINE p == Debugger!Again
               n == IF call.attempt < Attempts THEN call.attempt + 1 ELSE call.attempt
    <3>1. p \in {"trap", "refused"} /\ n \in Nat
      BY DEF Debugger!Again, Calls
    <3>2. [call EXCEPT !.pc = p].attempt = call.attempt
      BY DEF Calls
    <3>3. call' = [[call EXCEPT !.pc = p] EXCEPT !.attempt = n]
      BY <1>2, <3>2 DEF Debugger!Goto
    <3> QED
      BY <3>1, <3>3
  <2>2. p \in PCs
    BY DEF PCs
  <2>3. /\ call' \in Calls /\ call'.pc = p /\ call'.purpose = call.purpose /\ call'.size = call.size
        /\ call'.candidate = call.candidate /\ call'.launched = call.launched /\ call'.external = call.external
    BY <2>1, <2>2, AttemptShape
  <2> QED
    BY <1>2, <2>1, <2>3 DEF Debugger!Traps, RegionsAreAccounted, NumbersAreFresh, CallIsPlaced, ArenaIsFound
<1>3. CASE ~attached /\ call' = Debugger!Goto("dead") /\ UNCHANGED <<regions, granted>>
  <2>1. /\ call' \in Calls /\ call'.pc = "dead" /\ call'.purpose = call.purpose /\ call'.size = call.size
        /\ call'.candidate = call.candidate /\ call'.launched = call.launched /\ call'.external = call.external
    BY <1>3, GotoShape DEF Debugger!Goto, PCs
  <2> QED
    BY <1>3, <2>1 DEF Debugger!Traps, RegionsAreAccounted, NumbersAreFresh, CallIsPlaced, ArenaIsFound
<1> QED
  BY <1>1, <1>2, <1>3 DEF Debugger!Traps

\* munmap of a region.
LEMMA DropShape ==
    ASSUME EntryTypes, NEW id, regions' = Debugger!Drop(regions, id)
    PROVE  /\ DOMAIN regions' = DOMAIN regions \ {id} /\ regions' \in [DOMAIN regions' -> RegionKinds]
           /\ \A k \in DOMAIN regions' : regions'[k] = regions[k]
BY DEF Debugger!Drop, EntryTypes

LEMMA AdoptsKeeps == EntryInv /\ Debugger!Adopts => EntryInv'
<1> SUFFICES ASSUME EntryInv, Debugger!Adopts PROVE EntryInv'
  OBVIOUS
<1> USE DEF EntryInv, EntryTypes
<1>1. call.pc = "adopt" /\ attached' = attached /\ granted' = granted /\ call.candidate \in Nat
  BY DEF Debugger!Adopts, Calls
<1>2. CASE /\ Debugger!Holder = 0 /\ Debugger!Adopted(call.candidate) /\ aliases' = aliases \cup {call.candidate}
           /\ UNCHANGED regions /\ call' = [Debugger!Goto("provided") EXCEPT !.candidate = 0]
  <2>1. /\ call' \in Calls /\ call'.pc = "provided" /\ call'.purpose = call.purpose /\ call'.size = call.size
        /\ call'.candidate = 0 /\ call'.launched = call.launched /\ call'.external = call.external
    <3>1. 0 \in Nat /\ "provided" \in PCs /\ call \in Calls
      BY DEF PCs
    <3>2. call' = [[call EXCEPT !.pc = "provided"] EXCEPT !.candidate = 0]
      BY <1>2 DEF Debugger!Goto
    <3> QED
      BY <3>1, <3>2, CandidateShape, ZenonT(40)
  <2>2. CASE call.purpose = "reserve"
    <3>1. reserved = 0 /\ reserved' = call.candidate /\ arena' = arena /\ arena = 0
      BY <1>1, <1>2, <2>2 DEF Debugger!Adopted, CallIsPlaced
    <3>2. RegionsAreAccounted' /\ NumbersAreFresh'
      BY <1>1, <1>2, <2>1, <3>1 DEF RegionsAreAccounted, NumbersAreFresh
    <3>3. CallIsPlaced'
      BY <1>1, <2>1, <2>2, <3>1 DEF CallIsPlaced, RegionsAreAccounted
    <3>4. ArenaIsFound'
      BY <2>1, <2>2, <3>3 DEF CallIsPlaced, ArenaIsFound
    <3> QED
      BY <1>1, <1>2, <2>1, <3>1, <3>2, <3>3, <3>4
  <2>3. CASE call.purpose = "launch"
    <3>1. arena = 0 /\ arena' = call.candidate /\ reserved' = reserved /\ reserved = 0
      BY <1>1, <1>2, <2>3 DEF Debugger!Adopted, CallIsPlaced
    <3>2. RegionsAreAccounted' /\ NumbersAreFresh'
      BY <1>1, <1>2, <2>1, <3>1 DEF RegionsAreAccounted, NumbersAreFresh
    <3>3. CallIsPlaced'
      BY <1>1, <2>1, <2>3, <3>1 DEF CallIsPlaced
    <3>4. regions'[arena'].size >= call'.size /\ arena' # 0
      BY <1>1, <1>2, <2>1, <3>1 DEF ArenaIsFound, RegionsAreAccounted, Calls
    <3>5. ArenaIsFound'
      BY <2>1, <3>1, <3>4 DEF ArenaIsFound
    <3> QED
      BY <1>1, <1>2, <2>1, <3>1, <3>2, <3>3, <3>5
  <2> QED
    BY <1>1, <2>2, <2>3 DEF CallIsPlaced, Calls
<1>3. CASE /\ Debugger!GivenBack(call.candidate) /\ call' = [Debugger!Goto("refused") EXCEPT !.candidate = 0]
           /\ UNCHANGED <<aliases, reserved, arena>>
  <2>1. /\ call' \in Calls /\ call'.pc = "refused" /\ call'.purpose = call.purpose /\ call'.size = call.size
        /\ call'.candidate = 0 /\ call'.launched = call.launched /\ call'.external = call.external
    <3>1. 0 \in Nat /\ "refused" \in PCs /\ call \in Calls
      BY DEF PCs
    <3>2. call' = [[call EXCEPT !.pc = "refused"] EXCEPT !.candidate = 0]
      BY <1>3 DEF Debugger!Goto
    <3> QED
      BY <3>1, <3>2, CandidateShape, ZenonT(40)
  <2>2. /\ DOMAIN regions' = DOMAIN regions \ {call.candidate} /\ regions' \in [DOMAIN regions' -> RegionKinds]
    BY <1>3, DropShape DEF Debugger!GivenBack
  <2>3. RegionsAreAccounted'
    BY <1>3, <2>1, <2>2 DEF RegionsAreAccounted
  <2>4. NumbersAreFresh'
    BY <1>1, <1>3, <2>1 DEF NumbersAreFresh
  <2>5. CallIsPlaced' /\ ArenaIsFound'
    BY <1>1, <1>3, <2>1 DEF CallIsPlaced, ArenaIsFound
  <2>6. EntryTypes'
    BY <1>1, <1>3, <2>1, <2>2
  <2> QED
    BY <2>3, <2>4, <2>5, <2>6
<1> QED
  BY <1>2, <1>3 DEF Debugger!Adopts, Debugger!None

LEMMA ReserveKeeps == EntryInv /\ Debugger!Reserve => EntryInv'
<1> SUFFICES ASSUME EntryInv, Debugger!Reserve PROVE EntryInv'
  OBVIOUS
<1> USE DEF EntryInv, EntryTypes
<1>1. UNCHANGED <<attached, regions, granted, aliases, reserved, arena>> /\ call.pc = "idle" /\ ~call.launched /\ reserved = 0
  BY DEF Debugger!Reserve, Debugger!None
<1>2. /\ call' \in Calls /\ call'.pc = "request" /\ call'.purpose = "reserve"
      /\ call'.candidate = call.candidate /\ call'.launched = call.launched
  BY EntryAssumption DEF Debugger!Reserve, Calls, PCs
<1> QED
  BY <1>1, <1>2 DEF RegionsAreAccounted, NumbersAreFresh, CallIsPlaced, ArenaIsFound

LEMMA ReserveLessKeeps == EntryInv /\ Debugger!ReserveLess => EntryInv'
<1> SUFFICES ASSUME EntryInv, Debugger!ReserveLess PROVE EntryInv'
  OBVIOUS
<1> USE DEF EntryInv, EntryTypes
<1>1. UNCHANGED <<attached, regions, granted, aliases, reserved, arena>> /\ call.pc = "refused" /\ call.purpose = "reserve"
  BY DEF Debugger!ReserveLess
<1> DEFINE n == IF call.size \div 2 < Smallest THEN Smallest ELSE call.size \div 2
<1>2. n \in Nat
  BY EntryAssumption DEF Calls
<1>3. /\ call' \in Calls /\ call'.pc \in {"idle", "request"} /\ call'.purpose = call.purpose
      /\ call'.candidate = call.candidate /\ call'.launched = call.launched
  <2>1. CASE call.size <= Smallest
    <3>1. call' = [call EXCEPT !.pc = "idle"] /\ "idle" \in PCs
      BY <2>1 DEF Debugger!ReserveLess, Debugger!Goto, PCs
    <3> QED
      BY <3>1, GotoShape
  <2>2. CASE ~(call.size <= Smallest)
    <3>1. call' = [call EXCEPT !.pc = "request", !.attempt = 0, !.size = n] /\ "request" \in PCs
      BY <2>2 DEF Debugger!ReserveLess, PCs, Calls
    <3> HIDE DEF n
    <3> QED
      BY <1>2, <3>1 DEF Calls
  <2> QED
    BY <2>1, <2>2
<1> QED
  BY <1>1, <1>3 DEF RegionsAreAccounted, NumbersAreFresh, CallIsPlaced, ArenaIsFound

\* da_detached, in either call: the arena stays where it is.
LEMMA LetGoKeeps ==
    ASSUME EntryInv, NEW next \in {"survived", "detached"},
           next = "survived" <=> call.purpose = "reserve", call.purpose \in {"reserve", "launch"},
           \/ call.pc = "provided" /\ Debugger!AskToLetGo(next)
           \/ call.pc = "let go" /\ Debugger!LetGoTrap(next),
           UNCHANGED <<granted, aliases, reserved, arena>>
    PROVE  EntryInv'
<1> USE DEF EntryInv
<1>1. PICK p \in {"let go", "dead", next} : call' = [call EXCEPT !.pc = p]
  BY DEF Debugger!AskToLetGo, Debugger!LetGoTrap, Debugger!Goto
<1>2. /\ call' \in Calls /\ call'.pc = p /\ call'.purpose = call.purpose /\ call'.size = call.size
      /\ call'.candidate = call.candidate /\ call'.launched = call.launched /\ call'.external = call.external
  <2>1. p \in PCs
    BY DEF PCs
  <2> QED
    BY <1>1, <2>1, GotoShape DEF EntryTypes
<1>3. /\ attached' \in BOOLEAN /\ DOMAIN regions' = DOMAIN regions
      /\ regions' \in [DOMAIN regions' -> RegionKinds]
      /\ \A id \in DOMAIN regions : regions'[id].size = regions[id].size
  <2>1. CASE Debugger!GoesAway
    BY <2>1, GoneShape
  <2>2. CASE UNCHANGED <<attached, regions>>
    BY <2>2 DEF EntryTypes
  <2> QED
    BY <2>1, <2>2 DEF Debugger!AskToLetGo, Debugger!LetGoTrap
<1>4. EntryTypes'
  BY <1>2, <1>3 DEF EntryTypes
<1>5. call.pc \in {"provided", "let go"} /\ call.candidate = 0
  BY DEF RegionsAreAccounted
<1>6. RegionsAreAccounted' /\ NumbersAreFresh'
  BY <1>2, <1>3, <1>5 DEF RegionsAreAccounted, NumbersAreFresh
<1>7. CallIsPlaced'
  BY <1>2, <1>5 DEF CallIsPlaced
<1>8. ArenaIsFound'
  BY <1>2, <1>3, <1>5 DEF CallIsPlaced, ArenaIsFound, RegionsAreAccounted
<1> QED
  BY <1>4, <1>6, <1>7, <1>8

LEMMA ReserveReleasesKeeps == EntryInv /\ Debugger!ReserveReleases => EntryInv'
BY LetGoKeeps DEF Debugger!ReserveReleases

\* nc_destroy of the reserved arena.
LEMMA DestroyShape ==
    ASSUME EntryTypes, RegionsAreAccounted, Debugger!DestroyReserved
    PROVE  /\ reserved' = 0 /\ aliases' = aliases \ {reserved} /\ DOMAIN regions' = DOMAIN regions \ {reserved}
           /\ regions' \in [DOMAIN regions' -> RegionKinds]
           /\ \A k \in DOMAIN regions' : regions'[k] = regions[k]
BY DropShape DEF Debugger!DestroyReserved, Debugger!None

LEMMA ReserveEndsKeeps == EntryInv /\ Debugger!ReserveEnds => EntryInv'
<1> SUFFICES ASSUME EntryInv, Debugger!ReserveEnds PROVE EntryInv'
  OBVIOUS
<1> USE DEF EntryInv
<1>1. UNCHANGED <<attached, granted, arena>> /\ call.pc = "survived"
  BY DEF Debugger!ReserveEnds
<1>2. call.purpose = "reserve" /\ arena = 0 /\ call.candidate = 0
  BY <1>1 DEF CallIsPlaced, RegionsAreAccounted, EntryTypes, Calls
<1>3. /\ call' \in Calls /\ call'.pc = "idle" /\ call'.purpose = call.purpose
      /\ call'.candidate = call.candidate /\ call'.launched = call.launched
  <2>1. call' = [call EXCEPT !.pc = "idle"] /\ "idle" \in PCs
    BY DEF Debugger!ReserveEnds, Debugger!Goto, PCs
  <2> QED
    BY <2>1, GotoShape DEF EntryTypes
<1>4. CASE UNCHANGED <<regions, aliases, reserved>>
  BY <1>1, <1>2, <1>3, <1>4 DEF EntryTypes, RegionsAreAccounted, NumbersAreFresh, CallIsPlaced, ArenaIsFound
<1>5. CASE Debugger!DestroyReserved
  <2>1. /\ reserved' = 0 /\ aliases' = aliases \ {reserved} /\ DOMAIN regions' = DOMAIN regions \ {reserved}
        /\ regions' \in [DOMAIN regions' -> RegionKinds]
    BY <1>5, DestroyShape
  <2>2. RegionsAreAccounted'
    BY <1>1, <1>2, <1>3, <2>1 DEF RegionsAreAccounted
  <2>3. NumbersAreFresh'
    BY <1>1, <1>3, <2>1 DEF NumbersAreFresh, EntryTypes
  <2>4. CallIsPlaced' /\ ArenaIsFound'
    BY <1>1, <1>2, <1>3 DEF CallIsPlaced, ArenaIsFound
  <2>5. EntryTypes'
    BY <1>1, <1>3, <2>1 DEF EntryTypes
  <2> QED
    BY <2>2, <2>3, <2>4, <2>5
<1> QED
  BY <1>4, <1>5 DEF Debugger!ReserveEnds

LEMMA LaunchTooLargeKeeps == EntryInv /\ Debugger!LaunchTooLarge => EntryInv'
<1> SUFFICES ASSUME EntryInv, Debugger!LaunchTooLarge PROVE EntryInv'
  OBVIOUS
<1> USE DEF EntryInv, EntryTypes
<1>1. UNCHANGED <<attached, regions, granted, aliases, reserved, arena>> /\ call.pc = "idle" /\ ~call.launched
  BY DEF Debugger!LaunchTooLarge
<1>2. /\ call' \in Calls /\ call'.pc = "blocked" /\ call'.purpose = "launch"
      /\ call'.candidate = call.candidate /\ call'.launched
  BY DEF Debugger!LaunchTooLarge, Debugger!Goto, Calls, PCs
<1> QED
  BY <1>1, <1>2 DEF RegionsAreAccounted, NumbersAreFresh, CallIsPlaced, ArenaIsFound

LEMMA LaunchRefusedKeeps == EntryInv /\ Debugger!LaunchRefused => EntryInv'
<1> SUFFICES ASSUME EntryInv, Debugger!LaunchRefused PROVE EntryInv'
  OBVIOUS
<1> USE DEF EntryInv, EntryTypes
<1>1. UNCHANGED <<attached, regions, granted, aliases, reserved, arena>> /\ call.pc = "refused" /\ call.purpose = "launch"
  BY DEF Debugger!LaunchRefused
<1>2. /\ call' \in Calls /\ call'.pc = "own" /\ call'.purpose = "launch"
      /\ call'.candidate = call.candidate /\ call'.launched = call.launched
  <2>1. call' = [call EXCEPT !.pc = "own"] /\ "own" \in PCs
    BY DEF Debugger!LaunchRefused, Debugger!Goto, PCs
  <2> QED
    BY <1>1, <2>1, GotoShape
<1> QED
  BY <1>1, <1>2 DEF RegionsAreAccounted, NumbersAreFresh, CallIsPlaced, ArenaIsFound
\* ng_reserved_choice takes a reserved arena that is large enough, and otherwise
\* leaves none.
LEMMA LaunchKeeps == EntryInv /\ Debugger!Launch => EntryInv'
<1> SUFFICES ASSUME EntryInv, Debugger!Launch PROVE EntryInv'
  OBVIOUS
<1> USE DEF EntryInv
<1>1. PICK external \in BOOLEAN, total \in Needs :
        LET choice == Debugger!ReservedChoice(external, total)
            begun == [call EXCEPT !.purpose = "launch", !.size = total, !.attempt = 0, !.launched = TRUE, !.external = external]
        IN  /\ call' = [begun EXCEPT !.pc = CASE choice = "refuse" -> "blocked" [] choice = "take" -> "provided"
                                             [] OTHER -> IF external THEN "request" ELSE "own"]
            /\ arena' = IF choice = "take" THEN reserved ELSE arena
            /\ IF choice \in {"refuse", "give back"} THEN Debugger!DestroyReserved
               ELSE reserved' = (IF choice = "take" THEN 0 ELSE reserved) /\ UNCHANGED <<regions, aliases>>
  BY DEF Debugger!Launch, Debugger!None
<1> DEFINE choice == Debugger!ReservedChoice(external, total)
           begun == [call EXCEPT !.purpose = "launch", !.size = total, !.attempt = 0, !.launched = TRUE, !.external = external]
           p == CASE choice = "refuse" -> "blocked" [] choice = "take" -> "provided"
                  [] OTHER -> IF external THEN "request" ELSE "own"
<1>2. total \in Nat /\ arena = 0 /\ call.candidate = 0 /\ attached' = attached /\ granted' = granted
  BY EntryAssumption DEF Debugger!Launch, CallIsPlaced, RegionsAreAccounted
<1>3. p \in PCs /\ call' = [begun EXCEPT !.pc = p]
  BY <1>1 DEF PCs
<1>4. /\ call' \in Calls /\ call'.pc = p /\ call'.purpose = "launch" /\ call'.size = total
      /\ call'.candidate = 0 /\ call'.launched = TRUE
  <2> DEFINE c == [begun EXCEPT !.pc = p]
  <2>1. /\ c \in Calls /\ c.pc = p /\ c.purpose = "launch" /\ c.size = total
        /\ c.candidate = call.candidate /\ c.launched = TRUE
    <3>1. call \in Calls
      BY DEF EntryTypes
    <3> HIDE DEF p
    <3> QED
      BY <1>2, <1>3, <3>1 DEF Calls
  <2> HIDE DEF p, c, begun
  <2> QED
    BY <1>2, <1>3, <2>1 DEF c
<1>5. CASE choice = "take"
  <2>1. p = "provided" /\ arena' = reserved /\ reserved' = 0 /\ UNCHANGED <<regions, aliases>>
    BY <1>1, <1>5
  <2>2. reserved # 0 /\ total <= regions[reserved].size
    BY <1>5 DEF Debugger!ReservedChoice, Debugger!None
  <2>3. RegionsAreAccounted'
    BY <1>2, <1>4, <2>1, <2>2 DEF RegionsAreAccounted
  <2>4. NumbersAreFresh'
    BY <1>2, <1>4, <2>1 DEF NumbersAreFresh, EntryTypes
  <2>5. CallIsPlaced'
    BY <1>4, <2>1 DEF CallIsPlaced
  <2>6. regions[reserved].size \in Nat
    BY <2>2 DEF EntryTypes, RegionKinds, RegionsAreAccounted
  <2>7. ArenaIsFound'
    BY <1>2, <1>4, <2>1, <2>2, <2>6 DEF ArenaIsFound
  <2>8. EntryTypes'
    BY <1>2, <1>4, <2>1 DEF EntryTypes
  <2> QED
    BY <2>3, <2>4, <2>5, <2>7, <2>8
<1>6. CASE choice \in {"refuse", "give back"}
  <2>1. p \in {"blocked", "request", "own"} /\ arena' = 0 /\ Debugger!DestroyReserved
    BY <1>1, <1>2, <1>6
  <2>2. /\ reserved' = 0 /\ aliases' = aliases \ {reserved} /\ DOMAIN regions' = DOMAIN regions \ {reserved}
        /\ regions' \in [DOMAIN regions' -> RegionKinds]
    BY <2>1, DestroyShape
  <2> HIDE DEF p, choice
  <2>3. RegionsAreAccounted'
    BY <1>2, <1>4, <2>1, <2>2 DEF RegionsAreAccounted
  <2>4. NumbersAreFresh'
    BY <1>2, <1>4, <2>1, <2>2 DEF NumbersAreFresh, EntryTypes
  <2>5. CallIsPlaced' /\ ArenaIsFound'
    BY <1>4, <2>1, <2>2 DEF CallIsPlaced, ArenaIsFound
  <2>6. EntryTypes'
    BY <1>2, <1>4, <2>1, <2>2 DEF EntryTypes
  <2> QED
    BY <2>3, <2>4, <2>5, <2>6
<1>7. CASE choice = "none"
  <2>1. p \in {"request", "own"} /\ arena' = 0 /\ reserved' = reserved /\ UNCHANGED <<regions, aliases>>
    BY <1>1, <1>2, <1>7
  <2>2. reserved = 0
    BY <1>7 DEF Debugger!ReservedChoice, Debugger!None
  <2> HIDE DEF p, choice
  <2>3. RegionsAreAccounted' /\ NumbersAreFresh'
    BY <1>2, <1>4, <2>1, <2>2 DEF RegionsAreAccounted, NumbersAreFresh
  <2>4. CallIsPlaced' /\ ArenaIsFound'
    BY <1>4, <2>1, <2>2 DEF CallIsPlaced, ArenaIsFound
  <2>5. EntryTypes'
    BY <1>2, <1>4, <2>1 DEF EntryTypes
  <2> QED
    BY <2>3, <2>4, <2>5
<1>8. choice \in {"none", "give back", "take", "refuse"}
  BY DEF Debugger!ReservedChoice
<1> QED
  BY <1>5, <1>6, <1>7, <1>8

LEMMA OwnKeeps == EntryInv /\ Debugger!Own => EntryInv'
<1> SUFFICES ASSUME EntryInv, Debugger!Own PROVE EntryInv'
  OBVIOUS
<1> USE DEF EntryInv
<1>1. UNCHANGED <<attached, granted, reserved>> /\ call.pc = "own"
  BY DEF Debugger!Own
<1>2. call.launched /\ arena = 0 /\ reserved = 0 /\ call.candidate = 0 /\ call.purpose = "launch"
  BY <1>1 DEF CallIsPlaced, RegionsAreAccounted, EntryTypes, Calls
<1>3. CASE call' = Debugger!Goto("blocked") /\ UNCHANGED <<regions, arena, aliases>>
  <2>1. /\ call' \in Calls /\ call'.pc = "blocked" /\ call'.purpose = call.purpose /\ call'.size = call.size
        /\ call'.candidate = call.candidate /\ call'.launched = call.launched /\ call'.external = call.external
    BY <1>3, GotoShape DEF Debugger!Goto, PCs, EntryTypes
  <2> QED
    BY <1>1, <1>2, <1>3, <2>1 DEF EntryTypes, RegionsAreAccounted, NumbersAreFresh, CallIsPlaced, ArenaIsFound
<1>4. ASSUME NEW exec \in BOOLEAN,
             regions' = [id \in DOMAIN regions \cup {MaxRegions + 1} |->
                            IF id = MaxRegions + 1 THEN [size |-> call.size, exec |-> exec] ELSE regions[id]],
             arena' = MaxRegions + 1, aliases' = aliases \cup {MaxRegions + 1},
             call' = Debugger!Goto(IF call.external THEN "provided" ELSE "entered")
      PROVE  EntryInv'
  <2>1. PICK p \in {"provided", "entered"} : call' = [call EXCEPT !.pc = p] /\ (p = "entered" => ~call.external)
    BY <1>4 DEF Debugger!Goto
  <2>2. /\ call' \in Calls /\ call'.pc = p /\ call'.purpose = call.purpose /\ call'.size = call.size
        /\ call'.candidate = call.candidate /\ call'.launched = call.launched /\ call'.external = call.external
    <3>1. p \in PCs
      BY DEF PCs
    <3> QED
      BY <2>1, <3>1, GotoShape DEF EntryTypes
  <2>3. MaxRegions + 1 \in Nat \ {0} /\ call.size \in Nat
    BY EntryAssumption DEF EntryTypes, Calls
  <2>4. DOMAIN regions = {} /\ DOMAIN regions' = {MaxRegions + 1}
    BY <1>2, <1>4 DEF RegionsAreAccounted
  <2>5. regions' = [id \in {MaxRegions + 1} |-> [size |-> call.size, exec |-> exec]]
    BY <1>4, <2>4
  <2>6. regions' \in [DOMAIN regions' -> RegionKinds] /\ regions'[arena'].size = call.size
    BY <1>4, <2>3, <2>4, <2>5 DEF RegionKinds
  <2>7. RegionsAreAccounted'
    BY <1>1, <1>2, <1>4, <2>1, <2>2, <2>3, <2>4 DEF RegionsAreAccounted
  <2>8. NumbersAreFresh'
    BY <1>1, <1>2, <1>4, <2>2 DEF NumbersAreFresh
  <2>9. CallIsPlaced'
    BY <1>2, <2>1, <2>2 DEF CallIsPlaced
  <2>10. ArenaIsFound'
    <3>1. call'.external => call'.pc # "entered"
      BY <2>1, <2>2
    <3>2. arena' # 0 /\ reserved' = 0 /\ regions'[arena'].size >= call'.size
      BY <1>1, <1>2, <1>4, <2>2, <2>3, <2>6
    <3> QED
      BY <2>1, <2>2, <3>1, <3>2 DEF ArenaIsFound
  <2>11. EntryTypes'
    BY <1>1, <1>4, <2>2, <2>3, <2>6 DEF EntryTypes
  <2> QED
    BY <2>7, <2>8, <2>9, <2>10, <2>11
<1> QED
  BY <1>3, <1>4 DEF Debugger!Own

LEMMA EntryChecksKeeps == EntryInv /\ Debugger!EntryChecks => EntryInv'
<1> SUFFICES ASSUME EntryInv, Debugger!EntryChecks PROVE EntryInv'
  OBVIOUS
<1>1. call.purpose = "launch" /\ UNCHANGED <<granted, aliases, reserved, arena>>
  BY DEF Debugger!EntryChecks
<1>2. CASE \/ call.pc = "provided" /\ Debugger!AskToLetGo("detached")
           \/ call.pc = "let go" /\ Debugger!LetGoTrap("detached")
  BY <1>1, <1>2, LetGoKeeps
<1> USE DEF EntryInv
<1>3. CASE /\ call.pc = "detached" /\ UNCHANGED <<attached, regions>>
           /\ call' = Debugger!Goto(IF attached THEN "blocked" ELSE "executes")
  <2>1. PICK p \in {"blocked", "executes"} : call' = [call EXCEPT !.pc = p] /\ (p = "executes" => ~attached)
    BY <1>3 DEF Debugger!Goto
  <2>2. /\ call' \in Calls /\ call'.pc = p /\ call'.purpose = call.purpose /\ call'.size = call.size
        /\ call'.candidate = call.candidate /\ call'.launched = call.launched /\ call'.external = call.external
    <3>1. p \in PCs
      BY DEF PCs
    <3> QED
      BY <2>1, <3>1, GotoShape DEF EntryTypes
  <2> QED
    BY <1>1, <1>3, <2>1, <2>2 DEF EntryTypes, RegionsAreAccounted, NumbersAreFresh, CallIsPlaced, ArenaIsFound
<1>4. CASE /\ call.pc = "executes" /\ UNCHANGED <<attached, regions>>
           /\ call' = Debugger!Goto(IF regions[arena].exec THEN "entered" ELSE "blocked")
  <2>1. PICK p \in {"blocked", "entered"} : call' = [call EXCEPT !.pc = p] /\ (p = "entered" => regions[arena].exec)
    BY <1>4 DEF Debugger!Goto
  <2>2. /\ call' \in Calls /\ call'.pc = p /\ call'.purpose = call.purpose /\ call'.size = call.size
        /\ call'.candidate = call.candidate /\ call'.launched = call.launched /\ call'.external = call.external
    <3>1. p \in PCs
      BY DEF PCs
    <3> QED
      BY <2>1, <3>1, GotoShape DEF EntryTypes
  <2> QED
    BY <1>1, <1>4, <2>1, <2>2 DEF EntryTypes, RegionsAreAccounted, NumbersAreFresh, CallIsPlaced, ArenaIsFound
<1> QED
  BY <1>2, <1>3, <1>4 DEF Debugger!EntryChecks

LEMMA EntryStepKeeps == EntryInv /\ Debugger!Next => EntryInv'
BY LeavesKeeps, AttachesKeeps, ReserveKeeps, LaunchKeeps, LaunchTooLargeKeeps, RequestsKeeps, TrapsKeeps, AdoptsKeeps,
   ReserveLessKeeps, ReserveReleasesKeeps, ReserveEndsKeeps, LaunchRefusedKeeps, OwnKeeps, EntryChecksKeeps
   DEF Debugger!Next, Debugger!Steps

LEMMA EntryStutters == EntryInv /\ UNCHANGED entryVars => EntryInv'
<1> SUFFICES ASSUME EntryInv, UNCHANGED entryVars PROVE EntryInv'
  OBVIOUS
<1>1. EntryTypes' /\ RegionsAreAccounted' /\ NumbersAreFresh'
  BY DEF EntryInv, EntryTypes, RegionsAreAccounted, NumbersAreFresh, entryVars
<1>2. CallIsPlaced'
  BY DEF EntryInv, CallIsPlaced, entryVars
<1>3. ArenaIsFound'
  BY DEF EntryInv, ArenaIsFound, entryVars
<1> QED
  BY <1>1, <1>2, <1>3 DEF EntryInv

LEMMA EntryConcludes == EntryInv => Debugger!EntryIsPrepared /\ Debugger!RegionsAreHeldOrGivenBack
<1> SUFFICES ASSUME EntryInv PROVE Debugger!EntryIsPrepared /\ Debugger!RegionsAreHeldOrGivenBack
  OBVIOUS
<1> USE DEF EntryInv
<1>1. Debugger!EntryIsPrepared
  BY DEF Debugger!EntryIsPrepared, Debugger!None, ArenaIsFound, CallIsPlaced, EntryTypes, Calls
<1>2. Debugger!RegionsAreHeldOrGivenBack
  <2> SUFFICES ASSUME Debugger!Quiet
               PROVE  /\ DOMAIN regions = {reserved, arena} \ {0} /\ aliases = DOMAIN regions
                      /\ reserved = 0 \/ reserved # arena
                      /\ call.pc = "entered" => reserved = 0
    BY DEF Debugger!RegionsAreHeldOrGivenBack, Debugger!None
  <2>1. call.candidate = 0
    BY DEF Debugger!Quiet, RegionsAreAccounted
  <2> QED
    BY <2>1 DEF RegionsAreAccounted, ArenaIsFound, CallIsPlaced, EntryTypes, Calls
<1> QED
  BY <1>1, <1>2

\* da_entry_allowed and the calls before it, for every size of image, of region and
\* number of attempts: the guest of an external launch is entered only with no
\* debugger attached, in executable memory that holds the image, and between calls
\* every region is held with its alias or was given back.
THEOREM EntriesArePrepared == Spec => []EntryIsPrepared
<1> DEFINE Inv == subject = "entry" => EntryInv
<1>1. Init => Inv
  BY EntryStarts DEF Init
<1>2. Inv /\ [Next]_vars => Inv'
  <2> SUFFICES ASSUME Inv, [Next]_vars, subject' = "entry" PROVE EntryInv'
    OBVIOUS
  <2>1. subject = "entry"
    BY DEF Next, vars
  <2>2. CASE Debugger!Next
    BY <2>1, <2>2, EntryStepKeeps
  <2>3. CASE UNCHANGED entryVars
    BY <2>1, <2>3, EntryStutters
  <2> QED
    BY <2>1, <2>2, <2>3 DEF Next, vars
<1>3. Inv => EntryIsPrepared
  BY EntryConcludes DEF EntryIsPrepared
<1> QED
  BY <1>1, <1>2, <1>3, PTL DEF Spec
-----------------------------------------------------------------------------
(* The unwind table (UnwindRegistry).                                          *)

Ranges == [start : Int, size : Int]
ImageKinds == [header : Headers \cup {0}, code : Seq(Ranges)]
Adds == [pc : {"idle", "clear", "fill", "register", "publish"},
         image : [header : Headers \cup {0}, code : Unwind!Segments],
         next : Nat, sections : Unwind!Sections]
Finds == [pc : {"idle", "scan", "copy", "done"}, at : Int, count : Nat, i : Nat, answer : ImageKinds, known : Nat]

UnwindTypes ==
    /\ images \in [1 .. Slots -> ImageKinds] /\ count \in 0 .. Slots /\ registered \in Seq(ImageKinds)
    /\ add \in Adds /\ find \in Finds

\* The slot behind the published ones holds what the call has filled in so far.
SlotIsFilled ==
    /\ add.pc # "idle" => count < Slots
    /\ add.pc = "clear" => add.next = 1
    /\ add.pc = "fill" => /\ add.next \in 1 .. Len(add.image.code) + 1
                          /\ images[count + 1].code = Unwind!Filled(add.image.code)[add.next - 1]
    /\ add.pc \in {"register", "publish"} => images[count + 1] = Unwind!Executable(add.image)

\* What a lookup knows of the images that were registered when it began.
LookupIsTrue ==
    /\ find.pc # "idle" => find.count <= count /\ find.known = find.count
    /\ find.pc = "scan" => /\ find.i \in 1 .. find.count + 1
                           /\ \A k \in 1 .. find.i - 1 : ~Unwind!Covers(registered[k].code, find.at)
                           /\ find.answer = Unwind!Empty
    /\ find.pc = "copy" => find.i \in 1 .. find.count /\ Unwind!Covers(registered[find.i].code, find.at)
    /\ find.pc = "done" =>
          \/ /\ find.answer = Unwind!Empty
             /\ \A k \in 1 .. find.count : ~Unwind!Covers(registered[k].code, find.at)
          \/ \E k \in 1 .. find.count : find.answer = registered[k] /\ Unwind!Covers(registered[k].code, find.at)

UnwindInv == UnwindTypes /\ Unwind!PublishedSlotsAreWhole /\ SlotIsFilled /\ LookupIsTrue

-----------------------------------------------------------------------------

\* Segments as the images of a program have them: none is empty.
SegmentsOf == [start : Int, size : Int \ {0}, exec : BOOLEAN]

LEMMA SegmentsAreSequences == \A s \in Unwind!Segments : s \in Seq(SegmentsOf)
<1>1. Unwind!SegmentKinds \subseteq SegmentsOf
  BY UnwindAssumption DEF Unwind!SegmentKinds, SegmentsOf
<1> SUFFICES ASSUME NEW s \in Unwind!Segments PROVE s \in Seq(SegmentsOf)
  OBVIOUS
<1>2. PICK n \in 0 .. 2 : s \in [1 .. n -> Unwind!SegmentKinds]
  BY DEF Unwind!Segments
<1>3. s \in [1 .. n -> SegmentsOf] /\ n \in Nat
  BY <1>1, <1>2
<1> QED
  BY <1>3

\* The function Filled defines by recursion.
Fills(segments, m, f) ==
    f = [n \in 0 .. m |->
            IF n = 0 THEN <<>>
            ELSE IF segments[n].exec THEN Append(f[n - 1], [start |-> segments[n].start, size |-> segments[n].size])
            ELSE f[n - 1]]

LEMMA FillsExists == ASSUME NEW segments PROVE \A m \in Nat : \E f : Fills(segments, m, f)
<1> DEFINE N == {m \in Nat : \E f : Fills(segments, m, f)}
<1>1. 0 \in N
  <2> DEFINE f == [n \in 0 .. 0 |-> <<>>]
  <2>1. Fills(segments, 0, f)
    BY DEF Fills
  <2> QED
    BY <2>1
<1>2. ASSUME NEW m \in Nat, m \in N PROVE m + 1 \in N
  <2>1. PICK f : Fills(segments, m, f)
    BY <1>2
  <2> DEFINE Next1(n) == IF segments[n].exec THEN Append(f[n - 1], [start |-> segments[n].start, size |-> segments[n].size])
                         ELSE f[n - 1]
             g == [n \in 0 .. m + 1 |-> IF n = m + 1 THEN Next1(n) ELSE f[n]]
  <2>2. \A n \in 0 .. m : g[n] = f[n]
    OBVIOUS
  <2>3. ASSUME NEW n \in 0 .. m + 1
        PROVE  g[n] = IF n = 0 THEN <<>>
                      ELSE IF segments[n].exec THEN Append(g[n - 1], [start |-> segments[n].start, size |-> segments[n].size])
                      ELSE g[n - 1]
    <3>1. CASE n = m + 1
      <4>1. g[n] = Next1(n) /\ n # 0 /\ n - 1 \in 0 .. m
        BY <3>1
      <4>2. g[n - 1] = f[n - 1]
        BY <2>2, <4>1
      <4> HIDE DEF g
      <4> QED
        BY <4>1, <4>2
    <3>2. CASE n \in 0 .. m
      <4>1. g[n] = f[n] /\ (n # 0 => g[n - 1] = f[n - 1])
        BY <2>2, <3>2
      <4> HIDE DEF g
      <4> QED
        BY <2>1, <3>2, <4>1 DEF Fills
    <3> QED
      BY <3>1, <3>2
  <2>4. Fills(segments, m + 1, g)
    <3>1. g = [n \in 0 .. m + 1 |-> g[n]]
      OBVIOUS
    <3> HIDE DEF g
    <3> QED
      BY <2>3, <3>1 DEF Fills
  <2> QED
    BY <2>4
<1>3. Nat \subseteq N
  <2> HIDE DEF N
  <2> QED
    BY <1>1, <1>2, SetInduction
<1> QED
  BY <1>3

\* One segment more; and what is filled in is a sequence of ranges.
LEMMA FilledSteps ==
    ASSUME NEW s \in Seq(SegmentsOf)
    PROVE  /\ Unwind!Filled(s)[0] = <<>>
           /\ \A n \in 1 .. Len(s) :
                 Unwind!Filled(s)[n] = IF s[n].exec THEN Append(Unwind!Filled(s)[n - 1], [start |-> s[n].start, size |-> s[n].size])
                                       ELSE Unwind!Filled(s)[n - 1]
           /\ \A n \in 0 .. Len(s) : Unwind!Filled(s)[n] \in Seq(Ranges)
<1> DEFINE f == CHOOSE f : Fills(s, Len(s), f)
<1>1. Unwind!Filled(s) = f
  BY DEF Unwind!Filled, Fills
<1>2. Fills(s, Len(s), f)
  BY FillsExists
<1> HIDE DEF f
<1>3. f[0] = <<>>
  BY <1>2 DEF Fills
<1>4. ASSUME NEW n \in 1 .. Len(s)
      PROVE  f[n] = IF s[n].exec THEN Append(f[n - 1], [start |-> s[n].start, size |-> s[n].size]) ELSE f[n - 1]
  <2>1. n \in 0 .. Len(s) /\ n # 0
    OBVIOUS
  <2> QED
    BY <1>2, <2>1, Zenon DEF Fills
<1>5. \A n \in 0 .. Len(s) : f[n] \in Seq(Ranges)
  <2> DEFINE N == {n \in Nat : n <= Len(s) => f[n] \in Seq(Ranges)}
  <2>1. 0 \in N
    <3>1. f[0] \in Seq(Ranges)
      BY <1>3, EmptySeq
    <3> QED
      BY <3>1
  <2>2. ASSUME NEW n \in Nat, n \in N PROVE n + 1 \in N
    <3> SUFFICES ASSUME n + 1 <= Len(s) PROVE f[n + 1] \in Seq(Ranges)
      OBVIOUS
    <3>1. n + 1 \in 1 .. Len(s) /\ n = (n + 1) - 1 /\ f[n] \in Seq(Ranges)
      BY <2>2
    <3>2. s[n + 1] \in SegmentsOf
      BY <3>1
    <3>3. [start |-> s[n + 1].start, size |-> s[n + 1].size] \in Ranges
      BY <3>2 DEF SegmentsOf, Ranges
    <3>4. Append(f[n], [start |-> s[n + 1].start, size |-> s[n + 1].size]) \in Seq(Ranges)
      BY <3>1, <3>3, AppendProperties
    <3>5. f[n + 1] = IF s[n + 1].exec THEN Append(f[n], [start |-> s[n + 1].start, size |-> s[n + 1].size]) ELSE f[n]
      BY <1>4, <3>1
    <3> QED
      BY <3>1, <3>4, <3>5
  <2>3. Nat \subseteq N
    <3> HIDE DEF N
    <3> QED
      BY <2>1, <2>2, SetInduction
  <2> QED
    BY <2>3
<1> QED
  BY <1>1, <1>3, <1>4, <1>5
LEMMA IdleIsAdd == Unwind!Idle \in Adds /\ Unwind!Idle.pc = "idle"
<1>1. <<>> \in Unwind!Segments
  <2>1. <<>> \in [1 .. 0 -> Unwind!SegmentKinds] /\ 0 \in 0 .. 2
    OBVIOUS
  <2> QED
    BY <2>1 DEF Unwind!Segments
<1> QED
  BY <1>1 DEF Unwind!Idle, Unwind!Empty, Unwind!Sections, Adds

LEMMA UnwindStarts == Unwind!Init => UnwindInv
<1> SUFFICES ASSUME Unwind!Init PROVE UnwindInv
  OBVIOUS
<1>1. Unwind!Empty \in ImageKinds /\ <<>> \in Seq(ImageKinds) /\ Len(registered) = 0
  BY EmptySeq DEF Unwind!Init, Unwind!Empty, ImageKinds
<1>2. add \in Adds /\ add.pc = "idle"
  BY IdleIsAdd DEF Unwind!Init
<1>3. find \in Finds /\ find.pc = "idle"
  BY <1>1 DEF Unwind!Init, Unwind!Asleep, Finds
<1>4. UnwindTypes
  BY <1>1, <1>2, <1>3, UnwindAssumption DEF Unwind!Init, UnwindTypes
<1> QED
  BY <1>1, <1>2, <1>3, <1>4 DEF Unwind!Init, UnwindInv, Unwind!PublishedSlotsAreWhole, SlotIsFilled, LookupIsTrue

\* A lookup is not disturbed by a registration: the images it looks at stay.
LEMMA LookupFrame ==
    ASSUME UnwindInv, find' = find, count' \in Nat, count <= count',
           \A k \in 1 .. count : registered'[k] = registered[k]
    PROVE  LookupIsTrue'
<1> USE DEF UnwindInv, UnwindTypes
<1>1. count \in Nat /\ find.count \in Nat /\ find.i \in Nat
  BY UnwindAssumption DEF Finds
<1>2. CASE find.pc = "idle"
  BY <1>2 DEF LookupIsTrue
<1>3. CASE find.pc # "idle"
  <2>1. find.count <= count /\ find.known = find.count /\ find.count <= count'
    BY <1>1, <1>3 DEF LookupIsTrue
  <2>2. \A k \in 1 .. find.count : k \in 1 .. count /\ registered'[k] = registered[k]
    BY <1>1, <2>1
  <2>3. find.pc = "scan" => \A k \in 1 .. find.i - 1 : k \in 1 .. find.count
    BY <1>1 DEF LookupIsTrue
  <2>4. ASSUME find.pc = "scan"
        PROVE  \A k \in 1 .. find.i - 1 : ~Unwind!Covers(registered'[k].code, find.at)
    BY <2>2, <2>3, <2>4 DEF LookupIsTrue
  <2>5. ASSUME find.pc = "copy"
        PROVE  Unwind!Covers(registered'[find.i].code, find.at)
    BY <2>2, <2>5 DEF LookupIsTrue
  <2>6. ASSUME find.pc = "done"
        PROVE  \/ /\ find.answer = Unwind!Empty
                  /\ \A k \in 1 .. find.count : ~Unwind!Covers(registered'[k].code, find.at)
               \/ \E k \in 1 .. find.count : find.answer = registered'[k] /\ Unwind!Covers(registered'[k].code, find.at)
    BY <2>2, <2>6 DEF LookupIsTrue
  <2> QED
    BY <2>1, <2>4, <2>5, <2>6 DEF LookupIsTrue
<1> QED
  BY <1>2, <1>3

LEMMA BeginKeeps == UnwindInv /\ Unwind!Begin => UnwindInv'
<1> SUFFICES ASSUME UnwindInv, Unwind!Begin PROVE UnwindInv'
  OBVIOUS
<1> USE DEF UnwindInv, UnwindTypes
<1>1. UNCHANGED <<images, count, registered, find>>
  BY DEF Unwind!Begin
<1>2. count \in Nat
  BY UnwindAssumption
<1>3. LookupIsTrue'
  BY <1>1, <1>2, LookupFrame
<1>4. CASE add' = add
  BY <1>1, <1>3, <1>4 DEF Unwind!PublishedSlotsAreWhole, SlotIsFilled
<1>5. ASSUME NEW header \in Headers, NEW segments \in Unwind!Segments, count # Slots,
             add' = [pc |-> "clear", image |-> [header |-> header, code |-> segments], next |-> 1, sections |-> "inside"]
      PROVE  UnwindInv'
  <2>1. add' \in Adds /\ add'.pc = "clear" /\ add'.next = 1
    BY <1>5 DEF Adds, Unwind!Sections
  <2>2. count < Slots
    BY <1>2, <1>5, UnwindAssumption
  <2>3. SlotIsFilled'
    BY <1>1, <2>1, <2>2 DEF SlotIsFilled
  <2> QED
    BY <1>1, <1>3, <2>1, <2>3 DEF Unwind!PublishedSlotsAreWhole
<1>6. PICK header \in Headers, segments \in Unwind!Segments, sections \in Unwind!Sections :
        add' = IF sections # "inside" \/ count = Slots \/ (\E i \in 1 .. count : images[i].header = header) THEN add
               ELSE [pc |-> "clear", image |-> [header |-> header, code |-> segments], next |-> 1, sections |-> sections]
  BY DEF Unwind!Begin
<1> QED
  BY <1>4, <1>5, <1>6

\* A change of the slot behind the published ones leaves those as they are.
LEMMA SlotFrame ==
    ASSUME UnwindInv, count < Slots, NEW image, images' = [images EXCEPT ![count + 1] = image], image \in ImageKinds,
           UNCHANGED <<count, registered, find>>, add' \in Adds
    PROVE  UnwindTypes' /\ Unwind!PublishedSlotsAreWhole' /\ LookupIsTrue' /\ images'[count + 1] = image
<1> USE DEF UnwindInv, UnwindTypes
<1>1. count \in Nat /\ count + 1 \in 1 .. Slots
  BY UnwindAssumption
<1>2. images' \in [1 .. Slots -> ImageKinds] /\ images'[count + 1] = image
  BY <1>1
<1>3. \A i \in 1 .. count : images'[i] = images[i]
  BY <1>1, UnwindAssumption
<1>4. LookupIsTrue'
  BY <1>1, LookupFrame
<1> QED
  BY <1>2, <1>3, <1>4 DEF Unwind!PublishedSlotsAreWhole

LEMMA AddsShape ==
    ASSUME add \in Adds, NEW p \in {"idle", "clear", "fill", "register", "publish"}
    PROVE  LET a == [add EXCEPT !.pc = p]
           IN a \in Adds /\ a.pc = p /\ a.image = add.image /\ a.next = add.next
BY DEF Adds

LEMMA ClearKeeps == UnwindInv /\ Unwind!ClearStep => UnwindInv'
<1> SUFFICES ASSUME UnwindInv, Unwind!ClearStep PROVE UnwindInv'
  OBVIOUS
<1> USE DEF UnwindInv
<1>1. /\ add.pc = "clear" /\ UNCHANGED <<count, registered, find>>
      /\ images' = [images EXCEPT ![count + 1] = Unwind!Empty] /\ add' = [add EXCEPT !.pc = "fill"]
  BY DEF Unwind!ClearStep, Unwind!Cleared
<1>2. add' \in Adds /\ add'.pc = "fill" /\ add'.image = add.image /\ add'.next = add.next
  BY <1>1, AddsShape DEF UnwindTypes
<1>3. Unwind!Empty \in ImageKinds
  BY EmptySeq DEF Unwind!Empty, ImageKinds
<1>4. count < Slots /\ add.next = 1
  BY <1>1 DEF SlotIsFilled
<1>5. UnwindTypes' /\ Unwind!PublishedSlotsAreWhole' /\ LookupIsTrue' /\ images'[count + 1] = Unwind!Empty
  BY <1>1, <1>2, <1>3, <1>4, SlotFrame
<1>6. add.image.code \in Seq(SegmentsOf)
  BY SegmentsAreSequences DEF UnwindTypes, Adds
<1>7. Unwind!Filled(add.image.code)[0] = <<>> /\ Len(add.image.code) \in Nat
  BY <1>6, FilledSteps
<1>8. images'[count' + 1].code = Unwind!Filled(add'.image.code)[add'.next - 1]
  BY <1>1, <1>2, <1>4, <1>5, <1>7 DEF Unwind!Empty
<1>9. SlotIsFilled'
  BY <1>1, <1>2, <1>4, <1>7, <1>8 DEF SlotIsFilled
<1> QED
  BY <1>5, <1>9
LEMMA FillKeeps == UnwindInv /\ Unwind!Fill => UnwindInv'
<1> SUFFICES ASSUME UnwindInv, Unwind!Fill PROVE UnwindInv'
  OBVIOUS
<1> USE DEF UnwindInv
<1> DEFINE code == add.image.code
           s == code[add.next]
           range == [start |-> s.start, size |-> s.size]
<1>1. add.pc = "fill" /\ add.next <= Len(code) /\ UNCHANGED <<count, registered, find>>
  BY DEF Unwind!Fill
<1>2. code \in Seq(SegmentsOf) /\ add \in Adds /\ add.next \in Nat
  BY SegmentsAreSequences DEF UnwindTypes, Adds
<1>3. Len(code) \in Nat
  BY <1>2
<1>4. add.next \in 1 .. Len(code) /\ count < Slots /\ images[count + 1].code = Unwind!Filled(code)[add.next - 1]
  BY <1>1, <1>2, <1>3 DEF SlotIsFilled
<1>5. s \in SegmentsOf
  BY <1>2, <1>4
<1>6. range \in Ranges /\ s.size # 0
  BY <1>5 DEF Ranges, SegmentsOf
<1>7. count \in Nat /\ count + 1 \in 1 .. Slots
  BY <1>4, UnwindAssumption DEF UnwindTypes
<1>8. Unwind!Filled(code)[add.next] =
        IF s.exec THEN Append(Unwind!Filled(code)[add.next - 1], range) ELSE Unwind!Filled(code)[add.next - 1]
  BY <1>2, <1>4, FilledSteps
<1>9. ASSUME add' = [add EXCEPT !.next = @ + 1]
      PROVE  /\ add' \in Adds /\ add'.pc = "fill" /\ add'.image = add.image /\ add'.next = add.next + 1
             /\ add'.next \in 1 .. Len(add'.image.code) + 1 /\ add'.next - 1 = add.next
  <2>1. add' \in Adds /\ add'.pc = "fill" /\ add'.image = add.image /\ add'.next = add.next + 1
    BY <1>1, <1>2, <1>9 DEF Adds
  <2> QED
    BY <1>2, <1>3, <1>4, <2>1
<1>10. CASE ~s.exec /\ add' = [add EXCEPT !.next = @ + 1] /\ UNCHANGED images
  <2>1. LookupIsTrue'
    BY <1>1, <1>7, LookupFrame
  <2>2. images'[count' + 1].code = Unwind!Filled(add'.image.code)[add'.next - 1]
    BY <1>1, <1>4, <1>8, <1>9, <1>10
  <2>3. SlotIsFilled'
    BY <1>1, <1>4, <1>9, <1>10, <2>2 DEF SlotIsFilled
  <2> QED
    BY <1>1, <1>9, <1>10, <2>1, <2>3 DEF UnwindTypes, Unwind!PublishedSlotsAreWhole
<1>11. CASE add' = Unwind!Idle /\ UNCHANGED images
  <2>1. LookupIsTrue'
    BY <1>1, <1>7, LookupFrame
  <2> QED
    BY <1>1, <1>11, <2>1, IdleIsAdd DEF UnwindTypes, Unwind!PublishedSlotsAreWhole, SlotIsFilled
<1>12. CASE /\ s.exec /\ add' = [add EXCEPT !.next = @ + 1]
            /\ images' = [images EXCEPT ![count + 1].code = Append(@, range)]
  <2> DEFINE image == [images[count + 1] EXCEPT !.code = Append(@, range)]
  <2>1. images[count + 1] \in ImageKinds
    BY <1>7 DEF UnwindTypes
  <2>2. Append(images[count + 1].code, range) \in Seq(Ranges)
    BY <1>6, <2>1, AppendProperties DEF ImageKinds
  <2>3. image \in ImageKinds /\ image.code = Append(images[count + 1].code, range)
    BY <2>1, <2>2 DEF ImageKinds
  <2>4. images' = [images EXCEPT ![count + 1] = image]
    BY <1>12
  <2> HIDE DEF image
  <2>5. UnwindTypes' /\ Unwind!PublishedSlotsAreWhole' /\ LookupIsTrue' /\ images'[count + 1] = image
    BY <1>1, <1>4, <1>9, <1>12, <2>3, <2>4, SlotFrame
  <2>6. images'[count' + 1].code = Unwind!Filled(add'.image.code)[add'.next - 1]
    BY <1>1, <1>4, <1>8, <1>9, <1>12, <2>3, <2>5
  <2>7. SlotIsFilled'
    BY <1>1, <1>4, <1>9, <1>12, <2>6 DEF SlotIsFilled
  <2> QED
    BY <2>5, <2>7
<1> QED
  BY <1>6, <1>10, <1>11, <1>12 DEF Unwind!Fill

LEMMA FinishKeeps == UnwindInv /\ Unwind!Finish => UnwindInv'
<1> SUFFICES ASSUME UnwindInv, Unwind!Finish PROVE UnwindInv'
  OBVIOUS
<1> USE DEF UnwindInv
<1> DEFINE code == add.image.code
<1>1. add.pc = "fill" /\ add.next > Len(code) /\ UNCHANGED <<count, registered, find>>
  BY DEF Unwind!Finish
<1>2. code \in Seq(SegmentsOf) /\ add \in Adds /\ add.next \in Nat /\ add.image.header \in Headers \cup {0}
  BY SegmentsAreSequences DEF UnwindTypes, Adds
<1>3. Len(code) \in Nat
  BY <1>2
<1>4. add.next - 1 = Len(code) /\ count < Slots /\ images[count + 1].code = Unwind!Filled(code)[Len(code)]
  BY <1>1, <1>2, <1>3 DEF SlotIsFilled
<1>5. count \in Nat /\ count + 1 \in 1 .. Slots
  BY <1>4, UnwindAssumption DEF UnwindTypes
<1>6. CASE add' = Unwind!Idle /\ UNCHANGED images
  <2>1. LookupIsTrue'
    BY <1>1, <1>5, LookupFrame
  <2> QED
    BY <1>1, <1>6, <2>1, IdleIsAdd DEF UnwindTypes, Unwind!PublishedSlotsAreWhole, SlotIsFilled
<1>7. CASE images' = [images EXCEPT ![count + 1].header = add.image.header] /\ add' = [add EXCEPT !.pc = "register"]
  <2> DEFINE image == [images[count + 1] EXCEPT !.header = add.image.header]
  <2>1. images[count + 1] \in ImageKinds
    BY <1>5 DEF UnwindTypes
  <2>2. image \in ImageKinds /\ image = [header |-> add.image.header, code |-> images[count + 1].code]
    BY <1>2, <2>1 DEF ImageKinds
  <2>3. images' = [images EXCEPT ![count + 1] = image]
    BY <1>7
  <2>4. image = Unwind!Executable(add.image)
    BY <1>4, <2>2 DEF Unwind!Executable
  <2> HIDE DEF image
  <2>5. add' \in Adds /\ add'.pc = "register" /\ add'.image = add.image
    BY <1>2, <1>7, AddsShape
  <2>6. UnwindTypes' /\ Unwind!PublishedSlotsAreWhole' /\ LookupIsTrue' /\ images'[count + 1] = image
    BY <1>1, <1>4, <2>2, <2>3, <2>5, SlotFrame
  <2>7. SlotIsFilled'
    BY <1>1, <1>4, <2>4, <2>5, <2>6 DEF SlotIsFilled
  <2> QED
    BY <2>6, <2>7
<1> QED
  BY <1>6, <1>7 DEF Unwind!Finish

LEMMA RegisterKeeps == UnwindInv /\ Unwind!Register => UnwindInv'
<1> SUFFICES ASSUME UnwindInv, Unwind!Register PROVE UnwindInv'
  OBVIOUS
<1> USE DEF UnwindInv
<1>1. add.pc = "register" /\ UNCHANGED <<images, count, registered, find>>
  BY DEF Unwind!Register
<1>2. count \in Nat
  BY UnwindAssumption DEF UnwindTypes
<1>3. LookupIsTrue'
  BY <1>1, <1>2, LookupFrame
<1>4. CASE add' = [add EXCEPT !.pc = "publish"]
  <2>1. add' \in Adds /\ add'.pc = "publish" /\ add'.image = add.image
    BY <1>4, AddsShape DEF UnwindTypes
  <2> QED
    BY <1>1, <1>3, <2>1 DEF UnwindTypes, Unwind!PublishedSlotsAreWhole, SlotIsFilled
<1>5. CASE add' = Unwind!Idle
  BY <1>1, <1>3, <1>5, IdleIsAdd DEF UnwindTypes, Unwind!PublishedSlotsAreWhole, SlotIsFilled
<1> QED
  BY <1>4, <1>5 DEF Unwind!Register

LEMMA PublishKeeps == UnwindInv /\ Unwind!Publish => UnwindInv'
<1> SUFFICES ASSUME UnwindInv, Unwind!Publish PROVE UnwindInv'
  OBVIOUS
<1> USE DEF UnwindInv
<1> DEFINE image == Unwind!Executable(add.image)
<1>1. /\ add.pc = "publish" /\ UNCHANGED <<images, find>> /\ count' = count + 1 /\ add' = Unwind!Idle
      /\ registered' = Append(registered, image)
  BY DEF Unwind!Publish
<1>2. count \in Nat /\ count < Slots /\ images[count + 1] = image /\ count = Len(registered)
  BY <1>1, UnwindAssumption DEF UnwindTypes, SlotIsFilled, Unwind!PublishedSlotsAreWhole
<1>3. image \in ImageKinds
  BY <1>2, UnwindAssumption DEF UnwindTypes
<1> HIDE DEF image
<1>4. /\ registered' \in Seq(ImageKinds) /\ Len(registered') = count + 1 /\ registered'[count + 1] = image
      /\ \A k \in 1 .. count : registered'[k] = registered[k]
  BY <1>1, <1>2, <1>3, AppendProperties DEF UnwindTypes
<1>5. count' \in Nat /\ count <= count' /\ count' \in 0 .. Slots
  BY <1>1, <1>2, UnwindAssumption
<1>6. LookupIsTrue'
  BY <1>1, <1>4, <1>5, LookupFrame
<1>7. UnwindTypes'
  BY <1>1, <1>4, <1>5, IdleIsAdd DEF UnwindTypes
<1>8. Unwind!PublishedSlotsAreWhole'
  <2>1. ASSUME NEW i \in 1 .. count' PROVE images'[i] = registered'[i]
    <3>1. CASE i = count + 1
      BY <1>1, <1>2, <1>4, <3>1
    <3>2. CASE i \in 1 .. count
      BY <1>1, <1>4, <3>2 DEF Unwind!PublishedSlotsAreWhole
    <3> QED
      BY <1>1, <1>2, <3>1, <3>2
  <2> QED
    BY <1>1, <1>4, <2>1 DEF Unwind!PublishedSlotsAreWhole
<1>9. SlotIsFilled'
  BY <1>1, IdleIsAdd DEF SlotIsFilled
<1> QED
  BY <1>6, <1>7, <1>8, <1>9

LEMMA ResetKeeps == UnwindInv /\ Unwind!Reset => UnwindInv'
<1> SUFFICES ASSUME UnwindInv, Unwind!Reset PROVE UnwindInv'
  OBVIOUS
<1> USE DEF UnwindInv
<1>1. add.pc = "idle" /\ find.pc = "idle" /\ count' = 0 /\ registered' = <<>> /\ UNCHANGED <<images, add, find>>
  BY DEF Unwind!Reset
<1>2. registered' \in Seq(ImageKinds) /\ Len(registered') = 0
  BY <1>1, EmptySeq
<1> QED
  BY <1>1, <1>2, UnwindAssumption DEF UnwindTypes, Unwind!PublishedSlotsAreWhole, SlotIsFilled, LookupIsTrue
\* A lookup changes nothing but itself.
LEMMA LookupStep ==
    ASSUME UnwindInv, UNCHANGED <<images, count, add, registered>>, find' \in Finds, LookupIsTrue'
    PROVE  UnwindInv'
BY DEF UnwindInv, UnwindTypes, Unwind!PublishedSlotsAreWhole, SlotIsFilled

LEMMA LoadKeeps == UnwindInv /\ Unwind!Load => UnwindInv'
<1> SUFFICES ASSUME UnwindInv, Unwind!Load PROVE UnwindInv'
  OBVIOUS
<1> USE DEF UnwindInv
<1>1. UNCHANGED <<images, count, add, registered>> /\ find \in Finds
  BY DEF Unwind!Load, UnwindTypes
<1>2. PICK at \in 0 .. CodeSpace :
        find' = [find EXCEPT !.pc = "scan", !.at = at, !.count = count, !.i = 1, !.answer = Unwind!Empty, !.known = Len(registered)]
  BY DEF Unwind!Load
<1>3. count \in Nat /\ Len(registered) = count /\ at \in Int
  BY UnwindAssumption DEF UnwindTypes, Unwind!PublishedSlotsAreWhole
<1>4. Unwind!Empty \in ImageKinds
  BY EmptySeq DEF Unwind!Empty, ImageKinds
<1>5. /\ find' \in Finds /\ find'.pc = "scan" /\ find'.count = count /\ find'.i = 1
      /\ find'.answer = Unwind!Empty /\ find'.known = count
  BY <1>1, <1>2, <1>3, <1>4 DEF Finds
<1>6. LookupIsTrue'
  BY <1>1, <1>3, <1>5 DEF LookupIsTrue
<1> QED
  BY <1>1, <1>5, <1>6, LookupStep

LEMMA ScanKeeps == UnwindInv /\ Unwind!Scan => UnwindInv'
<1> SUFFICES ASSUME UnwindInv, Unwind!Scan PROVE UnwindInv'
  OBVIOUS
<1> USE DEF UnwindInv
<1>1. UNCHANGED <<images, count, add, registered>> /\ find \in Finds /\ find.pc = "scan"
  BY DEF Unwind!Scan, UnwindTypes
<1>2. /\ find.count \in Nat /\ find.i \in 1 .. find.count + 1 /\ count \in Nat /\ find.count <= count
      /\ find.known = find.count /\ find.answer = Unwind!Empty
      /\ \A k \in 1 .. find.i - 1 : ~Unwind!Covers(registered[k].code, find.at)
  BY <1>1, UnwindAssumption DEF LookupIsTrue, UnwindTypes, Finds
<1>3. CASE ~Unwind!More
  <2>1. find' = [find EXCEPT !.pc = "done"] /\ find.i = find.count + 1
    BY <1>2, <1>3 DEF Unwind!Scan, Unwind!More
  <2>2. /\ find' \in Finds /\ find'.pc = "done" /\ find'.count = find.count /\ find'.known = find.known
        /\ find'.answer = find.answer /\ find'.at = find.at
    BY <1>1, <2>1 DEF Finds
  <2>3. \A k \in 1 .. find.count : ~Unwind!Covers(registered[k].code, find.at)
    BY <1>2, <2>1
  <2>4. LookupIsTrue'
    BY <1>1, <1>2, <2>2, <2>3 DEF LookupIsTrue
  <2> QED
    BY <1>1, <2>2, <2>4, LookupStep
<1>4. CASE Unwind!More /\ Unwind!Covers(images[find.i].code, find.at)
  <2>1. find' = [find EXCEPT !.pc = "copy"] /\ find.i \in 1 .. find.count
    BY <1>2, <1>4 DEF Unwind!Scan, Unwind!More
  <2>2. /\ find' \in Finds /\ find'.pc = "copy" /\ find'.count = find.count /\ find'.known = find.known
        /\ find'.i = find.i /\ find'.at = find.at
    BY <1>1, <2>1 DEF Finds
  <2>3. images[find.i] = registered[find.i]
    BY <1>2, <2>1 DEF Unwind!PublishedSlotsAreWhole
  <2>4. LookupIsTrue'
    BY <1>1, <1>2, <1>4, <2>1, <2>2, <2>3 DEF LookupIsTrue
  <2> QED
    BY <1>1, <2>2, <2>4, LookupStep
<1>5. CASE Unwind!More /\ ~Unwind!Covers(images[find.i].code, find.at)
  <2>1. find' = [find EXCEPT !.i = @ + 1] /\ find.i \in 1 .. find.count
    BY <1>2, <1>5 DEF Unwind!Scan, Unwind!More
  <2>2. /\ find' \in Finds /\ find'.pc = "scan" /\ find'.count = find.count /\ find'.known = find.known
        /\ find'.i = find.i + 1 /\ find'.at = find.at /\ find'.answer = find.answer
    BY <1>1, <2>1 DEF Finds
  <2>3. images[find.i] = registered[find.i]
    BY <1>2, <2>1 DEF Unwind!PublishedSlotsAreWhole
  <2>4. \A k \in 1 .. find.i : ~Unwind!Covers(registered[k].code, find.at)
    BY <1>2, <1>5, <2>1, <2>3
  <2>5. find'.i \in 1 .. find.count + 1 /\ find'.i - 1 = find.i
    BY <1>2, <2>1, <2>2
  <2>6. LookupIsTrue'
    BY <1>1, <1>2, <2>2, <2>4, <2>5 DEF LookupIsTrue
  <2> QED
    BY <1>1, <2>2, <2>6, LookupStep
<1> QED
  BY <1>3, <1>4, <1>5

LEMMA CopyKeeps == UnwindInv /\ Unwind!Copy => UnwindInv'
<1> SUFFICES ASSUME UnwindInv, Unwind!Copy PROVE UnwindInv'
  OBVIOUS
<1> USE DEF UnwindInv
<1>1. UNCHANGED <<images, count, add, registered>> /\ find \in Finds /\ find.pc = "copy"
  BY DEF Unwind!Copy, UnwindTypes
<1>2. /\ find.count \in Nat /\ find.i \in 1 .. find.count /\ count \in Nat /\ find.count <= count
      /\ find.known = find.count /\ Unwind!Covers(registered[find.i].code, find.at)
  BY <1>1, UnwindAssumption DEF LookupIsTrue, UnwindTypes, Finds
<1>3. images[find.i] = registered[find.i] /\ images[find.i] \in ImageKinds
  BY <1>2, UnwindAssumption DEF Unwind!PublishedSlotsAreWhole, UnwindTypes
<1>4. /\ find' \in Finds /\ find'.pc = "done" /\ find'.count = find.count /\ find'.known = find.known
      /\ find'.at = find.at /\ find'.answer = registered[find.i]
  BY <1>1, <1>3 DEF Finds, Unwind!Copy
<1>5. LookupIsTrue'
  BY <1>1, <1>2, <1>4 DEF LookupIsTrue
<1> QED
  BY <1>1, <1>4, <1>5, LookupStep

LEMMA ReturnKeeps == UnwindInv /\ Unwind!Return => UnwindInv'
<1> SUFFICES ASSUME UnwindInv, Unwind!Return PROVE UnwindInv'
  OBVIOUS
<1>1. UNCHANGED <<images, count, add, registered>> /\ find' = Unwind!Asleep
  BY DEF Unwind!Return
<1>2. Unwind!Empty \in ImageKinds
  BY EmptySeq DEF Unwind!Empty, ImageKinds
<1>3. find' \in Finds /\ find'.pc = "idle"
  BY <1>1, <1>2 DEF Unwind!Asleep, Finds
<1>4. LookupIsTrue'
  BY <1>3 DEF LookupIsTrue
<1> QED
  BY <1>1, <1>3, <1>4, LookupStep

LEMMA UnwindStepKeeps == UnwindInv /\ Unwind!Next => UnwindInv'
BY BeginKeeps, ClearKeeps, FillKeeps, FinishKeeps, RegisterKeeps, PublishKeeps, ResetKeeps, LoadKeeps, ScanKeeps,
   CopyKeeps, ReturnKeeps DEF Unwind!Next

LEMMA UnwindStutters == UnwindInv /\ UNCHANGED unwindVars => UnwindInv'
<1> SUFFICES ASSUME UnwindInv, UNCHANGED unwindVars PROVE UnwindInv'
  OBVIOUS
<1>1. find' \in Finds /\ LookupIsTrue'
  BY DEF UnwindInv, UnwindTypes, LookupIsTrue, unwindVars
<1> QED
  BY <1>1, LookupStep DEF unwindVars

\* The comparison of find_sections says whether an address lies in a range.
LEMMA CoversIsIn ==
    ASSUME NEW image \in ImageKinds, NEW at \in Int
    PROVE  Unwind!In(image, at) <=> Unwind!Covers(image.code, at)
<1>1. image.code \in Seq(Ranges)
  BY DEF ImageKinds
<1>2. \A j \in DOMAIN image.code : image.code[j].start \in Int /\ image.code[j].size \in Int
  <2> TAKE j \in DOMAIN image.code
  <2>1. image.code[j] \in Ranges
    BY <1>1
  <2> QED
    BY <2>1 DEF Ranges
<1>3. \A j \in DOMAIN image.code :
        at \in image.code[j].start .. image.code[j].start + image.code[j].size - 1
        <=> at >= image.code[j].start /\ at - image.code[j].start < image.code[j].size
  BY <1>2
<1> QED
  BY <1>3 DEF Unwind!In, Unwind!Covers

LEMMA UnwindConcludes ==
    UnwindInv => Unwind!PublishedSlotsAreWhole /\ Unwind!FoundIsRegistered /\ Unwind!RegisteredIsFound
<1> SUFFICES ASSUME UnwindInv, find.pc = "done"
             PROVE  Unwind!FoundIsRegistered /\ Unwind!RegisteredIsFound
  BY DEF UnwindInv, Unwind!FoundIsRegistered, Unwind!RegisteredIsFound
<1> USE DEF UnwindInv
<1>1. /\ find.count \in Nat /\ count \in Nat /\ find.count <= count /\ find.known = find.count /\ find.at \in Int
      /\ count = Len(registered) /\ registered \in Seq(ImageKinds)
  BY UnwindAssumption DEF LookupIsTrue, UnwindTypes, Finds, Unwind!PublishedSlotsAreWhole
<1>2. \A k \in 1 .. find.count : /\ k \in DOMAIN registered /\ registered[k] \in ImageKinds
                                 /\ Unwind!In(registered[k], find.at) <=> Unwind!Covers(registered[k].code, find.at)
  <2> TAKE k \in 1 .. find.count
  <2>1. k \in DOMAIN registered /\ registered[k] \in ImageKinds
    BY <1>1
  <2> QED
    BY <1>1, <2>1, CoversIsIn
<1>3. CASE /\ find.answer = Unwind!Empty
           /\ \A k \in 1 .. find.count : ~Unwind!Covers(registered[k].code, find.at)
  BY <1>1, <1>2, <1>3 DEF Unwind!FoundIsRegistered, Unwind!RegisteredIsFound
<1>4. ASSUME NEW k \in 1 .. find.count, find.answer = registered[k], Unwind!Covers(registered[k].code, find.at)
      PROVE  Unwind!FoundIsRegistered /\ Unwind!RegisteredIsFound
  <2>1. find.answer # Unwind!Empty
    BY <1>4 DEF Unwind!Empty, Unwind!Covers
  <2> QED
    BY <1>2, <1>4, <2>1 DEF Unwind!FoundIsRegistered, Unwind!RegisteredIsFound
<1> QED
  BY <1>3, <1>4 DEF LookupIsTrue
-----------------------------------------------------------------------------
(* The storage of threads (GuestTLS).                                          *)

Templates == [descriptors : Nat, extent : Nat, size : Nat]
Numbers == 1 .. MaxImages
Offsets == 0 .. MaxSize - 1

TLSTypes ==
    /\ templates \in Seq(Templates) /\ Len(templates) <= MaxImages /\ made \in Nat
    /\ key \in [Threads \X Numbers -> Nat]
    /\ wrote \in [Threads \X Numbers -> [Offsets -> Int]]

\* Images lie apart and do not wrap.
ImagesLieApart ==
    /\ \A i \in DOMAIN templates : /\ templates[i].descriptors + templates[i].extent < TLSSpace
                                   /\ templates[i].size <= MaxSize
    /\ \A i, j \in DOMAIN templates : i # j =>
          \/ templates[i].descriptors + templates[i].extent <= templates[j].descriptors
          \/ templates[j].descriptors + templates[j].extent <= templates[i].descriptors

\* A block holds what its thread wrote for its image, and is allocated once.
BlocksAreTrue ==
    /\ \A k \in DOMAIN blocks : k <= made
    /\ \A t \in Threads, i \in Numbers :
          /\ key[<<t, i>>] = 0 => wrote[<<t, i>>] = [o \in Offsets |-> 0]
          /\ key[<<t, i>>] # 0 =>
                /\ i \in DOMAIN templates
                /\ blocks[key[<<t, i>>]] =
                      [owner |-> i, bytes |-> [o \in 0 .. templates[i].size - 1 |-> wrote[<<t, i>>][o]]]

\* An answer is the asking thread's own.
AnswerIsOwn ==
    /\ answer = TLS!Nowhere \/ answer.thread \in Threads
    /\ answer.block # 0 =>
        /\ answer.thread \in Threads /\ answer.owner \in DOMAIN templates
        /\ answer.block = key[<<answer.thread, answer.owner>>]
        /\ answer.offset \in 0 .. templates[answer.owner].size - 1

TLSInv == TLSTypes /\ ImagesLieApart /\ TLS!BlocksAreOwned /\ BlocksAreTrue /\ AnswerIsOwn /\ TLS!ServedExactly

-----------------------------------------------------------------------------

LEMMA TLSStarts == TLS!Init => TLSInv
<1> SUFFICES ASSUME TLS!Init PROVE TLSInv
  OBVIOUS
<1> USE TLSAssumption
<1>1. templates = <<>> /\ key = [p \in Threads \X Numbers |-> 0] /\ blocks = <<>> /\ made = 0
      /\ wrote = [p \in Threads \X Numbers |-> [o \in Offsets |-> 0]] /\ answer = TLS!Nowhere
  BY DEF TLS!Init, TLS!Images, TLS!Template, Numbers, Offsets
<1>2. templates \in Seq(Templates) /\ Len(templates) = 0 /\ DOMAIN templates = {} /\ DOMAIN blocks = {}
  BY <1>1, EmptySeq
<1>3. TLSTypes
  BY <1>1, <1>2 DEF TLSTypes
<1>4. answer.block = 0
  BY <1>1 DEF TLS!Nowhere
<1>5. TLS!BlocksAreOwned
  BY <1>1, <1>2 DEF TLS!BlocksAreOwned
<1>6. BlocksAreTrue
  BY <1>1, <1>2 DEF BlocksAreTrue
<1> QED
  BY <1>1, <1>2, <1>3, <1>4, <1>5, <1>6 DEF TLSInv, ImagesLieApart, AnswerIsOwn, TLS!ServedExactly

\* Steps that leave images, keys and blocks alone.
LEMMA AnswerKeeps == TLSInv /\ TLS!Read => TLSInv'
<1> SUFFICES ASSUME TLSInv, TLS!Read PROVE TLSInv'
  OBVIOUS
<1>1. UNCHANGED <<templates, key, blocks, made, wrote>> /\ answer' = TLS!Nowhere /\ answer'.block = 0
  BY DEF TLS!Read, TLS!Nowhere
<1>2. TLSTypes' /\ ImagesLieApart' /\ TLS!BlocksAreOwned' /\ BlocksAreTrue'
  BY <1>1, SMTT(40) DEF TLSInv, TLSTypes, ImagesLieApart, TLS!BlocksAreOwned, BlocksAreTrue
<1> QED
  BY <1>1, <1>2 DEF TLSInv, AnswerIsOwn, TLS!ServedExactly

LEMMA TLSRegisterKeeps == TLSInv /\ TLS!Register => TLSInv'
<1> SUFFICES ASSUME TLSInv, TLS!Register PROVE TLSInv'
  OBVIOUS
<1> USE DEF TLSInv
<1>1. /\ UNCHANGED <<key, blocks, made, wrote, answer>> /\ answer = TLS!Nowhere /\ answer.block = 0
      /\ Len(templates) < MaxImages
  BY DEF TLS!Register, TLS!Nowhere
<1>2. PICK at \in 0 .. TLSSpace - 1, extent \in 0 .. TLSSpace - 1, size \in 0 .. MaxSize :
        /\ extent <= TLSSpace - 1 - at
        /\ \A i \in DOMAIN templates : at + extent <= templates[i].descriptors
                                       \/ templates[i].descriptors + templates[i].extent <= at
        /\ templates' = Append(templates, [descriptors |-> at, extent |-> extent, size |-> size])
  BY DEF TLS!Register
<1> DEFINE new == [descriptors |-> at, extent |-> extent, size |-> size]
           n == Len(templates) + 1
<1>3. new \in Templates /\ at \in Nat /\ extent \in Nat /\ size \in Nat
  BY TLSAssumption DEF Templates
<1>4. templates \in Seq(Templates) /\ Len(templates) \in Nat /\ DOMAIN templates = 1 .. Len(templates)
  BY DEF TLSTypes
<1>5. /\ templates' \in Seq(Templates) /\ Len(templates') = n /\ templates'[n] = new
      /\ \A i \in DOMAIN templates : templates'[i] = templates[i]
      /\ DOMAIN templates' = 1 .. n
  BY <1>2, <1>3, <1>4, AppendProperties
<1>6. TLSTypes'
  BY <1>1, <1>4, <1>5, TLSAssumption DEF TLSTypes
<1>7. new.descriptors = at /\ new.extent = extent /\ new.size = size
  OBVIOUS
<1>8. \A i \in DOMAIN templates : templates[i].descriptors \in Nat /\ templates[i].extent \in Nat
  <2> TAKE i \in DOMAIN templates
  <2>1. templates[i] \in Templates
    BY <1>4
  <2> QED
    BY <2>1 DEF Templates
<1>9. \A i \in DOMAIN templates' : i = n \/ i \in DOMAIN templates
  BY <1>4, <1>5
<1> HIDE DEF new, n
<1>10. ImagesLieApart'
  <2>1. ASSUME NEW i \in DOMAIN templates'
        PROVE  templates'[i].descriptors + templates'[i].extent < TLSSpace /\ templates'[i].size <= MaxSize
    <3>1. CASE i = n
      BY <1>2, <1>3, <1>5, <1>7, <3>1, TLSAssumption
    <3>2. CASE i \in DOMAIN templates
      BY <1>5, <3>2 DEF ImagesLieApart
    <3> QED
      BY <1>9, <3>1, <3>2
  <2>2. ASSUME NEW i \in DOMAIN templates', NEW j \in DOMAIN templates', i # j
        PROVE  \/ templates'[i].descriptors + templates'[i].extent <= templates'[j].descriptors
               \/ templates'[j].descriptors + templates'[j].extent <= templates'[i].descriptors
    <3>1. CASE i \in DOMAIN templates /\ j \in DOMAIN templates
      BY <1>5, <2>2, <3>1 DEF ImagesLieApart
    <3>2. CASE i = n /\ j \in DOMAIN templates
      BY <1>2, <1>5, <1>7, <3>2
    <3>3. CASE j = n /\ i \in DOMAIN templates
      BY <1>2, <1>5, <1>7, <3>3
    <3> QED
      BY <1>9, <2>2, <3>1, <3>2, <3>3
  <2> QED
    BY <2>1, <2>2 DEF ImagesLieApart
<1>11. BlocksAreTrue'
  <2>1. \A i \in DOMAIN templates : i \in DOMAIN templates' /\ templates'[i] = templates[i]
    BY <1>4, <1>5 DEF n
  <2>2. ASSUME NEW t \in Threads, NEW i \in Numbers, key[<<t, i>>] # 0
        PROVE  /\ i \in DOMAIN templates'
               /\ blocks[key[<<t, i>>]] =
                     [owner |-> i, bytes |-> [o \in 0 .. templates'[i].size - 1 |-> wrote[<<t, i>>][o]]]
    <3>1. i \in DOMAIN templates
      BY <2>2 DEF BlocksAreTrue
    <3>2. templates'[i] = templates[i] /\ i \in DOMAIN templates'
      BY <2>1, <3>1
    <3> QED
      BY <2>2, <3>2 DEF BlocksAreTrue
  <2>3. \A t \in Threads, i \in Numbers : key[<<t, i>>] = 0 => wrote[<<t, i>>] = [o \in Offsets |-> 0]
    BY DEF BlocksAreTrue
  <2>4. \A k \in DOMAIN blocks : k <= made
    BY DEF BlocksAreTrue
  <2> HIDE DEF TLSInv
  <2> QED
    BY <1>1, <2>2, <2>3, <2>4 DEF BlocksAreTrue
<1>12. TLS!BlocksAreOwned'
  BY <1>1 DEF TLS!BlocksAreOwned
<1>13. AnswerIsOwn' /\ TLS!ServedExactly'
  BY <1>1 DEF AnswerIsOwn, TLS!ServedExactly, TLS!Nowhere
<1> QED
  BY <1>6, <1>10, <1>11, <1>12, <1>13

LEMMA BytesShape ==
    ASSUME NEW j, NEW f, NEW a
    PROVE  [[owner |-> j, bytes |-> f] EXCEPT !.bytes[a] = 1] = [owner |-> j, bytes |-> [f EXCEPT ![a] = 1]]
OBVIOUS

\* It writes its own block, and no other thread's.
LEMMA WriteKeeps == TLSInv /\ TLS!Write => TLSInv'
<1> SUFFICES ASSUME TLSInv, TLS!Write PROVE TLSInv'
  OBVIOUS
<1> USE DEF TLSInv
<1> DEFINE u == answer.thread
           j == answer.owner
           a == answer.offset
           b == answer.block
<1>1. /\ b # 0 /\ UNCHANGED <<templates, key, made>> /\ answer' = TLS!Nowhere
      /\ wrote' = [wrote EXCEPT ![<<u, j>>][a] = 1]
      /\ blocks' = [blocks EXCEPT ![b].bytes[a] = 1]
  BY DEF TLS!Write
<1>2. /\ u \in Threads /\ j \in DOMAIN templates /\ b = key[<<u, j>>] /\ a \in 0 .. templates[j].size - 1
  BY <1>1 DEF AnswerIsOwn
<1>3. templates[j] \in Templates /\ templates[j].size <= MaxSize /\ DOMAIN templates \subseteq Numbers
  BY <1>2, TLSAssumption DEF TLSTypes, ImagesLieApart, Numbers
<1>4. a \in Offsets /\ j \in Numbers /\ <<u, j>> \in Threads \X Numbers /\ templates[j].size \in Nat
  BY <1>2, <1>3, TLSAssumption DEF Offsets, Templates
<1>5. /\ wrote[<<u, j>>] \in [Offsets -> Int]
      /\ wrote'[<<u, j>>] = [wrote[<<u, j>>] EXCEPT ![a] = 1]
      /\ \A p \in Threads \X Numbers : p # <<u, j>> => wrote'[p] = wrote[p]
      /\ wrote' \in [Threads \X Numbers -> [Offsets -> Int]]
  BY <1>1, <1>4, SMTT(40) DEF TLSTypes
<1>6. /\ b \in DOMAIN blocks /\ DOMAIN blocks' = DOMAIN blocks
      /\ blocks'[b] = [blocks[b] EXCEPT !.bytes[a] = 1]
      /\ \A k \in DOMAIN blocks : k # b => blocks'[k] = blocks[k]
  BY <1>1, <1>2, <1>4 DEF TLS!BlocksAreOwned, TLSTypes
<1>7. blocks[b] = [owner |-> j, bytes |-> [o \in 0 .. templates[j].size - 1 |-> wrote[<<u, j>>][o]]]
  BY <1>1, <1>2, <1>4 DEF BlocksAreTrue
<1>8. blocks'[b] = [owner |-> j, bytes |-> [o \in 0 .. templates[j].size - 1 |-> wrote'[<<u, j>>][o]]]
  <2>1. [o \in 0 .. templates[j].size - 1 |-> wrote'[<<u, j>>][o]]
        = [[o \in 0 .. templates[j].size - 1 |-> wrote[<<u, j>>][o]] EXCEPT ![a] = 1]
    <3>1. \A o \in 0 .. templates[j].size - 1 : o \in Offsets
      BY <1>3, <1>4, TLSAssumption DEF Offsets
    <3> QED
      BY <1>2, <1>5, <3>1
  <2> DEFINE old == [o \in 0 .. templates[j].size - 1 |-> wrote[<<u, j>>][o]]
             new == [o \in 0 .. templates[j].size - 1 |-> wrote'[<<u, j>>][o]]
  <2>2. blocks'[b] = [[owner |-> j, bytes |-> old] EXCEPT !.bytes[a] = 1] /\ new = [old EXCEPT ![a] = 1]
    BY <1>6, <1>7, <2>1
  <2> HIDE DEF old, new
  <2>3. [[owner |-> j, bytes |-> old] EXCEPT !.bytes[a] = 1] = [owner |-> j, bytes |-> [old EXCEPT ![a] = 1]]
    BY BytesShape
  <2> QED
    BY <2>2, <2>3 DEF new
<1>9. TLSTypes' /\ ImagesLieApart' /\ TLS!BlocksAreOwned'
  <2>1. TLSTypes'
    BY <1>1, <1>5 DEF TLSTypes
  <2>2. ImagesLieApart'
    BY <1>1 DEF ImagesLieApart
  <2>3. TLS!BlocksAreOwned'
    BY <1>1, <1>6 DEF TLS!BlocksAreOwned
  <2> QED
    BY <2>1, <2>2, <2>3
<1>10. BlocksAreTrue'
  <2>1. ASSUME NEW t \in Threads, NEW i \in Numbers, key[<<t, i>>] = 0
        PROVE  wrote'[<<t, i>>] = [o \in Offsets |-> 0]
    <3>1. <<t, i>> # <<u, j>> /\ <<t, i>> \in Threads \X Numbers
      BY <1>1, <1>2, <2>1
    <3> QED
      BY <1>5, <2>1, <3>1, ZenonT(40) DEF BlocksAreTrue
  <2>2. ASSUME NEW t \in Threads, NEW i \in Numbers, key[<<t, i>>] # 0
        PROVE  /\ i \in DOMAIN templates
               /\ blocks'[key[<<t, i>>]] =
                     [owner |-> i, bytes |-> [o \in 0 .. templates[i].size - 1 |-> wrote'[<<t, i>>][o]]]
    <3>1. CASE <<t, i>> = <<u, j>>
      BY <1>2, <1>8, <3>1
    <3>2. CASE <<t, i>> # <<u, j>>
      <4>1. <<t, i>> \in Threads \X Numbers /\ <<t, i>> \in DOMAIN key /\ <<u, j>> \in DOMAIN key
        BY <1>4 DEF TLSTypes
      <4>2. key[<<t, i>>] # b /\ key[<<t, i>>] \in DOMAIN blocks
        BY <1>2, <2>2, <3>2, <4>1 DEF TLS!BlocksAreOwned
      <4>3. wrote'[<<t, i>>] = wrote[<<t, i>>] /\ blocks'[key[<<t, i>>]] = blocks[key[<<t, i>>]]
        BY <1>5, <1>6, <3>2, <4>1, <4>2
      <4> QED
        BY <2>2, <4>3 DEF BlocksAreTrue
    <3> QED
      BY <3>1, <3>2
  <2> QED
    BY <1>1, <1>6, <2>1, <2>2, SMTT(40) DEF BlocksAreTrue
<1> QED
  BY <1>1, <1>9, <1>10 DEF AnswerIsOwn, TLS!ServedExactly, TLS!Nowhere
\* The one unsigned comparison is right for addresses below the range, too.
LEMMA HoldsIsInside ==
    ASSUME TLSInv, NEW i \in DOMAIN templates, NEW at \in 0 .. TLSSpace - 1
    PROVE  /\ templates[i].descriptors \in Nat /\ templates[i].extent \in Nat /\ templates[i].size \in Nat
           /\ TLS!Holds(templates[i], at) <=>
                at >= templates[i].descriptors /\ at < templates[i].descriptors + templates[i].extent
<1> DEFINE d == templates[i].descriptors
           e == templates[i].extent
<1>1. templates[i] \in Templates
  BY DEF TLSInv, TLSTypes
<1>2. d \in Nat /\ e \in Nat /\ templates[i].size \in Nat /\ d + e < TLSSpace
  BY <1>1 DEF Templates, TLSInv, ImagesLieApart
<1>3. TLSSpace \in Nat /\ at \in Nat /\ at < TLSSpace
  BY TLSAssumption
<1> HIDE DEF d, e
<1>4. CASE at >= d
  <2>1. (at - d) % TLSSpace = at - d
    BY <1>2, <1>3, <1>4
  <2> QED
    BY <1>2, <1>3, <1>4, <2>1 DEF TLS!Holds, d, e
<1>5. CASE at < d
  <2>1. (at - d) % TLSSpace = at - d + TLSSpace
    BY <1>2, <1>3, <1>5
  <2> QED
    BY <1>2, <1>3, <1>5, <2>1 DEF TLS!Holds, d, e
<1> QED
  BY <1>2, <1>3, <1>4, <1>5 DEF d, e

\* The image that is asked is the only one that holds the address.
LEMMA OwnerIsAsked ==
    ASSUME TLSInv, NEW at \in 0 .. TLSSpace - 1
    PROVE  /\ TLS!OwnerOf(at) # 0 => TLS!OwnerOf(at) \in DOMAIN templates /\ TLS!Holds(templates[TLS!OwnerOf(at)], at)
           /\ \A j \in DOMAIN templates : TLS!Holds(templates[j], at) => j = TLS!OwnerOf(at)
<1> DEFINE First(i) == i \in DOMAIN templates /\ TLS!Holds(templates[i], at) /\ \A j \in 1 .. i - 1 : ~TLS!Holds(templates[j], at)
<1>1. \A i, j \in DOMAIN templates : TLS!Holds(templates[i], at) /\ TLS!Holds(templates[j], at) => i = j
  <2> SUFFICES ASSUME NEW i \in DOMAIN templates, NEW j \in DOMAIN templates,
                      TLS!Holds(templates[i], at), TLS!Holds(templates[j], at), i # j
               PROVE  FALSE
    OBVIOUS
  <2>1. /\ at >= templates[i].descriptors /\ at < templates[i].descriptors + templates[i].extent
        /\ at >= templates[j].descriptors /\ at < templates[j].descriptors + templates[j].extent
        /\ templates[i].descriptors \in Nat /\ templates[i].extent \in Nat
        /\ templates[j].descriptors \in Nat /\ templates[j].extent \in Nat
    BY HoldsIsInside
  <2>2. \/ templates[i].descriptors + templates[i].extent <= templates[j].descriptors
        \/ templates[j].descriptors + templates[j].extent <= templates[i].descriptors
    BY DEF TLSInv, ImagesLieApart
  <2> QED
    BY <2>1, <2>2
<1>2. DOMAIN templates = 1 .. Len(templates) /\ Len(templates) \in Nat
  BY DEF TLSInv, TLSTypes
<1>3. CASE \E i \in DOMAIN templates : TLS!Holds(templates[i], at)
  <2>1. PICK i \in DOMAIN templates : TLS!Holds(templates[i], at)
    BY <1>3
  <2>2. First(i)
    BY <1>1, <1>2, <2>1
  <2>3. TLS!OwnerOf(at) = CHOOSE k \in DOMAIN templates :
                            TLS!Holds(templates[k], at) /\ \A j \in 1 .. k - 1 : ~TLS!Holds(templates[j], at)
    BY <1>3 DEF TLS!OwnerOf
  <2>4. TLS!OwnerOf(at) \in DOMAIN templates /\ TLS!Holds(templates[TLS!OwnerOf(at)], at)
    BY <2>2, <2>3
  <2> QED
    BY <1>1, <2>4
<1>4. CASE ~\E i \in DOMAIN templates : TLS!Holds(templates[i], at)
  BY <1>4 DEF TLS!OwnerOf
<1> QED
  BY <1>3, <1>4

\* gt_address serves the starts of descriptors, and nothing else.
LEMMA ServedIsExact ==
    ASSUME TLSInv, NEW at \in 0 .. TLSSpace - 1, NEW offset \in 0 .. MaxSize
    PROVE  (TLS!OwnerOf(at) # 0 /\ TLS!Served(TLS!OwnerOf(at), at, offset)) <=>
           \E i \in DOMAIN templates : /\ \E n \in 0 .. TLSSpace : at = templates[i].descriptors + n * Entry
                                       /\ at < templates[i].descriptors + templates[i].extent
                                       /\ offset < templates[i].size
<1>1. TLSSpace \in Nat /\ MaxSize \in Nat /\ Entry \in Nat \ {0} /\ at \in Nat /\ offset \in Nat /\ at < TLSSpace
  BY TLSAssumption
<1>2. ASSUME TLS!OwnerOf(at) # 0, TLS!Served(TLS!OwnerOf(at), at, offset)
      PROVE  \E i \in DOMAIN templates : /\ \E n \in 0 .. TLSSpace : at = templates[i].descriptors + n * Entry
                                         /\ at < templates[i].descriptors + templates[i].extent
                                         /\ offset < templates[i].size
  <2> DEFINE i == TLS!OwnerOf(at)
             d == templates[i].descriptors
             x == at - d
             n == x \div Entry
  <2>1. i \in DOMAIN templates
    BY <1>2, OwnerIsAsked
  <2>2. d \in Nat /\ templates[i].extent \in Nat
    BY <2>1, HoldsIsInside
  <2>3. at >= d /\ x < templates[i].extent /\ x % Entry = 0 /\ offset < templates[i].size
    BY <1>2 DEF TLS!Served
  <2> HIDE DEF i, d
  <2>4. x \in Nat /\ x <= at
    BY <1>1, <2>2, <2>3
  <2> HIDE DEF x
  <2>5. n \in Int /\ x = Entry * n + (x % Entry)
    BY <1>1, <2>4
  <2> HIDE DEF n
  <2>6. x = n * Entry
    BY <1>1, <2>3, <2>5
  <2>7. n \in Nat
    <3>1. ASSUME n < 0 PROVE FALSE
      BY <1>1, <2>4, <2>5, <2>6, <3>1
    <3> QED
      BY <2>5, <3>1
  <2>8. n <= n * Entry
    BY <1>1, <2>7
  <2>9. n \in 0 .. TLSSpace
    BY <1>1, <2>4, <2>6, <2>7, <2>8
  <2>10. at = d + n * Entry /\ at < d + templates[i].extent
    BY <1>1, <2>2, <2>3, <2>6 DEF x
  <2> QED
    BY <2>1, <2>3, <2>9, <2>10 DEF d
<1>3. ASSUME NEW i \in DOMAIN templates, NEW n \in 0 .. TLSSpace, at = templates[i].descriptors + n * Entry,
             at < templates[i].descriptors + templates[i].extent, offset < templates[i].size
      PROVE  TLS!OwnerOf(at) # 0 /\ TLS!Served(TLS!OwnerOf(at), at, offset)
  <2> DEFINE d == templates[i].descriptors
  <2>1. d \in Nat /\ templates[i].extent \in Nat /\ templates[i].size \in Nat
    BY HoldsIsInside
  <2>2. n \in Nat /\ n * Entry \in Nat
    BY <1>1
  <2>3. at >= d /\ at - d = n * Entry
    BY <1>1, <1>3, <2>1, <2>2
  <2>4. i = TLS!OwnerOf(at)
    BY <1>3, <2>3, HoldsIsInside, OwnerIsAsked
  <2>5. i # 0
    BY DEF TLSInv, TLSTypes
  <2>6. (n * Entry) % Entry = 0
    BY <1>1, <2>2
  <2>7. templates[i].size > 0 /\ at - d < templates[i].extent
    BY <1>1, <1>3, <2>1
  <2>8. TLS!Served(i, at, offset)
    BY <1>3, <2>3, <2>6, <2>7 DEF TLS!Served
  <2> QED
    BY <2>4, <2>5, <2>8
<1> QED
  BY <1>2, <1>3
\* What an answer says, in a state whose images are those of the question.
LEMMA AnswersKeep ==
    ASSUME TLSInv, NEW t \in Threads, NEW at \in 0 .. TLSSpace - 1, NEW offset \in 0 .. MaxSize, NEW b \in Nat, NEW failed \in BOOLEAN,
           answer' = [thread |-> t, at |-> at, offset |-> offset, owner |-> TLS!OwnerOf(at), block |-> b, failed |-> failed],
           templates' = templates,
           b # 0 => TLS!OwnerOf(at) # 0 /\ b = key'[<<t, TLS!OwnerOf(at)>>],
           b # 0 => TLS!Served(TLS!OwnerOf(at), at, offset),
           b = 0 /\ ~failed => TLS!OwnerOf(at) = 0 \/ ~TLS!Served(TLS!OwnerOf(at), at, offset)
    PROVE  AnswerIsOwn' /\ TLS!ServedExactly'
<1> DEFINE i == TLS!OwnerOf(at)
           Exact == \E k \in DOMAIN templates : /\ \E n \in 0 .. TLSSpace : at = templates[k].descriptors + n * Entry
                                                /\ at < templates[k].descriptors + templates[k].extent
                                                /\ offset < templates[k].size
<1>1. /\ answer'.thread = t /\ answer'.at = at /\ answer'.offset = offset /\ answer'.owner = i
      /\ answer'.block = b /\ answer'.failed = failed
  OBVIOUS
<1>2. (i # 0 /\ TLS!Served(i, at, offset)) <=> Exact
  BY ServedIsExact
<1>3. ASSUME b # 0 PROVE i \in DOMAIN templates /\ offset \in 0 .. templates[i].size - 1
  <2>1. i \in DOMAIN templates
    BY <1>3, OwnerIsAsked
  <2>2. templates[i].size \in Nat /\ offset < templates[i].size
    BY <1>3, <2>1, HoldsIsInside DEF TLS!Served
  <2> QED
    BY <2>1, <2>2, TLSAssumption
<1> HIDE DEF i, Exact
<1>4. AnswerIsOwn'
  BY <1>1, <1>3 DEF AnswerIsOwn, i
<1>5. ~failed => ((b # 0) = Exact)
  BY <1>2 DEF i
<1>6. TLS!ServedExactly'
  BY <1>1, <1>5 DEF TLS!ServedExactly, Exact
<1> QED
  BY <1>4, <1>6

LEMMA FindKeeps == TLSInv /\ TLS!Find => TLSInv'
<1> SUFFICES ASSUME TLSInv, TLS!Find PROVE TLSInv'
  OBVIOUS
<1>1. PICK t \in Threads, at \in 0 .. TLSSpace - 1, offset \in 0 .. MaxSize :
        LET i == TLS!OwnerOf(at)
            said == [thread |-> t, at |-> at, offset |-> offset, owner |-> i, block |-> 0, failed |-> FALSE]
        IN  /\ answer = TLS!Nowhere /\ UNCHANGED <<templates, wrote>>
            /\ IF i = 0 \/ ~TLS!Served(i, at, offset) THEN answer' = said /\ UNCHANGED <<key, blocks, made>>
               ELSE IF TLS!Storage(t, i) # 0 THEN answer' = [said EXCEPT !.block = TLS!Storage(t, i)] /\ UNCHANGED <<key, blocks, made>>
               ELSE /\ made < MaxBlocks /\ made' = made + 1
                    /\ \/ /\ answer' = [said EXCEPT !.block = made + 1] /\ key' = [key EXCEPT ![<<t, i>>] = made + 1]
                          /\ blocks' = [k \in DOMAIN blocks \cup {made + 1} |-> IF k = made + 1
                                           THEN [owner |-> i, bytes |-> [o \in 0 .. templates[i].size - 1 |-> TLS!Template]] ELSE blocks[k]]
                       \/ answer' = [said EXCEPT !.failed = TRUE] /\ UNCHANGED key /\ TLS!GivenBack(made + 1)
  BY DEF TLS!Find
<1> DEFINE i == TLS!OwnerOf(at)
           said == [thread |-> t, at |-> at, offset |-> offset, owner |-> i, block |-> 0, failed |-> FALSE]
           Said(b, failed) == [thread |-> t, at |-> at, offset |-> offset, owner |-> i, block |-> b, failed |-> failed]
<1>2. UNCHANGED <<templates, wrote>> /\ made \in Nat
  BY <1>1 DEF TLSInv, TLSTypes
<1>3. ASSUME UNCHANGED <<key, blocks>>, made' \in Nat, made <= made'
      PROVE  TLSTypes' /\ ImagesLieApart' /\ TLS!BlocksAreOwned' /\ BlocksAreTrue'
  <2>1. TLSTypes' /\ ImagesLieApart' /\ TLS!BlocksAreOwned'
    BY <1>2, <1>3 DEF TLSInv, TLSTypes, ImagesLieApart, TLS!BlocksAreOwned
  <2>2. \A k \in DOMAIN blocks : k \in Nat /\ k <= made
    BY DEF TLSInv, TLSTypes, TLS!BlocksAreOwned, BlocksAreTrue
  <2>3. \A k \in DOMAIN blocks : k <= made'
    BY <1>2, <1>3, <2>2
  <2> QED
    BY <1>2, <1>3, <2>1, <2>3 DEF TLSInv, BlocksAreTrue
<1>4. CASE i = 0 \/ ~TLS!Served(i, at, offset)
  <2>1. answer' = Said(0, FALSE) /\ UNCHANGED <<key, blocks, made>>
    BY <1>1, <1>4
  <2>2. AnswerIsOwn' /\ TLS!ServedExactly'
    BY <1>2, <1>4, <2>1, AnswersKeep
  <2> QED
    BY <1>2, <1>3, <2>1, <2>2 DEF TLSInv
<1>5. CASE i # 0 /\ TLS!Served(i, at, offset)
  <2>1. i \in DOMAIN templates /\ i \in Numbers
    <3>1. i \in DOMAIN templates
      BY <1>5, OwnerIsAsked
    <3> QED
      BY <3>1, TLSAssumption DEF TLSInv, TLSTypes, Numbers
  <2>2. <<t, i>> \in Threads \X Numbers /\ key[<<t, i>>] \in Nat
    BY <2>1 DEF TLSInv, TLSTypes
  <2>3. CASE key[<<t, i>>] # 0
    <3>1. answer' = [said EXCEPT !.block = key[<<t, i>>]] /\ UNCHANGED <<key, blocks, made>>
      BY <1>1, <1>5, <2>3 DEF TLS!Storage
    <3>2. answer' = Said(key[<<t, i>>], FALSE)
      BY <3>1
    <3>3. AnswerIsOwn' /\ TLS!ServedExactly'
      BY <1>2, <1>5, <2>2, <2>3, <3>1, <3>2, AnswersKeep
    <3> QED
      BY <1>2, <1>3, <3>1, <3>3 DEF TLSInv
  <2>4. CASE key[<<t, i>>] = 0 /\ answer' = [said EXCEPT !.failed = TRUE] /\ UNCHANGED key /\ TLS!GivenBack(made + 1) /\ made' = made + 1
    <3>1. answer' = Said(0, TRUE) /\ UNCHANGED <<key, blocks>> /\ made' \in Nat /\ made <= made'
      <4>1. answer' = Said(0, TRUE)
        BY <2>4
      <4>2. made' \in Nat /\ made <= made'
        BY <1>2, <2>4
      <4> QED
        BY <2>4, <4>1, <4>2 DEF TLS!GivenBack
    <3>2. AnswerIsOwn' /\ TLS!ServedExactly'
      BY <1>2, <3>1, AnswersKeep
    <3> QED
      BY <1>3, <3>1, <3>2 DEF TLSInv
  <2>5. CASE /\ key[<<t, i>>] = 0 /\ made' = made + 1
             /\ answer' = [said EXCEPT !.block = made + 1] /\ key' = [key EXCEPT ![<<t, i>>] = made + 1]
             /\ blocks' = [k \in DOMAIN blocks \cup {made + 1} |-> IF k = made + 1
                              THEN [owner |-> i, bytes |-> [o \in 0 .. templates[i].size - 1 |-> TLS!Template]] ELSE blocks[k]]
    <3> DEFINE b == made + 1
    <3>1. b \in Nat \ {0} /\ answer' = Said(b, FALSE) /\ made' = b
      <4>1. answer' = Said(b, FALSE)
        BY <2>5
      <4>2. made' = made + 1
        BY <2>5
      <4>3. b \in Nat \ {0}
        BY <1>2
      <4> QED
        BY <4>1, <4>2, <4>3
    <3>2. /\ key' \in [Threads \X Numbers -> Nat] /\ key'[<<t, i>>] = b
          /\ \A p \in Threads \X Numbers : p # <<t, i>> => key'[p] = key[p]
      BY <2>2, <2>5, <3>1 DEF TLSInv, TLSTypes
    <3>3. \A k \in DOMAIN blocks : k \in Nat /\ k <= made
      BY DEF TLSInv, TLSTypes, TLS!BlocksAreOwned, BlocksAreTrue
    <3>4. b \notin DOMAIN blocks
      BY <1>2, <3>3
    <3>5. /\ DOMAIN blocks' = DOMAIN blocks \cup {b}
          /\ blocks'[b] = [owner |-> i, bytes |-> [o \in 0 .. templates[i].size - 1 |-> 0]]
          /\ \A k \in DOMAIN blocks : blocks'[k] = blocks[k]
      BY <2>5, <3>4 DEF TLS!Template
    <3> HIDE DEF b
    <3>6. TLSTypes' /\ ImagesLieApart'
      BY <1>2, <3>1, <3>2 DEF TLSInv, TLSTypes, ImagesLieApart
    <3>7. AnswerIsOwn' /\ TLS!ServedExactly'
      BY <1>2, <1>5, <3>1, <3>2, AnswersKeep
    <3>8. DOMAIN key = Threads \X Numbers /\ DOMAIN key' = Threads \X Numbers
      BY <3>2 DEF TLSInv, TLSTypes
    <3>9. \A p \in Threads \X Numbers : key[p] # 0 => key[p] \in DOMAIN blocks /\ key[p] # b /\ key'[p] = key[p]
      BY <2>5, <3>2, <3>4, <3>8 DEF TLSInv, TLS!BlocksAreOwned
    <3>10. DOMAIN blocks' = {key'[p] : p \in DOMAIN key'} \ {0}
      <4>1. ASSUME NEW k \in DOMAIN blocks PROVE k \in {key'[p] : p \in DOMAIN key'} \ {0}
        <5>1. PICK p \in DOMAIN key : key[p] = k /\ k # 0
          BY DEF TLSInv, TLS!BlocksAreOwned
        <5> QED
          BY <3>8, <3>9, <5>1
      <4>2. b \in {key'[p] : p \in DOMAIN key'} \ {0}
        BY <2>2, <3>1, <3>2, <3>8
      <4>3. ASSUME NEW p \in DOMAIN key', key'[p] # 0 PROVE key'[p] \in DOMAIN blocks \cup {b}
        BY <3>2, <3>8, <3>9, <4>3
      <4> QED
        BY <3>5, <4>1, <4>2, <4>3
    <3>11. \A p, q \in DOMAIN key' : key'[p] # 0 /\ key'[p] = key'[q] => p = q
      BY <3>2, <3>8, <3>9 DEF TLSInv, TLS!BlocksAreOwned
    <3>12. BlocksAreTrue'
      <4>1. \A k \in DOMAIN blocks' : k <= made'
        BY <1>2, <3>1, <3>3, <3>5 DEF b
      <4>2. ASSUME NEW u \in Threads, NEW j \in Numbers, key'[<<u, j>>] = 0
            PROVE  wrote[<<u, j>>] = [o \in Offsets |-> 0]
        <5>1. <<u, j>> # <<t, i>> /\ <<u, j>> \in Threads \X Numbers
          BY <3>1, <3>2, <4>2
        <5>2. key[<<u, j>>] = 0
          BY <3>2, <4>2, <5>1
        <5> QED
          BY <5>2 DEF TLSInv, BlocksAreTrue
      <4>3. ASSUME NEW u \in Threads, NEW j \in Numbers, key'[<<u, j>>] # 0
            PROVE  /\ j \in DOMAIN templates
                   /\ blocks'[key'[<<u, j>>]] =
                         [owner |-> j, bytes |-> [o \in 0 .. templates[j].size - 1 |-> wrote[<<u, j>>][o]]]
        <5>1. CASE <<u, j>> = <<t, i>>
          <6>1. wrote[<<t, i>>] = [o \in Offsets |-> 0]
            BY <2>1, <2>5 DEF TLSInv, BlocksAreTrue
          <6>2. \A o \in 0 .. templates[i].size - 1 : o \in Offsets
            BY <2>1, HoldsIsInside, TLSAssumption DEF TLSInv, ImagesLieApart, Offsets
          <6>3. [o \in 0 .. templates[i].size - 1 |-> wrote[<<t, i>>][o]] = [o \in 0 .. templates[i].size - 1 |-> 0]
            BY <6>1, <6>2
          <6>4. u = t /\ j = i
            BY <5>1
          <6> QED
            BY <2>1, <3>2, <3>5, <6>3, <6>4
        <5>2. CASE <<u, j>> # <<t, i>>
          <6>1. key'[<<u, j>>] = key[<<u, j>>] /\ key[<<u, j>>] # 0 /\ key[<<u, j>>] \in DOMAIN blocks
            BY <3>2, <3>9, <4>3, <5>2
          <6> QED
            BY <3>5, <6>1 DEF TLSInv, BlocksAreTrue
        <5> QED
          BY <5>1, <5>2
      <4> QED
        BY <1>2, <4>1, <4>2, <4>3 DEF BlocksAreTrue
    <3>13. TLS!BlocksAreOwned'
      BY <3>10, <3>11 DEF TLS!BlocksAreOwned
    <3> QED
      BY <3>6, <3>7, <3>12, <3>13 DEF TLSInv
  <2> QED
    BY <1>1, <1>5, <2>3, <2>4, <2>5 DEF TLS!Storage
<1> QED
  BY <1>4, <1>5
\* The destructor frees the blocks of the thread that ends, and no other's.
LEMMA ExitKeeps == TLSInv /\ TLS!Exit => TLSInv'
<1> SUFFICES ASSUME TLSInv, TLS!Exit PROVE TLSInv'
  OBVIOUS
<1>1. PICK t \in Threads :
        LET own == {key[<<t, i>>] : i \in Numbers} \ {0}
        IN  /\ answer = TLS!Nowhere /\ blocks' = [k \in DOMAIN blocks \ own |-> blocks[k]]
            /\ key' = [p \in DOMAIN key |-> IF p[1] = t THEN 0 ELSE key[p]]
            /\ wrote' = [p \in DOMAIN wrote |-> IF p[1] = t THEN [o \in Offsets |-> 0] ELSE wrote[p]]
            /\ UNCHANGED <<templates, made, answer>>
  BY DEF TLS!Exit, TLS!Images, TLS!Template, Numbers, Offsets
<1> DEFINE own == {key[<<t, i>>] : i \in Numbers} \ {0}
<1>2. DOMAIN key = Threads \X Numbers /\ DOMAIN wrote = Threads \X Numbers
  BY DEF TLSInv, TLSTypes
<1>3. ASSUME NEW u \in Threads, NEW i \in Numbers
      PROVE  /\ key'[<<u, i>>] = IF u = t THEN 0 ELSE key[<<u, i>>]
             /\ wrote'[<<u, i>>] = IF u = t THEN [o \in Offsets |-> 0] ELSE wrote[<<u, i>>]
  <2>1. <<u, i>> \in Threads \X Numbers /\ <<u, i>>[1] = u
    OBVIOUS
  <2> QED
    BY <1>1, <1>2, <2>1
<1>4. DOMAIN key' = Threads \X Numbers /\ DOMAIN wrote' = Threads \X Numbers
  BY <1>1, <1>2
<1>5. TLSTypes'
  <2>1. key' \in [Threads \X Numbers -> Nat]
    BY <1>1, <1>2 DEF TLSInv, TLSTypes
  <2>2. [o \in Offsets |-> 0] \in [Offsets -> Int]
    OBVIOUS
  <2>3. wrote' \in [Threads \X Numbers -> [Offsets -> Int]]
    BY <1>1, <1>2, <2>2 DEF TLSInv, TLSTypes
  <2> QED
    BY <1>1, <2>1, <2>3 DEF TLSInv, TLSTypes
<1>6. DOMAIN blocks' = DOMAIN blocks \ own /\ \A k \in DOMAIN blocks' : blocks'[k] = blocks[k]
  BY <1>1
<1>7. ASSUME NEW u \in Threads, NEW i \in Numbers, u # t, key[<<u, i>>] # 0
      PROVE  key[<<u, i>>] \in DOMAIN blocks'
  <2>1. key[<<u, i>>] \in DOMAIN blocks
    <3>1. <<u, i>> \in DOMAIN key
      BY <1>2
    <3> QED
      BY <1>7, <3>1 DEF TLSInv, TLS!BlocksAreOwned
  <2>2. ASSUME NEW j \in Numbers PROVE key[<<t, j>>] # key[<<u, i>>]
    <3>1. <<t, j>> \in DOMAIN key /\ <<u, i>> \in DOMAIN key /\ <<t, j>> # <<u, i>>
      BY <1>2, <1>7
    <3> QED
      BY <1>7, <3>1 DEF TLSInv, TLS!BlocksAreOwned
  <2> QED
    BY <1>6, <2>1, <2>2
<1>8. DOMAIN blocks' = {key'[p] : p \in DOMAIN key'} \ {0}
  <2>1. ASSUME NEW k \in DOMAIN blocks' PROVE k \in {key'[p] : p \in DOMAIN key'} \ {0}
    <3>1. PICK p \in DOMAIN key : k = key[p] /\ k # 0
      BY <1>6 DEF TLSInv, TLS!BlocksAreOwned
    <3>2. PICK u \in Threads, i \in Numbers : p = <<u, i>>
      BY <1>2, <3>1
    <3>3. u # t
      BY <1>6, <3>1, <3>2
    <3>4. key'[p] = k
      BY <1>3, <3>1, <3>2, <3>3
    <3> QED
      BY <1>2, <1>4, <3>1, <3>4
  <2>2. ASSUME NEW p \in DOMAIN key', key'[p] # 0 PROVE key'[p] \in DOMAIN blocks'
    <3>1. PICK u \in Threads, i \in Numbers : p = <<u, i>>
      BY <1>4
    <3>2. u # t /\ key'[p] = key[<<u, i>>]
      BY <1>3, <2>2, <3>1
    <3> QED
      BY <1>7, <2>2, <3>2
  <2> QED
    BY <2>1, <2>2
<1>9. \A p, q \in DOMAIN key' : key'[p] # 0 /\ key'[p] = key'[q] => p = q
  <2> SUFFICES ASSUME NEW p \in DOMAIN key', NEW q \in DOMAIN key', key'[p] # 0, key'[p] = key'[q] PROVE p = q
    OBVIOUS
  <2>1. p \in DOMAIN key /\ q \in DOMAIN key /\ key'[p] = key[p] /\ key'[q] = key[q]
    BY <1>1, <1>2, <1>4
  <2> QED
    BY <2>1 DEF TLSInv, TLS!BlocksAreOwned
<1>10. BlocksAreTrue'
  <2>1. \A k \in DOMAIN blocks' : k <= made
    BY <1>6 DEF TLSInv, BlocksAreTrue
  <2>2. ASSUME NEW u \in Threads, NEW i \in Numbers, key'[<<u, i>>] = 0
        PROVE  wrote'[<<u, i>>] = [o \in Offsets |-> 0]
    <3>1. CASE u = t
      BY <1>3, <3>1
    <3>2. CASE u # t
      <4>1. key[<<u, i>>] = 0 /\ wrote'[<<u, i>>] = wrote[<<u, i>>]
        BY <1>3, <2>2, <3>2
      <4> QED
        BY <4>1 DEF TLSInv, BlocksAreTrue
    <3> QED
      BY <3>1, <3>2
  <2>3. ASSUME NEW u \in Threads, NEW i \in Numbers, key'[<<u, i>>] # 0
        PROVE  /\ i \in DOMAIN templates
               /\ blocks'[key'[<<u, i>>]] =
                     [owner |-> i, bytes |-> [o \in 0 .. templates[i].size - 1 |-> wrote'[<<u, i>>][o]]]
    <3>1. u # t /\ key'[<<u, i>>] = key[<<u, i>>] /\ wrote'[<<u, i>>] = wrote[<<u, i>>]
      BY <1>3, <2>3
    <3>2. blocks'[key[<<u, i>>]] = blocks[key[<<u, i>>]]
      BY <1>6, <1>7, <2>3, <3>1
    <3> QED
      BY <2>3, <3>1, <3>2 DEF TLSInv, BlocksAreTrue
  <2>4. templates' = templates /\ made' = made
    BY <1>1
  <2> QED
    BY <2>1, <2>2, <2>3, <2>4 DEF BlocksAreTrue
<1>11. ImagesLieApart'
  BY <1>1 DEF TLSInv, ImagesLieApart
<1>12. AnswerIsOwn' /\ TLS!ServedExactly'
  BY <1>1 DEF AnswerIsOwn, TLS!ServedExactly, TLS!Nowhere
<1> QED
  BY <1>5, <1>8, <1>9, <1>10, <1>11, <1>12 DEF TLSInv, TLS!BlocksAreOwned

LEMMA TLSStepKeeps == TLSInv /\ TLS!Next => TLSInv'
BY TLSRegisterKeeps, FindKeeps, AnswerKeeps, WriteKeeps, ExitKeeps DEF TLS!Next

LEMMA TLSStutters == TLSInv /\ UNCHANGED tlsVars => TLSInv'
<1> SUFFICES ASSUME TLSInv, UNCHANGED tlsVars PROVE TLSInv'
  OBVIOUS
<1>1. TLSTypes' /\ ImagesLieApart' /\ TLS!BlocksAreOwned'
  BY DEF TLSInv, TLSTypes, ImagesLieApart, TLS!BlocksAreOwned, tlsVars
<1>2. BlocksAreTrue'
  BY DEF TLSInv, BlocksAreTrue, tlsVars
<1>3. AnswerIsOwn' /\ TLS!ServedExactly'
  BY DEF TLSInv, AnswerIsOwn, TLS!ServedExactly, tlsVars
<1> QED
  BY <1>1, <1>2, <1>3 DEF TLSInv

LEMMA TLSConcludes == TLSInv => TLS!ThreadsKeepTheirValues /\ TLS!BlocksAreOwned /\ TLS!ServedExactly
<1> SUFFICES ASSUME TLSInv, answer.block # 0
             PROVE  blocks[answer.block].bytes[answer.offset] = wrote[<<answer.thread, answer.owner>>][answer.offset]
  BY DEF TLSInv, TLS!ThreadsKeepTheirValues
<1> DEFINE t == answer.thread
           i == answer.owner
<1>1. t \in Threads /\ i \in DOMAIN templates /\ answer.block = key[<<t, i>>] /\ answer.offset \in 0 .. templates[i].size - 1
  BY DEF TLSInv, AnswerIsOwn
<1>2. i \in Numbers
  BY <1>1, TLSAssumption DEF TLSInv, TLSTypes, Numbers
<1>3. blocks[answer.block] = [owner |-> i, bytes |-> [o \in 0 .. templates[i].size - 1 |-> wrote[<<t, i>>][o]]]
  BY <1>1, <1>2 DEF TLSInv, BlocksAreTrue
<1> QED
  BY <1>1, <1>3

-----------------------------------------------------------------------------

\* GuestUnwind.c and GuestTLS.c, for any number of slots, images, threads and
\* addresses: a lookup that races a registration gets a whole, registered image, or
\* finds none only where none was registered before it began; and a thread finds
\* storage exactly for the variables there are, its own, with what it wrote there.
THEOREM TablesAreSound == Spec => []TablesAreWhole
<1> DEFINE Inv == (subject = "unwind" => UnwindInv) /\ (subject = "tls" => TLSInv)
<1>1. Init => Inv
  BY UnwindStarts, TLSStarts DEF Init
<1>2. Inv /\ [Next]_vars => Inv'
  <2> SUFFICES ASSUME Inv, [Next]_vars PROVE Inv'
    OBVIOUS
  <2>1. subject' = subject
    BY DEF Next, vars
  <2>2. ASSUME subject = "unwind" PROVE UnwindInv'
    <3>1. CASE Unwind!Next
      BY <2>2, <3>1, UnwindStepKeeps
    <3>2. CASE UNCHANGED unwindVars
      BY <2>2, <3>2, UnwindStutters
    <3> QED
      BY <2>2, <3>1, <3>2 DEF Next, vars
  <2>3. ASSUME subject = "tls" PROVE TLSInv'
    <3>1. CASE TLS!Next
      BY <2>3, <3>1, TLSStepKeeps
    <3>2. CASE UNCHANGED tlsVars
      BY <2>3, <3>2, TLSStutters
    <3> QED
      BY <2>3, <3>1, <3>2 DEF Next, vars
  <2> QED
    BY <2>1, <2>2, <2>3
<1>3. Inv => TablesAreWhole
  BY UnwindConcludes, TLSConcludes DEF TablesAreWhole
<1> QED
  BY <1>1, <1>2, <1>3, PTL DEF Spec

-----------------------------------------------------------------------------
(* A signed launch (SignedLaunch).                                             *)

Contents == Values \cup {0}
Cells == [bytes : Contents, signed : BOOLEAN]
SignedPCs == {"start", "opened", "refused", "fail", "matched", "mapped", "prepared", "staged",
              "unpacking", "running", "aborted", "verify", "restore", "blocked"}
Unmatched == {"start", "opened", "refused", "fail"}
Unready == Unmatched \cup {"matched", "mapped"}
Unmapped == {"start", "opened", "refused", "matched"}

SignedTypes ==
    /\ guest.bytes \in [Signed!Text -> Values] /\ guest.initializer \in Nat
    /\ container.bytes \in [Signed!Text -> Values]
    /\ pc \in SignedPCs /\ handle \in BOOLEAN /\ active \in BOOLEAN /\ shadow \in BOOLEAN
    /\ shadowSize \in 0 .. Pages
    /\ last.bytes \in Seq(Contents) /\ last.at \in Nat /\ last.at + Len(last.bytes) <= Pages
    /\ pc \in Unmapped => text = <<>>
    /\ pc # "fail" /\ pc \notin Unmapped => text \in [Signed!Text -> Cells]
    /\ text # <<>> => text \in [Signed!Text -> Cells]

\* si_shadow_size: behind the rewritten range the container has the guest's bytes.
SizeIsFound ==
    pc \notin Unmatched =>
        /\ \A p \in shadowSize .. Pages - 1 : container.bytes[p] = Signed!OriginalPage(p)
        /\ guest.initializer < Pages /\ shadowSize <= guest.initializer

Zeros == [bytes |-> 0, signed |-> FALSE]

\* The pages at each stage: before the rewritten range's end and behind it.
PagesAreTrue ==
    /\ text # <<>> => \A p \in Signed!Text : text[p].signed => text[p] = Signed!SignedPage(p)
    /\ pc \in {"prepared", "staged", "unpacking", "verify", "restore"} =>
          \A p \in Signed!Text : text[p].signed <=> p >= shadowSize
    /\ pc = "running" => \A p \in Signed!Text : text[p].signed
    /\ pc = "mapped" => \A p \in Signed!Text : text[p] = Zeros
    /\ pc = "prepared" => \A p \in Signed!Text : p < shadowSize => text[p] = Zeros
    /\ pc = "staged" => \A p \in Signed!Text : p < shadowSize => text[p].bytes = Signed!OriginalPage(p)
    /\ pc = "restore" => \A p \in Signed!Text : p < shadowSize => text[p].bytes = container.bytes[p]

\* What the hooks believe.
HooksAreTrue ==
    /\ pc \in Unready => ~shadow /\ ~active
    /\ pc = "refused" => ~handle
    /\ pc \in {"prepared", "staged", "unpacking", "verify"} => (shadow <=> shadowSize # 0)
    /\ pc \in {"restore", "running"} => ~shadow
    /\ pc \in Unready \cup {"prepared", "staged"} => last = Signed!NoCall

SignedInv == SignedTypes /\ SizeIsFound /\ PagesAreTrue /\ HooksAreTrue /\ Signed!CopiesAreCopies
-----------------------------------------------------------------------------

LEMMA SignedStarts == Signed!Init => SignedInv
<1> SUFFICES ASSUME Signed!Init PROVE SignedInv
  OBVIOUS
<1>1. last = Signed!NoCall /\ last.bytes = <<>> /\ last.at = 0
  BY DEF Signed!Init, Signed!NoCall
<1>2. SignedTypes
  <2>1. /\ guest.bytes \in [Signed!Text -> Values] /\ guest.initializer \in 0 .. Pages
        /\ container.bytes \in [Signed!Text -> Values]
    BY DEF Signed!Init
  <2>2. last.bytes \in Seq(Contents) /\ last.at \in Nat /\ last.at + Len(last.bytes) <= Pages
    BY <1>1, SignedAssumption
  <2>3. pc = "start" /\ text = <<>> /\ handle = FALSE /\ active = FALSE /\ shadow = FALSE /\ shadowSize = 0
    BY DEF Signed!Init
  <2> QED
    <3>1. guest.initializer \in Nat /\ shadowSize \in 0 .. Pages
      BY <2>1, <2>3, SignedAssumption
    <3>2. pc \in SignedPCs /\ pc \in Unmapped /\ handle \in BOOLEAN /\ active \in BOOLEAN /\ shadow \in BOOLEAN
      BY <2>3 DEF SignedPCs, Unmapped
    <3> QED
      BY <2>1, <2>2, <2>3, <3>1, <3>2 DEF SignedTypes
<1>3. SizeIsFound /\ PagesAreTrue /\ HooksAreTrue
  BY <1>1 DEF Signed!Init, SizeIsFound, Unmatched, PagesAreTrue, HooksAreTrue, Unready
<1>4. Signed!CopiesAreCopies
  BY DEF Signed!Init, Signed!CopiesAreCopies, Signed!Runs
<1> QED
  BY <1>2, <1>3, <1>4 DEF SignedInv

\* Only the guest's calls and the steps to or from its running matter to CopiesAreCopies.
LEMMA CopiesStay ==
    ASSUME pc' \notin {"unpacking", "running", "aborted"}
    PROVE  Signed!CopiesAreCopies'
BY DEF Signed!CopiesAreCopies, Signed!Runs

LEMMA OpenKeeps == SignedInv /\ Signed!Open => SignedInv'
<1> SUFFICES ASSUME SignedInv, Signed!Open PROVE SignedInv'
  OBVIOUS
<1> USE DEF SignedInv, Signed!Open
<1>1. SignedTypes'
  BY DEF SignedTypes, SignedPCs, Unmapped
<1>2. SizeIsFound'
  BY DEF SizeIsFound, Unmatched
<1>3. PagesAreTrue' /\ HooksAreTrue'
  BY DEF SignedTypes, Unmapped, PagesAreTrue, HooksAreTrue, Unready, Unmatched
<1>4. Signed!CopiesAreCopies'
  BY CopiesStay
<1> QED
  BY <1>1, <1>2, <1>3, <1>4

\* si_shadow_size: there is a last page that differs, or none.
LEMMA ShadowEndIs ==
    /\ Signed!ShadowEnd \in 0 .. Pages
    /\ \A p \in Signed!ShadowEnd .. Pages - 1 : ~Signed!Differs(p)
<1> DEFINE S == {n \in 0 .. Pages : \A p \in n .. Pages - 1 : ~Signed!Differs(p)}
<1>1. Pages \in S
  BY SignedAssumption
<1>2. PICK n \in S : \A m \in S : n <= m
  <2>1. S \in SUBSET Nat /\ S # {}
    BY <1>1
  <2> HIDE DEF S
  <2> QED
    BY <2>1, LeastExists
<1>3. n = 0 \/ Signed!Differs(n - 1)
  <2> SUFFICES ASSUME n # 0, ~Signed!Differs(n - 1) PROVE FALSE
    OBVIOUS
  <2>1. n - 1 \in 0 .. Pages
    BY <1>2, SignedAssumption
  <2>2. ASSUME NEW p \in n - 1 .. Pages - 1 PROVE ~Signed!Differs(p)
    BY <2>2, SignedAssumption
  <2>3. n - 1 \in S
    BY <2>1, <2>2
  <2> QED
    BY <1>2, <2>3, SignedAssumption
<1>4. \E m \in 0 .. Pages : (\A p \in m .. Pages - 1 : ~Signed!Differs(p)) /\ (m = 0 \/ Signed!Differs(m - 1))
  BY <1>2, <1>3
<1> QED
  BY <1>4 DEF Signed!ShadowEnd

LEMMA CheckKeeps == SignedInv /\ Signed!Check => SignedInv'
<1> SUFFICES ASSUME SignedInv, Signed!Check PROVE SignedInv'
  OBVIOUS
<1> USE DEF SignedInv, Signed!Check, Signed!Fails
<1>1. SignedTypes'
  BY ShadowEndIs DEF SignedTypes, SignedPCs, Unmapped
<1>2. SizeIsFound'
  <2> SUFFICES ASSUME pc' = "matched" PROVE SizeIsFound'
    BY DEF SizeIsFound, Unmatched
  <2>1. Signed!MatchGuest /\ Signed!ShadowSize /\ shadowSize' = Signed!ShadowEnd
    OBVIOUS
  <2> QED
    BY <2>1, ShadowEndIs DEF SizeIsFound, Signed!ShadowSize, Signed!Differs, Signed!OriginalPage
<1>3. PagesAreTrue' /\ HooksAreTrue'
  BY DEF SignedTypes, Unmapped, PagesAreTrue, HooksAreTrue, Unready, Unmatched
<1>4. Signed!CopiesAreCopies'
  BY CopiesStay
<1> QED
  BY <1>1, <1>2, <1>3, <1>4

LEMMA SizeStays ==
    ASSUME SignedInv, pc \notin Unmatched, UNCHANGED <<guest, container, shadowSize>>
    PROVE  SizeIsFound'
BY DEF SignedInv, SizeIsFound, Signed!OriginalPage

LEMMA MapKeeps == SignedInv /\ Signed!Map => SignedInv'
<1> SUFFICES ASSUME SignedInv, Signed!Map PROVE SignedInv'
  OBVIOUS
<1> USE DEF SignedInv, Signed!Map, Signed!Fails
<1>0. text = <<>> /\ ~shadow /\ ~active /\ last = Signed!NoCall
  BY DEF SignedTypes, Unmapped, HooksAreTrue, Unready, Unmatched
<1>1. (text' = <<>> /\ pc' = "fail") \/ (text' = [p \in Signed!Text |-> Zeros] /\ pc' = "mapped")
  <2>1. CASE pc' = "mapped"
    BY <2>1 DEF Zeros
  <2>2. CASE pc' # "mapped"
    BY <1>0, <2>2
  <2> QED
    BY <2>1, <2>2
<1>2. Zeros \in Cells /\ Zeros.signed = FALSE
  BY DEF Zeros, Cells, Contents
<1>3. SignedTypes'
  <2>1. text' # <<>> => text' \in [Signed!Text -> Cells]
    BY <1>1, <1>2
  <2>2. pc' = "mapped" => text' \in [Signed!Text -> Cells]
    BY <1>1, <1>2
  <2> QED
    BY <1>1, <2>1, <2>2 DEF SignedTypes, SignedPCs, Unmapped
<1>4. SizeIsFound'
  BY SizeStays DEF Unmatched
<1>5. PagesAreTrue'
  BY <1>1, <1>2 DEF PagesAreTrue
<1>6. HooksAreTrue'
  BY <1>0, <1>1 DEF HooksAreTrue, Unready, Unmatched, Signed!NoCall
<1>7. Signed!CopiesAreCopies'
  BY CopiesStay
<1> QED
  BY <1>3, <1>4, <1>5, <1>6, <1>7

LEMMA RemapKeeps == SignedInv /\ Signed!Remap => SignedInv'
<1> SUFFICES ASSUME SignedInv, Signed!Remap PROVE SignedInv'
  OBVIOUS
<1> USE DEF SignedInv, Signed!Remap, Signed!Fails
<1>0. text \in [Signed!Text -> Cells] /\ \A p \in Signed!Text : text[p] = Zeros
  BY DEF SignedTypes, Unmapped, PagesAreTrue
<1>a. \A p \in Signed!Text : Signed!SignedPage(p) \in Cells
  BY DEF SignedTypes, Signed!SignedPage, Cells, Contents
<1>1. SignedTypes'
  BY <1>0, <1>a DEF SignedTypes, SignedPCs, Unmapped, Signed!SignedPage
<1>2. SizeIsFound'
  BY SizeStays DEF Unmatched
<1>3. PagesAreTrue'
  <2>1. \A p \in Signed!Text : text[p].signed = FALSE
    BY <1>0 DEF Zeros
  <2>2. shadowSize \in Nat
    BY SignedAssumption DEF SignedTypes
  <2>3. CASE pc' = "fail"
    BY <2>1, <2>3 DEF PagesAreTrue, Signed!SignedPage
  <2>4. CASE pc' # "fail"
    <3>1. pc' = "prepared" /\ text' = [p \in Signed!Text |-> IF p >= shadowSize THEN Signed!SignedPage(p) ELSE text[p]]
      BY <2>4
    <3>2. \A p \in Signed!Text : /\ p >= shadowSize => text'[p] = Signed!SignedPage(p)'
                                 /\ p < shadowSize => text'[p] = Zeros
      BY <1>0, <2>2, <3>1 DEF Signed!SignedPage, Signed!Text
    <3>3. \A p \in Signed!Text : Signed!SignedPage(p)'.signed /\ Zeros.signed = FALSE
      BY DEF Signed!SignedPage, Zeros
    <3>4. \A p \in Signed!Text : p >= shadowSize <=> ~(p < shadowSize)
      BY <2>2, SignedAssumption DEF Signed!Text
    <3> QED
      BY <3>1, <3>2, <3>3, <3>4 DEF PagesAreTrue
  <2> QED
    BY <2>3, <2>4
<1>4. HooksAreTrue'
  <2>1. ~shadow /\ ~active /\ last = Signed!NoCall
    BY DEF HooksAreTrue, Unready, Unmatched
  <2>2. CASE pc' = "fail"
    <3>1. ~shadow' /\ ~active' /\ last' = Signed!NoCall
      BY <2>1, <2>2 DEF Signed!NoCall
    <3> QED
      BY <2>2, <3>1 DEF HooksAreTrue, Unready, Unmatched, Signed!NoCall
  <2>3. CASE pc' # "fail"
    <3>1. pc' = "prepared" /\ shadowSize' = shadowSize /\ last' = last
      BY <2>3
    <3>2. shadow' <=> shadowSize # 0
      BY <2>3
    <3> QED
      BY <2>1, <3>1, <3>2 DEF HooksAreTrue, Unready, Unmatched, Signed!NoCall
  <2> QED
    BY <2>2, <2>3
<1>5. Signed!CopiesAreCopies'
  BY CopiesStay
<1> QED
  BY <1>1, <1>2, <1>3, <1>4, <1>5

LEMMA FailKeeps == SignedInv /\ Signed!Fail => SignedInv'
<1> SUFFICES ASSUME SignedInv, Signed!Fail PROVE SignedInv'
  OBVIOUS
<1> USE DEF SignedInv, Signed!Fail
<1>1. SignedTypes'
  BY DEF SignedTypes, SignedPCs, Unmapped
<1>2. SizeIsFound' /\ PagesAreTrue' /\ HooksAreTrue'
  BY DEF SizeIsFound, Unmatched, PagesAreTrue, HooksAreTrue, Unready
<1>3. Signed!CopiesAreCopies'
  BY CopiesStay
<1> QED
  BY <1>1, <1>2, <1>3

\* What a stage before the guest runs leaves as it was.
LEMMA StageKeeps == SignedInv /\ Signed!Stage => SignedInv'
<1> SUFFICES ASSUME SignedInv, Signed!Stage PROVE SignedInv'
  OBVIOUS
<1> USE DEF SignedInv, Signed!Stage
<1>1. /\ text \in [Signed!Text -> Cells] /\ shadowSize \in Nat /\ shadowSize <= Pages
      /\ \A p \in Signed!Text : text[p].signed <=> p >= shadowSize
      /\ \A p \in Signed!Text : p < shadowSize => text[p] = Zeros
  BY SignedAssumption DEF SignedTypes, Unmapped, PagesAreTrue
<1>2. ASSUME NEW p \in Signed!Text
      PROVE  /\ text'[p] \in Cells
             /\ p >= shadowSize => text'[p] = text[p]
             /\ p < shadowSize => text'[p] = [bytes |-> Signed!OriginalPage(p), signed |-> FALSE]
  <2>1. p \in Int /\ (p >= shadowSize <=> ~(p < shadowSize))
    BY <1>1, SignedAssumption DEF Signed!Text
  <2>2. Signed!OriginalPage(p) \in Contents
    BY DEF Signed!OriginalPage, SignedTypes, Contents
  <2>3. CASE p >= shadowSize
    BY <1>1, <2>1, <2>3
  <2>4. CASE p < shadowSize
    <3>1. text[p] = Zeros
      BY <1>1, <2>4
    <3>2. CASE p \in guest.staged
      <4>1. text'[p] = [Zeros EXCEPT !.bytes = guest.bytes[p]]
        BY <2>4, <3>1, <3>2
      <4> QED
        BY <2>1, <2>2, <2>4, <3>2, <4>1 DEF Zeros, Cells, Signed!OriginalPage
    <3>3. CASE p \notin guest.staged
      <4>1. text'[p] = Zeros
        BY <2>4, <3>1, <3>3
      <4>2. Signed!OriginalPage(p) = 0
        BY <3>3 DEF Signed!OriginalPage
      <4>3. text'[p] = [bytes |-> Signed!OriginalPage(p), signed |-> FALSE]
        BY ONLY <4>1, <4>2 DEF Zeros
      <4>4. text'[p] \in Cells
        BY ONLY <2>2, <4>3 DEF Cells
      <4> QED
        BY ONLY <2>1, <2>4, <4>3, <4>4
    <3> QED
      BY <3>2, <3>3
  <2> QED
    BY <2>1, <2>3, <2>4
<1>3. text' \in [Signed!Text -> Cells]
  <2>1. DOMAIN text' = Signed!Text /\ text' = [p \in Signed!Text |-> text'[p]]
    OBVIOUS
  <2> QED
    BY <1>2, <2>1
<1>4. SignedTypes'
  BY <1>3 DEF SignedTypes, SignedPCs, Unmapped
<1>5. SizeIsFound'
  BY SizeStays DEF Unmatched
<1>6. PagesAreTrue'
  <2>1. \A p \in Signed!Text : p \in Int /\ (p >= shadowSize <=> ~(p < shadowSize))
    BY <1>1, SignedAssumption DEF Signed!Text
  <2>2. \A p \in Signed!Text : text'[p].signed <=> p >= shadowSize
    BY <1>1, <1>2, <2>1
  <2>3. \A p \in Signed!Text : text'[p].signed => text'[p] = Signed!SignedPage(p)'
    <3>1. text # <<>> \/ Signed!Text = {}
      BY <1>1
    <3> QED
      BY <1>1, <1>2, <2>2, <3>1 DEF PagesAreTrue, Signed!SignedPage
  <2>4. \A p \in Signed!Text : p < shadowSize => text'[p].bytes = Signed!OriginalPage(p)'
    <3>1. ASSUME NEW p \in Signed!Text, p < shadowSize PROVE text'[p].bytes = Signed!OriginalPage(p)
      <4>1. text'[p] = [bytes |-> Signed!OriginalPage(p), signed |-> FALSE]
        BY ONLY <1>2, <3>1
      <4> QED
        BY ONLY <4>1
    <3>2. guest' = guest
      OBVIOUS
    <3> QED
      BY <3>1, <3>2 DEF Signed!OriginalPage
  <2> QED
    BY <2>2, <2>3, <2>4 DEF PagesAreTrue
<1>7. HooksAreTrue'
  BY DEF HooksAreTrue, Unready, Unmatched, Signed!NoCall
<1>8. Signed!CopiesAreCopies'
  BY CopiesStay
<1> QED
  BY <1>4, <1>5, <1>6, <1>7, <1>8

LEMMA EnterKeeps == SignedInv /\ Signed!Enter => SignedInv'
<1> SUFFICES ASSUME SignedInv, Signed!Enter PROVE SignedInv'
  OBVIOUS
<1> USE DEF SignedInv, Signed!Enter
<1>1. SignedTypes'
  BY DEF SignedTypes, SignedPCs, Unmapped
<1>2. SizeIsFound'
  BY SizeStays DEF Unmatched
<1>3. PagesAreTrue'
  BY DEF PagesAreTrue, Signed!SignedPage
<1>4. HooksAreTrue'
  BY DEF HooksAreTrue, Unready, Unmatched, Signed!NoCall
<1>5. Signed!CopiesAreCopies'
  <2>1. last'.bytes = <<>>
    BY DEF HooksAreTrue, Signed!NoCall
  <2> QED
    BY <2>1 DEF Signed!CopiesAreCopies
<1> QED
  BY <1>1, <1>2, <1>3, <1>4, <1>5

-----------------------------------------------------------------------------
(* The guest's calls.                                                          *)

\* While the guest runs, its pages are memory, and the hooks know the border.
LEMMA RunningPages ==
    ASSUME SignedInv, Signed!Runs
    PROVE  /\ text \in [Signed!Text -> Cells]
           /\ \A p \in Signed!Text : text[p].signed => text[p] = Signed!SignedPage(p)
           /\ \A p \in Signed!Text : ~text[p].signed <=> shadow /\ p < shadowSize
<1>1. text \in [Signed!Text -> Cells] /\ shadowSize \in Nat
  BY SignedAssumption DEF SignedInv, SignedTypes, Signed!Runs, Unmapped
<1>2. \A p \in Signed!Text : p \in Nat
  BY SignedAssumption DEF Signed!Text
<1>3. CASE pc = "running"
  BY <1>1, <1>3 DEF SignedInv, PagesAreTrue, HooksAreTrue
<1>4. CASE pc = "unpacking"
  <2>1. \A p \in Signed!Text : text[p].signed <=> p >= shadowSize
    BY <1>4 DEF SignedInv, PagesAreTrue
  <2>2. shadow <=> shadowSize # 0
    BY <1>4 DEF SignedInv, HooksAreTrue
  <2>3. \A p \in Signed!Text : ~text[p].signed <=> shadow /\ p < shadowSize
    BY <1>1, <1>2, <2>1, <2>2
  <2> QED
    BY <1>1, <2>3 DEF SignedInv, PagesAreTrue
<1> QED
  BY <1>3, <1>4 DEF Signed!Runs

\* A call changes only pages in anonymous memory, which stay there.
LEMMA CallKeeps ==
    ASSUME SignedInv, Signed!Runs, text' \in [Signed!Text -> Cells],
           \A p \in Signed!Text : text'[p].signed = text[p].signed /\ (text[p].signed => text'[p] = text[p]),
           pc' = pc \/ pc' = "aborted",
           last'.bytes \in Seq(Contents), last'.at \in Nat, last'.at + Len(last'.bytes) <= Pages,
           UNCHANGED <<guest, container, handle, active, shadow, shadowSize>>
    PROVE  SignedTypes' /\ SizeIsFound' /\ PagesAreTrue' /\ HooksAreTrue'
<1>1. pc \in {"unpacking", "running"} /\ pc' \in {"unpacking", "running", "aborted"}
  BY DEF Signed!Runs
<1>2. SignedTypes'
  BY <1>1 DEF SignedInv, SignedTypes, SignedPCs, Unmapped
<1>3. SizeIsFound'
  BY <1>1, SizeStays DEF Unmatched
<1>4. PagesAreTrue'
  <2>1. \A p \in Signed!Text : text'[p].signed => text'[p] = Signed!SignedPage(p)'
    BY RunningPages DEF Signed!SignedPage
  <2>2. pc' = pc \/ pc' = "aborted"
    OBVIOUS
  <2> QED
    BY <1>1, <2>1 DEF PagesAreTrue, SignedInv
<1>5. HooksAreTrue'
  BY <1>1 DEF HooksAreTrue, SignedInv, Unready, Unmatched
<1> QED
  BY <1>2, <1>3, <1>4, <1>5

\* What a call that writes n cells of the source leaves.
LEMMA WrittenKeeps ==
    ASSUME SignedInv, Signed!Runs, NEW at \in Signed!Text, NEW bytes \in Seq(Contents), NEW n \in 0 .. Len(bytes),
           at + Len(bytes) <= Pages, n <= Signed!ShadowPart(at, Len(bytes)),
           text' = Signed!Written(bytes, at, n)
    PROVE  /\ text' \in [Signed!Text -> Cells]
           /\ \A p \in Signed!Text : text'[p].signed = text[p].signed /\ (text[p].signed => text'[p] = text[p])
           /\ \A i \in 1 .. n : text'[at + i - 1].bytes = bytes[i]
           /\ \A i \in n + 1 .. Len(bytes) : text'[at + i - 1] = text[at + i - 1]
<1>1. /\ text \in [Signed!Text -> Cells] /\ Len(bytes) \in Nat /\ at \in Nat /\ shadowSize \in Nat
      /\ \A p \in Signed!Text : p \in Nat /\ (~text[p].signed <=> shadow /\ p < shadowSize)
  BY RunningPages, SignedAssumption DEF Signed!Text, SignedInv, SignedTypes
<1>2. \A i \in 1 .. Len(bytes) : at + i - 1 \in Signed!Text /\ bytes[i] \in Contents
  BY <1>1, SignedAssumption DEF Signed!Text
<1>3. ASSUME NEW p \in Signed!Text, p >= at, p < at + n PROVE ~text[p].signed /\ p - at + 1 \in 1 .. n
  <2>1. n # 0 /\ p \in Nat
    BY <1>1, <1>3
  <2>2. shadow /\ at < shadowSize /\ n <= shadowSize - at
    BY <1>1, <2>1 DEF Signed!ShadowPart
  <2> QED
    BY <1>1, <1>3, <2>1, <2>2
<1>4. ASSUME NEW p \in Signed!Text
      PROVE  /\ text'[p] \in Cells /\ text'[p].signed = text[p].signed /\ (text[p].signed => text'[p] = text[p])
             /\ p >= at /\ p < at + n => text'[p].bytes = bytes[p - at + 1]
             /\ ~(p >= at /\ p < at + n) => text'[p] = text[p]
  <2>1. CASE p >= at /\ p < at + n
    <3>1. text'[p] = [text[p] EXCEPT !.bytes = bytes[p - at + 1]]
      BY <2>1 DEF Signed!Written
    <3>2. text[p] \in Cells /\ bytes[p - at + 1] \in Contents /\ ~text[p].signed
      BY <1>1, <1>2, <1>3, <2>1
    <3> QED
      BY <2>1, <3>1, <3>2 DEF Cells
  <2>2. CASE ~(p >= at /\ p < at + n)
    <3>1. text'[p] = text[p]
      BY <2>2 DEF Signed!Written
    <3> QED
      BY <1>1, <2>2, <3>1
  <2> QED
    BY <2>1, <2>2
<1>5. text' \in [Signed!Text -> Cells]
  <2>1. text' = [p \in Signed!Text |-> text'[p]]
    BY DEF Signed!Written
  <2> QED
    BY <1>4, <2>1
<1>6. ASSUME NEW i \in 1 .. n PROVE text'[at + i - 1].bytes = bytes[i]
  <2>0. i \in 1 .. Len(bytes) /\ i \in Nat /\ n \in Nat /\ 1 <= i /\ i <= n
    BY <1>1
  <2>1. at + i - 1 \in Signed!Text /\ at + i - 1 >= at /\ at + i - 1 < at + n /\ (at + i - 1) - at + 1 = i
    BY <1>1, <1>2, <2>0
  <2> DEFINE p == at + i - 1
  <2>2. p \in Signed!Text /\ p >= at /\ p < at + n /\ p - at + 1 = i
    BY <2>1
  <2> HIDE DEF p
  <2>3. text'[p].bytes = bytes[i]
    BY <1>4, <2>2
  <2> QED
    BY <2>3 DEF p
<1>7. ASSUME NEW i \in n + 1 .. Len(bytes) PROVE text'[at + i - 1] = text[at + i - 1]
  <2> DEFINE p == at + i - 1
  <2>1. p \in Signed!Text /\ ~(p < at + n)
    BY <1>1, <1>2
  <2> HIDE DEF p
  <2>2. text'[p] = text[p]
    BY <1>4, <2>1
  <2> QED
    BY <2>2 DEF p
<1> QED
  BY <1>4, <1>5, <1>6, <1>7

LEMMA PartIs ==
    ASSUME NEW at \in Nat, NEW n \in Nat, shadowSize \in Nat
    PROVE  Signed!ShadowPart(at, n) \in 0 .. n
BY DEF Signed!ShadowPart

\* final_image_write: it does what memmove does, or the process ends.
LEMMA HookKeeps ==
    ASSUME SignedInv, Signed!Runs, NEW at \in Signed!Text, NEW bytes \in Seq(Contents),
           at + Len(bytes) <= Pages, Signed!Write(at, bytes)
    PROVE  SignedInv'
<1> DEFINE part == Signed!ShadowPart(at, Len(bytes))
<1>1. /\ text \in [Signed!Text -> Cells] /\ Len(bytes) \in Nat /\ at \in Nat /\ shadowSize \in Nat
      /\ \A p \in Signed!Text : ~text[p].signed <=> shadow /\ p < shadowSize
  BY RunningPages, SignedAssumption DEF Signed!Text, SignedInv, SignedTypes
<1>2. part \in 0 .. Len(bytes)
  BY <1>1, PartIs
<1>3. last' = [at |-> at, bytes |-> bytes]
  BY DEF Signed!Write
<1>4. CASE Signed!Regenerated(at, bytes, part)
  <2>1. text' = Signed!Written(bytes, at, part) /\ pc' = pc
    BY <1>4 DEF Signed!Write
  <2>2. part <= Signed!ShadowPart(at, Len(bytes))
    BY <1>2
  <2> HIDE DEF part
  <2>3. /\ text' \in [Signed!Text -> Cells]
        /\ \A p \in Signed!Text : text'[p].signed = text[p].signed /\ (text[p].signed => text'[p] = text[p])
        /\ \A i \in 1 .. part : text'[at + i - 1].bytes = bytes[i]
        /\ \A i \in part + 1 .. Len(bytes) : text'[at + i - 1] = text[at + i - 1]
    BY <1>2, <2>1, <2>2, WrittenKeeps
  <2>4. SignedTypes' /\ SizeIsFound' /\ PagesAreTrue' /\ HooksAreTrue'
    <3>1. last'.bytes = bytes /\ last'.at = at
      BY <1>3
    <3>2. last'.bytes \in Seq(Contents) /\ last'.at \in Nat /\ last'.at + Len(last'.bytes) <= Pages
      BY <1>1, <3>1
    <3>3. UNCHANGED <<guest, container, handle, active, shadow, shadowSize>>
      BY DEF Signed!Write
    <3>4. text' \in [Signed!Text -> Cells]
      BY <2>3
    <3>5. \A p \in Signed!Text : text'[p].signed = text[p].signed /\ (text[p].signed => text'[p] = text[p])
      BY <2>3
    <3> QED
      BY <2>1, <3>2, <3>3, <3>4, <3>5, CallKeeps
  <2>5. ASSUME NEW i \in 1 .. Len(bytes) PROVE text'[at + i - 1].bytes = bytes[i]
    <3>1. CASE i <= part
      BY <1>2, <2>3, <3>1
    <3>2. CASE i > part
      <4>1. i \in part + 1 .. Len(bytes)
        BY <1>2, <3>2
      <4> QED
        BY <1>4, <2>3, <4>1 DEF Signed!Regenerated
    <3> QED
      BY <1>2, <3>1, <3>2
  <2>6. Signed!CopiesAreCopies'
    <3>1. pc' # "aborted"
      BY <2>1 DEF Signed!Runs
    <3> QED
      BY <1>3, <2>5, <3>1 DEF Signed!CopiesAreCopies
  <2> QED
    BY <2>4, <2>6 DEF SignedInv
<1>5. CASE ~Signed!Regenerated(at, bytes, part)
  <2>1. text' = text /\ pc' = "aborted"
    BY <1>5 DEF Signed!Write
  <2>2. SignedTypes' /\ SizeIsFound' /\ PagesAreTrue' /\ HooksAreTrue'
    BY <1>1, <1>3, <2>1, CallKeeps DEF Signed!Write
  <2>3. PICK i \in part + 1 .. Len(bytes) : text[at + i - 1].bytes # bytes[i]
    BY <1>5 DEF Signed!Regenerated
  <2>4. i \in 1 .. Len(bytes) /\ at + i - 1 \in Signed!Text /\ at + i - 1 \in Nat
    BY <1>1, <1>2, <2>3, SignedAssumption DEF Signed!Text
  <2>5. text[at + i - 1].signed
    <3> SUFFICES ASSUME ~text[at + i - 1].signed PROVE FALSE
      OBVIOUS
    <3>1. shadow /\ at + i - 1 < shadowSize
      BY <1>1, <2>4
    <3>2. at < shadowSize
      BY <1>1, <2>4, <3>1
    <3>3. part = IF shadowSize - at < Len(bytes) THEN shadowSize - at ELSE Len(bytes)
      BY <1>1, <3>1, <3>2 DEF Signed!ShadowPart
    <3> HIDE DEF part
    <3> QED
      BY <1>1, <1>2, <2>3, <2>4, <3>1, <3>3
  <2>6. Signed!CopiesAreCopies'
    <3>1. text'[last'.at + i - 1].signed /\ text'[last'.at + i - 1].bytes # last'.bytes[i] /\ i \in 1 .. Len(last'.bytes)
      BY <1>3, <2>1, <2>3, <2>4, <2>5
    <3> QED
      BY <2>1, <3>1 DEF Signed!CopiesAreCopies, Signed!Runs
  <2> QED
    BY <2>2, <2>6 DEF SignedInv
<1> QED
  BY <1>4, <1>5

LEMMA GuestCopyKeeps == SignedInv /\ Signed!Copy => SignedInv'
<1> SUFFICES ASSUME SignedInv, Signed!Runs, NEW at \in Signed!Text, NEW from \in Signed!Text, NEW n \in 1 .. Pages,
                    at + n <= Pages, from + n <= Pages, Signed!Write(at, Signed!Source(from, n))
             PROVE  SignedInv'
  BY DEF Signed!Copy
<1>1. text \in [Signed!Text -> Cells]
  BY RunningPages
<1>2. ASSUME NEW i \in 1 .. n PROVE text[from + i - 1].bytes \in Contents
  <2>1. from + i - 1 \in Signed!Text
    BY SignedAssumption DEF Signed!Text
  <2> QED
    BY <1>1, <2>1 DEF Cells
<1>3. n \in Nat
  BY SignedAssumption
<1> DEFINE bytes == Signed!Source(from, n)
<1>4. bytes \in Seq(Contents) /\ Len(bytes) = n
  BY <1>2, <1>3 DEF Signed!Source
<1>5. at + Len(bytes) <= Pages /\ Signed!Write(at, bytes)
  BY <1>4
<1> HIDE DEF bytes
<1> QED
  BY <1>4, <1>5, HookKeeps

LEMMA CopyInKeeps == SignedInv /\ Signed!CopyIn => SignedInv'
<1> SUFFICES ASSUME SignedInv, Signed!Runs, NEW at \in Signed!Text, NEW n \in 1 .. Pages - at,
                    NEW bytes \in [1 .. n -> Values], Signed!Write(at, bytes)
             PROVE  SignedInv'
  BY DEF Signed!CopyIn
<1>1. n \in Nat /\ at + n <= Pages
  BY SignedAssumption DEF Signed!Text
<1>2. bytes \in Seq(Contents) /\ Len(bytes) = n
  BY <1>1 DEF Contents
<1> QED
  BY <1>1, <1>2, HookKeeps

LEMMA MapOverKeeps == SignedInv /\ Signed!MapOver => SignedInv'
<1> SUFFICES ASSUME SignedInv, Signed!Runs, NEW at \in Signed!Text, NEW n \in 1 .. Pages - at,
                    text' = IF Signed!ShadowPart(at, n) = n THEN Signed!Written([i \in 1 .. n |-> 0], at, n) ELSE text,
                    last' = Signed!NoCall,
                    UNCHANGED <<guest, container, pc, handle, active, shadow, shadowSize>>
             PROVE  SignedInv'
  BY DEF Signed!MapOver
<1> DEFINE bytes == [i \in 1 .. n |-> 0]
<1>1. n \in Nat /\ at \in Nat /\ at + n <= Pages
  BY SignedAssumption DEF Signed!Text
<1>2. bytes \in Seq(Contents) /\ Len(bytes) = n
  BY <1>1 DEF Contents
<1>3. /\ text' \in [Signed!Text -> Cells]
      /\ \A p \in Signed!Text : text'[p].signed = text[p].signed /\ (text[p].signed => text'[p] = text[p])
  <2>1. CASE Signed!ShadowPart(at, n) = n
    <3>1. text' = Signed!Written(bytes, at, n)
      BY <2>1
    <3>2. n \in 0 .. Len(bytes) /\ at + Len(bytes) <= Pages /\ n <= Signed!ShadowPart(at, Len(bytes))
      BY <1>1, <1>2, <2>1
    <3> HIDE DEF bytes
    <3> QED
      BY <1>2, <3>1, <3>2, WrittenKeeps
  <2>2. CASE Signed!ShadowPart(at, n) # n
    BY <2>2, RunningPages
  <2> QED
    BY <2>1, <2>2
<1>4. last'.bytes = <<>> /\ last'.at = 0
  BY DEF Signed!NoCall
<1>5. last'.bytes \in Seq(Contents) /\ last'.at \in Nat /\ last'.at + Len(last'.bytes) <= Pages
  BY <1>4, SignedAssumption
<1>6. SignedTypes' /\ SizeIsFound' /\ PagesAreTrue' /\ HooksAreTrue'
  BY <1>3, <1>5, CallKeeps
<1>7. Signed!CopiesAreCopies'
  BY <1>4 DEF Signed!CopiesAreCopies, Signed!Runs
<1> QED
  BY <1>6, <1>7 DEF SignedInv

LEMMA StoreKeeps == SignedInv /\ Signed!Store => SignedInv'
<1> SUFFICES ASSUME SignedInv, Signed!Runs, NEW p \in Signed!Text, NEW v \in Values, last' = Signed!NoCall,
                    IF text[p].signed THEN pc' = "aborted" /\ text' = text
                    ELSE text' = [text EXCEPT ![p].bytes = v] /\ pc' = pc,
                    UNCHANGED <<guest, container, handle, active, shadow, shadowSize>>
             PROVE  SignedInv'
  BY DEF Signed!Store
<1>1. text \in [Signed!Text -> Cells]
  BY RunningPages
<1>2. /\ text' \in [Signed!Text -> Cells]
      /\ \A q \in Signed!Text : text'[q].signed = text[q].signed /\ (text[q].signed => text'[q] = text[q])
  <2>1. CASE text[p].signed
    BY <1>1, <2>1
  <2>2. CASE ~text[p].signed
    BY <1>1, <2>2 DEF Cells, Contents
  <2> QED
    BY <2>1, <2>2
<1>4. last'.bytes = <<>> /\ last'.at = 0
  BY DEF Signed!NoCall
<1>5. last'.bytes \in Seq(Contents) /\ last'.at \in Nat /\ last'.at + Len(last'.bytes) <= Pages
  BY <1>4, SignedAssumption
<1>6. SignedTypes' /\ SizeIsFound' /\ PagesAreTrue' /\ HooksAreTrue'
  BY <1>2, <1>5, CallKeeps
<1>7. Signed!CopiesAreCopies'
  BY <1>4 DEF Signed!CopiesAreCopies, Signed!Runs
<1> QED
  BY <1>6, <1>7 DEF SignedInv
-----------------------------------------------------------------------------
(* The initializer returned.                                                   *)

LEMMA InitializerKeeps == SignedInv /\ Signed!Return => SignedInv'
<1> SUFFICES ASSUME SignedInv, Signed!Return PROVE SignedInv'
  OBVIOUS
<1>0. pc = "unpacking" /\ pc' = (IF shadow THEN "verify" ELSE "running")
      /\ UNCHANGED <<guest, container, handle, text, active, shadow, shadowSize, last>>
  BY DEF Signed!Return
<1>1. SignedTypes'
  BY <1>0 DEF SignedInv, SignedTypes, SignedPCs, Unmapped
<1>2. SizeIsFound'
  BY <1>0, SizeStays DEF Unmatched
<1>3. PagesAreTrue'
  <2>1. \A p \in Signed!Text : ~text[p].signed <=> shadow /\ p < shadowSize
    BY <1>0, RunningPages DEF Signed!Runs
  <2>2. \A p \in Signed!Text : text[p].signed => text[p] = Signed!SignedPage(p)'
    BY <1>0, RunningPages DEF Signed!SignedPage, Signed!Runs
  <2>3. \A p \in Signed!Text : text[p].signed <=> p >= shadowSize
    BY <1>0 DEF SignedInv, PagesAreTrue
  <2>4. CASE shadow
    BY <1>0, <2>2, <2>3, <2>4 DEF PagesAreTrue
  <2>5. CASE ~shadow
    BY <1>0, <2>1, <2>2, <2>5 DEF PagesAreTrue
  <2> QED
    BY <2>4, <2>5
<1>4. HooksAreTrue'
  BY <1>0 DEF SignedInv, HooksAreTrue, Unready, Unmatched
<1>5. Signed!CopiesAreCopies'
  BY <1>0 DEF SignedInv, Signed!CopiesAreCopies, Signed!Runs
<1> QED
  BY <1>1, <1>2, <1>3, <1>4, <1>5 DEF SignedInv

LEMMA VerifyKeeps == SignedInv /\ Signed!Verify => SignedInv'
<1> SUFFICES ASSUME SignedInv, Signed!Verify PROVE SignedInv'
  OBVIOUS
<1>0. pc = "verify" /\ UNCHANGED <<guest, container, handle, text, active, shadowSize, last>>
  BY DEF Signed!Verify
<1>00. (Signed!Verified /\ shadow' = FALSE /\ pc' = "restore") \/ (pc' = "blocked" /\ shadow' = shadow)
  BY DEF Signed!Verify
<1>1. SignedTypes'
  BY <1>0, <1>00 DEF SignedInv, SignedTypes, SignedPCs, Unmapped
<1>2. SizeIsFound'
  BY <1>0, SizeStays DEF Unmatched
<1>3. PagesAreTrue'
  <2>1. text \in [Signed!Text -> Cells] /\ shadowSize \in Nat
    BY <1>0, SignedAssumption DEF SignedInv, SignedTypes, Unmapped
  <2>2. \A p \in Signed!Text : /\ text[p].signed <=> p >= shadowSize
                               /\ text[p].signed => text[p] = Signed!SignedPage(p)'
    BY <1>0, <2>1 DEF SignedInv, PagesAreTrue, Signed!SignedPage
  <2>3. CASE pc' = "restore"
    <3>1. Signed!Verified
      BY <1>00, <2>3
    <3>2. \A p \in Signed!Text : p < shadowSize => text[p].bytes = container.bytes[p]
      BY <2>1, <3>1, SignedAssumption DEF Signed!Verified, Signed!Text
    <3> QED
      BY <1>0, <2>2, <2>3, <3>2 DEF PagesAreTrue
  <2>4. CASE pc' = "blocked"
    BY <1>0, <2>2, <2>4 DEF PagesAreTrue
  <2> QED
    BY <1>00, <2>3, <2>4
<1>4. HooksAreTrue'
  BY <1>0, <1>00 DEF SignedInv, HooksAreTrue, Unready, Unmatched
<1>5. Signed!CopiesAreCopies'
  BY <1>00, CopiesStay
<1> QED
  BY <1>1, <1>2, <1>3, <1>4, <1>5 DEF SignedInv

\* The pages that replace the unpacked ones are the same.
LEMMA RestoreIsSame ==
    ASSUME SignedInv, pc = "restore", NEW p \in Signed!Text
    PROVE  text[p].bytes = container.bytes[p]
<1>1. text \in [Signed!Text -> Cells] /\ shadowSize \in Nat /\ p \in Nat
  BY SignedAssumption DEF SignedInv, SignedTypes, Unmapped, Signed!Text
<1>2. CASE p < shadowSize
  BY <1>2 DEF SignedInv, PagesAreTrue
<1>3. CASE p >= shadowSize
  <2>1. text[p] = Signed!SignedPage(p)
    BY <1>1, <1>3 DEF SignedInv, PagesAreTrue
  <2> QED
    BY <2>1 DEF Signed!SignedPage
<1> QED
  BY <1>1, <1>2, <1>3

LEMMA RestoreKeeps == SignedInv /\ Signed!Restore => SignedInv'
<1> SUFFICES ASSUME SignedInv, Signed!Restore PROVE SignedInv'
  OBVIOUS
<1>0. pc = "restore" /\ last' = Signed!NoCall /\ UNCHANGED <<guest, container, handle, active, shadow, shadowSize>>
  BY DEF Signed!Restore
<1>00. \/ /\ text' = [p \in Signed!Text |-> IF p < shadowSize THEN Signed!SignedPage(p) ELSE text[p]]
          /\ pc' = "running"
       \/ pc' = "blocked" /\ text' = text
  BY DEF Signed!Restore
<1>1. text \in [Signed!Text -> Cells] /\ shadowSize \in Nat /\ \A p \in Signed!Text : p \in Nat
  BY <1>0, SignedAssumption DEF SignedInv, SignedTypes, Unmapped, Signed!Text
<1>2. \A p \in Signed!Text : p >= shadowSize => text[p].signed /\ text[p] = Signed!SignedPage(p)
  BY <1>0, <1>1 DEF SignedInv, PagesAreTrue
<1>3. \A p \in Signed!Text : Signed!SignedPage(p) \in Cells /\ Signed!SignedPage(p).signed
                             /\ Signed!SignedPage(p)' = Signed!SignedPage(p)
  BY <1>0 DEF Signed!SignedPage, SignedInv, SignedTypes, Cells, Contents
<1>4. text' \in [Signed!Text -> Cells]
  BY <1>00, <1>1, <1>3
<1>5. last'.bytes = <<>> /\ last'.at = 0
  BY <1>0 DEF Signed!NoCall
<1>6. last'.bytes \in Seq(Contents) /\ last'.at \in Nat /\ last'.at + Len(last'.bytes) <= Pages
  BY <1>5, SignedAssumption
<1>7. SignedTypes'
  BY <1>0, <1>00, <1>4, <1>6 DEF SignedInv, SignedTypes, SignedPCs, Unmapped
<1>8. SizeIsFound'
  BY <1>0, SizeStays DEF Unmatched
<1>9. PagesAreTrue'
  <2>1. CASE pc' = "running"
    <3>1. \A p \in Signed!Text : text'[p] = Signed!SignedPage(p)
      BY <1>00, <1>1, <1>2, <2>1
    <3>2. \A p \in Signed!Text : text'[p].signed /\ text'[p] = Signed!SignedPage(p)'
      BY <1>3, <3>1
    <3> QED
      BY <2>1, <3>2 DEF PagesAreTrue
  <2>2. CASE pc' = "blocked"
    <3>1. text' = text
      BY <1>00, <2>2
    <3>2. \A p \in Signed!Text : text'[p].signed => text'[p] = Signed!SignedPage(p)'
      BY <1>1, <1>3, <3>1 DEF SignedInv, PagesAreTrue
    <3> QED
      BY <2>2, <3>2 DEF PagesAreTrue
  <2> QED
    BY <1>00, <2>1, <2>2
<1>10. HooksAreTrue'
  BY <1>0, <1>00 DEF SignedInv, HooksAreTrue, Unready, Unmatched
<1>11. Signed!CopiesAreCopies'
  BY <1>00, <1>5 DEF Signed!CopiesAreCopies, Signed!Runs
<1> QED
  BY <1>7, <1>8, <1>9, <1>10, <1>11 DEF SignedInv

LEMMA SignedStepKeeps == SignedInv /\ Signed!Next => SignedInv'
BY OpenKeeps, CheckKeeps, MapKeeps, RemapKeeps, FailKeeps, StageKeeps, EnterKeeps, GuestCopyKeeps, CopyInKeeps,
   MapOverKeeps, StoreKeeps, InitializerKeeps, VerifyKeeps, RestoreKeeps DEF Signed!Next

LEMMA SignedStutters == SignedInv /\ UNCHANGED signedVars => SignedInv'
<1> SUFFICES ASSUME SignedInv, UNCHANGED signedVars PROVE SignedInv'
  OBVIOUS
<1> USE DEF signedVars, SignedInv
<1>1. SignedTypes' /\ SizeIsFound'
  BY DEF SignedTypes, SizeIsFound, Signed!OriginalPage
<1>2. PagesAreTrue'
  BY DEF PagesAreTrue, Signed!SignedPage, Signed!OriginalPage
<1>3. HooksAreTrue'
  BY DEF HooksAreTrue
<1>4. Signed!CopiesAreCopies'
  BY DEF Signed!CopiesAreCopies, Signed!Runs
<1> QED
  BY <1>1, <1>2, <1>3, <1>4

LEMMA SignedConcludes ==
    SignedInv => /\ Signed!UnpackerStartsFromTheFile /\ Signed!SignedPagesAreGenuine
                 /\ Signed!CopiesAreCopies /\ Signed!RefusedLeavesNothing
<1> SUFFICES ASSUME SignedInv
             PROVE  Signed!UnpackerStartsFromTheFile /\ Signed!SignedPagesAreGenuine /\ Signed!RefusedLeavesNothing
  BY DEF SignedInv
<1>1. Signed!UnpackerStartsFromTheFile
  <2> SUFFICES ASSUME pc = "staged"
               PROVE  /\ \A p \in Signed!Text : text[p].bytes = Signed!OriginalPage(p)
                      /\ text[guest.initializer].signed
    BY DEF Signed!UnpackerStartsFromTheFile
  <2>1. /\ text \in [Signed!Text -> Cells] /\ shadowSize \in Nat /\ guest.initializer \in Signed!Text
        /\ shadowSize <= guest.initializer
        /\ \A p \in shadowSize .. Pages - 1 : container.bytes[p] = Signed!OriginalPage(p)
    BY SignedAssumption DEF SignedInv, SignedTypes, Unmapped, SizeIsFound, Unmatched, Signed!Text
  <2>2. ASSUME NEW p \in Signed!Text PROVE text[p].bytes = Signed!OriginalPage(p)
    <3>1. p \in Nat /\ p <= Pages - 1
      BY SignedAssumption DEF Signed!Text
    <3>2. CASE p < shadowSize
      BY <3>2 DEF SignedInv, PagesAreTrue
    <3>3. CASE p >= shadowSize
      <4>1. text[p] = Signed!SignedPage(p)
        BY <2>1, <3>3 DEF SignedInv, PagesAreTrue
      <4>2. container.bytes[p] = Signed!OriginalPage(p)
        BY <2>1, <3>1, <3>3, SignedAssumption
      <4> QED
        BY <4>1, <4>2 DEF Signed!SignedPage
    <3> QED
      BY <2>1, <3>1, <3>2, <3>3
  <2>3. text[guest.initializer].signed
    BY <2>1 DEF SignedInv, PagesAreTrue
  <2> QED
    BY <2>2, <2>3
<1>2. Signed!SignedPagesAreGenuine
  <2>1. text # <<>> => \A p \in Signed!Text : text[p].signed => text[p].bytes = container.bytes[p]
    <3> SUFFICES ASSUME text # <<>>, NEW p \in Signed!Text, text[p].signed PROVE text[p].bytes = container.bytes[p]
      OBVIOUS
    <3>1. text[p] = Signed!SignedPage(p)
      BY DEF SignedInv, PagesAreTrue
    <3> QED
      BY <3>1 DEF Signed!SignedPage
  <2> QED
    BY <2>1 DEF SignedInv, PagesAreTrue, Signed!SignedPagesAreGenuine
<1>3. Signed!RefusedLeavesNothing
  BY DEF SignedInv, SignedTypes, Unmapped, HooksAreTrue, Unready, Unmatched, Signed!RefusedLeavesNothing
<1> QED
  BY <1>1, <1>2, <1>3

\* NativeGuest.m replaces the unpacked pages by the container's only when they are equal.
LEMMA RestoreIsQuiet ==
    ASSUME SignedInv, Signed!Next, pc = "restore", pc' = "running"
    PROVE  \A p \in Signed!Text : text'[p].bytes = text[p].bytes
<1>1. Signed!Restore
  BY DEF Signed!Next, Signed!Open, Signed!Check, Signed!Map, Signed!Remap, Signed!Fail, Signed!Stage, Signed!Enter,
     Signed!Copy, Signed!CopyIn, Signed!MapOver, Signed!Store, Signed!Return, Signed!Verify, Signed!Runs
<1>2. text' = [p \in Signed!Text |-> IF p < shadowSize THEN Signed!SignedPage(p) ELSE text[p]]
  BY <1>1 DEF Signed!Restore
<1> QED
  BY <1>2, RestoreIsSame DEF Signed!SignedPage
-----------------------------------------------------------------------------
(* The signed container (SignedContainer).                                     *)

LEMMA QuotientFits ==
    ASSUME NEW a \in Nat, NEW b \in Nat \ {0}, NEW n \in Nat, n <= a \div b
    PROVE  n * b <= a
<1> DEFINE d == a \div b
<1>1. d \in Nat /\ b * d <= a
  <2>1. d \in Int
    OBVIOUS
  <2>2. d >= 0
    OBVIOUS
  <2>3. b * d <= a
    OBVIOUS
  <2> HIDE DEF d
  <2> QED
    BY <2>1, <2>2, <2>3
<1> HIDE DEF d
<1>2. n <= d
  BY DEF d
<1>3. n * b <= d * b
  BY <1>1, <1>2
<1>4. d * b = b * d
  BY <1>1
<1> QED
  BY <1>1, <1>3, <1>4

Walks == [ok : BOOLEAN, cursor : Nat, end : Nat, read : Nat, text : BOOLEAN]

\* What the walk has read lies behind the header, in the commands and the page.
WalkIsInside(w) ==
    /\ w \in Walks /\ w.read <= PageSize
    /\ w.read > HeaderSize => w.read <= w.end
    /\ w.ok => w.end <= PageSize

LEMMA ReadingStays ==
    ASSUME NEW w, WalkIsInside(w), w.ok, NEW n \in Nat, n <= w.end
    PROVE  LET r == Container!ReadTo(w, n)
           IN  WalkIsInside(r) /\ r.ok = w.ok /\ r.cursor = w.cursor /\ r.end = w.end /\ r.text = w.text
<1> DEFINE m == IF n > w.read THEN n ELSE w.read
           r == Container!ReadTo(w, n)
<1>1. w \in Walks /\ m \in Nat /\ m <= PageSize /\ (m > HeaderSize => m <= w.end)
  BY ContainerAssumption DEF WalkIsInside, Walks
<1>2. r = [w EXCEPT !.read = m]
  BY DEF Container!ReadTo
<1> HIDE DEF m, r
<1>3. r \in Walks /\ r.ok = w.ok /\ r.cursor = w.cursor /\ r.end = w.end /\ r.text = w.text /\ r.read = m
  BY <1>1, <1>2 DEF Walks
<1>4. WalkIsInside(r)
  BY <1>1, <1>3 DEF WalkIsInside
<1> QED
  BY <1>3, <1>4 DEF r

LEMMA RefusingStays ==
    ASSUME NEW w, WalkIsInside(w)
    PROVE  WalkIsInside(Container!Refuse(w))
<1> DEFINE r == Container!Refuse(w)
<1>1. r = [w EXCEPT !.ok = FALSE] /\ w \in Walks
  BY DEF Container!Refuse, WalkIsInside
<1> HIDE DEF r
<1>2. r \in Walks /\ r.ok = FALSE /\ r.end = w.end /\ r.read = w.read
  BY <1>1 DEF Walks
<1>3. WalkIsInside(r)
  BY <1>2 DEF WalkIsInside
<1> QED
  BY <1>3 DEF r

\* A segment and its sections lie in their command.
LEMMA SegmentStays ==
    ASSUME NEW w, WalkIsInside(w), w.ok, NEW c \in Container!Commands, w.cursor + c.size <= w.end
    PROVE  WalkIsInside(Container!Segment(w, c))
<1> DEFINE seen == Container!ReadTo(w, w.cursor + SegmentSize)
           n == Container!Sections(w, c)
           last1 == w.cursor + SegmentSize + n * SectionSize
           all == Container!ReadTo(seen, last1)
<1>1. w \in Walks /\ w.cursor \in Nat /\ w.end \in Nat /\ c.size \in Nat /\ c.nsects \in Nat
  BY ContainerAssumption DEF WalkIsInside, Walks, Container!Commands
<1>2. CASE c.size < SegmentSize
  BY <1>2, RefusingStays DEF Container!Segment
<1>3. CASE ~(c.size < SegmentSize)
  <2>1. SegmentSize \in Nat /\ SectionSize \in Nat \ {0} /\ SegmentSize <= c.size
    BY <1>1, <1>3, ContainerAssumption
  <2>2. w.cursor + SegmentSize \in Nat /\ w.cursor + SegmentSize <= w.end
    BY <1>1, <2>1
  <2>3. WalkIsInside(seen) /\ seen.ok = w.ok /\ seen.end = w.end /\ seen.cursor = w.cursor
    BY <2>2, ReadingStays
  <2>4. CASE n < 0 \/ (c.kind = "text" /\ w.text)
    BY <1>3, <2>3, <2>4, RefusingStays DEF Container!Segment
  <2>5. CASE ~(n < 0 \/ (c.kind = "text" /\ w.text)) /\ c.kind # "text"
    BY <1>3, <2>3, <2>5 DEF Container!Segment
  <2>6. CASE ~(n < 0 \/ (c.kind = "text" /\ w.text)) /\ c.kind = "text"
    <3>1. n = c.nsects /\ n <= (c.size - SegmentSize) \div SectionSize
      <4> DEFINE room == (c.size - SegmentSize) \div SectionSize
      <4>1. room \in Int
        BY <1>1, <2>1
      <4>2. n = IF c.nsects > room THEN -1 ELSE c.nsects
        BY DEF Container!Sections
      <4> HIDE DEF room, n
      <4>3. ~(c.nsects > room)
        BY <2>6, <4>2
      <4>4. n = c.nsects /\ n <= room
        BY <1>1, <4>1, <4>2, <4>3
      <4> QED
        BY <4>4 DEF room
    <3>2. n * SectionSize <= c.size - SegmentSize /\ n * SectionSize \in Nat
      <4>1. c.size - SegmentSize \in Nat /\ n \in Nat
        BY <1>1, <2>1, <3>1
      <4> DEFINE x == c.size - SegmentSize
      <4>2. x \in Nat /\ n <= x \div SectionSize
        BY <3>1, <4>1
      <4> HIDE DEF x, n
      <4>3. n * SectionSize <= x /\ n * SectionSize \in Nat
        BY <2>1, <4>1, <4>2, QuotientFits
      <4> QED
        BY <4>3 DEF x
    <3>3. last1 \in Nat /\ last1 <= w.end
      <4> DEFINE x == n * SectionSize
      <4>1. x \in Nat /\ x <= c.size - SegmentSize
        BY <3>2
      <4> HIDE DEF x, n
      <4>2. w.cursor + SegmentSize + x \in Nat /\ w.cursor + SegmentSize + x <= w.end
        BY <1>1, <2>1, <4>1
      <4> QED
        BY <4>2 DEF x
    <3> HIDE DEF last1, seen, n
    <3>4. WalkIsInside(all) /\ all.end = w.end
      BY <2>3, <3>3, ReadingStays
    <3>5. Container!Segment(w, c) = [all EXCEPT !.text = TRUE]
      BY <1>3, <2>6 DEF Container!Segment, seen, n, last1
    <3> HIDE DEF all
    <3>6. [all EXCEPT !.text = TRUE] \in Walks /\ [all EXCEPT !.text = TRUE].read = all.read
          /\ [all EXCEPT !.text = TRUE].end = all.end /\ [all EXCEPT !.text = TRUE].ok = all.ok
      BY <3>4 DEF WalkIsInside, Walks
    <3> QED
      BY <3>4, <3>5, <3>6 DEF WalkIsInside
  <2> QED
    BY <2>4, <2>5, <2>6
<1> QED
  BY <1>2, <1>3

LEMMA CommandStays ==
    ASSUME NEW w, WalkIsInside(w), NEW c \in Container!Commands
    PROVE  WalkIsInside(Container!Command(w, c))
<1> DEFINE seen == Container!ReadTo(w, w.cursor + CommandSize)
           done == IF c.kind = "other" THEN seen ELSE Container!Segment(seen, c)
           moved == [done EXCEPT !.cursor = @ + c.size]
<1>1. w \in Walks /\ w.cursor \in Nat /\ w.end \in Nat /\ c.size \in Nat /\ CommandSize \in Nat
  BY ContainerAssumption DEF WalkIsInside, Walks, Container!Commands
<1>2. CASE ~w.ok
  BY <1>2 DEF Container!Command
<1>3. CASE w.ok /\ ~Container!Within(w.cursor, CommandSize, w.end)
  BY <1>3, RefusingStays DEF Container!Command
<1>4. CASE w.ok /\ Container!Within(w.cursor, CommandSize, w.end)
  <2>1. w.cursor + CommandSize \in Nat /\ w.cursor + CommandSize <= w.end
    BY <1>1, <1>4 DEF Container!Within
  <2>2. WalkIsInside(seen) /\ seen.ok = w.ok /\ seen.end = w.end /\ seen.cursor = w.cursor
    BY <1>4, <2>1, ReadingStays
  <2> HIDE DEF seen
  <2>3. CASE c.size < CommandSize \/ ~Container!Within(w.cursor, c.size, w.end)
    <3>1. Container!Command(w, c) = Container!Refuse(seen)
      BY <1>4, <2>3 DEF Container!Command, seen
    <3> QED
      BY <2>2, <3>1, RefusingStays
  <2>4. CASE ~(c.size < CommandSize \/ ~Container!Within(w.cursor, c.size, w.end))
    <3>1. w.cursor + c.size <= w.end
      BY <1>1, <2>4 DEF Container!Within
    <3>2. WalkIsInside(done)
      BY <1>4, <2>2, <3>1, SegmentStays
    <3>3. Container!Command(w, c) = moved
      BY <1>4, <2>4 DEF Container!Command, seen
    <3> HIDE DEF done
    <3>4. done \in Walks
      BY <3>2 DEF WalkIsInside
    <3>5. done.cursor + c.size \in Nat
      BY <1>1, <3>4 DEF Walks
    <3>6. moved \in Walks /\ moved.read = done.read /\ moved.end = done.end /\ moved.ok = done.ok
      BY <3>4, <3>5 DEF Walks
    <3> QED
      BY <3>2, <3>3, <3>6 DEF WalkIsInside
  <2> QED
    BY <2>3, <2>4
<1> QED
  BY <1>2, <1>3, <1>4

Questions == [kind : {"walk"}, sizeofcmds : 0 .. PageSize, commands : Seq(Container!Commands)]
WalksUpTo(q, f) ==
    f = [n \in 0 .. Len(q.commands) |-> IF n = 0 THEN Container!Begun(q) ELSE Container!Command(f[n - 1], q.commands[n])]

LEMMA BegunIsInside == ASSUME NEW q \in Questions PROVE WalkIsInside(Container!Begun(q))
<1>1. q.sizeofcmds \in Nat /\ HeaderSize \in Nat /\ PageSize \in Nat /\ HeaderSize <= PageSize
  BY ContainerAssumption DEF Questions
<1> DEFINE w == Container!Begun(q)
<1>2. w = [ok |-> q.sizeofcmds <= PageSize - HeaderSize, cursor |-> HeaderSize, end |-> HeaderSize + q.sizeofcmds,
           read |-> HeaderSize, text |-> FALSE]
  BY DEF Container!Begun
<1> HIDE DEF w
<1>3. HeaderSize + q.sizeofcmds \in Nat
  BY <1>1
<1>4. w \in Walks
  BY <1>1, <1>2, <1>3 DEF Walks
<1>5. w.ok => w.end <= PageSize
  <2>1. w.ok = (q.sizeofcmds <= PageSize - HeaderSize) /\ w.end = HeaderSize + q.sizeofcmds
    BY <1>2
  <2>2. CASE q.sizeofcmds <= PageSize - HeaderSize
    BY <1>1, <2>1, <2>2
  <2>3. CASE ~(q.sizeofcmds <= PageSize - HeaderSize)
    BY <2>1, <2>3
  <2> QED
    BY <2>2, <2>3
<1>6. WalkIsInside(w)
  BY <1>1, <1>2, <1>4, <1>5 DEF WalkIsInside
<1> QED
  BY <1>6 DEF w

\* Each command is read by the code above.
LEMMA WalkIs ==
    ASSUME NEW q \in Questions
    PROVE  \E w : /\ WalkIsInside(w)
                  /\ Container!Walk(q) = [w EXCEPT !.ok = @ /\ w.cursor = w.end /\ w.text]
<1> DEFINE n == Len(q.commands)
           X == {w \in Walks : WalkIsInside(w)}
           step == [i \in 1 .. n |-> [w \in X |-> Container!Command(w, q.commands[i])]]
<1>1. n \in Nat /\ \A i \in 1 .. n : q.commands[i] \in Container!Commands
  BY DEF Questions
<1>2. Container!Begun(q) \in X
  BY BegunIsInside DEF WalkIsInside
<1>3. \A w \in X : WalkIsInside(w)
  OBVIOUS
<1>4. \A w : WalkIsInside(w) => w \in X
  BY DEF WalkIsInside
<1> HIDE DEF X
<1>5. \A i \in 1 .. n : \A w \in X : Container!Command(w, q.commands[i]) \in X
  BY <1>1, <1>3, <1>4, CommandStays
<1>6. step \in [1 .. n -> [X -> X]]
  BY <1>5
<1>7. PICK f \in [0 .. n -> X] : Leads(Container!Begun(q), n, step, f)
  <2> HIDE DEF n, step
  <2> QED
    BY <1>1, <1>2, <1>6, StepsLead
<1>8. ASSUME NEW i \in 1 .. n PROVE f[i] = Container!Command(f[i - 1], q.commands[i])
  <2>1. i - 1 \in 0 .. n
    BY <1>1
  <2>2. f[i - 1] \in X
    BY <2>1
  <2>3. f[i] = step[i][f[i - 1]]
    BY <1>7 DEF Leads
  <2> QED
    BY <2>2, <2>3
<1>9. WalksUpTo(q, f)
  <2>1. f[0] = Container!Begun(q)
    BY <1>7 DEF Leads
  <2> DEFINE g == [k \in 0 .. n |-> IF k = 0 THEN Container!Begun(q) ELSE Container!Command(f[k - 1], q.commands[k])]
  <2>2. ASSUME NEW k \in 0 .. n PROVE f[k] = g[k]
    <3>1. CASE k = 0
      BY <2>1, <3>1
    <3>2. CASE k # 0
      BY <1>1, <1>8, <3>2
    <3> QED
      BY <3>1, <3>2
  <2>3. f = g
    BY <2>2
  <2> QED
    BY <2>3 DEF WalksUpTo
<1> DEFINE h == CHOOSE h : WalksUpTo(q, h)
<1>10. WalksUpTo(q, h)
  BY <1>9
<1>11. Container!Walk(q) = [h[n] EXCEPT !.ok = @ /\ h[n].cursor = h[n].end /\ h[n].text]
  BY DEF Container!Walk, WalksUpTo
<1> HIDE DEF h
<1>12. \A k \in 0 .. n : WalkIsInside(h[k])
  <2> DEFINE N == {k \in Nat : k <= n => WalkIsInside(h[k])}
  <2>1. 0 \in N
    BY <1>1, <1>10, BegunIsInside DEF WalksUpTo
  <2>2. ASSUME NEW k \in Nat, k \in N PROVE k + 1 \in N
    <3> SUFFICES ASSUME k + 1 <= n PROVE WalkIsInside(h[k + 1])
      OBVIOUS
    <3>1. WalkIsInside(h[k]) /\ k + 1 \in 1 .. n /\ k + 1 \in 0 .. n /\ (k + 1) - 1 = k /\ k + 1 # 0
      BY <1>1, <2>2
    <3>2. h[k + 1] = Container!Command(h[k], q.commands[k + 1])
      BY <1>10, <3>1 DEF WalksUpTo
    <3> QED
      BY <1>1, <3>1, <3>2, CommandStays
  <2>3. Nat \subseteq N
    <3> HIDE DEF N
    <3> QED
      BY <2>1, <2>2, SetInduction
  <2> QED
    BY <1>1, <2>3
<1>13. WalkIsInside(h[n])
  BY <1>1, <1>12
<1> QED
  BY <1>11, <1>13

LEMMA WalkStays == Container!WalkCommands => Container!ReadsStayInside'
<1> SUFFICES ASSUME NEW s \in 0 .. PageSize, NEW k \in 0 .. 2, NEW commands \in [1 .. k -> Container!Commands],
                    asked' = [kind |-> "walk", sizeofcmds |-> s, commands |-> commands],
                    located' = Container!Walk(asked')
             PROVE  Container!ReadsStayInside'
  BY DEF Container!WalkCommands
<1>1. commands \in Seq(Container!Commands)
  OBVIOUS
<1>2. asked' \in Questions
  BY <1>1 DEF Questions
<1>3. PICK w : /\ WalkIsInside(w)
               /\ located' = [w EXCEPT !.ok = @ /\ w.cursor = w.end /\ w.text]
  BY <1>2, WalkIs
<1>4. w \in Walks
  BY <1>3 DEF WalkIsInside
<1>5. located'.read = w.read /\ located'.end = w.end
  BY <1>3, <1>4 DEF Walks
<1> QED
  BY <1>3, <1>5 DEF WalkIsInside, Container!ReadsStayInside

LEMMA RemaindersAdd ==
    ASSUME NEW a \in Nat, NEW b \in Nat, NEW m \in Nat \ {0}, a % m = 0, b % m = 0
    PROVE  (a + b) % m = 0
<1> DEFINE x == a \div m
           y == b \div m
<1>1. a = m * (a \div m) + (a % m)
  OBVIOUS
<1>2. b = m * (b \div m) + (b % m)
  OBVIOUS
<1>3. x \in Int /\ y \in Int /\ x >= 0 /\ y >= 0
  <2>1. x \in Int /\ y \in Int
    OBVIOUS
  <2>2. x >= 0
    OBVIOUS
  <2>3. y >= 0
    OBVIOUS
  <2> QED
    BY <2>1, <2>2, <2>3
<1>4. a = m * x /\ b = m * y
  BY <1>1, <1>2
<1> HIDE DEF x, y
<1>5. x + y \in Nat /\ a + b = m * (x + y)
  BY <1>3, <1>4
<1> DEFINE z == x + y
<1>6. (m * z) % m = 0
  <2>1. z \in Nat
    BY <1>5
  <2> HIDE DEF z
  <2> QED
    BY <2>1
<1> QED
  BY <1>5, <1>6

\* The section that is found starts at the marker: the sum that picked it cannot
\* have wrapped, because the segment does not wrap in memory.
LEMMA LocateStays == Container!LocateImage => Container!LocatedIsSigned'
<1> SUFFICES ASSUME Container!LocateImage, asked'.kind = "locate", located'.ok
             PROVE  Container!LocatedIsSigned'
  BY DEF Container!LocatedIsSigned
<1>1. PICK header \in {n \in Container!Edges : n % PageSize # PageSize - 1}, vmaddr \in {0, 1, PageSize},
           vmsize \in {0, PageSize, 2 * PageSize - 1, 2 * PageSize},
           filesize \in Container!Edges, addr \in Container!Edges, size \in Container!Edges,
           twice \in BOOLEAN, code \in BOOLEAN :
             \E v1 \in {0, (header + addr - vmaddr) % FileSpace,
                         (((header + addr - vmaddr) % FileSpace) + PageSize) % FileSpace} :
             \E final \in {0, v1} :
               /\ header + vmsize <= FileSpace
               /\ asked' = [kind |-> "locate", header |-> header, vmaddr |-> vmaddr, vmsize |-> vmsize, filesize |-> filesize,
                            v1 |-> v1, final |-> final, code |-> code,
                            sections |-> <<[addr |-> addr, size |-> size]>>
                                         \o (IF twice THEN <<[addr |-> addr, size |-> PageSize]>> ELSE <<>>)]
               /\ located' = Container!Locate(asked')
  BY DEF Container!LocateImage
<1>2. PICK v1, final :
               /\ header + vmsize <= FileSpace
               /\ asked' = [kind |-> "locate", header |-> header, vmaddr |-> vmaddr, vmsize |-> vmsize, filesize |-> filesize,
                            v1 |-> v1, final |-> final, code |-> code,
                            sections |-> <<[addr |-> addr, size |-> size]>>
                                         \o (IF twice THEN <<[addr |-> addr, size |-> PageSize]>> ELSE <<>>)]
               /\ located' = Container!Locate(asked')
  BY <1>1
<1> DEFINE q == asked'
           found == {i \in DOMAIN q.sections : Container!AtMarker(q, q.sections[i])}
           s == q.sections[CHOOSE i \in found : TRUE]
<1>3. /\ header \in Nat /\ vmaddr \in Nat /\ vmsize \in Nat /\ filesize \in Nat /\ addr \in Nat /\ size \in Nat
      /\ PageSize \in Nat \ {0} /\ FileSpace \in Nat
  BY ContainerAssumption DEF Container!Edges
<1>4. /\ q.header = header /\ q.vmaddr = vmaddr /\ q.vmsize = vmsize /\ q.filesize = filesize /\ q.v1 = v1
      /\ \A i \in DOMAIN q.sections : q.sections[i].addr \in Nat /\ q.sections[i].size \in Nat
  <2>1. q.sections = <<[addr |-> addr, size |-> size]>> \o (IF twice THEN <<[addr |-> addr, size |-> PageSize]>> ELSE <<>>)
    BY <1>2
  <2>2. \A i \in DOMAIN q.sections : q.sections[i] = [addr |-> addr, size |-> size] \/ q.sections[i] = [addr |-> addr, size |-> PageSize]
    BY <2>1
  <2>3. \A i \in DOMAIN q.sections : q.sections[i].addr \in Nat /\ q.sections[i].size \in Nat
    BY <1>3, <2>2
  <2> QED
    BY <1>2, <2>3
<1>5. located' = Container!Locate(q)
  BY <1>2
<1> HIDE DEF q
<1>6. /\ header % PageSize = 0
      /\ \E i \in found : found = {i}
      /\ Container!Fits(q, s) /\ (s.addr - vmaddr) % PageSize = 0 /\ s.size % PageSize = 0
      /\ located' = [ok |-> TRUE, bytes |-> v1, size |-> s.size]
  BY <1>4, <1>5 DEF Container!Locate, Container!Refused
<1>7. s.addr \in Nat /\ s.size \in Nat /\ Container!AtMarker(q, s)
  <2>1. PICK i : i \in found /\ found = {i}
    BY <1>6
  <2>2. (CHOOSE j \in found : TRUE) = i
    BY <2>1
  <2> QED
    BY <1>4, <2>1, <2>2
<1> HIDE DEF s, found
<1> DEFINE a == s.addr
           z == s.size
           limit == Container!Limit(q)
<1>8. limit \in Nat /\ limit <= vmsize
  BY <1>3, <1>4 DEF Container!Limit
<1>9. z # 0 /\ (header + a - vmaddr) % FileSpace = v1
  BY <1>4, <1>7 DEF Container!AtMarker
<1>10. a >= vmaddr /\ a - vmaddr <= limit /\ z <= limit - (a - vmaddr)
  BY <1>4, <1>6 DEF Container!Fits, Container!Within
<1>11. a \in Nat /\ z \in Nat /\ (a - vmaddr) % PageSize = 0 /\ z % PageSize = 0
  BY <1>6, <1>7
<1>12. located'.bytes = v1 /\ located'.size = z /\ q.header = header /\ header + vmsize <= FileSpace
  BY <1>2, <1>4, <1>6
<1> HIDE DEF a, z, limit
<1> DEFINE d == a - vmaddr
<1>13. d \in Nat /\ d + z <= limit /\ header + a - vmaddr = header + d /\ d % PageSize = 0
  BY <1>3, <1>8, <1>10, <1>11
<1> HIDE DEF d
<1>14. header + d \in Nat /\ header + d < FileSpace
  BY <1>3, <1>8, <1>9, <1>11, <1>12, <1>13
<1>15. v1 = header + d
  <2> DEFINE x == header + d
  <2>1. x \in Nat /\ x < FileSpace /\ v1 = x % FileSpace
    BY <1>9, <1>13, <1>14
  <2> HIDE DEF x
  <2>2. v1 = x
    BY <1>3, <2>1
  <2> QED
    BY <2>2 DEF x
<1>16. v1 % PageSize = 0
  BY <1>3, <1>6, <1>13, <1>15, RemaindersAdd
<1>17. z > 0 /\ header <= v1 /\ v1 + z <= header + limit
  BY <1>3, <1>8, <1>9, <1>11, <1>13, <1>15
<1> QED
  BY <1>11, <1>12, <1>16, <1>17 DEF Container!LocatedIsSigned, limit, q

\* The bounds of the search: what is before lo is smaller, what is behind hi is not,
\* and after k steps they have met, or come k closer.
Searching(q, k, at) ==
    /\ at \in [lo : Nat, hi : Nat] /\ at.lo <= at.hi /\ at.hi <= Len(q.pages)
    /\ \A i \in 1 .. at.lo : q.pages[i] < q.address
    /\ \A i \in at.hi + 1 .. Len(q.pages) : q.pages[i] >= q.address
    /\ at.lo = at.hi \/ at.hi - at.lo + k <= Len(q.pages)

Sought == [kind : {"page"}, pages : Seq(Nat), address : Nat]
InOrder(q) == \A i, j \in 1 .. Len(q.pages) : i < j => q.pages[i] < q.pages[j]

LEMMA HalfIsBetween ==
    ASSUME NEW l \in Nat, NEW h \in Nat, l < h
    PROVE  l + (h - l) \div 2 \in Nat /\ l <= l + (h - l) \div 2 /\ l + (h - l) \div 2 < h
<1> DEFINE m == (h - l) \div 2
<1>1. m \in Nat /\ m < h - l
  OBVIOUS
<1> HIDE DEF m
<1>2. l + m \in Nat /\ l <= l + m /\ l + m < h
  BY <1>1
<1> QED
  BY <1>2 DEF m

LEMMA HalvingSearches ==
    ASSUME NEW q \in Sought, InOrder(q), NEW k \in Nat, NEW at, Searching(q, k, at), at.lo < at.hi
    PROVE  Searching(q, k + 1, Container!Halve(q, at))
<1> DEFINE l == at.lo
           h == at.hi
           n == Len(q.pages)
           m == l + (h - l) \div 2
<1>1. /\ l \in Nat /\ h \in Nat /\ n \in Nat /\ l < h /\ h <= n /\ h - l + k <= n /\ q.address \in Nat
      /\ \A i \in 1 .. n : q.pages[i] \in Nat
      /\ \A i \in 1 .. l : q.pages[i] < q.address
      /\ \A i \in h + 1 .. n : q.pages[i] >= q.address
      /\ \A i, j \in 1 .. n : i < j => q.pages[i] < q.pages[j]
  BY DEF Searching, Sought, InOrder
<1>2. at = [lo |-> l, hi |-> h]
  BY DEF Searching
<1>3. Container!Halve(q, at) = IF q.pages[m + 1] < q.address THEN [lo |-> m + 1, hi |-> h] ELSE [lo |-> l, hi |-> m]
  BY <1>2 DEF Container!Halve
<1> HIDE DEF l, h, n
<1>4. m \in Nat /\ l <= m /\ m < h
  BY <1>1, HalfIsBetween
<1> HIDE DEF m
<1>5. m + 1 \in 1 .. n /\ q.pages[m + 1] \in Nat
  BY <1>1, <1>4
<1>6. CASE q.pages[m + 1] < q.address
  <2> DEFINE r == [lo |-> m + 1, hi |-> h]
  <2>1. r \in [lo : Nat, hi : Nat] /\ r.lo <= r.hi /\ r.hi <= n /\ r.lo = m + 1 /\ r.hi = h
    BY <1>1, <1>4
  <2>2. ASSUME NEW i \in 1 .. m + 1 PROVE q.pages[i] < q.address
    <3>1. CASE i = m + 1
      BY <1>6, <3>1
    <3>2. CASE i < m + 1
      <4>1. i \in 1 .. n /\ q.pages[i] < q.pages[m + 1] /\ q.pages[i] \in Nat
        BY <1>1, <1>4, <1>5, <3>2
      <4> QED
        BY <1>1, <1>5, <1>6, <4>1
    <3> QED
      BY <1>4, <3>1, <3>2
  <2>3. r.hi - r.lo + (k + 1) <= n
    BY <1>1, <1>4, <2>1
  <2> HIDE DEF r
  <2>4. Searching(q, k + 1, r)
    BY <1>1, <2>1, <2>2, <2>3 DEF Searching, n
  <2> QED
    BY <1>3, <1>6, <2>4 DEF r
<1>7. CASE ~(q.pages[m + 1] < q.address)
  <2> DEFINE r == [lo |-> l, hi |-> m]
  <2>1. r \in [lo : Nat, hi : Nat] /\ r.lo <= r.hi /\ r.hi <= n /\ r.lo = l /\ r.hi = m
    BY <1>1, <1>4
  <2>2. ASSUME NEW i \in m + 1 .. n PROVE q.pages[i] >= q.address
    <3>1. CASE i = m + 1
      BY <1>1, <1>5, <1>7, <3>1
    <3>2. CASE m + 1 < i
      <4>1. i \in 1 .. n /\ q.pages[m + 1] < q.pages[i] /\ q.pages[i] \in Nat
        BY <1>1, <1>4, <1>5, <3>2
      <4> QED
        BY <1>1, <1>5, <1>7, <4>1
    <3> QED
      BY <1>1, <1>4, <3>1, <3>2
  <2>3. r.hi - r.lo + (k + 1) <= n
    BY <1>1, <1>4, <2>1
  <2> HIDE DEF r
  <2>4. Searching(q, k + 1, r)
    BY <1>1, <2>1, <2>2, <2>3 DEF Searching, n
  <2> QED
    BY <1>3, <1>7, <2>4 DEF r
<1> QED
  BY <1>6, <1>7

SearchStep(q, at) == IF at.lo < at.hi THEN Container!Halve(q, at) ELSE at
SearchesUpTo(q, f) ==
    f = [n \in 0 .. Len(q.pages) + 1 |->
           IF n = 0 THEN [lo |-> 0, hi |-> Len(q.pages)]
           ELSE IF f[n - 1].lo < f[n - 1].hi THEN Container!Halve(q, f[n - 1]) ELSE f[n - 1]]

LEMMA SearchSteps ==
    ASSUME NEW q \in Sought, InOrder(q), NEW k \in Nat, NEW at, Searching(q, k, at)
    PROVE  Searching(q, k + 1, SearchStep(q, at))
<1>1. CASE at.lo < at.hi
  BY <1>1, HalvingSearches DEF SearchStep
<1>2. CASE ~(at.lo < at.hi)
  BY <1>2 DEF SearchStep, Searching
<1> QED
  BY <1>1, <1>2

LEMMA SearchExists ==
    ASSUME NEW q \in Sought, InOrder(q)
    PROVE  \E f : SearchesUpTo(q, f)
<1> DEFINE n == Len(q.pages) + 1
           first == [lo |-> 0, hi |-> Len(q.pages)]
           X == {at \in [lo : Nat, hi : Nat] : \E k \in Nat : Searching(q, k, at)}
           step == [i \in 1 .. n |-> [at \in X |-> SearchStep(q, at)]]
<1>1. n \in Nat
  BY DEF Sought
<1>2. Searching(q, 0, first)
  BY DEF Searching, Sought
<1>3. first \in X
  BY <1>2 DEF Searching
<1>4. \A at \in X : SearchStep(q, at) \in X
  <2> SUFFICES ASSUME NEW at \in X PROVE SearchStep(q, at) \in X
    OBVIOUS
  <2>1. PICK k \in Nat : Searching(q, k, at)
    OBVIOUS
  <2>2. Searching(q, k + 1, SearchStep(q, at))
    BY <2>1, SearchSteps
  <2> QED
    BY <2>2 DEF Searching
<1> HIDE DEF X
<1>5. step \in [1 .. n -> [X -> X]]
  BY <1>4
<1> HIDE DEF n, first
<1>6. PICK f \in [0 .. n -> X] : Leads(first, n, step, f)
  <2> HIDE DEF step
  <2> QED
    BY <1>1, <1>3, <1>5, StepsLead
<1>7. ASSUME NEW i \in 1 .. n PROVE f[i] = SearchStep(q, f[i - 1])
  <2>1. i - 1 \in 0 .. n
    BY <1>1
  <2>2. f[i - 1] \in X /\ f[i] = step[i][f[i - 1]]
    BY <1>6, <2>1 DEF Leads
  <2> QED
    BY <2>2
<1>8. f[0] = first
  BY <1>6 DEF Leads
<1> DEFINE g == [k \in 0 .. n |-> IF k = 0 THEN first
                   ELSE IF f[k - 1].lo < f[k - 1].hi THEN Container!Halve(q, f[k - 1]) ELSE f[k - 1]]
<1>9. ASSUME NEW k \in 0 .. n PROVE f[k] = g[k]
  <2>1. CASE k = 0
    BY <1>8, <2>1
  <2>2. CASE k # 0
    <3>1. k \in 1 .. n
      BY <1>1, <2>2
    <3> QED
      BY <1>7, <2>2, <3>1 DEF SearchStep
  <2> QED
    BY <2>1, <2>2
<1>10. f = g
  BY <1>9
<1> QED
  BY <1>10 DEF SearchesUpTo, n, first

\* original_page: the search of pages that are in order finds a page if it is there.
LEMMA SearchFinds ==
    ASSUME NEW q \in Sought, InOrder(q)
    PROVE  Container!OriginalPage(q) <=> \E i \in 1 .. Len(q.pages) : q.pages[i] = q.address
<1> DEFINE f == CHOOSE f : SearchesUpTo(q, f)
           n == Len(q.pages)
           lo == f[n + 1].lo
<1>1. SearchesUpTo(q, f)
  BY SearchExists
<1>2. Container!OriginalPage(q) <=> lo < n /\ q.pages[lo + 1] = q.address
  BY DEF Container!OriginalPage, SearchesUpTo
<1>3. n \in Nat /\ q.address \in Nat /\ \A i \in 1 .. n : q.pages[i] \in Nat
  BY DEF Sought
<1> HIDE DEF f, n
<1>4. \A k \in 0 .. n + 1 : Searching(q, k, f[k])
  <2> DEFINE N == {k \in Nat : k <= n + 1 => Searching(q, k, f[k])}
  <2>1. 0 \in N
    <3>1. f[0] = [lo |-> 0, hi |-> n]
      BY <1>1, <1>3 DEF SearchesUpTo, n
    <3> QED
      BY <1>3, <3>1 DEF Searching, n
  <2>2. ASSUME NEW k \in Nat, k \in N PROVE k + 1 \in N
    <3> SUFFICES ASSUME k + 1 <= n + 1 PROVE Searching(q, k + 1, f[k + 1])
      OBVIOUS
    <3>1. Searching(q, k, f[k]) /\ k + 1 \in 0 .. n + 1 /\ k + 1 # 0 /\ (k + 1) - 1 = k
      BY <1>3, <2>2
    <3>2. f[k + 1] = SearchStep(q, f[k])
      BY <1>1, <3>1 DEF SearchesUpTo, SearchStep, n
    <3> QED
      BY <3>1, <3>2, SearchSteps
  <2>3. Nat \subseteq N
    <3> HIDE DEF N
    <3> QED
      BY <2>1, <2>2, SetInduction
  <2> QED
    BY <1>3, <2>3
<1> DEFINE at == f[n + 1]
<1>5. Searching(q, n + 1, at)
  BY <1>3, <1>4
<1> HIDE DEF at
<1>6. /\ at.lo \in Nat /\ at.hi = at.lo /\ at.lo <= n
      /\ \A i \in 1 .. at.lo : q.pages[i] < q.address
      /\ \A i \in at.lo + 1 .. n : q.pages[i] >= q.address
  <2>1. at.lo \in Nat /\ at.hi \in Nat /\ at.lo <= at.hi /\ at.hi <= n
    BY <1>5 DEF Searching, n
  <2>2. at.lo = at.hi \/ at.hi - at.lo + (n + 1) <= n
    BY <1>5 DEF Searching, n
  <2>3. at.lo = at.hi
    BY <1>3, <2>1, <2>2
  <2> QED
    BY <1>5, <2>1, <2>3 DEF Searching, n
<1>7. lo = at.lo
  BY DEF at
<1> HIDE DEF lo
<1>8. ASSUME NEW i \in 1 .. n, q.pages[i] = q.address PROVE lo < n /\ q.pages[lo + 1] = q.address
  <2>1. ~(i <= lo)
    <3> SUFFICES ASSUME i <= lo PROVE FALSE
      OBVIOUS
    <3>1. i \in 1 .. at.lo
      BY <1>6, <1>7
    <3> QED
      BY <1>3, <1>6, <1>8, <3>1
  <2>2. lo \in Nat /\ lo < n /\ lo + 1 \in 1 .. n /\ lo + 1 \in at.lo + 1 .. n
    BY <1>3, <1>6, <1>7, <2>1
  <2>3. q.pages[lo + 1] >= q.address /\ q.pages[lo + 1] \in Nat
    BY <1>3, <1>6, <2>2
  <2>4. CASE i = lo + 1
    BY <1>8, <2>2, <2>4
  <2>5. CASE lo + 1 < i
    <3>1. q.pages[lo + 1] < q.pages[i]
      BY <2>2, <2>5 DEF InOrder, n
    <3> QED
      BY <1>3, <1>8, <2>3, <3>1
  <2> QED
    BY <2>1, <2>2, <2>4, <2>5
<1>9. ASSUME lo < n, q.pages[lo + 1] = q.address PROVE \E i \in 1 .. n : q.pages[i] = q.address
  BY <1>3, <1>6, <1>7, <1>9
<1> QED
  BY <1>2, <1>8, <1>9 DEF n

LEMMA FindPageStays == Container!FindPage => Container!PagesAreFound'
<1> SUFFICES ASSUME NEW n \in 0 .. MaxPages + 1, NEW pages \in [1 .. n -> 0 .. MaxPages],
                    \A i, j \in 1 .. n : i < j => pages[i] < pages[j], NEW address \in 0 .. MaxPages,
                    asked' = [kind |-> "page", pages |-> pages, address |-> address],
                    located' = [found |-> Container!OriginalPage(asked')]
             PROVE  Container!PagesAreFound'
  BY DEF Container!FindPage
<1> DEFINE q == asked'
<1>1. MaxPages \in Nat /\ n \in Nat
  BY ContainerAssumption
<1>2. pages \in Seq(Nat) /\ Len(pages) = n
  BY <1>1
<1>3. q \in Sought /\ q.pages = pages /\ q.address = address
  BY <1>1, <1>2 DEF Sought
<1>4. InOrder(q)
  BY <1>2, <1>3 DEF InOrder
<1>5. DOMAIN q.pages = 1 .. Len(q.pages)
  BY <1>2, <1>3
<1> HIDE DEF q
<1>6. Container!OriginalPage(q) <=> \E i \in DOMAIN q.pages : q.pages[i] = q.address
  BY <1>3, <1>4, <1>5, SearchFinds
<1>7. located'.found = Container!OriginalPage(q)
  BY DEF q
<1>8. Container!OriginalPage(q) \in BOOLEAN
  BY Zenon DEF Container!OriginalPage
<1>9. located'.found = (\E i \in DOMAIN q.pages : q.pages[i] = q.address)
  BY <1>6, <1>7, <1>8
<1> QED
  BY <1>9 DEF Container!PagesAreFound, q

\* What si_count_mismatches has counted when it is behind the first e bytes.
DifferingBefore(q, e) == {i \in 0 .. e - 1 : q.a[i + 1] # q.b[i + 1]}
Counted == [count : Nat, first : Nat]
CountsTo(q, e, c) ==
    /\ c \in Counted /\ c.count = Cardinality(DifferingBefore(q, e))
    /\ DifferingBefore(q, e) = {} => c.first = q.size
    /\ DifferingBefore(q, e) # {} => c.first \in DifferingBefore(q, e) /\ \A i \in DifferingBefore(q, e) : c.first <= i

Behind(q, n) == IF n * Chunk < q.size THEN n * Chunk ELSE q.size
Compared == [kind : {"compare"}, size : Nat, a : Seq(0 .. 1), b : Seq(0 .. 1)]

LEMMA DifferingIsFinite ==
    ASSUME NEW q, NEW e \in Nat
    PROVE  /\ IsFiniteSet(DifferingBefore(q, e)) /\ Cardinality(DifferingBefore(q, e)) \in Nat
           /\ DifferingBefore(q, e) \in SUBSET Nat
<1>1. IsFiniteSet(0 .. e - 1)
  BY FS_Interval
<1>2. DifferingBefore(q, e) \subseteq 0 .. e - 1
  BY DEF DifferingBefore
<1>3. IsFiniteSet(DifferingBefore(q, e))
  BY <1>1, <1>2, FS_Subset
<1> QED
  BY <1>2, <1>3, FS_CardinalityType

\* The container counts as its proofs do.
LEMMA SameCardinality == ASSUME NEW S PROVE Container!Cardinality(S) = Cardinality(S)
BY Zenon DEF Cardinality, Container!Cardinality

LEMMA ChunkCounts ==
    ASSUME NEW q \in Compared, NEW e \in Nat, e < q.size, NEW c, CountsTo(q, e, c)
    PROVE  LET end == Container!ChunkEnd(q, e)
           IN  end \in Nat /\ e < end /\ end <= q.size /\ CountsTo(q, end, Container!CountChunk(q, c, e))
<1> DEFINE end == Container!ChunkEnd(q, e)
           D == DifferingBefore(q, e)
           E == DifferingBefore(q, end)
           N == {i \in e .. end - 1 : q.a[i + 1] # q.b[i + 1]}
           first == CHOOSE i \in N : \A j \in N : i <= j
           r == Container!CountChunk(q, c, e)
<1>1. q.size \in Nat /\ Chunk \in Nat \ {0}
  BY ContainerAssumption DEF Compared
<1>2. end \in Nat /\ e < end /\ end <= q.size
  BY <1>1 DEF Container!ChunkEnd
<1>5. r = IF N = {} THEN c
          ELSE [count |-> c.count + Cardinality(N), first |-> IF c.count = 0 THEN first ELSE c.first]
  BY SameCardinality, Zenon DEF Container!CountChunk
<1> HIDE DEF end
<1>3. /\ IsFiniteSet(D) /\ Cardinality(D) \in Nat /\ D \in SUBSET Nat /\ IsFiniteSet(E)
      /\ Cardinality(E) \in Nat /\ E \in SUBSET Nat
  BY <1>2, DifferingIsFinite
<1>4. E = D \cup N /\ D \cap N = {} /\ N \in SUBSET Nat /\ \A i \in D, j \in N : i < j
  BY <1>2 DEF DifferingBefore
<1>6. /\ c \in Counted /\ c.count = Cardinality(D) /\ (D = {} => c.first = q.size)
      /\ D # {} => c.first \in D /\ \A i \in D : c.first <= i
  BY DEF CountsTo
<1>7. D = {} <=> c.count = 0
  BY <1>3, <1>6, FS_EmptySet
<1> HIDE DEF D, E, N, r
<1>8. CASE N = {}
  <2>1. r = c /\ E = D
    BY <1>4, <1>5, <1>8
  <2>2. CountsTo(q, end, c)
    BY <2>1 DEF CountsTo, E, D
  <2> QED
    BY <1>2, <2>1, <2>2 DEF end, r
<1>9. CASE N # {}
  <2>1. first \in N /\ \A j \in N : first <= j
    <3>1. \E i \in N : \A j \in N : i <= j
      BY <1>4, <1>9, LeastExists
    <3> QED
      BY <3>1
  <2> HIDE DEF first
  <2>2. IsFiniteSet(N) /\ Cardinality(N) \in Nat
    <3>1. N \subseteq E
      BY <1>4
    <3>2. IsFiniteSet(N)
      BY <1>3, <3>1, FS_Subset
    <3> QED
      BY <3>2, FS_CardinalityType
  <2>3. Cardinality(E) = Cardinality(D) + Cardinality(N)
    <3>1. Cardinality(D \cup N) = Cardinality(D) + Cardinality(N) - Cardinality(D \cap N)
      BY <1>3, <2>2, FS_Union
    <3>2. Cardinality(D \cap N) = 0
      BY <1>4, FS_EmptySet
    <3> QED
      BY <1>3, <1>4, <2>2, <3>1, <3>2
  <2>4. r = [count |-> c.count + Cardinality(N), first |-> IF c.count = 0 THEN first ELSE c.first]
    BY <1>5, <1>9
  <2>5. r \in Counted /\ r.count = Cardinality(E)
    BY <1>3, <1>4, <1>6, <2>1, <2>2, <2>3, <2>4 DEF Counted
  <2>6. E # {} /\ r.first \in E /\ \A i \in E : r.first <= i
    <3>1. CASE D = {}
      <4>1. r.first = first /\ E = N
        BY <1>4, <1>7, <2>4, <3>1
      <4> QED
        BY <1>9, <2>1, <4>1
    <3>2. CASE D # {}
      <4>1. r.first = c.first
        BY <1>7, <2>4, <3>2
      <4>2. c.first \in D /\ \A i \in D : c.first <= i
        BY <1>6, <3>2
      <4>3. \A i \in N : c.first < i
        BY <1>4, <4>2
      <4>4. \A i \in N : c.first <= i
        <5>1. c.first \in Nat
          BY <1>3, <4>2
        <5> QED
          BY <1>4, <4>3, <5>1
      <4> QED
        BY <1>4, <4>1, <4>2, <4>4
    <3> QED
      BY <3>1, <3>2
  <2>7. CountsTo(q, end, r)
    BY <2>5, <2>6 DEF CountsTo, E
  <2> QED
    BY <1>2, <2>7 DEF end, r
<1> QED
  BY <1>8, <1>9

CountStep(q, n, c) == IF (n - 1) * Chunk < q.size THEN Container!CountChunk(q, c, (n - 1) * Chunk) ELSE c
CountsUpTo(q, f) ==
    f = [n \in 0 .. MaxLength |->
           IF n = 0 THEN [count |-> 0, first |-> q.size]
           ELSE IF (n - 1) * Chunk < q.size THEN Container!CountChunk(q, f[n - 1], (n - 1) * Chunk) ELSE f[n - 1]]

LEMMA CountSteps ==
    ASSUME NEW q \in Compared, NEW n \in Nat, NEW c, CountsTo(q, Behind(q, n), c)
    PROVE  CountsTo(q, Behind(q, n + 1), CountStep(q, n + 1, c))
<1> DEFINE e == n * Chunk
           f == (n + 1) * Chunk
<1>1. Chunk \in Nat \ {0} /\ q.size \in Nat
  BY ContainerAssumption DEF Compared
<1>2. e \in Nat /\ f = e + Chunk /\ (n + 1) - 1 = n
  BY <1>1
<1>3. Behind(q, n) = (IF e < q.size THEN e ELSE q.size) /\ Behind(q, n + 1) = (IF f < q.size THEN f ELSE q.size)
  BY DEF Behind
<1>4. CountStep(q, n + 1, c) = IF e < q.size THEN Container!CountChunk(q, c, e) ELSE c
  BY <1>2 DEF CountStep
<1> HIDE DEF e, f
<1>5. CASE e < q.size
  <2>1. CountsTo(q, e, c)
    BY <1>3, <1>5
  <2>2. CountsTo(q, Container!ChunkEnd(q, e), Container!CountChunk(q, c, e))
    BY <1>2, <1>5, <2>1, ChunkCounts
  <2>3. Container!ChunkEnd(q, e) = Behind(q, n + 1)
    BY <1>1, <1>2, <1>3, <1>5 DEF Container!ChunkEnd
  <2> QED
    BY <1>4, <1>5, <2>2, <2>3
<1>6. CASE ~(e < q.size)
  <2>1. Behind(q, n + 1) = Behind(q, n)
    BY <1>1, <1>2, <1>3, <1>6
  <2> QED
    BY <1>4, <1>6, <2>1
<1> QED
  BY <1>5, <1>6

LEMMA CountStarts ==
    ASSUME NEW q \in Compared
    PROVE  CountsTo(q, Behind(q, 0), [count |-> 0, first |-> q.size])
<1>1. Chunk \in Nat \ {0} /\ q.size \in Nat
  BY ContainerAssumption DEF Compared
<1>2. Behind(q, 0) = 0
  BY <1>1 DEF Behind
<1>3. DifferingBefore(q, 0) = {}
  BY DEF DifferingBefore
<1> QED
  BY <1>1, <1>2, <1>3, FS_EmptySet DEF CountsTo, Counted

LEMMA CountExists ==
    ASSUME NEW q \in Compared
    PROVE  \E f : CountsUpTo(q, f)
<1> DEFINE first == [count |-> 0, first |-> q.size]
           X == {c \in Counted : TRUE}
           step == [i \in 1 .. MaxLength |-> [c \in Counted |-> IF CountsTo(q, Behind(q, i - 1), c) THEN CountStep(q, i, c) ELSE c]]
<1>1. MaxLength \in Nat /\ first \in Counted
  BY ContainerAssumption DEF Compared, Counted
<1>2. ASSUME NEW i \in 1 .. MaxLength, NEW c \in Counted, CountsTo(q, Behind(q, i - 1), c)
      PROVE  CountStep(q, i, c) \in Counted /\ CountsTo(q, Behind(q, i), CountStep(q, i, c))
  <2>1. i - 1 \in Nat /\ (i - 1) + 1 = i
    BY <1>1
  <2>2. CountsTo(q, Behind(q, (i - 1) + 1), CountStep(q, (i - 1) + 1, c))
    BY <1>2, <2>1, CountSteps
  <2> QED
    BY <2>1, <2>2 DEF CountsTo
<1>3. step \in [1 .. MaxLength -> [Counted -> Counted]]
  BY <1>2
<1> HIDE DEF step
<1>4. PICK f \in [0 .. MaxLength -> Counted] : Leads(first, MaxLength, step, f)
  <2> HIDE DEF first
  <2> QED
    BY <1>1, <1>3, StepsLead
<1>5. f[0] = first
  BY <1>4 DEF Leads
<1>6. ASSUME NEW i \in 1 .. MaxLength, CountsTo(q, Behind(q, i - 1), f[i - 1])
      PROVE  f[i] = CountStep(q, i, f[i - 1]) /\ CountsTo(q, Behind(q, i), f[i])
  <2>1. f[i - 1] \in Counted
    BY <1>6 DEF CountsTo
  <2>2. f[i] = step[i][f[i - 1]]
    BY <1>4 DEF Leads
  <2>3. f[i] = CountStep(q, i, f[i - 1])
    BY <1>6, <2>1, <2>2 DEF step
  <2> QED
    BY <1>2, <1>6, <2>1, <2>3
<1>7. \A k \in 0 .. MaxLength : CountsTo(q, Behind(q, k), f[k])
  <2> DEFINE N == {k \in Nat : k <= MaxLength => CountsTo(q, Behind(q, k), f[k])}
  <2>1. 0 \in N
    BY <1>5, CountStarts
  <2>2. ASSUME NEW k \in Nat, k \in N PROVE k + 1 \in N
    <3> SUFFICES ASSUME k + 1 <= MaxLength PROVE CountsTo(q, Behind(q, k + 1), f[k + 1])
      OBVIOUS
    <3>1. k + 1 \in 1 .. MaxLength /\ (k + 1) - 1 = k /\ CountsTo(q, Behind(q, k), f[k])
      BY <1>1, <2>2
    <3> QED
      BY <1>6, <3>1
  <2>3. Nat \subseteq N
    <3> HIDE DEF N
    <3> QED
      BY <2>1, <2>2, SetInduction
  <2> QED
    BY <1>1, <2>3
<1> DEFINE g == [n \in 0 .. MaxLength |->
           IF n = 0 THEN [count |-> 0, first |-> q.size]
           ELSE IF (n - 1) * Chunk < q.size THEN Container!CountChunk(q, f[n - 1], (n - 1) * Chunk) ELSE f[n - 1]]
<1>8. ASSUME NEW k \in 0 .. MaxLength PROVE f[k] = g[k]
  <2>1. CASE k = 0
    BY <1>5, <2>1
  <2>2. CASE k # 0
    <3>1. k \in 1 .. MaxLength /\ k - 1 \in 0 .. MaxLength
      BY <1>1, <2>2
    <3>2. f[k] = CountStep(q, k, f[k - 1])
      BY <1>6, <1>7, <3>1
    <3> QED
      BY <2>2, <3>2 DEF CountStep
  <2> QED
    BY <2>1, <2>2
<1>9. f = g
  BY <1>8
<1> QED
  BY <1>9 DEF CountsUpTo

\* Chunk by chunk, every byte is compared, also of the last chunk that is shorter.
LEMMA AllAreCounted ==
    ASSUME NEW q \in Compared, q.size <= MaxLength
    PROVE  CountsTo(q, q.size, Container!CountMismatches(q))
<1> DEFINE f == CHOOSE f : CountsUpTo(q, f)
<1>1. CountsUpTo(q, f)
  BY CountExists
<1>2. Container!CountMismatches(q) = f[MaxLength]
  BY DEF Container!CountMismatches, CountsUpTo
<1> HIDE DEF f
<1>3. MaxLength \in Nat /\ Chunk \in Nat \ {0} /\ q.size \in Nat
  BY ContainerAssumption DEF Compared
<1>4. \A k \in 0 .. MaxLength : CountsTo(q, Behind(q, k), f[k])
  <2> DEFINE N == {k \in Nat : k <= MaxLength => CountsTo(q, Behind(q, k), f[k])}
  <2>1. 0 \in N
    <3>1. f[0] = [count |-> 0, first |-> q.size]
      BY <1>1, <1>3 DEF CountsUpTo
    <3> QED
      BY <3>1, CountStarts
  <2>2. ASSUME NEW k \in Nat, k \in N PROVE k + 1 \in N
    <3> SUFFICES ASSUME k + 1 <= MaxLength PROVE CountsTo(q, Behind(q, k + 1), f[k + 1])
      OBVIOUS
    <3>1. k + 1 \in 0 .. MaxLength /\ k + 1 # 0 /\ (k + 1) - 1 = k /\ CountsTo(q, Behind(q, k), f[k])
      BY <1>3, <2>2
    <3>2. f[k + 1] = CountStep(q, k + 1, f[k])
      BY <1>1, <3>1 DEF CountsUpTo, CountStep
    <3> QED
      BY <3>1, <3>2, CountSteps
  <2>3. Nat \subseteq N
    <3> HIDE DEF N
    <3> QED
      BY <2>1, <2>2, SetInduction
  <2> QED
    BY <1>3, <2>3
<1>5. Behind(q, MaxLength) = q.size
  <2> DEFINE e == MaxLength * Chunk
  <2>1. e \in Nat /\ MaxLength <= e
    <3>1. MaxLength * 1 <= MaxLength * Chunk
      BY <1>3
    <3> QED
      BY <1>3, <3>1
  <2>2. Behind(q, MaxLength) = IF e < q.size THEN e ELSE q.size
    BY DEF Behind
  <2> HIDE DEF e
  <2> QED
    BY <1>3, <2>1, <2>2
<1> QED
  BY <1>2, <1>3, <1>4, <1>5

LEMMA CompareStays == Container!Compare => Container!MismatchesAreExact'
<1> SUFFICES ASSUME NEW size \in 0 .. MaxLength, NEW a \in [1 .. size -> 0 .. 1], NEW b \in [1 .. size -> 0 .. 1],
                    asked' = [kind |-> "compare", size |-> size, a |-> a, b |-> b],
                    located' = Container!CountMismatches(asked')
             PROVE  Container!MismatchesAreExact'
  BY DEF Container!Compare
<1>1. MaxLength \in Nat /\ size \in Nat
  BY ContainerAssumption
<1>2. a \in Seq(0 .. 1) /\ b \in Seq(0 .. 1)
  BY <1>1
<1> DEFINE q == asked'
<1>3. q \in Compared /\ q.size <= MaxLength
  BY <1>1, <1>2 DEF Compared
<1>4. located' = Container!CountMismatches(q)
  OBVIOUS
<1> HIDE DEF q
<1>5. CountsTo(q, q.size, located')
  BY <1>3, <1>4, AllAreCounted
<1> DEFINE D == DifferingBefore(q, q.size)
<1>6. D = {i \in 0 .. q.size - 1 : q.a[i + 1] # q.b[i + 1]}
  BY DEF DifferingBefore
<1>7. /\ located'.count = Cardinality(D) /\ (D = {} => located'.first = q.size)
      /\ D # {} => located'.first \in D /\ \A i \in D : located'.first <= i
  BY <1>5 DEF CountsTo
<1> HIDE DEF D
<1>8. asked' = q
  BY DEF q
<1>9. Container!Cardinality(D) = Cardinality(D)
  BY SameCardinality
<1> QED
  BY <1>6, <1>7, <1>8, <1>9 DEF Container!MismatchesAreExact

ContainerInv ==
    /\ Container!ReadsStayInside /\ Container!LocatedIsSigned
    /\ Container!PagesAreFound /\ Container!MismatchesAreExact

LEMMA ContainerStarts == Container!Init => ContainerInv
BY DEF Container!Init, Container!NoQuestion, ContainerInv, Container!ReadsStayInside, Container!LocatedIsSigned,
       Container!PagesAreFound, Container!MismatchesAreExact

LEMMA ContainerStepKeeps == Container!Next => ContainerInv'
<1>1. Container!WalkCommands => ContainerInv'
  <2>1. Container!WalkCommands => asked'.kind = "walk"
    BY DEF Container!WalkCommands
  <2> QED
    BY <2>1, WalkStays DEF ContainerInv, Container!LocatedIsSigned, Container!PagesAreFound, Container!MismatchesAreExact
<1>2. Container!LocateImage => ContainerInv'
  <2>1. Container!LocateImage => asked'.kind = "locate"
    BY DEF Container!LocateImage
  <2> QED
    BY <2>1, LocateStays DEF ContainerInv, Container!ReadsStayInside, Container!PagesAreFound, Container!MismatchesAreExact
<1>3. Container!FindPage => ContainerInv'
  <2>1. Container!FindPage => asked'.kind = "page"
    BY DEF Container!FindPage
  <2> QED
    BY <2>1, FindPageStays DEF ContainerInv, Container!ReadsStayInside, Container!LocatedIsSigned, Container!MismatchesAreExact
<1>4. Container!Compare => ContainerInv'
  <2>1. Container!Compare => asked'.kind = "compare"
    BY DEF Container!Compare
  <2> QED
    BY <2>1, CompareStays DEF ContainerInv, Container!ReadsStayInside, Container!LocatedIsSigned, Container!PagesAreFound
<1> QED
  BY <1>1, <1>2, <1>3, <1>4 DEF Container!Next

LEMMA ContainerStutters == ContainerInv /\ UNCHANGED containerVars => ContainerInv'
BY DEF containerVars, ContainerInv, Container!ReadsStayInside, Container!LocatedIsSigned, Container!Limit,
       Container!PagesAreFound, Container!MismatchesAreExact
-----------------------------------------------------------------------------

\* NativeGuest.m and SignedImage.c, for any number of pages and whatever the guest
\* does: its first initializer finds the file's bytes, signed pages hold what was
\* signed, copies are copies, the restored pages are the unpacked ones, a refused
\* launch keeps nothing; and for any sizes of page, header, commands and chunks the
\* container is found inside its signed file, by reads that stay inside its header.
THEOREM SignedLaunchesAreGenuine == Spec => SignedLaunchIsGenuine
<1> DEFINE Inv == (subject = "signed" => SignedInv) /\ (subject = "container" => ContainerInv)
           Restores == pc = "restore" /\ pc' = "running" => \A p \in Signed!Text : text'[p].bytes = text[p].bytes
           SignedHolds == subject = "signed" => /\ Signed!UnpackerStartsFromTheFile /\ Signed!SignedPagesAreGenuine
                                                /\ Signed!CopiesAreCopies /\ Signed!RefusedLeavesNothing
           ContainerHolds == subject = "container" => /\ Container!ReadsStayInside /\ Container!LocatedIsSigned
                                                      /\ Container!PagesAreFound /\ Container!MismatchesAreExact
<1>1. Init => Inv
  BY SignedStarts, ContainerStarts DEF Init
<1>2. Inv /\ [Next]_vars => Inv'
  <2> SUFFICES ASSUME Inv, [Next]_vars PROVE Inv'
    OBVIOUS
  <2>1. subject' = subject
    BY DEF Next, vars
  <2>2. ASSUME subject = "signed" PROVE SignedInv'
    <3>1. CASE Signed!Next
      BY <2>2, <3>1, SignedStepKeeps
    <3>2. CASE UNCHANGED signedVars
      BY <2>2, <3>2, SignedStutters
    <3> QED
      BY <2>2, <3>1, <3>2 DEF Next, vars
  <2>3. ASSUME subject = "container" PROVE ContainerInv'
    <3>1. CASE Container!Next
      BY <2>3, <3>1, ContainerStepKeeps
    <3>2. CASE UNCHANGED containerVars
      BY <2>3, <3>2, ContainerStutters
    <3> QED
      BY <2>3, <3>1, <3>2 DEF Next, vars
  <2> QED
    BY <2>1, <2>2, <2>3
<1>3. Inv => SignedHolds /\ ContainerHolds
  BY SignedConcludes DEF ContainerInv
<1>4. Inv /\ [Next]_vars => [Restores]_(Signed!vars)
  <2> SUFFICES ASSUME Inv, [Next]_vars, ~(UNCHANGED Signed!vars), pc = "restore", pc' = "running"
               PROVE  \A p \in Signed!Text : text'[p].bytes = text[p].bytes
    OBVIOUS
  <2>1. subject = "signed" /\ Signed!Next
    BY DEF Next, vars, signedVars, Signed!vars
  <2> QED
    BY <2>1, RestoreIsQuiet
<1>5. SignedLaunchIsGenuine <=> [](SignedHolds) /\ [][Restores]_(Signed!vars) /\ [](ContainerHolds)
  BY DEF SignedLaunchIsGenuine, Signed!RestoreChangesNothing
<1> HIDE DEF Inv, Restores, SignedHolds, ContainerHolds
<1> QED
  BY <1>1, <1>2, <1>3, <1>4, <1>5, PTL DEF Spec
-----------------------------------------------------------------------------
(* The budget of reservations (VMBudget).                                      *)

Reservations == [start : 0 .. Top, end : 0 .. Top, limit : 0 .. Top, span : 0 .. Top]
Sizes == [r \in Reservations |-> r.limit - r.start]
Total(S) == SumFunctionOnSet(Sizes, S)

Claims == [start : Nat, end : Nat]
Tables == UNION {[D -> Claims] : D \in SUBSET (1 .. MaxClaims)}
ClaimedIn(claims, p) == \E i \in DOMAIN claims : claims[i].start <= p /\ p < claims[i].end

\* A guard is one page at most, and an empty region lies within no other.
Shaped(r) == r.start <= r.end /\ r.end <= r.limit /\ r.limit <= r.span /\ r.limit <= r.end + 1
Apart(r, s) == r = s \/ r.span <= s.start \/ s.span <= r.start
LaidOut(S) ==
    /\ S \subseteq Reservations /\ IsFiniteSet(S)
    /\ \A r \in S : Shaped(r)
    /\ \A r, s \in S : Apart(r, s)

\* What holds of the budget after every piece of a call.
Balanced(b) ==
    /\ b \in [regions : SUBSET Reservations, claims : Tables, reserved : Nat]
    /\ LaidOut(b.regions) /\ b.reserved = Total(b.regions)

LEMMA PoolSums == ASSUME NEW f, NEW S PROVE Pool!SumFunctionOnSet(f, S) = SumFunctionOnSet(f, S)
BY DEF Pool!SumFunctionOnSet, Pool!FoldFunctionOnSet, Pool!MapThenFoldSet,
       SumFunctionOnSet, FoldFunctionOnSet, MapThenFoldSet

LEMMA ReservedIs ==
    ASSUME IsFiniteSet(budget.regions), budget.regions \subseteq Reservations
    PROVE  Pool!ReservedIsExact <=> budget.reserved = Total(budget.regions)
BY SumSame, PoolSums DEF Pool!ReservedIsExact, Total, Sizes

LEMMA BoundsAre == {Top, Budget, MaxReservations, MaxClaims, MaxReserve, MaxMap, MaxCalls, MaxHost, Floor, Threshold} \subseteq Nat
BY BudgetAssumption

LEMMA LesserIs == ASSUME NEW a \in Nat, NEW b \in Nat PROVE Pool!Min({a, b}) = IF a <= b THEN a ELSE b
BY DEF Pool!Min

LEMMA GreaterIs == ASSUME NEW a \in Nat, NEW b \in Nat PROVE Pool!Max({a, b}) = IF a >= b THEN a ELSE b
BY DEF Pool!Max

LEMMA ReservationIs ==
    ASSUME NEW r \in Reservations
    PROVE  r.start \in Nat /\ r.end \in Nat /\ r.limit \in Nat /\ r.span \in Nat /\ r.span <= Top /\ r.limit <= Top
           /\ Sizes[r] = r.limit - r.start
BY BoundsAre DEF Reservations, Sizes

LEMMA NumbersOf ==
    ASSUME NEW S, LaidOut(S)
    PROVE  \A r \in S : /\ r \in Reservations /\ Shaped(r) /\ r.start \in Nat /\ r.end \in Nat /\ r.limit \in Nat /\ r.span \in Nat
BY ReservationIs DEF LaidOut

LEMMA SizesAre == ASSUME NEW S, LaidOut(S) PROVE (\A r \in S : Sizes[r] \in Nat) /\ Total(S) \in Nat
<1>1. ASSUME NEW r \in S PROVE Sizes[r] \in Nat
  <2>1. r \in Reservations /\ Shaped(r)
    BY DEF LaidOut
  <2> QED
    BY <2>1, ReservationIs DEF Shaped
<1>2. IsFiniteSet(S)
  BY DEF LaidOut
<1>3. SumFunctionOnSet(Sizes, S) \in Nat
  BY <1>1, <1>2, SumType
<1> QED
  BY <1>1, <1>3 DEF Total

\* A region with nothing of its own counts nothing, whether it was there or not.
LEMMA OneMore ==
    ASSUME NEW S, LaidOut(S), NEW a \in Reservations, Sizes[a] \in Nat, a \in S => Sizes[a] = 0
    PROVE  Total(S \cup {a}) = Total(S) + Sizes[a]
<1>1. IsFiniteSet(S) /\ \A r \in S \cup {a} : Sizes[r] \in Nat
  BY SizesAre DEF LaidOut
<1>2. CASE a \in S
  <2>1. S \cup {a} = S
    BY <1>2
  <2>2. Total(S \cup {a}) = Total(S) /\ Total(S) \in Nat /\ Sizes[a] = 0
    BY <1>2, <2>1, SizesAre
  <2> QED
    BY <2>2
<1>3. CASE a \notin S
  BY <1>1, <1>3, SumAdds DEF Total
<1> QED
  BY <1>2, <1>3

LEMMA OneLess ==
    ASSUME NEW S, LaidOut(S), NEW r \in S
    PROVE  Total(S) = Sizes[r] + Total(S \ {r}) /\ LaidOut(S \ {r})
<1>1. IsFiniteSet(S) /\ \A s \in S : Sizes[s] \in Nat
  BY SizesAre DEF LaidOut
<1>2. LaidOut(S \ {r})
  BY FS_RemoveElement DEF LaidOut
<1> QED
  BY <1>1, <1>2, SumWithout DEF Total

\* What lies within a region is apart from all the others.
Within(a, r) == a \in Reservations /\ Shaped(a) /\ r.start <= a.start /\ a.limit <= r.limit /\ a.span <= r.span

LEMMA WithinIsApart ==
    ASSUME NEW S, LaidOut(S), NEW r \in S, NEW a, Within(a, r)
    PROVE  LaidOut((S \ {r}) \cup {a}) /\ (a \in S \ {r} => Sizes[a] = 0) /\ Sizes[a] \in Nat
<1> DEFINE O == S \ {r}
<1>1. LaidOut(O)
  BY OneLess
<1>2. r \in Reservations /\ Shaped(r) /\ a \in Reservations /\ Shaped(a)
  BY DEF LaidOut, Within
<1>3. ASSUME NEW s \in O PROVE s \in Reservations /\ Shaped(s) /\ (s.span <= a.start \/ a.span <= s.start)
  <2>1. s \in Reservations /\ Shaped(s) /\ Apart(r, s) /\ r # s
    BY DEF LaidOut
  <2> QED
    BY <1>2, <2>1, ReservationIs DEF Apart, Within, Shaped
<1>4. IsFiniteSet(O \cup {a})
  BY <1>1, FS_AddElement DEF LaidOut
<1>5. LaidOut(O \cup {a})
  BY <1>1, <1>2, <1>3, <1>4 DEF LaidOut, Apart
<1>6. a \in O => Sizes[a] = 0
  <2> SUFFICES ASSUME a \in O PROVE Sizes[a] = 0
    OBVIOUS
  <2>1. a.span <= a.start
    BY <1>3
  <2> QED
    BY <1>2, <2>1, ReservationIs DEF Shaped
<1>7. Sizes[a] \in Nat
  BY <1>2, ReservationIs DEF Shaped
<1> QED
  BY <1>5, <1>6, <1>7

\* What remains of a region when [from, to) of its own is gone: all of it lies within
\* the region, beside what is gone, or the region stays as it is.
Remnant(a, r, from, to) ==
    /\ Within(a, r)
    /\ a = r \/ a.limit <= from \/ to <= a.start
    /\ a.end >= r.end \/ a.end = a.limit
    /\ a = r => from > r.start /\ to < r.limit
    /\ \A p \in Nat : a.limit <= p /\ p < a.span => p >= r.limit \/ (from <= p /\ p < to)

LEMMA RemainsAre ==
    ASSUME NEW b, NEW r \in Reservations, Shaped(r), NEW from \in Nat, NEW to \in Nat,
           r.start <= from, from < to, to <= r.limit
    PROVE  \/ \E a : /\ Pool!Remains(b, r, from, to) = {a} /\ Remnant(a, r, from, to)
                     /\ IF a = r THEN TRUE ELSE Sizes[a] = Sizes[r] - (to - from)
                     /\ to < r.limit => a.limit = r.limit /\ (a.start = r.start \/ a.start = to)
           \/ \E a, c : /\ Pool!Remains(b, r, from, to) = {a, c} /\ Remnant(a, r, from, to) /\ Remnant(c, r, from, to)
                        /\ a # r /\ c # r /\ a.span <= c.start /\ a.start < a.limit
                        /\ Sizes[a] + Sizes[c] = Sizes[r] - (to - from)
                        /\ c.limit = r.limit /\ c.start = to
<1> DEFINE above == [[r EXCEPT !.start = to] EXCEPT !.end = Pool!Max({r.end, to})]
           below == [[r EXCEPT !.end = Pool!Min({r.end, from})] EXCEPT !.limit = from]
           low == [start |-> r.start, end |-> Pool!Min({r.end, from}), limit |-> from, span |-> from]
<1>1. /\ r.start \in Nat /\ r.end \in Nat /\ r.limit \in Nat /\ r.span \in Nat /\ r.span <= Top /\ r.limit <= Top
      /\ Sizes[r] = r.limit - r.start /\ Top \in Nat
  BY ReservationIs, BoundsAre
<1>2. r.start <= r.end /\ r.end <= r.limit /\ r.limit <= r.span /\ r.limit <= r.end + 1
  BY DEF Shaped
<1>3. Pool!Max({r.end, to}) = (IF r.end >= to THEN r.end ELSE to) /\ Pool!Min({r.end, from}) = from
  <2>1. Pool!Min({r.end, from}) = IF r.end <= from THEN r.end ELSE from
    BY <1>1, LesserIs
  <2> QED
    BY <1>1, <1>2, <2>1, GreaterIs
<1>4. /\ above \in Reservations /\ above.start = to /\ above.end = (IF r.end >= to THEN r.end ELSE to)
      /\ above.limit = r.limit /\ above.span = r.span
  <2> DEFINE e == Pool!Max({r.end, to})
             a == [[r EXCEPT !.start = to] EXCEPT !.end = e]
  <2>1. e \in 0 .. Top /\ to \in 0 .. Top /\ e = (IF r.end >= to THEN r.end ELSE to)
    BY <1>1, <1>2, <1>3
  <2>2. above = a
    OBVIOUS
  <2> HIDE DEF e, above
  <2>3. a \in Reservations /\ a.start = to /\ a.end = e /\ a.limit = r.limit /\ a.span = r.span
    BY <2>1 DEF Reservations
  <2> HIDE DEF a
  <2> QED
    BY <2>1, <2>2, <2>3
<1>5. below \in Reservations /\ below.start = r.start /\ below.end = from /\ below.limit = from /\ below.span = r.span
  <2> DEFINE e == Pool!Min({r.end, from})
             a == [[r EXCEPT !.end = e] EXCEPT !.limit = from]
  <2>1. e \in 0 .. Top /\ from \in 0 .. Top /\ e = from
    BY <1>1, <1>2, <1>3
  <2>2. below = a
    OBVIOUS
  <2> HIDE DEF e, below
  <2>3. a \in Reservations /\ a.start = r.start /\ a.end = e /\ a.limit = from /\ a.span = r.span
    BY <2>1 DEF Reservations
  <2> HIDE DEF a
  <2> QED
    BY <2>1, <2>2, <2>3
<1>6. low \in Reservations /\ low.start = r.start /\ low.end = from /\ low.limit = from /\ low.span = from
  BY <1>1, <1>2, <1>3 DEF Reservations
<1>7. /\ Sizes[above] = r.limit - to /\ Sizes[below] = from - r.start /\ Sizes[low] = from - r.start
  BY <1>4, <1>5, <1>6, ReservationIs
<1> HIDE DEF above, below, low
<1>8. CASE from <= r.start
  <2>1. Pool!Remains(b, r, from, to) = {above}
    BY <1>8 DEF Pool!Remains, above
  <2>2. from = r.start
    BY <1>1, <1>8
  <2>3. above # r /\ Remnant(above, r, from, to)
    BY <1>1, <1>2, <1>4, <2>2 DEF Remnant, Within, Shaped
  <2> QED
    BY <1>1, <1>4, <1>7, <2>1, <2>2, <2>3
<1>9. CASE from > r.start /\ to >= r.limit
  <2>1. Pool!Remains(b, r, from, to) = {below}
    BY <1>1, <1>9 DEF Pool!Remains, below
  <2>2. below # r /\ Remnant(below, r, from, to) /\ to = r.limit
    BY <1>1, <1>2, <1>5, <1>9 DEF Remnant, Within, Shaped
  <2> QED
    BY <1>1, <1>5, <1>7, <1>9, <2>1, <2>2
<1>10. CASE from > r.start /\ to < r.limit /\ Pool!Cardinality(b.regions) < MaxReservations
  <2>1. Pool!Remains(b, r, from, to) = {low, above}
    <3>1. ~(from <= r.start) /\ ~(to >= r.limit) /\ Pool!Cardinality(b.regions) < MaxReservations
      BY <1>1, <1>10
    <3> QED
      BY <3>1, Zenon DEF Pool!Remains, Pool!Region, above, low
  <2>2. low # r /\ above # r /\ Remnant(low, r, from, to) /\ Remnant(above, r, from, to)
    BY <1>1, <1>2, <1>4, <1>6, <1>10 DEF Remnant, Within, Shaped
  <2>3. low.span <= above.start /\ low.start < low.limit /\ Sizes[low] + Sizes[above] = Sizes[r] - (to - from)
    BY <1>1, <1>4, <1>6, <1>7, <1>10
  <2> QED
    BY <1>4, <2>1, <2>2, <2>3
<1>11. CASE from > r.start /\ to < r.limit /\ ~(Pool!Cardinality(b.regions) < MaxReservations)
  <2>1. Pool!Remains(b, r, from, to) = {r}
    <3>1. ~(from <= r.start) /\ ~(to >= r.limit) /\ ~(Pool!Cardinality(b.regions) < MaxReservations)
      BY <1>1, <1>11
    <3> QED
      BY <3>1, Zenon DEF Pool!Remains
  <2>2. Remnant(r, r, from, to)
    BY <1>1, <1>2, <1>11 DEF Remnant, Within, Shaped
  <2> QED
    BY <2>1, <2>2
<1> QED
  BY <1>1, <1>8, <1>9, <1>10, <1>11

\* A part of a region's own mapping is forgotten (forget).
LEMMA ForgottenIs ==
    ASSUME NEW b, Balanced(b), NEW r \in b.regions, NEW from \in Nat, NEW to \in Nat,
           r.start <= from, from < to, to <= r.limit
    PROVE  LET f == Pool!Forgotten(b, r, from, to)
           IN  /\ Balanced(f) /\ f.claims = b.claims
               /\ \A s \in b.regions \ {r} : s \in f.regions
               /\ \A s \in f.regions : s \in b.regions \ {r} \/ Remnant(s, r, from, to)
               /\ to < r.limit => \E s \in f.regions : s.limit = r.limit /\ (s.start = r.start \/ s.start = to)
<1> DEFINE R == Pool!Remains(b, r, from, to)
           f == Pool!Forgotten(b, r, from, to)
           S == b.regions \ {r}
           n == IF R = {r} THEN b.reserved ELSE b.reserved - (to - from)
<1>1. LaidOut(b.regions) /\ r \in Reservations /\ Shaped(r) /\ b.reserved = Total(b.regions) /\ b.claims \in Tables
  BY DEF Balanced, LaidOut
<1>2. b \in [regions : SUBSET Reservations, claims : Tables, reserved : Nat]
  BY DEF Balanced
<1>3. f.regions = S \cup R /\ f.claims = b.claims /\ f.reserved = n
  BY <1>2 DEF Pool!Forgotten
<1>4. f.regions \subseteq Reservations /\ n \in Nat => f \in [regions : SUBSET Reservations, claims : Tables, reserved : Nat]
  BY <1>2, <1>3 DEF Pool!Forgotten
<1>5. LaidOut(S) /\ Total(b.regions) = Sizes[r] + Total(S) /\ Total(S) \in Nat /\ Sizes[r] \in Nat
  BY <1>1, OneLess, SizesAre
<1>6. CASE \E a : /\ R = {a} /\ Remnant(a, r, from, to)
                  /\ IF a = r THEN TRUE ELSE Sizes[a] = Sizes[r] - (to - from)
                  /\ to < r.limit => a.limit = r.limit /\ (a.start = r.start \/ a.start = to)
  <2>1. PICK a : /\ R = {a} /\ Remnant(a, r, from, to)
                 /\ IF a = r THEN TRUE ELSE Sizes[a] = Sizes[r] - (to - from)
                 /\ to < r.limit => a.limit = r.limit /\ (a.start = r.start \/ a.start = to)
    BY <1>6
  <2>2. Within(a, r) /\ a \in Reservations
    BY <2>1 DEF Remnant, Within
  <2>3. LaidOut(S \cup {a}) /\ (a \in S => Sizes[a] = 0) /\ Sizes[a] \in Nat
    BY <1>1, <2>2, WithinIsApart
  <2>4. Total(S \cup {a}) = Total(S) + Sizes[a]
    BY <1>5, <2>2, <2>3, OneMore
  <2>5. n = Total(S \cup {a}) /\ n \in Nat
    BY <1>1, <1>5, <2>1, <2>3, <2>4
  <2>6. f.regions = S \cup {a}
    BY <1>3, <2>1
  <2>7. S \cup {a} \subseteq Reservations
    BY <2>3 DEF LaidOut
  <2>8. Balanced(f)
    BY <1>3, <1>4, <2>3, <2>5, <2>6, <2>7 DEF Balanced
  <2> QED
    BY <1>3, <2>1, <2>6, <2>8
<1>7. CASE \E a, c : /\ R = {a, c} /\ Remnant(a, r, from, to) /\ Remnant(c, r, from, to)
                     /\ a # r /\ c # r /\ a.span <= c.start /\ a.start < a.limit
                     /\ Sizes[a] + Sizes[c] = Sizes[r] - (to - from)
                     /\ c.limit = r.limit /\ c.start = to
  <2>1. PICK a, c : /\ R = {a, c} /\ Remnant(a, r, from, to) /\ Remnant(c, r, from, to)
                    /\ a # r /\ c # r /\ a.span <= c.start /\ a.start < a.limit
                    /\ Sizes[a] + Sizes[c] = Sizes[r] - (to - from)
                    /\ c.limit = r.limit /\ c.start = to
    BY <1>7
  <2>2. Within(a, r) /\ a \in Reservations /\ Within(c, r) /\ c \in Reservations
    BY <2>1 DEF Remnant, Within
  <2>3. LaidOut(S \cup {a}) /\ (a \in S => Sizes[a] = 0) /\ Sizes[a] \in Nat
    BY <1>1, <2>2, WithinIsApart
  <2>4. LaidOut(S \cup {c}) /\ (c \in S => Sizes[c] = 0) /\ Sizes[c] \in Nat
    BY <1>1, <2>2, WithinIsApart
  <2>5. c # a
    BY <2>1, <2>2, ReservationIs DEF Within, Shaped
  <2>6. LaidOut((S \cup {a}) \cup {c})
    <3>1. IsFiniteSet((S \cup {a}) \cup {c})
      BY <2>3, FS_AddElement DEF LaidOut
    <3>2. Apart(a, c) /\ Apart(c, a)
      BY <2>1 DEF Apart
    <3> QED
      BY <2>3, <2>4, <3>1, <3>2 DEF LaidOut
  <2>7. Total((S \cup {a}) \cup {c}) = Total(S) + Sizes[a] + Sizes[c]
    <3>1. Total(S \cup {a}) = Total(S) + Sizes[a]
      BY <1>5, <2>2, <2>3, OneMore
    <3>2. c \in S \cup {a} => Sizes[c] = 0
      BY <2>4, <2>5
    <3>3. Total((S \cup {a}) \cup {c}) = Total(S \cup {a}) + Sizes[c]
      BY <2>2, <2>3, <2>4, <3>2, OneMore
    <3> QED
      BY <3>1, <3>3
  <2>8. f.regions = (S \cup {a}) \cup {c} /\ R # {r}
    BY <1>3, <2>1
  <2>9. n = Total((S \cup {a}) \cup {c}) /\ n \in Nat
    BY <1>1, <1>5, <2>1, <2>3, <2>4, <2>7, <2>8
  <2>10. (S \cup {a}) \cup {c} \subseteq Reservations
    BY <2>6 DEF LaidOut
  <2>11. Balanced(f)
    BY <1>3, <1>4, <2>6, <2>8, <2>9, <2>10 DEF Balanced
  <2> QED
    BY <1>3, <2>1, <2>8, <2>11
<1> QED
  BY <1>1, <1>6, <1>7, RemainsAre

\* What [from, to) has of claims is dropped, and nothing else (unclaim).
LEMMA UnclaimedIs ==
    ASSUME NEW claims \in Tables, NEW from \in Nat, NEW to \in Nat
    PROVE  LET u == Pool!Unclaimed(claims, from, to)
           IN  u \in Tables /\ \A p \in Nat : ClaimedIn(claims, p) /\ ~(from <= p /\ p < to) => ClaimedIn(u, p)
<1> DEFINE kept == {i \in DOMAIN claims : ~(from <= claims[i].start /\ to >= claims[i].end)}
           Cut(c) == IF from <= c.start /\ to > c.start THEN [c EXCEPT !.start = to]
                     ELSE IF from < c.end /\ to >= c.end THEN [c EXCEPT !.end = from]
                     ELSE c
           u == [i \in kept |-> Cut(claims[i])]
<1>1. PICK D \in SUBSET (1 .. MaxClaims) : claims \in [D -> Claims]
  BY DEF Tables
<1>2. Pool!Unclaimed(claims, from, to) = u
  BY DEF Pool!Unclaimed
<1>3. ASSUME NEW c \in Claims
      PROVE  /\ Cut(c) \in Claims
             /\ \A p \in Nat : c.start <= p /\ p < c.end /\ ~(from <= p /\ p < to) => Cut(c).start <= p /\ p < Cut(c).end
  <2>1. c.start \in Nat /\ c.end \in Nat
    BY DEF Claims
  <2>2. CASE from <= c.start /\ to > c.start
    <3>1. Cut(c) = [c EXCEPT !.start = to]
      BY <2>2
    <3>2. Cut(c) \in Claims /\ Cut(c).start = to /\ Cut(c).end = c.end
      BY <3>1 DEF Claims
    <3> QED
      BY <2>1, <2>2, <3>2
  <2>3. CASE ~(from <= c.start /\ to > c.start) /\ from < c.end /\ to >= c.end
    <3>1. Cut(c) = [c EXCEPT !.end = from]
      BY <2>3
    <3>2. Cut(c) \in Claims /\ Cut(c).start = c.start /\ Cut(c).end = from
      BY <3>1 DEF Claims
    <3> QED
      BY <2>1, <2>3, <3>2
  <2> QED
    BY <2>2, <2>3
<1> HIDE DEF Cut
<1>4. u \in [kept -> Claims] /\ kept \in SUBSET (1 .. MaxClaims)
  BY <1>1, <1>3
<1>5. ASSUME NEW p \in Nat, ClaimedIn(claims, p), ~(from <= p /\ p < to) PROVE ClaimedIn(u, p)
  <2>1. PICK i \in DOMAIN claims : claims[i].start <= p /\ p < claims[i].end
    BY <1>5 DEF ClaimedIn
  <2>2. claims[i] \in Claims
    BY <1>1, <2>1
  <2>3. i \in kept
    BY <1>5, <2>1, <2>2 DEF Claims
  <2>4. u[i] = Cut(claims[i]) /\ i \in DOMAIN u
    BY <2>3
  <2>5. Cut(claims[i]).start <= p /\ p < Cut(claims[i]).end
    BY <1>3, <1>5, <2>1, <2>2
  <2> QED
    BY <2>4, <2>5 DEF ClaimedIn
<1>6. u \in Tables
  <2> HIDE DEF u, kept
  <2> QED
    BY <1>4 DEF Tables
<1> QED
  BY <1>2, <1>5, <1>6

-----------------------------------------------------------------------------
(* The pieces of a call.                                                       *)

\* A call starts in a region, in a claim, or in neither.
Anchored(anchor, from) == anchor = {} \/ \E a, c \in Nat : anchor = a .. c - 1 /\ a <= from /\ from < c

\* No border lies between s and q.
OnePiece(from, to, anchor, s, q) == \A x \in Pool!Borders(from, to, anchor) : ~(s < x /\ x <= q)

LEMMA MissingIs ==
    ASSUME NEW b, LaidOut(b.regions), NEW p \in Nat
    PROVE  p \in Pool!MissingPages(b) <=> \E r \in b.regions : r.limit <= p /\ p < r.span
<1>1. \A r \in b.regions : r.limit \in Nat /\ r.span \in Nat
  BY ReservationIs DEF LaidOut
<1>2. \A r \in b.regions : p \in Pool!Missing(r) <=> r.limit <= p /\ p < r.span
  BY <1>1 DEF Pool!Missing, Pool!Interval
<1> QED
  BY <1>2 DEF Pool!MissingPages

\* What a page is, in numbers.
LEMMA KindIs ==
    ASSUME LaidOut(budget.regions), NEW p \in Nat, NEW anchor
    PROVE  Pool!Kind(budget, p, anchor) =
             IF p \notin anchor /\ \E r \in budget.regions : r.limit <= p /\ p < r.span THEN "missing"
             ELSE IF \E r \in budget.regions : r.start <= p /\ p < r.end THEN "granted"
             ELSE IF \E r \in budget.regions : r.end <= p /\ p < r.limit THEN "guard"
             ELSE "outside"
<1>1. \A r \in budget.regions : r.start \in Nat /\ r.end \in Nat /\ r.limit \in Nat /\ r.span \in Nat
  BY ReservationIs DEF LaidOut
<1>2. (\E r \in budget.regions : p \in Pool!Interval(r.start, r.end)) <=> \E r \in budget.regions : r.start <= p /\ p < r.end
  BY <1>1 DEF Pool!Interval
<1>3. (\E r \in budget.regions : p \in Pool!Interval(r.end, r.limit)) <=> \E r \in budget.regions : r.end <= p /\ p < r.limit
  BY <1>1 DEF Pool!Interval
<1>4. p \in Pool!MissingPages(budget) <=> \E r \in budget.regions : r.limit <= p /\ p < r.span
  BY MissingIs
<1> QED
  BY <1>2, <1>3, <1>4, Zenon DEF Pool!Kind

\* The pages of a piece are of one kind.
LEMMA PieceIsOne ==
    ASSUME LaidOut(budget.regions), NEW from \in Nat, NEW to \in Nat, NEW anchor, Anchored(anchor, from),
           NEW s \in from .. to - 1, NEW q \in s .. to - 1, OnePiece(from, to, anchor, s, q)
    PROVE  Pool!Kind(budget, q, anchor) = Pool!Kind(budget, s, anchor)
<1>1. \A r \in budget.regions : r.start \in Nat /\ r.end \in Nat /\ r.limit \in Nat /\ r.span \in Nat
  BY NumbersOf
<1>2. ASSUME NEW r \in budget.regions, NEW x \in {r.start, r.end, r.limit} PROVE x <= q <=> x <= s
  <2>1. x \in Pool!Borders(from, to, anchor)
    BY DEF Pool!Borders
  <2> QED
    BY <1>1, <2>1 DEF OnePiece
<1>3. q \in anchor <=> s \in anchor
  <2>1. CASE anchor = {}
    BY <2>1
  <2>2. CASE anchor # {}
    <3>1. PICK a \in Nat, c \in Nat : anchor = a .. c - 1 /\ a <= from /\ from < c
      BY <2>2 DEF Anchored
    <3>2. ASSUME s < c, c <= q PROVE FALSE
      <4>1. c \in Pool!Interval(from, to) /\ c \notin anchor /\ c - 1 \in anchor
        BY <3>1, <3>2 DEF Pool!Interval
      <4>2. c \in Pool!Borders(from, to, anchor)
        <5>1. c \in {p \in Pool!Interval(from, to) : p \notin anchor /\ p - 1 \in anchor}
          BY <4>1
        <5> QED
          BY <5>1, Zenon DEF Pool!Borders
      <4> QED
        BY <3>2, <4>2 DEF OnePiece
    <3> QED
      BY <3>1, <3>2
  <2> QED
    BY <2>1, <2>2
<1>4. ASSUME NEW r \in budget.regions, s \notin anchor PROVE r.span <= q <=> r.span <= s
  <2> SUFFICES ASSUME s < r.span, r.span <= q PROVE FALSE
    BY <1>1
  <2>1. r.span \notin anchor
    <3>1. CASE anchor = {}
      BY <3>1
    <3>2. CASE anchor # {}
      <4>1. PICK a \in Nat, c \in Nat : anchor = a .. c - 1 /\ a <= from /\ from < c
        BY <3>2 DEF Anchored
      <4> QED
        BY <1>1, <1>4, <4>1
    <3> QED
      BY <3>1, <3>2
  <2>2. r.span \in Pool!Borders(from, to, anchor)
    BY <2>1 DEF Pool!Borders
  <2> QED
    BY <2>2 DEF OnePiece
<1>5. q \in Nat /\ s \in Nat
  OBVIOUS
<1>6. /\ (\E r \in budget.regions : r.start <= q /\ q < r.end) <=> (\E r \in budget.regions : r.start <= s /\ s < r.end)
      /\ (\E r \in budget.regions : r.end <= q /\ q < r.limit) <=> (\E r \in budget.regions : r.end <= s /\ s < r.limit)
  BY <1>1, <1>2, <1>5
<1>7. s \notin anchor => ((\E r \in budget.regions : r.limit <= q /\ q < r.span)
                           <=> (\E r \in budget.regions : r.limit <= s /\ s < r.span))
  BY <1>1, <1>2, <1>4, <1>5
<1> QED
  BY <1>3, <1>5, <1>6, <1>7, KindIs

-----------------------------------------------------------------------------
(* The pieces, one after the other.                                            *)

\* Where the piece that ends at p begins.
Before(from, to, anchor, p) == {x \in Pool!Borders(from, to, anchor) : from <= x /\ x < p}
Since(from, to, anchor, p) == Pool!Max(Before(from, to, anchor, p))

LEMMA BordersAre ==
    ASSUME LaidOut(budget.regions), NEW from \in Nat, NEW to \in Nat, NEW anchor
    PROVE  Pool!Borders(from, to, anchor) \subseteq Nat /\ from \in Pool!Borders(from, to, anchor)
<1>1. /\ UNION {{r.start, r.end, r.limit} : r \in budget.regions} \subseteq Nat
      /\ {r.span : r \in {s \in budget.regions : s.span \notin anchor}} \subseteq Nat
  <2>1. \A r \in budget.regions : {r.start, r.end, r.limit, r.span} \subseteq Nat
    BY ReservationIs DEF LaidOut
  <2> QED
    BY <2>1
<1>2. {p \in Pool!Interval(from, to) : p \notin anchor /\ p - 1 \in anchor} \subseteq Nat
  BY DEF Pool!Interval
<1> QED
  BY <1>1, <1>2 DEF Pool!Borders

LEMMA SinceIs ==
    ASSUME LaidOut(budget.regions), NEW from \in Nat, NEW to \in Nat, NEW anchor, NEW p \in from + 1 .. to
    PROVE  LET s == Since(from, to, anchor, p)
           IN  s \in from .. p - 1 /\ \A q \in s .. p - 1 : OnePiece(from, to, anchor, s, q)
<1> DEFINE B == Before(from, to, anchor, p)
           s == Since(from, to, anchor, p)
<1>1. Pool!Borders(from, to, anchor) \subseteq Nat /\ from \in Pool!Borders(from, to, anchor)
  BY BordersAre
<1>2. B \in SUBSET (0 .. p) /\ from \in B /\ B # {} /\ p \in Nat
  BY <1>1 DEF Before
<1>3. \E m \in B : \A k \in B : k <= m
  BY <1>2, GreatestExists
<1>4. s = CHOOSE x \in B : \A y \in B : x >= y
  BY DEF Since, Pool!Max
<1>5. PICK m \in B : \A k \in B : m >= k
  BY <1>2, <1>3
<1>6. s \in B /\ \A k \in B : s >= k
  BY <1>4, <1>5
<1>7. s \in from .. p - 1
  BY <1>1, <1>6 DEF Before
<1>8. ASSUME NEW q \in s .. p - 1, NEW x \in Pool!Borders(from, to, anchor), s < x, x <= q PROVE FALSE
  <2>1. x \in B
    BY <1>1, <1>7, <1>8 DEF Before
  <2> QED
    BY <1>1, <1>6, <1>7, <1>8, <2>1
<1> QED
  BY <1>7, <1>8 DEF OnePiece

\* The recursion of UnmappedPieces has a solution.
Piecewise(from, to, anchor, m, f) ==
    \A p \in from .. m :
        f[p] = IF p = from THEN budget
               ELSE Pool!Unmapped(f[Since(from, to, anchor, p)], Pool!Kind(budget, Since(from, to, anchor, p), anchor),
                                  Since(from, to, anchor, p), p)

LEMMA PiecewiseExists ==
    ASSUME LaidOut(budget.regions), NEW from \in Nat, NEW to \in Nat, NEW anchor, from <= to
    PROVE  \E f : Piecewise(from, to, anchor, to, f)
<1> DEFINE Begin(p) == Since(from, to, anchor, p)
           Done(f, p) == IF p = from THEN budget
                         ELSE Pool!Unmapped(f[Begin(p)], Pool!Kind(budget, Begin(p), anchor), Begin(p), p)
           N == {n \in Nat : from + n <= to => \E f : Piecewise(from, to, anchor, from + n, f)}
<1>1. 0 \in N
  <2> DEFINE f == [p \in {from} |-> budget]
  <2>1. Piecewise(from, to, anchor, from + 0, f)
    BY DEF Piecewise
  <2> QED
    BY <2>1
<1>2. ASSUME NEW n \in Nat, n \in N PROVE n + 1 \in N
  <2> SUFFICES ASSUME from + (n + 1) <= to PROVE \E f : Piecewise(from, to, anchor, from + (n + 1), f)
    OBVIOUS
  <2> DEFINE m == from + n
  <2>1. PICK f : Piecewise(from, to, anchor, m, f)
    BY <1>2
  <2> DEFINE g == [p \in from .. m + 1 |-> IF p = m + 1 THEN Done(f, m + 1) ELSE f[p]]
  <2>2. m \in Nat /\ from <= m /\ m + 1 <= to
    OBVIOUS
  <2>3. \A p \in from + 1 .. m + 1 : Begin(p) \in from .. p - 1
    BY <2>2, SinceIs
  <2>4. \A p \in from .. m : g[p] = f[p]
    BY <2>2
  <2>5. ASSUME NEW p \in from .. m + 1 PROVE g[p] = Done(g, p)
    <3> HIDE DEF m
    <3>1. CASE p = m + 1
      <4>1. Begin(p) \in from .. m /\ p # from
        BY <2>2, <2>3, <3>1
      <4>2. g[p] = Done(f, p)
        BY <3>1
      <4> HIDE DEF g
      <4>3. g[Begin(p)] = f[Begin(p)]
        BY <2>4, <4>1
      <4> QED
        BY <4>2, <4>3
    <3>2. CASE p \in from .. m /\ p # from
      <4>1. Begin(p) \in from .. m /\ g[p] = f[p]
        BY <2>2, <2>3, <2>4, <3>2
      <4>2. f[p] = Done(f, p)
        BY <2>1, <3>2, Zenon DEF Piecewise
      <4> HIDE DEF g
      <4>3. g[Begin(p)] = f[Begin(p)]
        BY <2>4, <4>1
      <4> QED
        BY <4>1, <4>2, <4>3
    <3>3. CASE p = from
      <4>1. g[p] = f[p] /\ from \in from .. m
        BY <2>2, <2>4, <3>3
      <4>2. f[from] = budget
        BY <2>1, <4>1, Zenon DEF Piecewise
      <4> QED
        BY <3>3, <4>1, <4>2
    <3> QED
      BY <2>2, <3>1, <3>2, <3>3
  <2>6. Piecewise(from, to, anchor, m + 1, g)
    <3> HIDE DEF g, m
    <3> QED
      BY <2>5, Zenon DEF Piecewise
  <2>7. m + 1 = from + (n + 1)
    OBVIOUS
  <2> QED
    BY <2>6, <2>7
<1>3. to - from \in Nat /\ from + (to - from) = to
  OBVIOUS
<1>4. Nat \subseteq N
  <2> HIDE DEF N
  <2> QED
    BY <1>1, <1>2, SetInduction
<1> QED
  BY <1>3, <1>4

LEMMA UnmappedPiecesAre ==
    ASSUME LaidOut(budget.regions), NEW from \in Nat, NEW to \in Nat, NEW anchor, from <= to
    PROVE  \E f : Piecewise(from, to, anchor, to, f) /\ f[to] = Pool!UnmappedPieces(from, to, anchor)
<1> DEFINE Begin(p) == Since(from, to, anchor, p)
           Value(f) == [p \in from .. to |->
              IF p = from THEN budget
              ELSE Pool!Unmapped(f[Begin(p)], Pool!Kind(budget, Begin(p), anchor), Begin(p), p)]
           f == CHOOSE f : f = Value(f)
<1>1. PICK g : Piecewise(from, to, anchor, to, g)
  BY PiecewiseExists
<1> DEFINE h == [p \in from .. to |-> g[p]]
<1>2. h = Value(h)
  <2>1. \A p \in from + 1 .. to : Begin(p) \in from .. to
    BY SinceIs
  <2>2. ASSUME NEW p \in from .. to PROVE h[p] = Value(h)[p]
    <3>1. CASE p = from
      BY <1>1, <3>1, Zenon DEF Piecewise
    <3>2. CASE p # from
      <4>1. Begin(p) \in from .. to
        BY <2>1, <3>2
      <4>2. h[p] = g[p] /\ h[Begin(p)] = g[Begin(p)]
        BY <4>1
      <4>3. g[p] = Pool!Unmapped(g[Begin(p)], Pool!Kind(budget, Begin(p), anchor), Begin(p), p)
        BY <1>1, <3>2, Zenon DEF Piecewise
      <4> HIDE DEF h
      <4> QED
        BY <3>2, <4>2, <4>3
    <3> QED
      BY <3>1, <3>2
  <2> QED
    BY <2>2
<1>3. f = Value(f)
  <2> HIDE DEF Value, h
  <2> QED
    BY <1>2
<1>4. Pool!UnmappedPieces(from, to, anchor) = f[to]
  BY DEF Pool!UnmappedPieces, Since, Before
<1>5. Piecewise(from, to, anchor, to, f)
  <2> HIDE DEF f
  <2> QED
    BY <1>3, Zenon DEF Piecewise
<1> QED
  BY <1>4, <1>5

-----------------------------------------------------------------------------
(* What unmapping leaves of the regions.                                       *)

\* The pages of [from, p) that a call gives back to the kernel.
GivenBack(from, p, anchor) == {q \in from .. p - 1 : Pool!Kind(budget, q, anchor) # "missing"}

\* A region of now comes from one of before: it has less of its own, and what it misses
\* now and did not miss before is given back.
Descends(r, o, gone) ==
    /\ o.start <= r.start /\ r.limit <= o.limit /\ r.span <= o.span
    /\ r.end >= o.end \/ r.end = r.limit
    /\ \A q \in Nat : r.limit <= q /\ q < r.span => q >= o.limit \/ q \in gone

\* What unmapping the pieces before p leaves in the budget.
Reached(b, from, p, anchor) ==
    LET gone == GivenBack(from, p, anchor)
    IN  /\ Balanced(b)
        /\ \A o \in budget.regions : o.limit > p =>
              \E r \in b.regions : r.limit = o.limit /\ (r.start <= o.start \/ r.start <= p)
        /\ \A r \in b.regions : \E o \in budget.regions : Descends(r, o, gone)
        /\ \A r \in b.regions : \A q \in gone : ~(r.end <= q /\ q < r.limit)
        /\ \A q \in Nat \ gone : ClaimedIn(budget.claims, q) => ClaimedIn(b.claims, q)

LEMMA ReachedAtFirst ==
    ASSUME Balanced(budget), NEW from \in Nat, NEW anchor
    PROVE  Reached(budget, from, from, anchor)
<1>1. GivenBack(from, from, anchor) = {}
  BY DEF GivenBack
<1>2. \A r \in budget.regions : r.start \in Nat /\ r.end \in Nat /\ r.limit \in Nat /\ r.span \in Nat
  BY NumbersOf DEF Balanced
<1>3. \A r \in budget.regions : Descends(r, r, {})
  BY <1>2 DEF Descends
<1>4. \A o \in budget.regions : o.start <= o.start
  BY <1>2
<1> QED
  BY <1>1, <1>3, <1>4 DEF Reached

\* A piece that is not the guest's own: nothing changes, or its claims are gone.
LEMMA ReachesBesideRegions ==
    ASSUME Balanced(budget), NEW from \in Nat, NEW s \in Nat, NEW p \in Nat, from <= s, s < p, NEW anchor,
           NEW b, Reached(b, from, s, anchor), NEW c, Balanced(c), c.regions = b.regions,
           GivenBack(from, s, anchor) \subseteq GivenBack(from, p, anchor),
           \A q \in GivenBack(from, p, anchor) \ GivenBack(from, s, anchor) :
               \A r \in budget.regions : ~(r.end <= q /\ q < r.limit),
           \A q \in Nat \ GivenBack(from, p, anchor) : ClaimedIn(b.claims, q) => ClaimedIn(c.claims, q)
    PROVE  Reached(c, from, p, anchor)
<1> DEFINE gone == GivenBack(from, s, anchor)
           now == GivenBack(from, p, anchor)
<1>1. \A r \in budget.regions : r.start \in Nat /\ r.end \in Nat /\ r.limit \in Nat /\ r.span \in Nat
  BY NumbersOf DEF Balanced
<1>2. \A r \in b.regions : r.start \in Nat /\ r.end \in Nat /\ r.limit \in Nat /\ r.span \in Nat
  BY NumbersOf DEF Reached, Balanced
<1>3. ASSUME NEW o \in budget.regions, o.limit > p
      PROVE  \E r \in c.regions : r.limit = o.limit /\ (r.start <= o.start \/ r.start <= p)
  <2>1. o.limit > s
    BY <1>1, <1>3
  <2>2. PICK r \in b.regions : r.limit = o.limit /\ (r.start <= o.start \/ r.start <= s)
    BY <2>1 DEF Reached
  <2>3. r.start <= o.start \/ r.start <= p
    BY <1>1, <1>2, <2>2
  <2> QED
    BY <2>2, <2>3
<1>4. ASSUME NEW r \in c.regions
      PROVE  /\ \E o \in budget.regions : Descends(r, o, now)
             /\ \A q \in now : ~(r.end <= q /\ q < r.limit)
  <2>1. PICK o \in budget.regions : Descends(r, o, gone)
    BY DEF Reached
  <2>2. Descends(r, o, now)
    BY <2>1 DEF Descends
  <2>3. ASSUME NEW q \in now, r.end <= q, q < r.limit PROVE FALSE
    <3>1. q \in Nat
      BY DEF GivenBack
    <3>2. q \notin gone
      BY <2>3 DEF Reached
    <3>3. ~(o.end <= q /\ q < o.limit)
      BY <3>2
    <3> QED
      BY <1>1, <1>2, <2>1, <2>3, <3>1, <3>3 DEF Descends
  <2> QED
    BY <2>2, <2>3
<1>5. \A q \in Nat \ now : ClaimedIn(budget.claims, q) => ClaimedIn(c.claims, q)
  BY DEF Reached
<1> QED
  BY <1>3, <1>4, <1>5 DEF Reached

\* A piece of a region's own: the region is still there, and what is left of it stays
\* clear of the piece.
LEMMA ReachesInRegions ==
    ASSUME Balanced(budget), NEW from \in Nat, NEW s \in Nat, NEW p \in Nat, from <= s, s < p, NEW anchor,
           NEW b, Reached(b, from, s, anchor), NEW o \in budget.regions, o.start <= s, p <= o.limit,
           GivenBack(from, p, anchor) = GivenBack(from, s, anchor) \cup (s .. p - 1)
    PROVE  Reached(Pool!Forgotten(b, CHOOSE r \in b.regions : s \in Pool!Own(r), s, p), from, p, anchor)
<1> DEFINE gone == GivenBack(from, s, anchor)
           now == GivenBack(from, p, anchor)
           r == CHOOSE r \in b.regions : s \in Pool!Own(r)
           f == Pool!Forgotten(b, r, s, p)
<1>1. \A d \in budget.regions : d.start \in Nat /\ d.end \in Nat /\ d.limit \in Nat /\ d.span \in Nat /\ Shaped(d)
  BY NumbersOf DEF Balanced
<1>2. /\ Balanced(b) /\ LaidOut(b.regions)
      /\ \A d \in b.regions : d \in Reservations /\ d.start \in Nat /\ d.end \in Nat /\ d.limit \in Nat /\ d.span \in Nat /\ Shaped(d)
  <2>1. Balanced(b) /\ LaidOut(b.regions)
    BY DEF Reached, Balanced
  <2> QED
    BY <2>1, NumbersOf
<1>3. PICK d \in b.regions : d.limit = o.limit /\ (d.start <= o.start \/ d.start <= s)
  <2>1. o.limit > s
    BY <1>1
  <2> QED
    BY <2>1 DEF Reached
<1>4. d.start <= s /\ p <= d.limit
  BY <1>1, <1>2, <1>3
<1>5. ASSUME NEW e \in b.regions, s \in Pool!Own(e) PROVE e = d
  <2>1. e.start <= s /\ s < e.limit
    BY <1>2, <1>5 DEF Pool!Own, Pool!Interval
  <2>2. Apart(e, d)
    BY <1>2 DEF LaidOut
  <2>3. s < d.limit
    BY <1>2, <1>4
  <2> QED
    BY <1>2, <1>4, <2>1, <2>2, <2>3 DEF Apart, Shaped
<1>6. s \in Pool!Own(d)
  BY <1>2, <1>4 DEF Pool!Own, Pool!Interval
<1>7. r = d
  BY <1>5, <1>6
<1> HIDE DEF r
<1>8. /\ Balanced(f) /\ f.claims = b.claims
      /\ \A e \in b.regions \ {r} : e \in f.regions
      /\ \A e \in f.regions : e \in b.regions \ {r} \/ Remnant(e, r, s, p)
      /\ p < r.limit => \E e \in f.regions : e.limit = r.limit /\ (e.start = r.start \/ e.start = p)
  BY <1>2, <1>4, <1>7, ForgottenIs
<1> HIDE DEF f
<1>9. \A e \in f.regions : e.start \in Nat /\ e.end \in Nat /\ e.limit \in Nat /\ e.span \in Nat /\ Shaped(e)
  BY <1>8, NumbersOf DEF Balanced
<1>10. ASSUME NEW a \in budget.regions, a.limit > p
       PROVE  \E e \in f.regions : e.limit = a.limit /\ (e.start <= a.start \/ e.start <= p)
  <2>1. a.limit > s
    BY <1>1, <1>10
  <2>2. PICK e \in b.regions : e.limit = a.limit /\ (e.start <= a.start \/ e.start <= s)
    BY <2>1 DEF Reached
  <2>3. CASE e # r
    <3>1. e.start <= a.start \/ e.start <= p
      BY <1>1, <1>2, <2>2
    <3> QED
      BY <1>8, <2>2, <2>3, <3>1
  <2>4. CASE e = r
    <3>1. PICK g \in f.regions : g.limit = r.limit /\ (g.start = r.start \/ g.start = p)
      BY <1>8, <1>10, <2>2, <2>4
    <3>2. g.start <= p
      BY <1>2, <1>4, <1>7, <3>1
    <3> QED
      BY <2>2, <2>4, <3>1, <3>2
  <2> QED
    BY <2>3, <2>4
<1>11. ASSUME NEW e \in f.regions
       PROVE  /\ \E a \in budget.regions : Descends(e, a, now)
              /\ \A q \in now : ~(e.end <= q /\ q < e.limit)
  <2>1. CASE e \in b.regions \ {r}
    <3>1. PICK a \in budget.regions : Descends(e, a, gone)
      BY <2>1 DEF Reached
    <3>2. Descends(e, a, now)
      BY <3>1 DEF Descends
    <3>3. Apart(e, r) /\ e # r
      BY <1>2, <1>7, <2>1 DEF LaidOut
    <3>4. ASSUME NEW q \in s .. p - 1, e.end <= q, q < e.limit PROVE FALSE
      BY <1>2, <1>4, <1>7, <2>1, <3>3, <3>4 DEF Apart, Shaped
    <3>5. \A q \in gone : ~(e.end <= q /\ q < e.limit)
      BY <2>1 DEF Reached
    <3> QED
      BY <3>2, <3>4, <3>5
  <2>2. CASE Remnant(e, r, s, p)
    <3>1. PICK a \in budget.regions : Descends(r, a, gone)
      BY <1>7 DEF Reached
    <3>2. r.start \in Nat /\ r.end \in Nat /\ r.limit \in Nat /\ r.span \in Nat /\ Shaped(r)
      BY <1>2, <1>7
    <3>3. e.end >= a.end \/ e.end = e.limit
      BY <1>1, <1>9, <2>2, <3>1, <3>2 DEF Descends, Remnant, Within, Shaped
    <3>4. ASSUME NEW q \in Nat, e.limit <= q, q < e.span PROVE q >= a.limit \/ q \in now
      <4>1. q >= r.limit \/ (s <= q /\ q < p)
        BY <2>2, <3>4 DEF Remnant
      <4>2. CASE s <= q /\ q < p
        BY <4>2
      <4>3. CASE q >= r.limit
        <5>1. q < r.span
          BY <1>9, <2>2, <3>2, <3>4 DEF Remnant, Within
        <5> QED
          BY <3>1, <4>3, <5>1 DEF Descends
      <4> QED
        BY <4>1, <4>2, <4>3
    <3>5. a.start <= e.start /\ e.limit <= a.limit /\ e.span <= a.span
      BY <1>1, <1>9, <2>2, <3>1, <3>2 DEF Descends, Remnant, Within
    <3>6. Descends(e, a, now)
      <4> HIDE DEF now
      <4> QED
        BY <3>3, <3>4, <3>5 DEF Descends
    <3>7. ASSUME NEW q \in now, e.end <= q, q < e.limit PROVE FALSE
      <4>1. q \in Nat
        BY DEF GivenBack
      <4>2. r.end <= q /\ q < r.limit
        BY <1>9, <2>2, <3>2, <3>7, <4>1 DEF Remnant, Within, Shaped
      <4>3. q \notin gone
        BY <1>7, <4>2 DEF Reached
      <4>4. q \in s .. p - 1
        BY <4>3
      <4> QED
        BY <1>9, <2>2, <3>2, <3>7, <4>1, <4>4 DEF Remnant, Within, Shaped
    <3> QED
      BY <3>6, <3>7
  <2> QED
    BY <1>8, <2>1, <2>2
<1>12. \A q \in Nat \ now : ClaimedIn(budget.claims, q) => ClaimedIn(f.claims, q)
  BY <1>8 DEF Reached
<1>13. Reached(f, from, p, anchor)
  BY <1>8, <1>10, <1>11, <1>12 DEF Reached
<1> QED
  BY <1>13 DEF f, r

LEMMA PieceReaches ==
    ASSUME Balanced(budget), NEW from \in Nat, NEW to \in Nat, NEW anchor, Anchored(anchor, from),
           NEW p \in from + 1 .. to, NEW s, s = Since(from, to, anchor, p),
           NEW b, Reached(b, from, s, anchor)
    PROVE  Reached(Pool!Unmapped(b, Pool!Kind(budget, s, anchor), s, p), from, p, anchor)
<1> DEFINE kind == Pool!Kind(budget, s, anchor)
           gone == GivenBack(from, s, anchor)
           now == GivenBack(from, p, anchor)
<1>1. LaidOut(budget.regions) /\ s \in from .. p - 1 /\ \A q \in s .. p - 1 : OnePiece(from, to, anchor, s, q)
  BY SinceIs DEF Balanced
<1>2. s \in Nat /\ p \in Nat /\ from <= s /\ s < p /\ s \in from .. to - 1
  BY <1>1
<1>3. ASSUME NEW q \in s .. p - 1 PROVE Pool!Kind(budget, q, anchor) = kind
  BY <1>1, <1>2, PieceIsOne
<1>4. now = IF kind = "missing" THEN gone ELSE gone \cup (s .. p - 1)
  <2> HIDE DEF kind
  <2> QED
    BY <1>2, <1>3 DEF GivenBack
<1>5. kind = IF s \notin anchor /\ \E r \in budget.regions : r.limit <= s /\ s < r.span THEN "missing"
             ELSE IF \E r \in budget.regions : r.start <= s /\ s < r.end THEN "granted"
             ELSE IF \E r \in budget.regions : r.end <= s /\ s < r.limit THEN "guard"
             ELSE "outside"
  BY <1>1, <1>2, KindIs
<1>6. kind \in {"missing", "outside", "granted", "guard"}
  BY <1>5
<1>7. CASE kind = "missing"
  <2>1. Pool!Unmapped(b, kind, s, p) = b
    BY <1>7 DEF Pool!Unmapped
  <2>2. Balanced(b) /\ \A q \in Nat \ now : ClaimedIn(b.claims, q) => ClaimedIn(b.claims, q)
    BY DEF Reached
  <2>3. now = gone
    BY <1>4, <1>7
  <2> HIDE DEF now, gone, kind
  <2>4. Reached(b, from, p, anchor)
    BY <1>2, <2>2, <2>3, ReachesBesideRegions DEF now, gone
  <2> QED
    BY <2>1, <2>4 DEF kind
<1>8. CASE kind = "outside"
  <2> DEFINE c == [b EXCEPT !.claims = Pool!Unclaimed(b.claims, s, p)]
  <2>1. Pool!Unmapped(b, kind, s, p) = c
    BY <1>8 DEF Pool!Unmapped
  <2>2. Balanced(b) /\ b \in [regions : SUBSET Reservations, claims : Tables, reserved : Nat]
    BY DEF Reached, Balanced
  <2>3. /\ Pool!Unclaimed(b.claims, s, p) \in Tables
        /\ \A q \in Nat : ClaimedIn(b.claims, q) /\ ~(s <= q /\ q < p) => ClaimedIn(Pool!Unclaimed(b.claims, s, p), q)
    BY <1>2, <2>2, UnclaimedIs
  <2>4. /\ c \in [regions : SUBSET Reservations, claims : Tables, reserved : Nat]
        /\ c.regions = b.regions /\ c.reserved = b.reserved /\ c.claims = Pool!Unclaimed(b.claims, s, p)
    BY <2>2, <2>3
  <2> HIDE DEF c
  <2>5. Balanced(c)
    BY <2>2, <2>4 DEF Balanced
  <2>6. now = gone \cup (s .. p - 1)
    BY <1>4, <1>8
  <2>7. \A q \in Nat \ now : ClaimedIn(b.claims, q) => ClaimedIn(c.claims, q)
    BY <1>2, <2>3, <2>4, <2>6
  <2>8. ASSUME NEW q \in now \ gone, NEW r \in budget.regions PROVE ~(r.end <= q /\ q < r.limit)
    <3>1. q \in s .. p - 1 /\ q \in Nat
      BY <1>2, <2>6
    <3>2. Pool!Kind(budget, q, anchor) = "outside"
      BY <1>3, <1>8, <3>1
    <3> QED
      BY <1>1, <3>1, <3>2, KindIs
  <2>9. gone \subseteq now
    BY <2>6
  <2> HIDE DEF now, gone, kind
  <2>10. Reached(c, from, p, anchor)
    BY <1>2, <2>4, <2>5, <2>7, <2>8, <2>9, ReachesBesideRegions DEF now, gone
  <2> QED
    BY <2>1, <2>10 DEF kind
<1>9. CASE kind \in {"granted", "guard"}
  <2>1. Pool!Unmapped(b, kind, s, p) = Pool!Forgotten(b, CHOOSE r \in b.regions : s \in Pool!Own(r), s, p)
    BY <1>9 DEF Pool!Unmapped
  <2>2. \A r \in budget.regions : /\ r.start \in Nat /\ r.end \in Nat /\ r.limit \in Nat /\ r.span \in Nat /\ Shaped(r)
    BY <1>1, NumbersOf
  <2>3. PICK o \in budget.regions : o.start <= s /\ s < o.limit
    <3>1. CASE \E r \in budget.regions : r.start <= s /\ s < r.end
      <4>1. PICK r \in budget.regions : r.start <= s /\ s < r.end
        BY <3>1
      <4> QED
        BY <1>2, <2>2, <4>1 DEF Shaped
    <3>2. CASE \E r \in budget.regions : r.end <= s /\ s < r.limit
      <4>1. PICK r \in budget.regions : r.end <= s /\ s < r.limit
        BY <3>2
      <4> QED
        BY <1>2, <2>2, <4>1 DEF Shaped
    <3> QED
      BY <1>5, <1>9, <3>1, <3>2
  <2>4. p <= o.limit
    <3> SUFFICES ASSUME o.limit < p PROVE FALSE
      BY <1>2, <2>2
    <3>1. o.limit \in Pool!Borders(from, to, anchor)
      BY DEF Pool!Borders
    <3>2. o.limit \in s .. p - 1
      BY <1>2, <2>2, <2>3
    <3> QED
      BY <1>1, <2>2, <2>3, <3>1, <3>2 DEF OnePiece
  <2>5. now = gone \cup (s .. p - 1)
    BY <1>4, <1>9
  <2> HIDE DEF kind
  <2>6. Reached(Pool!Forgotten(b, CHOOSE r \in b.regions : s \in Pool!Own(r), s, p), from, p, anchor)
    BY <1>2, <2>3, <2>4, <2>5, ReachesInRegions
  <2> QED
    BY <2>1, <2>6 DEF kind
<1> QED
  BY <1>6, <1>7, <1>8, <1>9

LEMMA UnmappedIsReached ==
    ASSUME Balanced(budget), NEW from \in Nat, NEW to \in Nat, NEW anchor, Anchored(anchor, from), from <= to
    PROVE  Reached(Pool!UnmappedPieces(from, to, anchor), from, to, anchor)
<1>1. LaidOut(budget.regions)
  BY DEF Balanced
<1>2. PICK f : Piecewise(from, to, anchor, to, f) /\ f[to] = Pool!UnmappedPieces(from, to, anchor)
  BY <1>1, UnmappedPiecesAre
<1> DEFINE N == {n \in Nat : \A p \in from .. from + n : p <= to => Reached(f[p], from, p, anchor)}
<1>3. f[from] = budget
  <2>1. from \in from .. to
    OBVIOUS
  <2> QED
    BY <1>2, <2>1, Zenon DEF Piecewise
<1>4. Reached(f[from], from, from, anchor)
  BY <1>3, ReachedAtFirst
<1>5. 0 \in N
  BY <1>4
<1>6. ASSUME NEW n \in Nat, n \in N PROVE n + 1 \in N
  <2> DEFINE p == from + (n + 1)
  <2> SUFFICES ASSUME p <= to PROVE Reached(f[p], from, p, anchor)
    <3>1. \A q \in from .. p : q = p \/ q \in from .. from + n
      OBVIOUS
    <3> HIDE DEF p
    <3> QED
      BY <1>6, <3>1 DEF p
  <2> DEFINE s == Since(from, to, anchor, p)
  <2>1. p \in from + 1 .. to /\ p \in from .. to /\ p # from
    OBVIOUS
  <2> HIDE DEF p
  <2>2. s \in from .. p - 1
    BY <1>1, <2>1, SinceIs
  <2>3. Reached(f[s], from, s, anchor)
    <3>1. s \in from .. from + n /\ s <= to
      BY <2>1, <2>2 DEF p
    <3> HIDE DEF s
    <3> QED
      BY <1>6, <3>1
  <2>4. f[p] = Pool!Unmapped(f[s], Pool!Kind(budget, s, anchor), s, p)
    BY <1>2, <2>1, Zenon DEF Piecewise
  <2> HIDE DEF s
  <2>5. Reached(Pool!Unmapped(f[s], Pool!Kind(budget, s, anchor), s, p), from, p, anchor)
    BY <2>1, <2>3, PieceReaches DEF s
  <2> QED
    BY <2>4, <2>5
<1>7. Nat \subseteq N
  <2> HIDE DEF N
  <2> QED
    BY <1>5, <1>6, SetInduction
<1>8. to - from \in Nat /\ to \in from .. from + (to - from) /\ to <= to
  OBVIOUS
<1>9. to - from \in N
  BY <1>7, <1>8
<1>10. Reached(f[to], from, to, anchor)
  BY <1>8, <1>9
<1> QED
  BY <1>2, <1>10

LEMMA AnchorsAre ==
    ASSUME Balanced(budget), NEW from \in Nat, NEW anchor \in Pool!Anchors(budget, from)
    PROVE  /\ Anchored(anchor, from)
           /\ \A q \in anchor : q \in Nat /\ (q \in Pool!MissingPages(budget) => ClaimedIn(budget.claims, q))
<1> DEFINE owner == {r \in budget.regions : from \in Pool!Own(r)}
           claims == {c \in Pool!Range(budget.claims) : from \in Pool!Interval(c.start, c.end)}
<1>1. LaidOut(budget.regions) /\ budget.claims \in Tables
  BY DEF Balanced
<1>2. CASE owner # {}
  <2>1. PICK r \in budget.regions : from \in Pool!Own(r) /\ anchor = Pool!Own(r)
    BY <1>2 DEF Pool!Anchors
  <2>2. r.start \in Nat /\ r.limit \in Nat /\ r.span \in Nat /\ Shaped(r)
    BY <1>1, NumbersOf
  <2>3. anchor = r.start .. r.limit - 1 /\ r.start <= from /\ from < r.limit
    BY <2>1, <2>2 DEF Pool!Own, Pool!Interval
  <2>4. ASSUME NEW q \in anchor PROVE q \in Nat /\ q \notin Pool!MissingPages(budget)
    <3>1. q \in Nat /\ r.start <= q /\ q < r.limit
      BY <2>2, <2>3
    <3>2. ASSUME NEW s \in budget.regions, s.limit <= q, q < s.span PROVE FALSE
      <4>1. s.start \in Nat /\ s.end \in Nat /\ s.limit \in Nat /\ s.span \in Nat /\ Shaped(s) /\ Apart(r, s) /\ r.end \in Nat
        BY <1>1, NumbersOf DEF LaidOut
      <4> QED
        BY <2>2, <3>1, <3>2, <4>1 DEF Apart, Shaped
    <3> QED
      BY <1>1, <3>1, <3>2, MissingIs
  <2> QED
    BY <2>2, <2>3, <2>4 DEF Anchored
<1>3. CASE owner = {} /\ claims # {}
  <2>1. PICK c \in Pool!Range(budget.claims) : from \in Pool!Interval(c.start, c.end) /\ anchor = Pool!Interval(c.start, c.end)
    BY <1>3 DEF Pool!Anchors
  <2>2. PICK D \in SUBSET (1 .. MaxClaims) : budget.claims \in [D -> Claims]
    BY <1>1 DEF Tables
  <2>3. PICK i \in DOMAIN budget.claims : c = budget.claims[i]
    BY <2>1 DEF Pool!Range
  <2>4. c.start \in Nat /\ c.end \in Nat
    BY <2>2, <2>3 DEF Claims
  <2>5. anchor = c.start .. c.end - 1 /\ c.start <= from /\ from < c.end
    BY <2>1, <2>4 DEF Pool!Interval
  <2>6. \A q \in anchor : q \in Nat /\ ClaimedIn(budget.claims, q)
    BY <2>3, <2>4, <2>5 DEF ClaimedIn
  <2> QED
    BY <2>4, <2>5, <2>6 DEF Anchored
<1>4. CASE owner = {} /\ claims = {}
  <2>1. anchor = {}
    BY <1>4 DEF Pool!Anchors
  <2> QED
    BY <2>1 DEF Anchored
<1> QED
  BY <1>2, <1>3, <1>4

LEMMA PoolCounts == ASSUME NEW S PROVE Pool!Cardinality(S) = Cardinality(S)
BY DEF Pool!Cardinality, Cardinality

\* The end of a call that unmaps (sweep).
LEMMA SweptIs ==
    ASSUME NEW b, Balanced(b), NEW order \in Pool!Orders(Pool!Gone(b))
    PROVE  LET w == Pool!Swept(b, order)
           IN  /\ Balanced(w) /\ w.regions = b.regions \ Pool!Gone(b)
               /\ \A r \in w.regions : r.start < r.limit
               /\ \A q \in Nat : (\A r \in Pool!Gone(b) : ~(r.limit <= q /\ q < r.span)) /\ ClaimedIn(b.claims, q)
                                   => ClaimedIn(w.claims, q)
<1> DEFINE G == Pool!Gone(b)
           n == Cardinality(G)
           Drop(t, k) == Pool!Unclaimed(t, order[k].limit, order[k].span)
           step == [k \in 1 .. n |-> [t \in Tables |-> Drop(t, k)]]
           Value(f) == [k \in 0 .. n |-> IF k = 0 THEN b.claims ELSE Drop(f[k - 1], k)]
           f == CHOOSE f : f = Value(f)
           w == [[b EXCEPT !.regions = @ \ G] EXCEPT !.claims = f[n]]
<1>1. LaidOut(b.regions) /\ b.claims \in Tables /\ b.reserved = Total(b.regions)
      /\ b \in [regions : SUBSET Reservations, claims : Tables, reserved : Nat]
  BY DEF Balanced
<1>2. \A r \in b.regions : /\ r \in Reservations /\ Shaped(r)
                           /\ r.start \in Nat /\ r.end \in Nat /\ r.limit \in Nat /\ r.span \in Nat
  BY <1>1, NumbersOf
<1>3. G \subseteq b.regions /\ IsFiniteSet(G) /\ n \in Nat
  <2>1. G \subseteq b.regions
    BY DEF Pool!Gone
  <2> QED
    BY <1>1, <2>1, FS_Subset, FS_CardinalityType DEF LaidOut
<1>4. Pool!Cardinality(G) = n
  BY PoolCounts
<1>5. \A k \in 1 .. n : order[k] \in G
  <2> HIDE DEF n, G
  <2> QED
    BY <1>4 DEF Pool!Orders, G
<1>6. Pool!Swept(b, order) = w
  BY <1>4 DEF Pool!Swept
<1>7. ASSUME NEW t \in Tables, NEW k \in 1 .. n
      PROVE  /\ Drop(t, k) \in Tables
             /\ \A q \in Nat : (\A r \in G : ~(r.limit <= q /\ q < r.span)) /\ ClaimedIn(t, q) => ClaimedIn(Drop(t, k), q)
  <2> HIDE DEF G, n
  <2>1. order[k] \in G /\ order[k] \in b.regions
    BY <1>3, <1>5
  <2>2. order[k].limit \in Nat /\ order[k].span \in Nat
    BY <1>2, <2>1
  <2> QED
    BY <2>1, <2>2, UnclaimedIs
<1>8. step \in [1 .. n -> [Tables -> Tables]]
  <2> HIDE DEF Drop, n
  <2> QED
    BY <1>7
<1>9. PICK g \in [0 .. n -> Tables] : Leads(b.claims, n, step, g)
  <2> HIDE DEF step, n
  <2> QED
    BY <1>1, <1>3, <1>8, StepsLead
<1>10. g = Value(g)
  <2>1. ASSUME NEW k \in 0 .. n PROVE g[k] = Value(g)[k]
    <3> HIDE DEF Drop, n
    <3>1. CASE k = 0
      BY <1>9, <3>1 DEF Leads
    <3>2. CASE k # 0
      <4>1. k \in 1 .. n /\ k - 1 \in 0 .. n
        BY <1>3, <3>2
      <4>2. g[k - 1] \in Tables
        BY <4>1
      <4>3. g[k] = step[k][g[k - 1]]
        BY <1>9, <4>1 DEF Leads
      <4> QED
        BY <3>2, <4>1, <4>2, <4>3
    <3> QED
      BY <3>1, <3>2
  <2> HIDE DEF Drop, n
  <2> QED
    BY <2>1
<1>11. f = Value(f)
  <2> HIDE DEF Value
  <2> QED
    BY <1>10
<1>12. f[0] = b.claims /\ \A k \in 1 .. n : f[k] = Drop(f[k - 1], k)
  <2> HIDE DEF f, Drop, n
  <2>1. \A k \in 0 .. n : f[k] = IF k = 0 THEN b.claims ELSE Drop(f[k - 1], k)
    BY <1>11
  <2> QED
    BY <1>3, <2>1
<1> DEFINE Rests(t) == /\ t \in Tables
                      /\ \A q \in Nat : (\A r \in G : ~(r.limit <= q /\ q < r.span)) /\ ClaimedIn(b.claims, q) => ClaimedIn(t, q)
           N == {k \in Nat : k <= n => Rests(f[k])}
<1>13. 0 \in N
  BY <1>1, <1>12
<1>14. ASSUME NEW k \in Nat, k \in N PROVE k + 1 \in N
  <2> SUFFICES ASSUME k + 1 <= n PROVE Rests(f[k + 1])
    OBVIOUS
  <2>1. Rests(f[k]) /\ k + 1 \in 1 .. n /\ (k + 1) - 1 = k
    BY <1>3, <1>14
  <2>2. f[k + 1] = Drop(f[k], k + 1)
    BY <1>12, <2>1
  <2> HIDE DEF f, Drop, G, n
  <2> QED
    BY <1>7, <2>1, <2>2
<1>15. Rests(f[n])
  <2> HIDE DEF f, n
  <2>1. Nat \subseteq N
    <3> HIDE DEF N
    <3> QED
      BY <1>13, <1>14, SetInduction
  <2> QED
    BY <1>3, <2>1
<1> HIDE DEF f
<1>16. w.regions = b.regions \ G /\ w.claims = f[n] /\ w.reserved = b.reserved
       /\ w \in [regions : SUBSET Reservations, claims : Tables, reserved : Nat]
  <2> HIDE DEF n, G
  <2> QED
    BY <1>1, <1>15
<1>17. LaidOut(b.regions \ G)
  <2>1. IsFiniteSet(b.regions \ G)
    BY <1>1, FS_Difference DEF LaidOut
  <2> QED
    BY <1>1, <2>1 DEF LaidOut
<1>18. Total(b.regions \ G) = Total(b.regions)
  <2>1. \A r \in G : Sizes[r] = 0
    BY <1>2, ReservationIs DEF Pool!Gone, Shaped
  <2>2. SumFunctionOnSet(Sizes, G) = 0
    BY <1>3, <2>1, SumOfZeros
  <2>3. \A r \in b.regions : Sizes[r] \in Nat
    BY <1>1, SizesAre
  <2>4. SumFunctionOnSet(Sizes, b.regions \ G) = SumFunctionOnSet(Sizes, b.regions) - SumFunctionOnSet(Sizes, G)
    <3> HIDE DEF G
    <3> QED
      BY <1>1, <1>3, <2>3, SumSubtracts DEF LaidOut
  <2>5. Total(b.regions) \in Nat
    BY <1>1, SizesAre
  <2> QED
    BY <2>2, <2>4, <2>5 DEF Total
<1>19. Balanced(w)
  <2> HIDE DEF w, G
  <2> QED
    BY <1>1, <1>16, <1>17, <1>18 DEF Balanced
<1>20. \A r \in b.regions \ G : r.start < r.limit
  BY <1>2 DEF Pool!Gone
<1> HIDE DEF w
<1> QED
  BY <1>6, <1>15, <1>16, <1>19, <1>20

-----------------------------------------------------------------------------
(* A mapping of the guest is claimed.                                          *)

MissingAt(b, p) == \E r \in b.regions : r.limit <= p /\ p < r.span

LEMMA ClaimedIs ==
    ASSUME NEW b, Balanced(b), \A r \in b.regions : r.start < r.limit,
           NEW from \in Nat, NEW to \in Nat, from < to
    PROVE  LET c == Pool!Claimed(b, from, to)
           IN  /\ Balanced(c)
               /\ \A r \in c.regions : \E o \in b.regions :
                     r.start = o.start /\ r.end = o.end /\ r.limit = o.limit /\ r.span <= o.span
               /\ \A p \in Nat : ClaimedIn(b.claims, p) => ClaimedIn(c.claims, p)
               /\ \A p \in from .. to - 1 : MissingAt(c, p) => ClaimedIn(c.claims, p)
<1> DEFINE S == b.regions
           hit == {r \in S : to > r.limit /\ from < r.span}
           room == (1 .. MaxClaims) \ DOMAIN b.claims
           c == Pool!Claimed(b, from, to)
           Fine(d) == /\ Balanced(d)
                      /\ \A r \in d.regions : \E o \in S :
                            r.start = o.start /\ r.end = o.end /\ r.limit = o.limit /\ r.span <= o.span
                      /\ \A p \in Nat : ClaimedIn(b.claims, p) => ClaimedIn(d.claims, p)
                      /\ \A p \in from .. to - 1 : MissingAt(d, p) => ClaimedIn(d.claims, p)
<1>1. LaidOut(S) /\ b.claims \in Tables /\ b.reserved = Total(S)
      /\ b \in [regions : SUBSET Reservations, claims : Tables, reserved : Nat]
  BY DEF Balanced
<1>2. \A r \in S : /\ r \in Reservations /\ Shaped(r)
                   /\ r.start \in Nat /\ r.end \in Nat /\ r.limit \in Nat /\ r.span \in Nat
  BY <1>1, NumbersOf
<1>3. ASSUME NEW r \in S, r \notin hit, NEW p \in from .. to - 1 PROVE ~(r.limit <= p /\ p < r.span)
  BY <1>2, <1>3
<1>4. ASSUME hit = {} PROVE Fine(c)
  <2>1. c = b
    BY <1>4 DEF Pool!Claimed
  <2>2. \A r \in S : r.span <= r.span
    BY <1>2
  <2>3. \A p \in from .. to - 1 : ~MissingAt(b, p)
    BY <1>3, <1>4 DEF MissingAt
  <2>4. Fine(b)
    BY <2>2, <2>3
  <2> HIDE DEF c, Fine
  <2> QED
    BY <2>1, <2>4
<1>5. ASSUME hit # {}, room # {} PROVE Fine(c)
  <2> DEFINE k == Pool!Min(room)
             entry == [start |-> from, end |-> to]
             t == [i \in DOMAIN b.claims \cup {k} |-> IF i \in DOMAIN b.claims THEN b.claims[i] ELSE entry]
  <2>1. k \in room
    <3>1. room \in SUBSET Nat
      OBVIOUS
    <3>2. \E n \in room : \A m \in room : n <= m
      <4> HIDE DEF room
      <4> QED
        BY <1>5, <3>1, LeastExists
    <3> HIDE DEF room
    <3> QED
      BY <3>2 DEF Pool!Min
  <2>2. PICK D \in SUBSET (1 .. MaxClaims) : b.claims \in [D -> Claims]
    BY <1>1 DEF Tables
  <2>3. c = [b EXCEPT !.claims = t]
    BY <1>5 DEF Pool!Claimed
  <2>4. t \in [D \cup {k} -> Claims] /\ D \cup {k} \in SUBSET (1 .. MaxClaims)
    <3>1. entry \in Claims
      BY DEF Claims
    <3> HIDE DEF k, entry
    <3> QED
      BY <2>1, <2>2, <3>1
  <2>5. t \in Tables
    <3> HIDE DEF t, k
    <3> QED
      BY <2>4 DEF Tables
  <2>6. ASSUME NEW p \in Nat PROVE ClaimedIn(b.claims, p) \/ (from <= p /\ p < to) => ClaimedIn(t, p)
    <3>1. CASE ClaimedIn(b.claims, p)
      <4>1. PICK i \in DOMAIN b.claims : b.claims[i].start <= p /\ p < b.claims[i].end
        BY <3>1 DEF ClaimedIn
      <4>2. i \in DOMAIN t /\ t[i] = b.claims[i]
        BY <4>1
      <4> HIDE DEF t
      <4> QED
        BY <4>1, <4>2 DEF ClaimedIn
    <3>2. CASE from <= p /\ p < to
      <4>1. k \in DOMAIN t /\ t[k] = entry /\ entry.start = from /\ entry.end = to
        BY <2>1
      <4> HIDE DEF t, k, entry
      <4> QED
        BY <3>2, <4>1 DEF ClaimedIn
    <3> QED
      BY <3>1, <3>2
  <2> HIDE DEF t, k
  <2>7. c.regions = S /\ c.claims = t /\ c.reserved = b.reserved
        /\ c \in [regions : SUBSET Reservations, claims : Tables, reserved : Nat]
    BY <1>1, <2>3, <2>5
  <2> HIDE DEF c
  <2>8. Balanced(c)
    BY <1>1, <2>7 DEF Balanced
  <2>9. \A r \in S : r.span <= r.span
    BY <1>2
  <2> QED
    BY <1>2, <2>6, <2>7, <2>8, <2>9
<1>6. ASSUME hit # {}, room = {} PROVE Fine(c)
  <2> DEFINE Short(r) == [r EXCEPT !.span = Pool!Max({from, r.limit})]
             g == [r \in S |-> IF r \in hit THEN Short(r) ELSE r]
             T == {g[r] : r \in S}
  <2>1. c = [b EXCEPT !.regions = T]
    <3>1. c = [b EXCEPT !.regions = (@ \ hit) \cup {Short(r) : r \in hit}]
      BY <1>6, Zenon DEF Pool!Claimed
    <3>2. T = (S \ hit) \cup {Short(r) : r \in hit}
      <4> HIDE DEF Short
      <4> QED
        OBVIOUS
    <3> QED
      BY <3>1, <3>2
  <2>2. ASSUME NEW r \in S
        PROVE  /\ g[r] \in Reservations /\ Shaped(g[r])
               /\ g[r].start = r.start /\ g[r].end = r.end /\ g[r].limit = r.limit /\ g[r].span <= r.span
               /\ g[r].span \in Nat /\ Sizes[g[r]] = Sizes[r]
               /\ \A p \in from .. to - 1 : ~(g[r].limit <= p /\ p < g[r].span)
    <3>1. CASE r \notin hit
      <4>1. g[r] = r
        BY <3>1
      <4> HIDE DEF g
      <4> QED
        BY <1>2, <1>3, <3>1, <4>1
    <3>2. CASE r \in hit
      <4> DEFINE m == Pool!Max({from, r.limit})
      <4>1. g[r] = [r EXCEPT !.span = m]
        BY <3>2
      <4>2. m = IF from >= r.limit THEN from ELSE r.limit
        BY <1>2, GreaterIs
      <4>3. m \in Nat /\ m <= r.span /\ r.limit <= m /\ r.span <= Top /\ Top \in Nat
        BY <1>2, <3>2, <4>2, ReservationIs, BoundsAre DEF Shaped
      <4>4. m \in 0 .. Top
        <5> HIDE DEF m
        <5> QED
          BY <1>2, <4>3
      <4> HIDE DEF g, m
      <4>5. /\ g[r] \in Reservations /\ g[r].start = r.start /\ g[r].end = r.end /\ g[r].limit = r.limit /\ g[r].span = m
        BY <1>2, <4>1, <4>4 DEF Reservations
      <4>6. Shaped(g[r])
        BY <1>2, <4>3, <4>5 DEF Shaped
      <4>7. Sizes[g[r]] = Sizes[r]
        BY <1>2, <4>5, ReservationIs
      <4>8. \A p \in from .. to - 1 : ~(g[r].limit <= p /\ p < g[r].span)
        BY <1>2, <4>2, <4>5
      <4> QED
        BY <4>3, <4>5, <4>6, <4>7, <4>8
    <3> QED
      BY <3>1, <3>2
  <2> HIDE DEF g
  <2>3. ASSUME NEW r \in S, NEW s \in S PROVE Apart(g[r], g[s]) /\ (g[r] = g[s] => r = s)
    <3>1. Apart(r, s)
      BY <1>1 DEF LaidOut
    <3>2. r.start < r.limit /\ s.start < s.limit
      OBVIOUS
    <3>3. g[r].start = r.start /\ g[r].span <= r.span /\ g[s].start = s.start /\ g[s].span <= s.span
          /\ g[r].span \in Nat /\ g[s].span \in Nat
      BY <2>2
    <3>4. CASE r = s
      BY <3>4 DEF Apart
    <3>5. CASE r # s
      BY <1>2, <3>1, <3>2, <3>3, <3>5 DEF Apart, Shaped
    <3> QED
      BY <3>4, <3>5
  <2>4. IsFiniteSet(T) /\ SumFunctionOnSet(Sizes, T) = SumFunctionOnSet(Sizes, S)
    <3>1. \A r \in S : Sizes[r] \in Nat /\ Sizes[g[r]] = Sizes[r]
      BY <1>1, <2>2, SizesAre
    <3>2. \A r, s \in S : g[r] = g[s] => r = s
      BY <2>3
    <3>3. IsFiniteSet(S)
      BY <1>1 DEF LaidOut
    <3> HIDE DEF S
    <3> QED
      BY <3>1, <3>2, <3>3, SumOfImage
  <2>5. LaidOut(T)
    <3>1. T \subseteq Reservations /\ (\A r \in T : Shaped(r))
      BY <2>2
    <3>2. \A r, s \in T : Apart(r, s)
      BY <2>3
    <3> QED
      BY <2>4, <3>1, <3>2 DEF LaidOut
  <2>6. Total(T) = Total(S)
    BY <2>4 DEF Total
  <2>7. c.regions = T /\ c.claims = b.claims /\ c.reserved = b.reserved
        /\ c \in [regions : SUBSET Reservations, claims : Tables, reserved : Nat]
    <3>1. T \in SUBSET Reservations
      BY <2>5 DEF LaidOut
    <3> HIDE DEF T
    <3> QED
      BY <1>1, <2>1, <3>1
  <2> HIDE DEF c
  <2>8. Balanced(c)
    BY <1>1, <2>5, <2>6, <2>7 DEF Balanced
  <2>9. \A p \in from .. to - 1 : ~MissingAt(c, p)
    BY <2>2, <2>7 DEF MissingAt
  <2>10. \A r \in c.regions : \E o \in S :
            r.start = o.start /\ r.end = o.end /\ r.limit = o.limit /\ r.span <= o.span
    BY <2>2, <2>7
  <2> QED
    BY <2>7, <2>8, <2>9, <2>10
<1>7. Fine(c)
  <2> HIDE DEF c, Fine
  <2> QED
    BY <1>4, <1>5, <1>6
<1> QED
  BY <1>7

-----------------------------------------------------------------------------
(* The invariant of the budget.                                                *)

Usable(v) == v \in {"rw", "none"}

\* What a region has of its own is mapped for the guest, but for the holes that are
\* still counted; and what the guest has in a missing part is claimed.
PoolHolds(b, k, own, left) ==
    /\ Balanced(b) /\ \A r \in b.regions : r.start < r.limit
    /\ k \in [Pool!AllPages -> {"free", "rw", "none", "host"}] /\ own \subseteq Pool!AllPages
    /\ left \in SUBSET Nat
    /\ \A r \in b.regions : \A p \in Nat : r.start <= p /\ p < r.limit =>
          /\ p \notin left => Usable(k[p])
          /\ p >= r.end => k[p] = "none"
    /\ \A p \in Pool!AllPages : MissingAt(b, p) /\ Usable(k[p]) => ClaimedIn(b.claims, p)

PoolInv == PoolHolds(budget, kernel, believed, holes)

LEMMA PagesAre == \A p : p \in Pool!AllPages <=> p \in Nat /\ p < Top
BY BoundsAre DEF Pool!AllPages

LEMMA IntervalIs == ASSUME NEW from \in Nat, NEW to \in Nat, NEW p
                    PROVE  p \in Pool!Interval(from, to) <=> p \in Nat /\ from <= p /\ p < to
BY DEF Pool!Interval

LEMMA SetIs ==
    ASSUME NEW k, NEW S, NEW v
    PROVE  \A p \in Pool!AllPages : Pool!Set(k, S, v)[p] = IF p \in S THEN v ELSE k[p]
BY DEF Pool!Set

LEMMA SetType ==
    ASSUME NEW V, NEW k \in [Pool!AllPages -> V], NEW S, NEW v \in V
    PROVE  Pool!Set(k, S, v) \in [Pool!AllPages -> V]
BY DEF Pool!Set

\* What a region has of its own is of no other kind.
LEMMA OwnIsOwn ==
    ASSUME LaidOut(budget.regions), NEW r \in budget.regions, NEW p \in Nat, r.start <= p, p < r.limit, NEW anchor
    PROVE  p < Top /\ Pool!Kind(budget, p, anchor) = IF p < r.end THEN "granted" ELSE "guard"
<1>1. r \in Reservations /\ Shaped(r) /\ r.start \in Nat /\ r.end \in Nat /\ r.limit \in Nat /\ r.span \in Nat
  BY NumbersOf
<1>2. r.limit <= Top /\ Top \in Nat
  BY <1>1, ReservationIs, BoundsAre
<1>3. ASSUME NEW s \in budget.regions, s.start <= p, p < s.span PROVE s = r
  <2>1. Shaped(s) /\ s.start \in Nat /\ s.end \in Nat /\ s.limit \in Nat /\ s.span \in Nat
    BY NumbersOf
  <2>2. Apart(r, s)
    BY DEF LaidOut
  <2> QED
    BY <1>1, <1>3, <2>1, <2>2 DEF Apart, Shaped
<1>4. ASSUME NEW s \in budget.regions PROVE /\ s.limit <= p /\ p < s.span => FALSE
                                            /\ s.start <= p /\ p < s.end => s = r
                                            /\ s.end <= p /\ p < s.limit => s = r
  <2>1. Shaped(s) /\ s.start \in Nat /\ s.end \in Nat /\ s.limit \in Nat /\ s.span \in Nat
    BY NumbersOf
  <2> QED
    BY <1>1, <1>3, <2>1 DEF Shaped
<1>5. CASE p < r.end
  BY <1>1, <1>2, <1>4, <1>5, KindIs
<1>6. CASE ~(p < r.end)
  <2>1. r.end <= p /\ ~\E s \in budget.regions : s.start <= p /\ p < s.end
    BY <1>1, <1>4, <1>6
  <2> QED
    BY <1>1, <1>2, <1>4, <1>6, <2>1, KindIs
<1> QED
  BY <1>5, <1>6

\* The guest maps a range with nothing of a guard in it.
LEMMA MappingHolds ==
    ASSUME PoolInv, NEW from \in Nat, NEW to \in Nat, from < to, to <= Top,
           \A r \in budget.regions : \A p \in from .. to - 1 : ~(r.end <= p /\ p < r.limit),
           NEW own, own \subseteq believed \cup (from .. to - 1),
           NEW b, b = Pool!Claimed(budget, from, to)
    PROVE  PoolHolds(b, Pool!Set(kernel, Pool!Interval(from, to), "rw"), own, holes)
<1> DEFINE k == Pool!Set(kernel, Pool!Interval(from, to), "rw")
<1>0. PoolHolds(budget, kernel, believed, holes)
  BY DEF PoolInv
<1>1. /\ Balanced(budget) /\ \A r \in budget.regions : r.start < r.limit
      /\ kernel \in [Pool!AllPages -> {"free", "rw", "none", "host"}] /\ believed \subseteq Pool!AllPages
      /\ holes \in SUBSET Nat
  BY <1>0 DEF PoolHolds
<1>2. /\ Balanced(b)
      /\ \A r \in b.regions : \E o \in budget.regions :
            r.start = o.start /\ r.end = o.end /\ r.limit = o.limit /\ r.span <= o.span
      /\ \A p \in Nat : ClaimedIn(budget.claims, p) => ClaimedIn(b.claims, p)
      /\ \A p \in from .. to - 1 : MissingAt(b, p) => ClaimedIn(b.claims, p)
  BY <1>1, ClaimedIs
<1>4. k \in [Pool!AllPages -> {"free", "rw", "none", "host"}]
  BY <1>1, SetType
<1>5. \A p \in Pool!AllPages : k[p] = IF from <= p /\ p < to THEN "rw" ELSE kernel[p]
  BY SetIs, IntervalIs, PagesAre
<1>6. LaidOut(b.regions) /\ LaidOut(budget.regions)
  BY <1>1, <1>2 DEF Balanced
<1>7. /\ \A r \in b.regions : r.start \in Nat /\ r.end \in Nat /\ r.limit \in Nat /\ r.span \in Nat
      /\ \A r \in budget.regions : r.start \in Nat /\ r.end \in Nat /\ r.limit \in Nat /\ r.span \in Nat
  BY <1>6, NumbersOf
<1> HIDE DEF k
<1>8. own \subseteq Pool!AllPages
  BY <1>1, PagesAre, BoundsAre
<1>9. ASSUME NEW r \in b.regions, NEW p \in Nat, r.start <= p, p < r.limit
      PROVE  (p \notin holes => Usable(k[p])) /\ (p >= r.end => k[p] = "none")
  <2>1. PICK o \in budget.regions : r.start = o.start /\ r.end = o.end /\ r.limit = o.limit
    BY <1>2
  <2>2. p \in Pool!AllPages
    BY <1>6, <1>9, <2>1, OwnIsOwn, PagesAre
  <2>3. (p \notin holes => Usable(kernel[p])) /\ (p >= o.end => kernel[p] = "none")
    BY <1>0, <1>9, <2>1 DEF PoolHolds
  <2>4. CASE from <= p /\ p < to
    <3>1. ~(o.end <= p /\ p < o.limit)
      BY <2>4
    <3> QED
      BY <1>5, <1>7, <1>9, <2>1, <2>2, <2>4, <3>1 DEF Usable
  <2>5. CASE ~(from <= p /\ p < to)
    BY <1>5, <2>1, <2>2, <2>3, <2>5
  <2> QED
    BY <2>4, <2>5
<1>10. ASSUME NEW p \in Pool!AllPages, MissingAt(b, p), Usable(k[p]) PROVE ClaimedIn(b.claims, p)
  <2>1. p \in Nat
    BY PagesAre
  <2>2. CASE from <= p /\ p < to
    BY <1>2, <1>10, <2>1, <2>2
  <2>3. CASE ~(from <= p /\ p < to)
    <3>1. Usable(kernel[p])
      BY <1>5, <1>10, <2>3
    <3>2. PICK r \in b.regions : r.limit <= p /\ p < r.span
      BY <1>10 DEF MissingAt
    <3>3. PICK o \in budget.regions : r.limit = o.limit /\ r.span <= o.span
      BY <1>2
    <3>4. MissingAt(budget, p)
      BY <1>7, <2>1, <3>2, <3>3 DEF MissingAt
    <3>5. ClaimedIn(budget.claims, p)
      BY <1>0, <3>1, <3>4 DEF PoolHolds
    <3> QED
      BY <1>2, <2>1, <3>5
  <2> QED
    BY <2>2, <2>3
<1>12. \A r \in b.regions : r.start < r.limit
  BY <1>1, <1>2
<1>13. PoolHolds(b, k, own, holes)
  BY <1>1, <1>2, <1>4, <1>8, <1>9, <1>10, <1>12 DEF PoolHolds
<1> QED
  BY <1>13 DEF k

LEMMA MapAnywhereHolds == ASSUME PoolInv, NEW n \in 1 .. MaxMap, Pool!MapAnywhere(n) PROVE PoolInv'
<1>0. PoolHolds(budget, kernel, believed, holes) /\ n \in Nat /\ n > 0
  BY BoundsAre DEF PoolInv
<1>1. PICK from \in Pool!Places(kernel, n) :
        /\ budget' = Pool!Claimed(budget, from, from + n)
        /\ kernel' = Pool!Set(kernel, Pool!Interval(from, from + n), "rw")
        /\ believed' = believed \cup Pool!Interval(from, from + n)
  BY DEF Pool!MapAnywhere
<1>2. from \in Nat /\ from + n <= Top /\ \A p \in Pool!Interval(from, from + n) : kernel[p] = "free"
  BY PagesAre DEF Pool!Places, Pool!FreeRun
<1>3. ASSUME NEW r \in budget.regions, NEW p \in from .. (from + n) - 1, r.end <= p, p < r.limit PROVE FALSE
  <2>1. p \in Nat /\ kernel[p] = "free"
    BY <1>0, <1>2, IntervalIs
  <2>2. Balanced(budget)
    BY <1>0 DEF PoolHolds
  <2>3. r.start \in Nat /\ r.end \in Nat /\ r.limit \in Nat /\ Shaped(r)
    BY <2>2, NumbersOf DEF Balanced
  <2>4. r.start <= p /\ p >= r.end
    BY <1>3, <2>1, <2>3 DEF Shaped
  <2>5. kernel[p] = "none"
    BY <1>0, <1>3, <2>1, <2>4 DEF PoolHolds
  <2> QED
    BY <2>1, <2>5
<1>4. believed' \subseteq believed \cup (from .. (from + n) - 1)
  BY <1>1 DEF Pool!Interval
<1> DEFINE to == from + n
<1>5. to \in Nat /\ from < to /\ to <= Top
  BY <1>0, <1>2
<1>6. \A r \in budget.regions : \A p \in from .. to - 1 : ~(r.end <= p /\ p < r.limit)
  BY <1>3
<1>7. /\ budget' = Pool!Claimed(budget, from, to) /\ kernel' = Pool!Set(kernel, Pool!Interval(from, to), "rw")
      /\ believed' \subseteq believed \cup (from .. to - 1)
  BY <1>1, <1>4
<1> HIDE DEF to
<1>8. PoolHolds(budget', kernel', believed', holes)
  BY <1>2, <1>5, <1>6, <1>7, MappingHolds
<1>9. holes' = holes
  BY DEF Pool!MapAnywhere
<1> QED
  BY <1>8, <1>9 DEF PoolInv

LEMMA BelievedIs ==
    ASSUME PoolInv, NEW from \in 0 .. Top, NEW to \in 0 .. Top, Pool!Believed(from, to)
    PROVE  /\ from \in Nat /\ to \in Nat /\ from < to /\ to <= Top
           /\ \A p \in Nat : from <= p /\ p < to => p \in believed
<1>1. from \in Nat /\ to \in Nat /\ to <= Top /\ from < to
  BY BoundsAre DEF Pool!Believed
<1> QED
  BY <1>1, IntervalIs DEF Pool!Believed

LEMMA MapFixedHolds ==
    ASSUME PoolInv, NEW from \in 0 .. Top, NEW to \in 0 .. Top, Pool!MapFixed(from, to) PROVE PoolInv'
<1>1. /\ from \in Nat /\ to \in Nat /\ from < to /\ to <= Top
      /\ \A p \in Nat : from <= p /\ p < to => p \in believed
  BY BelievedIs DEF Pool!MapFixed
<1>2. PICK anchor \in Pool!Anchors(budget, from) : Pool!Kinds(budget, from, to, anchor) \cap {"guard", "missing"} = {}
  BY DEF Pool!MapFixed
<1>3. /\ budget' = Pool!Claimed(budget, from, to)
      /\ kernel' = Pool!Set(kernel, Pool!Interval(from, to), "rw")
      /\ holes' = holes /\ believed' = believed
  BY DEF Pool!MapFixed
<1>4. LaidOut(budget.regions)
  BY DEF PoolInv, PoolHolds, Balanced
<1>5. ASSUME NEW r \in budget.regions, NEW p \in from .. to - 1, r.end <= p, p < r.limit PROVE FALSE
  <2>1. r.start \in Nat /\ r.end \in Nat /\ r.limit \in Nat /\ Shaped(r)
    BY <1>4, NumbersOf
  <2>2. r.start <= p /\ p \in Nat /\ ~(p < r.end)
    BY <1>1, <1>5, <2>1 DEF Shaped
  <2>3. Pool!Kind(budget, p, anchor) = "guard"
    BY <1>4, <1>5, <2>2, OwnIsOwn
  <2>4. p \in Pool!Interval(from, to)
    BY DEF Pool!Interval
  <2> QED
    BY <1>2, <2>3, <2>4 DEF Pool!Kinds
<1>6. believed' \subseteq believed \cup (from .. to - 1)
  BY <1>3
<1>7. PoolHolds(budget', kernel', believed', holes)
  BY <1>1, <1>3, <1>5, <1>6, MappingHolds
<1> QED
  BY <1>3, <1>7 DEF PoolInv

LEMMA GivenBackIs ==
    ASSUME NEW from \in Nat, NEW to \in Nat, NEW anchor
    PROVE  Pool!PagesOf(from, to, anchor, {"granted", "guard", "outside"}) = GivenBack(from, to, anchor)
<1>1. ASSUME NEW p PROVE Pool!Kind(budget, p, anchor) \in {"granted", "guard", "outside"} <=> Pool!Kind(budget, p, anchor) # "missing"
  BY Zenon DEF Pool!Kind
<1> QED
  BY <1>1 DEF Pool!PagesOf, GivenBack, Pool!Interval

LEMMA UnmapHolds ==
    ASSUME PoolInv, NEW from \in 0 .. Top, NEW to \in 0 .. Top, Pool!Unmap(from, to) PROVE PoolInv'
<1>0. PoolHolds(budget, kernel, believed, holes)
  BY DEF PoolInv
<1>1. /\ from \in Nat /\ to \in Nat /\ from < to /\ to <= Top
      /\ \A p \in Nat : from <= p /\ p < to => p \in believed
  BY BelievedIs DEF Pool!Unmap
<1>2. PICK anchor \in Pool!Anchors(budget, from) :
        LET done == Pool!UnmappedPieces(from, to, anchor)
            gone == Pool!PagesOf(from, to, anchor, {"granted", "guard", "outside"})
        IN  /\ \E order \in Pool!Orders(Pool!Gone(done)) : budget' = Pool!Swept(done, order)
            /\ kernel' = Pool!Set(kernel, gone, "free")
            /\ holes' = holes \cup Pool!HolesLeft(budget', gone)
  BY DEF Pool!Unmap
<1> DEFINE done == Pool!UnmappedPieces(from, to, anchor)
           gone == GivenBack(from, to, anchor)
           b == budget'
           k == kernel'
           left == Pool!HolesLeft(b, gone)
<1>3. PICK order \in Pool!Orders(Pool!Gone(done)) : b = Pool!Swept(done, order)
  BY <1>2
<1>4. k = Pool!Set(kernel, gone, "free") /\ holes' = holes \cup left
  BY <1>1, <1>2, GivenBackIs
<1>5. believed' = believed \ Pool!Interval(from, to)
  BY DEF Pool!Unmap
<1>6. /\ Balanced(budget) /\ LaidOut(budget.regions)
      /\ kernel \in [Pool!AllPages -> {"free", "rw", "none", "host"}] /\ believed \subseteq Pool!AllPages
      /\ holes \in SUBSET Nat
  BY <1>0 DEF PoolHolds, Balanced
<1>7. Anchored(anchor, from)
  BY <1>1, <1>6, AnchorsAre
<1>8. Reached(done, from, to, anchor)
  BY <1>1, <1>6, <1>7, UnmappedIsReached
<1> HIDE DEF done
<1>9. /\ Balanced(done)
      /\ \A r \in done.regions : \E o \in budget.regions : Descends(r, o, gone)
      /\ \A r \in done.regions : \A q \in gone : ~(r.end <= q /\ q < r.limit)
      /\ \A q \in Nat \ gone : ClaimedIn(budget.claims, q) => ClaimedIn(done.claims, q)
  BY <1>8 DEF Reached
<1>10. /\ Balanced(b) /\ b.regions = done.regions \ Pool!Gone(done)
       /\ \A r \in b.regions : r.start < r.limit
       /\ \A q \in Nat : (\A r \in Pool!Gone(done) : ~(r.limit <= q /\ q < r.span)) /\ ClaimedIn(done.claims, q)
                           => ClaimedIn(b.claims, q)
  BY <1>3, <1>9, SweptIs
<1>12. gone \subseteq Nat /\ \A p \in gone : from <= p /\ p < to
  BY <1>1 DEF GivenBack
<1>13. k \in [Pool!AllPages -> {"free", "rw", "none", "host"}]
  BY <1>4, <1>6, SetType
<1>14. \A p \in Pool!AllPages : k[p] = IF p \in gone THEN "free" ELSE kernel[p]
  BY <1>4, SetIs
<1>15. /\ \A r \in budget.regions : Shaped(r) /\ r.start \in Nat /\ r.end \in Nat /\ r.limit \in Nat /\ r.span \in Nat
       /\ \A r \in done.regions : Shaped(r) /\ r.start \in Nat /\ r.end \in Nat /\ r.limit \in Nat /\ r.span \in Nat
       /\ LaidOut(done.regions)
  BY <1>6, <1>9, NumbersOf DEF Balanced
<1>16. left \subseteq Nat /\ \A p \in gone : (\E r \in b.regions : r.start <= p /\ p < r.limit) => p \in left
  <2>1. \A r \in b.regions : r.start \in Nat /\ r.limit \in Nat
    BY <1>10, <1>15
  <2>2. \A r \in b.regions : \A p \in gone : r.start <= p /\ p < r.limit => p \in Pool!Own(r)
    BY <1>12, <2>1 DEF Pool!Own, Pool!Interval
  <2> HIDE DEF gone
  <2> QED
    BY <1>12, <2>2 DEF Pool!HolesLeft
<1> HIDE DEF gone, left
<1>17. holes' \in SUBSET Nat /\ holes' = holes \cup left
  BY <1>4, <1>6, <1>16
<1>18. believed' \subseteq believed /\ \A p \in believed' : p \notin gone
  <2>1. \A p \in gone : p \in Pool!Interval(from, to)
    BY <1>1, <1>12, IntervalIs
  <2> QED
    BY <1>5, <2>1
<1>19. ASSUME NEW r \in b.regions, NEW p \in Nat, r.start <= p, p < r.limit
       PROVE  (p \notin holes' => Usable(k[p])) /\ (p >= r.end => k[p] = "none")
  <2>1. PICK o \in budget.regions : Descends(r, o, gone)
    BY <1>9, <1>10
  <2>2. r \in done.regions
    BY <1>10
  <2>3. o.start <= p /\ p < o.limit
    BY <1>15, <1>19, <2>1, <2>2 DEF Descends
  <2>4. p \in Pool!AllPages
    BY <1>6, <2>3, OwnIsOwn, PagesAre
  <2>5. (p \notin holes => Usable(kernel[p])) /\ (p >= o.end => kernel[p] = "none")
    BY <1>0, <2>3 DEF PoolHolds
  <2>6. CASE p \in gone
    <3>1. p \in left
      BY <1>16, <1>19, <2>6
    <3>2. ~(r.end <= p /\ p < r.limit)
      BY <1>9, <2>2, <2>6
    <3> QED
      BY <1>15, <1>17, <1>19, <2>2, <3>1, <3>2
  <2>7. CASE p \notin gone
    <3>1. k[p] = kernel[p]
      BY <1>14, <2>4, <2>7
    <3>2. p >= r.end => p >= o.end
      BY <1>15, <1>19, <2>1, <2>2 DEF Descends
    <3> QED
      BY <1>17, <2>5, <3>1, <3>2
  <2> QED
    BY <2>6, <2>7
<1>20. ASSUME NEW p \in Pool!AllPages, MissingAt(b, p), Usable(k[p]) PROVE ClaimedIn(b.claims, p)
  <2>1. p \in Nat
    BY PagesAre
  <2>2. p \notin gone /\ Usable(kernel[p])
    BY <1>14, <1>20 DEF Usable
  <2>3. PICK r \in b.regions : r.limit <= p /\ p < r.span
    BY <1>20 DEF MissingAt
  <2>4. PICK o \in budget.regions : Descends(r, o, gone)
    BY <1>9, <1>10
  <2>5. r \in done.regions /\ r \notin Pool!Gone(done) /\ r.start < r.limit
    BY <1>10
  <2>6. o.limit <= p /\ p < o.span
    BY <1>15, <2>1, <2>2, <2>3, <2>4, <2>5 DEF Descends
  <2>7. ClaimedIn(budget.claims, p)
    BY <1>0, <2>2, <2>6 DEF PoolHolds, MissingAt
  <2>8. ClaimedIn(done.claims, p)
    BY <1>9, <2>1, <2>2, <2>7
  <2>9. ASSUME NEW g \in Pool!Gone(done), g.limit <= p, p < g.span PROVE FALSE
    <3>1. g \in done.regions
      BY DEF Pool!Gone
    <3>2. Apart(g, r) /\ g # r
      BY <1>15, <2>5, <3>1 DEF LaidOut
    <3> QED
      BY <1>15, <2>1, <2>3, <2>5, <2>9, <3>1, <3>2 DEF Apart, Shaped
  <2> QED
    BY <1>10, <2>1, <2>8, <2>9
<1>22. PoolHolds(budget', kernel', believed', holes')
  BY <1>6, <1>10, <1>13, <1>17, <1>18, <1>19, <1>20 DEF PoolHolds
<1> QED
  BY <1>22 DEF PoolInv

LEMMA ProtectHolds ==
    ASSUME PoolInv, NEW from \in 0 .. Top, NEW to \in 0 .. Top, NEW value \in Pool!Guest, Pool!Protect(from, to, value)
    PROVE  PoolInv'
<1>0. PoolHolds(budget, kernel, believed, holes)
  BY DEF PoolInv
<1>1. PICK anchor \in Pool!Anchors(budget, from) :
        kernel' = Pool!Set(kernel, {p \in Pool!PagesOf(from, to, anchor, {"granted", "outside"}) : kernel[p] # "free"}, value)
  BY DEF Pool!Protect
<1>2. budget' = budget /\ believed' = believed /\ holes' = holes
  BY DEF Pool!Protect
<1>3. /\ Balanced(budget) /\ LaidOut(budget.regions) /\ from \in Nat
      /\ kernel \in [Pool!AllPages -> {"free", "rw", "none", "host"}]
  BY <1>0, BoundsAre DEF PoolHolds, Balanced
<1> DEFINE set == {p \in Pool!PagesOf(from, to, anchor, {"granted", "outside"}) : kernel[p] # "free"}
<1>4. \A p \in set : Pool!Kind(budget, p, anchor) \in {"granted", "outside"}
  BY DEF Pool!PagesOf
<1>5. value \in {"rw", "none"}
  BY DEF Pool!Guest
<1> HIDE DEF set
<1>6. kernel' = Pool!Set(kernel, set, value)
  BY <1>1 DEF set
<1>7. kernel' \in [Pool!AllPages -> {"free", "rw", "none", "host"}]
  BY <1>3, <1>5, <1>6, SetType
<1>8. \A p \in Pool!AllPages : kernel'[p] = IF p \in set THEN value ELSE kernel[p]
  BY <1>6, SetIs
<1>9. ASSUME NEW r \in budget.regions, NEW p \in Nat, r.start <= p, p < r.limit
      PROVE  (p \notin holes => Usable(kernel'[p])) /\ (p >= r.end => kernel'[p] = "none")
  <2>1. p \in Pool!AllPages /\ Pool!Kind(budget, p, anchor) = IF p < r.end THEN "granted" ELSE "guard"
    BY <1>3, <1>9, OwnIsOwn, PagesAre
  <2>2. (p \notin holes => Usable(kernel[p])) /\ (p >= r.end => kernel[p] = "none")
    BY <1>0, <1>9 DEF PoolHolds
  <2>3. p \in set => p < r.end
    BY <1>4, <2>1
  <2>4. r.end \in Nat
    BY <1>3, NumbersOf
  <2> QED
    BY <1>5, <1>8, <2>1, <2>2, <2>3, <2>4 DEF Usable
<1>10. ASSUME NEW p \in Pool!AllPages, MissingAt(budget, p), Usable(kernel'[p]) PROVE ClaimedIn(budget.claims, p)
  <2>1. p \in Nat /\ p \in Pool!MissingPages(budget)
    BY <1>3, <1>10, PagesAre, MissingIs DEF MissingAt
  <2>2. CASE p \in set
    <3>1. Pool!Kind(budget, p, anchor) # "missing"
      BY <1>4, <2>2
    <3>2. p \in anchor
      BY <2>1, <3>1 DEF Pool!Kind
    <3> QED
      BY <1>3, <2>1, <3>2, AnchorsAre
  <2>3. CASE p \notin set
    BY <1>0, <1>8, <1>10, <2>3 DEF PoolHolds
  <2> QED
    BY <2>2, <2>3
<1>12. PoolHolds(budget, kernel', believed, holes)
  BY <1>0, <1>7, <1>9, <1>10 DEF PoolHolds
<1> QED
  BY <1>2, <1>12 DEF PoolInv

LEMMA HostMapsHolds == ASSUME PoolInv, NEW q \in Pool!AllPages, Pool!HostMaps(q) PROVE PoolInv'
<1>0. PoolHolds(budget, kernel, believed, holes)
  BY DEF PoolInv
<1>1. budget' = budget /\ believed' = believed /\ holes' = holes
  BY DEF Pool!HostMaps
<1>2. /\ kernel[q] = "free" /\ kernel' = [kernel EXCEPT ![q] = "host"]
      /\ kernel \in [Pool!AllPages -> {"free", "rw", "none", "host"}] /\ LaidOut(budget.regions)
  BY <1>0 DEF Pool!HostMaps, PoolHolds, Balanced
<1>3. kernel' \in [Pool!AllPages -> {"free", "rw", "none", "host"}]
  BY <1>2
<1>4. \A p \in Pool!AllPages : p # q => kernel'[p] = kernel[p]
  BY <1>2
<1>5. kernel'[q] = "host" /\ ~Usable(kernel[q]) /\ ~Usable(kernel'[q])
  BY <1>2 DEF Usable
<1>6. ASSUME NEW r \in budget.regions, NEW p \in Nat, r.start <= p, p < r.limit
      PROVE  (p \notin holes => Usable(kernel'[p])) /\ (p >= r.end => kernel'[p] = "none")
  <2>1. p \in Pool!AllPages
    BY <1>2, <1>6, OwnIsOwn, PagesAre
  <2>2. (p \notin holes => Usable(kernel[p])) /\ (p >= r.end => kernel[p] = "none")
    BY <1>0, <1>6 DEF PoolHolds
  <2> QED
    BY <1>2, <1>4, <1>5, <2>1, <2>2
<1>7. ASSUME NEW p \in Pool!AllPages, MissingAt(budget, p), Usable(kernel'[p]) PROVE ClaimedIn(budget.claims, p)
  <2>1. Usable(kernel[p])
    BY <1>4, <1>5, <1>7
  <2> QED
    BY <1>0, <1>7, <2>1 DEF PoolHolds
<1>9. PoolHolds(budget, kernel', believed, holes)
  BY <1>0, <1>3, <1>6, <1>7 DEF PoolHolds
<1> QED
  BY <1>1, <1>9 DEF PoolInv

\* What is asked of the kernel is some of what the guest asked for.
LEMMA TriedIs ==
    ASSUME PoolInv, NEW n \in Nat, NEW want \in Pool!Tried(n) PROVE want \in Nat /\ 1 <= want /\ want <= n
<1> DEFINE room == IF budget.reserved < Budget THEN Budget - budget.reserved ELSE 0
           most == Pool!Max({room, Floor})
<1>1. budget.reserved \in Nat /\ Budget \in Nat /\ Floor \in Nat
  BY BoundsAre DEF PoolInv, PoolHolds, Balanced
<1>2. room \in Nat
  BY <1>1
<1>3. Pool!Want(n) = IF n <= room THEN n ELSE Pool!Min({n, most})
  BY DEF Pool!Want
<1> HIDE DEF room
<1>4. most \in Nat
  BY <1>1, <1>2, GreaterIs
<1> HIDE DEF most
<1>5. Pool!Min({n, most}) = IF n <= most THEN n ELSE most
  BY <1>4, LesserIs
<1>6. Pool!Want(n) \in Nat /\ Pool!Want(n) <= n
  BY <1>2, <1>3, <1>4, <1>5
<1>7. want \in 1 .. Pool!Want(n)
  BY DEF Pool!Tried
<1> QED
  BY <1>6, <1>7

\* A reservation is placed where nothing else of the guest is, and what it is not given
\* of it is free.
LEMMA PlacementIs ==
    ASSUME NEW n \in Nat, NEW want \in 1 .. n, NEW from \in Pool!Placement(n, want)
    PROVE  /\ from \in Nat /\ from + n <= Top
           /\ \A p \in Nat : from <= p /\ p < from + n => kernel[p] = "free"
           /\ ~Pool!Overlaps(budget, from, n)
<1> DEFINE m == Pool!Mapped(n, want)
           Settled(f) == {f} \cap Pool!Places(kernel, m) = {f} /\ ~Pool!Suits(f, n, want) /\ Pool!Holes(f, m, n) # {}
<1>1. m \in 1 .. n /\ (want = n => m = n)
  BY DEF Pool!Mapped
<1>2. CASE from \in Pool!Places(kernel, m) /\ Pool!Suits(from, n, want)
  <2>1. from \in Nat /\ from + m <= Top /\ \A p \in Pool!Interval(from, from + m) : kernel[p] = "free"
    BY <1>2, PagesAre DEF Pool!Places, Pool!FreeRun
  <2>2. \A p \in Nat : from <= p /\ p < from + m => kernel[p] = "free"
    BY <1>1, <2>1, IntervalIs
  <2>3. CASE want < n
    <3>1. from + n <= Top /\ \A p \in Pool!Interval(from + m, from + n) : kernel[p] = "free"
      BY <1>2, <2>3 DEF Pool!Suits
    <3>2. from + m \in Nat /\ from + n \in Nat
      BY <1>1, <2>1
    <3> HIDE DEF m
    <3>3. \A p \in Nat : from + m <= p /\ p < from + n => kernel[p] = "free"
      BY <3>1, <3>2, IntervalIs
    <3>4. \A p \in Nat : p < from + m \/ from + m <= p
      BY <3>2
    <3> QED
      BY <1>2, <2>1, <2>2, <3>1, <3>3, <3>4 DEF Pool!Suits
  <2>4. CASE want = n
    BY <1>1, <1>2, <2>1, <2>2, <2>4 DEF Pool!Suits
  <2> QED
    BY <2>3, <2>4
<1>3. CASE \E f \in Pool!Places(kernel, m) : Pool!Holes(f, m, n) # {} /\ from = Pool!Min(Pool!Holes(f, m, n))
  <2>1. PICK f \in Pool!Places(kernel, m) : Pool!Holes(f, m, n) # {} /\ from = Pool!Min(Pool!Holes(f, m, n))
    BY <1>3
  <2> DEFINE H == Pool!Holes(f, m, n)
  <2>2. H \in SUBSET Nat
    BY PagesAre DEF Pool!Holes
  <2>3. from \in H
    <3> HIDE DEF H
    <3>1. \E h \in H : \A g \in H : h <= g
      BY <2>1, <2>2, LeastExists DEF H
    <3>2. from = CHOOSE h \in H : \A g \in H : h <= g
      BY <2>1 DEF H, Pool!Min
    <3> QED
      BY <3>1, <3>2
  <2> DEFINE k == Pool!Set(kernel, Pool!Interval(f, f + m), "rw")
  <2>4. Pool!FreeRun(k, from, n) /\ ~Pool!Overlaps(budget, from, n) /\ from \in Nat
    BY <2>2, <2>3 DEF Pool!Holes
  <2>5. from + n <= Top /\ \A p \in Pool!Interval(from, from + n) : k[p] = "free"
    BY <2>4 DEF Pool!FreeRun
  <2>6. ASSUME NEW p \in Nat, from <= p, p < from + n PROVE kernel[p] = "free"
    <3>1. p \in Pool!AllPages /\ k[p] = "free"
      BY <2>4, <2>5, <2>6, IntervalIs, PagesAre, BoundsAre
    <3>2. k[p] = IF p \in Pool!Interval(f, f + m) THEN "rw" ELSE kernel[p]
      BY <3>1, SetIs
    <3> HIDE DEF k
    <3> QED
      BY <3>1, <3>2
  <2> QED
    BY <2>4, <2>5, <2>6
<1>4. \/ from \in Pool!Places(kernel, m) /\ Pool!Suits(from, n, want)
      \/ \E f \in Pool!Places(kernel, m) : Pool!Holes(f, m, n) # {} /\ from = Pool!Min(Pool!Holes(f, m, n))
  BY DEF Pool!Placement
<1> QED
  BY <1>2, <1>3, <1>4

LEMMA ReserveHolds == ASSUME PoolInv, NEW n \in 1 .. MaxReserve, Pool!Reserve(n) PROVE PoolInv'
<1>0. PoolHolds(budget, kernel, believed, holes) /\ n \in Nat
  BY BoundsAre DEF PoolInv
<1> DEFINE Granted(want, from) ==
        LET limit == from + Pool!Mapped(n, want)
            span == IF want < n THEN from + n ELSE limit
        IN  /\ budget' = [budget EXCEPT !.regions = @ \cup {Pool!Region(from, from + want, limit, span)},
                                        !.reserved = @ + Pool!Mapped(n, want)]
            /\ kernel' = Pool!Set(Pool!Set(kernel, Pool!Interval(from, from + want), "rw"),
                                  Pool!Interval(from + want, limit), "none")
            /\ believed' = believed \cup Pool!Interval(from, from + n)
<1>1. PICK want \in Pool!Tried(n) : \E from \in Pool!Placement(n, want) : Granted(want, from)
  BY Zenon DEF Pool!Reserve
<1>1a. PICK from \in Pool!Placement(n, want) : Granted(want, from)
  BY <1>1, Zenon
<1>2. want \in Nat /\ 1 <= want /\ want <= n
  BY <1>0, TriedIs DEF PoolInv
<1>3. /\ from \in Nat /\ from + n <= Top
      /\ \A p \in Nat : from <= p /\ p < from + n => kernel[p] = "free"
      /\ ~Pool!Overlaps(budget, from, n)
  BY <1>0, <1>2, PlacementIs
<1> DEFINE m == Pool!Mapped(n, want)
           end == from + want
           limit == from + m
           span == IF want < n THEN from + n ELSE limit
           a == Pool!Region(from, end, limit, span)
           S == budget.regions
<1>4. m \in Nat /\ want <= m /\ m <= want + 1 /\ m <= n /\ (want = n => m = n)
  BY <1>0, <1>2 DEF Pool!Mapped
<1>5. /\ budget' = [budget EXCEPT !.regions = S \cup {a}, !.reserved = budget.reserved + m]
      /\ kernel' = Pool!Set(Pool!Set(kernel, Pool!Interval(from, end), "rw"), Pool!Interval(end, limit), "none")
      /\ believed' = believed \cup Pool!Interval(from, from + n)
  BY <1>1a
<1> HIDE DEF m
<1>6. end \in Nat /\ limit \in Nat /\ span \in Nat /\ Top \in Nat /\ span = from + n
      /\ from <= end /\ from < limit /\ end <= limit /\ limit <= end + 1 /\ limit <= span /\ span <= Top
  BY <1>0, <1>2, <1>3, <1>4, BoundsAre
<1>7. a \in Reservations /\ a.start = from /\ a.end = end /\ a.limit = limit /\ a.span = span
  <2> HIDE DEF end, limit, span
  <2> QED
    BY <1>3, <1>6 DEF Pool!Region, Reservations
<1> HIDE DEF a, end, limit, span
<1>8. /\ Balanced(budget) /\ LaidOut(S) /\ budget.reserved = Total(S) /\ \A r \in S : r.start < r.limit
      /\ budget \in [regions : SUBSET Reservations, claims : Tables, reserved : Nat]
      /\ kernel \in [Pool!AllPages -> {"free", "rw", "none", "host"}] /\ believed \subseteq Pool!AllPages
      /\ holes \in SUBSET Nat
  BY <1>0 DEF PoolHolds, Balanced
<1>9. \A r \in S : Shaped(r) /\ r.start \in Nat /\ r.end \in Nat /\ r.limit \in Nat /\ r.span \in Nat
  BY <1>8, NumbersOf
<1>10. \A r \in S : r.span <= from \/ from + n <= r.start
  BY <1>3, <1>9 DEF Pool!Overlaps
<1>11. a \notin S
  BY <1>0, <1>3, <1>6, <1>7, <1>9, <1>10
<1>12. LaidOut(S \cup {a})
  <2>1. IsFiniteSet(S \cup {a})
    BY <1>8, FS_AddElement DEF LaidOut
  <2>2. Shaped(a)
    BY <1>6, <1>7 DEF Shaped
  <2>3. \A r \in S : Apart(a, r) /\ Apart(r, a)
    BY <1>6, <1>7, <1>10 DEF Apart
  <2>4. Apart(a, a)
    BY DEF Apart
  <2> QED
    BY <1>7, <1>8, <2>1, <2>2, <2>3, <2>4 DEF LaidOut
<1>13. Sizes[a] = m
  <2>1. Sizes[a] = limit - from
    BY <1>7, ReservationIs
  <2> QED
    BY <1>3, <1>4, <2>1 DEF limit
<1>14. Total(S \cup {a}) = budget.reserved + m /\ budget.reserved + m \in Nat
  <2>1. Total(S \cup {a}) = Total(S) + Sizes[a] /\ Total(S) \in Nat
    BY <1>4, <1>7, <1>8, <1>11, <1>13, OneMore, SizesAre
  <2> QED
    BY <1>4, <1>8, <1>13, <2>1
<1>15. /\ budget'.regions = S \cup {a} /\ budget'.claims = budget.claims /\ budget'.reserved = budget.reserved + m
       /\ budget' \in [regions : SUBSET Reservations, claims : Tables, reserved : Nat]
  <2> DEFINE total == budget.reserved + m
             all == S \cup {a}
  <2>1. all \in SUBSET Reservations /\ total \in Nat
    BY <1>7, <1>8, <1>14
  <2>2. budget' = [budget EXCEPT !.regions = all, !.reserved = total]
    BY <1>5
  <2> HIDE DEF total, all, Granted
  <2>3. /\ budget'.regions = all /\ budget'.claims = budget.claims /\ budget'.reserved = total
        /\ budget' \in [regions : SUBSET Reservations, claims : Tables, reserved : Nat]
    BY <1>8, <2>1, <2>2
  <2> QED
    BY <2>3 DEF total, all
<1>16. Balanced(budget')
  BY <1>12, <1>14, <1>15 DEF Balanced
<1> DEFINE half == Pool!Set(kernel, Pool!Interval(from, end), "rw")
<1>17. half \in [Pool!AllPages -> {"free", "rw", "none", "host"}]
  BY <1>8, SetType
<1>18. \A p \in Pool!AllPages : half[p] = IF p \in Pool!Interval(from, end) THEN "rw" ELSE kernel[p]
  BY SetIs
<1> HIDE DEF half
<1>19. kernel' \in [Pool!AllPages -> {"free", "rw", "none", "host"}]
       /\ \A p \in Pool!AllPages : kernel'[p] = IF p \in Pool!Interval(end, limit) THEN "none" ELSE half[p]
  <2>1. kernel' = Pool!Set(half, Pool!Interval(end, limit), "none")
    BY <1>5 DEF half
  <2>2. Pool!Set(half, Pool!Interval(end, limit), "none") \in [Pool!AllPages -> {"free", "rw", "none", "host"}]
    BY <1>17, SetType
  <2>3. \A p \in Pool!AllPages : Pool!Set(half, Pool!Interval(end, limit), "none")[p]
                             = IF p \in Pool!Interval(end, limit) THEN "none" ELSE half[p]
    BY SetIs
  <2> HIDE DEF Granted
  <2> QED
    BY <2>1, <2>2, <2>3
<1>20. ASSUME NEW p \in Pool!AllPages
       PROVE  /\ from <= p /\ p < end => kernel'[p] = "rw"
              /\ end <= p /\ p < limit => kernel'[p] = "none"
              /\ p < from \/ limit <= p => kernel'[p] = kernel[p]
  <2>1. p \in Nat
    BY PagesAre
  <2>2. /\ p \in Pool!Interval(from, end) <=> from <= p /\ p < end
        /\ p \in Pool!Interval(end, limit) <=> end <= p /\ p < limit
    BY <1>3, <1>6, <2>1, IntervalIs
  <2> QED
    BY <1>3, <1>6, <1>18, <1>19, <2>1, <2>2
<1>21. believed' \subseteq Pool!AllPages /\ \A p \in believed' : p \in believed \/ (from <= p /\ p < from + n)
  <2>1. \A p \in Pool!Interval(from, from + n) : p \in Pool!AllPages /\ from <= p /\ p < from + n
    BY <1>0, <1>3, IntervalIs, PagesAre, BoundsAre
  <2> QED
    BY <1>5, <1>8, <2>1
<1>22. holes' = holes
  BY DEF Pool!Reserve
<1>23. ASSUME NEW r \in S \cup {a}, NEW p \in Nat, r.start <= p, p < r.limit
       PROVE  (p \notin holes' => Usable(kernel'[p])) /\ (p >= r.end => kernel'[p] = "none")
  <2>1. CASE r = a
    <3>1. p \in Pool!AllPages
      BY <1>3, <1>6, <1>7, <1>23, <2>1, PagesAre
    <3> QED
      BY <1>3, <1>6, <1>7, <1>20, <1>23, <2>1, <3>1 DEF Usable
  <2>2. CASE r \in S
    <3>1. p \in Pool!AllPages
      BY <1>8, <1>23, <2>2, OwnIsOwn, PagesAre
    <3>2. p < from \/ limit <= p
      BY <1>3, <1>6, <1>9, <1>10, <1>23, <2>2 DEF Shaped
    <3>3. (p \notin holes => Usable(kernel[p])) /\ (p >= r.end => kernel[p] = "none")
      BY <1>0, <1>23, <2>2 DEF PoolHolds
    <3> QED
      BY <1>20, <1>22, <3>1, <3>2, <3>3
  <2> QED
    BY <2>1, <2>2
<1>24. ASSUME NEW p \in Pool!AllPages, MissingAt(budget', p), Usable(kernel'[p]) PROVE ClaimedIn(budget'.claims, p)
  <2>1. PICK r \in S \cup {a} : r.limit <= p /\ p < r.span
    BY <1>15, <1>24 DEF MissingAt
  <2>2. p \in Nat
    BY PagesAre
  <2>3. CASE r = a
    <3>1. kernel'[p] = kernel[p] /\ kernel[p] = "free"
      BY <1>3, <1>6, <1>7, <1>20, <2>1, <2>2, <2>3
    <3> QED
      BY <1>24, <3>1 DEF Usable
  <2>4. CASE r \in S
    <3>1. p < from \/ limit <= p
      BY <1>3, <1>6, <1>9, <1>10, <2>1, <2>2, <2>4 DEF Shaped
    <3>2. Usable(kernel[p]) /\ MissingAt(budget, p)
      BY <1>20, <1>24, <2>1, <2>4, <3>1 DEF MissingAt
    <3> QED
      BY <1>0, <1>15, <3>2 DEF PoolHolds
  <2> QED
    BY <2>3, <2>4
<1>26. \A r \in S \cup {a} : r.start < r.limit
  BY <1>6, <1>7, <1>8
<1>27. PoolHolds(budget', kernel', believed', holes')
  BY <1>8, <1>15, <1>16, <1>19, <1>21, <1>22, <1>23, <1>24, <1>26 DEF PoolHolds
<1> QED
  BY <1>27 DEF PoolInv

LEMMA PoolStarts == Pool!Init => PoolInv
<1> SUFFICES ASSUME Pool!Init PROVE PoolHolds(budget, kernel, believed, holes)
  BY DEF PoolInv
<1>1. /\ budget = [regions |-> {}, claims |-> [i \in {} |-> 0], reserved |-> 0]
      /\ kernel = [p \in Pool!AllPages |-> "free"] /\ believed = {} /\ holes = {}
  BY DEF Pool!Init
<1>2. [i \in {} |-> 0] \in Tables
  <2>1. [i \in {} |-> 0] \in [{} -> Claims] /\ {} \in SUBSET (1 .. MaxClaims)
    OBVIOUS
  <2> QED
    BY <2>1 DEF Tables
<1>3. LaidOut({}) /\ Total({}) = 0
  BY FS_EmptySet, SumOfNone DEF LaidOut, Total
<1>4. Balanced(budget)
  BY <1>1, <1>2, <1>3 DEF Balanced
<1>5. kernel \in [Pool!AllPages -> {"free", "rw", "none", "host"}]
  BY <1>1
<1>6. budget.regions = {}
  BY <1>1
<1> QED
  BY <1>1, <1>4, <1>5, <1>6 DEF PoolHolds, MissingAt

LEMMA PoolStepKeeps == PoolInv /\ Pool!Next => PoolInv'
<1> SUFFICES ASSUME PoolInv, Pool!Next PROVE PoolInv'
  OBVIOUS
<1>1. ASSUME NEW n \in 1 .. MaxReserve, Pool!Reserve(n) PROVE PoolInv'
  BY <1>1, ReserveHolds
<1>2. ASSUME NEW n \in 1 .. MaxMap, Pool!MapAnywhere(n) PROVE PoolInv'
  BY <1>2, MapAnywhereHolds
<1>3. ASSUME NEW from \in 0 .. Top, NEW to \in 0 .. Top, Pool!MapFixed(from, to) PROVE PoolInv'
  BY <1>3, MapFixedHolds
<1>4. ASSUME NEW from \in 0 .. Top, NEW to \in 0 .. Top, Pool!Unmap(from, to) PROVE PoolInv'
  BY <1>4, UnmapHolds
<1>5. ASSUME NEW from \in 0 .. Top, NEW to \in 0 .. Top, NEW value \in Pool!Guest, Pool!Protect(from, to, value)
      PROVE  PoolInv'
  BY <1>5, ProtectHolds
<1>6. ASSUME NEW p \in Pool!AllPages, Pool!HostMaps(p) PROVE PoolInv'
  BY <1>6, HostMapsHolds
<1> QED
  BY <1>1, <1>2, <1>3, <1>4, <1>5, <1>6, Zenon DEF Pool!Next, Pool!GuestCalls

LEMMA PoolStutters == PoolInv /\ UNCHANGED budgetVars => PoolInv'
BY DEF PoolInv, budgetVars

\* The claims of the table, in numbers.
LEMMA ClaimsAre ==
    ASSUME NEW t \in Tables, NEW p \in Nat
    PROVE  ClaimedIn(t, p) <=> \E c \in Pool!Range(t) : p \in Pool!Interval(c.start, c.end)
<1>1. PICK D \in SUBSET (1 .. MaxClaims) : t \in [D -> Claims]
  BY DEF Tables
<1>2. \A i \in DOMAIN t : t[i].start \in Nat /\ t[i].end \in Nat
  BY <1>1 DEF Claims
<1>3. \A i \in DOMAIN t : p \in Pool!Interval(t[i].start, t[i].end) <=> t[i].start <= p /\ p < t[i].end
  BY <1>2, IntervalIs
<1> QED
  BY <1>3 DEF ClaimedIn, Pool!Range

LEMMA PoolConcludes == PoolInv => Pool!BudgetIsExact
<1> SUFFICES ASSUME PoolInv PROVE Pool!BudgetIsExact
  OBVIOUS
<1>0. PoolHolds(budget, kernel, believed, holes)
  BY DEF PoolInv
<1>1. Balanced(budget) /\ LaidOut(budget.regions) /\ budget.reserved = Total(budget.regions) /\ budget.claims \in Tables
  BY <1>0 DEF PoolHolds, Balanced
<1>2. \A r \in budget.regions : Shaped(r) /\ r.start \in Nat /\ r.end \in Nat /\ r.limit \in Nat /\ r.span \in Nat
  BY <1>1, NumbersOf
<1>3. Pool!ReservedIsExact
  BY <1>1, ReservedIs DEF LaidOut
<1>4. Pool!SpansAreDisjoint
  <2>1. ASSUME NEW r \in budget.regions, NEW s \in budget.regions, r # s
        PROVE  Pool!Interval(r.start, r.span) \cap Pool!Interval(s.start, s.span) = {}
    <3>1. Apart(r, s)
      BY <1>1 DEF LaidOut
    <3> QED
      BY <1>2, <2>1, <3>1 DEF Apart, Pool!Interval
  <2>2. \A r \in budget.regions : r.start <= r.end /\ r.end <= r.limit /\ r.limit <= r.span
    BY <1>2 DEF Shaped
  <2> QED
    BY <2>1, <2>2 DEF Pool!SpansAreDisjoint
<1>5. Pool!CountedIsMapped
  <2>1. ASSUME NEW r \in budget.regions, NEW p \in Pool!Own(r) \ holes PROVE kernel[p] \in Pool!Guest
    <3>1. p \in Nat /\ r.start <= p /\ p < r.limit
      BY <1>2 DEF Pool!Own, Pool!Interval
    <3> QED
      BY <1>0, <3>1 DEF PoolHolds, Usable, Pool!Guest
  <2>2. ASSUME NEW r \in budget.regions, NEW p \in Pool!Interval(r.end, r.limit) PROVE kernel[p] = "none"
    <3>1. p \in Nat /\ r.start <= p /\ p < r.limit /\ p >= r.end
      BY <1>2 DEF Shaped, Pool!Interval
    <3> QED
      BY <1>0, <3>1 DEF PoolHolds
  <2> QED
    BY <2>1, <2>2 DEF Pool!CountedIsMapped
<1>6. Pool!OwnMappingsAreClaimed
  <2> SUFFICES ASSUME NEW p \in Pool!MissingPages(budget), kernel[p] \in Pool!Guest
               PROVE  \E c \in Pool!Range(budget.claims) : p \in Pool!Interval(c.start, c.end)
    BY DEF Pool!OwnMappingsAreClaimed
  <2>1. PICK r \in budget.regions : p \in Pool!Interval(r.limit, r.span)
    BY DEF Pool!MissingPages, Pool!Missing
  <2>2. r.span <= Top /\ Top \in Nat
    BY <1>1, ReservationIs, BoundsAre DEF LaidOut
  <2>3. p \in Nat /\ p \in Pool!AllPages /\ MissingAt(budget, p)
    BY <1>2, <2>1, <2>2, PagesAre DEF Pool!Interval, MissingAt
  <2>4. ClaimedIn(budget.claims, p)
    BY <1>0, <2>3 DEF PoolHolds, Usable, Pool!Guest
  <2> QED
    BY <1>1, <2>3, <2>4, ClaimsAre
<1> QED
  BY <1>3, <1>4, <1>5, <1>6 DEF Pool!BudgetIsExact

\* A missing page that is not claimed is missing to every operation.
LEMMA UnclaimedIsMissing ==
    ASSUME PoolInv, NEW from \in Nat, NEW anchor \in Pool!Anchors(budget, from), NEW p \in Pool!MissingPages(budget),
           p \in Nat, ~ \E c \in Pool!Range(budget.claims) : p \in Pool!Interval(c.start, c.end)
    PROVE  Pool!Kind(budget, p, anchor) = "missing"
<1>1. Balanced(budget) /\ LaidOut(budget.regions) /\ budget.claims \in Tables
  BY DEF PoolInv, PoolHolds, Balanced
<1>2. ~ClaimedIn(budget.claims, p)
  BY <1>1, ClaimsAre
<1>3. p \notin anchor
  BY <1>1, <1>2, AnchorsAre
<1> QED
  BY <1>3 DEF Pool!Kind

LEMMA PoolStepSpares == PoolInv /\ Pool!Next => Pool!MissingIsSpared
<1> SUFFICES ASSUME PoolInv, Pool!Next, NEW p \in Pool!MissingPages(budget), kernel[p] = "host", kernel'[p] # "host",
                    ~ \E c \in Pool!Range(budget.claims) : p \in Pool!Interval(c.start, c.end)
             PROVE  FALSE
  BY DEF Pool!MissingIsSpared
<1>0. p \in Nat /\ p < Top /\ Top \in Nat /\ p \in Pool!AllPages
  <2>1. PICK r \in budget.regions : p \in Pool!Interval(r.limit, r.span)
    BY DEF Pool!MissingPages, Pool!Missing
  <2>2. LaidOut(budget.regions)
    BY DEF PoolInv, PoolHolds, Balanced
  <2>3. r.limit \in Nat /\ r.span \in Nat /\ r.span <= Top /\ Top \in Nat
    BY <2>2, NumbersOf, ReservationIs, BoundsAre DEF LaidOut
  <2> QED
    BY <2>1, <2>3, PagesAre DEF Pool!Interval
<1>1. ASSUME NEW n \in 1 .. MaxReserve, Pool!Reserve(n) PROVE FALSE
  <2>1. n \in Nat
    BY BoundsAre
  <2> DEFINE Granted(want, from) ==
          kernel' = Pool!Set(Pool!Set(kernel, Pool!Interval(from, from + want), "rw"),
                             Pool!Interval(from + want, from + Pool!Mapped(n, want)), "none")
  <2>1a. \E want \in Pool!Tried(n) : \E from \in Pool!Placement(n, want) : Granted(want, from)
    BY <1>1, Zenon DEF Pool!Reserve
  <2>1b. PICK want \in Pool!Tried(n) : \E from \in Pool!Placement(n, want) : Granted(want, from)
    BY <2>1a
  <2>2. PICK from \in Pool!Placement(n, want) : Granted(want, from)
    BY <2>1b
  <2>3. want \in Nat /\ 1 <= want /\ want <= n
    BY <2>1, TriedIs
  <2>4. from \in Nat /\ \A q \in Nat : from <= q /\ q < from + n => kernel[q] = "free"
    BY <2>1, <2>3, PlacementIs
  <2> DEFINE limit == from + Pool!Mapped(n, want)
             end == from + want
             half == Pool!Set(kernel, Pool!Interval(from, end), "rw")
  <2>5. limit \in Nat /\ end \in Nat /\ end <= from + n /\ limit <= from + n /\ from <= end
    BY <2>1, <2>3, <2>4 DEF Pool!Mapped
  <2>6. ~(from <= p /\ p < from + n)
    BY <1>0, <2>4
  <2>7. p \notin Pool!Interval(from, end) /\ p \notin Pool!Interval(end, limit)
    <3> HIDE DEF limit, end
    <3> QED
      BY <1>0, <2>4, <2>5, <2>6, IntervalIs
  <2>8. half[p] = kernel[p]
    BY <1>0, <2>7, SetIs
  <2>9. kernel'[p] = half[p]
    <3>1. kernel' = Pool!Set(half, Pool!Interval(end, limit), "none")
      BY <2>2
    <3> HIDE DEF half, end, limit
    <3> QED
      BY <1>0, <2>7, <3>1, SetIs
  <2> QED
    BY <2>8, <2>9
<1>2. ASSUME NEW n \in 1 .. MaxMap, Pool!MapAnywhere(n) PROVE FALSE
  <2>1. PICK from \in Pool!Places(kernel, n) : kernel' = Pool!Set(kernel, Pool!Interval(from, from + n), "rw")
    BY <1>2 DEF Pool!MapAnywhere
  <2>2. \A q \in Pool!Interval(from, from + n) : kernel[q] = "free"
    BY DEF Pool!Places, Pool!FreeRun
  <2>3. p \notin Pool!Interval(from, from + n)
    BY <2>2
  <2> QED
    BY <1>0, <2>1, <2>3, SetIs
<1>3. ASSUME NEW from \in 0 .. Top, NEW to \in 0 .. Top, Pool!MapFixed(from, to)
      PROVE  FALSE
  <2>1. from \in Nat
    BY BoundsAre
  <2>2. PICK anchor \in Pool!Anchors(budget, from) : Pool!Kinds(budget, from, to, anchor) \cap {"guard", "missing"} = {}
    BY <1>3 DEF Pool!MapFixed
  <2>3. p \in Pool!Interval(from, to)
    BY <1>0, <1>3, SetIs DEF Pool!MapFixed
  <2>4. Pool!Kind(budget, p, anchor) # "missing"
    BY <2>2, <2>3 DEF Pool!Kinds
  <2> QED
    BY <1>0, <2>1, <2>4, UnclaimedIsMissing
<1>4. ASSUME NEW from \in 0 .. Top, NEW to \in 0 .. Top, Pool!Unmap(from, to)
      PROVE  FALSE
  <2>1. from \in Nat
    BY BoundsAre
  <2>2. PICK anchor \in Pool!Anchors(budget, from) :
          kernel' = Pool!Set(kernel, Pool!PagesOf(from, to, anchor, {"granted", "guard", "outside"}), "free")
    BY <1>4 DEF Pool!Unmap
  <2>3. p \in Pool!PagesOf(from, to, anchor, {"granted", "guard", "outside"})
    BY <1>0, <2>2, SetIs
  <2>4. Pool!Kind(budget, p, anchor) # "missing"
    BY <2>3 DEF Pool!PagesOf
  <2> QED
    BY <1>0, <2>1, <2>4, UnclaimedIsMissing
<1>5. ASSUME NEW from \in 0 .. Top, NEW to \in 0 .. Top, NEW value \in Pool!Guest, Pool!Protect(from, to, value)
      PROVE  FALSE
  <2>1. from \in Nat
    BY BoundsAre
  <2>2. PICK anchor \in Pool!Anchors(budget, from) :
          kernel' = Pool!Set(kernel, {q \in Pool!PagesOf(from, to, anchor, {"granted", "outside"}) : kernel[q] # "free"}, value)
    BY <1>5 DEF Pool!Protect
  <2>3. p \in Pool!PagesOf(from, to, anchor, {"granted", "outside"})
    BY <1>0, <2>2, SetIs
  <2>4. Pool!Kind(budget, p, anchor) # "missing"
    BY <2>3 DEF Pool!PagesOf
  <2> QED
    BY <1>0, <2>1, <2>4, UnclaimedIsMissing
<1>6. ASSUME NEW q \in Pool!AllPages, Pool!HostMaps(q) PROVE FALSE
  <2>1. kernel[q] = "free" /\ kernel' = [kernel EXCEPT ![q] = "host"]
    BY <1>6 DEF Pool!HostMaps
  <2>2. kernel \in [Pool!AllPages -> {"free", "rw", "none", "host"}]
    BY DEF PoolInv, PoolHolds
  <2> QED
    BY <2>1, <2>2
<1> QED
  BY <1>1, <1>2, <1>3, <1>4, <1>5, <1>6, Zenon DEF Pool!Next, Pool!GuestCalls

\* GuestVMBudget.c, for any budget, threshold and floor, any sizes of the tables and
\* of the address space, and whatever the guest and other code map: the counter is the
\* sum of what the regions hold, guards included; no two reservations overlap; what is
\* counted is mapped, and guards are never usable; the guest's own mappings in a
\* missing part are claimed; and while a region lives no call, whatever range of the
\* guest's it covers, changes a page of other code in the missing part.
THEOREM BudgetStaysExact == Spec => ReservationsAreExact
<1> DEFINE Inv == subject = "budget" => PoolInv
           Exact == subject = "budget" => Pool!BudgetIsExact
           Spares == subject = "budget" => Pool!MissingIsSpared
<1>1. Init => Inv
  BY PoolStarts DEF Init
<1>2. Inv /\ [Next]_vars => Inv'
  <2> SUFFICES ASSUME Inv, [Next]_vars, subject' = "budget" PROVE PoolInv'
    OBVIOUS
  <2>1. subject = "budget"
    BY DEF Next, vars
  <2>2. CASE Pool!Next
    BY <2>1, <2>2, PoolStepKeeps
  <2>3. CASE UNCHANGED budgetVars
    BY <2>1, <2>3, PoolStutters
  <2> QED
    BY <2>1, <2>2, <2>3 DEF Next, vars
<1>3. Inv => Exact
  BY PoolConcludes
<1>4. Inv /\ [Next]_vars => [Spares]_vars
  <2> SUFFICES ASSUME Inv, Next, subject = "budget" PROVE Pool!MissingIsSpared
    OBVIOUS
  <2>1. Pool!Next
    BY DEF Next
  <2> QED
    BY <2>1, PoolStepSpares
<1>5. ReservationsAreExact <=> []Exact /\ [][Spares]_vars
  BY DEF ReservationsAreExact
<1> HIDE DEF Inv, Exact, Spares
<1> QED
  BY <1>1, <1>2, <1>3, <1>4, <1>5, PTL DEF Spec
=============================================================================
