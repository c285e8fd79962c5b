---------------------------- MODULE DebuggerEntry ----------------------------
(***************************************************************************)
(* DebuggerArena.c with nc_adopt and nc_destroy of NativeCodeMemory.c, as  *)
(* NativeGuest.m uses them: executable memory that a debugger outside the  *)
(* app provides, reserved before a launch or asked for during it, and the  *)
(* check every route into guest code passes.                               *)
(*                                                                         *)
(* The debugger is external: it answers a trap with a region or with       *)
(* nonsense, it may go away at any time, and memory it made executable may *)
(* not stay so when it goes.  A trap that nobody serves ends the process.  *)
(***************************************************************************)
EXTENDS Integers, FiniteSets

CONSTANTS
    Smallest, Largest,  \* the sizes a reservation asks for: 64 MiB, nc_arena_limit
    Needs,              \* what images may need
    Attempts,           \* requests of one call: 3
    MaxRegions          \* bound: the regions the debugger ever provides

VARIABLES
    attached,           \* a debugger is attached
    regions,            \* the regions that are mapped: id -> [size, exec]
    granted,            \* how many the debugger provided so far
    aliases,            \* regions with a writable alias
    reserved, arena,    \* reserved_arena and guest.arena: a region, or None
    call                \* the call in progress and how far it is

vars == <<attached, regions, granted, aliases, reserved, arena, call>>

None == 0
Idle == [pc |-> "idle", purpose |-> "none", size |-> 0, attempt |-> 0, candidate |-> None, launched |-> FALSE, external |-> FALSE]
Goto(pc) == [call EXCEPT !.pc = pc]
Drop(f, id) == [k \in DOMAIN f \ {id} |-> f[k]]

Init ==
    /\ attached \in BOOLEAN /\ regions = <<>> /\ granted = 0 /\ aliases = {}
    /\ reserved = None /\ arena = None /\ call = Idle

-----------------------------------------------------------------------------
(* The debugger.                                                           *)

\* It lets go; each region stays executable or not.
GoesAway ==
    /\ attached' = FALSE
    /\ \E lost \in SUBSET DOMAIN regions :
          regions' = [id \in DOMAIN regions |-> [regions[id] EXCEPT !.exec = @ /\ id \notin lost]]

Leaves == attached /\ call.pc # "dead" /\ GoesAway /\ UNCHANGED <<granted, aliases, reserved, arena, call>>

\* Assumed: it attaches before a launch and not during one.
Attaches == /\ ~attached /\ call.pc # "dead" /\ ~call.launched /\ attached' = TRUE
            /\ UNCHANGED <<regions, granted, aliases, reserved, arena, call>>

-----------------------------------------------------------------------------
(* da_request_arena and da_adopt_region, for either arena.                 *)

Holder == IF call.purpose = "reserve" THEN reserved ELSE arena
Adopted(id) == IF call.purpose = "reserve" THEN reserved' = id /\ UNCHANGED arena ELSE arena' = id /\ UNCHANGED reserved

\* Nothing is asked without a debugger.
Requests ==
    /\ call.pc = "request" /\ call' = Goto(IF attached THEN "trap" ELSE "refused")
    /\ UNCHANGED <<attached, regions, granted, aliases, reserved, arena>>

\* Three attempts.
Again == IF call.attempt + 1 < Attempts THEN "trap" ELSE "refused"

\* One trap: a region, an answer that is no region, or the end of the process.
Traps ==
    /\ call.pc = "trap"
    /\ \/ /\ attached /\ granted < MaxRegions /\ granted' = granted + 1
          /\ regions' = [id \in DOMAIN regions \cup {granted + 1} |->
                            IF id = granted + 1 THEN [size |-> call.size, exec |-> TRUE] ELSE regions[id]]
          /\ call' = [Goto("adopt") EXCEPT !.candidate = granted + 1]
       \/ /\ attached /\ call' = [Goto(Again) EXCEPT !.attempt = IF @ < Attempts THEN @ + 1 ELSE @]
          /\ UNCHANGED <<regions, granted>>
       \/ ~attached /\ call' = Goto("dead") /\ UNCHANGED <<regions, granted>>
    /\ UNCHANGED <<attached, aliases, reserved, arena>>

\* munmap of what was asked for.
GivenBack(id) == regions' = Drop(regions, id)

\* nc_adopt: a writable alias, or an error and no alias; then the region goes back.
Adopts ==
    /\ call.pc = "adopt"
    /\ \/ /\ Holder = None /\ Adopted(call.candidate) /\ aliases' = aliases \cup {call.candidate}
          /\ UNCHANGED regions /\ call' = [Goto("provided") EXCEPT !.candidate = None]
       \/ /\ GivenBack(call.candidate) /\ call' = [Goto("refused") EXCEPT !.candidate = None]
          /\ UNCHANGED <<aliases, reserved, arena>>
    /\ UNCHANGED <<attached, granted>>

\* nc_destroy of the reserved arena.
DestroyReserved == regions' = Drop(regions, reserved) /\ aliases' = aliases \ {reserved} /\ reserved' = None

-----------------------------------------------------------------------------
(* ng_reserve_arena.                                                       *)

Reserve ==
    /\ call.pc = "idle" /\ ~call.launched /\ reserved = None /\ attached
    /\ call' = [call EXCEPT !.pc = "request", !.purpose = "reserve", !.size = Largest, !.attempt = 0]
    /\ UNCHANGED <<attached, regions, granted, aliases, reserved, arena>>

\* A smaller one, down to the smallest.
ReserveLess ==
    /\ call.pc = "refused" /\ call.purpose = "reserve"
    /\ call' = IF call.size <= Smallest THEN Goto("idle")
               ELSE [call EXCEPT !.pc = "request", !.attempt = 0,
                                 !.size = IF @ \div 2 < Smallest THEN Smallest ELSE @ \div 2]
    /\ UNCHANGED <<attached, regions, granted, aliases, reserved, arena>>

\* da_detached: asked to let go, if it is there when it is looked for.
AskToLetGo(next) == call' = Goto(IF attached THEN "let go" ELSE next) /\ UNCHANGED <<attached, regions>>
LetGoTrap(next) ==
    \/ attached /\ GoesAway /\ call' = Goto(next)
    \/ attached /\ call' = Goto(next) /\ UNCHANGED <<attached, regions>>
    \/ ~attached /\ call' = Goto("dead") /\ UNCHANGED <<attached, regions>>

ReserveReleases ==
    /\ call.purpose = "reserve"
    /\ \/ call.pc = "provided" /\ AskToLetGo("survived")
       \/ call.pc = "let go" /\ LetGoTrap("survived")
    /\ UNCHANGED <<granted, aliases, reserved, arena>>

\* An arena that did not survive is given up.
ReserveEnds ==
    /\ call.pc = "survived"
    /\ IF regions[reserved].exec THEN UNCHANGED <<regions, aliases, reserved>> ELSE DestroyReserved
    /\ call' = Goto("idle") /\ UNCHANGED <<attached, granted, arena>>

-----------------------------------------------------------------------------
(* A launch.                                                               *)

\* ng_reserved_choice.
ReservedChoice(external, total) ==
    IF reserved = None THEN "none" ELSE IF ~external THEN "give back"
    ELSE IF total <= regions[reserved].size THEN "take" ELSE "refuse"

\* One launch in a process; a route that is not external prepares its own arena,
\* which is modelled as far as it is one or is refused.
Launch ==
    /\ call.pc = "idle" /\ ~call.launched
    /\ \E external \in BOOLEAN, total \in Needs :
          LET choice == ReservedChoice(external, total)
              begun == [call EXCEPT !.purpose = "launch", !.size = total, !.attempt = 0, !.launched = TRUE, !.external = external]
          IN  /\ call' = [begun EXCEPT !.pc = CASE choice = "refuse" -> "blocked" [] choice = "take" -> "provided"
                                               [] OTHER -> IF external THEN "request" ELSE "own"]
              /\ arena' = IF choice = "take" THEN reserved ELSE arena
              /\ IF choice \in {"refuse", "give back"} THEN DestroyReserved
                 ELSE reserved' = (IF choice = "take" THEN None ELSE reserved) /\ UNCHANGED <<regions, aliases>>
    /\ UNCHANGED <<attached, granted>>

\* More than nc_launch_limit allows at that moment: refused before the reserved
\* arena is looked at.
LaunchTooLarge ==
    /\ call.pc = "idle" /\ ~call.launched /\ call' = [Goto("blocked") EXCEPT !.launched = TRUE, !.purpose = "launch"]
    /\ UNCHANGED <<attached, regions, granted, aliases, reserved, arena>>

\* Failing the enabler, an arena of our own.
LaunchRefused ==
    /\ call.pc = "refused" /\ call.purpose = "launch" /\ call' = Goto("own")
    /\ UNCHANGED <<attached, regions, granted, aliases, reserved, arena>>

Own ==
    /\ call.pc = "own"
    /\ \/ \E exec \in BOOLEAN :
             /\ regions' = [id \in DOMAIN regions \cup {MaxRegions + 1} |->
                               IF id = MaxRegions + 1 THEN [size |-> call.size, exec |-> exec] ELSE regions[id]]
             /\ arena' = MaxRegions + 1 /\ aliases' = aliases \cup {MaxRegions + 1}
             /\ call' = Goto(IF call.external THEN "provided" ELSE "entered")
       \/ call' = Goto("blocked") /\ UNCHANGED <<regions, arena, aliases>>
    /\ UNCHANGED <<attached, granted, reserved>>

\* Wrong form of EntryChecks: that it executes is found out before the debugger goes.
EntryChecksFirst ==
    /\ call.purpose = "launch"
    /\ \/ call.pc = "provided" /\ (IF regions[arena].exec THEN AskToLetGo("detached") ELSE call' = Goto("blocked") /\ UNCHANGED <<attached, regions>>)
       \/ call.pc = "let go" /\ LetGoTrap("detached")
       \/ call.pc = "detached" /\ call' = Goto(IF attached THEN "blocked" ELSE "entered") /\ UNCHANGED <<attached, regions>>
    /\ UNCHANGED <<granted, aliases, reserved, arena>>

\* da_entry_allowed: nothing attached, and then really executable.
EntryChecks ==
    /\ call.purpose = "launch"
    /\ \/ call.pc = "provided" /\ AskToLetGo("detached")
       \/ call.pc = "let go" /\ LetGoTrap("detached")
       \/ /\ call.pc = "detached" /\ UNCHANGED <<attached, regions>>
          /\ call' = Goto(IF attached THEN "blocked" ELSE "executes")
       \/ /\ call.pc = "executes" /\ UNCHANGED <<attached, regions>>
          /\ call' = Goto(IF regions[arena].exec THEN "entered" ELSE "blocked")
    /\ UNCHANGED <<granted, aliases, reserved, arena>>

Steps == Requests \/ Traps \/ Adopts \/ ReserveLess \/ ReserveReleases \/ ReserveEnds \/ LaunchRefused \/ Own \/ EntryChecks
Next == Leaves \/ Attaches \/ Reserve \/ Launch \/ LaunchTooLarge \/ Steps
Spec == Init /\ [][Next]_vars

-----------------------------------------------------------------------------
(* Properties.                                                             *)

Quiet == call.pc \in {"idle", "entered", "blocked"}

\* Between calls, every region that was ever provided is held as the reserved
\* arena or as the guest's, with its alias, or has been given back: whichever
\* attempt, adoption, detach or choice failed on the way.  A guest that runs keeps
\* one arena and no other.
RegionsAreHeldOrGivenBack ==
    Quiet => /\ DOMAIN regions = {reserved, arena} \ {None} /\ aliases = DOMAIN regions
             /\ reserved = None \/ reserved # arena
             /\ call.pc = "entered" => reserved = None

\* The guest of an external launch is entered only with no debugger attached, in
\* memory that is executable and that holds the image.
EntryIsPrepared ==
    call.pc = "entered" =>
        /\ arena # None /\ regions[arena].size >= call.size
        /\ call.external => ~attached /\ regions[arena].exec
=============================================================================
