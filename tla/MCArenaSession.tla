--------------------------- MODULE MCArenaSession ---------------------------
(* Two arenas of two pages and of one page, two units to a page: a read of    *)
(* three units crosses a page and stops at the end of an arena.  A target is  *)
(* good or has one thing wrong with it, every unit included.                  *)
EXTENDS ArenaSession

MCSize == <<4, 2>>
Good == [process |-> TRUE, challenge |-> TRUE, dirty |-> {}, unsafe |-> {}]
MCTargets ==
    {Good, [Good EXCEPT !.process = FALSE], [Good EXCEPT !.challenge = FALSE]}
      \cup {[Good EXCEPT !.dirty = {u}] : u \in Units}
      \cup {[Good EXCEPT !.unsafe = {u}] : u \in Units}
=============================================================================
