-------------------------- MODULE ArenaTransaction --------------------------
(***************************************************************************)
(* What one arena preparation promises to the app that asked for it.       *)
(*                                                                         *)
(* A debugger may attach to the app once, touch pages of the arena while   *)
(* it is attached, and detach once.  The transaction ends with one verdict.*)
(* "prepared" and "failedDetached" are promises about the debugger;        *)
(* "uncertain" promises nothing: the debugger may attach, touch pages and  *)
(* detach after it.                                                        *)
(***************************************************************************)
CONSTANT Pages                     \* the pages of the arena

VARIABLES debugger,                \* "none", "attached", "gone"
          touched,                 \* pages the debugger has written
          result                   \* "none" until the verdict is given

transactionVars == <<debugger, touched, result>>

Verdicts == {"prepared", "failedDetached", "uncertain"}

TransactionInit ==
    /\ debugger = "none"
    /\ touched = {}
    /\ result = "none"

Attach ==
    /\ debugger = "none"
    /\ debugger' = "attached"
    /\ UNCHANGED <<touched, result>>

Touch(page) ==
    /\ debugger = "attached"
    /\ touched' = touched \cup {page}
    /\ UNCHANGED <<debugger, result>>

\* The debugger leaves: it detached when told to, or it lost its connection.
Leave ==
    /\ debugger = "attached"
    /\ debugger' = "gone"
    /\ UNCHANGED <<touched, result>>

\* A verdict that lets the app use or free the arena needs a debugger that is
\* gone for good; only success says that every page was written.
Conclude(verdict) ==
    /\ result = "none"
    /\ verdict # "uncertain" => debugger = "gone"
    /\ verdict = "prepared" => touched = Pages
    /\ result' = verdict
    /\ UNCHANGED <<debugger, touched>>

TransactionNext ==
    \/ Attach
    \/ \E page \in Pages : Touch(page)
    \/ Leave
    \/ \E verdict \in Verdicts : Conclude(verdict)

TransactionSpec == TransactionInit /\ [][TransactionNext]_transactionVars
=============================================================================
