---------------------------- MODULE AtomicMemory ----------------------------
(***************************************************************************)
(* What the journal promises, without pages, entries or offsets: the       *)
(* content that callers rely on changes only when a block succeeds, or by  *)
(* an autoincrement counter stored between blocks.  A block that fails     *)
(* ends with the content it started from.                                  *)
(***************************************************************************)

VARIABLES
    content,  \* the memory a reader between two operations sees
    status    \* "idle", "open" inside a block, "failed" while undoing it

vars == <<content, status>>

Init == status = "idle"

Begin ==
    /\ status = "idle" /\ status' = "open"
    /\ UNCHANGED content

\* The block returned Ok: its writes become the content.
Commit == status = "open" /\ status' = "idle"

\* Some step of the block returned Err.
Fail ==
    /\ status = "open" /\ status' = "failed"
    /\ UNCHANGED content

\* The undo is complete.
Abort ==
    /\ status = "failed" /\ status' = "idle"
    /\ UNCHANGED content

\* A counter stored outside any block.
Store == status = "idle" /\ UNCHANGED status

Next == Begin \/ Commit \/ Fail \/ Abort \/ Store

Spec == Init /\ [][Next]_vars
=============================================================================
