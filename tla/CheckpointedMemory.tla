------------------------- MODULE CheckpointedMemory -------------------------
(***************************************************************************)
(* What the key-value provider promises, without slots, hashes, batches or *)
(* dirty flags: one durable checkpoint that changes in a single step, from *)
(* one whole memory to the next, and that every writer starts from.        *)
(***************************************************************************)

VARIABLES
    durable,  \* the memory the newest checkpoint holds
    prior,    \* the memory the checkpoint before it held
    memory,   \* the cached memory of the open provider
    mode      \* "closed", "writer", "reader" or "poisoned"

vars == <<durable, prior, memory, mode>>

Init ==
    /\ durable = <<>> /\ prior = <<>>
    /\ memory = <<>> /\ mode = "closed"

Open ==
    /\ mode = "closed" /\ mode' = "writer"
    /\ memory' = durable
    /\ UNCHANGED <<durable, prior>>

\* The newest checkpoint is not visible yet: read the one before it.
OpenFallback ==
    /\ mode = "closed" /\ mode' = "reader"
    /\ prior # <<>> /\ memory' = prior
    /\ UNCHANGED <<durable, prior>>

Change == mode = "writer" /\ UNCHANGED <<durable, prior, mode>>

\* The head is replaced.  The host may still report an error afterwards.
Publish ==
    /\ mode = "writer" /\ mode' \in {"writer", "poisoned"}
    /\ durable' = memory /\ prior' = durable
    /\ UNCHANGED memory

Poison ==
    /\ mode = "writer" /\ mode' = "poisoned"
    /\ UNCHANGED <<durable, prior, memory>>

Close ==
    /\ mode # "closed" /\ mode' = "closed"
    /\ memory' = <<>>
    /\ UNCHANGED <<durable, prior>>

Next == Open \/ OpenFallback \/ Change \/ Publish \/ Poison \/ Close

Spec == Init /\ [][Next]_vars
=============================================================================
