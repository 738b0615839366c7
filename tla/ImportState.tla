----------------------------- MODULE ImportState -----------------------------
(***************************************************************************)
(* The durable state machine of the import runs, exactly as advance in     *)
(* receipt/state.rs declares it.  "absent" and "erased" stand for a row    *)
(* that does not exist yet and for one a privacy deletion removed.         *)
(***************************************************************************)
CONSTANT Runs

VARIABLE state

NonTerminal == {"received", "hashed", "stored", "inspected", "parsed", "reconciled"}

Terminal == {"completed", "partial", "failed", "duplicate", "quarantined"}

\* ImportState::advance: the accepted moves.
Legal(from, to) ==
    \/ from = "received" /\ to = "hashed"
    \/ from = "hashed" /\ to \in {"stored", "duplicate"}
    \/ from = "stored" /\ to = "inspected"
    \/ from = "inspected" /\ to = "parsed"
    \/ from = "parsed" /\ to = "reconciled"
    \/ from = "reconciled" /\ to \in {"completed", "partial"}
    \/ from \in NonTerminal /\ to = "failed"

Init == state = [r \in Runs |-> "absent"]

Create(r) ==
    /\ state[r] = "absent"
    /\ state' = [state EXCEPT ![r] = "received"]

Advance(r, target) ==
    /\ Legal(state[r], target)
    /\ state' = [state EXCEPT ![r] = target]

Erase(r) ==
    /\ state[r] \in NonTerminal \cup Terminal
    /\ state' = [state EXCEPT ![r] = "erased"]

Next ==
    \E r \in Runs :
        \/ Create(r)
        \/ Erase(r)
        \/ \E target \in NonTerminal \cup Terminal : Advance(r, target)

Spec == Init /\ [][Next]_state
=============================================================================
