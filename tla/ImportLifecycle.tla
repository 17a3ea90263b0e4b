--------------------------- MODULE ImportLifecycle ---------------------------
(***************************************************************************)
(* What the asynchronous bulk import promises of an import, without        *)
(* workers, leases, chunks or retries: its values become visible while it  *)
(* is loading, all of them are there when it is loaded, its files are kept *)
(* until it is at an end, and loading does come to an end.                 *)
(***************************************************************************)
CONSTANTS
  Import,
  Value,
  Promised   \* Promised[i]: the values of the import's chunks

VARIABLES
  phase,
  visible,   \* values in measurements
  kept       \* imports whose files are stored

vars == <<phase, visible, kept>>

Phase == {"loading", "loaded", "completed", "failed", "abandoned"}
AtAnEnd == {"completed", "failed", "abandoned"}

Init ==
  /\ phase = [i \in Import |-> "loading"]
  /\ visible \subseteq Value
  /\ kept = Import

\* "Partial measurements remain visible while a job is processing."
Insert(i) ==
  /\ phase[i] = "loading"
  /\ visible \subseteq visible'
  /\ visible' \subseteq visible \union Promised[i]
  /\ UNCHANGED <<phase, kept>>

FinishLoading(i) ==
  /\ phase[i] = "loading"
  /\ Promised[i] \subseteq visible
  /\ phase' = [phase EXCEPT ![i] = "loaded"]
  /\ UNCHANGED <<visible, kept>>

FailLoading(i) ==
  /\ phase[i] = "loading"
  /\ phase' = [phase EXCEPT ![i] = "failed"]
  /\ UNCHANGED <<visible, kept>>

\* Its statistics and geometry are refreshed, or are given up.
FinishRefreshing(i) ==
  /\ phase[i] = "loaded"
  /\ phase' \in {[phase EXCEPT ![i] = p] : p \in {"completed", "abandoned"}}
  /\ UNCHANGED <<visible, kept>>

Discard(i) ==
  /\ phase[i] \in AtAnEnd
  /\ kept' = kept \ {i}
  /\ UNCHANGED <<phase, visible>>

Next ==
  \E i \in Import :
    \/ Insert(i) \/ FinishLoading(i) \/ FailLoading(i)
    \/ FinishRefreshing(i) \/ Discard(i)

Settle(i) == FinishLoading(i) \/ FailLoading(i)

Life == Init /\ [][Next]_vars

Spec == Life /\ \A i \in Import : WF_vars(Settle(i))
=============================================================================
