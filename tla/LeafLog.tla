------------------------------ MODULE LeafLog ------------------------------
(***************************************************************************)
(* What the journal promises about leaves, with pages, levels and rollups  *)
(* left out: a write-behind log.  A leaf is first held in memory, then     *)
(* written; it may be acknowledged in either place, and a fault may lose   *)
(* what is in memory only.  Journal implements it (Journal!ImplementsLog). *)
(***************************************************************************)
EXTENDS Naturals

CONSTANT Leaves     \* every leaf that can be appended

VARIABLES
    durable,        \* leaves in the storage backend
    volatile,       \* leaves in memory only
    acknowledged,   \* leaves append_leaf returned Ok for
    faults          \* failed writes so far

logVars == <<durable, volatile, acknowledged, faults>>

LogInit ==
    /\ durable = {}
    /\ volatile = {}
    /\ acknowledged = {}
    /\ faults = 0

(* A new leaf is taken into memory; nobody has been told yet. *)
Receive ==
    /\ \E leaf \in Leaves \ (durable \cup volatile \cup acknowledged) :
          volatile' = volatile \cup {leaf}
    /\ UNCHANGED <<durable, acknowledged, faults>>

(* Some leaves are written, and from then on they stay. *)
Persist ==
    /\ \E written \in SUBSET volatile :
          /\ durable' = durable \cup written
          /\ volatile' = volatile \ written
    /\ UNCHANGED <<acknowledged, faults>>

(* Only a leaf the log holds is acknowledged. *)
Acknowledge ==
    /\ \E leaf \in durable \cup volatile :
          acknowledged' = acknowledged \cup {leaf}
    /\ UNCHANGED <<durable, volatile, faults>>

(* A write fails: leaves that were in memory only may be gone. *)
Fault ==
    /\ volatile' \in SUBSET volatile
    /\ faults' = faults + 1
    /\ UNCHANGED <<durable, acknowledged>>

LogNext == Receive \/ Persist \/ Acknowledge \/ Fault

LogSpec == LogInit /\ [][LogNext]_logVars

(* Without a fault no acknowledged leaf is lost. *)
NothingLost == faults = 0 => acknowledged \subseteq durable \cup volatile
=============================================================================
