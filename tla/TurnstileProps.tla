--------------------------- MODULE TurnstileProps ---------------------------
(* What the turnstile promises to the application and to an auditor. *)
EXTENDS Turnstile

(* leaf_exists *)
LeafExists(hash) == hash \in DOMAIN pending \/ hash \in committed

Statuses == {"Pending", "FailedPermanent"}

Stages == {"idle", "ticket", "confirmed", "rejected", "success"}

(* Type invariant. *)
IsEntry(e) ==
    /\ e = [prev |-> e.prev, payload |-> e.payload, timestamp |-> e.timestamp,
            retryCount |-> e.retryCount, status |-> e.status]
    /\ e.payload \in Payloads \cup {NotJson}
    /\ e.timestamp \in Timestamps
    /\ e.retryCount \in Nat
    /\ e.status \in Statuses

IsTable(table) ==
    /\ table = [h \in DOMAIN table |-> table[h]]
    /\ \A h \in DOMAIN table : IsEntry(table[h])

TypeOK ==
    /\ IsTable(pending)
    /\ file = [prev |-> file.prev, pending |-> file.pending,
                committed |-> file.committed, orphans |-> file.orphans,
                successes |-> file.successes]
    /\ IsTable(file.pending)
    /\ cut \in BOOLEAN /\ wiped \in BOOLEAN
    /\ saving = [then |-> saving.then, leaf |-> saving.leaf]
    /\ saving.then \in Stages
    /\ appends \in 0 .. MaxAppends
    /\ faults \in 0 .. MaxFaults

----------------------------------------------------------------------------
(***************************************************************************)
(* The ledger hangs together: the next ticket, every pending ticket and    *)
(* every leaf chain from a leaf of the ledger or from the initial hash,    *)
(* whatever order tickets are confirmed, rejected and retried in.  It is a *)
(* tree, not a list: two tickets outstanding at once share their anchor.   *)
(***************************************************************************)
Rooted(prev, table, leaves) ==
    /\ prev \in leaves \cup {Genesis}
    /\ \A h \in DOMAIN table \cup leaves :
          /\ h = Hash(Parent(h), h[2], h[3])
          /\ Parent(h) \in leaves \cup {Genesis}
    /\ \A h \in DOMAIN table : table[h].prev = Parent(h)

LedgerRooted == Rooted(prevLeafHash, pending, committed)

(***************************************************************************)
(* No ticket is committed twice: not by a retry that overtakes the report  *)
(* of the application, not by a late report, not by appending a payload    *)
(* again.  A committed ticket is not pending, and one whose commit was     *)
(* reported back is not pending after a restart either, so that no retry   *)
(* takes it to the database again.  (A commit whose save failed or was cut *)
(* short by a crash was not reported back, and a restart undoes it although*)
(* the database has the row; and a state file that was cut off brings the  *)
(* process back to its beginning.)                                         *)
(***************************************************************************)
CommittedOnce ==
    /\ DOMAIN pending \cap committed = {}
    /\ ~wiped => DOMAIN pending \cap acknowledged = {}

(***************************************************************************)
(* The audit trail resolves: an orphan event is a leaf of the ledger and   *)
(* is about a ticket the turnstile still knows; a success event is about a *)
(* ticket that was committed.                                              *)
(***************************************************************************)
EventsResolve ==
    /\ \A e \in orphans : e.leaf \in committed /\ LeafExists(e.orig)
    /\ \A e \in successes : e.leaf \in committed /\ e.orig \in committed

(***************************************************************************)
(* A ticket handed to the application is lost (TURNSTILE.md: payloads get  *)
(* parked, "so no data is lost") in one way only: the process starts from  *)
(* a state file that an interrupted write has cut off.  While the process  *)
(* that could not write goes on nothing is lost, and its next save makes   *)
(* the file whole again.                                                   *)
(***************************************************************************)
TicketsKept == ~wiped => \A h \in issued : LeafExists(h)

(***************************************************************************)
(* A ticket reported as committed stays committed, when later saves fail   *)
(* and when the process restarts; with the same exception.                 *)
(***************************************************************************)
AcknowledgedStay == ~wiped => acknowledged \subseteq committed

(***************************************************************************)
(* confirm_ticket and retry_next_pending count the failures of an entry    *)
(* together, each with a limit of its own: between them an entry does not  *)
(* stay pending beyond max_retries, and, in a run without faults, is not   *)
(* given up before.                                                        *)
(***************************************************************************)
RetryBudget ==
    \A h \in DOMAIN pending :
        /\ pending[h].status = "Pending" => pending[h].retryCount <= MaxRetries
        /\ pending[h].status = "FailedPermanent" /\ faults = 0 =>
               pending[h].retryCount >= MaxRetries

(***************************************************************************)
(* The parking lot empties: once no more payloads come in, the retries get *)
(* round to every entry.  Unless the oldest entry is one whose payload was *)
(* edited into something that is not JSON: retry_next_pending returns the  *)
(* error of compute_hash without counting it or giving the entry up, and   *)
(* all the others wait behind it.                                          *)
(***************************************************************************)
Blocked == \E h \in Oldest : ~Readable(h)

ParkingLotEmpties ==
    <>[](Blocked \/ \A h \in DOMAIN pending : pending[h].status # "Pending")
=============================================================================
