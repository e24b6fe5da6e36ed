----------------------------- MODULE Turnstile -----------------------------
(***************************************************************************)
(* The turnstile (src/turnstile/mod.rs): payloads are recorded under a     *)
(* ticket before they go to a database, and the ticket is confirmed, or    *)
(* parked and retried, afterwards.  Its calls take &mut self, so they do   *)
(* not overlap; but they come in any order, saves of the state file fail,  *)
(* and the process may stop between any two steps.                         *)
(*                                                                         *)
(* A call is one step up to persist_state; the write and what the call     *)
(* does after it is a second step.  The application and the database are   *)
(* outside this repository: a ticket handed out may be reported accepted   *)
(* or rejected at any time, whatever retries make of it meanwhile, and the *)
(* callback of a retry may say anything.                                   *)
(***************************************************************************)
EXTENDS Integers

CONSTANTS
    Payloads,         \* payloads of the application
    NotJson,          \* what an edited payload may be: text that does not parse
    Timestamps,       \* timestamps it gives them
    MaxRetries,       \* max_retries
    LogOrphans,       \* log_orphans
    MaxAppends,       \* bound: calls of append
    MaxAttempts,      \* bound: retry_count that confirm_ticket still raises
    MaxFaults         \* bound: failed saves and restarts

ASSUME TurnstileAssumption ==
    /\ NotJson \notin Payloads
    /\ Timestamps \subseteq Nat
    /\ MaxRetries \in Nat
    /\ LogOrphans \in BOOLEAN
    /\ MaxAppends \in Nat /\ MaxAttempts \in Nat /\ MaxFaults \in Nat

VARIABLES
    prevLeafHash,  \* the hash the next ticket chains from
    pending,       \* ticket -> PendingEntry
    committed,     \* hashes of the leaves of the ledger
    orphans,       \* orphan events, each [leaf, orig]
    successes,     \* retry_success events, each [leaf, orig]
    saving,        \* the call that is in persist_state
    file,          \* what load_state would read
    cut,           \* the state file is cut off, so that nothing can be read
    wiped,         \* history: a process has started from such a file
    held,          \* tickets the application has yet to report on
    issued,        \* tickets append returned
    acknowledged,  \* tickets reported committed
    appends, faults

ledgerVars == <<prevLeafHash, pending, committed, orphans, successes>>
fileVars   == <<file, cut, wiped>>
vars       == <<ledgerVars, saving, fileVars, held, issued, acknowledged,
                appends, faults>>

----------------------------------------------------------------------------
(***************************************************************************)
(* compute_hash, taken as injective: the term says what was hashed.  The   *)
(* kind is the "type" field that sets the turnstile's own leaves apart.    *)
(***************************************************************************)
Genesis == <<>>

Hash(prev, kind, body) == <<prev, kind, body>>

Parent(hash) == hash[1]

NewEntry(prev, payload, ts) ==
    [prev |-> prev, payload |-> payload, timestamp |-> ts, retryCount |-> 0,
     status |-> "Pending"]

Put(f, key, value) ==
    [k \in DOMAIN f \cup {key} |-> IF k = key THEN value ELSE f[k]]

Drop(f, key) == [k \in DOMAIN f \ {key} |-> f[k]]

(* Mutant: the committed leaves are left out of the state file. *)
SnapshotWithoutLeaves ==
    [prev |-> prevLeafHash, pending |-> pending, committed |-> {},
     orphans |-> orphans, successes |-> successes]

(* PersistedState. *)
Snapshot ==
    [prev |-> prevLeafHash, pending |-> pending, committed |-> committed,
     orphans |-> orphans, successes |-> successes]

(* A new turnstile; also what a missing state file or one cut off leaves.  *)
Fresh ==
    [prev |-> Genesis, pending |-> [h \in {} |-> 0], committed |-> {},
     orphans |-> {}, successes |-> {}]

Idle == [then |-> "idle", leaf |-> Genesis]

Load(state) ==
    /\ prevLeafHash' = state.prev
    /\ pending' = state.pending
    /\ committed' = state.committed
    /\ orphans' = state.orphans
    /\ successes' = state.successes

Init ==
    /\ prevLeafHash = Genesis
    /\ pending = [h \in {} |-> 0]
    /\ committed = {}
    /\ orphans = {}
    /\ successes = {}
    /\ saving = Idle
    /\ file = Fresh
    /\ cut = FALSE
    /\ wiped = FALSE
    /\ held = {}
    /\ issued = {}
    /\ acknowledged = {}
    /\ appends = 0
    /\ faults = 0

----------------------------------------------------------------------------
(* The calls, up to persist_state. *)

Ready == saving = Idle

StartSaving(then, leaf) == saving' = [then |-> then, leaf |-> leaf]

(* The same payload on the same anchor is the same ticket: overwritten. *)
Append(payload, ts) ==
    /\ Ready
    /\ appends < MaxAppends
    /\ LET ticket == Hash(prevLeafHash, "data", payload)
       IN /\ pending' = Put(pending, ticket, NewEntry(prevLeafHash, payload, ts))
          /\ StartSaving("ticket", ticket)
    /\ appends' = appends + 1
    /\ UNCHANGED <<prevLeafHash, committed, orphans, successes, fileVars,
                   held, issued, acknowledged, faults>>

(* Mutants: the entry stays in the table; the chain is not advanced. *)
CommitInTable(ticket) ==
    /\ pending' = [pending EXCEPT ![ticket].status = "Committed"]
    /\ prevLeafHash' = ticket
    /\ committed' = committed \cup {ticket}
    /\ UNCHANGED <<orphans, successes>>

CommitWithoutAdvance(ticket) ==
    /\ pending' = Drop(pending, ticket)
    /\ committed' = committed \cup {ticket}
    /\ UNCHANGED <<prevLeafHash, orphans, successes>>

Commit(ticket) ==
    /\ pending' = Drop(pending, ticket)
    /\ prevLeafHash' = ticket
    /\ committed' = committed \cup {ticket}
    /\ UNCHANGED <<orphans, successes>>

(* confirm_ticket, accepted. *)
Confirm(ticket) ==
    /\ Ready
    /\ ticket \in held \cap DOMAIN pending
    /\ Commit(ticket)
    /\ StartSaving("confirmed", ticket)
    /\ held' = held \ {ticket}
    /\ UNCHANGED <<fileVars, issued, acknowledged, appends, faults>>

(* confirm_ticket of a ticket that is no longer there: NotFound. *)
ConfirmUnknown(ticket) ==
    /\ Ready
    /\ ticket \in held \ DOMAIN pending
    /\ held' = held \ {ticket}
    /\ UNCHANGED <<ledgerVars, saving, fileVars, issued, acknowledged, appends,
                   faults>>

(* Mutant: the orphan leaf is chained but not added to the ledger. *)
LogOrphanOutside(ticket) ==
    LET leaf == Hash(prevLeafHash, "orphan", ticket)
    IN IF LogOrphans
       THEN /\ prevLeafHash' = leaf
            /\ orphans' = orphans \cup {[leaf |-> leaf, orig |-> ticket]}
            /\ UNCHANGED committed
       ELSE UNCHANGED <<prevLeafHash, committed, orphans>>

(* The orphan leaf takes its place in the chain. *)
LogOrphan(ticket) ==
    LET leaf == Hash(prevLeafHash, "orphan", ticket)
    IN IF LogOrphans
       THEN /\ prevLeafHash' = leaf
            /\ committed' = committed \cup {leaf}
            /\ orphans' = orphans \cup {[leaf |-> leaf, orig |-> ticket]}
       ELSE UNCHANGED <<prevLeafHash, committed, orphans>>

(* Mutant: never given up. *)
FailedOnceMore(entry, givenUp) == [entry EXCEPT !.retryCount = @ + 1]

Failed(entry, givenUp) ==
    [entry EXCEPT !.retryCount = @ + 1,
                  !.status = IF givenUp THEN "FailedPermanent" ELSE @]

(***************************************************************************)
(* confirm_ticket, rejected; without a message there is no orphan.  The    *)
(* application may try the database again, and report again.               *)
(***************************************************************************)
Reject(ticket, message) ==
    /\ Ready
    /\ ticket \in held \cap DOMAIN pending
    /\ pending[ticket].retryCount < MaxAttempts
    /\ LET entry == pending[ticket]
       IN pending' = Put(pending, ticket,
                         Failed(entry, entry.retryCount + 1 > MaxRetries))
    /\ IF message THEN LogOrphan(ticket)
       ELSE UNCHANGED <<prevLeafHash, committed, orphans>>
    /\ StartSaving("rejected", ticket)
    /\ UNCHANGED <<successes, fileVars, held, issued, acknowledged, appends, faults>>

----------------------------------------------------------------------------
(* retry_next_pending *)

(* Mutant: none of two equally old entries is the oldest. *)
StrictlyOldest ==
    {h \in DOMAIN pending :
        /\ pending[h].status = "Pending"
        /\ \A k \in DOMAIN pending \ {h} :
              pending[k].status = "Pending" =>
                  pending[h].timestamp < pending[k].timestamp}

(* The oldest pending entries: HashMap order decides between equals. *)
Oldest ==
    {h \in DOMAIN pending :
        /\ pending[h].status = "Pending"
        /\ \A k \in DOMAIN pending :
              pending[k].status = "Pending" =>
                  pending[h].timestamp <= pending[k].timestamp}

(* compute_hash of the entry is not an error (one for a prev_hash that is  *)
(* not hex would have the same consequences).                              *)
Readable(h) == pending[h].payload # NotJson

Intact(h) == Readable(h) /\ Hash(pending[h].prev, "data", pending[h].payload) = h

(* Returns the error of compute_hash; the entry stays pending, and oldest. *)
RetryUnreadable ==
    /\ Ready
    /\ \E h \in Oldest : ~Readable(h)
    /\ UNCHANGED vars

(* Returns -2, and does not save. *)
RetryMismatch ==
    /\ Ready
    /\ \E h \in Oldest :
         /\ Readable(h) /\ ~Intact(h)
         /\ pending' = [pending EXCEPT ![h].status = "FailedPermanent"]
    /\ UNCHANGED <<prevLeafHash, committed, orphans, successes, saving, fileVars,
                   held, issued, acknowledged, appends, faults>>

(* The callback inserted the row: returns 0. *)
RetryCommits ==
    /\ Ready
    /\ \E h \in Oldest :
         /\ Intact(h)
         /\ Commit(h)
         /\ StartSaving("success", h)
    /\ UNCHANGED <<fileVars, held, issued, acknowledged, appends, faults>>

(* Mutant: an entry that is given up is removed. *)
RetryFailsAndRemoves ==
    /\ Ready
    /\ \E h \in Oldest :
         /\ Intact(h)
         /\ LET entry == pending[h]
            IN pending' = IF entry.retryCount + 1 >= MaxRetries THEN Drop(pending, h)
                          ELSE Put(pending, h, Failed(entry, FALSE))
         /\ LogOrphan(h)
         /\ StartSaving("rejected", h)
    /\ UNCHANGED <<successes, fileVars, held, issued, acknowledged, appends, faults>>

(* It did not: returns 1 or 2. *)
RetryFails ==
    /\ Ready
    /\ \E h \in Oldest :
         /\ Intact(h)
         /\ LET entry == pending[h]
            IN pending' = Put(pending, h,
                              Failed(entry, entry.retryCount + 1 >= MaxRetries))
         /\ LogOrphan(h)
         /\ StartSaving("rejected", h)
    /\ UNCHANGED <<successes, fileVars, held, issued, acknowledged, appends, faults>>

----------------------------------------------------------------------------
(* persist_state, and the rest of the call that was waiting for it. *)

(* Mutant: persist_state does not write. *)
NotSaved(then) ==
    /\ saving.then = then
    /\ saving' = Idle
    /\ UNCHANGED <<fileVars, appends, faults>>

Saved(then) ==
    /\ saving.then = then
    /\ file' = Snapshot /\ cut' = FALSE
    /\ saving' = Idle
    /\ UNCHANGED <<wiped, appends, faults>>

SaveTicket ==
    /\ Saved("ticket")
    /\ issued' = issued \cup {saving.leaf}
    /\ held' = held \cup {saving.leaf}
    /\ UNCHANGED <<ledgerVars, acknowledged>>

SaveConfirmation ==
    /\ Saved("confirmed")
    /\ acknowledged' = acknowledged \cup {saving.leaf}
    /\ UNCHANGED <<ledgerVars, held, issued>>

SaveRejection ==
    /\ Saved("rejected")
    /\ UNCHANGED <<ledgerVars, held, issued, acknowledged>>

(* log_success_leaf runs after persist_state: its leaf is not saved. *)
SaveSuccess ==
    /\ Saved("success")
    /\ acknowledged' = acknowledged \cup {saving.leaf}
    /\ LET leaf == Hash(prevLeafHash, "retry_success", saving.leaf)
       IN IF LogOrphans
          THEN /\ prevLeafHash' = leaf
               /\ committed' = committed \cup {leaf}
               /\ successes' = successes \cup {[leaf |-> leaf, orig |-> saving.leaf]}
          ELSE UNCHANGED <<prevLeafHash, committed, successes>>
    /\ UNCHANGED <<pending, orphans, held, issued>>

(***************************************************************************)
(* A write of the state file that does not come to its end: either it did  *)
(* not begin, or fs::write has truncated the file.                         *)
(***************************************************************************)
InterruptedWrite ==
    \/ UNCHANGED <<file, cut>>
    \/ file' = Fresh /\ cut' = TRUE

(* The call returns the error; what it did in memory stays. *)
SaveFails ==
    /\ ~Ready
    /\ faults < MaxFaults
    /\ faults' = faults + 1
    /\ InterruptedWrite
    /\ saving' = Idle
    /\ UNCHANGED <<ledgerVars, wiped, held, issued, acknowledged, appends>>

----------------------------------------------------------------------------
(***************************************************************************)
(* The process stops and a new one loads the state file, taking one that   *)
(* is cut off for none.  The application still has its tickets.  In        *)
(* between somebody may have edited a pending payload in the file.         *)
(***************************************************************************)
LoadAfterCrash ==
    /\ faults < MaxFaults
    /\ faults' = faults + 1
    /\ Load(file')
    /\ wiped' = (wiped \/ cut')
    /\ saving' = Idle
    /\ UNCHANGED <<held, issued, acknowledged, appends>>

(* Between two calls, or inside persist_state. *)
Restart ==
    /\ \/ UNCHANGED <<file, cut>>
       \/ ~Ready /\ InterruptedWrite
       \/ ~Ready /\ file' = Snapshot /\ cut' = FALSE
    /\ LoadAfterCrash

RestartTampered ==
    /\ \E h \in DOMAIN file.pending, payload \in Payloads \cup {NotJson} :
         /\ payload # file.pending[h].payload
         /\ file' = [file EXCEPT !.pending[h].payload = payload]
    /\ UNCHANGED cut
    /\ LoadAfterCrash

----------------------------------------------------------------------------
Retry == RetryUnreadable \/ RetryMismatch \/ RetryCommits \/ RetryFails

Finish == SaveTicket \/ SaveConfirmation \/ SaveRejection \/ SaveSuccess

Next ==
    \/ \E payload \in Payloads, ts \in Timestamps : Append(payload, ts)
    \/ \E ticket \in held : Confirm(ticket) \/ ConfirmUnknown(ticket)
    \/ \E ticket \in held, message \in BOOLEAN : Reject(ticket, message)
    \/ Retry
    \/ Finish
    \/ SaveFails
    \/ Restart
    \/ RestartTampered

Spec == Init /\ [][Next]_vars

(* A call comes to its end, and the background job retries again and again. *)
FairSpec == Spec /\ WF_vars(Finish) /\ WF_vars(Retry)
=============================================================================
