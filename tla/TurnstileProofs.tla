-------------------------- MODULE TurnstileProofs --------------------------
(***************************************************************************)
(* Proofs about the turnstile, for all payloads, timestamps, retry limits  *)
(* and bounds.                                                             *)
(***************************************************************************)
EXTENDS TurnstileProps, TLAPS

USE DEF Genesis, Hash, Parent, fileVars

----------------------------------------------------------------------------
(* Tables. *)

(* A table with an entry put into it. *)
LEMMA PutTable ==
    ASSUME NEW f, NEW k, NEW e, IsTable(f), IsEntry(e)
    PROVE  IsTable(Put(f, k, e))
BY DEF IsTable, Put

(* A table with an entry taken out. *)
LEMMA DropTable ==
    ASSUME NEW f, NEW k, IsTable(f)
    PROVE  /\ IsTable(Drop(f, k))
           /\ DOMAIN Drop(f, k) = DOMAIN f \ {k}
           /\ \A h \in DOMAIN f \ {k} : Drop(f, k)[h] = f[h]
BY DEF IsTable, Drop

(* What append puts into the table. *)
LEMMA NewEntryIsEntry ==
    ASSUME NEW prev, NEW payload \in Payloads, NEW ts \in Timestamps
    PROVE  /\ IsEntry(NewEntry(prev, payload, ts))
           /\ NewEntry(prev, payload, ts).prev = prev
BY DEF IsEntry, NewEntry, Statuses

(* What a failed attempt makes of an entry. *)
LEMMA FailedIsEntry ==
    ASSUME NEW e, IsEntry(e), NEW givenUp \in BOOLEAN
    PROVE  /\ IsEntry(Failed(e, givenUp))
           /\ Failed(e, givenUp).prev = e.prev
           /\ Failed(e, givenUp).payload = e.payload
           /\ Failed(e, givenUp).retryCount = e.retryCount + 1
           /\ Failed(e, givenUp).status = IF givenUp THEN "FailedPermanent" ELSE e.status
<1>1. Failed(e, givenUp) =
         [prev |-> e.prev, payload |-> e.payload, timestamp |-> e.timestamp,
          retryCount |-> e.retryCount + 1,
          status |-> IF givenUp THEN "FailedPermanent" ELSE e.status]
  <2> DEFINE status == IF givenUp THEN "FailedPermanent" ELSE e.status
             once == [e EXCEPT !.retryCount = @ + 1]
  <2>1. e = [prev |-> e.prev, payload |-> e.payload, timestamp |-> e.timestamp,
             retryCount |-> e.retryCount, status |-> e.status]
    BY DEF IsEntry
  <2>2. once = [prev |-> e.prev, payload |-> e.payload, timestamp |-> e.timestamp,
                retryCount |-> e.retryCount + 1, status |-> e.status]
    BY <2>1
  <2>3. Failed(e, givenUp) = [once EXCEPT !.status = status]
    BY <2>1 DEF Failed
  <2> HIDE DEF status, once
  <2>4. [once EXCEPT !.status = status] =
           [prev |-> e.prev, payload |-> e.payload, timestamp |-> e.timestamp,
            retryCount |-> e.retryCount + 1, status |-> status]
    BY <2>2
  <2> QED
    BY <2>3, <2>4 DEF status
<1>2. e.payload \in Payloads \cup {NotJson} /\ e.timestamp \in Timestamps
      /\ e.retryCount + 1 \in Nat
      /\ (IF givenUp THEN "FailedPermanent" ELSE e.status) \in Statuses
  BY DEF IsEntry, Statuses
<1> QED
  BY <1>1, <1>2 DEF IsEntry

(* A field of an entry can be edited in place. *)
LEMMA EditEntry ==
    ASSUME NEW e, IsEntry(e), NEW status \in Statuses, NEW payload \in Payloads \cup {NotJson}
    PROVE  /\ IsEntry([e EXCEPT !.status = status])
           /\ [e EXCEPT !.status = status].prev = e.prev
           /\ [e EXCEPT !.status = status].status = status
           /\ [e EXCEPT !.status = status].retryCount = e.retryCount
           /\ IsEntry([e EXCEPT !.payload = payload])
           /\ [e EXCEPT !.payload = payload].prev = e.prev
           /\ [e EXCEPT !.payload = payload].status = e.status
           /\ [e EXCEPT !.payload = payload].retryCount = e.retryCount
<1>1. e = [prev |-> e.prev, payload |-> e.payload, timestamp |-> e.timestamp,
           retryCount |-> e.retryCount, status |-> e.status]
  BY DEF IsEntry
<1>2. [e EXCEPT !.status = status] =
         [prev |-> e.prev, payload |-> e.payload, timestamp |-> e.timestamp,
          retryCount |-> e.retryCount, status |-> status]
  BY <1>1
<1>3. [e EXCEPT !.payload = payload] =
         [prev |-> e.prev, payload |-> payload, timestamp |-> e.timestamp,
          retryCount |-> e.retryCount, status |-> e.status]
  BY <1>1
<1> QED
  BY <1>2, <1>3 DEF IsEntry

(* A step of the model takes entries to entries and never spoils the file. *)
LEMMA TypeStep == TypeOK /\ [Next]_vars => TypeOK'
<1> SUFFICES ASSUME TypeOK, [Next]_vars PROVE TypeOK'
  OBVIOUS
<1> USE TurnstileAssumption
<1>1. ASSUME NEW payload \in Payloads, NEW ts \in Timestamps, Append(payload, ts)
      PROVE  TypeOK'
  <2>1. IsTable(pending')
    BY <1>1, NewEntryIsEntry, PutTable DEF Append, TypeOK
  <2> QED
    BY <1>1, <2>1 DEF Append, TypeOK, StartSaving, Stages, IsTable
<1>2. ASSUME NEW ticket \in DOMAIN pending, Commit(ticket) PROVE IsTable(pending')
  BY <1>2, DropTable DEF Commit, TypeOK
<1>3. ASSUME NEW ticket \in DOMAIN pending, NEW givenUp \in BOOLEAN,
             pending' = Put(pending, ticket, Failed(pending[ticket], givenUp))
      PROVE  IsTable(pending')
  <2>1. IsEntry(pending[ticket])
    BY DEF TypeOK, IsTable
  <2> QED
    BY <1>3, <2>1, FailedIsEntry, PutTable DEF TypeOK
<1>4. ASSUME NEW ticket \in held, Confirm(ticket) PROVE TypeOK'
  BY <1>2, <1>4 DEF Confirm, TypeOK, StartSaving, Stages
<1>5. ASSUME NEW ticket \in held, ConfirmUnknown(ticket) PROVE TypeOK'
  BY <1>5 DEF ConfirmUnknown, TypeOK, ledgerVars
<1>6. ASSUME NEW ticket \in held, NEW message \in BOOLEAN, Reject(ticket, message)
      PROVE  TypeOK'
  <2> DEFINE givenUp == pending[ticket].retryCount + 1 > MaxRetries
  <2>1. pending' = Put(pending, ticket, Failed(pending[ticket], givenUp))
        /\ ticket \in DOMAIN pending /\ givenUp \in BOOLEAN
    BY <1>6 DEF Reject
  <2> HIDE DEF givenUp
  <2>2. IsTable(pending')
    BY <1>3, <2>1
  <2> QED
    BY <1>6, <2>2 DEF Reject, TypeOK, StartSaving, Stages
<1>7. CASE RetryMismatch
  <2>1. PICK h \in Oldest : pending' = [pending EXCEPT ![h].status = "FailedPermanent"]
    BY <1>7 DEF RetryMismatch
  <2>2. h \in DOMAIN pending /\ IsEntry(pending[h])
    BY DEF Oldest, TypeOK, IsTable
  <2>3. IsEntry([pending[h] EXCEPT !.status = "FailedPermanent"])
    BY <2>2, EditEntry DEF Statuses, IsEntry
  <2>4. pending' = Put(pending, h, [pending[h] EXCEPT !.status = "FailedPermanent"])
    BY <2>1, <2>2 DEF TypeOK, IsTable, Put
  <2>5. IsTable(pending')
    BY <2>3, <2>4, PutTable DEF TypeOK
  <2> QED
    BY <1>7, <2>5 DEF RetryMismatch, TypeOK
<1>8. CASE RetryCommits
  BY <1>2, <1>8 DEF RetryCommits, Oldest, TypeOK, StartSaving, Stages
<1>9. CASE RetryFails
  <2>1. PICK h \in Oldest :
               pending' = Put(pending, h, Failed(pending[h],
                              pending[h].retryCount + 1 >= MaxRetries))
    BY <1>9 DEF RetryFails
  <2> DEFINE givenUp == pending[h].retryCount + 1 >= MaxRetries
  <2>2. pending' = Put(pending, h, Failed(pending[h], givenUp))
        /\ h \in DOMAIN pending /\ givenUp \in BOOLEAN
    BY <2>1 DEF Oldest
  <2> HIDE DEF givenUp
  <2>3. IsTable(pending')
    BY <1>3, <2>2
  <2> QED
    BY <1>9, <2>3 DEF RetryFails, TypeOK, StartSaving, Stages
<1>10. ASSUME NEW then, Saved(then), UNCHANGED pending PROVE TypeOK'
  BY <1>10 DEF Saved, Snapshot, Idle, Stages, TypeOK
<1>11. CASE Finish
  BY <1>10, <1>11 DEF Finish, SaveTicket, SaveConfirmation, SaveRejection,
                      SaveSuccess, ledgerVars
<1>12. /\ IsTable(Fresh.pending)
       /\ Fresh = [prev |-> Fresh.prev, pending |-> Fresh.pending,
                   committed |-> Fresh.committed, orphans |-> Fresh.orphans,
                   successes |-> Fresh.successes]
  BY DEF Fresh, IsTable
<1>13. CASE SaveFails
  <2>1. file' \in {file, Fresh} /\ cut' \in BOOLEAN
    BY <1>13 DEF SaveFails, InterruptedWrite, TypeOK
  <2> QED
    BY <1>12, <1>13, <2>1 DEF SaveFails, Idle, Stages, TypeOK, ledgerVars
<1>14. CASE Restart
  <2>1. file' \in {file, Fresh, Snapshot} /\ cut' \in BOOLEAN
    BY <1>14 DEF Restart, InterruptedWrite, TypeOK
  <2>2. /\ IsTable(Snapshot.pending)
        /\ Snapshot = [prev |-> Snapshot.prev, pending |-> Snapshot.pending,
                       committed |-> Snapshot.committed, orphans |-> Snapshot.orphans,
                       successes |-> Snapshot.successes]
    BY DEF Snapshot, TypeOK
  <2> QED
    BY <1>12, <1>14, <2>1, <2>2 DEF Restart, LoadAfterCrash, Load, Idle, Stages, TypeOK
<1>15. CASE RestartTampered
  <2>1. PICK h \in DOMAIN file.pending, payload \in Payloads \cup {NotJson} :
               file' = [file EXCEPT !.pending[h].payload = payload]
    BY <1>15 DEF RestartTampered
  <2>2. IsEntry(file.pending[h])
    BY DEF TypeOK, IsTable
  <2>3. IsEntry([file.pending[h] EXCEPT !.payload = payload])
    BY <2>2, EditEntry DEF Statuses, IsEntry
  <2>4. IsTable([file.pending EXCEPT ![h].payload = payload])
    <3>1. [file.pending EXCEPT ![h].payload = payload] =
             Put(file.pending, h, [file.pending[h] EXCEPT !.payload = payload])
      BY DEF TypeOK, IsTable, Put
    <3> QED
      BY <2>3, <3>1, PutTable DEF TypeOK
  <2>5. file' = [prev |-> file.prev,
                 pending |-> [file.pending EXCEPT ![h].payload = payload],
                 committed |-> file.committed, orphans |-> file.orphans,
                 successes |-> file.successes]
    BY <2>1 DEF TypeOK
  <2> QED
    BY <1>15, <2>4, <2>5 DEF RestartTampered, LoadAfterCrash, Load, Idle, Stages, TypeOK
<1>16. CASE UNCHANGED vars
  BY <1>16 DEF vars, ledgerVars, TypeOK, IsTable
<1> QED
  BY <1>1, <1>4, <1>5, <1>6, <1>7, <1>8, <1>9, <1>11, <1>13, <1>14, <1>15, <1>16
     DEF Next, Retry, RetryUnreadable

----------------------------------------------------------------------------
(***************************************************************************)
(* What makes a turnstile state sound, in memory or in the state file.     *)
(* Beyond LedgerRooted and CommittedOnce: pending hashes are data leaves,  *)
(* and no leaf of the ledger chains from the hash the next one will chain  *)
(* from, so that a new hash is new.                                        *)
(***************************************************************************)
Sound(prev, table, leaves) ==
    /\ Rooted(prev, table, leaves)
    /\ DOMAIN table \cap leaves = {}
    /\ \A h \in DOMAIN table : h[2] = "data"
    /\ \A h \in leaves : Parent(h) # prev

(* A data entry that is not in the ledger can be put into the table. *)
LEMMA SoundPut ==
    ASSUME NEW prev, NEW table, NEW leaves, NEW k, NEW e,
           Sound(prev, table, leaves), IsTable(table), IsEntry(e),
           k = Hash(Parent(k), "data", k[3]), Parent(k) \in leaves \cup {Genesis},
           k \notin leaves, e.prev = Parent(k)
    PROVE  Sound(prev, Put(table, k, e), leaves)
<1>1. /\ DOMAIN Put(table, k, e) = DOMAIN table \cup {k}
      /\ Put(table, k, e)[k] = e
      /\ \A h \in DOMAIN table : h # k => Put(table, k, e)[h] = table[h]
  BY DEF Put
<1>2. k[2] = "data"
  OBVIOUS
<1>3. \A h \in DOMAIN Put(table, k, e) : Put(table, k, e)[h].prev = Parent(h)
  <2>1. \A h \in DOMAIN table : table[h].prev = Parent(h)
    BY DEF Sound, Rooted
  <2>2. Parent(k) = e.prev
    OBVIOUS
  <2> QED
    BY <1>1, <2>1, <2>2, Zenon
<1> QED
  BY <1>1, <1>2, <1>3 DEF Sound, Rooted

(* A pending ticket can move to the ledger and become the last leaf. *)
LEMMA SoundCommit ==
    ASSUME NEW prev, NEW table, NEW leaves, NEW k \in DOMAIN table,
           Sound(prev, table, leaves), IsTable(table)
    PROVE  Sound(k, Drop(table, k), leaves \cup {k})
<1>1. /\ DOMAIN Drop(table, k) = DOMAIN table \ {k}
      /\ \A h \in DOMAIN table \ {k} : Drop(table, k)[h] = table[h]
  BY DropTable
<1>2. \A h \in DOMAIN Drop(table, k) : Drop(table, k)[h].prev = Parent(h)
  <2>1. \A h \in DOMAIN table : table[h].prev = Parent(h)
    BY DEF Sound, Rooted
  <2> QED
    BY <1>1, <2>1, Zenon
<1>3. k \notin leaves /\ k # Genesis
  BY DEF Sound, Rooted
<1>4. \A h \in leaves \cup {k} : Parent(h) # k
  BY <1>3 DEF Sound, Rooted
<1>5. Rooted(k, Drop(table, k), leaves \cup {k})
  BY <1>1, <1>2 DEF Sound, Rooted
<1> QED
  BY <1>1, <1>4, <1>5 DEF Sound

(* The turnstile's own leaf can be added after the last one. *)
LEMMA SoundLeaf ==
    ASSUME NEW prev, NEW table, NEW leaves, NEW kind, kind # "data", NEW body,
           Sound(prev, table, leaves)
    PROVE  Sound(Hash(prev, kind, body), table, leaves \cup {Hash(prev, kind, body)})
<1> DEFINE leaf == Hash(prev, kind, body)
<1>1. Parent(leaf) = prev /\ leaf[2] = kind /\ leaf[3] = body /\ leaf # Genesis
  OBVIOUS
<1>2. leaf \notin leaves /\ leaf \notin DOMAIN table
  BY <1>1 DEF Sound
<1>3. \A h \in leaves \cup {leaf} : Parent(h) # leaf
  BY <1>1, <1>2 DEF Sound, Rooted
<1>4. Rooted(leaf, table, leaves \cup {leaf})
  BY <1>1 DEF Sound, Rooted
<1> HIDE DEF leaf
<1>5. Sound(leaf, table, leaves \cup {leaf})
  BY <1>2, <1>3, <1>4 DEF Sound
<1> QED
  BY <1>5 DEF leaf

(* An entry of the table can be replaced by one with the same anchor. *)
LEMMA SoundEdit ==
    ASSUME NEW prev, NEW table, NEW leaves, NEW k \in DOMAIN table, NEW e,
           Sound(prev, table, leaves), IsTable(table), IsEntry(e),
           e.prev = table[k].prev
    PROVE  Sound(prev, Put(table, k, e), leaves)
<1>1. /\ k = Hash(Parent(k), "data", k[3])
      /\ Parent(k) \in leaves \cup {Genesis}
      /\ k \notin leaves
      /\ e.prev = Parent(k)
  BY DEF Sound, Rooted
<1> QED
  BY <1>1, SoundPut

(* A turnstile without a state file. *)
LEMMA FreshIsSound == Sound(Fresh.prev, Fresh.pending, Fresh.committed)
BY DEF Sound, Rooted, Fresh

MemorySound == Sound(prevLeafHash, pending, committed)

FileSound == Sound(file.prev, file.pending, file.committed)

IInv == TypeOK /\ MemorySound /\ FileSound

(* The turnstile starts sound. *)
LEMMA InitSound == Init => IInv
<1> SUFFICES ASSUME Init PROVE IInv
  OBVIOUS
<1>1. /\ prevLeafHash = Fresh.prev /\ pending = Fresh.pending
      /\ committed = Fresh.committed /\ file = Fresh
  BY DEF Init, Fresh
<1>2. MemorySound /\ FileSound
  BY <1>1, FreshIsSound DEF MemorySound, FileSound
<1>3. IsTable(pending) /\ IsTable(file.pending)
  BY DEF Init, IsTable, Fresh
<1>4. file = [prev |-> file.prev, pending |-> file.pending,
               committed |-> file.committed, orphans |-> file.orphans,
               successes |-> file.successes]
  BY <1>1 DEF Fresh
<1>5. /\ saving = [then |-> saving.then, leaf |-> saving.leaf]
      /\ saving.then \in Stages
  BY DEF Init, Idle, Stages
<1>6. appends \in 0 .. MaxAppends /\ faults \in 0 .. MaxFaults
  BY TurnstileAssumption DEF Init
<1>7. cut \in BOOLEAN /\ wiped \in BOOLEAN
  BY DEF Init
<1>8. TypeOK
  BY <1>3, <1>4, <1>5, <1>6, <1>7 DEF TypeOK
<1> QED
  BY <1>2, <1>8 DEF IInv

(* Every step keeps the memory and the state file sound. *)
LEMMA SoundStep == IInv /\ [Next]_vars => (MemorySound /\ FileSound)'
<1> SUFFICES ASSUME IInv, [Next]_vars PROVE MemorySound' /\ FileSound'
  OBVIOUS
<1>0. IsTable(pending) /\ IsTable(file.pending) /\ MemorySound /\ FileSound
  BY DEF IInv, TypeOK
<1>1. ASSUME NEW payload \in Payloads, NEW ts \in Timestamps, Append(payload, ts)
      PROVE  MemorySound' /\ FileSound'
  <2> DEFINE ticket == Hash(prevLeafHash, "data", payload)
             entry == NewEntry(prevLeafHash, payload, ts)
  <2>1. /\ pending' = Put(pending, ticket, entry)
        /\ UNCHANGED <<prevLeafHash, committed, file>>
    BY <1>1 DEF Append
  <2>2. /\ ticket = Hash(Parent(ticket), "data", ticket[3])
        /\ Parent(ticket) = prevLeafHash
    OBVIOUS
  <2>3. ticket \notin committed /\ prevLeafHash \in committed \cup {Genesis}
    BY <1>0, <2>2 DEF MemorySound, Sound, Rooted
  <2>4. IsEntry(entry) /\ entry.prev = prevLeafHash
    BY NewEntryIsEntry
  <2> HIDE DEF ticket, entry
  <2>5. Sound(prevLeafHash, Put(pending, ticket, entry), committed)
    BY <1>0, <2>2, <2>3, <2>4, SoundPut DEF MemorySound
  <2> QED
    BY <1>0, <2>1, <2>5 DEF MemorySound, FileSound
<1>2. ASSUME NEW ticket \in DOMAIN pending, Commit(ticket) PROVE MemorySound'
  BY <1>0, <1>2, SoundCommit DEF Commit, MemorySound
<1>3. ASSUME NEW ticket \in DOMAIN pending, NEW givenUp \in BOOLEAN,
             pending' = Put(pending, ticket, Failed(pending[ticket], givenUp)),
             \/ LogOrphan(ticket)
             \/ UNCHANGED <<prevLeafHash, committed, orphans>>
      PROVE  MemorySound'
  <2>1. IsEntry(pending[ticket])
    BY <1>0 DEF IsTable
  <2>2. /\ IsEntry(Failed(pending[ticket], givenUp))
        /\ Failed(pending[ticket], givenUp).prev = pending[ticket].prev
    BY <2>1, FailedIsEntry
  <2>3. Sound(prevLeafHash, pending', committed)
    BY <1>0, <1>3, <2>2, SoundEdit DEF MemorySound
  <2>4. Sound(Hash(prevLeafHash, "orphan", ticket), pending',
              committed \cup {Hash(prevLeafHash, "orphan", ticket)})
    BY <2>3, SoundLeaf
  <2> QED
    BY <1>3, <2>3, <2>4 DEF LogOrphan, MemorySound
<1>4. ASSUME NEW ticket \in held, Confirm(ticket) PROVE MemorySound' /\ FileSound'
  BY <1>0, <1>2, <1>4 DEF Confirm, FileSound
<1>5. ASSUME NEW ticket \in held, ConfirmUnknown(ticket)
      PROVE  MemorySound' /\ FileSound'
  BY <1>0, <1>5 DEF ConfirmUnknown, ledgerVars, MemorySound, FileSound
<1>6. ASSUME NEW ticket \in held, NEW message \in BOOLEAN, Reject(ticket, message)
      PROVE  MemorySound' /\ FileSound'
  <2> DEFINE givenUp == pending[ticket].retryCount + 1 > MaxRetries
  <2>1. /\ pending' = Put(pending, ticket, Failed(pending[ticket], givenUp))
        /\ ticket \in DOMAIN pending /\ givenUp \in BOOLEAN
        /\ LogOrphan(ticket) \/ UNCHANGED <<prevLeafHash, committed, orphans>>
        /\ UNCHANGED file
    BY <1>6 DEF Reject
  <2> HIDE DEF givenUp
  <2> QED
    BY <1>0, <1>3, <2>1 DEF FileSound
<1>7. CASE RetryMismatch
  <2>1. PICK h \in Oldest : pending' = [pending EXCEPT ![h].status = "FailedPermanent"]
    BY <1>7 DEF RetryMismatch
  <2>2. h \in DOMAIN pending /\ IsEntry(pending[h])
    BY <1>0 DEF Oldest, IsTable
  <2> DEFINE e == [pending[h] EXCEPT !.status = "FailedPermanent"]
  <2>3. IsEntry(e) /\ e.prev = pending[h].prev
    BY <2>2, EditEntry DEF Statuses, IsEntry
  <2>4. pending' = Put(pending, h, e)
    BY <1>0, <2>1, <2>2 DEF IsTable, Put
  <2> HIDE DEF e
  <2> QED
    BY <1>0, <1>7, <2>2, <2>3, <2>4, SoundEdit DEF RetryMismatch, MemorySound, FileSound
<1>8. CASE RetryCommits
  BY <1>0, <1>2, <1>8 DEF RetryCommits, Oldest, FileSound
<1>9. CASE RetryFails
  <2>1. PICK h \in Oldest :
           /\ pending' = Put(pending, h, Failed(pending[h],
                             pending[h].retryCount + 1 >= MaxRetries))
           /\ LogOrphan(h)
    BY <1>9 DEF RetryFails
  <2> DEFINE givenUp == pending[h].retryCount + 1 >= MaxRetries
  <2>2. /\ pending' = Put(pending, h, Failed(pending[h], givenUp))
        /\ h \in DOMAIN pending /\ givenUp \in BOOLEAN
    BY <2>1 DEF Oldest
  <2> HIDE DEF givenUp
  <2> QED
    BY <1>0, <1>3, <1>9, <2>1, <2>2 DEF RetryFails, FileSound
<1>10. ASSUME NEW then, Saved(then) PROVE FileSound'
  BY <1>0, <1>10 DEF Saved, Snapshot, MemorySound, FileSound
<1>11. CASE SaveTicket \/ SaveConfirmation \/ SaveRejection
  BY <1>0, <1>10, <1>11 DEF SaveTicket, SaveConfirmation, SaveRejection, ledgerVars,
                           MemorySound
<1>12. CASE SaveSuccess
  <2>1. Sound(Hash(prevLeafHash, "retry_success", saving.leaf), pending,
              committed \cup {Hash(prevLeafHash, "retry_success", saving.leaf)})
    BY <1>0, SoundLeaf DEF MemorySound
  <2> QED
    BY <1>0, <1>10, <1>12, <2>1 DEF SaveSuccess, MemorySound
<1>13. CASE SaveFails
  <2>1. file' \in {file, Fresh} /\ UNCHANGED ledgerVars
    BY <1>13 DEF SaveFails, InterruptedWrite
  <2> QED
    BY <1>0, <2>1, FreshIsSound DEF ledgerVars, MemorySound, FileSound
<1>14. ASSUME Load(file'), FileSound' PROVE MemorySound'
  BY <1>14 DEF Load, MemorySound, FileSound
<1>15. CASE Restart
  <2>1. file' \in {file, Fresh, Snapshot} /\ Load(file')
    BY <1>15 DEF Restart, LoadAfterCrash, InterruptedWrite
  <2>2. FileSound'
    BY <1>0, <2>1, FreshIsSound DEF FileSound, MemorySound, Snapshot
  <2> QED
    BY <1>14, <2>1, <2>2
<1>16. CASE RestartTampered
  <2>1. PICK h \in DOMAIN file.pending, payload \in Payloads \cup {NotJson} :
               file' = [file EXCEPT !.pending[h].payload = payload]
    BY <1>16 DEF RestartTampered
  <2> DEFINE e == [file.pending[h] EXCEPT !.payload = payload]
  <2>2. IsEntry(file.pending[h])
    BY <1>0 DEF IsTable
  <2>3. IsEntry(e) /\ e.prev = file.pending[h].prev
    BY <2>2, EditEntry DEF Statuses, IsEntry
  <2>4. [file.pending EXCEPT ![h].payload = payload] = Put(file.pending, h, e)
    BY <1>0 DEF IsTable, Put
  <2>5. /\ file'.prev = file.prev /\ file'.committed = file.committed
        /\ file'.pending = [file.pending EXCEPT ![h].payload = payload]
    BY <2>1 DEF IInv, TypeOK
  <2> HIDE DEF e
  <2>6. Sound(file.prev, Put(file.pending, h, e), file.committed)
    BY <1>0, <2>3, SoundEdit DEF FileSound
  <2>7. FileSound'
    BY <2>4, <2>5, <2>6 DEF FileSound
  <2> QED
    BY <1>14, <1>16, <2>7 DEF RestartTampered, LoadAfterCrash
<1>17. CASE UNCHANGED vars
  BY <1>0, <1>17 DEF vars, ledgerVars, MemorySound, FileSound
<1> QED
  BY <1>1, <1>4, <1>5, <1>6, <1>7, <1>8, <1>9, <1>11, <1>12, <1>13, <1>15, <1>16, <1>17
     DEF Next, Retry, RetryUnreadable, Finish

(***************************************************************************)
(* Type correctness, LedgerRooted and CommittedOnce, for any payloads and  *)
(* limits, any order of calls, failing saves, restarts, broken and edited  *)
(* state files.                                                            *)
(***************************************************************************)
THEOREM SpecSound == Spec => []IInv
<1>1. IInv /\ [Next]_vars => IInv'
  BY TypeStep, SoundStep DEF IInv
<1> QED
  BY InitSound, <1>1, PTL DEF Spec

(* Type correctness of the turnstile and of its state file. *)
THEOREM SpecTypeOK == Spec => []TypeOK
<1>1. IInv => TypeOK
  BY DEF IInv
<1> QED
  BY SpecSound, <1>1, PTL

(* The ledger hangs together (turnstile/mod.rs: every prev_hash used). *)
THEOREM SpecLedgerRooted == Spec => []LedgerRooted
<1>1. IInv => LedgerRooted
  BY DEF IInv, MemorySound, Sound, LedgerRooted
<1> QED
  BY SpecSound, <1>1, PTL

----------------------------------------------------------------------------
(***************************************************************************)
(* Within one process nothing leaves the turnstile: what is pending or in  *)
(* the ledger stays pending or in the ledger, and the ledger grows.        *)
(***************************************************************************)
Grows ==
    /\ DOMAIN pending \cup committed \subseteq DOMAIN pending' \cup committed'
    /\ committed \subseteq committed'

(* No call forgets a leaf or a ticket; only loading the state file may. *)
LEMMA CallGrows == Next => Grows \/ LoadAfterCrash
<1> SUFFICES ASSUME Next PROVE Grows \/ LoadAfterCrash
  OBVIOUS
<1>1. ASSUME NEW ticket, NEW e, pending' = Put(pending, ticket, e),
             committed \subseteq committed'
      PROVE  Grows
  BY <1>1 DEF Put, Grows
<1>2. ASSUME NEW ticket, Commit(ticket) PROVE Grows
  BY <1>2 DEF Commit, Drop, Grows
<1>3. ASSUME NEW payload \in Payloads, NEW ts \in Timestamps, Append(payload, ts)
      PROVE  Grows
  BY <1>1, <1>3 DEF Append
<1>4. ASSUME NEW ticket \in held, Confirm(ticket) \/ ConfirmUnknown(ticket)
      PROVE  Grows
  BY <1>2, <1>4 DEF Confirm, ConfirmUnknown, ledgerVars, Grows
<1>5. ASSUME NEW ticket \in held, NEW message \in BOOLEAN, Reject(ticket, message)
      PROVE  Grows
  <2>1. committed \subseteq committed'
    BY <1>5 DEF Reject, LogOrphan
  <2> QED
    BY <1>1, <1>5, <2>1 DEF Reject
<1>6. CASE RetryMismatch
  BY <1>6 DEF RetryMismatch, Grows
<1>7. CASE RetryCommits
  BY <1>2, <1>7 DEF RetryCommits
<1>8. CASE RetryFails
  <2>1. committed \subseteq committed'
    BY <1>8 DEF RetryFails, LogOrphan
  <2> QED
    BY <1>1, <1>8, <2>1 DEF RetryFails
<1>9. CASE Finish \/ SaveFails
  BY <1>9 DEF Finish, SaveTicket, SaveConfirmation, SaveRejection, SaveSuccess,
              SaveFails, ledgerVars, Grows
<1>10. CASE RetryUnreadable
  BY <1>10 DEF RetryUnreadable, vars, ledgerVars, Grows
<1> QED
  BY <1>3, <1>4, <1>5, <1>6, <1>7, <1>8, <1>9, <1>10
     DEF Next, Retry, Restart, RestartTampered

(* What load_state brings back is the file, up to an edited payload. *)
LEMMA LoadedFile ==
    ASSUME TypeOK, Restart \/ RestartTampered
    PROVE  /\ LoadAfterCrash
           /\ \/ UNCHANGED <<file, cut>>
              \/ file' = Fresh /\ cut' = TRUE
              \/ file' = Snapshot /\ cut' = FALSE
              \/ \E h \in DOMAIN file.pending, payload \in Payloads \cup {NotJson} :
                    /\ UNCHANGED cut
                    /\ file' = [prev |-> file.prev,
                                pending |-> [file.pending EXCEPT ![h].payload = payload],
                                committed |-> file.committed, orphans |-> file.orphans,
                                successes |-> file.successes]
<1>1. CASE Restart
  BY <1>1 DEF Restart, InterruptedWrite
<1>2. CASE RestartTampered
  <2>1. PICK h \in DOMAIN file.pending, payload \in Payloads \cup {NotJson} :
               file' = [file EXCEPT !.pending[h].payload = payload]
    BY <1>2 DEF RestartTampered
  <2>2. file' = [prev |-> file.prev,
                 pending |-> [file.pending EXCEPT ![h].payload = payload],
                 committed |-> file.committed, orphans |-> file.orphans,
                 successes |-> file.successes]
    BY <2>1 DEF TypeOK
  <2> QED
    BY <1>2, <2>2 DEF RestartTampered
<1> QED
  BY <1>1, <1>2

----------------------------------------------------------------------------
(***************************************************************************)
(* A call that is still saving has not promised anything yet; its leaf is  *)
(* in memory, from where it gets into the file before the call returns.    *)
(***************************************************************************)
SavingCovered ==
    /\ saving.then = "ticket" => saving.leaf \in DOMAIN pending \cup committed
    /\ saving.then \in {"confirmed", "success"} => saving.leaf \in committed

(* What the call in persist_state is about stays known. *)
LEMMA SavingStep == SavingCovered /\ [Next]_vars => SavingCovered'
<1> SUFFICES ASSUME SavingCovered, [Next]_vars PROVE SavingCovered'
  OBVIOUS
<1> USE DEF SavingCovered
<1>1. ASSUME NEW payload \in Payloads, NEW ts \in Timestamps, Append(payload, ts)
      PROVE  SavingCovered'
  <2>1. /\ saving' = [then |-> "ticket", leaf |-> Hash(prevLeafHash, "data", payload)]
        /\ pending' = Put(pending, Hash(prevLeafHash, "data", payload),
                          NewEntry(prevLeafHash, payload, ts))
    BY <1>1 DEF Append, StartSaving
  <2>2. saving'.leaf \in DOMAIN pending'
    BY <2>1 DEF Put
  <2> QED
    BY <2>1, <2>2
<1>2. ASSUME NEW ticket \in held, Confirm(ticket) PROVE SavingCovered'
  BY <1>2 DEF Confirm, Commit, StartSaving
<1>3. ASSUME NEW ticket \in held, ConfirmUnknown(ticket) PROVE SavingCovered'
  BY <1>3 DEF ConfirmUnknown, ledgerVars
<1>4. ASSUME NEW ticket \in held, NEW message \in BOOLEAN, Reject(ticket, message)
      PROVE  SavingCovered'
  BY <1>4 DEF Reject, StartSaving
<1>5. CASE Retry
  BY <1>5 DEF Retry, RetryUnreadable, RetryMismatch, RetryCommits, RetryFails, Commit,
              Ready, Idle, StartSaving, vars, ledgerVars
<1>6. CASE Finish \/ SaveFails \/ Restart \/ RestartTampered
  BY <1>6 DEF Finish, SaveTicket, SaveConfirmation, SaveRejection, SaveSuccess,
              Saved, SaveFails, Restart, RestartTampered, LoadAfterCrash, Idle
<1>7. CASE UNCHANGED vars
  BY <1>7 DEF vars, ledgerVars
<1> QED
  BY <1>1, <1>2, <1>3, <1>4, <1>5, <1>6, <1>7 DEF Next

(* What has been promised is in memory and in the state file. *)
Covered(table, leaves) ==
    /\ issued \subseteq DOMAIN table \cup leaves
    /\ acknowledged \subseteq leaves

DInv ==
    /\ SavingCovered
    /\ ~wiped => Covered(pending, committed)
    /\ ~wiped /\ ~cut => Covered(file.pending, file.committed)

(***************************************************************************)
(* Memory knows every ticket handed out, unless it was read from a file    *)
(* that was cut off; and so does the file, unless it is cut off.           *)
(***************************************************************************)
LEMMA DurableStep == TypeOK /\ DInv /\ [Next]_vars => DInv'
<1> SUFFICES ASSUME TypeOK, DInv, [Next]_vars, ~wiped'
             PROVE  /\ Covered(pending, committed)'
                    /\ ~cut' => Covered(file.pending, file.committed)'
  BY SavingStep DEF DInv
<1>1. CASE UNCHANGED <<fileVars, issued, acknowledged, faults>> /\ Next
  <2>1. ~LoadAfterCrash
    BY <1>1, TurnstileAssumption DEF LoadAfterCrash, TypeOK
  <2> QED
    BY <1>1, <2>1, CallGrows DEF DInv, Covered, Grows
<1>2. CASE \E payload \in Payloads, ts \in Timestamps : Append(payload, ts)
  BY <1>1, <1>2 DEF Next, Append
<1>3. CASE \E ticket \in held : Confirm(ticket) \/ ConfirmUnknown(ticket)
  BY <1>1, <1>3 DEF Next, Confirm, ConfirmUnknown
<1>4. CASE \E ticket \in held, message \in BOOLEAN : Reject(ticket, message)
  BY <1>1, <1>4 DEF Next, Reject
<1>5. CASE RetryMismatch \/ RetryCommits \/ RetryFails
  BY <1>1, <1>5 DEF Next, Retry, RetryMismatch, RetryCommits, RetryFails
<1>6. ASSUME NEW then, Saved(then)
      PROVE  file'.pending = pending /\ file'.committed = committed /\ UNCHANGED wiped
  BY <1>6 DEF Saved, Snapshot
<1>7. CASE SaveTicket \/ SaveConfirmation \/ SaveRejection
  <2>1. /\ issued' \subseteq issued \cup DOMAIN pending \cup committed
        /\ acknowledged' \subseteq acknowledged \cup committed
    BY <1>7 DEF SaveTicket, SaveConfirmation, SaveRejection, Saved, DInv, SavingCovered
  <2>2. UNCHANGED ledgerVars
    BY <1>7 DEF SaveTicket, SaveConfirmation, SaveRejection
  <2> QED
    BY <1>6, <1>7, <2>1, <2>2 DEF SaveTicket, SaveConfirmation, SaveRejection, ledgerVars,
                                  DInv, Covered
<1>8. CASE SaveSuccess
  <2>1. /\ issued' = issued /\ acknowledged' = acknowledged \cup {saving.leaf}
        /\ pending' = pending /\ committed \subseteq committed'
        /\ saving.leaf \in committed
    BY <1>8 DEF SaveSuccess, Saved, DInv, SavingCovered
  <2> QED
    BY <1>6, <1>8, <2>1 DEF SaveSuccess, DInv, Covered
<1>9. CASE SaveFails
  BY <1>9 DEF SaveFails, InterruptedWrite, ledgerVars, DInv, Covered
<1>10. CASE Restart \/ RestartTampered
  <2>1. LoadAfterCrash /\ ~cut' /\ UNCHANGED <<issued, acknowledged>> /\ ~wiped
    BY <1>10, LoadedFile DEF LoadAfterCrash
  <2>2. Covered(file'.pending, file'.committed)
    <3>1. CASE UNCHANGED <<file, cut>>
      BY <2>1, <3>1 DEF DInv
    <3>2. CASE file' = Snapshot
      BY <2>1, <3>2 DEF DInv, Snapshot
    <3>3. CASE UNCHANGED cut /\ DOMAIN file'.pending = DOMAIN file.pending
               /\ file'.committed = file.committed
      BY <2>1, <3>3 DEF DInv, Covered
    <3>4. ASSUME NEW h \in DOMAIN file.pending, NEW payload, UNCHANGED cut,
                 file' = [prev |-> file.prev,
                          pending |-> [file.pending EXCEPT ![h].payload = payload],
                          committed |-> file.committed, orphans |-> file.orphans,
                          successes |-> file.successes]
          PROVE  Covered(file'.pending, file'.committed)
      BY <3>3, <3>4
    <3> QED
      BY <1>10, <2>1, <3>1, <3>2, <3>4, LoadedFile
  <2> QED
    BY <2>1, <2>2 DEF LoadAfterCrash, Load, Covered
<1>11. CASE UNCHANGED vars
  BY <1>11 DEF vars, ledgerVars, DInv, Covered
<1> QED
  BY <1>2, <1>3, <1>4, <1>5, <1>7, <1>8, <1>9, <1>10, <1>11
     DEF Next, Retry, RetryUnreadable, Finish

(* The same, for a whole behaviour. *)
LEMMA SpecDurable == Spec => []DInv
<1>1. Init => DInv
  BY DEF Init, Fresh, Idle, DInv, Covered, SavingCovered
<1> QED
  BY SpecTypeOK, DurableStep, <1>1, PTL DEF Spec

(***************************************************************************)
(* No ticket handed out is lost, whatever saves fail or are cut short,     *)
(* until the process starts from a state file that persist_state has left  *)
(* cut off (fs::write truncates the file in place).                        *)
(***************************************************************************)
THEOREM SpecTicketsKept == Spec => []TicketsKept
<1>1. DInv => TicketsKept
  BY DEF DInv, Covered, TicketsKept, LeafExists
<1> QED
  BY SpecDurable, <1>1, PTL

(***************************************************************************)
(* A ticket reported committed stays in the ledger, through failing saves  *)
(* and restarts, with the same exception.                                  *)
(***************************************************************************)
THEOREM SpecAcknowledgedStay == Spec => []AcknowledgedStay
<1>1. DInv => AcknowledgedStay
  BY DEF DInv, Covered, AcknowledgedStay
<1> QED
  BY SpecDurable, <1>1, PTL

(***************************************************************************)
(* A committed ticket is not pending again, whatever is appended, retried  *)
(* or reported late, and one reported committed not after a restart either.*)
(***************************************************************************)
THEOREM SpecCommittedOnce == Spec => []CommittedOnce
<1>1. IInv /\ DInv => CommittedOnce
  BY DEF IInv, MemorySound, Sound, DInv, Covered, CommittedOnce
<1> QED
  BY SpecSound, SpecDurable, <1>1, PTL

----------------------------------------------------------------------------
(* The events of the audit trail resolve, in memory and in the state file. *)
Resolved(table, leaves, orphanEvents, successEvents) ==
    /\ \A e \in orphanEvents : e.leaf \in leaves /\ e.orig \in DOMAIN table \cup leaves
    /\ \A e \in successEvents : e.leaf \in leaves /\ e.orig \in leaves

MemoryResolved == Resolved(pending, committed, orphans, successes)

FileResolved == Resolved(file.pending, file.committed, file.orphans, file.successes)

EInv == SavingCovered /\ MemoryResolved /\ FileResolved

(* Every step keeps the events resolved, in memory and in the file. *)
LEMMA ResolvedStep == TypeOK /\ EInv /\ [Next]_vars => EInv'
<1> SUFFICES ASSUME TypeOK, EInv, [Next]_vars PROVE MemoryResolved' /\ FileResolved'
  BY SavingStep DEF EInv
<1>1. ASSUME Next, UNCHANGED <<file, faults>>,
             \A e \in orphans' \ orphans :
                 e.leaf \in committed' /\ e.orig \in DOMAIN pending,
             UNCHANGED successes
      PROVE  MemoryResolved' /\ FileResolved'
  <2>1. ~LoadAfterCrash
    BY <1>1, TurnstileAssumption DEF LoadAfterCrash, TypeOK
  <2>2. Grows
    BY <1>1, <2>1, CallGrows
  <2> QED
    BY <1>1, <2>2 DEF EInv, MemoryResolved, FileResolved, Resolved, Grows
<1>2. CASE \E payload \in Payloads, ts \in Timestamps : Append(payload, ts)
  BY <1>1, <1>2 DEF Next, Append
<1>3. CASE \E ticket \in held : Confirm(ticket) \/ ConfirmUnknown(ticket)
  BY <1>1, <1>3 DEF Next, Confirm, ConfirmUnknown, Commit, ledgerVars
<1>4. ASSUME NEW ticket \in DOMAIN pending,
             LogOrphan(ticket) \/ UNCHANGED <<prevLeafHash, committed, orphans>>
      PROVE  \A e \in orphans' \ orphans : e.leaf \in committed' /\ e.orig \in DOMAIN pending
  BY <1>4 DEF LogOrphan
<1>5. CASE \E ticket \in held, message \in BOOLEAN : Reject(ticket, message)
  <2>1. PICK ticket \in held, message \in BOOLEAN : Reject(ticket, message)
    BY <1>5
  <2>2. \A e \in orphans' \ orphans : e.leaf \in committed' /\ e.orig \in DOMAIN pending
    BY <1>4, <2>1 DEF Reject
  <2> QED
    BY <1>1, <1>5, <2>1, <2>2 DEF Next, Reject
<1>6. CASE RetryMismatch \/ RetryCommits
  BY <1>1, <1>6 DEF Next, Retry, RetryMismatch, RetryCommits, Commit
<1>7. CASE RetryFails
  <2>1. \A e \in orphans' \ orphans : e.leaf \in committed' /\ e.orig \in DOMAIN pending
    BY <1>4, <1>7 DEF RetryFails, Oldest
  <2> QED
    BY <1>1, <1>7, <2>1 DEF Next, Retry, RetryFails
<1>8. ASSUME NEW then, Saved(then) PROVE FileResolved'
  BY <1>8 DEF Saved, Snapshot, EInv, MemoryResolved, FileResolved
<1>9. CASE SaveTicket \/ SaveConfirmation \/ SaveRejection
  BY <1>8, <1>9 DEF SaveTicket, SaveConfirmation, SaveRejection, ledgerVars, EInv,
                    MemoryResolved
<1>10. CASE SaveSuccess
  <2>1. saving.leaf \in committed /\ FileResolved'
    BY <1>8, <1>10 DEF SaveSuccess, Saved, EInv, SavingCovered
  <2>2. PICK leaf :
           \/ /\ committed' = committed \cup {leaf}
              /\ successes' = successes \cup {[leaf |-> leaf, orig |-> saving.leaf]}
           \/ UNCHANGED <<committed, successes>>
    BY <1>10 DEF SaveSuccess
  <2> QED
    BY <1>10, <2>1, <2>2 DEF SaveSuccess, EInv, MemoryResolved, Resolved
<1>11. Resolved(Fresh.pending, Fresh.committed, Fresh.orphans, Fresh.successes)
  BY DEF Resolved, Fresh
<1>12. CASE SaveFails
  BY <1>11, <1>12 DEF SaveFails, InterruptedWrite, ledgerVars, EInv,
                      MemoryResolved, FileResolved
<1>13. CASE Restart \/ RestartTampered
  <2>1. FileResolved'
    <3>1. CASE file' \in {file, Fresh, Snapshot}
      BY <1>11, <3>1 DEF Snapshot, EInv, MemoryResolved, FileResolved
    <3>2. ASSUME NEW h \in DOMAIN file.pending, NEW payload,
                 file' = [prev |-> file.prev,
                          pending |-> [file.pending EXCEPT ![h].payload = payload],
                          committed |-> file.committed, orphans |-> file.orphans,
                          successes |-> file.successes]
          PROVE  FileResolved'
      BY <3>2 DEF EInv, FileResolved, Resolved
    <3> QED
      BY <1>13, <3>1, <3>2, LoadedFile
  <2>2. Load(file')
    BY <1>13 DEF Restart, RestartTampered, LoadAfterCrash
  <2> QED
    BY <2>1, <2>2 DEF Load, MemoryResolved, FileResolved
<1>14. CASE UNCHANGED vars
  BY <1>14 DEF vars, ledgerVars, EInv, MemoryResolved, FileResolved
<1> QED
  BY <1>2, <1>3, <1>5, <1>6, <1>7, <1>9, <1>10, <1>12, <1>13, <1>14
     DEF Next, Retry, RetryUnreadable, Finish

(***************************************************************************)
(* Orphan events are leaves of the ledger about tickets still known, and   *)
(* success events about committed ones (log_orphan_leaf, log_success_leaf),*)
(* also after a write cut short: the events get lost together with the     *)
(* leaves.                                                                 *)
(***************************************************************************)
THEOREM SpecEventsResolve == Spec => []EventsResolve
<1>1. Init => EInv
  BY DEF Init, Fresh, Idle, EInv, SavingCovered, MemoryResolved, FileResolved, Resolved
<1>2. EInv => EventsResolve
  BY DEF EInv, MemoryResolved, Resolved, EventsResolve, LeafExists
<1> QED
  BY SpecTypeOK, ResolvedStep, <1>1, <1>2, PTL DEF Spec
----------------------------------------------------------------------------
(***************************************************************************)
(* The retry budget, entry by entry.  Without faults no entry is edited,   *)
(* so that none is given up for a mismatch of its hash.                    *)
(***************************************************************************)
WithinBudget(e) == e.status = "Pending" => e.retryCount <= MaxRetries

FairlyGivenUp(h, e) ==
    /\ e.status = "FailedPermanent" => e.retryCount >= MaxRetries
    /\ Hash(e.prev, "data", e.payload) = h

BInv ==
    /\ \A h \in DOMAIN pending : WithinBudget(pending[h])
    /\ \A h \in DOMAIN file.pending : WithinBudget(file.pending[h])
    /\ faults = 0 => \A h \in DOMAIN pending : FairlyGivenUp(h, pending[h])

(* Every step keeps the retry budget, in memory and in the file. *)
LEMMA BudgetStep == TypeOK /\ BInv /\ [Next]_vars => BInv'
<1> SUFFICES ASSUME TypeOK, BInv, [Next]_vars PROVE BInv'
  OBVIOUS
<1> USE TurnstileAssumption
<1>1. ASSUME NEW k, NEW e, pending' = Put(pending, k, e), WithinBudget(e),
             faults = 0 => FairlyGivenUp(k, e), UNCHANGED <<file, faults>>
      PROVE  BInv'
  BY <1>1 DEF Put, BInv
<1>2. ASSUME NEW payload \in Payloads, NEW ts \in Timestamps, Append(payload, ts)
      PROVE  BInv'
  <2> DEFINE e == NewEntry(prevLeafHash, payload, ts)
             k == Hash(prevLeafHash, "data", payload)
  <2>1. WithinBudget(e) /\ FairlyGivenUp(k, e)
    BY DEF NewEntry, WithinBudget, FairlyGivenUp
  <2>2. pending' = Put(pending, k, e) /\ UNCHANGED <<file, faults>>
    BY <1>2 DEF Append
  <2> HIDE DEF e, k
  <2> QED
    BY <1>1, <2>1, <2>2
<1>3. ASSUME NEW ticket, Commit(ticket), UNCHANGED <<file, faults>> PROVE BInv'
  BY <1>3 DEF Commit, Drop, BInv
<1>4. ASSUME NEW k \in DOMAIN pending, NEW givenUp \in BOOLEAN,
             pending' = Put(pending, k, Failed(pending[k], givenUp)),
             givenUp => pending[k].retryCount + 1 >= MaxRetries,
             ~givenUp => pending[k].retryCount + 1 <= MaxRetries,
             UNCHANGED <<file, faults>>
      PROVE  BInv'
  <2>1. IsEntry(pending[k])
    BY DEF TypeOK, IsTable
  <2> DEFINE e == Failed(pending[k], givenUp)
  <2>2. /\ e.prev = pending[k].prev /\ e.payload = pending[k].payload
        /\ e.retryCount = pending[k].retryCount + 1
        /\ e.status = IF givenUp THEN "FailedPermanent" ELSE pending[k].status
        /\ pending[k].retryCount \in Nat
    BY <2>1, FailedIsEntry DEF IsEntry
  <2> HIDE DEF e
  <2>3. WithinBudget(e)
    BY <1>4, <2>2 DEF WithinBudget
  <2>4. faults = 0 => FairlyGivenUp(k, e)
    BY <1>4, <2>2 DEF BInv, FairlyGivenUp
  <2> QED
    BY <1>1, <1>4, <2>3, <2>4 DEF e
<1>5. ASSUME NEW ticket \in held, Confirm(ticket) \/ ConfirmUnknown(ticket)
      PROVE  BInv'
  BY <1>3, <1>5 DEF Confirm, ConfirmUnknown, ledgerVars, BInv
<1>6. ASSUME NEW ticket \in held, NEW message \in BOOLEAN, Reject(ticket, message)
      PROVE  BInv'
  <2> DEFINE givenUp == pending[ticket].retryCount + 1 > MaxRetries
  <2>1. /\ pending' = Put(pending, ticket, Failed(pending[ticket], givenUp))
        /\ ticket \in DOMAIN pending /\ UNCHANGED <<file, faults>>
    BY <1>6 DEF Reject
  <2>2. pending[ticket].retryCount \in Nat
    BY <2>1 DEF TypeOK, IsTable, IsEntry
  <2>3. /\ givenUp \in BOOLEAN
        /\ givenUp => pending[ticket].retryCount + 1 >= MaxRetries
        /\ ~givenUp => pending[ticket].retryCount + 1 <= MaxRetries
    BY <2>2
  <2> HIDE DEF givenUp
  <2> QED
    BY <1>4, <2>1, <2>3
<1>7. CASE RetryMismatch
  <2>1. PICK h \in Oldest : /\ Readable(h) /\ ~Intact(h)
                            /\ pending' = [pending EXCEPT ![h].status = "FailedPermanent"]
    BY <1>7 DEF RetryMismatch
  <2> DEFINE e == [pending[h] EXCEPT !.status = "FailedPermanent"]
  <2>2. h \in DOMAIN pending /\ IsEntry(pending[h])
    BY DEF Oldest, TypeOK, IsTable
  <2>3. pending' = Put(pending, h, e)
    BY <2>1, <2>2 DEF TypeOK, IsTable, Put
  <2>4. e.status = "FailedPermanent"
    BY <2>2, EditEntry DEF Statuses, IsEntry
  <2> HIDE DEF e
  <2>5. WithinBudget(e)
    BY <2>4 DEF WithinBudget
  <2>6. faults # 0
    BY <2>1, <2>2 DEF Readable, Intact, BInv, FairlyGivenUp
  <2> QED
    BY <1>1, <1>7, <2>3, <2>5, <2>6 DEF RetryMismatch
<1>8. CASE RetryCommits
  BY <1>3, <1>8 DEF RetryCommits
<1>9. CASE RetryFails
  <2>1. PICK h \in Oldest :
               pending' = Put(pending, h, Failed(pending[h],
                              pending[h].retryCount + 1 >= MaxRetries))
    BY <1>9 DEF RetryFails
  <2> DEFINE givenUp == pending[h].retryCount + 1 >= MaxRetries
  <2>2. /\ pending' = Put(pending, h, Failed(pending[h], givenUp))
        /\ h \in DOMAIN pending
    BY <2>1 DEF Oldest
  <2>3. pending[h].retryCount \in Nat
    BY <2>2 DEF TypeOK, IsTable, IsEntry
  <2>4. /\ givenUp \in BOOLEAN
        /\ givenUp => pending[h].retryCount + 1 >= MaxRetries
        /\ ~givenUp => pending[h].retryCount + 1 <= MaxRetries
    BY <2>3
  <2> HIDE DEF givenUp
  <2> QED
    BY <1>4, <1>9, <2>2, <2>4 DEF RetryFails
<1>10. CASE Finish
  BY <1>10 DEF Finish, SaveTicket, SaveConfirmation, SaveRejection, SaveSuccess,
               Saved, Snapshot, ledgerVars, BInv
<1>11. \A h \in DOMAIN Fresh.pending : WithinBudget(Fresh.pending[h])
  BY DEF Fresh
<1>12. CASE SaveFails
  BY <1>11, <1>12 DEF SaveFails, InterruptedWrite, ledgerVars, TypeOK, BInv
<1>13. CASE Restart \/ RestartTampered
  <2>1. /\ Load(file') /\ faults' # 0
    BY <1>13 DEF Restart, RestartTampered, LoadAfterCrash, TypeOK
  <2>2. CASE file' \in {file, Fresh, Snapshot}
    BY <1>11, <2>1, <2>2 DEF Load, Snapshot, BInv
  <2>3. ASSUME NEW h \in DOMAIN file.pending, NEW payload \in Payloads \cup {NotJson},
               file'.pending = [file.pending EXCEPT ![h].payload = payload]
        PROVE  BInv'
    <3>1. IsEntry(file.pending[h]) /\ WithinBudget(file.pending[h])
      BY DEF TypeOK, IsTable, BInv
    <3> DEFINE e == [file.pending[h] EXCEPT !.payload = payload]
    <3>2. e.status = file.pending[h].status /\ e.retryCount = file.pending[h].retryCount
      BY <3>1, EditEntry DEF Statuses, IsEntry
    <3>3. file'.pending = Put(file.pending, h, e)
      BY <2>3 DEF TypeOK, IsTable, Put
    <3> HIDE DEF e
    <3>4. WithinBudget(e)
      BY <3>1, <3>2 DEF WithinBudget
    <3>5. \A k \in DOMAIN file'.pending : WithinBudget(file'.pending[k])
      BY <3>3, <3>4 DEF Put, BInv
    <3> QED
      BY <2>1, <3>5 DEF Load, BInv
  <2> QED
    <3>1. CASE \E h \in DOMAIN file.pending, payload \in Payloads \cup {NotJson} :
                  file' = [prev |-> file.prev,
                           pending |-> [file.pending EXCEPT ![h].payload = payload],
                           committed |-> file.committed, orphans |-> file.orphans,
                           successes |-> file.successes]
      BY <2>3, <3>1
    <3> QED
      BY <1>13, <2>2, <3>1, LoadedFile
<1>14. CASE UNCHANGED vars
  BY <1>14 DEF vars, ledgerVars, BInv
<1> QED
  BY <1>2, <1>5, <1>6, <1>7, <1>8, <1>9, <1>10, <1>12, <1>13, <1>14
     DEF Next, Retry, RetryUnreadable

(***************************************************************************)
(* An entry stays pending for max_retries failures at most, although       *)
(* confirm_ticket compares with > and retry_next_pending with >=, and is   *)
(* not given up before unless somebody edited the state file.              *)
(***************************************************************************)
THEOREM SpecRetryBudget == Spec => []RetryBudget
<1>1. Init => BInv
  BY DEF Init, Fresh, BInv
<1>2. BInv => RetryBudget
  BY DEF BInv, WithinBudget, FairlyGivenUp, RetryBudget
<1> QED
  BY SpecTypeOK, BudgetStep, <1>1, <1>2, PTL DEF Spec
=============================================================================
