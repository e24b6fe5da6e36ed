--------------------------- MODULE JournalProofs ---------------------------
(***************************************************************************)
(* Proofs about the Journal: what its mutex makes of the results about     *)
(* add_leaf, the chain of the leaves it acknowledges, the log it           *)
(* implements, and the pages its readers get.  For every hierarchy, any    *)
(* number of callers, any order of timestamps, and failing stores.         *)
(***************************************************************************)
EXTENDS Journal, HierarchyProofs

----------------------------------------------------------------------------
(* The chain of the acknowledged leaves. *)

Acked == {acc.leaf.id : acc \in accepted}

(* id is the last of the leaves in S, or there is none. *)
Latest(id, S) ==
    IF S = {} THEN id = None ELSE id \in S /\ \A x \in S : x <= id

LinksOK ==
    /\ IsList(links) /\ Len(links) = leafCount
    /\ resets \in Nat
    /\ \A i \in 1 .. leafCount : links[i].resets \in 0 .. resets
    /\ Acked \subseteq 0 .. leafCount - 1

Recent == {x \in Acked : links[x + 1].resets = resets}

(* The leaf of the call going on is the newest one, and follows the last. *)
CallLinked(a) ==
    pc[a] # "idle" =>
        /\ call[a].leaf.id = leafCount - 1 /\ leafCount > 0
        /\ \A x \in Acked : x < leafCount - 1
        /\ links[leafCount].resets = resets
        /\ links[leafCount].chosen => links[leafCount].parent = lastLeafHash

AckInv ==
    /\ LinksOK
    /\ Latest(lastLeafHash, Recent)
    /\ \A a \in Appenders : CallLinked(a)
    /\ AckedLeavesChain

----------------------------------------------------------------------------
(* The pages the callers of append_leaf are told. *)

PlaceOK ==
    \A r \in accepted :
        /\ r.pageId \in Nat /\ r.pageId < nextPageId
        /\ \A p \in Around : p.id = r.pageId => p.level = 0 /\ r.leaf \in LeavesOf(p)
        /\ \A p \in Around : r.leaf \in LeavesOf(p) => p.id = r.pageId

TellOK(a) ==
    pc[a] # "idle" =>
        /\ call[a].op = call[a].leaf.ts
        /\ call[a].leaf.obj \in Payloads
        /\ call[a].after # "retake"
        /\ pc[a] \in {"take", "create"} => call[a].pageId = None
        /\ pc[a] # "have" /\ call[a].after = "create" => call[a].pageId = None
        /\ pc[a] = "have" \/ (LeafPageInHand(a) /\ call[a].after = "done") =>
              call[a].pageId = page[a].id
        /\ call[a].pageId # None =>
              /\ call[a].pageId < nextPageId
              /\ \A p \in Around : p.id = call[a].pageId => p.level = 0
        /\ Depth(a) > 0 /\ call[a].after = "done" =>
              /\ call[a].pageId # None
              /\ \A p \in storage : p.id = call[a].pageId <=> call[a].leaf \in LeavesOf(p)

PInv == PlaceOK /\ \A a \in Appenders : TellOK(a)

----------------------------------------------------------------------------
(* A call of get_page under way. *)

ReadOK ==
    read # None =>
        /\ read = [api |-> read.api, level |-> read.level, id |-> read.id,
                   stage |-> read.stage, owed |-> read.owed, quiet |-> read.quiet]
        /\ read.level \in Levels
        /\ read.stage = "active" => read.api = "async"
        /\ read.owed \subseteq AcceptedIn(read.level, read.id)
        /\ read.api = "sync" => read.owed \subseteq StoredLeaves
        /\ read.quiet => Unlocked
        /\ read.quiet /\ read.stage = "active" => Stored(read.level, read.id) = {}

RInv == ReadOK /\ GotPageHoldsItsLeaves

----------------------------------------------------------------------------
(***************************************************************************)
(* A journal is a manager of which one call of add_leaf at a time is made, *)
(* and which is not restarted: what is proved of that holds of it.         *)
(***************************************************************************)

(* The calls of add_leaf a step of the journal is, if any. *)
LEMMA JournalSteps ==
    ASSUME [JNext]_jvars
    PROVE  \/ \E a \in Appenders : CallAppend(a)
           \/ \E a \in Appenders : Proceed(a)
           \/ UNCHANGED vars /\ (UNCHANGED jvars \/ Initialise \/ OpenJournal
                                 \/ ResetLastLeafHash \/ CallGetPage \/ GetStoredPage
                                 \/ NotStored \/ GetActivePage \/ PageNotFound
                                 \/ SyncPageNotFound)
BY DEF JNext, jvars, Initialise, OpenJournal, ResetLastLeafHash, CallGetPage,
       GetStoredPage, NotStored, GetActivePage, PageNotFound, SyncPageNotFound, Answered

LEMMA JournalStepIsStep == [JNext]_jvars => [Next]_vars
BY JournalSteps DEF CallAppend, Proceed, Next

(* The mutex of last_leaf_hash. *)
LEMMA MutexHeld == IInv /\ Serial /\ [JNext]_jvars => Serial'
<1> SUFFICES ASSUME IInv, Serial, [JNext]_jvars PROVE Serial'
  OBVIOUS
<1>1. ASSUME NEW a \in Appenders, CallAppend(a) PROVE Serial'
  <2>1. Mine(a) /\ \A b \in Appenders : pc[b] = "idle"
    BY <1>1, CallEffect DEF CallAppend, Unlocked
  <2> QED
    BY <2>1 DEF Serial, Mine
<1>2. ASSUME NEW a \in Appenders, Proceed(a) PROVE Serial'
  <2>1. Mine(a) /\ pc[a] # "idle"
    BY <1>2, CallStepOK, StepSameLeaf DEF Proceed, SameLeaf
  <2> QED
    BY <2>1 DEF Serial, Mine
<1>3. CASE UNCHANGED vars
  BY <1>3 DEF vars, callVars, Serial
<1> QED
  BY <1>1, <1>2, <1>3, JournalSteps

(* add_leaf does not restart the process. *)
LEMMA StepKeepsRunning ==
    ASSUME NEW a \in Appenders, Step(a)
    PROVE  restarts' = restarts /\ newest' = newest /\ leafCount' = leafCount
BY DEF Step, TakeActivePage, RetireActivePage, FindNoActivePage, CreatePage, PreFinalize,
       AppendLeaf, KeepActivePage, StorePage, StorageFails, TrackFinalized, LoadChild,
       ChildMissing, RetireStaleParent, ParentNotStale, ReuseParent, ReopenParent,
       CreateParent, DiscardParent, FinalizeParent, KeepParent, ReturnToParent,
       ReturnToAddLeaf, worldVars, KeepActivePage, ReturnOk

LEMMA JournalRuns == NoRestart /\ [JNext]_jvars => NoRestart'
BY JournalSteps, StepKeepsRunning DEF NoRestart, CallAppend, CallAddLeaf, Proceed, vars, worldVars

(* The journal implements the manager, one call at a time. *)
THEOREM JournalIsManager == JSpec => Spec /\ []Serial /\ []NoRestart
<1>1. JInit => Init /\ Serial /\ NoRestart
  BY DEF JInit, Init, Serial, NoRestart
<1> QED
  BY <1>1, JournalStepIsStep, MutexHeld, JournalRuns, SpecInv, PTL DEF JSpec, Spec

(* What the results about add_leaf say of it. *)
Base == IInv /\ LInv /\ GInv /\ SInv /\ AcceptedKept /\ Serial

LEMMA JournalBase == JSpec => []Base
<1>1. IInv /\ LInv /\ QInv /\ Serial /\ NoRestart => Base
  BY DEF Base, QInv, NoRestart
<1>2. Init => LInv /\ QInv
  BY ApartInit, QuietInit
<1>3. IInv /\ LInv /\ QInv /\ Serial /\ Serial' /\ [Next]_vars => LInv' /\ QInv'
  BY ApartOK, QuietOK
<1> QED
  BY <1>1, <1>2, <1>3, JournalIsManager, SpecInv, PTL DEF Spec

(* Through the mutex: a leaf append_leaf acknowledged is held once. *)
THEOREM JournalHoldsAcceptedLeaves ==
    ASSUME NoneIsNoRecord
    PROVE  JSpec => []AcceptedLeafHeldOnce
BY JournalIsManager, SerialAcceptedLeafHeldOnce, PTL

(* Its stored leaf pages form one chain. *)
THEOREM JournalLeafPagesChain ==
    ASSUME NoneIsNoRecord
    PROVE  JSpec => []LeafPageChain
BY JournalIsManager, SerialLeafPageChain, PTL

(* Its stored leaves stay. *)
THEOREM JournalStoredLeavesStay == JSpec => StoredLeavesStay
BY JournalIsManager, SerialStoredLeavesStay, PTL

(***************************************************************************)
(* When leaves are appended in the order of time, and parents age no       *)
(* earlier than their windows end, the journal's hierarchy is sound: its   *)
(* finalized pages are read-only, their hashes are those in their parents, *)
(* one parent each until a write fails, and every level is one chain.      *)
(***************************************************************************)
THEOREM JournalHierarchySound ==
    ASSUME InOrder, NoneIsNoRecord
    PROVE  JSpec => /\ FinalizedPagesReadOnly
                    /\ []EveryPageRolledUp /\ []ChildHashesResolve /\ []PageChains
BY JournalIsManager, InOrderPagesReadOnly, InOrderPagesRolledUp, InOrderHashesResolve,
   InOrderPageChains, PTL

----------------------------------------------------------------------------
(***************************************************************************)
(* AckedLeavesChain.  The leaf of the call that holds the mutex is newer   *)
(* than every acknowledged one, and its parent is the last of these since  *)
(* the last reset; last_leaf_hash moves on exactly when add_leaf says Ok.  *)
(***************************************************************************)

(* A call of add_leaf, in full. *)
LEMMA NewCall ==
    ASSUME IInv, NEW a \in Appenders, CallAddLeaf(a)
    PROVE  /\ Mine(a) /\ pc[a] = "idle" /\ pc'[a] = "take"
           /\ leafCount \in Nat /\ leafCount < MaxLeaves /\ leafCount' = leafCount + 1
           /\ call'[a].leaf.id = leafCount
           /\ \E ts \in Times, op \in Times, obj \in Payloads :
                 /\ op <= ts + OpLag /\ ts <= op + OpLag
                 /\ call'[a] = [leaf |-> [id |-> leafCount, ts |-> ts, obj |-> obj],
                                op |-> op, pageId |-> None, retaken |-> FALSE,
                                after |-> "done"]
           /\ UNCHANGED <<managerVars, page, frames, accepted, storeFailures, restarts>>
<1>1. PICK ts \in Times, op \in Times, obj \in Payloads :
         /\ op <= ts + OpLag /\ ts <= op + OpLag
         /\ call' = [call EXCEPT ![a] =
                        [leaf |-> [id |-> leafCount, ts |-> ts, obj |-> obj],
                         op |-> op, pageId |-> None, retaken |-> FALSE,
                         after |-> "done"]]
  BY DEF CallAddLeaf
<1>2. call'[a] = [leaf |-> [id |-> leafCount, ts |-> ts, obj |-> obj],
                  op |-> op, pageId |-> None, retaken |-> FALSE, after |-> "done"]
      /\ call'[a].leaf.id = leafCount
  BY <1>1 DEF IInv, TypeOK
<1> HIDE DEF IInv
<1>3. leafCount \in Nat /\ leafCount < MaxLeaves /\ leafCount' = leafCount + 1
      /\ UNCHANGED <<managerVars, page, frames, accepted, storeFailures, restarts>>
  BY DEF CallAddLeaf, IInv, TypeOK, CountersTypeOK
<1> QED
  BY <1>1, <1>2, <1>3, CallEffect

(* What a step of add_leaf tells the caller. *)
LEMMA AcceptEffect ==
    ASSUME IInv, NEW a \in Appenders, Step(a)
    PROVE  \/ accepted' = accepted
           \/ /\ pc[a] # "idle" /\ pc'[a] = "idle"
              /\ accepted' = accepted \cup {[leaf |-> call[a].leaf, pageId |-> call[a].pageId]}
<1>1. CASE KeepActivePage(a)
  BY <1>1, KeepActiveEffect, LeaveEffect
<1>2. CASE ReturnToAddLeaf(a)
  BY <1>2, ReturnEffect, LeaveEffect
<1>3. CASE ~KeepActivePage(a) /\ ~ReturnToAddLeaf(a)
  BY <1>3 DEF Step, TakeActivePage, RetireActivePage, FindNoActivePage, CreatePage, PreFinalize,
     AppendLeaf, StorePage, StorageFails, TrackFinalized, LoadChild, ChildMissing,
     RetireStaleParent, ParentNotStale, ReuseParent, ReopenParent, CreateParent,
     DiscardParent, FinalizeParent, KeepParent, ReturnToParent, worldVars
<1> QED
  BY <1>1, <1>2, <1>3

(* The acknowledged leaves made before this one, since the same reset. *)
AckedBefore(id) == {x \in Acked : x < id /\ links[x + 1].resets = links[id + 1].resets}

LEMMA ChainAsLatest ==
    AckedLeavesChain <=>
        \A id \in Acked : links[id + 1].chosen => Latest(links[id + 1].parent, AckedBefore(id))
BY DEF AckedLeavesChain, Acked, AckedBefore, Latest

(* append_leaf makes a leaf. *)
LEMMA AppendLinks ==
    ASSUME IInv, AckInv, NEW a \in Appenders, CallAppend(a)
    PROVE  AckInv'
<1>1. PICK l : /\ links' = Append(links, l)
               /\ l.resets = resets
               /\ l.chosen => l.parent = lastLeafHash
  <2>1. PICK named : links' = Append(links,
                     [parent |-> IF named = None THEN lastLeafHash ELSE named,
                      chosen |-> named = None, resets |-> resets])
    BY DEF CallAppend
  <2> DEFINE l == [parent |-> IF named = None THEN lastLeafHash ELSE named,
                   chosen |-> named = None, resets |-> resets]
  <2>2. l.resets = resets /\ (l.chosen <=> named = None)
        /\ (named = None => l.parent = lastLeafHash)
    OBVIOUS
  <2> QED
    BY <2>1, <2>2
<1>2. /\ Mine(a) /\ call'[a].leaf.id = leafCount /\ leafCount \in Nat
      /\ leafCount' = leafCount + 1 /\ accepted' = accepted
      /\ \A b \in Appenders \ {a} : pc'[b] = "idle"
      /\ lastLeafHash' = lastLeafHash /\ resets' = resets
  <2>1. CallAddLeaf(a) /\ Unlocked /\ lastLeafHash' = lastLeafHash /\ resets' = resets
    BY DEF CallAppend
  <2>2. call'[a].leaf.id = leafCount
    BY <2>1, NewCall
  <2>3. /\ Mine(a) /\ leafCount \in Nat /\ leafCount' = leafCount + 1
        /\ accepted' = accepted
    BY <2>1, NewCall
  <2> QED
    BY <2>1, <2>2, <2>3 DEF Unlocked, Mine
<1>3. /\ IsList(links') /\ Len(links') = leafCount + 1
      /\ links'[leafCount + 1].resets = resets
      /\ links'[leafCount + 1].chosen => links'[leafCount + 1].parent = lastLeafHash
      /\ \A i \in 1 .. leafCount : links'[i] = links[i]
  BY <1>1, AppendList DEF AckInv, LinksOK
<1>4. Acked' = Acked /\ \A x \in Acked : x \in Nat /\ x < leafCount /\ links'[x + 1] = links[x + 1]
  <2>1. Acked' = Acked
    BY <1>2 DEF Acked
  <2>2. Acked \subseteq 0 .. leafCount - 1
    BY DEF AckInv, LinksOK
  <2>3. ASSUME NEW x \in Acked
        PROVE  x \in Nat /\ x < leafCount /\ x + 1 \in 1 .. leafCount
    BY <2>2, <1>2
  <2>4. \A x \in Acked : links'[x + 1] = links[x + 1]
    BY <2>3, <1>3
  <2> QED
    BY <2>1, <2>3, <2>4
<1>5. LinksOK'
  BY <1>2, <1>3, <1>4 DEF AckInv, LinksOK
<1>6. Recent' = Recent /\ \A id \in Acked : AckedBefore(id)' = AckedBefore(id)
  BY <1>2, <1>4 DEF Recent, AckedBefore
<1>7. Latest(lastLeafHash, Recent)'
  BY <1>2, <1>6 DEF AckInv, Latest
<1>8. \A b \in Appenders : CallLinked(b)'
  BY <1>2, <1>3, <1>4 DEF CallLinked
<1>9. \A id \in Acked' : links'[id + 1].chosen =>
                           Latest(links'[id + 1].parent, AckedBefore(id)')
  BY <1>4, <1>6, ChainAsLatest DEF AckInv
<1>10. AckedLeavesChain'
  BY <1>9 DEF AckedLeavesChain, Acked, AckedBefore, Latest
<1> QED
  BY <1>5, <1>7, <1>8, <1>10 DEF AckInv

(* add_leaf goes on, and may return. *)
LEMMA ProceedLinks ==
    ASSUME IInv, AckInv, Serial, NEW a \in Appenders, Proceed(a)
    PROVE  AckInv'
<1>0. PICK n : n = call[a].leaf.id
  OBVIOUS
<1>1. /\ Mine(a) /\ pc[a] # "idle" /\ \A b \in Appenders \ {a} : pc'[b] = "idle"
      /\ pc'[a] # "idle" => call'[a].leaf = call[a].leaf
      /\ leafCount' = leafCount /\ links' = links /\ resets' = resets
      /\ lastLeafHash' = LastHashAfter(a)
  BY CallStepOK, StepSameLeaf DEF Proceed, SameLeaf, Serial, Mine
<1>2. /\ n = leafCount - 1 /\ leafCount \in Nat /\ leafCount > 0 /\ n + 1 = leafCount
      /\ links[n + 1].resets = resets
      /\ links[n + 1].chosen => links[n + 1].parent = lastLeafHash
      /\ \A x \in Acked : x \in Nat /\ x < n
  BY <1>0, <1>1 DEF AckInv, CallLinked, LinksOK, IInv, TypeOK, CountersTypeOK
<1>3. \A b \in Appenders \ {a} : CallLinked(b)'
  BY <1>1 DEF CallLinked
<1>4. CASE accepted' = accepted
  <2>1. Acked' = Acked /\ lastLeafHash' = lastLeafHash
    BY <1>1, <1>4 DEF Acked, LastHashAfter
  <2>2. Recent' = Recent /\ LinksOK' /\ \A id : AckedBefore(id)' = AckedBefore(id)
    BY <1>1, <2>1 DEF Recent, AckInv, LinksOK, AckedBefore
  <2>3. Latest(lastLeafHash, Recent)' /\ AckedLeavesChain'
    BY <1>1, <1>4, <2>1, <2>2 DEF AckInv, Latest, AckedLeavesChain
  <2>4. CallLinked(a)'
    BY <1>1, <2>1 DEF AckInv, CallLinked
  <2> QED
    BY <1>3, <2>2, <2>3, <2>4 DEF AckInv
<1>5. CASE /\ pc'[a] = "idle"
           /\ accepted' = accepted \cup {[leaf |-> call[a].leaf, pageId |-> call[a].pageId]}
  <2>1. Acked' = Acked \cup {n}
    <3> DEFINE r == [leaf |-> call[a].leaf, pageId |-> call[a].pageId]
    <3>1. r.leaf.id = n
      BY <1>0
    <3> HIDE DEF r
    <3> QED
      BY <1>5, <3>1 DEF Acked, r
  <2>2. lastLeafHash' = n
    <3>1. accepted' # accepted
      BY <1>2, <2>1 DEF Acked
    <3> QED
      BY <1>0, <1>1, <3>1 DEF LastHashAfter
  <2>3. LinksOK'
    BY <1>1, <1>2, <2>1 DEF AckInv, LinksOK
  <2>4. Recent' = Recent \cup {n}
    BY <1>1, <1>2, <2>1 DEF Recent
  <2>5. Latest(lastLeafHash, Recent)'
    BY <1>2, <2>2, <2>4 DEF Latest, Recent
  <2>6. /\ AckedBefore(n)' = Recent
        /\ \A id \in Acked : AckedBefore(id)' = AckedBefore(id)
    <3>1. \A x : x \in AckedBefore(n)' <=> x \in Recent
      BY <1>1, <1>2, <2>1 DEF AckedBefore, Recent
    <3>2. \A id \in Acked : \A x : x \in AckedBefore(id)' <=> x \in AckedBefore(id)
      BY <1>1, <1>2, <2>1 DEF AckedBefore
    <3> QED
      BY <3>1, <3>2
  <2>7. \A id \in Acked' : links'[id + 1].chosen =>
                             Latest(links'[id + 1].parent, AckedBefore(id)')
    <3>1. \A id \in Acked : links[id + 1].chosen =>
                              Latest(links[id + 1].parent, AckedBefore(id))
      BY ChainAsLatest DEF AckInv
    <3>2. links[n + 1].chosen => Latest(links[n + 1].parent, Recent)
      BY <1>2 DEF AckInv
    <3> QED
      BY <1>1, <2>1, <2>6, <3>1, <3>2
  <2>8. AckedLeavesChain'
    BY <2>7 DEF AckedLeavesChain, Acked, AckedBefore, Latest
  <2>9. CallLinked(a)'
    BY <1>5 DEF CallLinked
  <2> QED
    BY <1>3, <2>3, <2>5, <2>8, <2>9 DEF AckInv
<1> QED
  BY <1>1, <1>4, <1>5, AcceptEffect DEF Proceed

(* reset_last_leaf_hash starts a chain of its own. *)
LEMMA ResetLinks ==
    ASSUME AckInv, ResetLastLeafHash
    PROVE  AckInv'
<1>1. /\ Unlocked /\ resets' = resets + 1 /\ lastLeafHash' = None
      /\ UNCHANGED <<leafCount, accepted, links, pc>>
  BY DEF ResetLastLeafHash, vars, callVars, worldVars
<1>2. Acked' = Acked
  BY <1>1 DEF Acked
<1>3. LinksOK'
  BY <1>1, <1>2 DEF AckInv, LinksOK
<1>4. Recent' = {}
  <2>1. \A x \in Acked : x + 1 \in 1 .. leafCount
    BY DEF AckInv, LinksOK, IsList
  <2>2. \A x \in Acked : links[x + 1].resets \in 0 .. resets /\ resets \in Nat
    BY <2>1 DEF AckInv, LinksOK
  <2> QED
    BY <1>1, <1>2, <2>2 DEF Recent
<1>5. Latest(lastLeafHash, Recent)'
  BY <1>1, <1>4 DEF Latest
<1>6. \A a \in Appenders : CallLinked(a)'
  BY <1>1 DEF Unlocked, CallLinked
<1>7. AckedLeavesChain'
  BY <1>1 DEF AckInv, AckedLeavesChain
<1> QED
  BY <1>3, <1>5, <1>6, <1>7 DEF AckInv

LEMMA LinksKept == IInv /\ AckInv /\ Serial /\ [JNext]_jvars => AckInv'
<1> SUFFICES ASSUME IInv, AckInv, Serial, [JNext]_jvars PROVE AckInv'
  OBVIOUS
<1>1. CASE UNCHANGED <<vars, lastLeafHash, links, resets>>
  BY <1>1 DEF vars, callVars, worldVars, AckInv, LinksOK, Latest, Recent, Acked, CallLinked,
     AckedLeavesChain
<1>2. UNCHANGED vars => \/ UNCHANGED <<lastLeafHash, links, resets>> \/ ResetLastLeafHash
                        \/ \E a \in Appenders : CallAppend(a)
                        \/ \E a \in Appenders : Proceed(a)
  BY JournalSteps DEF jvars, journalVars, Initialise, OpenJournal, CallGetPage, GetStoredPage,
     NotStored, GetActivePage, PageNotFound, SyncPageNotFound, Answered
<1> QED
  BY <1>1, <1>2, AppendLinks, ProceedLinks, ResetLinks, JournalSteps

(***************************************************************************)
(* The parent the journal gives an acknowledged leaf is the one            *)
(* acknowledged just before it since the last reset_last_leaf_hash: the    *)
(* mutex is held from the read of last_leaf_hash to its update, and a      *)
(* failed add_leaf leaves it alone.                                        *)
(***************************************************************************)
THEOREM JournalChainsLeaves == JSpec => []AckedLeavesChain
<1>1. JInit => AckInv
  BY DEF JInit, Init, AckInv, LinksOK, Latest, Recent, Acked, CallLinked, AckedLeavesChain,
     IsList
<1>2. AckInv => AckedLeavesChain
  BY DEF AckInv
<1>3. Base => IInv /\ Serial
  BY DEF Base
<1> QED
  BY <1>1, <1>2, <1>3, LinksKept, JournalBase, PTL DEF JSpec

----------------------------------------------------------------------------
(***************************************************************************)
(* The refinement.  Wherever the pages go, the leaves in them stay the     *)
(* same but for two steps of add_leaf: the one that appends its leaf, and  *)
(* a failing store, which drops the page in hand.                          *)
(***************************************************************************)
Held == LeavesIn(Around)

OnlyPayloads == \A a \in Appenders : pc[a] # "idle" => call[a].leaf.obj \in Payloads

LEMMA PayloadsKept == IInv /\ OnlyPayloads /\ [JNext]_jvars => OnlyPayloads'
<1> SUFFICES ASSUME IInv, OnlyPayloads, [JNext]_jvars PROVE OnlyPayloads'
  OBVIOUS
<1>1. ASSUME NEW a \in Appenders, CallAppend(a) PROVE OnlyPayloads'
  <2>1. CallAddLeaf(a)
    BY <1>1 DEF CallAppend
  <2>2. Mine(a) /\ \E ts, op : \E obj \in Payloads :
           call'[a] = [leaf |-> [id |-> leafCount, ts |-> ts, obj |-> obj],
                       op |-> op, pageId |-> None, retaken |-> FALSE, after |-> "done"]
    BY <2>1, NewCall
  <2>3. call'[a].leaf.obj \in Payloads
    BY <2>2
  <2> QED
    BY <2>2, <2>3 DEF OnlyPayloads, Mine
<1>2. ASSUME NEW a \in Appenders, Proceed(a) PROVE OnlyPayloads'
  <2>1. Mine(a) /\ SameLeaf(a)
    BY <1>2, CallStepOK, StepSameLeaf DEF Proceed
  <2> QED
    BY <2>1 DEF OnlyPayloads, Mine, SameLeaf
<1>3. CASE UNCHANGED vars
  BY <1>3 DEF vars, callVars, OnlyPayloads
<1> QED
  BY <1>1, <1>2, <1>3, JournalSteps

(* The pages the log speaks of hold the same leaves. *)
LogView ==
    /\ LeavesIn(activePages \cup InHand) \ StoredLeaves = Held \ StoredLeaves
    /\ StoredLeaves \subseteq Held

LEMMA HeldInView ==
    ASSUME NoneIsNoRecord, IInv, LInv
    PROVE  LogView
<1>1. Around = storage \cup (activePages \cup InHand)
  <2>1. \A a \in Appenders : pc[a] \in HoldsPage => page[a] # None
    BY DEF NoneIsNoRecord, IInv, TypeOK, CallTypeOK
  <2>2. \A a \in Appenders : page[a] # None => pc[a] \in HoldsPage
    BY DEF LInv, HandsOK
  <2> QED
    BY <2>1, <2>2 DEF Around, InHand
<1>2. StoredLeaves = LeavesIn(storage)
  BY DEF StoredLeaves, LeavesIn
<1> QED
  BY <1>1, <1>2 DEF LogView, Held, LeavesIn

(* A leaf appended to a page is one leaf more. *)
LEMMA AppendedLeaf ==
    ASSUME NEW p, NEW q, p.leaves \in Seq(Leaf), NEW leaf \in Leaf,
           q.leaves = Append(p.leaves, leaf)
    PROVE  \A x : x \in LeavesOf(q) <=> x \in LeavesOf(p) \/ x = leaf
<1> DEFINE old == p.leaves
           new == q.leaves
<1>1. /\ Len(old) \in Nat /\ DOMAIN old = 1 .. Len(old)
      /\ Len(new) = Len(old) + 1 /\ DOMAIN new = 1 .. Len(old) + 1
      /\ new[Len(old) + 1] = leaf
      /\ \A i \in 1 .. Len(old) : new[i] = old[i]
  BY AppendProperties
<1> HIDE DEF old, new
<1>2. DOMAIN new = DOMAIN old \cup {Len(old) + 1}
  BY <1>1
<1>3. {new[i] : i \in DOMAIN new} = {old[i] : i \in DOMAIN old} \cup {leaf}
  BY <1>1, <1>2
<1> QED
  BY <1>3 DEF LeavesOf, old, new

(* A step of add_leaf, as the log sees it. *)
LEMMA StepMovesLeaves ==
    ASSUME Base, Base', NEW a \in Appenders, Step(a)
    PROVE  /\ StoredLeaves \subseteq StoredLeaves'
           /\ AppendLeaf(a) => /\ StoredLeaves' = StoredLeaves
                               /\ Held' = Held \cup {call[a].leaf}
                               /\ UNCHANGED <<accepted, storeFailures>>
           /\ StorageFails(a) => /\ StoredLeaves' = StoredLeaves /\ Held' \subseteq Held
                               /\ accepted' = accepted
                               /\ storeFailures' = storeFailures + 1
           /\ ~AppendLeaf(a) /\ ~StorageFails(a) =>
                 /\ Held' = Held /\ storeFailures' = storeFailures
                 /\ accepted' # accepted => StoredLeaves' = StoredLeaves
<1> USE DEF Base
<1>1. Alone(a) /\ StoredLeaves \subseteq StoredLeaves'
  BY SerialAlone, StoreGrows
<1>2. ~StorageFails(a) => Held \subseteq Held' /\ storeFailures' = storeFailures
  <2>1. ASSUME ~StorageFails(a) PROVE Held \subseteq Held'
    BY <1>1, <2>1, StepKeepsLeaves DEF Kept, Held, LeavesIn
  <2>2. ASSUME ~StorageFails(a) PROVE storeFailures' = storeFailures
    BY <2>2 DEF Step, TakeActivePage, RetireActivePage, FindNoActivePage, CreatePage,
       PreFinalize, AppendLeaf, KeepActivePage, StorePage, TrackFinalized, LoadChild,
       ChildMissing, RetireStaleParent, ParentNotStale, ReuseParent, ReopenParent,
       CreateParent, DiscardParent, FinalizeParent, KeepParent, ReturnToParent,
       ReturnToAddLeaf, worldVars
  <2> QED
    BY <2>1, <2>2
<1>3. ~AppendLeaf(a) => Held' \subseteq Held
  <2> SUFFICES ASSUME ~AppendLeaf(a) PROVE Held' \subseteq Held
    OBVIOUS
  <2>1. Inherits
    BY StepInherits DEF LInv
  <2> QED
    BY <2>1 DEF Inherits, Fresh, WasThere, Held, LeavesIn, LeavesOf
<1>4. ASSUME StorageFails(a)
      PROVE  /\ StoredLeaves' = StoredLeaves /\ accepted' = accepted
             /\ storeFailures' = storeFailures + 1 /\ ~AppendLeaf(a)
  BY <1>4, StorageFailsEffect DEF managerVars, StoredLeaves, AppendLeaf
<1>5. ASSUME AppendLeaf(a)
      PROVE  /\ StoredLeaves' = StoredLeaves /\ Held' = Held \cup {call[a].leaf}
             /\ UNCHANGED <<accepted, storeFailures>>
  <2> DEFINE g == page'[a]
             old == page[a].leaves
             leaf == call[a].leaf
  <2>1. /\ Mine(a) /\ page[a] \in Around /\ g.leaves = Append(old, leaf)
        /\ pc'[a] \in HoldsPage /\ UNCHANGED <<activePages, storage, accepted, storeFailures>>
        /\ old \in Seq(Leaf) /\ leaf \in Leaf
    BY <1>5, AppendLeafEffect DEF managerVars, worldVars, IsPage, HoldsPage
  <2>2. \A x : x \in LeavesOf(g) <=> x \in LeavesOf(page[a]) \/ x = leaf
    <3>1. page[a].leaves \in Seq(Leaf) /\ leaf \in Leaf /\ g.leaves = Append(page[a].leaves, leaf)
      BY <2>1
    <3> HIDE DEF g, leaf
    <3> QED
      BY <3>1, AppendedLeaf
  <2>3. g \in Around' /\ \A p \in Around' : p \in Around \/ p = g
    BY <2>1, AroundAfter, AroundParts DEF Around
  <2>4. Held \subseteq Held'
    BY <1>2, <1>5 DEF StorageFails, CallsStorage, AppendLeaf
  <2>5. \A x : x \in Held' <=> x \in Held \/ x = leaf
    BY <2>1, <2>2, <2>3, <2>4 DEF Held, LeavesIn
  <2> QED
    BY <2>1, <2>5 DEF StoredLeaves
<1>6. ASSUME accepted' # accepted, ~AppendLeaf(a), ~StorageFails(a)
      PROVE  StoredLeaves' = StoredLeaves
  <2>1. KeepActivePage(a) \/ ReturnToAddLeaf(a)
    BY <1>6 DEF Step, TakeActivePage, RetireActivePage, FindNoActivePage, CreatePage,
       PreFinalize, AppendLeaf, StorePage, StorageFails, TrackFinalized, LoadChild,
       ChildMissing, RetireStaleParent, ParentNotStale, ReuseParent, ReopenParent,
       CreateParent, DiscardParent, FinalizeParent, KeepParent, ReturnToParent, worldVars
  <2> QED
    BY <2>1 DEF KeepActivePage, ReturnToAddLeaf, managerVars, StoredLeaves
<1> QED
  BY <1>1, <1>2, <1>3, <1>4, <1>5, <1>6

(* The leaf appended is new to the log. *)
LEMMA AppendedIsNew ==
    ASSUME IInv, LInv, AckInv, OnlyPayloads, NEW a \in Appenders, AppendLeaf(a)
    PROVE  /\ call[a].leaf \in [id : 0 .. MaxLeaves - 1, ts : Times, obj : Payloads]
           /\ call[a].leaf \notin Held
           /\ call[a].leaf \notin {acc.leaf : acc \in accepted}
<1>1. /\ pc[a] = "have" /\ IsCall(call[a]) /\ call[a].leaf.obj \in Payloads
      /\ call[a].leaf.id < leafCount /\ leafCount <= MaxLeaves /\ MaxLeaves \in Nat
      /\ leafCount \in Nat
  BY WorkloadAssumption DEF AppendLeaf, OnlyPayloads, LInv, CallsDistinct, IInv, TypeOK,
     CallTypeOK, CountersTypeOK
<1>2. call[a].leaf \in [id : 0 .. MaxLeaves - 1, ts : Times, obj : Payloads]
  BY <1>1 DEF IsCall, Leaf
<1>3. call[a].leaf \notin Held
  BY <1>1 DEF LInv, PendingAway, Pending, Held, LeavesIn, LeavesOf
<1>4. call[a].leaf.id \notin Acked
  BY <1>1 DEF AckInv, CallLinked, IsCall, Leaf
<1> QED
  BY <1>2, <1>3, <1>4 DEF Acked

(* A leaf acknowledged is in the log. *)
LEMMA AcknowledgedIsHeld ==
    ASSUME Base, Base', NEW a \in Appenders, Step(a), accepted' # accepted
    PROVE  \E leaf \in Held' : {acc.leaf : acc \in accepted'} =
                                  {acc.leaf : acc \in accepted} \cup {leaf}
<1> DEFINE r == [leaf |-> call[a].leaf, pageId |-> call[a].pageId]
<1>1. accepted' = accepted \cup {r} /\ r \in accepted' \ accepted
  BY AcceptEffect DEF Base
<1>2. Alone(a)
  BY SerialAlone DEF Base
<1> HIDE DEF r
<1>3. r.leaf \in Held'
  BY <1>1, <1>2, AcceptedIsKept DEF Base, Held, LeavesIn
<1> QED
  BY <1>1, <1>3

(* Every step of the journal is one of the log, or changes nothing there. *)
LEMMA LogSteps ==
    ASSUME Base, Base', LogView, LogView', AckInv, OnlyPayloads, [JNext]_jvars
    PROVE  [Log!LogNext]_(Log!logVars)
<1> DEFINE volatile == LeavesIn(activePages \cup InHand) \ StoredLeaves
           acked == {acc.leaf : acc \in accepted}
<1>1. /\ volatile = Held \ StoredLeaves /\ volatile' = Held' \ StoredLeaves'
      /\ StoredLeaves \subseteq Held /\ StoredLeaves' \subseteq Held'
  BY DEF LogView
<1>2. ASSUME UNCHANGED <<managerVars, page, accepted, storeFailures>>
      PROVE  UNCHANGED Log!logVars
  BY <1>2 DEF Log!logVars, managerVars, InHand, StoredLeaves
<1>3. ASSUME NEW a \in Appenders, CallAppend(a) PROVE UNCHANGED Log!logVars
  <2>1. UNCHANGED <<managerVars, page, accepted, storeFailures>>
    BY <1>3, NewCall DEF CallAppend, Base
  <2> QED
    BY <1>2, <2>1
<1>4. CASE UNCHANGED vars
  BY <1>2, <1>4 DEF vars, callVars, worldVars
<1>5. ASSUME NEW a \in Appenders, Step(a) PROVE [Log!LogNext]_(Log!logVars)
  <2>1. CASE AppendLeaf(a)
    <3>1. /\ StoredLeaves' = StoredLeaves /\ Held' = Held \cup {call[a].leaf}
          /\ UNCHANGED <<accepted, storeFailures>>
      BY <1>5, <2>1, StepMovesLeaves
    <3>2. /\ call[a].leaf \in [id : 0 .. MaxLeaves - 1, ts : Times, obj : Payloads]
          /\ call[a].leaf \notin Held /\ call[a].leaf \notin acked
      BY <2>1, AppendedIsNew DEF Base
    <3>3. Log!Receive
      <4>1. volatile' = volatile \cup {call[a].leaf}
        BY <1>1, <3>1, <3>2
      <4>2. call[a].leaf \in [id : 0 .. MaxLeaves - 1, ts : Times, obj : Payloads]
                                \ (StoredLeaves \cup volatile \cup acked)
        BY <1>1, <3>2
      <4>3. acked' = acked
        BY <3>1
      <4> QED
        BY <3>1, <4>1, <4>2, <4>3 DEF Log!Receive
    <3> QED
      BY <3>3 DEF Log!LogNext
  <2>2. CASE StorageFails(a)
    <3>1. /\ StoredLeaves' = StoredLeaves /\ Held' \subseteq Held
          /\ accepted' = accepted /\ storeFailures' = storeFailures + 1
      BY <1>5, <2>2, StepMovesLeaves
    <3>2. volatile' \in SUBSET volatile /\ acked' = acked
      BY <1>1, <3>1
    <3>3. Log!Fault
      BY <3>1, <3>2 DEF Log!Fault
    <3> QED
      BY <3>3 DEF Log!LogNext
  <2>3. CASE ~AppendLeaf(a) /\ ~StorageFails(a)
    <3>1. /\ StoredLeaves \subseteq StoredLeaves' /\ Held' = Held
          /\ storeFailures' = storeFailures
          /\ accepted' # accepted => StoredLeaves' = StoredLeaves
      BY <1>5, <2>3, StepMovesLeaves
    <3>2. CASE accepted' # accepted
      <4>1. PICK leaf \in Held' : acked' = acked \cup {leaf}
        BY <1>5, <3>2, AcknowledgedIsHeld
      <4>2. volatile' = volatile /\ StoredLeaves' = StoredLeaves
        BY <1>1, <3>1, <3>2
      <4>3. leaf \in StoredLeaves \cup volatile
        BY <1>1, <3>1, <4>1
      <4>4. Log!Acknowledge
        BY <3>1, <4>1, <4>2, <4>3 DEF Log!Acknowledge
      <4> QED
        BY <4>4 DEF Log!LogNext
    <3>3. CASE accepted' = accepted
      <4> DEFINE written == StoredLeaves' \ StoredLeaves
      <4>1. /\ written \in SUBSET volatile
            /\ StoredLeaves' = StoredLeaves \cup written /\ volatile' = volatile \ written
        BY <1>1, <3>1
      <4>2. acked' = acked
        BY <3>3
      <4>3. Log!Persist
        BY <3>1, <4>1, <4>2 DEF Log!Persist
      <4> QED
        BY <4>3 DEF Log!LogNext
    <3> QED
      BY <3>2, <3>3
  <2> QED
    BY <2>1, <2>2, <2>3
<1> QED
  BY <1>3, <1>4, <1>5, JournalSteps DEF Proceed

(***************************************************************************)
(* The journal implements the write-behind log: for every hierarchy and    *)
(* configuration, any number of callers and failing stores, a leaf moves   *)
(* from memory to the store and never back, it is acknowledged only where  *)
(* it is held, and nothing but a failed write loses one not yet stored.    *)
(***************************************************************************)
THEOREM JournalImplementsLog ==
    ASSUME NoneIsNoRecord
    PROVE  JSpec => ImplementsLog
<1>1. JInit => Log!LogInit
  <2> SUFFICES ASSUME JInit PROVE Log!LogInit
    OBVIOUS
  <2>1. activePages = {} /\ InHand = {} /\ storage = {} /\ accepted = {} /\ storeFailures = 0
    BY DEF JInit, Init, InHand
  <2> QED
    BY <2>1 DEF Log!LogInit, StoredLeaves, LeavesIn
<1>2. JInit => AckInv /\ OnlyPayloads
  BY DEF JInit, Init, AckInv, LinksOK, Latest, Recent, Acked, CallLinked, AckedLeavesChain,
     IsList, OnlyPayloads
<1>3. Base /\ AckInv /\ OnlyPayloads /\ [JNext]_jvars => AckInv' /\ OnlyPayloads'
  BY LinksKept, PayloadsKept DEF Base
<1>4. Base /\ Base' /\ LogView /\ LogView' /\ AckInv /\ OnlyPayloads /\ [JNext]_jvars
         => [Log!LogNext]_(Log!logVars)
  BY LogSteps
<1>5. Base => LogView
  BY HeldInView DEF Base
<1> QED
  BY <1>5, <1>1, <1>2, <1>3, <1>4, JournalBase, PTL DEF JSpec, ImplementsLog, Log!LogSpec

(***************************************************************************)
(* What that buys the callers of append_leaf: until a write fails, every   *)
(* leaf it returned Ok for is in the store or in memory.                   *)
(***************************************************************************)
THEOREM JournalLosesNothing ==
    ASSUME NoneIsNoRecord
    PROVE  JSpec => []Log!NothingLost
<1> DEFINE LogInv == storeFailures \in Nat /\ Log!NothingLost
<1>1. Log!LogInit => LogInv
  BY DEF Log!LogInit, Log!NothingLost
<1>2. LogInv /\ [Log!LogNext]_(Log!logVars) => LogInv'
  <2> SUFFICES ASSUME LogInv, [Log!LogNext]_(Log!logVars) PROVE LogInv'
    OBVIOUS
  <2>1. CASE Log!Receive
    BY <2>1 DEF Log!Receive, Log!NothingLost
  <2>2. CASE Log!Persist
    BY <2>2 DEF Log!Persist, Log!NothingLost
  <2>3. CASE Log!Acknowledge
    BY <2>3 DEF Log!Acknowledge, Log!NothingLost
  <2>4. CASE Log!Fault
    BY <2>4 DEF Log!Fault, Log!NothingLost
  <2>5. CASE UNCHANGED Log!logVars
    BY <2>5 DEF Log!logVars, Log!NothingLost
  <2> QED
    BY <2>1, <2>2, <2>3, <2>4, <2>5 DEF Log!LogNext
<1>3. ImplementsLog => []LogInv
  BY <1>1, <1>2, PTL DEF ImplementsLog, Log!LogSpec
<1> QED
  BY <1>3, JournalImplementsLog, PTL

----------------------------------------------------------------------------
(***************************************************************************)
(* GotPageHoldsItsLeaves.  A page id told to a caller of append_leaf is    *)
(* that of one leaf page for ever, in all the places the page is in, and   *)
(* the leaf is in every one of them: the id generator steps back for       *)
(* discarded parents only, and a page given a leaf replaces its copies.    *)
(***************************************************************************)

(* Where a page comes from in a step of add_leaf. *)
LEMMA Origins ==
    ASSUME IInv, LInv, NEW a \in Appenders, Step(a)
    PROVE  \A p \in Around' :
              \/ Fresh(p) /\ LeavesOf(p) = {}
              \/ \E q \in Around :
                    /\ q.id = p.id /\ q.level = p.level /\ LeavesOf(q) \subseteq LeavesOf(p)
                    /\ \A x \in LeavesOf(p) :
                          x \in LeavesOf(q) \/ (AppendLeaf(a) /\ x = call[a].leaf)
<1>1. CASE ~AppendLeaf(a)
  <2>1. Inherits
    BY <1>1, StepInherits DEF LInv
  <2> QED
    BY <2>1 DEF Inherits, Fresh, WasThere, LeavesOf
<1>2. CASE AppendLeaf(a)
  <2> DEFINE g == page'[a]
             old == page[a].leaves
             leaf == call[a].leaf
  <2>1. /\ Mine(a) /\ page[a] \in Around /\ g.leaves = Append(old, leaf)
        /\ g.id = page[a].id /\ g.level = page[a].level
        /\ UNCHANGED <<activePages, storage>> /\ old \in Seq(Leaf) /\ leaf \in Leaf
    BY <1>2, AppendLeafEffect DEF managerVars, worldVars, IsPage
  <2>2. \A x : x \in LeavesOf(g) <=> x \in LeavesOf(page[a]) \/ x = leaf
    <3>1. page[a].leaves \in Seq(Leaf) /\ leaf \in Leaf /\ g.leaves = Append(page[a].leaves, leaf)
      BY <2>1
    <3> HIDE DEF g, leaf
    <3> QED
      BY <3>1, AppendedLeaf
  <2>3. \A p \in Around' : p \in Around \/ p = g
    BY <2>1, AroundAfter, AroundParts
  <2> QED
    BY <1>2, <2>1, <2>2, <2>3
<1> QED
  BY <1>1, <1>2

(* page_id_gen: one step ahead, or back over a parent that was dropped. *)
LEMMA IdGenerator ==
    ASSUME IInv, GInv, NEW a \in Appenders, Step(a)
    PROVE  /\ nextPageId \in Nat
           /\ \/ nextPageId' = nextPageId \/ nextPageId' = nextPageId + 1
              \/ \E p \in Around : p.level > 0 /\ nextPageId' = Reverted(p.id)
<1>0. nextPageId \in Nat
  BY DEF IInv, TypeOK, ManagerTypeOK
<1>1. CASE CreatePage(a) \/ CreateParent(a)
  BY <1>0, <1>1 DEF CreatePage, CreateParent
<1>2. CASE RetireActivePage(a)
  BY <1>0, <1>2, RetiredHasLeaves DEF GInv
<1>3. CASE DiscardParent(a)
  <2>1. nextPageId' = Reverted(page[a].id) /\ pc[a] = "settle"
    BY <1>3 DEF DiscardParent
  <2>2. page[a].level > 0 /\ page[a] \in Around
    BY <1>3, <2>1, SettleEffect, AroundParts DEF HoldsPage
  <2> QED
    BY <1>0, <2>1, <2>2
<1>4. CASE /\ ~CreatePage(a) /\ ~CreateParent(a) /\ ~RetireActivePage(a) /\ ~DiscardParent(a)
  BY <1>0, <1>4 DEF Step, TakeActivePage, FindNoActivePage, PreFinalize, AppendLeaf,
     KeepActivePage, StorePage, StorageFails, TrackFinalized, LoadChild, ChildMissing,
     RetireStaleParent, ParentNotStale, ReuseParent, ReopenParent, FinalizeParent, KeepParent,
     ReturnToParent, ReturnToAddLeaf, managerVars
<1> QED
  BY <1>1, <1>2, <1>3, <1>4

(* An id that is used, and by no parent, stays so. *)
LEMMA LeafPageIdStays ==
    ASSUME IInv, LInv, GInv, NEW a \in Appenders, Step(a),
           NEW id \in Nat, id < nextPageId, \A p \in Around : p.id = id => p.level = 0
    PROVE  id < nextPageId' /\ \A p \in Around' : p.id = id => p.level = 0
<1>1. \A p \in Around : p.level > 0 => p.id # id /\ p.id \in Nat
  BY AroundArePages DEF IsPage
<1>2. id < nextPageId'
  BY <1>1, IdGenerator DEF Reverted
<1>3. \A p \in Around' : p.id = id => \E q \in Around : q.id = p.id /\ q.level = p.level
  BY Origins, IdGenerator DEF Fresh
<1> QED
  BY <1>2, <1>3

(* What was acknowledged before stays in its place. *)
LEMMA OldPlaces ==
    ASSUME IInv, LInv, GInv, AckInv, PlaceOK, NEW a \in Appenders, Step(a), NEW r \in accepted
    PROVE  /\ r.pageId \in Nat /\ r.pageId < nextPageId'
           /\ \A p \in Around' : p.id = r.pageId => p.level = 0 /\ r.leaf \in LeavesOf(p)
           /\ \A p \in Around' : r.leaf \in LeavesOf(p) => p.id = r.pageId
<1>1. /\ r.pageId \in Nat /\ r.pageId < nextPageId
      /\ \A p \in Around : p.id = r.pageId => p.level = 0 /\ r.leaf \in LeavesOf(p)
      /\ \A p \in Around : r.leaf \in LeavesOf(p) => p.id = r.pageId
  BY DEF PlaceOK
<1>2. r.pageId < nextPageId' /\ \A p \in Around' : p.id = r.pageId => p.level = 0
  BY <1>1, LeafPageIdStays
<1>3. r.leaf # call[a].leaf \/ ~AppendLeaf(a)
  <2>1. r.leaf.id \in Acked
    BY DEF Acked
  <2>2. AppendLeaf(a) => pc[a] = "have" /\ IsCall(call[a])
    BY DEF AppendLeaf, IInv, TypeOK, CallTypeOK
  <2> QED
    BY <2>1, <2>2 DEF AckInv, CallLinked, IsCall, Leaf
<1> QED
  BY <1>1, <1>2, <1>3, Origins, IdGenerator DEF Fresh

(* A page id is told with the leaf in its place. *)
LEMMA NewPlace ==
    ASSUME IInv, LInv, GInv, AcceptedKept, NEW a \in Appenders, TellOK(a), Alone(a), Step(a),
           NEW r \in accepted' \ accepted
    PROVE  /\ r.pageId \in Nat /\ r.pageId < nextPageId'
           /\ \A p \in Around' : p.id = r.pageId => p.level = 0 /\ r.leaf \in LeavesOf(p)
           /\ \A p \in Around' : r.leaf \in LeavesOf(p) => p.id = r.pageId
<1>0. Mine(a) /\ FlowOK(a)
  BY CallStepOK DEF GInv
<1>1. \A p \in Around' : \/ p \in activePages' \/ p \in storage'
                         \/ pc'[a] \in HoldsPage /\ p = page'[a]
  BY <1>0, OnlyHand
<1>2. KeepActivePage(a) \/ ReturnToAddLeaf(a)
  BY DEF Step, TakeActivePage, RetireActivePage, FindNoActivePage, CreatePage, PreFinalize,
     AppendLeaf, StorePage, StorageFails, TrackFinalized, LoadChild, ChildMissing,
     RetireStaleParent, ParentNotStale, ReuseParent, ReopenParent, CreateParent,
     DiscardParent, FinalizeParent, KeepParent, ReturnToParent, worldVars
<1>3. CASE KeepActivePage(a)
  <2> DEFINE p == page[a]
  <2>1. /\ pc[a] = "insert" /\ activePages' = WithActive(p) /\ Depth(a) = 0
        /\ r = [leaf |-> call[a].leaf, pageId |-> call[a].pageId]
        /\ nextPageId' = nextPageId /\ storage' = storage /\ pc'[a] \notin HoldsPage
        /\ IsPage(p) /\ p.level = 0 /\ p \in Around
    BY <1>3, KeepActiveEffect, LeaveEffect, DepthOK, AroundParts DEF InAddLeaf, HoldsPage
  <2>2. /\ r.leaf \in LeavesOf(p) /\ Unstored(p.id) /\ r.pageId = p.id
    BY <1>0, <2>1 DEF FlowOK, LeafPageInHand, TellOK, Pending
  <2> HIDE DEF p
  <2>3. \A q \in Around' : q.id = p.id => q = p
    BY <1>1, <2>1, <2>2, AroundParts DEF WithActive, Without, Unstored, GInv, IdsOK
  <2>4. \A q \in Around' : r.leaf \in LeavesOf(q) => q.id = p.id
    BY <1>1, <2>1, <2>2, AroundParts DEF WithActive, Without, LInv, OnePlace, LeavesOf
  <2> QED
    BY <2>1, <2>2, <2>3, <2>4 DEF GInv, IdsOK, IsPage
<1>4. CASE ReturnToAddLeaf(a)
  <2>1. /\ pc[a] = "return" /\ Depth(a) > 0 /\ UNCHANGED managerVars
        /\ call[a].after = "done" /\ pc'[a] \notin HoldsPage
        /\ r = [leaf |-> call[a].leaf, pageId |-> call[a].pageId]
    BY <1>4, ReturnEffect, LeaveEffect DEF HoldsPage
  <2>2. /\ IsCall(call[a]) /\ call[a].pageId # None /\ call[a].pageId < nextPageId
        /\ \A p \in Around : p.id = call[a].pageId => p.level = 0
        /\ \A p \in storage : p.id = call[a].pageId <=> call[a].leaf \in LeavesOf(p)
        /\ ActiveAt(0) = {}
    BY <1>0, <2>1, DepthOK DEF TellOK, FlowOK
  <2>3. \A p \in Around' : /\ p \in Around
                           /\ p.level = 0 => p \in storage
    BY <1>1, <2>1, <2>2, AroundParts DEF managerVars, ActiveAt
  <2>4. \A p \in Around' : r.leaf \in LeavesOf(p) => p.level = 0
    <3>1. \A p \in Around : p.level \in Nat /\ (p.level > 0 => p.leaves = <<>>)
      BY AroundArePages, ConfigAssumption DEF IsPage, Levels, GInv, ContentOK
    <3> QED
      BY <2>3, <3>1 DEF LeavesOf
  <2> QED
    BY <2>1, <2>2, <2>3, <2>4 DEF IsCall, managerVars
<1> QED
  BY <1>2, <1>3, <1>4

LEMMA StepPlaces ==
    ASSUME Base, Base', AckInv, PInv, NEW a \in Appenders, Step(a)
    PROVE  PlaceOK'
BY SerialAlone, OldPlaces, NewPlace DEF Base, PInv, PlaceOK

(* What a call remembers from one step to the next. *)
LEMMA CallKept ==
    ASSUME IInv, NEW a \in Appenders, Step(a), pc'[a] # "idle"
    PROVE  /\ call'[a].leaf = call[a].leaf /\ call'[a].op = call[a].op
           /\ TakeActivePage(a) \/ CreatePage(a) =>
                 /\ call'[a].after = call[a].after
                 /\ call'[a].pageId = IF call[a].pageId = None THEN page'[a].id
                                      ELSE call[a].pageId
           /\ ~TakeActivePage(a) /\ ~CreatePage(a) => call'[a].pageId = call[a].pageId
<1>0. /\ pc[a] # "idle" /\ IsCall(call[a]) /\ call'[a].leaf = call[a].leaf
      /\ DOMAIN call = Appenders /\ DOMAIN page = Appenders
  BY StepSameLeaf, DepthOK DEF SameLeaf, IInv, TypeOK
<1>1. ASSUME \/ call' = call
             \/ \E v : call' = [call EXCEPT ![a].after = v]
             \/ \E v : call' = [call EXCEPT ![a].retaken = v]
      PROVE  call'[a].op = call[a].op /\ call'[a].pageId = call[a].pageId
  BY <1>0, <1>1 DEF IsCall
<1>2. CASE TakeActivePage(a) \/ CreatePage(a)
  <2>1. PICK p : Obtain(a, p)
    BY <1>2 DEF TakeActivePage, CreatePage
  <2>2. call'[a].op = call[a].op /\ call'[a].after = call[a].after
    BY <1>0, <2>1 DEF Obtain, IsCall
  <2>3. call'[a].pageId = IF call[a].pageId = None THEN p.id ELSE call[a].pageId
    BY <1>0, <2>1 DEF Obtain, IsCall
  <2>4. page'[a] = p
    BY <1>0, <2>1 DEF Obtain, Hold
  <2> QED
    BY <1>0, <1>2, <2>2, <2>3, <2>4
<1>3. ASSUME Leave(a) PROVE FALSE
  BY <1>3, LeaveEffect
<1>4. CASE /\ RetireActivePage(a) \/ PreFinalize(a) \/ AppendLeaf(a)
           /\ ~TakeActivePage(a) /\ ~CreatePage(a)
  <2>1. call' = call \/ \E v : call' = [call EXCEPT ![a].after = v]
    BY <1>4 DEF RetireActivePage, PreFinalize, AppendLeaf
  <2> QED
    BY <1>0, <1>1, <1>4, <2>1
<1>5. CASE ReturnToAddLeaf(a)
  <2>1. pc[a] = "return" /\ (call' = call \/ \E v : call' = [call EXCEPT ![a].retaken = v])
    BY <1>3, <1>5 DEF ReturnToAddLeaf, ReturnOk
  <2> QED
    BY <1>0, <1>1, <2>1 DEF TakeActivePage, CreatePage
<1>6. CASE /\ ~TakeActivePage(a) /\ ~CreatePage(a) /\ ~RetireActivePage(a) /\ ~PreFinalize(a)
           /\ ~AppendLeaf(a) /\ ~ReturnToAddLeaf(a)
  <2>1. call' = call
    BY <1>3, <1>6 DEF Step, FindNoActivePage, KeepActivePage, ReturnOk, StorePage, StorageFails,
       TrackFinalized, LoadChild, ChildMissing, RetireStaleParent, ParentNotStale, ReuseParent,
       ReopenParent, CreateParent, DiscardParent, FinalizeParent, KeepParent, ReturnToParent
  <2> QED
    BY <1>0, <1>1, <1>6, <2>1
<1> QED
  BY <1>2, <1>4, <1>5, <1>6

(* No call told to finalize first: its operation time is that of its leaf. *)
LEMMA NeverPreFinalized ==
    ASSUME IInv, NEW a \in Appenders, TellOK(a)
    PROVE  ~PreFinalize(a)
<1> SUFFICES ASSUME PreFinalize(a) PROVE FALSE
  OBVIOUS
<1>1. pc[a] = "have" /\ call[a].op > Trigger(a)
  BY DEF PreFinalize, MustPreFinalize
<1>2. call[a].leaf.ts \in Nat
  BY <1>1, DepthOK DEF IsCall, Leaf
<1>3. call[a].op = Trigger(a)
  BY <1>1 DEF TellOK, Trigger
<1> QED
  BY <1>1, <1>2, <1>3 DEF Trigger

(* The steps that get hold of the leaf page, and the one that gives it the leaf. *)
LEMMA LeafPageTold ==
    ASSUME IInv, LInv, GInv, GInv', NEW a \in Appenders, Alone(a), TellOK(a),
           \/ TakeActivePage(a) \/ RetireActivePage(a) \/ FindNoActivePage(a)
           \/ CreatePage(a) \/ AppendLeaf(a)
    PROVE  TellOK(a)'
<1>1. /\ Step(a) /\ Mine(a) /\ IInv' /\ pc'[a] # "idle" /\ IsCall(call[a]) /\ IsCall(call'[a])
      /\ call'[a].leaf = call[a].leaf /\ call'[a].op = call[a].op
      /\ call'[a].op = call'[a].leaf.ts /\ call'[a].leaf.obj \in Payloads
  <2>1. Step(a) /\ Mine(a) /\ IInv'
    BY CallStepOK DEF Step
  <2>2. pc[a] \in {"take", "create", "have"}
    BY DEF TakeActivePage, RetireActivePage, FindNoActivePage, CreatePage, AppendLeaf
  <2>3. pc'[a] # "idle"
    BY TakeEffect, RetiredHasLeaves, CreateEffect, AppendLeafEffect
       DEF FindNoActivePage, Goto, IInv, TypeOK, GInv
  <2>4. IsCall(call[a]) /\ IsCall(call'[a])
    BY <2>1, <2>2, <2>3, DepthOK DEF IInv, TypeOK, CallTypeOK
  <2> QED
    BY <2>1, <2>2, <2>3, <2>4, CallKept DEF TellOK
<1>2. \A id \in Nat : id < nextPageId /\ (\A p \in Around : p.id = id => p.level = 0)
         => id < nextPageId' /\ \A p \in Around' : p.id = id => p.level = 0
  BY <1>1, LeafPageIdStays
<1>3. /\ pc[a] \in {"take", "create", "have"} /\ Depth(a) = 0 /\ Depth(a)' = 0
      /\ frames' = frames
  BY DepthOK, CreateEffect, AppendLeafEffect
     DEF TakeActivePage, RetireActivePage, FindNoActivePage, CreatePage, AppendLeaf,
         InAddLeaf, Depth
<1>4. CASE TakeActivePage(a) \/ CreatePage(a)
  <2> DEFINE p == page'[a]
  <2>1. /\ pc[a] \in {"take", "create"} /\ pc'[a] = "have"
        /\ p \in Around' /\ p.level = 0 /\ p.id \in Nat
        /\ call'[a].after = call[a].after /\ call'[a].pageId = p.id
        /\ call[a].after # "retake"
    <3>1. pc[a] \in {"take", "create"} /\ pc'[a] = "have"
      BY <1>4, TakeEffect, CreateEffect
    <3>2. p \in Around' /\ p.level = 0 /\ p.id \in Nat
      <4>1. IsPage(p) /\ p.level = 0
        BY <1>4, TakeEffect, CreateEffect DEF ActiveAt, IInv, TypeOK, ManagerTypeOK
      <4>2. p \in Around'
        BY <3>1 DEF Around, HoldsPage
      <4> QED
        BY <4>1, <4>2 DEF IsPage
    <3>3. call[a].pageId = None /\ call[a].after # "retake"
      BY <3>1 DEF TellOK
    <3> QED
      BY <1>1, <1>4, <3>1, <3>2, <3>3, CallKept
  <2> HIDE DEF p
  <2>2. p.id < nextPageId' /\ \A q \in Around' : q.id = p.id => q.level = 0
    BY <2>1 DEF GInv, IdsOK
  <2> QED
    BY <1>1, <1>3, <2>1, <2>2 DEF TellOK, p
<1>5. CASE RetireActivePage(a)
  <2>1. pc[a] = "take" /\ pc'[a] = "store" /\ call'[a].after = "create"
    BY <1>5, RetireEffect, RetiredHasLeaves DEF GInv
  <2>2. call'[a].pageId = None
    <3>1. ~TakeActivePage(a) /\ ~CreatePage(a)
      BY <2>1, TakeEffect, CreateEffect
    <3> QED
      BY <1>1, <2>1, <3>1, CallKept DEF TellOK
  <2> QED
    BY <1>1, <1>3, <2>1, <2>2 DEF TellOK
<1>6. CASE FindNoActivePage(a)
  <2>1. pc[a] = "take" /\ pc'[a] = "create" /\ call' = call
    BY <1>6 DEF FindNoActivePage, Goto, IInv, TypeOK
  <2> QED
    BY <1>1, <1>3, <2>1 DEF TellOK, LeafPageInHand
<1>7. CASE AppendLeaf(a)
  <2>1. /\ pc[a] = "have" /\ pc'[a] \in {"store", "insert"} /\ call'[a].after = "done"
        /\ page'[a].id = page[a].id
    BY <1>7, AppendLeafEffect
  <2>2. call'[a].pageId = call[a].pageId /\ call[a].pageId = page[a].id
    BY <1>1, <1>7, <2>1, CallKept DEF TellOK, TakeActivePage, CreatePage
  <2>3. call'[a].pageId # None =>
              /\ call'[a].pageId < nextPageId'
              /\ \A p \in Around' : p.id = call'[a].pageId => p.level = 0
    BY <1>1, <1>2, <2>1, <2>2 DEF TellOK, IsCall
  <2> QED
    BY <1>1, <1>3, <2>1, <2>2, <2>3 DEF TellOK
<1> QED
  BY <1>4, <1>5, <1>6, <1>7

(* The steps that finalize pages, and roll them up. *)
LEMMA RollupTold ==
    ASSUME IInv, LInv, GInv, SInv, NEW a \in Appenders, Alone(a), TellOK(a), Step(a),
           pc'[a] # "idle", pc[a] \notin InAddLeaf
    PROVE  TellOK(a)'
<1>1. /\ Mine(a) /\ IsCall(call[a]) /\ pc[a] # "idle" /\ FlowOK(a)
      /\ call'[a].leaf = call[a].leaf /\ call'[a].op = call[a].op
      /\ call'[a].pageId = call[a].pageId
      /\ pc[a] \notin {"take", "create", "have"}
  BY CallStepOK, DepthOK, CallKept DEF TakeActivePage, CreatePage, InAddLeaf, GInv
<1>2. call[a].pageId # None =>
         /\ call[a].pageId < nextPageId'
         /\ \A p \in Around' : p.id = call[a].pageId => p.level = 0
  BY <1>1, LeafPageIdStays DEF TellOK, IsCall
<1>3. ASSUME call'[a].after = call[a].after, pc'[a] \notin {"take", "create", "have"},
             LeafPageInHand(a)' => LeafPageInHand(a) /\ page'[a].id = page[a].id,
             Depth(a)' > 0 /\ call[a].after = "done" =>
                /\ call[a].pageId # None
                /\ \A p \in storage' : p.id = call[a].pageId <=> call[a].leaf \in LeavesOf(p)
      PROVE  TellOK(a)'
  BY <1>1, <1>2, <1>3 DEF TellOK
<1>4. ASSUME call' = call, pc'[a] \notin {"take", "create", "have"},
             Depth(a) > 0, Depth(a)' > 0, storage' = storage
      PROVE  TellOK(a)'
  BY <1>1, <1>3, <1>4 DEF TellOK, LeafPageInHand
<1>5. CASE StorePage(a)
  <2>1. /\ pc[a] = "store" /\ pc'[a] = "track" /\ page' = page /\ call' = call
        /\ frames' = frames /\ Depth(a)' = Depth(a) /\ Depth(a) \in Nat
        /\ storage' = (storage \ Stored(page[a].level, page[a].id)) \cup {page[a]}
    BY <1>5, StoreEffect, DepthOK DEF Depth
  <2>2. LeafPageInHand(a)' => LeafPageInHand(a)
    BY <2>1 DEF LeafPageInHand
  <2>3. CASE Depth(a) = 0
    BY <1>3, <2>1, <2>2, <2>3
  <2>4. CASE Depth(a) > 0 /\ call[a].after # "done"
    BY <1>3, <2>1, <2>2, <2>4
  <2>5. CASE Depth(a) > 0 /\ call[a].after = "done"
    <3>1. /\ call[a].pageId # None
          /\ \A p \in storage : p.id = call[a].pageId <=> call[a].leaf \in LeavesOf(p)
          /\ \A p \in Around : p.id = call[a].pageId => p.level = 0
      BY <1>1, <2>5 DEF TellOK
    <3>2. page[a] \in Around /\ page[a].level > 0 /\ page[a].leaves = <<>>
      BY <2>1, <2>5, DepthOK, AroundParts DEF HoldsPage, GInv, ContentOK
    <3>3. page[a].id # call[a].pageId /\ call[a].leaf \notin LeavesOf(page[a])
      BY <3>1, <3>2 DEF LeavesOf
    <3> QED
      BY <1>3, <2>1, <2>2, <3>1, <3>3
  <2> QED
    BY <2>1, <2>3, <2>4, <2>5
<1>6. CASE TrackFinalized(a)
  <2>1. /\ pc[a] = "track" /\ pc'[a] = "load" /\ call' = call /\ storage' = storage
        /\ Depth(a) \in Nat /\ Depth(a)' = Depth(a) + 1
        /\ Depth(a) = 0 => page[a] \in storage
    BY <1>1, <1>6, TrackEffect, DepthOK DEF SInv, LeafStored
  <2>2. CASE Depth(a) > 0
    BY <1>4, <2>1, <2>2
  <2>3. CASE Depth(a) = 0 /\ call[a].after # "done"
    BY <1>3, <2>1, <2>3 DEF LeafPageInHand
  <2>4. CASE Depth(a) = 0 /\ call[a].after = "done"
    <3>0. page[a] \in storage
      BY <2>1, <2>4
    <3>1. /\ call[a].pageId = page[a].id /\ call[a].leaf \in LeavesOf(page[a])
      BY <1>1, <2>1, <2>4 DEF TellOK, LeafPageInHand, FlowOK, Pending
    <3>2. page[a].id # None
      BY <3>0, NoneAssumption DEF IInv, TypeOK, ManagerTypeOK, IsPage
    <3>3. \A p \in storage : p.id = page[a].id => p = page[a]
      BY <3>0 DEF GInv, IdsOK
    <3>4. \A p \in storage : call[a].leaf \in LeavesOf(p) => p.id = page[a].id
      BY <3>0, <3>1, AroundParts DEF LInv, OnePlace, LeavesOf
    <3> QED
      BY <1>3, <2>1, <2>4, <3>0, <3>1, <3>2, <3>3, <3>4 DEF LeafPageInHand
  <2> QED
    BY <2>1, <2>2, <2>3, <2>4
<1>7. CASE LoadChild(a) \/ ParentNotStale(a) \/ ReturnToParent(a)
  BY <1>4, <1>7, RollupRestsEffect DEF managerVars
<1>8. CASE RetireStaleParent(a)
  BY <1>4, <1>8, RetireStaleEffect
<1>9. CASE ReuseParent(a) \/ ReopenParent(a) \/ CreateParent(a)
  <2>1. \E p : Obtained(a, p)
    BY <1>9, ParentEffect
  <2> QED
    BY <1>4, <2>1 DEF Obtained, Depth
<1>10. CASE DiscardParent(a) \/ FinalizeParent(a) \/ KeepParent(a)
  BY <1>4, <1>10, SettleEffect
<1>11. CASE ReturnToAddLeaf(a)
  <2>1. /\ pc[a] = "return" /\ call[a].after = "create" /\ call' = call
        /\ pc'[a] = "create" /\ Depth(a)' = 0
    <3>1. ~Leave(a) /\ Depth(a)' = 0
      BY <1>11, LeaveEffect, ReturnEffect
    <3>2. call[a].after # "retake"
      BY <1>1 DEF TellOK
    <3> QED
      BY <1>11, <3>1, <3>2 DEF ReturnToAddLeaf, ReturnOk, Goto, IInv, TypeOK
  <2> QED
    BY <1>1, <2>1 DEF TellOK, LeafPageInHand
<1>12. ~StorageFails(a) /\ ~ChildMissing(a)
  BY LeaveEffect DEF StorageFails, ChildMissing
<1>13. /\ ~TakeActivePage(a) /\ ~RetireActivePage(a) /\ ~FindNoActivePage(a) /\ ~CreatePage(a)
       /\ ~PreFinalize(a) /\ ~AppendLeaf(a) /\ ~KeepActivePage(a)
  BY DEF InAddLeaf, TakeActivePage, RetireActivePage, FindNoActivePage, CreatePage, PreFinalize,
     AppendLeaf, KeepActivePage
<1> QED
  BY <1>5, <1>6, <1>7, <1>8, <1>9, <1>10, <1>11, <1>12, <1>13 DEF Step

LEMMA StepTold ==
    ASSUME Base, Base', NEW a \in Appenders, TellOK(a), Step(a)
    PROVE  \A b \in Appenders : TellOK(b)'
<1> USE DEF Base
<1>1. Alone(a) /\ Mine(a)
  BY SerialAlone, CallStepOK
<1>2. \A b \in Appenders : pc'[b] = "idle" => TellOK(b)'
  BY DEF TellOK
<1>3. SUFFICES ASSUME pc'[a] # "idle" PROVE TellOK(a)'
  BY <1>1, <1>2 DEF Alone, Mine
<1>4. CASE pc'[a] # "idle" /\ pc[a] \notin InAddLeaf
  BY <1>1, <1>4, RollupTold
<1>5. CASE pc'[a] # "idle" /\ pc[a] \in InAddLeaf
  <2>1. ~KeepActivePage(a)
    BY <1>5, KeepActiveEffect, LeaveEffect
  <2>2. ~StorageFails(a)
    BY <1>5, StorageFailsEffect, LeaveEffect
  <2>3. \/ TakeActivePage(a) \/ RetireActivePage(a) \/ FindNoActivePage(a)
        \/ CreatePage(a) \/ AppendLeaf(a)
    BY <1>5, <2>1, <2>2, NeverPreFinalized DEF Step, InAddLeaf, StorePage, TrackFinalized,
       LoadChild, ChildMissing, RetireStaleParent, ParentNotStale, ReuseParent, ReopenParent,
       CreateParent, DiscardParent, FinalizeParent, KeepParent, ReturnToParent, ReturnToAddLeaf
  <2> QED
    BY <1>1, <2>3, LeafPageTold
<1> QED
  BY <1>3, <1>4, <1>5

(* append_leaf passes the time of the leaf as the time of the operation. *)
LEMMA CallTold ==
    ASSUME OpLag = 0, IInv, PInv, NEW a \in Appenders, CallAppend(a)
    PROVE  PInv'
<1>1. CallAddLeaf(a) /\ \A b \in Appenders : pc[b] = "idle"
  BY DEF CallAppend, Unlocked
<1>2. /\ Mine(a) /\ pc'[a] = "take"
      /\ UNCHANGED <<managerVars, page, frames, accepted>>
      /\ \E ts \in Times, op \in Times, obj \in Payloads :
            /\ op <= ts /\ ts <= op
            /\ call'[a] = [leaf |-> [id |-> leafCount, ts |-> ts, obj |-> obj],
                           op |-> op, pageId |-> None, retaken |-> FALSE, after |-> "done"]
  <2>1. /\ Mine(a) /\ pc'[a] = "take"
        /\ UNCHANGED <<managerVars, page, frames, accepted>>
    BY <1>1, NewCall
  <2>2. PICK ts \in Times, op \in Times, obj \in Payloads :
            /\ op <= ts + OpLag /\ ts <= op + OpLag
            /\ call'[a] = [leaf |-> [id |-> leafCount, ts |-> ts, obj |-> obj],
                           op |-> op, pageId |-> None, retaken |-> FALSE, after |-> "done"]
    BY <1>1, NewCall
  <2>3. op <= ts /\ ts <= op
    BY <2>2, WorkloadAssumption
  <2> QED
    BY <2>1, <2>2, <2>3
<1>3. Around' \subseteq Around
  BY <1>1, <1>2, AroundAfter, AroundParts DEF managerVars, HoldsPage
<1>4. PlaceOK'
  BY <1>2, <1>3 DEF PInv, PlaceOK, managerVars
<1>5. Depth(a)' = 0
  <2>1. Depth(a) = 0
    BY <1>1, DepthOK DEF InAddLeaf
  <2> QED
    BY <1>2, <2>1 DEF Depth
<1>6. TellOK(a)'
  <2>1. PICK ts \in Times, op \in Times, obj \in Payloads :
            /\ op <= ts /\ ts <= op
            /\ call'[a] = [leaf |-> [id |-> leafCount, ts |-> ts, obj |-> obj],
                           op |-> op, pageId |-> None, retaken |-> FALSE, after |-> "done"]
    BY <1>2
  <2>2. /\ call'[a].op = call'[a].leaf.ts /\ call'[a].leaf.obj \in Payloads
        /\ call'[a].pageId = None /\ call'[a].after = "done"
    BY <2>1, WorkloadAssumption
  <2> QED
    BY <1>2, <1>5, <2>2 DEF TellOK, LeafPageInHand
<1>7. \A b \in Appenders : TellOK(b)'
  BY <1>1, <1>2, <1>6 DEF Mine, TellOK
<1> QED
  BY <1>4, <1>7 DEF PInv

LEMMA PlacesKept ==
    ASSUME OpLag = 0
    PROVE  Base /\ Base' /\ AckInv /\ PInv /\ [JNext]_jvars => PInv'
<1> SUFFICES ASSUME Base, Base', AckInv, PInv, [JNext]_jvars PROVE PInv'
  OBVIOUS
<1>1. ASSUME NEW a \in Appenders, CallAppend(a) PROVE PInv'
  BY <1>1, CallTold DEF Base
<1>2. ASSUME NEW a \in Appenders, Step(a) PROVE PInv'
  BY <1>2, StepPlaces, StepTold DEF PInv
<1>3. CASE UNCHANGED vars
  <2>1. Around' = Around
    BY <1>3 DEF vars, managerVars, callVars, Around
  <2>2. PlaceOK'
    BY <1>3, <2>1 DEF vars, managerVars, worldVars, PInv, PlaceOK
  <2>3. ASSUME NEW a \in Appenders PROVE TellOK(a)'
    BY <1>3, <2>1 DEF vars, managerVars, callVars, PInv, TellOK, LeafPageInHand, Depth
  <2> QED
    BY <2>2, <2>3 DEF PInv
<1> QED
  BY <1>1, <1>2, <1>3, JournalSteps DEF Proceed

(* A leaf owed to a reader is in the page it asks for, wherever that is. *)
LEMMA LeafOwed ==
    ASSUME PlaceOK, ReadOK, read # None, NEW leaf \in read.owed
    PROVE  /\ read.level = 0
           /\ \E r \in accepted : r.leaf = leaf /\ r.pageId = read.id
           /\ \A p \in Around : p.id = read.id => p.level = 0 /\ leaf \in LeavesOf(p)
           /\ \A p \in Around : leaf \in LeavesOf(p) => p.id = read.id /\ p.level = 0
<1>1. leaf \in AcceptedIn(read.level, read.id)
  BY DEF ReadOK
<1>2. PICK r \in accepted : r.leaf = leaf /\ r.pageId = read.id
  BY <1>1 DEF AcceptedIn
<1>3. read.level = 0
  BY <1>1, ConfigAssumption DEF AcceptedIn, ReadOK, Levels
<1> QED
  BY <1>2, <1>3 DEF PlaceOK

LEMMA CallGetPageRead ==
    ASSUME CallGetPage
    PROVE  ReadOK' /\ GotPageHoldsItsLeaves'
<1>1. PICK api, level, id :
         /\ level \in Levels
         /\ read' = [api |-> api, level |-> level, id |-> id, stage |-> "store",
                     owed |-> Visible(api, AcceptedIn(level, id)), quiet |-> Unlocked]
  BY DEF CallGetPage
<1>2. answer' = None /\ UNCHANGED <<storage, accepted, pc>>
  BY DEF CallGetPage, vars, managerVars, callVars, worldVars
<1> DEFINE owed == Visible(api, AcceptedIn(level, id))
<1>3. /\ owed \subseteq AcceptedIn(level, id)
      /\ api = "sync" => owed \subseteq StoredLeaves
      /\ level \in Levels
  BY <1>1 DEF Visible
<1>4. /\ AcceptedIn(level, id)' = AcceptedIn(level, id)
      /\ StoredLeaves' = StoredLeaves /\ (Unlocked' <=> Unlocked)
  BY <1>2 DEF AcceptedIn, StoredLeaves, Unlocked
<1> HIDE DEF owed
<1>5. read' = [api |-> api, level |-> level, id |-> id, stage |-> "store",
               owed |-> owed, quiet |-> Unlocked]
  BY <1>1 DEF owed
<1>6. /\ read'.api = api /\ read'.level = level /\ read'.id = id /\ read'.stage = "store"
      /\ read'.owed = owed /\ (read'.quiet <=> Unlocked)
      /\ read' = [api |-> read'.api, level |-> read'.level, id |-> read'.id,
                  stage |-> read'.stage, owed |-> read'.owed, quiet |-> read'.quiet]
  BY <1>5
<1>7. ReadOK'
  BY <1>3, <1>4, <1>6 DEF ReadOK
<1> QED
  BY <1>2, <1>7 DEF GotPageHoldsItsLeaves

(* get_page answers. *)
LEMMA AnswerRead ==
    ASSUME NoneIsNoRecord, IInv, LInv, AcceptedKept, PlaceOK, ReadOK,
           GetStoredPage \/ SyncPageNotFound \/ GetActivePage \/ PageNotFound
    PROVE  ReadOK' /\ GotPageHoldsItsLeaves'
<1>1. read # None /\ read' = None /\ storeFailures' = storeFailures /\ storeFailures \in Nat
  BY DEF GetStoredPage, SyncPageNotFound, GetActivePage, PageNotFound, Answered, vars,
     worldVars, IInv, TypeOK, CountersTypeOK
<1>2. SUFFICES GotPageHoldsItsLeaves'
  BY <1>1 DEF ReadOK
<1>3. ASSUME NEW p \in activePages \cup storage, p.id = read.id, Answered(p)
      PROVE  GotPageHoldsItsLeaves'
  <2>1. answer' = [page |-> p, owed |-> read.owed, quiet |-> read.quiet]
    BY <1>3 DEF Answered
  <2>2. answer'.page = p /\ answer'.owed = read.owed
    BY <2>1
  <2>3. p # None
    BY DEF NoneIsNoRecord, IInv, TypeOK, ManagerTypeOK
  <2>4. read.owed \subseteq LeavesOf(p)
    BY <1>1, <1>3, LeafOwed, AroundParts
  <2> QED
    BY <2>2, <2>3, <2>4 DEF GotPageHoldsItsLeaves
<1>4. ASSUME Answered(None), read.owed = {} \/ ~read.quiet \/ storeFailures > 0
      PROVE  GotPageHoldsItsLeaves'
  <2>1. answer' = [page |-> None, owed |-> read.owed, quiet |-> read.quiet]
    BY <1>4 DEF Answered
  <2>2. answer'.page = None /\ answer'.owed = read.owed /\ answer'.quiet = read.quiet
    BY <2>1
  <2> QED
    BY <1>1, <1>4, <2>2 DEF GotPageHoldsItsLeaves
<1>5. CASE GetStoredPage
  BY <1>3, <1>5 DEF GetStoredPage, Stored
<1>6. CASE GetActivePage
  BY <1>3, <1>6 DEF GetActivePage, ActiveAt
<1>7. ASSUME NEW leaf \in read.owed PROVE read.level = 0
  BY <1>1, <1>7, LeafOwed
<1>8. CASE SyncPageNotFound
  <2>1. /\ read.api = "sync" /\ Stored(read.level, read.id) = {} /\ Answered(None)
    BY <1>8 DEF SyncPageNotFound
  <2>2. ASSUME NEW leaf \in read.owed PROVE FALSE
    <3>1. leaf \in StoredLeaves
      BY <1>1, <2>1, <2>2 DEF ReadOK
    <3>2. PICK p \in storage : leaf \in LeavesOf(p)
      BY <3>1 DEF StoredLeaves
    <3>3. p.id = read.id /\ p.level = 0
      BY <1>1, <2>2, <3>2, LeafOwed, AroundParts
    <3> QED
      BY <1>7, <2>1, <2>2, <3>2, <3>3 DEF Stored
  <2> QED
    BY <1>4, <2>1, <2>2
<1>9. CASE PageNotFound
  <2>1. /\ read.stage = "active" /\ Answered(None)
        /\ \A p \in ActiveAt(read.level) : p.id # read.id
    BY <1>9 DEF PageNotFound
  <2>2. ASSUME NEW leaf \in read.owed, read.quiet, ~(storeFailures > 0) PROVE FALSE
    <3>1. Unlocked /\ Stored(read.level, read.id) = {}
      BY <1>1, <2>1, <2>2 DEF ReadOK
    <3>2. PICK p \in Around : leaf \in LeavesOf(p)
      BY <1>1, <2>2, LeafOwed DEF AcceptedKept
    <3>3. p.id = read.id /\ p.level = 0
      BY <1>1, <2>2, <3>2, LeafOwed
    <3>4. p \in activePages \/ p \in storage
      BY <3>1, <3>2 DEF Around, Unlocked, HoldsPage
    <3> QED
      BY <1>7, <2>1, <2>2, <3>1, <3>3, <3>4 DEF Stored, ActiveAt
  <2> QED
    BY <1>4, <2>1, <2>2
<1> QED
  BY <1>5, <1>6, <1>8, <1>9

(* The store does not have the page; if nothing runs, it is not about to. *)
LEMMA NotStoredRead ==
    ASSUME RInv, NotStored
    PROVE  RInv'
<1>1. /\ read # None /\ read.api = "async" /\ Stored(read.level, read.id) = {}
      /\ read' = [read EXCEPT !.stage = "active"]
      /\ UNCHANGED <<storage, accepted, pc, storeFailures, answer>>
  BY DEF NotStored, vars, managerVars, callVars, worldVars
<1>2. read = [api |-> read.api, level |-> read.level, id |-> read.id,
              stage |-> read.stage, owed |-> read.owed, quiet |-> read.quiet]
  BY <1>1 DEF RInv, ReadOK
<1>3. /\ read'.api = read.api /\ read'.level = read.level /\ read'.id = read.id
      /\ read'.stage = "active" /\ read'.owed = read.owed /\ read'.quiet = read.quiet
      /\ read' = [api |-> read'.api, level |-> read'.level, id |-> read'.id,
                  stage |-> read'.stage, owed |-> read'.owed, quiet |-> read'.quiet]
  BY <1>1, <1>2
<1>4. ReadOK'
  BY <1>1, <1>3 DEF RInv, ReadOK, AcceptedIn, StoredLeaves, Unlocked, Stored
<1> QED
  BY <1>1, <1>4 DEF RInv, GotPageHoldsItsLeaves

(* An append beside it: it is no longer quiet. *)
LEMMA AppendRead ==
    ASSUME RInv, IInv, NEW a \in Appenders, CallAppend(a)
    PROVE  RInv'
<1>1. /\ read' = IF read = None THEN None ELSE [read EXCEPT !.quiet = FALSE]
      /\ UNCHANGED <<storage, accepted, storeFailures, answer>>
  BY NewCall DEF CallAppend, managerVars
<1>2. CASE read = None
  BY <1>1, <1>2 DEF RInv, ReadOK, GotPageHoldsItsLeaves
<1>3. CASE read # None
  <2>1. read = [api |-> read.api, level |-> read.level, id |-> read.id,
                stage |-> read.stage, owed |-> read.owed, quiet |-> read.quiet]
    BY <1>3 DEF RInv, ReadOK
  <2>2. /\ read'.api = read.api /\ read'.level = read.level /\ read'.id = read.id
        /\ read'.stage = read.stage /\ read'.owed = read.owed /\ read'.quiet = FALSE
        /\ read' = [api |-> read'.api, level |-> read'.level, id |-> read'.id,
                    stage |-> read'.stage, owed |-> read'.owed, quiet |-> read'.quiet]
    BY <1>1, <1>3, <2>1
  <2>3. ReadOK'
    BY <1>1, <1>3, <2>2 DEF RInv, ReadOK, AcceptedIn, StoredLeaves
  <2> QED
    BY <1>1, <2>3 DEF RInv, GotPageHoldsItsLeaves
<1> QED
  BY <1>2, <1>3

LEMMA ProceedRead ==
    ASSUME RInv, Base, Base', NEW a \in Appenders, Proceed(a)
    PROVE  RInv'
<1>1. /\ Step(a) /\ read' = read /\ answer' = answer /\ pc[a] # "idle"
      /\ StoredLeaves \subseteq StoredLeaves' /\ accepted \subseteq accepted'
      /\ storeFailures \in Nat
      /\ storeFailures' = storeFailures \/ storeFailures' = storeFailures + 1
  <2>1. Step(a) /\ UNCHANGED readVars
    BY DEF Proceed
  <2>2. pc[a] # "idle"
    BY <2>1, StepSameLeaf DEF Base, SameLeaf
  <2>3. accepted \subseteq accepted'
    BY <2>1, AcceptEffect DEF Base
  <2>4. /\ StoredLeaves \subseteq StoredLeaves'
        /\ storeFailures' = storeFailures \/ storeFailures' = storeFailures + 1
    BY <2>1, StepMovesLeaves
  <2> QED
    BY <2>1, <2>2, <2>3, <2>4 DEF readVars, Base, IInv, TypeOK, CountersTypeOK
<1>2. ~Unlocked
  BY <1>1 DEF Unlocked
<1>3. ReadOK'
  BY <1>1, <1>2 DEF RInv, ReadOK, AcceptedIn
<1>4. GotPageHoldsItsLeaves'
  BY <1>1 DEF RInv, GotPageHoldsItsLeaves
<1> QED
  BY <1>3, <1>4 DEF RInv

LEMMA ReadsKept ==
    ASSUME NoneIsNoRecord
    PROVE  Base /\ Base' /\ PInv /\ RInv /\ [JNext]_jvars => RInv'
<1> SUFFICES ASSUME Base, Base', PInv, RInv, [JNext]_jvars PROVE RInv'
  OBVIOUS
<1>1. CASE UNCHANGED <<vars, readVars>>
  <2>1. UNCHANGED <<storage, accepted, pc, storeFailures, read, answer>>
    BY <1>1 DEF vars, managerVars, callVars, worldVars, readVars
  <2>2. ReadOK'
    BY <2>1 DEF RInv, ReadOK, AcceptedIn, StoredLeaves, Unlocked, Stored
  <2> QED
    BY <2>1, <2>2 DEF RInv, GotPageHoldsItsLeaves
<1>2. CASE GetStoredPage \/ SyncPageNotFound \/ GetActivePage \/ PageNotFound
  BY <1>2, AnswerRead DEF Base, PInv, RInv
<1>3. CASE CallGetPage
  BY <1>3, CallGetPageRead DEF RInv
<1>4. CASE Initialise \/ OpenJournal \/ ResetLastLeafHash
  BY <1>1, <1>4 DEF Initialise, OpenJournal, ResetLastLeafHash
<1>5. CASE UNCHANGED jvars
  BY <1>1, <1>5 DEF jvars
<1> QED
  BY <1>2, <1>3, <1>4, <1>5, NotStoredRead, AppendRead, ProceedRead, JournalSteps DEF Base

(***************************************************************************)
(* A leaf page got from the journal (get_page: the store, then the active  *)
(* pages) holds every leaf acknowledged in it before the call, and such a  *)
(* page is found unless an append ran meanwhile or a write failed; a       *)
(* synchronous journal owes those in the store.  append_leaf passes one    *)
(* time for the leaf and the operation, so OpLag is 0.                     *)
(***************************************************************************)
THEOREM JournalGetsWholePages ==
    ASSUME NoneIsNoRecord, OpLag = 0
    PROVE  JSpec => []GotPageHoldsItsLeaves
<1>1. JInit => AckInv
  BY DEF JInit, Init, AckInv, LinksOK, Latest, Recent, Acked, CallLinked, AckedLeavesChain,
     IsList
<1>2. JInit => PInv /\ RInv
  BY DEF JInit, Init, PInv, PlaceOK, TellOK, RInv, ReadOK, GotPageHoldsItsLeaves
<1>3. Base /\ AckInv /\ [JNext]_jvars => AckInv'
  BY LinksKept DEF Base
<1>4. Base /\ Base' /\ AckInv /\ PInv /\ RInv /\ [JNext]_jvars => PInv' /\ RInv'
  BY PlacesKept, ReadsKept
<1>5. RInv => GotPageHoldsItsLeaves
  BY DEF RInv
<1> QED
  BY <1>1, <1>2, <1>3, <1>4, <1>5, JournalBase, PTL DEF JSpec

----------------------------------------------------------------------------
(***************************************************************************)
(* The configuration in force: what init publishes, from Startup alone.    *)
(***************************************************************************)

(* An accepted hierarchy is one the manager can work with. *)
LEMMA AcceptedIsSound ==
    ASSUME NEW levels \in Seq(TimeLevel), HierarchyAccepted(levels)
    PROVE  SoundHierarchy(levels)
<1> DEFINE top == Len(levels) - 1
           duration == [l \in 0 .. top |-> levels[l + 1].duration]
<1>1. top \in Nat /\ DOMAIN levels = 1 .. top + 1
  BY DEF HierarchyAccepted
<1>2. \A i \in 1 .. top + 1 :
        /\ levels[i] \in TimeLevel
        /\ levels[i].duration \in Nat \ {0}
        /\ levels[i].items \in Nat \ {0}
        /\ levels[i].age \in Nat
  <2> SUFFICES ASSUME NEW i \in 1 .. top + 1
               PROVE  /\ levels[i] \in TimeLevel
                      /\ levels[i].duration \in Nat \ {0}
                      /\ levels[i].items \in Nat \ {0}
                      /\ levels[i].age \in Nat
    OBVIOUS
  <2>1. levels[i] \in TimeLevel
    BY <1>1
  <2>2. levels[i].duration \in Nat /\ levels[i].items \in Nat /\ levels[i].age \in Nat
    BY <2>1 DEF TimeLevel
  <2>3. levels[i].duration # 0 /\ levels[i].items # 0
    BY <1>1 DEF HierarchyAccepted
  <2> QED
    BY <2>1, <2>2, <2>3
<1>3. \A l \in 0 .. top : l + 1 \in 1 .. top + 1
  BY <1>1
<1>4. duration \in [0 .. top -> Nat \ {0}]
  BY <1>2, <1>3
<1>5. ASSUME NEW l \in (0 .. top) \ {0}
      PROVE  duration[l - 1] < duration[l]
  <2>1. l \in 0 .. top /\ l - 1 \in 0 .. top /\ l + 1 > 1 /\ l + 1 \in DOMAIN levels
    BY <1>1
  <2>2. levels[l + 1].duration > levels[(l + 1) - 1].duration
    BY <2>1 DEF HierarchyAccepted, LongerThanPrevious
  <2>3. (l + 1) - 1 = (l - 1) + 1
    BY <1>1
  <2>4. levels[(l - 1) + 1].duration \in Nat /\ levels[l + 1].duration \in Nat
    BY <1>2, <1>3, <2>1
  <2> QED
    BY <2>1, <2>2, <2>3, <2>4
<1>6. /\ [l \in 0 .. top |-> levels[l + 1].items] \in [0 .. top -> Nat \ {0}]
      /\ [l \in 0 .. top |-> levels[l + 1].age] \in [0 .. top -> Nat]
  BY <1>2, <1>3
<1> QED
  BY <1>1, <1>4, <1>5, <1>6 DEF SoundHierarchy

(* An override of the log level leaves the rest of a configuration alone. *)
LEMMA EnvironmentKeepsConfig ==
    ASSUME NEW config \in Config, NEW env \in Environments
    PROVE  /\ WithEnvironment(config, env) \in Config
           /\ WithEnvironment(config, env).levels = config.levels
BY StartupAssumption DEF WithEnvironment, Config, LoggingConfig

(* The default hierarchy would pass the validation it is not put through. *)
LEMMA DefaultIsSound ==
    DefaultConfig \in Config /\ SoundHierarchy(DefaultConfig.levels)
<1> Day \in Nat \ {0}
  BY DEF Day
<1>1. /\ DefaultLevel("day", Day, "ChildHashes") \in TimeLevel
      /\ DefaultLevel("week", 7 * Day, "ChildHashesAndNetPatches") \in TimeLevel
      /\ DefaultLevel("month", 30 * Day, "ChildHashesAndNetPatches") \in TimeLevel
      /\ DefaultLevel("year", 365 * Day, "NetPatches") \in TimeLevel
  BY StartupAssumption DEF DefaultLevel, TimeLevel
<1>2. PICK levels : levels = DefaultConfig.levels
  OBVIOUS
<1>3. levels \in Seq(TimeLevel) /\ DOMAIN levels = 1 .. 4 /\ levels # <<>>
  BY <1>1, <1>2 DEF DefaultConfig
<1>4. DefaultConfig \in Config
  <2>1. DefaultStorage \in StorageConfig
    BY StartupAssumption DEF DefaultStorage, StorageConfig, StorageKinds
  <2>2. DefaultCompression \in CompressionConfig
    BY DEF DefaultCompression, CompressionConfig, Algorithms
  <2>3. DefaultLogging \in LoggingConfig
    BY DEF DefaultLogging, LoggingConfig, LogLevels, Paths
  <2>4. DefaultMetrics \in MetricsConfig /\ DefaultRetention \in RetentionConfig
    BY DEF DefaultMetrics, MetricsConfig, DefaultRetention, RetentionConfig
  <2> QED
    BY <1>2, <1>3, <2>1, <2>2, <2>3, <2>4 DEF DefaultConfig, Config
<1>5. /\ levels[1].name = "day" /\ levels[1].duration = Day
      /\ levels[2].name = "week" /\ levels[2].duration = 7 * Day
      /\ levels[3].name = "month" /\ levels[3].duration = 30 * Day
      /\ levels[4].name = "year" /\ levels[4].duration = 365 * Day
  BY <1>2 DEF DefaultConfig, DefaultLevel
<1>6. \A i \in 1 .. 4 : levels[i].items = 1000 /\ levels[i].age = 0
  BY <1>2 DEF DefaultConfig, DefaultLevel
<1>7. \A i \in 1 .. 4 : i = 1 \/ i = 2 \/ i = 3 \/ i = 4
  OBVIOUS
<1>8. ASSUME NEW i \in 1 .. 4
      PROVE  \A j \in 1 .. i - 1 : levels[j].name # levels[i].name
  <2>1. \A j \in 1 .. i - 1 : j \in 1 .. 4 /\ j < i
    OBVIOUS
  <2> QED
    BY <1>5, <1>7, <2>1
<1>9. \A i \in 1 .. 4 : levels[i].duration # 0 /\ LongerThanPrevious(levels, i)
  BY <1>5, <1>7 DEF LongerThanPrevious
<1>10. HierarchyAccepted(levels)
  BY <1>3, <1>6, <1>8, <1>9, StartupAssumption DEF HierarchyAccepted
<1>11. SoundHierarchy(levels)
  BY <1>3, <1>10, AcceptedIsSound
<1> QED
  BY <1>2, <1>4, <1>11

(* The default configuration, or an accepted one. *)
Approved(config) ==
    \/ ConfigAccepted(config)
    \/ \E e \in Environments : config = WithEnvironment(DefaultConfig, e)

(* What init publishes is sound, whichever way it was chosen. *)
LEMMA ChosenIsSound ==
    ASSUME NEW file \in ConfigFiles, NEW env \in Environments,
           NEW c, c = Chosen(file, env)
    PROVE  c \in Config /\ SoundHierarchy(c.levels) /\ Approved(c)
<1>1. ASSUME c = WithEnvironment(DefaultConfig, env)
      PROVE  c \in Config /\ SoundHierarchy(c.levels) /\ Approved(c)
  <2>1. c \in Config /\ c.levels = DefaultConfig.levels
    BY <1>1, DefaultIsSound, EnvironmentKeepsConfig
  <2>2. SoundHierarchy(c.levels)
    BY <2>1, DefaultIsSound
  <2>3. Approved(c)
    BY <1>1 DEF Approved
  <2> QED
    BY <2>1, <2>2, <2>3
<1>2. ASSUME file.kind = "parsed", c = WithEnvironment(file.config, env),
             ConfigAccepted(c)
      PROVE  c \in Config /\ SoundHierarchy(c.levels) /\ Approved(c)
  <2>1. file.config \in Config
    BY <1>2, StartupAssumption
  <2>2. c \in Config
    BY <1>2, <2>1, EnvironmentKeepsConfig
  <2>3. c.levels \in Seq(TimeLevel)
    BY <2>2 DEF Config
  <2>4. HierarchyAccepted(c.levels)
    BY <1>2 DEF ConfigAccepted
  <2>5. SoundHierarchy(c.levels)
    BY <2>3, <2>4, AcceptedIsSound
  <2> QED
    BY <2>2, <2>5, <1>2 DEF Approved
<1>3. CASE Loaded(file, env) = {}
  BY <1>1, <1>3 DEF Chosen
<1>4. CASE Loaded(file, env) # {}
  <2>1. c \in Loaded(file, env)
    BY <1>4 DEF Chosen
  <2>2. CASE file.kind = "missing"
    <3>1. c = WithEnvironment(DefaultConfig, env)
      BY <2>1, <2>2 DEF Loaded
    <3> QED
      BY <3>1, <1>1
  <2>3. CASE file.kind = "parsed"
    <3>1. c = WithEnvironment(file.config, env) /\ ConfigAccepted(c)
      BY <2>1, <2>3 DEF Loaded
    <3> QED
      BY <3>1, <2>3, <1>2
  <2>4. CASE file.kind \in {"unreadable", "unparsable"}
    BY <2>1, <2>4 DEF Loaded
  <2>5. file.kind \in {"missing", "unreadable", "unparsable", "parsed"}
    BY StartupAssumption
  <2> QED
    BY <2>2, <2>3, <2>4, <2>5
<1> QED
  BY <1>3, <1>4

(***************************************************************************)
(* However the file, the environment and the calls of init turn out, the   *)
(* configuration in force is sound, accepted or default, and the logger    *)
(* follows it (init, Config::load and validate_config).                    *)
(***************************************************************************)
THEOREM ConfigInForceHolds == StartupSpec => []ConfigInForce
<1> DEFINE ConfigInv == /\ ConfigInForce
                   /\ \A i \in DOMAIN conf : logger # "none"
<1>1. StartupInit => ConfigInv
  BY DEF StartupInit, ConfigInForce
<1>2. ConfigInv /\ [InitLibrary]_startupVars => ConfigInv'
  <2> SUFFICES ASSUME ConfigInv, [InitLibrary]_startupVars
               PROVE  ConfigInv'
    OBVIOUS
  <2>1. CASE UNCHANGED startupVars
    BY <2>1 DEF startupVars, ConfigInForce
  <2>2. CASE InitLibrary
    <3>1. PICK file \in ConfigFiles, env \in Environments :
            /\ logger' = Chosen(file, env).logging.level
            /\ conf' = IF conf = <<>> THEN <<Chosen(file, env)>> ELSE conf
      BY <2>2 DEF InitLibrary
    <3> DEFINE c == Chosen(file, env)
    <3>2. c \in Config /\ SoundHierarchy(c.levels) /\ Approved(c)
      BY ChosenIsSound
    <3> HIDE DEF c
    <3>3. c.logging.level \in LogLevels
      BY <3>2 DEF Config, LoggingConfig
    <3>4. DOMAIN conf = {}
      BY <2>2 DEF InitLibrary
    <3>5. \A i \in DOMAIN conf' : conf'[i] = c
      BY <3>1, <3>4 DEF c
    <3>6. logger' = c.logging.level
      BY <3>1 DEF c
    <3>7. logger' # "none"
      BY <3>3, <3>6 DEF LogLevels
    <3> QED
      BY <3>2, <3>5, <3>6, <3>7 DEF ConfigInForce, Approved
  <2> QED
    BY <2>1, <2>2
<1> QED
  BY <1>1, <1>2, PTL DEF StartupSpec
=============================================================================
