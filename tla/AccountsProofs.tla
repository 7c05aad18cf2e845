--------------------------- MODULE AccountsProofs ---------------------------
(***************************************************************************)
(* Theorems about Accounts, for any slots, any checklist, any number of    *)
(* instances, and wherever a fragile handler is cut short.                 *)
(*                                                                         *)
(* The inductive invariant is the conjunction of the type invariant and of *)
(* the two facts about the instances of a slot.  They need each other:     *)
(* that a new instance replaces the one before it holds because the slot   *)
(* had no unarchived instance left, and the slot is known to have none     *)
(* because at most one could have been there for currentInstance to find.  *)
(***************************************************************************)
EXTENDS Accounts, TLAPS, FiniteSetTheorems, SequenceTheorems, WellFoundedInduction

AccountsInv ==
  /\ AccountsTypeOK
  /\ OneInstancePerSlot
  /\ ReplacementChain

-----------------------------------------------------------------------------
(* Reading the newest row *)

\* A nonempty set of row ids has a newest one, so the ORDER BY id DESC of
\* accounts.ts finds it: by well-founded descent on the rows above an id.
LEMMA HasNewest ==
  ASSUME NEW n \in Nat, NEW ids \in SUBSET (1 .. n), ids # {}
  PROVE  \E m \in ids : \A j \in ids : j <= m
<1> DEFINE Above(i) == {j \in ids : i < j}
           T == {Above(i) : i \in ids}
<1>1. ids \in SUBSET Nat /\ \A i \in ids : i <= n
  OBVIOUS
<1>2. SUBSET ids = FiniteSubsetsOf(ids)
  BY <1>1, FS_BoundedSetOfNaturals, FS_FiniteSubsetsOfFinite
<1>3. T \subseteq SUBSET ids /\ T # {}
  OBVIOUS
<1>4. PICK X \in T : \A Y \in T : <<Y, X>> \notin StrictSubsetOrdering(ids)
  <2>1. IsWellFoundedOn(StrictSubsetOrdering(ids), SUBSET ids)
    BY <1>2, FS_StrictSubsetOrderingWellFounded
  <2> HIDE DEF T
  <2>2. QED
    BY <1>3, <2>1, WFMin
<1>5. PICK m \in ids : X = Above(m)
  BY <1>4
<1>6. ASSUME NEW j \in ids, ~ (j <= m) PROVE FALSE
  <2>1. m < j /\ m \in Nat /\ j \in Nat
    BY <1>1, <1>6
  <2>2. \A k \in ids : j < k => m < k
    BY <1>1, <2>1
  <2>3. j \in Above(m) /\ j \notin Above(j)
    BY <2>1
  <2>4. <<Above(j), X>> \in StrictSubsetOrdering(ids)
    BY <1>5, <2>2, <2>3 DEF StrictSubsetOrdering
  <2>5. QED
    BY <1>4, <2>4
<1>7. QED
  BY <1>6

\* Newest returns a row of the set, the last one, and None only of no rows.
LEMMA NewestOf ==
  ASSUME NEW n \in Nat, NEW ids \in SUBSET (1 .. n)
  PROVE  /\ ids # {} => /\ Newest(ids) \in ids
                        /\ \A j \in ids : j <= Newest(ids)
         /\ Newest(ids) = None <=> ids = {}
<1>1. CASE ids = {}
  BY <1>1 DEF Newest
<1>2. CASE ids # {}
  <2>1. Newest(ids) \in ids /\ \A j \in ids : j <= Newest(ids)
    BY <1>2, HasNewest DEF Newest
  <2>2. Newest(ids) # None
    BY <2>1 DEF None
  <2>3. QED
    BY <1>2, <2>1, <2>2
<1>3. QED
  BY <1>1, <1>2

-----------------------------------------------------------------------------
(* The two ways a handler changes the instances *)

\* The row addInstance inserts.
NewRow(s) ==
  [slot |-> s, health |-> "unverified", archived |-> FALSE,
   replaces |-> lastArchivedInstance(s), evidence |-> {}]

\* An UPDATE of the instance i: the slot and the replaced instance stay, an
\* archived row stays archived, and every other row is left alone.
Revises(i) ==
  /\ i \in DOMAIN instances
  /\ instances' \in Seq(InstanceRow)
  /\ Len(instances') = Len(instances)
  /\ \A j \in DOMAIN instances :
       /\ instances'[j].slot = instances[j].slot
       /\ instances'[j].replaces = instances[j].replaces
       /\ instances[j].archived => instances'[j].archived
       /\ j # i => instances'[j] = instances[j]

\* Every row of the typed table, with its fields.
LEMMA Rows ==
  ASSUME AccountsTypeOK
  PROVE  /\ DOMAIN instances = 1 .. Len(instances)
         /\ Len(instances) \in Nat
         /\ DOMAIN instances \subseteq InstanceIds
         /\ \A i \in DOMAIN instances : instances[i] \in InstanceRow
<1>1. DOMAIN instances = 1 .. Len(instances) /\ Len(instances) \in Nat
  BY LenProperties DEF AccountsTypeOK
<1>2. \A i \in DOMAIN instances : instances[i] \in InstanceRow
  BY <1>1, ElementOfSeq DEF AccountsTypeOK
<1>3. QED
  BY <1>1, <1>2, AccountsAssumption DEF AccountsTypeOK, InstanceIds

\* The newest instance of a slot, where one is in place or was lost.
LEMMA NewestInstance ==
  ASSUME AccountsTypeOK, NEW ids \in SUBSET DOMAIN instances
  PROVE  /\ ids # {} => /\ Newest(ids) \in ids
                        /\ \A j \in ids : j <= Newest(ids)
         /\ Newest(ids) = None <=> ids = {}
BY Rows, NewestOf

\* An insert into an empty slot keeps the invariant.
LEMMA InsertKeepsInv ==
  ASSUME AccountsInv, NEW s \in Slots, Len(instances) < MaxInstances,
         currentInstance(s) = None, instances' = Append(instances, NewRow(s)),
         slotStatus' \in [Slots -> SlotStatuses]
  PROVE  AccountsInv'
<1>0. PICK n : n = Len(instances) + 1
  OBVIOUS
<1>1. /\ DOMAIN instances = 1 .. Len(instances) /\ Len(instances) \in Nat
      /\ \A i \in DOMAIN instances : instances[i] \in InstanceRow
      /\ UnarchivedOf(s) \in SUBSET DOMAIN instances
      /\ InstancesOf(s) \in SUBSET DOMAIN instances
  BY Rows DEF AccountsInv, UnarchivedOf, InstancesOf
<1>2. UnarchivedOf(s) = {}
  BY <1>1, NewestInstance DEF AccountsInv, currentInstance
<1>3. lastArchivedInstance(s) = Newest(InstancesOf(s))
  <2>1. InstancesOf(s) \ UnarchivedOf(s) = InstancesOf(s)
    BY <1>2
  <2>2. QED
    BY <2>1 DEF lastArchivedInstance
<1>4. NewRow(s) \in InstanceRow
  <2>1. lastArchivedInstance(s) \in {None} \cup InstanceIds
    BY <1>1, <1>3, Rows, NewestInstance DEF AccountsInv
  <2>2. QED
    BY <2>1 DEF NewRow, InstanceRow
<1>5. /\ instances' \in Seq(InstanceRow) /\ Len(instances') = n
      /\ DOMAIN instances' = 1 .. n
      /\ \A i \in DOMAIN instances : instances'[i] = instances[i]
      /\ instances'[n] = NewRow(s)
  BY <1>0, <1>1, <1>4, AppendProperties, LenProperties DEF AccountsInv, AccountsTypeOK
<1>6. AccountsTypeOK'
  BY <1>0, <1>1, <1>5, AccountsAssumption DEF AccountsTypeOK
<1>7. OneInstancePerSlot'
  <2>1. UnarchivedOf(s)' = {n}
    BY <1>0, <1>1, <1>2, <1>5 DEF UnarchivedOf, InstancesOf, NewRow
  <2>2. \A t \in Slots \ {s} : UnarchivedOf(t)' = UnarchivedOf(t)
    BY <1>0, <1>1, <1>5 DEF UnarchivedOf, InstancesOf, NewRow
  <2>3. QED
    BY <2>1, <2>2 DEF AccountsInv, OneInstancePerSlot
<1>8. ReplacementChain'
  <2>1. /\ Before(n)' = InstancesOf(s)
        /\ \A j \in InstancesOf(s) : instances'[j].archived
    BY <1>0, <1>1, <1>2, <1>5 DEF Before, UnarchivedOf, InstancesOf, NewRow, InstanceRow
  <2>2. /\ instances'[n].replaces = Newest(Before(n)')
        /\ \A j \in Before(n)' : instances'[j].archived
    <3>1. instances'[n].replaces = Newest(InstancesOf(s))
      BY <1>3, <1>5 DEF NewRow
    <3>2. QED
      BY <2>1, <3>1
  <2>3. ASSUME NEW i \in DOMAIN instances
        PROVE  /\ instances'[i].replaces = Newest(Before(i)')
               /\ \A j \in Before(i)' : instances'[j].archived
    <3>1. Before(i)' = Before(i)
      BY <1>0, <1>1, <1>5 DEF Before
    <3>2. Before(i) \subseteq DOMAIN instances
      BY DEF Before
    <3>3. QED
      BY <1>5, <3>1, <3>2 DEF AccountsInv, ReplacementChain
  <2>4. DOMAIN instances' = DOMAIN instances \cup {n}
    BY <1>0, <1>1, <1>5
  <2>5. QED
    BY <2>2, <2>3, <2>4 DEF ReplacementChain
<1>9. QED
  BY <1>6, <1>7, <1>8 DEF AccountsInv

\* An update of one instance keeps the invariant.
LEMMA ReviseKeepsInv ==
  ASSUME AccountsInv, NEW i, Revises(i), slotStatus' \in [Slots -> SlotStatuses]
  PROVE  AccountsInv'
<1>1. /\ DOMAIN instances = 1 .. Len(instances)
      /\ DOMAIN instances' = DOMAIN instances
  BY Rows, LenProperties DEF AccountsInv, Revises
<1>2. \A s : InstancesOf(s)' = InstancesOf(s) /\ UnarchivedOf(s)' \subseteq UnarchivedOf(s)
  BY <1>1 DEF InstancesOf, UnarchivedOf, Revises
<1>3. AccountsTypeOK'
  BY DEF AccountsInv, AccountsTypeOK, Revises
<1>4. OneInstancePerSlot'
  BY <1>2 DEF AccountsInv, OneInstancePerSlot
<1>5. ReplacementChain'
  <2>1. \A k \in DOMAIN instances : Before(k)' = Before(k)
    BY <1>1 DEF Before, Revises
  <2>2. \A k : Before(k) \subseteq DOMAIN instances
    BY DEF Before
  <2>3. QED
    BY <1>1, <2>1, <2>2 DEF AccountsInv, ReplacementChain, Revises
<1>6. QED
  BY <1>3, <1>4, <1>5 DEF AccountsInv

\* A new status of a slot keeps the invariant.
LEMMA SlotKeepsInv ==
  ASSUME AccountsInv, UNCHANGED instances, slotStatus' \in [Slots -> SlotStatuses]
  PROVE  AccountsInv'
<1>1. /\ \A s : UnarchivedOf(s)' = UnarchivedOf(s)
      /\ \A i : Before(i)' = Before(i)
  BY DEF UnarchivedOf, InstancesOf, Before
<1>2. AccountsTypeOK' /\ OneInstancePerSlot'
  BY <1>1 DEF AccountsInv, AccountsTypeOK, OneInstancePerSlot
<1>3. ReplacementChain'
  BY <1>1 DEF AccountsInv, ReplacementChain
<1>4. QED
  BY <1>2, <1>3 DEF AccountsInv

-----------------------------------------------------------------------------
(* The handlers *)

\* Adding evidence, confirming the health and archiving are all revisions.
LEMMA EarnRevises ==
  ASSUME AccountsInv, NEW i, NEW item \in Items, i \in DOMAIN instances,
         Earn(i, item)
  PROVE  Revises(i)
<1> DEFINE row == [instances[i] EXCEPT !.evidence = @ \cup {item}]
<1>1. /\ DOMAIN instances = 1 .. Len(instances)
      /\ \A j \in DOMAIN instances : instances[j] \in InstanceRow
  BY Rows DEF AccountsInv
<1>2. row \in InstanceRow /\ row.slot = instances[i].slot
      /\ row.replaces = instances[i].replaces /\ row.archived = instances[i].archived
  BY <1>1 DEF InstanceRow
<1>3. instances' = [instances EXCEPT ![i] = row]
  BY DEF Earn
<1> HIDE DEF row
<1>4. QED
  BY <1>1, <1>2, <1>3, ExceptSeq DEF AccountsInv, AccountsTypeOK, Revises

LEMMA ConfirmRevises ==
  ASSUME AccountsInv, NEW i, i \in DOMAIN instances,
         instances' = [instances EXCEPT ![i].health = "healthy"]
  PROVE  Revises(i)
<1> DEFINE row == [instances[i] EXCEPT !.health = "healthy"]
<1>1. /\ DOMAIN instances = 1 .. Len(instances)
      /\ \A j \in DOMAIN instances : instances[j] \in InstanceRow
  BY Rows DEF AccountsInv
<1>2. row \in InstanceRow /\ row.slot = instances[i].slot
      /\ row.replaces = instances[i].replaces /\ row.archived = instances[i].archived
  BY <1>1 DEF InstanceRow
<1>3. instances' = [instances EXCEPT ![i] = row]
  OBVIOUS
<1> HIDE DEF row
<1>4. QED
  BY <1>1, <1>2, <1>3, ExceptSeq DEF AccountsInv, AccountsTypeOK, Revises

LEMMA ArchiveRevises ==
  ASSUME AccountsInv, NEW i, i \in DOMAIN instances, Archive(i)
  PROVE  Revises(i)
<1> DEFINE row == [instances[i] EXCEPT !.archived = TRUE, !.health = "lost"]
<1>1. /\ DOMAIN instances = 1 .. Len(instances)
      /\ \A j \in DOMAIN instances : instances[j] \in InstanceRow
  BY Rows DEF AccountsInv
<1>2. row \in InstanceRow /\ row.slot = instances[i].slot
      /\ row.replaces = instances[i].replaces /\ row.archived
  BY <1>1 DEF InstanceRow
<1>3. instances' = [instances EXCEPT ![i] = row]
  BY <1>1 DEF Archive
<1> HIDE DEF row
<1>4. QED
  BY <1>1, <1>2, <1>3, ExceptSeq DEF AccountsInv, AccountsTypeOK, Revises

\* The instance a slot reads as current is a row of the table.
LEMMA CurrentIsRow ==
  ASSUME AccountsTypeOK, NEW s
  PROVE  /\ currentInstance(s) # None => currentInstance(s) \in UnarchivedOf(s)
         /\ UnarchivedOf(s) # {} => currentInstance(s) # None
         /\ UnarchivedOf(s) \subseteq DOMAIN instances
<1>1. UnarchivedOf(s) \in SUBSET DOMAIN instances
  BY DEF UnarchivedOf, InstancesOf
<1>2. QED
  BY <1>1, NewestInstance DEF currentInstance

LEMMA AccountsStep ==
  ASSUME AccountsInv, [AccountsNext]_accountVars
  PROVE  AccountsInv'
<1>1. slotStatus \in [Slots -> SlotStatuses] /\ Halted \cap {"ready", "replacing"} = {}
  BY DEF AccountsInv, AccountsTypeOK, Halted
<1>2. ASSUME NEW s \in Slots, createSlot(s) PROVE AccountsInv'
  <2>1. slotStatus' \in [Slots -> SlotStatuses] /\ UNCHANGED instances
    BY <1>1, <1>2 DEF createSlot, SetSlot, SlotStatuses
  <2>2. QED
    BY <2>1, SlotKeepsInv
<1>3. ASSUME NEW s \in Slots, addInstance(s) PROVE AccountsInv'
  <2>1. slotStatus' \in [Slots -> SlotStatuses]
    BY <1>1, <1>3 DEF addInstance, SetSlot, SlotStatuses
  <2>2. instances' = Append(instances, NewRow(s))
    BY <1>3 DEF addInstance, NewRow
  <2>3. QED
    BY <1>3, <2>1, <2>2, InsertKeepsInv DEF addInstance, SlotIsFree
<1>4. ASSUME NEW s \in Slots, markReady(s) PROVE AccountsInv'
  <2>1. slotStatus' \in [Slots -> SlotStatuses]
    BY <1>1, <1>4 DEF markReady, SetSlot, SlotStatuses
  <2>2. currentInstance(s) \in DOMAIN instances
    BY <1>4, CurrentIsRow DEF markReady, AccountsInv
  <2>3. CASE instances' = [instances EXCEPT ![currentInstance(s)].health = "healthy"]
    BY <2>1, <2>2, <2>3, ConfirmRevises, ReviseKeepsInv
  <2>4. CASE UNCHANGED instances
    BY <2>1, <2>4, SlotKeepsInv
  <2>5. QED
    BY <1>4, <2>3, <2>4 DEF markReady
<1>5. ASSUME NEW s \in Slots, pauseSlot(s) \/ resumeSlot(s) \/ activateSlot(s)
      PROVE  AccountsInv'
  <2>1. slotStatus' \in [Slots -> SlotStatuses] /\ UNCHANGED instances
    BY <1>1, <1>5 DEF pauseSlot, resumeSlot, activateSlot, SetSlot, SlotStatuses, RestoredStatus
  <2>2. QED
    BY <2>1, SlotKeepsInv
<1>6. ASSUME NEW i \in InstanceIds, NEW item \in Items, recordReadiness(i, item)
      PROVE  AccountsInv'
  BY <1>1, <1>6, EarnRevises, ReviseKeepsInv DEF recordReadiness, CanEarn
<1>7. ASSUME NEW i \in InstanceIds, markInstanceLost(i) PROVE AccountsInv'
  <2>1. slotStatus' \in [Slots -> SlotStatuses]
    BY <1>1, <1>7 DEF markInstanceLost, StatusAfterLoss, SetSlot, SlotStatuses
  <2>2. QED
    BY <1>7, <2>1, ArchiveRevises, ReviseKeepsInv DEF markInstanceLost
<1>8. CASE UNCHANGED accountVars
  BY <1>1, <1>8, SlotKeepsInv DEF accountVars
<1>9. QED
  BY <1>2, <1>3, <1>4, <1>5, <1>6, <1>7, <1>8 DEF AccountsNext, SlotStep

LEMMA AccountsStart == AccountsInit => AccountsInv
<1> SUFFICES ASSUME AccountsInit PROVE AccountsInv
  OBVIOUS
<1>1. DOMAIN instances = {} /\ Len(instances) = 0 /\ instances \in Seq(InstanceRow)
  BY EmptySeq DEF AccountsInit
<1>2. QED
  BY <1>1, AccountsAssumption DEF AccountsInit, AccountsInv, AccountsTypeOK, SlotStatuses,
     OneInstancePerSlot, ReplacementChain, UnarchivedOf, InstancesOf

\* The invariant of the slots and instances.
THEOREM AccountsInvariant == AccountsSpec => []AccountsInv
BY AccountsStart, AccountsStep, PTL DEF AccountsSpec

\* The rows keep the shape the schema gives them.
THEOREM AccountsTypeCorrect == AccountsSpec => []AccountsTypeOK
<1>1. AccountsInv => AccountsTypeOK
  BY DEF AccountsInv
<1>2. QED
  BY <1>1, AccountsInvariant, PTL

\* No slot ever holds two accounts in place, even when the process dies inside
\* addInstance or markInstanceLost (accounts.ts:440).
THEOREM SlotsHoldOneInstance == AccountsSpec => []OneInstancePerSlot
<1>1. AccountsInv => OneInstancePerSlot
  BY DEF AccountsInv
<1>2. QED
  BY <1>1, AccountsInvariant, PTL

\* The history of a slot is a chain (accounts.ts:455), crashes included.
THEOREM HistoryIsAChain == AccountsSpec => []ReplacementChain
<1>1. AccountsInv => ReplacementChain
  BY DEF AccountsInv
<1>2. QED
  BY <1>1, AccountsInvariant, PTL

-----------------------------------------------------------------------------
(* Archived instances *)

\* A revision of a row that is not archived leaves the archived rows alone.
LEMMA ReviseKeepsArchived ==
  ASSUME AccountsInv, NEW i, Revises(i), ~ instances[i].archived
  PROVE  KeepsArchived
<1>1. DOMAIN instances' = DOMAIN instances
  BY LenProperties DEF AccountsInv, AccountsTypeOK, Revises
<1>2. QED
  BY <1>1 DEF KeepsArchived, Revises

LEMMA ArchivedStep ==
  ASSUME AccountsInv, [AccountsNext]_accountVars
  PROVE  KeepsArchived
<1>1. CASE UNCHANGED instances
  BY <1>1 DEF KeepsArchived
<1>2. ASSUME NEW s \in Slots, addInstance(s) PROVE KeepsArchived
  <2>1. instances' = Append(instances, NewRow(s))
    BY <1>2 DEF addInstance, NewRow
  <2>2. DOMAIN instances = 1 .. Len(instances) /\ Len(instances) \in Nat
    BY Rows DEF AccountsInv
  <2>3. instances' \in Seq(InstanceRow) /\ Len(instances') = Len(instances) + 1
    <3>1. AccountsInv'
      BY <1>2, AccountsStep DEF AccountsNext, SlotStep
    <3>2. QED
      BY <2>1, <2>2, <3>1 DEF AccountsInv, AccountsTypeOK
  <2>4. QED
    BY <2>1, <2>2, <2>3, LenProperties DEF AccountsInv, AccountsTypeOK, KeepsArchived
<1>3. ASSUME NEW s \in Slots, markReady(s) PROVE KeepsArchived
  <2>1. /\ currentInstance(s) \in DOMAIN instances
        /\ ~ instances[currentInstance(s)].archived
    BY <1>3, CurrentIsRow DEF markReady, AccountsInv, UnarchivedOf
  <2>2. CASE instances' = [instances EXCEPT ![currentInstance(s)].health = "healthy"]
    BY <2>1, <2>2, ConfirmRevises, ReviseKeepsArchived
  <2>3. QED
    BY <1>1, <1>3, <2>2 DEF markReady
<1>4. ASSUME NEW i \in InstanceIds, NEW item \in Items, recordReadiness(i, item)
      PROVE  KeepsArchived
  BY <1>4, EarnRevises, ReviseKeepsArchived DEF recordReadiness, CanEarn
<1>5. ASSUME NEW i \in InstanceIds, markInstanceLost(i) PROVE KeepsArchived
  BY <1>5, ArchiveRevises, ReviseKeepsArchived DEF markInstanceLost
<1>6. QED
  BY <1>1, <1>2, <1>3, <1>4, <1>5
  DEF AccountsNext, SlotStep, accountVars, createSlot, pauseSlot, resumeSlot, activateSlot

\* An archived instance is read-only for ever (accounts.ts:566-568), whichever
\* handler runs and wherever it stops.
THEOREM ArchivedStaysFrozen == AccountsSpec => ArchivedIsFrozen
<1>1. AccountsInv /\ [AccountsNext]_accountVars => [KeepsArchived]_accountVars
  BY ArchivedStep
<1>2. QED
  BY <1>1, AccountsInvariant, PTL DEF AccountsSpec, ArchivedIsFrozen

-----------------------------------------------------------------------------
(* The status of a slot none of whose handlers is cut short *)

\* The two status properties slot by slot, and that a slot without a row has
\* no instance, which createSlot relies on.
SlotAgrees(s) ==
  /\ slotStatus[s] \in {"absent", "requested"} => InstancesOf(s) = {}
  /\ slotStatus[s] = "replacing" => InstancesOf(s) # {} /\ UnarchivedOf(s) = {}
  /\ slotStatus[s] \in {"warming", "ready", "active"} => UnarchivedOf(s) # {}
  /\ slotStatus[s] \in {"ready", "active"} =>
       /\ currentInstance(s) # None
       /\ instances[currentInstance(s)].evidence = Items

StatusInv ==
  /\ AccountsInv
  /\ \A s \in Slots \ Fragile : SlotAgrees(s)

\* A slot agrees with its instances as long as neither changes, but for the
\* evidence, which only grows.
LEMMA SlotUntouched ==
  ASSUME NEW s, SlotAgrees(s), slotStatus'[s] = slotStatus[s],
         InstancesOf(s)' = InstancesOf(s), UnarchivedOf(s)' = UnarchivedOf(s),
         \A i \in UnarchivedOf(s) : instances[i].evidence = Items => instances'[i].evidence = Items,
         AccountsTypeOK
  PROVE  SlotAgrees(s)'
<1>1. currentInstance(s)' = currentInstance(s)
  BY DEF currentInstance
<1>2. currentInstance(s) # None => currentInstance(s) \in UnarchivedOf(s)
  BY CurrentIsRow
<1>3. QED
  BY <1>1, <1>2 DEF SlotAgrees

\* The handlers that only write the status.
LEMMA StatusWrite ==
  ASSUME StatusInv, UNCHANGED instances, NEW s \in Slots, NEW status, SetSlot(s, status),
         s \notin Fragile =>
           /\ status # "absent"
           /\ status = "requested" => InstancesOf(s) = {}
           /\ status = "replacing" => InstancesOf(s) # {} /\ UnarchivedOf(s) = {}
           /\ status \in {"warming", "ready", "active"} => UnarchivedOf(s) # {}
           /\ status \in {"ready", "active"} => /\ currentInstance(s) # None
                                                /\ instances[currentInstance(s)].evidence = Items
  PROVE  \A t \in Slots \ Fragile : SlotAgrees(t)'
<1>1. slotStatus \in [Slots -> SlotStatuses]
  BY DEF StatusInv, AccountsInv, AccountsTypeOK
<1>2. \A t : InstancesOf(t)' = InstancesOf(t) /\ UnarchivedOf(t)' = UnarchivedOf(t)
  BY DEF InstancesOf, UnarchivedOf
<1>3. ASSUME NEW t \in Slots \ Fragile, t # s PROVE SlotAgrees(t)'
  <2>1. slotStatus'[t] = slotStatus[t]
    BY <1>1, <1>3 DEF SetSlot
  <2>2. QED
    BY <1>2, <2>1, SlotUntouched DEF StatusInv, AccountsInv
<1>4. ASSUME s \notin Fragile PROVE SlotAgrees(s)'
  <2>1. slotStatus'[s] = status
    BY <1>1 DEF SetSlot
  <2>2. currentInstance(s)' = currentInstance(s)
    BY <1>2 DEF currentInstance
  <2>3. QED
    BY <1>2, <1>4, <2>1, <2>2 DEF SlotAgrees
<1>5. QED
  BY <1>3, <1>4

LEMMA StatusStep ==
  ASSUME StatusInv, [AccountsNext]_accountVars
  PROVE  StatusInv'
<1>1. AccountsInv'
  BY AccountsStep DEF StatusInv
<1>2. /\ slotStatus \in [Slots -> SlotStatuses]
      /\ DOMAIN instances = 1 .. Len(instances) /\ Len(instances) \in Nat
      /\ \A i \in DOMAIN instances : instances[i] \in InstanceRow
      /\ AccountsTypeOK
      /\ OneInstancePerSlot
  BY Rows DEF StatusInv, AccountsInv, AccountsTypeOK
<1>3. \A s \in Slots \ Fragile : SlotAgrees(s)
  BY DEF StatusInv
<1>4. ASSUME NEW s \in Slots, createSlot(s) PROVE \A t \in Slots \ Fragile : SlotAgrees(t)'
  <2>1. s \notin Fragile => InstancesOf(s) = {}
    BY <1>3, <1>4 DEF createSlot, SlotAgrees
  <2>2. QED
    BY <1>4, <2>1, StatusWrite DEF createSlot
<1>5. ASSUME NEW s \in Slots, addInstance(s) PROVE \A t \in Slots \ Fragile : SlotAgrees(t)'
  <2>1. /\ instances' = Append(instances, NewRow(s))
        /\ SetSlot(s, "warming") \/ (s \in Fragile /\ UNCHANGED slotStatus)
    BY <1>5 DEF addInstance, NewRow
  <2>2. PICK n : n = Len(instances) + 1
    OBVIOUS
  <2>3. instances' \in Seq(InstanceRow) /\ Len(instances') = n
    BY <1>1, <1>2, <2>1, <2>2 DEF AccountsInv, AccountsTypeOK
  <2>4. /\ DOMAIN instances' = DOMAIN instances \cup {n}
        /\ instances'[n] = NewRow(s)
        /\ \A i \in DOMAIN instances : instances'[i] = instances[i]
    BY <1>2, <2>1, <2>2, <2>3, LenProperties DEF AccountsTypeOK
  <2>5. ASSUME NEW t \in Slots \ Fragile, t # s PROVE SlotAgrees(t)'
    <3>1. slotStatus'[t] = slotStatus[t]
      BY <1>2, <2>1, <2>5 DEF SetSlot
    <3>2. /\ InstancesOf(t)' = InstancesOf(t)
          /\ UnarchivedOf(t)' = UnarchivedOf(t)
      BY <2>4, <2>5 DEF InstancesOf, UnarchivedOf, NewRow
    <3>3. \A i \in UnarchivedOf(t) : instances'[i] = instances[i]
      BY <2>4 DEF InstancesOf, UnarchivedOf
    <3>4. QED
      BY <1>2, <1>3, <3>1, <3>2, <3>3, SlotUntouched
  <2>6. ASSUME s \notin Fragile PROVE SlotAgrees(s)'
    <3>1. slotStatus'[s] = "warming"
      BY <1>2, <2>1, <2>6 DEF SetSlot
    <3>2. n \in UnarchivedOf(s)'
      BY <2>4 DEF InstancesOf, UnarchivedOf, NewRow
    <3>3. QED
      BY <3>1, <3>2 DEF SlotAgrees
  <2>7. QED
    BY <2>5, <2>6
<1>6. ASSUME NEW s \in Slots, markReady(s) PROVE \A t \in Slots \ Fragile : SlotAgrees(t)'
  <2>1. /\ currentInstance(s) # None
        /\ currentInstance(s) \in UnarchivedOf(s)
        /\ currentInstance(s) \in DOMAIN instances
        /\ instances[currentInstance(s)].evidence = Items
    BY <1>2, <1>6, CurrentIsRow DEF markReady, ReadinessComplete, outstandingReadiness, InstanceRow
  <2>2. /\ SetSlot(s, "ready")
        /\ \/ instances' = [instances EXCEPT ![currentInstance(s)].health = "healthy"]
           \/ UNCHANGED instances
    BY <1>6 DEF markReady
  <2>3. /\ DOMAIN instances' = DOMAIN instances
        /\ \A i \in DOMAIN instances : /\ instances'[i].slot = instances[i].slot
                                       /\ instances'[i].archived = instances[i].archived
                                       /\ instances'[i].evidence = instances[i].evidence
    BY <1>2, <2>1, <2>2 DEF InstanceRow
  <2>4. \A t : InstancesOf(t)' = InstancesOf(t) /\ UnarchivedOf(t)' = UnarchivedOf(t)
    BY <2>3 DEF InstancesOf, UnarchivedOf
  <2>5. ASSUME NEW t \in Slots \ Fragile, t # s PROVE SlotAgrees(t)'
    <3>1. slotStatus'[t] = slotStatus[t]
      BY <1>2, <2>2, <2>5 DEF SetSlot
    <3>2. QED
      BY <1>2, <1>3, <2>3, <2>4, <3>1, SlotUntouched DEF UnarchivedOf, InstancesOf
  <2>6. SlotAgrees(s)'
    <3>1. slotStatus'[s] = "ready"
      BY <1>2, <2>2 DEF SetSlot
    <3>2. currentInstance(s)' = currentInstance(s)
      BY <2>4 DEF currentInstance
    <3>3. QED
      BY <2>1, <2>3, <2>4, <3>1, <3>2 DEF SlotAgrees
  <2>7. QED
    BY <2>5, <2>6
<1>7. ASSUME NEW s \in Slots, pauseSlot(s) PROVE \A t \in Slots \ Fragile : SlotAgrees(t)'
  BY <1>7, StatusWrite DEF pauseSlot
<1>8. ASSUME NEW s \in Slots, resumeSlot(s) PROVE \A t \in Slots \ Fragile : SlotAgrees(t)'
  <2>1. /\ currentInstance(s) # None => UnarchivedOf(s) # {} /\ currentInstance(s) \in DOMAIN instances
        /\ currentInstance(s) = None => UnarchivedOf(s) = {}
    BY <1>2, CurrentIsRow
  <2>2. /\ RestoredStatus(s) \in {"requested", "replacing", "warming", "ready"}
        /\ RestoredStatus(s) = "requested" => InstancesOf(s) = {}
        /\ RestoredStatus(s) = "replacing" => InstancesOf(s) # {} /\ UnarchivedOf(s) = {}
        /\ RestoredStatus(s) \in {"warming", "ready"} => UnarchivedOf(s) # {}
        /\ RestoredStatus(s) = "ready" => /\ currentInstance(s) # None
                                          /\ instances[currentInstance(s)].evidence = Items
    BY <1>2, <2>1 DEF RestoredStatus, ReadinessComplete, outstandingReadiness, InstanceRow
  <2>3. QED
    BY <1>8, <2>2, StatusWrite DEF resumeSlot
<1>9. ASSUME NEW s \in Slots, activateSlot(s) PROVE \A t \in Slots \ Fragile : SlotAgrees(t)'
  <2>1. (s \notin Fragile => SlotAgrees(s)) /\ slotStatus[s] = "ready"
    BY <1>3, <1>9 DEF activateSlot
  <2>2. QED
    BY <1>9, <2>1, StatusWrite DEF activateSlot, SlotAgrees
<1>10. ASSUME NEW i \in InstanceIds, NEW item \in Items, recordReadiness(i, item)
       PROVE  \A t \in Slots \ Fragile : SlotAgrees(t)'
  <2>1. i \in DOMAIN instances /\ instances' = [instances EXCEPT ![i].evidence = @ \cup {item}]
    BY <1>10 DEF recordReadiness, CanEarn, Earn
  <2>2. /\ DOMAIN instances' = DOMAIN instances
        /\ \A j \in DOMAIN instances :
             /\ instances'[j].slot = instances[j].slot
             /\ instances'[j].archived = instances[j].archived
             /\ instances[j].evidence = Items => instances'[j].evidence = Items
    BY <1>2, <2>1 DEF InstanceRow
  <2>3. \A t : InstancesOf(t)' = InstancesOf(t) /\ UnarchivedOf(t)' = UnarchivedOf(t)
    BY <2>2 DEF InstancesOf, UnarchivedOf
  <2>4. slotStatus' = slotStatus
    BY <1>10 DEF recordReadiness
  <2>5. QED
    BY <1>2, <1>3, <2>2, <2>3, <2>4, SlotUntouched DEF UnarchivedOf, InstancesOf
<1>11. ASSUME NEW i \in InstanceIds, markInstanceLost(i) PROVE \A t \in Slots \ Fragile : SlotAgrees(t)'
  <2>1. PICK s \in Slots : s = instances[i].slot
    BY <1>2, <1>11 DEF markInstanceLost, InstanceRow
  <2>2. /\ i \in DOMAIN instances /\ i \in UnarchivedOf(s)
        /\ SetSlot(s, StatusAfterLoss(s)) \/ (s \in Fragile /\ UNCHANGED slotStatus)
        /\ instances' = [instances EXCEPT ![i].archived = TRUE, ![i].health = "lost"]
    BY <1>11, <2>1 DEF markInstanceLost, Archive, UnarchivedOf, InstancesOf
  <2>3. /\ DOMAIN instances' = DOMAIN instances
        /\ instances'[i].slot = s /\ instances'[i].archived
        /\ \A j \in DOMAIN instances \ {i} : instances'[j] = instances[j]
    BY <1>2, <2>1, <2>2 DEF InstanceRow
  <2>4. ASSUME NEW t \in Slots \ Fragile, t # s PROVE SlotAgrees(t)'
    <3>1. slotStatus'[t] = slotStatus[t]
      BY <1>2, <2>2, <2>4 DEF SetSlot
    <3>2. /\ InstancesOf(t)' = InstancesOf(t)
          /\ UnarchivedOf(t)' = UnarchivedOf(t)
      BY <2>1, <2>3, <2>4 DEF InstancesOf, UnarchivedOf
    <3>3. \A j \in UnarchivedOf(t) : instances'[j] = instances[j]
      BY <2>1, <2>3, <2>4 DEF InstancesOf, UnarchivedOf
    <3>4. QED
      BY <1>2, <1>3, <3>1, <3>2, <3>3, SlotUntouched
  <2>5. ASSUME s \notin Fragile PROVE SlotAgrees(s)'
    <3>1. slotStatus'[s] \in {"paused", "retired", "replacing"}
      BY <1>2, <2>2, <2>5 DEF SetSlot, StatusAfterLoss, Halted
    <3>2. InstancesOf(s)' # {} /\ UnarchivedOf(s)' = {}
      BY <1>2, <2>2, <2>3 DEF InstancesOf, UnarchivedOf, OneInstancePerSlot
    <3>3. QED
      BY <3>1, <3>2 DEF SlotAgrees
  <2>6. QED
    BY <2>4, <2>5
<1>12. ASSUME UNCHANGED accountVars PROVE \A t \in Slots \ Fragile : SlotAgrees(t)'
  <2>1. \A t : InstancesOf(t)' = InstancesOf(t) /\ UnarchivedOf(t)' = UnarchivedOf(t)
    BY <1>12 DEF InstancesOf, UnarchivedOf, accountVars
  <2>2. QED
    BY <1>2, <1>3, <1>12, <2>1, SlotUntouched DEF accountVars
<1>13. \A t \in Slots \ Fragile : SlotAgrees(t)'
  BY <1>4, <1>5, <1>6, <1>7, <1>8, <1>9, <1>10, <1>11, <1>12 DEF AccountsNext, SlotStep
<1>14. QED
  BY <1>1, <1>13 DEF StatusInv

LEMMA StatusInvariant == AccountsSpec => []StatusInv
<1>1. AccountsInit => StatusInv
  <2> SUFFICES ASSUME AccountsInit PROVE StatusInv
    OBVIOUS
  <2>1. DOMAIN instances = {} /\ \A s \in Slots : slotStatus[s] = "absent"
    BY DEF AccountsInit
  <2>2. \A s \in Slots \ Fragile : SlotAgrees(s)
    BY <2>1 DEF SlotAgrees, InstancesOf
  <2>3. QED
    BY <2>2, AccountsStart DEF StatusInv
<1>2. StatusInv /\ [AccountsNext]_accountVars => StatusInv'
  BY StatusStep
<1>3. QED
  BY <1>1, <1>2, PTL DEF AccountsSpec

\* While the handlers run to their end, the status of a slot agrees with the
\* accounts it held (accounts.ts:571-628).
THEOREM StatusAgrees == AccountsSpec => []StatusMatchesInstances
<1>1. StatusInv => StatusMatchesInstances
  BY DEF StatusInv, SlotAgrees, StatusMatchesInstances
<1>2. QED
  BY <1>1, StatusInvariant, PTL

\* And then a ready or active slot has an account that earned it, item by item
\* (accounts.ts:534-538).
THEOREM ReadinessIsEarned == AccountsSpec => []ReadyIsEarned
<1>1. StatusInv => ReadyIsEarned
  BY DEF StatusInv, SlotAgrees, ReadyIsEarned
<1>2. QED
  BY <1>1, StatusInvariant, PTL
=============================================================================
