----------------------- MODULE GovernedDispatchProofs -----------------------
(***************************************************************************)
(* What GovernedDispatch and its ledger promise for any number of members, *)
(* readbacks, kills, power failures and errors.  The argument: a change is *)
(* sent by the call that has just made its attempt durable, and every      *)
(* process that serves calls has all durable attempts of sent changes in   *)
(* its history (SentIsOnRecord), because it only ever installs the journal *)
(* itself or a line added to it (Follows).  The readbacks are counted by   *)
(* their claims, which are on record for good before the request goes out; *)
(* what is under way when the process dies was counted and is lost         *)
(* (Budget).  For each member the whole is an OutsideEffect.               *)
(***************************************************************************)
EXTENDS GovernedDispatch, FiniteSetTheorems, WellFoundedInduction, TLAPS

Attempt(m) == Of("ATTEMPT", m)

(* A call is served by a process that is up.                                *)
TaskRuns == task.at # "none" => proc = "up"

(* As long as the journal is as the process hashed it, it is the history    *)
(* that the process has installed; a line under way is the only other one.  *)
Follows ==
    proc # "down" =>
        /\ known = journal => mem = journal
        /\ op.at \in {"write", "sync"} => op.entry # NoEntry
        /\ op.at = "write" => known = journal
        /\ op.at = "sync" => known = mem /\ journal = Append(mem, op.entry)

(* A change that was sent is on record for good, and known to the process.  *)
SentIsOnRecord ==
    \A m \in Members :
        /\ sent[m] \in {0, 1}
        /\ sent[m] = 1 => /\ Durable(Attempt(m))
                          /\ proc # "down" => Holds(mem, Attempt(m))

(* The member of a call that is about to send was not sent before, and its  *)
(* attempt is on record when the ledger has said so.                        *)
Ready ==
    /\ task.at \in {"attempt", "current", "claim", "observation"} => task.member \in Members
    /\ task.at = "attempt" =>
        /\ sent[task.member] = 0
        /\ op.entry = Attempt(task.member)
        /\ op.at \in {"anchor", "witness", "ok"} =>
                Durable(Attempt(task.member)) /\ Holds(mem, Attempt(task.member))
    /\ task.at = "current" =>
        /\ sent[task.member] = 0
        /\ Durable(Attempt(task.member)) /\ Holds(mem, Attempt(task.member))

(* What was read, is being recorded, or is recorded as made was made.       *)
Truth ==
    /\ task.matched \subseteq applied
    /\ task.at = "observation" /\ op.entry.good => task.member \in applied
    /\ op.entry = Whole("VERIFICATION") => applied = Members
    /\ VerifiedIsTrue

(* What was acknowledged, told or installed is in the journal, up to a line *)
(* that was synced or that an opening took for history.                     *)
Lasting(s) == Begins(s, journal) /\ (Len(s) <= synced \/ Len(s) <= adopted)

Healthy ==
    /\ Lasting(head) /\ Lasting(witness) /\ Lasting(acked)
    /\ Len(acked) <= Len(witness)
    /\ proc # "down" => Lasting(mem)

(* A lost history that somebody was told of keeps the ledger closed.        *)
Stuck ==
    /\ Lapsed
    /\ proc # "up"
    /\ proc = "opening" =>
            mem = journal /\ op.at \in {"witness", "failed"} /\ ~Begins(witness, journal)
    /\ ~(Begins(head, journal) /\ Begins(witness, journal))

IInv == TypeOK /\ TaskRuns /\ Follows /\ SentIsOnRecord /\ Ready /\ Truth

-----------------------------------------------------------------------------
(* SEQUENCES AND ENTRIES *)

LEMMA HoldsAppend ==
    ASSUME NEW S, NEW s \in Seq(S), NEW e \in S, NEW x
    PROVE  Holds(Append(s, e), x) <=> Holds(s, x) \/ x = e
<1>1. DOMAIN Append(s, e) = 1..(Len(s) + 1) /\ DOMAIN s = 1..Len(s) /\ Len(s) \in Nat
  OBVIOUS
<1>2. \A k \in 1..Len(s) : Append(s, e)[k] = s[k]
  OBVIOUS
<1>3. Append(s, e)[Len(s) + 1] = e
  OBVIOUS
<1>4. ASSUME Holds(Append(s, e), x) PROVE Holds(s, x) \/ x = e
  <2>1. PICK k \in 1..(Len(s) + 1) : Append(s, e)[k] = x
    BY <1>1, <1>4 DEF Holds
  <2>2. k \in 1..Len(s) \/ k = Len(s) + 1
    BY <1>1
  <2> QED  BY <1>1, <1>2, <1>3, <2>1, <2>2 DEF Holds
<1>5. ASSUME Holds(s, x) \/ x = e PROVE Holds(Append(s, e), x)
  <2>1. \A k \in 1..Len(s) : k \in DOMAIN Append(s, e)
    BY <1>1
  <2>2. Len(s) + 1 \in DOMAIN Append(s, e)
    BY <1>1
  <2> QED  BY <1>1, <1>2, <1>3, <1>5, <2>1, <2>2 DEF Holds
<1> QED  BY <1>4, <1>5

(* A durable entry is in the journal.                                       *)
LEMMA DurableIsHeld ==
    ASSUME TypeOK, NEW e, Durable(e)
    PROVE  Holds(journal, e)
  BY DEF TypeOK, LedgerTypeOK, Durable, Holds

(* The journal grows, or loses nothing that was synced.                     *)
LEMMA DurableGrows ==
    ASSUME TypeOK, NEW e, Durable(e),
           NEW x \in Entries, journal' = Append(journal, x), synced' = synced
    PROVE  Durable(e)'
<1>1. \A k \in 1..synced : Append(journal, x)[k] = journal[k]
  BY DEF TypeOK, LedgerTypeOK
<1> QED  BY <1>1 DEF Durable

LEMMA DurableOutlasts ==
    ASSUME TypeOK, NEW e, Durable(e), synced' = synced,
           NEW k \in synced..Len(journal), journal' = SubSeq(journal, 1, k)
    PROVE  Durable(e)'
<1>1. \A i \in 1..synced : SubSeq(journal, 1, k)[i] = journal[i]
  BY DEF TypeOK, LedgerTypeOK
<1> QED  BY <1>1 DEF Durable

LEMMA DurableSpreads ==
    ASSUME TypeOK, NEW e, journal' = journal, synced' \in {synced, Len(journal)}
    PROVE  /\ Durable(e) => Durable(e)'
           /\ Holds(journal, e) /\ synced' = Len(journal) => Durable(e)'
<1>1. 1..synced \subseteq 1..Len(journal) /\ DOMAIN journal = 1..Len(journal)
  BY DEF TypeOK, LedgerTypeOK
<1> QED  BY <1>1 DEF Durable, Holds

LEMMA FirstIsIn ==
    ASSUME NEW S \in SUBSET Members, S # {}
    PROVE  First(S) \in S
<1>1. S \subseteq Nat
  BY DispatchAssumption DEF Members
<1>2. PICK x \in S : \A y \in S : ~(<<y, x>> \in OpToRel(<, Nat))
  BY <1>1, WFMin, NatLessThanWellFounded, Zenon
<1>3. \A y \in S : ~(y < x)
  BY <1>1, <1>2 DEF OpToRel
<1>4. \A y \in S : x <= y
  BY <1>1, <1>3
<1> QED  BY <1>4 DEF First

LEMMA EntryType ==
    /\ \A kind \in Kinds : Whole(kind) \in Entries
    /\ \A kind \in Kinds, m \in 0..N : Of(kind, m) \in Entries
    /\ \A kind \in Kinds, m \in 0..N, g \in BOOLEAN :
            [Of(kind, m) EXCEPT !.good = g] \in Entries
    /\ NoEntry \notin Entries
  BY DispatchAssumption DEF Entries, Whole, Of, Members, NoEntry, Kinds

LEMMA UpsetType ==
    ASSUME TypeOK, Upset \/ upsets' = upsets
    PROVE  upsets' \in 0..MaxUpsets
  BY UpsetsAssumption DEF TypeOK, LedgerTypeOK, Upset

-----------------------------------------------------------------------------
(* TYPES *)

Places == {"idle", "check", "write", "sync", "anchor", "witness", "ok", "failed"}

Ops == [at : Places, entry : Entries \union {NoEntry}]

LEMMA OpType ==
    ASSUME TypeOK
    PROVE  /\ op \in Ops
           /\ Idle \in Ops
           /\ [Idle EXCEPT !.at = "witness"] \in Ops
           /\ Fails => op' \in Ops
           /\ \A where \in Places : [op EXCEPT !.at = where] \in Ops
           /\ \A e \in Entries \union {NoEntry} : Ask(e) => op' \in Ops
<1>1. op \in Ops
  BY DEF TypeOK, LedgerTypeOK, Ops, Places
<1>2. \A where \in Places : [op EXCEPT !.at = where] \in Ops
  BY <1>1 DEF Ops
<1>3. Fails => op' \in Ops
  BY <1>2 DEF Fails, Places
<1>4. Idle \in Ops /\ [Idle EXCEPT !.at = "witness"] \in Ops
  BY DEF Idle, Ops, Places
<1>5. \A e \in Entries \union {NoEntry} : Ask(e) => op' \in Ops
  BY DEF Ask, Ops, Places
<1> QED  BY <1>1, <1>2, <1>3, <1>4, <1>5

(* The parts of a ledger's type that a step may disturb.                    *)
LEMMA WholeType ==
    ASSUME journal' \in Seq(Entries), head' \in Seq(Entries), witness' \in Seq(Entries),
           mem' \in Seq(Entries), known' \in Seq(Entries), anchor' \in Seq(Entries),
           acked' \in Seq(Entries), torn' \in BOOLEAN, synced' \in 0..Len(journal'),
           proc' \in {"down", "opening", "up"}, op' \in Ops,
           upsets' \in 0..MaxUpsets, adopted' \in Nat
    PROVE  LedgerTypeOK(Entries)'
  BY DEF LedgerTypeOK, Ops, Places

LEMMA WitnessTypes ==
    ASSUME TypeOK, NEW next \in Places, EnsureWitness(next)
    PROVE  witness' \in Seq(Entries) /\ op' \in Ops /\ upsets' \in 0..MaxUpsets
<1>1. witness \in Seq(Entries) /\ mem \in Seq(Entries)
  BY DEF TypeOK, LedgerTypeOK
<1>2. upsets' \in 0..MaxUpsets
  BY UpsetType DEF EnsureWitness
<1>3. witness' \in Seq(Entries)
  BY <1>1 DEF EnsureWitness
<1>4. op' \in Ops
  BY OpType DEF EnsureWitness
<1> QED  BY <1>2, <1>3, <1>4

(* What the process does with a call keeps the types of the ledger.         *)
LEMMA ServeTypes ==
    ASSUME TypeOK, Follows, Serve
    PROVE  LedgerTypeOK(Entries)'
<1> USE DEF diskVars, memVars
<1>0. /\ journal \in Seq(Entries) /\ head \in Seq(Entries) /\ witness \in Seq(Entries)
      /\ mem \in Seq(Entries) /\ known \in Seq(Entries) /\ anchor \in Seq(Entries)
      /\ acked \in Seq(Entries) /\ torn \in BOOLEAN /\ synced \in 0..Len(journal)
      /\ proc \in {"down", "opening", "up"} /\ upsets \in 0..MaxUpsets /\ adopted \in Nat
      /\ Len(journal) \in Nat
  BY DEF TypeOK, LedgerTypeOK
<1>1. CASE Integrity
  <2>1. NextPart \in Places
    BY DEF NextPart, Places
  <2>2. witness' \in Seq(Entries) /\ op' \in Ops /\ upsets' \in 0..MaxUpsets
    BY <1>0, <1>1, <2>1, OpType, WitnessTypes DEF Integrity
  <2>3. acked' \in Seq(Entries)
    BY <1>0, <1>1 DEF Integrity
  <2> QED  BY <1>0, <1>1, <2>2, <2>3, WholeType DEF Integrity
<1>2. CASE WriteLine
  <2>1. op.entry \in Entries
    BY <1>2, OpType DEF WriteLine, Follows, Ops
  <2>2. Append(journal, op.entry) \in Seq(Entries)
        /\ Len(Append(journal, op.entry)) = Len(journal) + 1
    BY <1>0, <2>1
  <2>3. journal' \in Seq(Entries) /\ torn' \in BOOLEAN
    BY <1>0, <1>2, <2>2 DEF WriteLine
  <2>4. upsets' \in 0..MaxUpsets
    BY <1>2, UpsetType DEF WriteLine
  <2>5. op' \in Ops
    BY <1>2, OpType DEF WriteLine, Places
  <2>6. synced' \in 0..Len(journal')
    BY <1>0, <1>2, <2>2 DEF WriteLine
  <2> QED  BY <1>0, <1>2, <2>3, <2>4, <2>5, <2>6, WholeType DEF WriteLine
<1>3. CASE SyncLine
  <2>1. op.entry \in Entries
    BY <1>3, OpType DEF SyncLine, Follows, Ops
  <2>2. Append(mem, op.entry) \in Seq(Entries)
    BY <1>0, <2>1
  <2>3. mem' \in Seq(Entries) /\ known' \in Seq(Entries)
    BY <1>0, <1>3, <2>2 DEF SyncLine
  <2>4. upsets' \in 0..MaxUpsets
    BY <1>3, UpsetType DEF SyncLine
  <2>5. op' \in Ops
    BY <1>3, OpType DEF SyncLine, Places
  <2>6. synced' \in 0..Len(journal')
    BY <1>0, <1>3 DEF SyncLine
  <2> QED  BY <1>0, <1>3, <2>3, <2>4, <2>5, <2>6, WholeType DEF SyncLine
<1>4. CASE PersistAnchor
  <2>1. upsets' \in 0..MaxUpsets
    BY <1>4, UpsetType DEF PersistAnchor
  <2>2. op' \in Ops
    BY <1>4, OpType DEF PersistAnchor, Places
  <2>3. head' \in Seq(Entries) /\ anchor' \in Seq(Entries)
    BY <1>0, <1>4 DEF PersistAnchor
  <2>4. proc' \in {"down", "opening", "up"}
    BY <1>0, <1>4 DEF PersistAnchor
  <2> QED  BY <1>0, <1>4, <2>1, <2>2, <2>3, <2>4, WholeType DEF PersistAnchor
<1>5. CASE TellWitness
  <2>1. witness' \in Seq(Entries) /\ op' \in Ops /\ upsets' \in 0..MaxUpsets
    BY <1>5, WitnessTypes DEF TellWitness, Places
  <2>2. acked' \in Seq(Entries)
    BY <1>0, <1>5 DEF TellWitness
  <2> QED  BY <1>0, <1>5, <2>1, <2>2, WholeType DEF TellWitness
<1> QED  BY <1>1, <1>2, <1>3, <1>4, <1>5 DEF Serve

(* So does what happens to the process.                                     *)
LEMMA ProcessTypes ==
    ASSUME TypeOK, Recover \/ OpenFails \/ Stop \/ Kill \/ PowerLoss
    PROVE  LedgerTypeOK(Entries)'
<1> USE DEF diskVars
<1>0. /\ journal \in Seq(Entries) /\ head \in Seq(Entries) /\ witness \in Seq(Entries)
      /\ mem \in Seq(Entries) /\ known \in Seq(Entries) /\ anchor \in Seq(Entries)
      /\ acked \in Seq(Entries) /\ torn \in BOOLEAN /\ synced \in 0..Len(journal)
      /\ upsets \in 0..MaxUpsets /\ adopted \in Nat /\ Len(journal) \in Nat
  BY DEF TypeOK, LedgerTypeOK
<1>1. ASSUME Down
      PROVE  /\ mem' \in Seq(Entries) /\ known' \in Seq(Entries) /\ anchor' \in Seq(Entries)
             /\ op' \in Ops /\ proc' \in {"down", "opening", "up"}
  BY <1>1, OpType DEF Down
<1>2. CASE Recover
  <2>1. synced' \in 0..Len(journal') /\ adopted' \in Nat
    BY <1>0, <1>2 DEF Recover
  <2>2. op' \in Ops
    BY <1>2, OpType DEF Recover
  <2> QED  BY <1>0, <1>2, <2>1, <2>2, WholeType DEF Recover
<1>3. CASE OpenFails \/ Stop
  BY <1>0, <1>1, <1>3, WholeType DEF OpenFails, Stop
<1>4. CASE Kill
  <2>1. upsets' \in 0..MaxUpsets /\ torn' \in BOOLEAN
    BY <1>0, <1>4, UpsetType DEF Kill
  <2> QED  BY <1>0, <1>1, <1>4, <2>1, WholeType DEF Kill
<1>5. CASE PowerLoss
  <2>1. PICK k \in synced..Len(journal) :
            /\ journal' = SubSeq(journal, 1, k)
            /\ torn' \in (IF torn \/ k < Len(journal) THEN BOOLEAN ELSE {FALSE})
    BY <1>5 DEF PowerLoss
  <2>2. k \in Nat /\ k <= Len(journal) /\ synced <= k /\ synced \in Nat
    BY <1>0
  <2>3. SubSeq(journal, 1, k) \in Seq(Entries) /\ Len(SubSeq(journal, 1, k)) = k
    BY <1>0, <2>2
  <2>4. synced' \in 0..Len(journal')
    BY <1>5, <2>1, <2>2, <2>3 DEF PowerLoss
  <2>5. torn' \in BOOLEAN
    BY <1>0, <2>1
  <2>6. upsets' \in 0..MaxUpsets
    BY <1>5, UpsetType DEF PowerLoss
  <2> QED  BY <1>0, <1>1, <1>5, <2>1, <2>3, <2>4, <2>5, <2>6, WholeType DEF PowerLoss
<1> QED  BY <1>2, <1>3, <1>4, <1>5

Stages == {"none", "history", "register", "intent", "dispatch", "attempt", "current", "wire",
           "acknowledge", "observe", "claim", "observation", "last"}

Tasks == [at : Stages, reconcile : BOOLEAN, member : 0..N, dispatched : BOOLEAN,
          seen : SUBSET Members, matched : SUBSET Members]

LEMMA TaskType ==
    ASSUME TypeOK
    PROVE  /\ task \in Tasks
           /\ NoTask \in Tasks
           /\ \A reconcile \in BOOLEAN :
                    [NoTask EXCEPT !.at = "history", !.reconcile = reconcile] \in Tasks
           /\ \A where \in Stages : Goes(where) => task' \in Tasks
           /\ \A where \in Stages, m \in Members :
                    [task EXCEPT !.at = where, !.member = m] \in Tasks
<1>1. task \in Tasks
  BY DEF TypeOK, Tasks, Stages
<1>2. \A where \in Stages : Goes(where) => task' \in Tasks
  BY <1>1 DEF Goes, Tasks
<1>3. NoTask \in Tasks
  BY DispatchAssumption DEF NoTask, Tasks, Stages
<1>4. \A reconcile \in BOOLEAN :
            [NoTask EXCEPT !.at = "history", !.reconcile = reconcile] \in Tasks
  BY <1>3 DEF Tasks, Stages
<1>5. Members \subseteq 0..N
  BY DispatchAssumption DEF Members
<1>6. \A where \in Stages, m \in Members : [task EXCEPT !.at = where, !.member = m] \in Tasks
  BY <1>1, <1>5 DEF Tasks
<1> QED  BY <1>1, <1>2, <1>3, <1>4, <1>6

(* A step of the broker only asks the ledger for something.                 *)
LEMMA StoreKept ==
    ASSUME TypeOK, UNCHANGED storeVars, op' \in Ops, Upset \/ UNCHANGED upsets,
           task' \in Tasks, UNCHANGED <<sent, applied>>, reads' \in Nat
    PROVE  TypeOK'
<1>1. /\ journal \in Seq(Entries) /\ head \in Seq(Entries) /\ witness \in Seq(Entries)
      /\ mem \in Seq(Entries) /\ known \in Seq(Entries) /\ anchor \in Seq(Entries)
      /\ acked \in Seq(Entries) /\ torn \in BOOLEAN /\ synced \in 0..Len(journal)
      /\ proc \in {"down", "opening", "up"} /\ adopted \in Nat
      /\ sent \in [Members -> Nat] /\ applied \in SUBSET Members
  BY DEF TypeOK, LedgerTypeOK
<1>2. upsets' \in 0..MaxUpsets
  BY UpsetType
<1>3. LedgerTypeOK(Entries)'
  BY <1>1, <1>2, WholeType DEF storeVars, diskVars, memVars
<1> QED  BY <1>1, <1>3 DEF TypeOK, Tasks, Stages

LEMMA CommitTypes ==
    ASSUME TypeOK, NEW e \in Entries \union {NoEntry}, NEW where \in Stages,
           Commits(e, where)
    PROVE  op' \in Ops /\ task' \in Tasks
  BY OpType, TaskType DEF Commits

LEMMA ReturnTypes ==
    ASSUME TypeOK, Returns
    PROVE  op' \in Ops /\ task' \in Tasks
  BY OpType, TaskType DEF Returns

LEMMA BrokerTypes ==
    ASSUME TypeOK, Ready, Broker
    PROVE  TypeOK'
<1> USE DEF outside
<1>0. reads \in Nat /\ task.member \in 0..N
  BY TaskType DEF TypeOK, Tasks
<1>1. CASE ReadHistory
  <2>1. CASE Returns
    BY <1>0, <1>1, <2>1, ReturnTypes, StoreKept DEF ReadHistory
  <2>2. CASE Proceeds
    <3>1. op' \in Ops /\ task' \in Tasks
      BY <2>2, OpType, TaskType DEF Proceeds, Onward, Stages
    <3> QED  BY <1>0, <1>1, <3>1, StoreKept DEF ReadHistory
  <2>3. CASE Commits(Whole("REFERENCE"), "register")
    <3>1. op' \in Ops /\ task' \in Tasks
      BY <2>3, CommitTypes, EntryType DEF Stages, Kinds
    <3> QED  BY <1>0, <1>1, <3>1, StoreKept DEF ReadHistory
  <2> QED  BY <1>1, <2>1, <2>2, <2>3 DEF ReadHistory
<1>2. CASE RecordIntent
  <2>1. op' \in Ops /\ task' \in Tasks
    BY <1>2, CommitTypes, EntryType DEF RecordIntent, Stages, Kinds
  <2> QED  BY <1>0, <1>2, <2>1, StoreKept DEF RecordIntent
<1>3. CASE IntentRecorded
  <2>1. op' \in Ops /\ task' \in Tasks
    BY <1>3, OpType, TaskType DEF IntentRecorded, Proceeds, Onward, Stages
  <2> QED  BY <1>0, <1>3, <2>1, StoreKept DEF IntentRecorded
<1>4. CASE RecordAttempt
  <2>1. First(Untouched) \in Members
    BY <1>4, FirstIsIn DEF RecordAttempt, Untouched
  <2>2. Of("ATTEMPT", First(Untouched)) \in Entries
    BY <2>1, EntryType, DispatchAssumption DEF Members, Kinds
  <2>3. [task EXCEPT !.at = "attempt", !.member = First(Untouched)] \in Tasks
    BY <2>1, TaskType DEF Stages
  <2>4. op' \in Ops /\ task' \in Tasks
    BY <1>4, <2>2, <2>3, OpType, ReturnTypes DEF RecordAttempt
  <2> QED  BY <1>0, <1>4, <2>4, StoreKept DEF RecordAttempt
<1>5. CASE ConfirmOwner
  <2>1. op' \in Ops /\ task' \in Tasks
    BY <1>0, <1>5, CommitTypes, EntryType DEF ConfirmOwner, Stages, Kinds
  <2> QED  BY <1>0, <1>5, <2>1, StoreKept DEF ConfirmOwner
<1>6. CASE SendChange
  <2>1. op' \in Ops /\ task' \in Tasks
    BY <1>6, OpType, TaskType DEF SendChange, Stages
  <2>2. sent' \in [Members -> Nat]
    <3>1. task.member \in Members
      BY <1>6 DEF SendChange, Answered, At, Ready
    <3>2. sent \in [Members -> Nat] /\ sent[task.member] + 1 \in Nat
      BY <3>1 DEF TypeOK
    <3> QED  BY <1>6, <3>2 DEF SendChange
  <2>3. LedgerTypeOK(Entries)'
    BY <1>6, <2>1, WholeType DEF SendChange, TypeOK, LedgerTypeOK, storeVars, diskVars, memVars
  <2> QED  BY <1>6, <2>1, <2>2, <2>3 DEF SendChange, TypeOK, Tasks, Stages
<1>7. CASE RecordAcknowledgment
  <2>1. op' \in Ops /\ task' \in Tasks
    BY <1>0, <1>7, CommitTypes, EntryType DEF RecordAcknowledgment, Stages, Kinds
  <2> QED  BY <1>0, <1>7, <2>1, StoreKept DEF RecordAcknowledgment
<1>8. CASE AcknowledgmentRecorded
  <2>1. task' \in Tasks
    <3>1. task \in Tasks /\ task' = [task EXCEPT !.at = "dispatch", !.dispatched = TRUE]
      BY <1>8, TaskType DEF AcknowledgmentRecorded
    <3> QED  BY <3>1 DEF Tasks, Stages
  <2> QED  BY <1>0, <1>8, <2>1, OpType, StoreKept DEF AcknowledgmentRecorded
<1>9. CASE EndDispatch
  <2>1. op' \in Ops /\ task' \in Tasks
    BY <1>9, OpType, ReturnTypes, TaskType DEF EndDispatch, Stages
  <2> QED  BY <1>0, <1>9, <2>1, StoreKept DEF EndDispatch
<1>10. CASE ClaimReadback
  <2>1. First(Unread) \in Members
    BY <1>10, FirstIsIn DEF ClaimReadback, Unread, Attempted
  <2>2. Of("OBSERVATION_ATTEMPT", First(Unread)) \in Entries
    BY <2>1, EntryType, DispatchAssumption DEF Members, Kinds
  <2>3. [task EXCEPT !.at = "claim", !.member = First(Unread)] \in Tasks
    BY <2>1, TaskType DEF Stages
  <2>4. op' \in Ops /\ task' \in Tasks
    BY <1>10, <2>2, <2>3, OpType, ReturnTypes DEF ClaimReadback
  <2> QED  BY <1>0, <1>10, <2>4, StoreKept DEF ClaimReadback
<1>11. CASE ExhaustReadbacks
  <2>1. op' \in Ops /\ task' \in Tasks
    BY <1>11, ReturnTypes, CommitTypes, EntryType DEF ExhaustReadbacks, Stages, Kinds
  <2> QED  BY <1>0, <1>11, <2>1, StoreKept DEF ExhaustReadbacks
<1>12. CASE Readback
  <2>1. op' \in Ops /\ task' \in Tasks
    BY <1>0, <1>12, CommitTypes, EntryType DEF Readback, Stages, Kinds
  <2>2. reads' \in Nat
    BY <1>0, <1>12 DEF Readback
  <2> QED  BY <1>12, <2>1, <2>2, StoreKept DEF Readback
<1>13. CASE Observed
  <2>1. task.member \in Members
    BY <1>13 DEF Observed, Answered, At, Ready
  <2>2. task' \in Tasks
    <3> DEFINE seen == task.seen \union {task.member}
               matched == task.matched \union (IF op.entry.good THEN {task.member} ELSE {})
    <3>1. task \in Tasks
      BY TaskType
    <3>2. seen \in SUBSET Members /\ matched \in SUBSET Members
      BY <2>1, <3>1 DEF Tasks
    <3>3. task' = [task EXCEPT !.at = "observe", !.seen = seen, !.matched = matched]
      BY <1>13 DEF Observed
    <3> QED  BY <3>1, <3>2, <3>3 DEF Tasks, Stages
  <2> QED  BY <1>0, <1>13, <2>2, OpType, StoreKept DEF Observed
<1>14. CASE Settle
  <2>1. op' \in Ops /\ task' \in Tasks
    BY <1>14, ReturnTypes, CommitTypes, EntryType DEF Settle, Stages, Kinds
  <2> QED  BY <1>0, <1>14, <2>1, StoreKept DEF Settle
<1>15. CASE Finish
  BY <1>0, <1>15, ReturnTypes, StoreKept DEF Finish
<1> QED  BY <1>1, <1>2, <1>3, <1>4, <1>5, <1>6, <1>7, <1>8, <1>9, <1>10, <1>11, <1>12, <1>13,
            <1>14, <1>15 DEF Broker

LEMMA TypeStep ==
    ASSUME TypeOK, Follows, Ready, [Next]_vars
    PROVE  TypeOK'
<1>1. CASE Serve /\ UNCHANGED <<task, outside>>
  BY <1>1, ServeTypes DEF TypeOK, outside
<1>2. CASE (Recover \/ OpenFails) /\ UNCHANGED <<task, outside>>
  BY <1>2, ProcessTypes DEF TypeOK, outside
<1>3. CASE (Kill \/ PowerLoss \/ Stop) /\ task' = NoTask /\ UNCHANGED outside
  <2>1. LedgerTypeOK(Entries)'
    BY <1>3, ProcessTypes
  <2> QED  BY <1>3, <2>1, TaskType DEF TypeOK, outside, Tasks, Stages
<1>4. CASE Broker
  BY <1>4, BrokerTypes
<1>5. ASSUME NEW reconcile \in BOOLEAN, Call(reconcile) PROVE TypeOK'
  <2>1. op' \in Ops /\ task' \in Tasks
    BY <1>5, OpType, TaskType DEF Call
  <2> QED  BY <1>5, <2>1, StoreKept DEF Call, outside, TypeOK
<1>6. ASSUME NEW m \in Members, ProviderHandles(m) PROVE TypeOK'
  BY <1>6 DEF ProviderHandles, TypeOK, LedgerTypeOK, ledgerVars, diskVars, memVars
<1>7. CASE UNCHANGED vars
  BY <1>7 DEF vars, ledgerVars, diskVars, memVars, outside, TypeOK, LedgerTypeOK
<1> QED  BY <1>1, <1>2, <1>3, <1>4, <1>5, <1>6, <1>7 DEF Next

-----------------------------------------------------------------------------
(* THE STEPS OF THE LEDGER *)

(* A call that is served loses no durable entry, and none of the history.   *)
LEMMA ServeKeeps ==
    ASSUME TypeOK, Follows, Serve, NEW e
    PROVE  (Durable(e) => Durable(e)') /\ (Holds(mem, e) => Holds(mem, e)')
<1> USE DEF diskVars, memVars
<1>1. CASE Integrity \/ TellWitness
  BY <1>1 DEF Integrity, TellWitness, Durable
<1>2. CASE WriteLine
  <2>1. op.entry \in Entries
    BY <1>2, OpType DEF WriteLine, Follows, Ops
  <2>2. mem' = mem /\ synced' = synced
    BY <1>2 DEF WriteLine
  <2>3. CASE journal' = Append(journal, op.entry)
    BY <2>1, <2>2, <2>3, DurableGrows
  <2>4. CASE journal' = journal
    BY <2>2, <2>4 DEF Durable
  <2> QED  BY <1>2, <2>2, <2>3, <2>4 DEF WriteLine
<1>3. CASE SyncLine
  <2>1. op.entry \in Entries
    BY <1>3, OpType DEF SyncLine, Follows, Ops
  <2>2. journal' = journal /\ synced' \in {synced, Len(journal)}
    BY <1>3 DEF SyncLine
  <2>3. mem \in Seq(Entries) /\ mem' \in {mem, Append(mem, op.entry)}
    BY <1>3 DEF SyncLine, TypeOK, LedgerTypeOK
  <2>4. Durable(e) => Durable(e)'
    BY <2>2, DurableSpreads
  <2>5. Holds(mem, e) => Holds(Append(mem, op.entry), e)
    BY <2>1, <2>3, HoldsAppend
  <2>6. Holds(mem, e) => Holds(mem, e)'
    BY <2>3, <2>5 DEF Holds
  <2> QED  BY <2>4, <2>6
<1>4. CASE PersistAnchor
  <2>1. journal' = journal /\ synced' = synced /\ mem' = mem
    BY <1>4 DEF PersistAnchor
  <2> QED  BY <2>1 DEF Durable, Holds
<1> QED  BY <1>1, <1>2, <1>3, <1>4 DEF Serve

LEMMA ServeFollows ==
    ASSUME TypeOK, Follows, Serve
    PROVE  Follows'
<1> USE DEF diskVars, memVars
<1>1. op \in Ops /\ \A where \in Places : [op EXCEPT !.at = where].at = where
                                     /\ [op EXCEPT !.at = where].entry = op.entry
  BY OpType DEF Ops
<1>2. Fails => op'.at = "failed"
  BY <1>1 DEF Fails, Places
<1>3. CASE Integrity
  <2>1. op'.at \in {NextPart, "failed"} /\ op'.entry = op.entry
    <3>1. NextPart \in Places /\ "failed" \in Places
      BY DEF NextPart, Places
    <3>2. op' = [op EXCEPT !.at = NextPart] \/ op' = [op EXCEPT !.at = "failed"]
      BY <1>3 DEF Integrity, EnsureWitness, Fails
    <3>3. /\ [op EXCEPT !.at = NextPart].at = NextPart
          /\ [op EXCEPT !.at = NextPart].entry = op.entry
      BY <1>1, <3>1
    <3>4. /\ [op EXCEPT !.at = "failed"].at = "failed"
          /\ [op EXCEPT !.at = "failed"].entry = op.entry
      BY <1>1, <3>1
    <3> QED  BY <3>2, <3>3, <3>4, Zenon
  <2>2. op'.at = "write" => known = journal /\ op.entry # NoEntry
    BY <1>2, <1>3, <2>1 DEF Integrity, Integral, NextPart
  <2>3. op'.at # "sync"
    BY <2>1 DEF NextPart
  <2> QED  BY <1>3, <2>1, <2>2, <2>3 DEF Integrity, Follows
<1>4. CASE WriteLine
  <2>1. op.entry \in Entries /\ op.entry # NoEntry
    BY <1>1, <1>4 DEF WriteLine, Follows, Ops
  <2>2. known = journal /\ mem = journal
    BY <1>4 DEF WriteLine, Follows
  <2>3. CASE journal' = Append(journal, op.entry) /\ op' = [op EXCEPT !.at = "sync"]
    <3>1. op'.at = "sync" /\ op'.entry = op.entry
      BY <1>1, <2>3 DEF Places
    <3>2. Append(journal, op.entry) # journal
      <4>1. journal \in Seq(Entries)
        BY DEF TypeOK, LedgerTypeOK
      <4> QED  BY <2>1, <4>1
    <3> QED  BY <1>4, <2>1, <2>2, <2>3, <3>1, <3>2 DEF WriteLine, Follows
  <2>4. CASE journal' = journal /\ Fails
    BY <1>2, <1>4, <2>4 DEF WriteLine, Follows
  <2> QED  BY <1>4, <2>3, <2>4 DEF WriteLine
<1>5. CASE SyncLine
  <2>1. known = mem /\ journal = Append(mem, op.entry)
    BY <1>5 DEF SyncLine, Follows
  <2>2. op'.at \in {"anchor", "failed"}
    BY <1>1, <1>2, <1>5 DEF SyncLine, Places
  <2>3. known' = journal' => mem' = journal'
    BY <1>5, <2>1 DEF SyncLine
  <2> QED  BY <2>2, <2>3 DEF Follows
<1>6. CASE PersistAnchor
  <2>1. op'.at \in {"witness", "idle", "failed"}
    <3>1. Idle.at = "idle" /\ [op EXCEPT !.at = "witness"].at = "witness"
      BY <1>1 DEF Idle, Places
    <3> QED  BY <1>2, <1>6, <3>1 DEF PersistAnchor
  <2> QED  BY <1>6, <2>1 DEF PersistAnchor, Follows
<1>7. CASE TellWitness
  <2>1. op'.at \in {"ok", "anchor", "failed"}
    BY <1>1, <1>2, <1>7 DEF TellWitness, EnsureWitness, Places
  <2> QED  BY <1>7, <2>1 DEF TellWitness, Follows
<1> QED  BY <1>3, <1>4, <1>5, <1>6, <1>7 DEF Serve

(* The process answers for the entry it was asked about.                    *)
LEMMA ServeAnswers ==
    ASSUME TypeOK, Serve, proc = "up"
    PROVE  proc' = "up" /\ op'.entry = op.entry
<1>1. \A where \in Places : [op EXCEPT !.at = where].entry = op.entry
  BY OpType DEF Ops
<1> QED
  BY <1>1 DEF Serve, Integrity, WriteLine, SyncLine, PersistAnchor, TellWitness,
              EnsureWitness, Fails, NextPart, Places, memVars

(* An attempt that the process has synced is durable and in its history.    *)
LEMMA ServeSyncs ==
    ASSUME TypeOK, Follows, Serve, NEW m \in Members, op.entry = Attempt(m),
           op.at \in {"anchor", "witness", "ok"} =>
                    Durable(Attempt(m)) /\ Holds(mem, Attempt(m)),
           op'.at \in {"anchor", "witness", "ok"}
    PROVE  (Durable(Attempt(m)) /\ Holds(mem, Attempt(m)))'
<1>1. \A where \in Places : [op EXCEPT !.at = where].at = where
  BY OpType DEF Ops
<1>2. ~Fails
  BY <1>1 DEF Fails, Places
<1>3. CASE Integrity
  <2>1. NextPart = "write"
    BY DEF NextPart, Attempt, Of, NoEntry, Committed
  <2>2. op'.at = "write"
    BY <1>1, <1>2, <1>3, <2>1 DEF Integrity, EnsureWitness, Places
  <2> QED  BY <2>2
<1>4. CASE WriteLine
  BY <1>1, <1>2, <1>4 DEF WriteLine, Places
<1>5. CASE SyncLine
  <2>1. /\ mem \in Seq(Entries) /\ Attempt(m) \in Entries
        /\ journal = Append(mem, Attempt(m))
    BY <1>5, EntryType, DispatchAssumption
       DEF SyncLine, Follows, TypeOK, LedgerTypeOK, Attempt, Members, Kinds
  <2>2. synced' = Len(journal) /\ mem' = Append(mem, Attempt(m)) /\ journal' = journal
    BY <1>2, <1>5 DEF SyncLine
  <2>3. Holds(mem, Attempt(m))' /\ Holds(journal, Attempt(m))
    BY <2>1, <2>2, HoldsAppend
  <2> QED  BY <2>2, <2>3, DurableSpreads
<1>6. CASE PersistAnchor \/ TellWitness
  BY <1>6, ServeKeeps DEF PersistAnchor, TellWitness
<1> QED  BY <1>3, <1>4, <1>5, <1>6 DEF Serve

Rest == TaskRuns /\ Follows /\ SentIsOnRecord /\ Ready /\ Truth

LEMMA ServeStep ==
    ASSUME IInv, Serve, UNCHANGED <<task, outside>>
    PROVE  Rest'
<1> USE DEF IInv, outside
<1>1. TaskRuns'
  BY ServeAnswers DEF TaskRuns
<1>2. Follows'
  BY ServeFollows
<1>3. SentIsOnRecord'
  <2> SUFFICES ASSUME NEW m \in Members
               PROVE  /\ sent'[m] \in {0, 1}
                      /\ sent'[m] = 1 => Durable(Attempt(m))' /\ Holds(mem, Attempt(m))'
    BY DEF SentIsOnRecord, Attempt
  <2>1. proc # "down"
    BY DEF Serve, Integrity, WriteLine, SyncLine, PersistAnchor, TellWitness
  <2> QED  BY <2>1, ServeKeeps DEF SentIsOnRecord
<1>4. Ready'
  <2>1. CASE task.at = "attempt"
    <3>1. proc = "up" /\ task.member \in Members /\ op.entry = Attempt(task.member)
      BY <2>1 DEF TaskRuns, Ready
    <3>2. op'.entry = Attempt(task.member)
      BY <3>1, ServeAnswers
    <3>3. op'.at \in {"anchor", "witness", "ok"} =>
                (Durable(Attempt(task.member)) /\ Holds(mem, Attempt(task.member)))'
      <4>1. op.at \in {"anchor", "witness", "ok"} =>
                Durable(Attempt(task.member)) /\ Holds(mem, Attempt(task.member))
        BY <2>1 DEF Ready
      <4> DEFINE m == task.member
      <4>2. ASSUME op'.at \in {"anchor", "witness", "ok"}
            PROVE  (Durable(Attempt(m)) /\ Holds(mem, Attempt(m)))'
        <5>1. PICK k \in Members : k = task.member
          BY <3>1
        <5>2. (Durable(Attempt(k)) /\ Holds(mem, Attempt(k)))'
          BY <3>1, <4>1, <4>2, <5>1, ServeSyncs
        <5> QED  BY <5>1, <5>2 DEF Durable, Holds, Attempt
      <4> QED  BY <4>2
    <3> QED  BY <2>1, <3>1, <3>2, <3>3 DEF Ready, Attempt
  <2>2. CASE task.at = "current"
    <3>1. Durable(Attempt(task.member)) /\ Holds(mem, Attempt(task.member))
      BY <2>2 DEF Ready
    <3>2. PICK e : e = Attempt(task.member)
      OBVIOUS
    <3>3. Durable(e)' /\ Holds(mem, e)'
      BY <3>1, <3>2, ServeKeeps
    <3>4. (Durable(Attempt(task.member)) /\ Holds(mem, Attempt(task.member)))'
      BY <3>2, <3>3 DEF Durable, Holds, Attempt
    <3> QED  BY <2>2, <3>4 DEF Ready
  <2>3. CASE task.at \notin {"attempt", "current"}
    BY <2>3 DEF Ready
  <2> QED  BY <2>1, <2>2, <2>3
<1>5. Truth'
  <2>1. op'.entry = op.entry \/ op'.entry = NoEntry
    <3>1. \A where \in Places : [op EXCEPT !.at = where].entry = op.entry
      BY OpType DEF Ops
    <3>2. (\E where \in Places : op' = [op EXCEPT !.at = where]) \/ op' = Idle
      <4>1. NextPart \in Places /\ {"sync", "anchor", "witness", "ok", "failed"} \subseteq Places
        BY DEF NextPart, Places
      <4>2. ASSUME NEW next \in Places, EnsureWitness(next)
            PROVE  \E where \in Places : op' = [op EXCEPT !.at = where]
        BY <4>1, <4>2 DEF EnsureWitness, Fails
      <4>3. Integrity => \E where \in Places : op' = [op EXCEPT !.at = where]
        BY <4>1, <4>2 DEF Integrity, Fails
      <4>4. TellWitness => \E where \in Places : op' = [op EXCEPT !.at = where]
        BY <4>1, <4>2 DEF TellWitness
      <4>5. WriteLine \/ SyncLine => \E where \in Places : op' = [op EXCEPT !.at = where]
        BY <4>1 DEF WriteLine, SyncLine, Fails
      <4>6. PersistAnchor => (\E where \in Places : op' = [op EXCEPT !.at = where]) \/ op' = Idle
        BY <4>1 DEF PersistAnchor, Fails
      <4> QED  BY <4>3, <4>4, <4>5, <4>6 DEF Serve
    <3>3. ASSUME NEW where \in Places, op' = [op EXCEPT !.at = where]
          PROVE  op'.entry = op.entry
      <4>1. [op EXCEPT !.at = where].entry = op.entry
        BY <3>1
      <4> QED  BY <3>3, <4>1, Zenon
    <3>4. Idle.entry = NoEntry
      BY DEF Idle
    <3> QED  BY <3>2, <3>3, <3>4
  <2>2. NoEntry # Whole("VERIFICATION") /\ ~NoEntry.good
    BY DEF NoEntry, Whole
  <2>3. VerifiedIsTrue'
    <3>1. CASE journal' = journal
      BY <3>1 DEF Truth, VerifiedIsTrue, Holds
    <3>2. CASE journal' = Append(journal, op.entry) /\ WriteLine
      <4>1. journal \in Seq(Entries) /\ op.entry \in Entries
        BY <3>2, OpType DEF WriteLine, Follows, Ops, TypeOK, LedgerTypeOK
      <4>2. Holds(Append(journal, op.entry), Whole("VERIFICATION")) =>
                Holds(journal, Whole("VERIFICATION")) \/ op.entry = Whole("VERIFICATION")
        BY <4>1, HoldsAppend
      <4>3. Holds(journal, Whole("VERIFICATION"))' =>
                Holds(Append(journal, op.entry), Whole("VERIFICATION"))
        BY <3>2 DEF Holds
      <4> QED  BY <4>2, <4>3 DEF Truth, VerifiedIsTrue
    <3>3. journal' = journal \/ (journal' = Append(journal, op.entry) /\ WriteLine)
      BY DEF Serve, Integrity, WriteLine, SyncLine, PersistAnchor, TellWitness, diskVars
    <3> QED  BY <3>1, <3>2, <3>3
  <2> QED  BY <2>1, <2>2, <2>3 DEF Truth
<1> QED  BY <1>1, <1>2, <1>3, <1>4, <1>5 DEF Rest

LEMMA ProcessStep ==
    ASSUME IInv,
           \/ (Recover \/ OpenFails) /\ UNCHANGED task
           \/ (Kill \/ PowerLoss \/ Stop) /\ task' = NoTask,
           UNCHANGED outside
    PROVE  Rest'
<1> USE DEF outside, diskVars
<1>1. task'.at = "none" /\ task'.matched \subseteq applied
  BY DEF IInv, TaskRuns, Truth, Recover, OpenFails, NoTask
<1>2. /\ op'.entry = NoEntry /\ op'.at \in {"idle", "witness"}
      /\ NoEntry # Whole("VERIFICATION")
  <2>1. op' = Idle \/ op' = [Idle EXCEPT !.at = "witness"]
    BY DEF Recover, OpenFails, Kill, PowerLoss, Stop, Down
  <2>2. NoEntry # Whole("VERIFICATION")
    BY DEF NoEntry, Whole
  <2>3. /\ Idle.entry = NoEntry /\ Idle.at = "idle"
        /\ [Idle EXCEPT !.at = "witness"].entry = NoEntry
        /\ [Idle EXCEPT !.at = "witness"].at = "witness"
    BY DEF Idle
  <2> QED  BY <2>1, <2>2, <2>3, Zenon
<1>3. proc' # "down" => Recover /\ mem' = journal' /\ known' = journal' /\ journal' = journal
  BY DEF Recover, OpenFails, Kill, PowerLoss, Stop, Down
<1>4. Follows'
  BY <1>2, <1>3 DEF Follows
<1>5. PICK k \in synced..Len(journal) : journal' = SubSeq(journal, 1, k) \/ journal' = journal
  <2>1. Len(journal) \in synced..Len(journal)
    BY DEF IInv, TypeOK, LedgerTypeOK
  <2> QED  BY <2>1 DEF Recover, OpenFails, Kill, PowerLoss, Stop
<1>6. ASSUME NEW e PROVE Durable(e) => Durable(e)'
  <2>1. CASE journal' = journal
    <3>1. synced' \in {synced, Len(journal)}
      BY DEF Recover, OpenFails, Kill, PowerLoss, Stop
    <3> QED  BY <2>1, <3>1, DurableSpreads DEF IInv
  <2>2. CASE journal' = SubSeq(journal, 1, k) /\ synced' = synced
    BY <2>2, DurableOutlasts DEF IInv
  <2>3. journal' # journal => synced' = synced
    BY DEF Recover, OpenFails, Kill, PowerLoss, Stop
  <2> QED  BY <1>5, <2>1, <2>2, <2>3
<1>7. SentIsOnRecord'
  <2> SUFFICES ASSUME NEW m \in Members
               PROVE  /\ sent'[m] \in {0, 1}
                      /\ sent'[m] = 1 => /\ Durable(Attempt(m))'
                                         /\ proc' # "down" => Holds(mem, Attempt(m))'
    BY DEF SentIsOnRecord, Attempt
  <2>1. sent[m] \in {0, 1} /\ (sent[m] = 1 => Durable(Attempt(m)))
    BY DEF IInv, SentIsOnRecord
  <2>2. Durable(Attempt(m)) => Holds(journal, Attempt(m))
    BY DurableIsHeld DEF IInv
  <2>3. proc' # "down" /\ Holds(journal, Attempt(m)) => Holds(mem, Attempt(m))'
    BY <1>3 DEF Holds, Attempt
  <2> QED  BY <1>6, <2>1, <2>2, <2>3
<1>8. VerifiedIsTrue'
  <2>1. journal \in Seq(Entries) /\ k \in 0..Len(journal)
    BY DEF IInv, TypeOK, LedgerTypeOK
  <2>2. \A i \in 1..k : SubSeq(journal, 1, k)[i] = journal[i]
    BY <2>1
  <2>3. DOMAIN SubSeq(journal, 1, k) = 1..k /\ 1..k \subseteq DOMAIN journal
    BY <2>1
  <2>4. Holds(journal, Whole("VERIFICATION"))' => Holds(journal, Whole("VERIFICATION"))
    BY <1>5, <2>2, <2>3 DEF Holds
  <2> QED  BY <2>4 DEF IInv, Truth, VerifiedIsTrue
<1>9. TaskRuns' /\ Ready' /\ Truth'
  BY <1>1, <1>2, <1>8 DEF TaskRuns, Ready, Truth
<1> QED  BY <1>4, <1>7, <1>9 DEF Rest

-----------------------------------------------------------------------------
(* THE STEPS OF THE BROKER *)

LEMMA GoesTo ==
    ASSUME TypeOK, NEW where \in Stages, Goes(where)
    PROVE  task'.at = where /\ task'.member = task.member /\ task'.matched = task.matched
  BY TaskType DEF Goes, Tasks

(* A step of the broker that sends nothing leaves what is on record alone.  *)
LEMMA QuietStep ==
    ASSUME IInv, UNCHANGED <<storeVars, sent, applied>>, proc = "up",
           op' = op \/ op'.at \in {"idle", "check"}
    PROVE  TaskRuns' /\ Follows' /\ SentIsOnRecord' /\ VerifiedIsTrue'
<1>1. UNCHANGED <<journal, synced, proc, mem, known>>
  BY DEF storeVars, diskVars, memVars
<1>2. TaskRuns' /\ VerifiedIsTrue'
  BY <1>1 DEF IInv, TaskRuns, Truth, VerifiedIsTrue, Holds
<1>3. Follows'
  BY <1>1 DEF IInv, Follows
<1>4. SentIsOnRecord'
  BY <1>1 DEF IInv, SentIsOnRecord, Attempt, Durable, Holds
<1> QED  BY <1>2, <1>3, <1>4

(* So does one that is not about to send, and reads nothing.                *)
LEMMA PlainStep ==
    ASSUME IInv, UNCHANGED <<storeVars, sent, applied>>, proc = "up",
           task'.at \notin {"attempt", "current", "claim", "observation"},
           task'.matched \subseteq applied,
           \/ op' = op \/ op' = Idle
           \/ \E e : Ask(e) /\ (e = Whole("VERIFICATION") => applied = Members)
    PROVE  Rest'
<1>1. op' = op \/ op'.at \in {"idle", "check"}
  BY DEF Idle, Ask
<1>2. op'.entry = Whole("VERIFICATION") => applied = Members
  BY DEF IInv, Truth, Idle, Ask, NoEntry, Whole
<1>3. Ready' /\ Truth'
  BY <1>1, <1>2, QuietStep DEF Ready, Truth
<1> QED  BY <1>1, <1>3, QuietStep DEF Rest

LEMMA BrokerStep ==
    ASSUME IInv, Broker
    PROVE  Rest'
<1> USE DEF outside
<1>0. /\ TypeOK /\ task.matched \subseteq applied
      /\ \A kind \in Kinds \ {"VERIFICATION"} :
            /\ Whole(kind) # Whole("VERIFICATION")
            /\ \A m : Of(kind, m) # Whole("VERIFICATION")
  BY DEF IInv, Truth, Whole, Of
<1>1. ASSUME Returns
      PROVE  op' = Idle /\ task'.at = "none" /\ task'.matched \subseteq applied
  BY <1>1 DEF Returns, NoTask
<1>2. CASE ReadHistory \/ IntentRecorded
  <2>1. CASE Returns
    BY <1>1, <1>2, <2>1, PlainStep DEF ReadHistory, IntentRecorded, Answered, At
  <2>2. CASE Proceeds
    <3>1. op' = Idle /\ task'.at \in {"dispatch", "observe"} /\ task'.matched = task.matched
      BY <1>0, <2>2, GoesTo DEF Proceeds, Onward, Stages
    <3> QED  BY <1>0, <1>2, <3>1, PlainStep DEF ReadHistory, IntentRecorded, Answered, At
  <2>3. CASE Commits(Whole("REFERENCE"), "register")
    <3>1. task'.at = "register" /\ task'.matched = task.matched
      BY <1>0, <2>3, GoesTo DEF Commits, Stages
    <3>2. Ask(Whole("REFERENCE")) /\ Whole("REFERENCE") # Whole("VERIFICATION")
      BY <2>3 DEF Commits, Whole
    <3> QED  BY <1>0, <1>2, <3>1, <3>2, PlainStep DEF ReadHistory, IntentRecorded, Answered, At
  <2> QED  BY <1>2, <2>1, <2>2, <2>3 DEF ReadHistory, IntentRecorded
<1>3. CASE RecordIntent
  <2>1. task'.at = "intent" /\ task'.matched = task.matched
    BY <1>0, <1>3, GoesTo DEF RecordIntent, Commits, Stages
  <2>2. Ask(Whole("INTENT")) /\ Whole("INTENT") # Whole("VERIFICATION")
    BY <1>3 DEF RecordIntent, Commits, Whole
  <2> QED  BY <1>0, <1>3, <2>1, <2>2, PlainStep DEF RecordIntent, Answered, At
<1>4. CASE RecordAttempt
  <2>1. CASE Returns
    BY <1>1, <1>4, <2>1, PlainStep DEF RecordAttempt, At
  <2>2. CASE ~Returns
    <3> DEFINE m == First(Untouched)
    <3>1. m \in Members /\ m \notin Attempted
      BY <1>4, FirstIsIn DEF RecordAttempt, Untouched
    <3>2. proc = "up" /\ UNCHANGED <<storeVars, sent, applied>>
      BY <1>4 DEF RecordAttempt, At
    <3>3. ~Holds(mem, Attempt(m))
      BY <3>1 DEF Attempted, Attempt
    <3>4. sent[m] = 0
      BY <3>1, <3>2, <3>3 DEF IInv, SentIsOnRecord
    <3>5. Ask(Attempt(m)) /\ task' = [task EXCEPT !.at = "attempt", !.member = m]
      BY <1>4, <2>2 DEF RecordAttempt, Attempt
    <3> HIDE DEF m
    <3>6. op'.at = "check" /\ op'.entry = Attempt(m)
      BY <3>5 DEF Ask
    <3>7. task'.at = "attempt" /\ task'.member = m /\ task'.matched = task.matched
      BY <3>5, TaskType, <1>0 DEF Tasks
    <3>8. Ready'
      BY <3>1, <3>2, <3>4, <3>6, <3>7 DEF Ready, Attempt
    <3>9. Attempt(m) # Whole("VERIFICATION")
      BY DEF Attempt, Of, Whole
    <3> QED  BY <1>0, <3>2, <3>6, <3>7, <3>8, <3>9, QuietStep DEF Rest, Truth
  <2> QED  BY <2>1, <2>2
<1>5. CASE ConfirmOwner
  <2>1. proc = "up" /\ task.at = "attempt" /\ op.at = "ok" /\ UNCHANGED <<storeVars, sent, applied>>
    BY <1>5 DEF ConfirmOwner, Answered, At
  <2>2. CASE Commits(Of("ACKNOWLEDGMENT", task.member), "acknowledge")
    <3>1. task'.at = "acknowledge" /\ task'.matched = task.matched
      BY <1>0, <2>2, GoesTo DEF Commits, Stages
    <3>2. \E e : Ask(e) /\ e # Whole("VERIFICATION")
      BY <1>0, <2>2 DEF Commits, Of, Whole
    <3> QED  BY <1>0, <2>1, <3>1, <3>2, PlainStep
  <2>3. CASE Commits(Of("CURRENT_AUTHORITY", task.member), "current")
    <3>1. task'.at = "current" /\ task'.member = task.member /\ task'.matched = task.matched
      BY <1>0, <2>3, GoesTo DEF Commits, Stages
    <3>2. op'.at = "check" /\ op'.entry # Whole("VERIFICATION")
      BY <1>0, <2>3 DEF Commits, Ask, Of, Whole
    <3>3. /\ task.member \in Members /\ sent[task.member] = 0
          /\ Durable(Attempt(task.member)) /\ Holds(mem, Attempt(task.member))
      BY <2>1 DEF IInv, Ready
    <3>4. Ready'
      BY <2>1, <3>1, <3>3
         DEF Ready, Attempt, Durable, Holds, storeVars, diskVars, memVars
    <3> QED  BY <1>0, <2>1, <3>1, <3>2, <3>4, QuietStep DEF Rest, Truth
  <2> QED  BY <1>5, <2>2, <2>3 DEF ConfirmOwner
<1>6. CASE SendChange
  <2>1. /\ proc = "up" /\ task.at = "current" /\ op' = Idle /\ applied' = applied
        /\ sent' = [sent EXCEPT ![task.member] = @ + 1]
        /\ UNCHANGED <<journal, synced, proc, mem, known>>
    BY <1>6 DEF SendChange, Answered, At, storeVars, diskVars, memVars
  <2>2. task'.at = "wire" /\ task'.matched = task.matched
    BY <1>0, <1>6, GoesTo DEF SendChange, Stages
  <2>3. /\ task.member \in Members /\ sent[task.member] = 0
        /\ Durable(Attempt(task.member)) /\ Holds(mem, Attempt(task.member))
    BY <2>1 DEF IInv, Ready
  <2>4. SentIsOnRecord'
    <3> SUFFICES ASSUME NEW m \in Members
                 PROVE  /\ sent'[m] \in {0, 1}
                        /\ sent'[m] = 1 => Durable(Attempt(m))' /\ Holds(mem, Attempt(m))'
      BY DEF SentIsOnRecord, Attempt
    <3>1. Durable(Attempt(m)) /\ Holds(mem, Attempt(m)) =>
                Durable(Attempt(m))' /\ Holds(mem, Attempt(m))'
      BY <2>1 DEF Durable, Holds, Attempt
    <3>2. CASE m = task.member
      <4>1. sent'[m] = 1
        BY <1>0, <2>1, <2>3, <3>2 DEF TypeOK
      <4> QED  BY <2>3, <3>1, <3>2, <4>1
    <3>3. CASE m # task.member
      <4>1. sent'[m] = sent[m]
        BY <1>0, <2>1, <3>3 DEF TypeOK
      <4> QED  BY <2>1, <3>1, <4>1 DEF IInv, SentIsOnRecord
    <3> QED  BY <3>2, <3>3
  <2>5. TaskRuns' /\ Follows' /\ Ready'
    BY <2>1, <2>2 DEF IInv, TaskRuns, Follows, Ready, Idle
  <2>6. Truth'
    BY <1>0, <2>1, <2>2 DEF IInv, Truth, VerifiedIsTrue, Holds, Idle, NoEntry, Whole
  <2> QED  BY <2>4, <2>5, <2>6 DEF Rest
<1>7. CASE RecordAcknowledgment
  <2>1. task'.at = "acknowledge" /\ task'.matched = task.matched
    BY <1>0, <1>7, GoesTo DEF RecordAcknowledgment, Commits, Stages
  <2>2. \E e : Ask(e) /\ e # Whole("VERIFICATION")
    BY <1>0, <1>7 DEF RecordAcknowledgment, Commits, Of, Whole
  <2> QED  BY <1>0, <1>7, <2>1, <2>2, PlainStep DEF RecordAcknowledgment, At
<1>8. CASE AcknowledgmentRecorded
  <2>1. task'.at = "dispatch" /\ task'.matched = task.matched
    BY <1>0, <1>8, TaskType DEF AcknowledgmentRecorded, Tasks
  <2> QED  BY <1>0, <1>8, <2>1, PlainStep DEF AcknowledgmentRecorded, Answered, At
<1>9. CASE EndDispatch
  <2>1. CASE Returns
    BY <1>1, <1>9, <2>1, PlainStep DEF EndDispatch, At
  <2>2. CASE Goes("observe") /\ UNCHANGED op
    <3>1. task'.at = "observe" /\ task'.matched = task.matched
      BY <1>0, <2>2, GoesTo DEF Stages
    <3> QED  BY <1>0, <1>9, <2>2, <3>1, PlainStep DEF EndDispatch, At
  <2> QED  BY <1>9, <2>1, <2>2 DEF EndDispatch
<1>10. CASE ClaimReadback
  <2>1. CASE Returns
    BY <1>1, <1>10, <2>1, PlainStep DEF ClaimReadback, At
  <2>2. CASE ~Returns
    <3> DEFINE m == First(Unread)
    <3>1. m \in Members
      BY <1>10, FirstIsIn DEF ClaimReadback, Unread, Attempted
    <3>2. /\ Ask(Of("OBSERVATION_ATTEMPT", m))
          /\ task' = [task EXCEPT !.at = "claim", !.member = m]
      BY <1>10, <2>2 DEF ClaimReadback
    <3> HIDE DEF m
    <3>3. op'.at = "check" /\ op'.entry # Whole("VERIFICATION")
      BY <3>2 DEF Ask, Of, Whole
    <3>4. task'.at = "claim" /\ task'.member = m /\ task'.matched = task.matched
      BY <1>0, <3>2, TaskType DEF Tasks
    <3> QED  BY <1>0, <1>10, <3>1, <3>3, <3>4, QuietStep DEF ClaimReadback, At, Rest, Ready, Truth
  <2> QED  BY <2>1, <2>2
<1>11. CASE ExhaustReadbacks
  <2>1. CASE Returns
    BY <1>1, <1>11, <2>1, PlainStep DEF ExhaustReadbacks, At
  <2>2. CASE Commits(Whole("OBSERVATION_BUDGET_EXHAUSTED"), "last")
    <3>1. task'.at = "last" /\ task'.matched = task.matched
      BY <1>0, <2>2, GoesTo DEF Commits, Stages
    <3>2. \E e : Ask(e) /\ e # Whole("VERIFICATION")
      BY <1>0, <2>2 DEF Commits, Whole
    <3> QED  BY <1>0, <1>11, <3>1, <3>2, PlainStep DEF ExhaustReadbacks, At
  <2> QED  BY <1>11, <2>1, <2>2 DEF ExhaustReadbacks
<1>12. CASE Readback
  <2>1. PICK good \in BOOLEAN :
            /\ good => task.member \in applied
            /\ Commits([Of("OBSERVATION", task.member) EXCEPT !.good = good], "observation")
    BY <1>12 DEF Readback
  <2>2. task'.at = "observation" /\ task'.member = task.member /\ task'.matched = task.matched
    BY <1>0, <2>1, GoesTo DEF Commits, Stages
  <2>3. op'.at = "check" /\ op'.entry # Whole("VERIFICATION") /\ op'.entry.good = good
    BY <2>1 DEF Commits, Ask, Of, Whole
  <2>4. task.member \in Members
    BY <1>12 DEF Readback, Answered, At, IInv, Ready
  <2> QED  BY <1>0, <1>12, <2>1, <2>2, <2>3, <2>4, QuietStep
           DEF Readback, Answered, At, Rest, Ready, Truth
<1>13. CASE Observed
  <2>1. task'.at = "observe"
        /\ task'.matched = task.matched \union (IF op.entry.good THEN {task.member} ELSE {})
    BY <1>0, <1>13, TaskType DEF Observed, Tasks
  <2>2. op.entry.good => task.member \in applied
    BY <1>13 DEF Observed, Answered, At, IInv, Truth
  <2> QED  BY <1>0, <1>13, <2>1, <2>2, PlainStep DEF Observed, Answered, At
<1>14. CASE Settle
  <2>1. CASE Returns
    BY <1>1, <1>14, <2>1, PlainStep DEF Settle, At
  <2>2. CASE ~Returns
    <3>1. AllMatched /\ Commits(Whole("VERIFICATION"), "last")
      BY <1>14, <2>2 DEF Settle
    <3>2. applied = Members
      BY <1>0, <3>1 DEF AllMatched, TypeOK
    <3>3. task'.at = "last" /\ task'.matched = task.matched
      BY <1>0, <3>1, GoesTo DEF Commits, Stages
    <3> QED  BY <1>0, <1>14, <3>1, <3>2, <3>3, PlainStep DEF Settle, At, Commits
  <2> QED  BY <2>1, <2>2
<1>15. CASE Finish
  BY <1>1, <1>15, PlainStep DEF Finish
<1> QED  BY <1>2, <1>3, <1>4, <1>5, <1>6, <1>7, <1>8, <1>9, <1>10, <1>11, <1>12, <1>13,
            <1>14, <1>15 DEF Broker

-----------------------------------------------------------------------------
(* THE INVARIANT *)

LEMMA InitStep == Init => IInv
<1> SUFFICES ASSUME Init PROVE IInv
  OBVIOUS
<1> USE DEF Init, LedgerInit
<1>1. <<>> \in Seq(Entries) /\ Len(<<>>) = 0
  OBVIOUS
<1>2. LedgerTypeOK(Entries)
  <2>1. op \in [at : Places, entry : Entries \union {NoEntry}]
    BY DEF Idle, Places
  <2>2. 0 \in 0..MaxUpsets
    BY UpsetsAssumption
  <2>3. 0 \in 0..Len(<<>>) /\ 0 \in Nat /\ FALSE \in BOOLEAN
    OBVIOUS
  <2>4. /\ journal = <<>> /\ head = <<>> /\ witness = <<>> /\ mem = <<>> /\ known = <<>>
        /\ anchor = <<>> /\ acked = <<>> /\ torn = FALSE /\ synced = 0 /\ proc = "down"
        /\ upsets = 0 /\ adopted = 0
    OBVIOUS
  <2> HIDE DEF Init, LedgerInit
  <2> QED  BY <1>1, <2>1, <2>2, <2>3, <2>4 DEF LedgerTypeOK, Places
<1>3. TypeOK
  BY <1>2, DispatchAssumption DEF TypeOK, NoTask
<1>4. TaskRuns /\ Follows /\ SentIsOnRecord /\ Ready
  BY DEF TaskRuns, Follows, SentIsOnRecord, Ready, NoTask
<1>5. Truth
  <2>1. ~Holds(journal, Whole("VERIFICATION"))
    BY DEF Holds
  <2> QED  BY <2>1 DEF Truth, VerifiedIsTrue, NoTask, Idle, NoEntry, Whole
<1> QED  BY <1>3, <1>4, <1>5 DEF IInv

LEMMA NextStep == IInv /\ [Next]_vars => IInv'
<1> SUFFICES ASSUME IInv, [Next]_vars PROVE IInv'
  OBVIOUS
<1>1. TypeOK'
  BY TypeStep DEF IInv
<1>2. ASSUME Serve /\ UNCHANGED <<task, outside>> PROVE Rest'
  BY <1>2, ServeStep
<1>3. ASSUME \/ (Recover \/ OpenFails) /\ UNCHANGED <<task, outside>>
             \/ (Kill \/ PowerLoss \/ Stop) /\ task' = NoTask /\ UNCHANGED outside
      PROVE  Rest'
  BY <1>3, ProcessStep
<1>4. ASSUME Broker PROVE Rest'
  BY <1>4, BrokerStep
<1>5. ASSUME NEW reconcile \in BOOLEAN, Call(reconcile) PROVE Rest'
  <2>1. /\ proc = "up" /\ UNCHANGED <<storeVars, sent, applied>>
        /\ task' = [NoTask EXCEPT !.at = "history", !.reconcile = reconcile]
        /\ Ask(NoEntry) /\ NoEntry # Whole("VERIFICATION")
    BY <1>5 DEF Call, At, outside, NoEntry, Whole
  <2>2. task'.at = "history" /\ task'.matched = {}
    BY <2>1 DEF NoTask
  <2> QED  BY <2>1, <2>2, PlainStep
<1>6. ASSUME NEW m \in Members, ProviderHandles(m) PROVE Rest'
  <2>1. /\ UNCHANGED <<ledgerVars, task, sent>>
        /\ applied \subseteq applied' /\ (applied = Members => applied' = Members)
    BY <1>6 DEF ProviderHandles
  <2>2. TaskRuns' /\ Follows' /\ SentIsOnRecord' /\ Ready'
    BY <2>1 DEF IInv, TaskRuns, Follows, SentIsOnRecord, Ready, Attempt, Durable, Holds,
                ledgerVars, diskVars, memVars
  <2>3. Truth'
    BY <2>1 DEF IInv, Truth, VerifiedIsTrue, Holds, ledgerVars, diskVars
  <2> QED  BY <2>2, <2>3 DEF Rest
<1>7. ASSUME UNCHANGED vars PROVE Rest'
  <2>1. TaskRuns' /\ Follows' /\ SentIsOnRecord' /\ Ready'
    BY <1>7 DEF vars, outside, IInv, TaskRuns, Follows, SentIsOnRecord, Ready, Attempt,
                Durable, Holds, ledgerVars, diskVars, memVars
  <2>2. Truth'
    BY <1>7 DEF vars, outside, IInv, Truth, VerifiedIsTrue, Holds, ledgerVars, diskVars
  <2> QED  BY <2>1, <2>2 DEF Rest
<1>8. Rest'
  BY <1>2, <1>3, <1>4, <1>5, <1>6, <1>7 DEF Next
<1> QED  BY <1>1, <1>8 DEF IInv, Rest

LEMMA InvariantHolds == Spec => []IInv
  BY InitStep, NextStep, PTL DEF Spec

-----------------------------------------------------------------------------
(* WHAT THE LEDGER KEEPS *)

LEMMA BeginsAppend ==
    ASSUME NEW S, NEW s \in Seq(S), NEW t \in Seq(S), NEW e \in S, Begins(s, t)
    PROVE  Begins(s, Append(t, e))
  BY DEF Begins

LEMMA BeginsItself ==
    ASSUME NEW S, NEW s \in Seq(S)
    PROVE  Begins(s, s)
  BY DEF Begins

(* How a shorter sequence begins is how the longer one does.                *)
LEMMA BeginsShorter ==
    ASSUME NEW S, NEW s \in Seq(S), NEW t \in Seq(S), NEW k \in 0..Len(t)
    PROVE  /\ Begins(s, SubSeq(t, 1, k)) => Begins(s, t)
           /\ Begins(s, t) /\ Len(s) <= k => Begins(s, SubSeq(t, 1, k))
<1> DEFINE u == SubSeq(t, 1, k)
<1>1. u \in Seq(S) /\ Len(u) = k /\ k <= Len(t)
  OBVIOUS
<1>2. ASSUME Len(s) <= k PROVE SubSeq(u, 1, Len(s)) = SubSeq(t, 1, Len(s))
  <2>1. \A i \in 1..Len(s) : u[i] = t[i]
    BY <1>2
  <2>2. /\ SubSeq(u, 1, Len(s)) \in Seq(S) /\ Len(SubSeq(u, 1, Len(s))) = Len(s)
        /\ SubSeq(t, 1, Len(s)) \in Seq(S) /\ Len(SubSeq(t, 1, Len(s))) = Len(s)
    BY <1>1, <1>2
  <2>3. \A i \in 1..Len(s) : SubSeq(u, 1, Len(s))[i] = SubSeq(t, 1, Len(s))[i]
    BY <1>1, <1>2, <2>1
  <2> HIDE DEF u
  <2> QED  BY <2>2, <2>3
<1>3. Len(s) \in Nat
  OBVIOUS
<1> HIDE DEF u
<1>4. (Begins(s, u) => Begins(s, t)) /\ (Begins(s, t) /\ Len(s) <= k => Begins(s, u))
  BY <1>1, <1>2, <1>3 DEF Begins
<1> QED  BY <1>4 DEF u

LEMMA KeptTypes ==
    ASSUME TypeOK
    PROVE  /\ journal \in Seq(Entries) /\ head \in Seq(Entries) /\ witness \in Seq(Entries)
           /\ mem \in Seq(Entries) /\ acked \in Seq(Entries)
           /\ synced \in Nat /\ synced <= Len(journal) /\ adopted \in Nat
           /\ Len(journal) \in Nat /\ Len(mem) \in Nat /\ Len(head) \in Nat
           /\ Len(witness) \in Nat /\ Len(acked) \in Nat
  BY DEF TypeOK, LedgerTypeOK

(* What lasts goes on doing so while nothing is taken from the journal.     *)
LEMMA LastsLonger ==
    ASSUME TypeOK, TypeOK', NEW s \in Seq(Entries), Lasting(s),
           \/ journal' = journal
           \/ \E e \in Entries : journal' = Append(journal, e),
           synced <= synced', adopted <= adopted'
    PROVE  Begins(s, journal') /\ (Len(s) <= synced' \/ Len(s) <= adopted')
<1>1. Begins(s, journal')
  BY KeptTypes, BeginsAppend DEF Lasting
<1>2. /\ Len(s) \in Nat /\ synced \in Nat /\ adopted \in Nat
      /\ synced' \in Nat /\ adopted' \in Nat
  BY KeptTypes DEF TypeOK, LedgerTypeOK
<1> QED  BY <1>1, <1>2 DEF Lasting

(* The steps that tell the witness, and answer.                             *)
LEMMA TellingKeeps ==
    ASSUME TypeOK, Healthy, proc # "down", NEW next \in Places, EnsureWitness(next),
           acked' = IF op'.at = "ok" THEN mem ELSE acked,
           UNCHANGED <<diskVars, memVars, adopted>>
    PROVE  Healthy'
<1> USE DEF diskVars, memVars
<1>1. Lasting(mem) /\ Lasting(witness) /\ Lasting(acked) /\ Lasting(head)
  BY DEF Healthy
<1>2. witness' \in {witness, mem} /\ acked' \in {acked, mem}
  BY DEF EnsureWitness
<1>3. Len(witness) <= Len(witness')
  BY KeptTypes DEF EnsureWitness, Begins
<1>4. Len(acked') <= Len(witness')
  <2>1. CASE acked' = acked
    BY <1>2, <1>3, <2>1, KeptTypes DEF Healthy
  <2>2. CASE op'.at = "ok"
    <3>1. ~Fails
      BY <2>2, OpType DEF Fails, Ops, Places
    <3>2. witness' = mem /\ acked' = mem
      BY <2>2, <3>1 DEF EnsureWitness
    <3> QED  BY <3>2, KeptTypes
  <2> QED  BY <2>1, <2>2
<1> QED  BY <1>1, <1>2, <1>4 DEF Healthy, Lasting

LEMMA ServeHealthy ==
    ASSUME TypeOK, TypeOK', Follows, Healthy, Serve
    PROVE  Healthy'
<1> USE DEF diskVars, memVars
<1>1. CASE Integrity
  <2>1. CASE Integral
    <3>1. NextPart \in Places
      BY DEF NextPart, Places
    <3> QED  BY <1>1, <2>1, <3>1, TellingKeeps DEF Integrity
  <2>2. CASE ~Integral
    <3>1. op'.at # "ok"
      BY <1>1, <2>2, OpType DEF Integrity, Fails, Ops, Places
    <3> QED  BY <1>1, <2>2, <3>1 DEF Integrity, Healthy, Lasting
  <2> QED  BY <2>1, <2>2
<1>2. CASE WriteLine
  <2>1. op.entry \in Entries
    BY <1>2, OpType DEF WriteLine, Follows, Ops
  <2>2. /\ journal' = journal \/ \E e \in Entries : journal' = Append(journal, e)
        /\ synced <= synced' /\ adopted <= adopted'
        /\ UNCHANGED <<head, witness, acked, proc, mem>>
    BY <1>2, <2>1, KeptTypes DEF WriteLine
  <2> QED  BY <2>2, LastsLonger, KeptTypes DEF Healthy, Lasting
<1>3. CASE SyncLine
  <2>1. /\ journal' = journal /\ synced' \in {synced, Len(journal)}
        /\ UNCHANGED <<head, witness, acked, proc, adopted>>
    BY <1>3 DEF SyncLine
  <2>2. synced <= synced' /\ adopted <= adopted'
    BY <2>1, KeptTypes
  <2>3. mem' = mem \/ (mem' = journal /\ synced' = Len(journal))
    BY <1>3 DEF SyncLine, Follows
  <2>4. Lasting(mem)'
    <3>1. CASE mem' = mem
      BY <1>3, <2>1, <2>2, <3>1, LastsLonger, KeptTypes DEF SyncLine, Healthy, Lasting
    <3>2. CASE mem' = journal /\ synced' = Len(journal)
      BY <2>1, <3>2, BeginsItself, KeptTypes DEF Lasting
    <3> QED  BY <2>3, <3>1, <3>2
  <2> QED  BY <2>1, <2>2, <2>4, LastsLonger, KeptTypes DEF Healthy, Lasting
<1>4. CASE PersistAnchor
  BY <1>4 DEF PersistAnchor, Healthy, Lasting
<1>5. CASE TellWitness
  BY <1>5, TellingKeeps DEF TellWitness, Places
<1> QED  BY <1>1, <1>2, <1>3, <1>4, <1>5 DEF Serve

(* An opening takes the journal as it is for history.                       *)
LEMMA RecoverKeeps ==
    ASSUME TypeOK, TypeOK', Recover
    PROVE  /\ Healthy => Healthy'
           /\ Stuck => Stuck'
<1>1. /\ UNCHANGED <<journal, head, witness, acked>>
      /\ mem' = journal /\ proc' = "opening" /\ op' = [Idle EXCEPT !.at = "witness"]
      /\ synced' \in {synced, Len(journal)}
      /\ Begins(head, journal)
  BY DEF Recover
<1>2. /\ synced <= synced' /\ adopted <= adopted'
      /\ Len(journal) <= synced' \/ Len(journal) <= adopted'
  BY KeptTypes DEF Recover
<1>3. Healthy => Healthy'
  <2>1. Lasting(mem)'
    BY <1>1, <1>2, BeginsItself, KeptTypes DEF Lasting
  <2> QED  BY <1>1, <1>2, <2>1, LastsLonger, KeptTypes DEF Healthy, Lasting
<1>4. Stuck => Stuck'
  <2>1. op'.at = "witness"
    BY <1>1 DEF Idle
  <2>2. Lapsed => Lapsed'
    BY <1>1, <1>2, KeptTypes DEF Lapsed, TypeOK, LedgerTypeOK
  <2> QED  BY <1>1, <2>1, <2>2 DEF Stuck
<1> QED  BY <1>3, <1>4

(* A power failure takes what nobody was told of, or closes the ledger.     *)
LEMMA PowerLossKeeps ==
    ASSUME TypeOK, PowerLoss, Healthy \/ Stuck
    PROVE  Healthy' \/ Stuck'
<1>1. PICK k \in synced..Len(journal) : journal' = SubSeq(journal, 1, k)
  BY DEF PowerLoss
<1>2. k \in 0..Len(journal) /\ k \in Nat /\ synced <= k /\ Len(journal') = k
  BY <1>1, KeptTypes
<1>3. UNCHANGED <<synced, head, witness, acked, adopted>> /\ proc' = "down"
  BY DEF PowerLoss, Down
<1>4. CASE Stuck
  <2>1. ~(Begins(head, journal') /\ Begins(witness, journal'))
    BY <1>1, <1>2, <1>4, BeginsShorter, KeptTypes DEF Stuck
  <2>2. adopted > k
    BY <1>2, <1>4, KeptTypes DEF Stuck, Lapsed
  <2> QED  BY <1>2, <1>3, <2>1, <2>2 DEF Stuck, Lapsed
<1>5. CASE Healthy
  <2>1. CASE Len(head) <= k /\ Len(witness) <= k
    <3>1. Len(acked) <= k
      BY <1>2, <1>5, <2>1, KeptTypes DEF Healthy
    <3>2. Begins(head, journal') /\ Begins(witness, journal') /\ Begins(acked, journal')
      BY <1>1, <1>2, <1>5, <2>1, <3>1, BeginsShorter, KeptTypes DEF Healthy, Lasting
    <3> QED  BY <1>3, <1>5, <3>2 DEF Healthy, Lasting
  <2>2. CASE ~(Len(head) <= k /\ Len(witness) <= k)
    <3>1. adopted > k
      BY <1>2, <1>5, <2>2, KeptTypes DEF Healthy, Lasting
    <3>2. ~(Begins(head, journal') /\ Begins(witness, journal'))
      BY <1>2, <2>2 DEF Begins
    <3> QED  BY <1>2, <1>3, <3>1, <3>2 DEF Stuck, Lapsed
  <2> QED  BY <2>1, <2>2
<1> QED  BY <1>4, <1>5

LEMMA KeptStep ==
    ASSUME IInv, IInv', Healthy \/ Stuck, [Next]_vars
    PROVE  Healthy' \/ Stuck'
<1>0. TypeOK /\ TypeOK' /\ Follows
  BY DEF IInv
<1>1. CASE Serve
  <2>1. CASE Healthy
    BY <1>0, <1>1, <2>1, ServeHealthy
  <2>2. CASE Stuck
    <3>0. proc \in {"down", "opening", "up"}
      BY <1>0 DEF TypeOK, LedgerTypeOK
    <3>1. TellWitness /\ proc = "opening" /\ ~Begins(witness, mem) /\ mem = journal
      BY <1>1, <3>0, <2>2 DEF Stuck, Serve, Integrity, WriteLine, SyncLine, PersistAnchor, TellWitness
    <3>2. Fails /\ witness' = witness
      BY <3>1 DEF TellWitness, EnsureWitness
    <3>3. op'.at = "failed"
      BY <1>0, <3>2, OpType DEF Fails, Ops, Places
    <3> QED  BY <2>2, <3>1, <3>2, <3>3 DEF TellWitness, Stuck, Lapsed, diskVars, memVars
  <2> QED  BY <2>1, <2>2
<1>2. CASE Recover
  BY <1>0, <1>2, RecoverKeeps
<1>3. CASE OpenFails \/ Kill \/ Stop
  BY <1>3 DEF OpenFails, Kill, Stop, Down, Healthy, Stuck, Lasting, Lapsed, diskVars
<1>4. CASE PowerLoss
  BY <1>0, <1>4, PowerLossKeeps
<1>5. CASE Broker \/ \E reconcile \in BOOLEAN : Call(reconcile)
  <2>1. UNCHANGED storeVars /\ proc = "up"
    BY <1>5 DEF Broker, Call, ReadHistory, RecordIntent, IntentRecorded, RecordAttempt,
                ConfirmOwner, SendChange, RecordAcknowledgment, AcknowledgmentRecorded,
                EndDispatch, ClaimReadback, ExhaustReadbacks, Readback, Observed, Settle,
                Finish, Answered, At
  <2> QED  BY <2>1 DEF Healthy, Stuck, Lasting, storeVars, diskVars, memVars
<1>6. CASE UNCHANGED ledgerVars
  BY <1>6 DEF Healthy, Stuck, Lasting, Lapsed, ledgerVars, diskVars, memVars
<1> QED  BY <1>1, <1>2, <1>3, <1>4, <1>5, <1>6 DEF Next, ProviderHandles, vars

LEMMA KeptHolds == Spec => [](Healthy \/ Stuck)
<1>1. Init => Healthy
  BY DEF Init, LedgerInit, Healthy, Lasting, Begins
<1>2. IInv /\ IInv' /\ (Healthy \/ Stuck) /\ [Next]_vars => (Healthy \/ Stuck)'
  BY KeptStep
<1> QED  BY <1>1, <1>2, InvariantHolds, PTL DEF Spec

-----------------------------------------------------------------------------
(* HOW MANY READBACKS *)

(* The entries the budget is about: the claim of a readback, and the two    *)
(* ends of an obligation.                                                   *)
IsClaim(e) == e.kind = "OBSERVATION_ATTEMPT"
Exhausted == Whole("OBSERVATION_BUDGET_EXHAUSTED")
Verified == Whole("VERIFICATION")

(* The claims of a history, and the part of the journal no failure takes.   *)
Spent(s) == Cardinality({k \in DOMAIN s : IsClaim(s[k])})
Kept == SubSeq(journal, 1, synced)

(* The ledger is committing the entry, and has not installed it.            *)
Underway(e) == op.entry = e /\ op.at \in {"check", "write", "sync"}

(* A readback is sent on a claim of its own, which is on record for good.   *)
ReadsAreClaimed ==
    /\ reads <= Spent(Kept)
    /\ proc # "down" => reads <= Spent(mem)
    /\ task.at = "claim" => IsClaim(op.entry)
    /\ IsClaim(op.entry) /\ op.at \in {"anchor", "witness", "ok"} =>
            reads < Spent(Kept) /\ reads < Spent(mem)

(* A claim is made only while there are any left.                           *)
ClaimsAreLimited ==
    /\ Spent(journal) <= Limit
    /\ IsClaim(op.entry) /\ op.at \in {"check", "write"} => Spent(mem) < Limit

(* Where the journal says that the readbacks are used up, they were used up *)
(* before that line: no power failure leaves the one without the other.     *)
ExhaustedIsSpent ==
    /\ \A k \in DOMAIN journal : journal[k] = Exhausted => Spent(SubSeq(journal, 1, k)) >= Limit
    /\ proc # "down" /\ Holds(mem, Exhausted) => Spent(mem) >= Limit
    /\ Underway(Exhausted) => Spent(mem) >= Limit

(* An obligation ends in one way: a call that dispatches or reads back has  *)
(* found no verification, and one that has claimed a readback found some    *)
(* left, which only another call could use up.                              *)
OneEnd ==
    /\ ~(Holds(journal, Exhausted) /\ Holds(journal, Verified))
    /\ Underway(Verified) => ~Holds(mem, Exhausted)
    /\ Underway(Exhausted) => ~Holds(mem, Verified)
    /\ task.at \notin {"none", "history", "last"} => ~Holds(mem, Verified) /\ op.entry # Verified
    /\ task.at \in {"claim", "observation"} \/ (task.seen # {} /\ task.at \notin {"none", "last"}) =>
            ~Holds(mem, Exhausted) /\ op.entry # Exhausted

(* The inductive invariant, on top of IInv.                                 *)
Budget == ReadsAreClaimed /\ ClaimsAreLimited /\ ExhaustedIsSpent /\ OneEnd

-----------------------------------------------------------------------------
(* COUNTING CLAIMS *)

(* A history is finite, and its claims are as many as a number says.        *)
LEMMA SpentType ==
    ASSUME NEW s \in Seq(Entries)
    PROVE  IsFiniteSet({k \in DOMAIN s : IsClaim(s[k])}) /\ Spent(s) \in Nat
<1>1. DOMAIN s = 1..Len(s) /\ Len(s) \in Nat
  OBVIOUS
<1>2. IsFiniteSet(1..Len(s))
  BY <1>1, FS_Interval
<1>3. IsFiniteSet({k \in DOMAIN s : IsClaim(s[k])})
  BY <1>1, <1>2, FS_Subset
<1> QED  BY <1>3, FS_CardinalityType DEF Spent

(* One more line is one more claim, or none.                                *)
LEMMA SpentAppend ==
    ASSUME NEW s \in Seq(Entries), NEW e \in Entries
    PROVE  Spent(Append(s, e)) = IF IsClaim(e) THEN Spent(s) + 1 ELSE Spent(s)
<1> DEFINE S == {k \in DOMAIN s : IsClaim(s[k])}
           T == {k \in DOMAIN Append(s, e) : IsClaim(Append(s, e)[k])}
<1>1. /\ DOMAIN s = 1..Len(s) /\ Len(s) \in Nat
      /\ DOMAIN Append(s, e) = 1..(Len(s) + 1)
      /\ \A k \in 1..Len(s) : Append(s, e)[k] = s[k]
      /\ Append(s, e)[Len(s) + 1] = e
  OBVIOUS
<1>2. T = IF IsClaim(e) THEN S \union {Len(s) + 1} ELSE S
  <2>1. \A k : k \in 1..(Len(s) + 1) <=> k \in 1..Len(s) \/ k = Len(s) + 1
    BY <1>1
  <2>2. \A k : k \in T <=> k \in S \/ (k = Len(s) + 1 /\ IsClaim(e))
    BY <1>1, <2>1
  <2> HIDE DEF S, T
  <2> QED  BY <2>2
<1>3. Len(s) + 1 \notin S
  BY <1>1
<1>4. IsFiniteSet(S)
  BY SpentType
<1> HIDE DEF S, T
<1>5. Cardinality(T) = IF IsClaim(e) THEN Cardinality(S) + 1 ELSE Cardinality(S)
  BY <1>2, <1>3, <1>4, FS_AddElement
<1> QED  BY <1>5 DEF Spent, S, T

(* A part of a history has no more claims than the whole.                   *)
LEMMA SpentPrefix ==
    ASSUME NEW s \in Seq(Entries), NEW i \in 0..Len(s)
    PROVE  SubSeq(s, 1, i) \in Seq(Entries) /\ Spent(SubSeq(s, 1, i)) <= Spent(s)
<1> DEFINE S == {k \in DOMAIN s : IsClaim(s[k])}
           T == {k \in DOMAIN SubSeq(s, 1, i) : IsClaim(SubSeq(s, 1, i)[k])}
<1>1. /\ DOMAIN s = 1..Len(s) /\ SubSeq(s, 1, i) \in Seq(Entries)
      /\ DOMAIN SubSeq(s, 1, i) = 1..i
      /\ \A k \in 1..i : SubSeq(s, 1, i)[k] = s[k]
  OBVIOUS
<1>2. T \subseteq S
  BY <1>1
<1>3. IsFiniteSet(S)
  BY SpentType
<1> HIDE DEF S, T
<1>4. Cardinality(T) <= Cardinality(S)
  BY <1>2, <1>3, FS_Subset
<1> QED  BY <1>1, <1>4 DEF Spent, S, T

(* A longer part has no fewer.                                              *)
LEMMA SpentGrows ==
    ASSUME NEW s \in Seq(Entries), NEW i \in 0..Len(s), NEW j \in 0..Len(s), i <= j
    PROVE  Spent(SubSeq(s, 1, i)) <= Spent(SubSeq(s, 1, j))
<1> DEFINE t == SubSeq(s, 1, j)
<1>1. t \in Seq(Entries) /\ Len(t) = j /\ i \in 0..Len(t)
  OBVIOUS
<1>2. SubSeq(t, 1, i) = SubSeq(s, 1, i)
  OBVIOUS
<1> HIDE DEF t
<1>3. Spent(SubSeq(t, 1, i)) <= Spent(t)
  BY <1>1, SpentPrefix
<1> QED  BY <1>2, <1>3 DEF t

(* What is added, or lost, at the end leaves the parts before it alone.     *)
LEMMA PartsStay ==
    ASSUME NEW s \in Seq(Entries), NEW i \in 0..Len(s)
    PROVE  /\ \A e \in Entries : SubSeq(Append(s, e), 1, i) = SubSeq(s, 1, i)
           /\ \A k \in i..Len(s) : SubSeq(SubSeq(s, 1, k), 1, i) = SubSeq(s, 1, i)
           /\ SubSeq(s, 1, Len(s)) = s
  OBVIOUS

-----------------------------------------------------------------------------
(* THE BUDGET *)

(* The counts of a state are numbers, and the kept part is a part.          *)
LEMMA CountTypes ==
    ASSUME TypeOK
    PROVE  /\ journal \in Seq(Entries) /\ mem \in Seq(Entries) /\ Kept \in Seq(Entries)
           /\ synced \in 0..Len(journal) /\ Len(journal) \in Nat
           /\ Spent(journal) \in Nat /\ Spent(mem) \in Nat /\ Spent(Kept) \in Nat
           /\ Spent(Kept) <= Spent(journal) /\ reads \in Nat /\ Limit \in Nat
<1>1. /\ journal \in Seq(Entries) /\ mem \in Seq(Entries) /\ synced \in 0..Len(journal)
      /\ Len(journal) \in Nat /\ reads \in Nat /\ Limit \in Nat
  BY DispatchAssumption DEF TypeOK, LedgerTypeOK
<1>2. Kept \in Seq(Entries) /\ Spent(Kept) <= Spent(journal)
  BY <1>1, SpentPrefix DEF Kept
<1> QED  BY <1>1, <1>2, SpentType

(* The entries the budget is about are different ones.                      *)
LEMMA EntriesDiffer ==
    /\ ~IsClaim(NoEntry) /\ ~IsClaim(Exhausted) /\ ~IsClaim(Verified)
    /\ Exhausted # Verified /\ NoEntry # Exhausted /\ NoEntry # Verified
    /\ \A m : Of("OBSERVATION_ATTEMPT", m) \notin {Exhausted, Verified}
    /\ \A e : IsClaim(e) => e \notin {Exhausted, Verified}
    /\ Exhausted \in Entries /\ Verified \in Entries
  BY EntryType DEF IsClaim, Exhausted, Verified, NoEntry, Whole, Of, Kinds

(* What a process does that adds no line and installs none: more lines may  *)
(* be synced, and a call goes on, fails or is over.                         *)
LEMMA BudgetStays ==
    ASSUME TypeOK, Budget, UNCHANGED <<journal, mem, task, reads>>,
           synced' \in {synced, Len(journal)},
           proc' # "down" => proc # "down",
           op'.entry = op.entry \/ (op'.entry = NoEntry /\ task.at = "none"),
           op'.at \in {"check", "write"} => op.at \in {"check", "write"},
           op'.at # "sync",
           IsClaim(op'.entry) /\ op'.at \in {"anchor", "witness", "ok"} =>
                    op.at \in {"anchor", "witness", "ok"}
    PROVE  Budget'
<1>1. Spent(journal)' = Spent(journal) /\ Spent(mem)' = Spent(mem)
  BY DEF Spent
<1>2. Spent(Kept)' >= Spent(Kept) /\ Spent(Kept)' \in Nat
  <2>1. Kept' = SubSeq(journal, 1, synced')
    BY DEF Kept
  <2>2. synced \in 0..Len(journal) /\ synced' \in 0..Len(journal) /\ synced <= synced'
    BY CountTypes
  <2>3. Spent(SubSeq(journal, 1, synced)) <= Spent(SubSeq(journal, 1, synced'))
        /\ SubSeq(journal, 1, synced') \in Seq(Entries)
    BY <2>2, CountTypes, SpentGrows, SpentPrefix
  <2>4. Spent(Kept)' = Spent(SubSeq(journal, 1, synced'))
    BY <2>1 DEF Spent
  <2> QED  BY <2>3, <2>4, CountTypes, SpentType DEF Kept
<1>3. op'.entry # op.entry => ~IsClaim(op'.entry) /\ op'.entry \notin {Exhausted, Verified}
                              /\ task.at = "none"
  BY EntriesDiffer
<1>4. ReadsAreClaimed'
  BY <1>1, <1>2, <1>3, CountTypes DEF Budget, ReadsAreClaimed
<1>5. ClaimsAreLimited'
  BY <1>1, <1>3 DEF Budget, ClaimsAreLimited
<1>6. ExhaustedIsSpent'
  BY <1>1, <1>3 DEF Budget, ExhaustedIsSpent, Underway, Holds, Spent, Exhausted, Whole
<1>7. OneEnd'
  BY <1>3 DEF Budget, OneEnd, Underway, Holds, Exhausted, Verified, Whole
<1> QED  BY <1>4, <1>5, <1>6, <1>7 DEF Budget

(* The line of a call is added to the journal.                              *)
LEMMA BudgetWrites ==
    ASSUME IInv, Budget, WriteLine, journal' = Append(journal, op.entry),
           op' = [op EXCEPT !.at = "sync"], UNCHANGED <<task, reads>>
    PROVE  Budget'
<1>1. /\ op.entry \in Entries /\ op.at = "write" /\ proc = "up"
      /\ known = journal /\ mem = journal
  BY OpType DEF WriteLine, IInv, Follows, Ops
<1>2. op'.at = "sync" /\ op'.entry = op.entry
  BY OpType DEF IInv, Ops, Places
<1>3. UNCHANGED <<mem, synced, proc>>
  BY DEF WriteLine, memVars
<1>4. TypeOK
  BY DEF IInv
<1>5. Kept' = Kept
  BY <1>1, <1>3, <1>4, CountTypes, PartsStay DEF Kept
<1>6. Spent(mem)' = Spent(mem) /\ Spent(Kept)' = Spent(Kept)
  BY <1>3, <1>5 DEF Spent
<1>7. Spent(journal)' = IF IsClaim(op.entry) THEN Spent(journal) + 1 ELSE Spent(journal)
  <2>1. Spent(journal)' = Spent(Append(journal, op.entry))
    BY DEF Spent
  <2> QED  BY <2>1, <1>1, <1>4, CountTypes, SpentAppend
<1>8. ReadsAreClaimed'
  BY <1>2, <1>3, <1>6 DEF Budget, ReadsAreClaimed
<1>9. ClaimsAreLimited'
  BY <1>1, <1>2, <1>4, <1>7, CountTypes DEF Budget, ClaimsAreLimited
<1>10. ExhaustedIsSpent'
  <2>1. Underway(Exhausted)' => Underway(Exhausted)
    BY <1>1, <1>2 DEF Underway, Exhausted, Whole
  <2>2. ASSUME NEW k \in DOMAIN journal', journal'[k] = Exhausted
        PROVE  Spent(SubSeq(journal', 1, k)) >= Limit
    <3>1. /\ journal \in Seq(Entries) /\ DOMAIN journal = 1..Len(journal)
          /\ DOMAIN journal' = 1..(Len(journal) + 1) /\ Len(journal) \in Nat
          /\ journal'[Len(journal) + 1] = op.entry
          /\ \A i \in 1..Len(journal) : journal'[i] = journal[i]
      BY <1>1, <1>4, CountTypes
    <3>2. CASE k \in 1..Len(journal)
      <4>1. SubSeq(journal', 1, k) = SubSeq(journal, 1, k)
        BY <1>1, <3>1, <3>2, PartsStay
      <4> QED  BY <2>2, <3>1, <3>2, <4>1 DEF Budget, ExhaustedIsSpent
    <3>3. CASE k = Len(journal) + 1
      <4>1. journal' \in Seq(Entries) /\ Len(journal') = k
        BY <1>1, <3>1, <3>3
      <4>2. SubSeq(journal', 1, k) = journal'
        BY <4>1, PartsStay, <3>1, <3>3
      <4>3. op.entry = Exhausted
        BY <2>2, <3>1, <3>3
      <4>4. Spent(mem) >= Limit
        BY <1>1, <4>3 DEF Budget, ExhaustedIsSpent, Underway
      <4>5. Spent(journal) >= Limit /\ Spent(journal)' = Spent(journal)
        BY <1>1, <1>7, <4>3, <4>4, EntriesDiffer
      <4> QED  BY <4>2, <4>5 DEF Spent
    <3> QED  BY <3>1, <3>2, <3>3
  <2>3. /\ proc' # "down" /\ Holds(mem, Exhausted)' => Spent(mem)' >= Limit
        /\ Underway(Exhausted)' => Spent(mem)' >= Limit
    BY <1>3, <1>6, <2>1 DEF Budget, ExhaustedIsSpent, Holds, Exhausted, Whole
  <2> QED  BY <2>2, <2>3 DEF ExhaustedIsSpent, Exhausted, Whole, Spent, IsClaim
<1>11. OneEnd'
  <2>1. \A x : Holds(journal', x) <=> Holds(journal, x) \/ x = op.entry
    BY <1>1, <1>4, CountTypes, HoldsAppend
  <2>2. ~(Holds(journal', Exhausted) /\ Holds(journal', Verified))
    BY <1>1, <2>1, EntriesDiffer DEF Budget, OneEnd, Underway
  <2>3. \A x : (Holds(mem, x))' = Holds(mem, x)
    BY <1>3 DEF Holds
  <2> QED
    BY <1>1, <1>2, <1>3, <2>2, <2>3 DEF Budget, OneEnd, Underway, Exhausted, Verified, Whole, Holds
<1> QED  BY <1>8, <1>9, <1>10, <1>11 DEF Budget

(* The line is synced, and the history of the process grows by it.          *)
LEMMA BudgetInstalls ==
    ASSUME IInv, Budget, SyncLine, mem' = Append(mem, op.entry), synced' = Len(journal),
           op'.at \in {"anchor", "failed"}, op'.entry = op.entry, UNCHANGED <<task, reads>>
    PROVE  Budget'
<1>1. /\ op.entry \in Entries /\ op.at = "sync" /\ proc = "up" /\ proc' = "up"
      /\ journal = Append(mem, op.entry) /\ journal' = journal
  BY OpType DEF SyncLine, IInv, Follows, Ops
<1>2. TypeOK
  BY DEF IInv
<1>3. Kept' = journal /\ mem' = journal
  <2>1. Kept' = SubSeq(journal, 1, Len(journal))
    BY <1>1 DEF Kept
  <2>2. Len(journal) \in 0..Len(journal)
    BY <1>2, CountTypes
  <2> QED  BY <1>1, <1>2, <2>1, <2>2, CountTypes, PartsStay
<1>4. /\ Spent(Kept)' = Spent(journal) /\ Spent(mem)' = Spent(journal)
      /\ Spent(journal)' = Spent(journal)
  BY <1>1, <1>3 DEF Spent
<1>5. Spent(journal) = IF IsClaim(op.entry) THEN Spent(mem) + 1 ELSE Spent(mem)
  BY <1>1, <1>2, CountTypes, SpentAppend
<1>6. ReadsAreClaimed'
  BY <1>1, <1>2, <1>4, <1>5, CountTypes DEF Budget, ReadsAreClaimed
<1>7. ClaimsAreLimited'
  BY <1>4 DEF Budget, ClaimsAreLimited
<1>8. \A x : Holds(mem', x) <=> Holds(mem, x) \/ x = op.entry
  BY <1>1, <1>2, CountTypes, HoldsAppend
<1>9. ExhaustedIsSpent'
  <2>1. Holds(mem', Exhausted) => Spent(mem) >= Limit
    BY <1>1, <1>8 DEF Budget, ExhaustedIsSpent, Underway
  <2>2. Holds(mem', Exhausted) => Spent(journal) >= Limit
    BY <1>2, <1>5, <2>1, CountTypes
  <2>3. \A k \in DOMAIN journal' : journal'[k] = Exhausted => Spent(SubSeq(journal', 1, k)) >= Limit
    BY <1>1 DEF Budget, ExhaustedIsSpent
  <2>4. Holds(mem, Exhausted)' => Spent(mem)' >= Limit
    BY <1>4, <2>2 DEF Holds, Exhausted, Whole
  <2>5. ~Underway(Exhausted)'
    BY DEF Underway
  <2> QED
    BY <2>3, <2>4, <2>5 DEF ExhaustedIsSpent, Exhausted, Whole, Spent, IsClaim
<1>10. OneEnd'
  <2>1. Holds(mem', Verified) => Holds(mem, Verified) \/ op.entry = Verified
    BY <1>8
  <2>2. Holds(mem', Exhausted) => Holds(mem, Exhausted) \/ op.entry = Exhausted
    BY <1>8
  <2> QED
    BY <1>1, <2>1, <2>2 DEF Budget, OneEnd, Underway, Exhausted, Verified, Whole, Holds
<1> QED  BY <1>6, <1>7, <1>9, <1>10 DEF Budget

(* What the process does with a call keeps the budget.                      *)
LEMMA ServeBudget ==
    ASSUME IInv, Budget, Serve, UNCHANGED <<task, outside>>
    PROVE  Budget'
<1> USE DEF diskVars, memVars, outside
<1>0. /\ TypeOK /\ TaskRuns /\ op \in Ops
      /\ \A where \in Places : [op EXCEPT !.at = where].at = where
                              /\ [op EXCEPT !.at = where].entry = op.entry
  BY OpType DEF IInv, Ops
<1>1. Fails => op'.at = "failed" /\ op'.entry = op.entry
  BY <1>0 DEF Fails, Places
<1>2. CASE Integrity
  <2>1. op.at = "check" /\ proc = "up" /\ UNCHANGED <<journal, synced, mem, proc>>
    BY <1>2 DEF Integrity
  <2>2. NextPart \in {"ok", "write"} /\ (IsClaim(op.entry) => NextPart = "write")
    BY EntriesDiffer DEF NextPart, Committed, IsClaim
  <2>3. op'.at \in {NextPart, "failed"} /\ op'.entry = op.entry
    <3>1. op' = [op EXCEPT !.at = NextPart] \/ Fails
      BY <1>2 DEF Integrity, EnsureWitness
    <3>2. NextPart \in Places
      BY <2>2 DEF Places
    <3>3. [op EXCEPT !.at = NextPart].at = NextPart /\ [op EXCEPT !.at = NextPart].entry = op.entry
      BY <1>0, <3>2
    <3>4. CASE op' = [op EXCEPT !.at = NextPart]
      BY <3>3, <3>4
    <3> QED  BY <1>1, <3>1, <3>4
  <2> QED  BY <1>0, <2>1, <2>2, <2>3, BudgetStays
<1>3. CASE WriteLine
  <2>1. CASE journal' = Append(journal, op.entry) /\ op' = [op EXCEPT !.at = "sync"]
    BY <1>3, <2>1, BudgetWrites
  <2>2. CASE Fails /\ UNCHANGED journal
    <3>1. proc = "up" /\ UNCHANGED <<synced, mem, proc>>
      BY <1>3 DEF WriteLine
    <3> QED  BY <1>0, <1>1, <2>2, <3>1, BudgetStays
  <2> QED  BY <1>3, <2>1, <2>2 DEF WriteLine
<1>4. CASE SyncLine
  <2>1. /\ proc = "up" /\ UNCHANGED <<journal, proc>> /\ synced' \in {synced, Len(journal)}
        /\ op'.at \in {"anchor", "failed"} /\ op'.entry = op.entry
    <3>1. [op EXCEPT !.at = "anchor"].at = "anchor" /\ [op EXCEPT !.at = "anchor"].entry = op.entry
      BY <1>0 DEF Places
    <3>2. op' = [op EXCEPT !.at = "anchor"] \/ Fails
      BY <1>4 DEF SyncLine
    <3>3. op'.at \in {"anchor", "failed"} /\ op'.entry = op.entry
      BY <1>1, <3>1, <3>2
    <3>4. proc = "up" /\ UNCHANGED <<journal, proc>> /\ synced' \in {synced, Len(journal)}
      BY <1>4 DEF SyncLine
    <3> QED  BY <3>3, <3>4
  <2>2. CASE mem' = Append(mem, op.entry) /\ synced' = Len(journal)
    BY <1>4, <2>1, <2>2, BudgetInstalls
  <2>3. CASE mem' = mem /\ Fails
    BY <1>0, <1>1, <2>1, <2>3, BudgetStays
  <2> QED  BY <1>4, <2>2, <2>3 DEF SyncLine
<1>5. CASE PersistAnchor
  <2>1. op.at = "anchor" /\ proc # "down" /\ UNCHANGED <<journal, synced, mem>>
    BY <1>5 DEF PersistAnchor
  <2>2. \/ op'.at = "witness" /\ op'.entry = op.entry
        \/ op' = Idle /\ proc # "up"
        \/ op'.at = "failed" /\ op'.entry = op.entry
    <3>1. [op EXCEPT !.at = "witness"].at = "witness" /\ [op EXCEPT !.at = "witness"].entry = op.entry
      BY <1>0 DEF Places
    <3>2. op' = [op EXCEPT !.at = "witness"] \/ (op' = Idle /\ proc # "up") \/ Fails
      BY <1>5 DEF PersistAnchor
    <3> QED  BY <1>1, <3>1, <3>2
  <2>3. proc # "up" => task.at = "none"
    BY <1>0 DEF TaskRuns
  <2>4. Idle.entry = NoEntry /\ Idle.at = "idle"
    BY DEF Idle
  <2> QED  BY <1>0, <2>1, <2>2, <2>3, <2>4, BudgetStays
<1>6. CASE TellWitness
  <2>1. op.at = "witness" /\ proc # "down" /\ UNCHANGED <<journal, synced, mem, proc>>
    BY <1>6 DEF TellWitness
  <2>2. op'.at \in {"ok", "anchor", "failed"} /\ op'.entry = op.entry
    <3>1. \A where \in {"ok", "anchor"} : [op EXCEPT !.at = where].at = where
                                         /\ [op EXCEPT !.at = where].entry = op.entry
      BY <1>0 DEF Places
    <3>2. (\E where \in {"ok", "anchor"} : op' = [op EXCEPT !.at = where]) \/ Fails
      BY <1>6 DEF TellWitness, EnsureWitness
    <3>3. ASSUME NEW where \in {"ok", "anchor"}, op' = [op EXCEPT !.at = where]
          PROVE  op'.at = where /\ op'.entry = op.entry
      <4>1. [op EXCEPT !.at = where].at = where /\ [op EXCEPT !.at = where].entry = op.entry
        BY <3>1
      <4> QED  BY <3>3, <4>1, Zenon
    <3> QED  BY <1>1, <3>2, <3>3
  <2> QED  BY <1>0, <2>1, <2>2, BudgetStays
<1> QED  BY <1>2, <1>3, <1>4, <1>5, <1>6 DEF Serve

(* The process ends, with what the failure leaves, or starts from that.     *)
LEMMA BudgetRestarts ==
    ASSUME TypeOK, Budget, NEW k \in synced..Len(journal), journal' = SubSeq(journal, 1, k),
           synced' \in synced..k, proc' # "down" => mem' = journal',
           op'.entry = NoEntry, task'.at = "none", reads' = reads
    PROVE  Budget'
<1>1. /\ journal \in Seq(Entries) /\ Len(journal) \in Nat /\ synced \in 0..Len(journal)
      /\ k \in 0..Len(journal) /\ synced <= k /\ synced' \in 0..k /\ synced <= synced'
  BY CountTypes
<1>2. /\ journal' \in Seq(Entries) /\ Len(journal') = k /\ DOMAIN journal' = 1..k
      /\ DOMAIN journal = 1..Len(journal)
      /\ \A i \in 1..k : journal'[i] = journal[i]
  BY <1>1
<1>3. \A i \in 0..k : SubSeq(journal', 1, i) = SubSeq(journal, 1, i)
  BY <1>1, PartsStay
<1>4. Spent(journal') <= Spent(journal) /\ Spent(journal') \in Nat
  BY <1>1, SpentPrefix, SpentType
<1>5. /\ Spent(Kept) <= Spent(SubSeq(journal', 1, synced'))
      /\ SubSeq(journal', 1, synced') \in Seq(Entries)
  <2>1. SubSeq(journal', 1, synced') = SubSeq(journal, 1, synced')
    BY <1>1, <1>3
  <2>2. synced' \in 0..Len(journal)
    BY <1>1
  <2>3. Spent(SubSeq(journal, 1, synced)) <= Spent(SubSeq(journal, 1, synced'))
    BY <1>1, <2>2, SpentGrows
  <2>4. SubSeq(journal, 1, synced') \in Seq(Entries)
    BY <1>1, <2>2, SpentPrefix
  <2> QED  BY <2>1, <2>3, <2>4 DEF Kept
<1>6. /\ Spent(SubSeq(journal', 1, synced')) \in Nat
      /\ Spent(SubSeq(journal', 1, synced')) <= Spent(journal')
  BY <1>1, <1>2, <1>5, SpentPrefix, SpentType
<1>7. /\ Spent(Kept)' = Spent(SubSeq(journal', 1, synced')) /\ Spent(journal)' = Spent(journal')
      /\ proc' # "down" => Spent(mem)' = Spent(journal')
  BY DEF Spent, Kept
<1>8. ReadsAreClaimed'
  <2>1. reads <= Spent(Kept)
    BY DEF Budget, ReadsAreClaimed
  <2>2. reads' <= Spent(Kept)' /\ (proc' # "down" => reads' <= Spent(mem)')
    BY <1>4, <1>5, <1>6, <1>7, <2>1, CountTypes
  <2> QED  BY <2>2, EntriesDiffer DEF ReadsAreClaimed, IsClaim
<1>9. ClaimsAreLimited'
  <2>1. Spent(journal)' <= Limit
    BY <1>4, <1>7, CountTypes DEF Budget, ClaimsAreLimited
  <2> QED  BY <2>1, EntriesDiffer DEF ClaimsAreLimited, IsClaim
<1>10. ASSUME NEW i \in 1..k, journal'[i] = Exhausted PROVE Spent(SubSeq(journal', 1, i)) >= Limit
  <2>1. i \in 0..k /\ i \in DOMAIN journal /\ journal[i] = Exhausted
    BY <1>1, <1>2, <1>10
  <2>2. Spent(SubSeq(journal, 1, i)) >= Limit
    BY <2>1 DEF Budget, ExhaustedIsSpent
  <2> QED  BY <1>3, <2>1, <2>2
<1>11. ExhaustedIsSpent'
  <2>1. ASSUME Holds(journal', Exhausted) PROVE Spent(journal') >= Limit
    <3>1. PICK i \in 1..k : journal'[i] = Exhausted
      BY <1>2, <2>1 DEF Holds
    <3>2. i \in 0..Len(journal')
      BY <1>1, <1>2
    <3>3. SubSeq(journal', 1, i) \in Seq(Entries) /\ Spent(SubSeq(journal', 1, i)) <= Spent(journal')
      BY <1>2, <3>2, SpentPrefix
    <3>4. Spent(SubSeq(journal', 1, i)) \in Nat
      BY <3>3, SpentType
    <3>5. Spent(SubSeq(journal', 1, i)) >= Limit
      BY <1>10, <3>1
    <3> QED  BY <1>4, <3>3, <3>4, <3>5, CountTypes
  <2>2. proc' # "down" /\ Holds(mem', Exhausted) => Spent(mem)' >= Limit
    BY <1>7, <2>1
  <2>3. ~Underway(Exhausted)'
    BY EntriesDiffer DEF Underway, Exhausted, Whole
  <2> QED  BY <1>2, <1>10, <2>2, <2>3 DEF ExhaustedIsSpent, Exhausted, Whole, Spent, IsClaim, Holds
<1>12. OneEnd'
  <2>1. \A x : Holds(journal', x) => Holds(journal, x)
    BY <1>1, <1>2 DEF Holds
  <2> QED  BY <2>1, EntriesDiffer DEF Budget, OneEnd, Underway, Exhausted, Verified, Whole, Holds
<1> QED  BY <1>8, <1>9, <1>11, <1>12 DEF Budget

(* So does what happens to the process.                                     *)
LEMMA ProcessBudget ==
    ASSUME IInv, Budget,
           \/ (Recover \/ OpenFails) /\ UNCHANGED task
           \/ (Kill \/ PowerLoss \/ Stop) /\ task' = NoTask,
           UNCHANGED outside
    PROVE  Budget'
<1> USE DEF outside, diskVars
<1>1. TypeOK /\ task'.at = "none"
  BY DEF IInv, TaskRuns, Recover, OpenFails, NoTask
<1>2. op'.entry = NoEntry
  <2>1. Idle.entry = NoEntry /\ [Idle EXCEPT !.at = "witness"].entry = NoEntry
    BY DEF Idle
  <2>2. op' \in {Idle, [Idle EXCEPT !.at = "witness"]}
    BY DEF Recover, OpenFails, Kill, PowerLoss, Stop, Down
  <2>3. CASE op' = Idle
    BY <2>1, <2>3, Zenon
  <2>4. CASE op' = [Idle EXCEPT !.at = "witness"]
    BY <2>1, <2>4, Zenon
  <2> QED  BY <2>2, <2>3, <2>4
<1>3. /\ journal \in Seq(Entries) /\ Len(journal) \in synced..Len(journal)
      /\ Len(journal) \in 0..Len(journal) /\ synced \in synced..Len(journal)
      /\ SubSeq(journal, 1, Len(journal)) = journal
  BY <1>1, CountTypes
<1>4. CASE PowerLoss
  <2>1. PICK k \in synced..Len(journal) : journal' = SubSeq(journal, 1, k)
    BY <1>4 DEF PowerLoss
  <2>2. synced' \in synced..k /\ proc' = "down"
    BY <1>1, <1>4, <2>1, CountTypes DEF PowerLoss, Down
  <2> QED  BY <1>1, <1>2, <2>1, <2>2, BudgetRestarts
<1>5. CASE Recover \/ OpenFails \/ Kill \/ Stop
  <2>1. journal' = journal /\ synced' \in {synced, Len(journal)}
    BY <1>5 DEF Recover, OpenFails, Kill, Stop
  <2>2. proc' # "down" => mem' = journal'
    BY <1>5 DEF Recover, OpenFails, Kill, Stop, Down
  <2> QED  BY <1>1, <1>2, <1>3, <2>1, <2>2, BudgetRestarts
<1> QED  BY <1>4, <1>5

(* What the broker does between two calls to the ledger: it asks for an     *)
(* entry, or for none.                                                      *)
LEMMA BudgetAsks ==
    ASSUME TypeOK, Budget, UNCHANGED <<journal, synced, mem, proc>>,
           op' = op \/ op' = Idle \/ \E e : Ask(e),
           \/ reads' = reads
           \/ reads' = reads + 1 /\ op.at = "ok" /\ task.at = "claim" /\ op'.at = "check",
           op' # op /\ IsClaim(op'.entry) => Spent(mem) < Limit,
           op' # op /\ op'.entry = Exhausted => Spent(mem) >= Limit /\ ~Holds(mem, Verified),
           op' # op /\ op'.entry = Verified => ~Holds(mem, Exhausted),
           task'.at = "claim" => IsClaim(op'.entry),
           task'.at \notin {"none", "history", "last"} =>
                ~Holds(mem, Verified) /\ op'.entry # Verified,
           task'.at \in {"claim", "observation"} \/ (task'.seen # {} /\ task'.at \notin {"none", "last"}) =>
                ~Holds(mem, Exhausted) /\ op'.entry # Exhausted
    PROVE  Budget'
<1>1. Spent(mem)' = Spent(mem) /\ Spent(Kept)' = Spent(Kept) /\ Spent(journal)' = Spent(journal)
  BY DEF Spent, Kept
<1>2. op' # op => op'.at \in {"idle", "check"}
  <2>1. ASSUME NEW e, Ask(e) PROVE op'.at = "check"
    BY <2>1 DEF Ask
  <2>2. op' = Idle => op'.at = "idle"
    BY DEF Idle
  <2> QED  BY <2>1, <2>2
<1>3. ReadsAreClaimed'
  <2>1. CASE reads' = reads
    BY <1>1, <1>2, <2>1 DEF Budget, ReadsAreClaimed
  <2>2. CASE reads' = reads + 1 /\ op.at = "ok" /\ task.at = "claim" /\ op'.at = "check"
    <3>1. reads < Spent(Kept) /\ reads < Spent(mem)
      BY <2>2 DEF Budget, ReadsAreClaimed
    <3>2. reads' <= Spent(Kept) /\ reads' <= Spent(mem)
      BY <2>2, <3>1, CountTypes
    <3> QED  BY <1>1, <2>2, <3>2 DEF ReadsAreClaimed
  <2> QED  BY <2>1, <2>2
<1>4. ClaimsAreLimited'
  BY <1>1, <1>2 DEF Budget, ClaimsAreLimited
<1>5. ExhaustedIsSpent'
  <2>1. \A k \in DOMAIN journal' : journal'[k] = Exhausted => Spent(SubSeq(journal', 1, k)) >= Limit
    BY DEF Budget, ExhaustedIsSpent
  <2>2. proc' # "down" /\ Holds(mem', Exhausted) => Spent(mem)' >= Limit
    BY <1>1 DEF Budget, ExhaustedIsSpent
  <2>3. Underway(Exhausted)' => Spent(mem)' >= Limit
    BY <1>1, <1>2 DEF Budget, ExhaustedIsSpent, Underway, Exhausted, Whole
  <2> QED  BY <2>1, <2>2, <2>3 DEF ExhaustedIsSpent, Exhausted, Whole, Spent, IsClaim, Holds
<1>6. OneEnd'
  BY <1>2 DEF Budget, OneEnd, Underway, Exhausted, Verified, Whole, Holds
<1> QED  BY <1>3, <1>4, <1>5, <1>6 DEF Budget

(* A call that goes on recording what the budget is not about.              *)
LEMMA BudgetGoesOn ==
    ASSUME TypeOK, Budget, UNCHANGED storeVars, reads' = reads,
           task.at \notin {"none", "history", "last"} \/ ~Recorded("VERIFICATION"),
           task.at \notin {"none", "last"}, task'.seen = task.seen,
           task'.at \notin {"claim", "observation"},
           \/ op' = Idle
           \/ op' = op /\ task.at # "history"
           \/ \E e : Ask(e) /\ ~IsClaim(e) /\ e \notin {Exhausted, Verified}
    PROVE  Budget'
<1>1. UNCHANGED <<journal, synced, mem, proc>>
  BY DEF storeVars, diskVars, memVars
<1>2. ~Holds(mem, Verified)
  BY DEF Budget, OneEnd, Recorded, Verified
<1>3. \/ op' = op /\ task.at # "history"
      \/ op'.entry \notin {Exhausted, Verified} /\ ~IsClaim(op'.entry)
  <2>1. ASSUME NEW e, Ask(e) PROVE op'.entry = e
    BY <2>1 DEF Ask
  <2>2. op' = Idle => op'.entry = NoEntry
    BY DEF Idle
  <2> QED  BY <2>1, <2>2, EntriesDiffer
<1>4. op'.entry # Verified
  BY <1>3 DEF Budget, OneEnd
<1>5. task'.seen # {} => ~Holds(mem, Exhausted) /\ op'.entry # Exhausted
  BY <1>3 DEF Budget, OneEnd
<1>6. op' = op \/ op' = Idle \/ \E e : Ask(e)
  OBVIOUS
<1> QED  BY <1>1, <1>2, <1>3, <1>4, <1>5, <1>6, BudgetAsks

(* A call that is over leaves no claim behind.                              *)
LEMMA BudgetReturns ==
    ASSUME TypeOK, Budget, UNCHANGED storeVars, reads' = reads, Returns
    PROVE  Budget'
<1>1. UNCHANGED <<journal, synced, mem, proc>>
  BY DEF storeVars, diskVars, memVars
<1>2. op' = Idle /\ op'.entry = NoEntry /\ task'.at = "none"
  BY DEF Returns, Idle, NoTask
<1> QED  BY <1>1, <1>2, EntriesDiffer, BudgetAsks

(* A call that goes on remembers what it has read.                          *)
LEMMA GoesWithSeen ==
    ASSUME TypeOK, NEW where \in Stages
    PROVE  /\ Goes(where) => task'.at = where /\ task'.seen = task.seen
           /\ \A e : Commits(e, where) =>
                Ask(e) /\ op'.entry = e /\ op'.at = "check" /\ task'.at = where /\ task'.seen = task.seen
<1>1. Goes(where) => task'.at = where /\ task'.seen = task.seen
  BY TaskType DEF Goes, Tasks
<1>2. ASSUME NEW e, Ask(e) PROVE op'.entry = e /\ op'.at = "check"
  BY <1>2 DEF Ask
<1> QED  BY <1>1, <1>2 DEF Commits

(* Every step of the broker keeps the budget.                               *)
LEMMA BrokerBudget ==
    ASSUME IInv, Budget, Broker
    PROVE  Budget'
<1> USE DEF outside
<1>0. /\ TypeOK
      /\ \A kind \in Kinds \ {"VERIFICATION", "OBSERVATION_BUDGET_EXHAUSTED"} :
            /\ Whole(kind) \notin {Exhausted, Verified}
            /\ kind # "OBSERVATION_ATTEMPT" => ~IsClaim(Whole(kind))
            /\ \A m : /\ Of(kind, m) \notin {Exhausted, Verified}
                      /\ kind # "OBSERVATION_ATTEMPT" => ~IsClaim(Of(kind, m))
  BY DEF IInv, Whole, Of, Exhausted, Verified, IsClaim
<1>1. Claims = Spent(mem) /\ Spent(mem) \in Nat /\ Limit \in Nat
  BY <1>0, CountTypes DEF Claims, Spent, IsClaim
<1>2. CASE ReadHistory \/ IntentRecorded
  <2>1. /\ task.at \in {"history", "intent"} /\ UNCHANGED storeVars /\ reads' = reads
        /\ Returns \/ ~Recorded("VERIFICATION") \/ task.at = "intent"
    BY <1>2 DEF ReadHistory, IntentRecorded, Answered, At
  <2>2. CASE Returns
    BY <1>0, <2>1, <2>2, BudgetReturns
  <2>3. CASE Proceeds /\ ~Returns
    <3>1. op' = Idle /\ task'.at \in {"dispatch", "observe"} /\ task'.seen = task.seen
      BY <1>0, <2>3, GoesWithSeen DEF Proceeds, Onward, Stages
    <3> QED  BY <1>0, <2>1, <2>3, <3>1, BudgetGoesOn
  <2>4. CASE Commits(Whole("REFERENCE"), "register") /\ ~Returns
    <3>1. task'.at = "register" /\ task'.seen = task.seen /\ Ask(Whole("REFERENCE"))
      BY <1>0, <2>4, GoesWithSeen DEF Stages
    <3>2. ~IsClaim(Whole("REFERENCE")) /\ Whole("REFERENCE") \notin {Exhausted, Verified}
      BY <1>0 DEF Kinds
    <3> QED  BY <1>0, <2>1, <2>4, <3>1, <3>2, BudgetGoesOn
  <2> QED  BY <1>2, <2>2, <2>3, <2>4 DEF ReadHistory, IntentRecorded
<1>3. CASE RecordIntent
  <2>1. task'.at = "intent" /\ task'.seen = task.seen /\ Ask(Whole("INTENT"))
    BY <1>0, <1>3, GoesWithSeen DEF RecordIntent, Stages
  <2>2. ~IsClaim(Whole("INTENT")) /\ Whole("INTENT") \notin {Exhausted, Verified}
    BY <1>0 DEF Kinds
  <2> QED  BY <1>0, <1>3, <2>1, <2>2, BudgetGoesOn DEF RecordIntent, Answered, At
<1>4. CASE RecordAttempt
  <2>1. CASE Returns
    BY <1>0, <1>4, <2>1, BudgetReturns DEF RecordAttempt
  <2>2. CASE ~Returns
    <3> DEFINE m == First(Untouched)
    <3>1. m \in Members
      BY <1>4, FirstIsIn DEF RecordAttempt, Untouched
    <3>2. Ask(Of("ATTEMPT", m)) /\ task' = [task EXCEPT !.at = "attempt", !.member = m]
      BY <1>4, <2>2 DEF RecordAttempt
    <3>3. ~IsClaim(Of("ATTEMPT", m)) /\ Of("ATTEMPT", m) \notin {Exhausted, Verified}
      BY <1>0 DEF Kinds
    <3> HIDE DEF m
    <3>4. task'.at = "attempt" /\ task'.seen = task.seen
      BY <1>0, <3>2, TaskType DEF Tasks
    <3> QED  BY <1>0, <1>4, <3>2, <3>3, <3>4, BudgetGoesOn DEF RecordAttempt, At
  <2> QED  BY <2>1, <2>2
<1>5. CASE ConfirmOwner \/ RecordAcknowledgment
  <2>1. /\ task.at \in {"attempt", "wire", "current"} /\ UNCHANGED storeVars /\ reads' = reads
        /\ \/ Commits(Of("CURRENT_AUTHORITY", task.member), "current")
           \/ Commits(Of("ACKNOWLEDGMENT", task.member), "acknowledge")
    BY <1>5 DEF ConfirmOwner, RecordAcknowledgment, Answered, At
  <2>2. /\ task'.at \in {"current", "acknowledge"} /\ task'.seen = task.seen
        /\ \E e \in {Of("CURRENT_AUTHORITY", task.member), Of("ACKNOWLEDGMENT", task.member)} : Ask(e)
    BY <1>0, <2>1, GoesWithSeen DEF Stages
  <2>3. \A e \in {Of("CURRENT_AUTHORITY", task.member), Of("ACKNOWLEDGMENT", task.member)} :
            ~IsClaim(e) /\ e \notin {Exhausted, Verified}
    BY <1>0 DEF Kinds
  <2> QED  BY <1>0, <2>1, <2>2, <2>3, BudgetGoesOn
<1>6. CASE SendChange \/ AcknowledgmentRecorded
  <2>1. /\ task.at \in {"current", "acknowledge"} /\ UNCHANGED storeVars /\ reads' = reads
        /\ op' = Idle
    BY <1>6 DEF SendChange, AcknowledgmentRecorded, Answered, At
  <2>2. task'.at \in {"wire", "dispatch"} /\ task'.seen = task.seen
    <3>1. CASE SendChange
      BY <1>0, <3>1, GoesWithSeen DEF SendChange, Stages
    <3>2. CASE AcknowledgmentRecorded
      BY <1>0, <3>2, TaskType DEF AcknowledgmentRecorded, Tasks
    <3> QED  BY <1>6, <3>1, <3>2
  <2> QED  BY <1>0, <2>1, <2>2, BudgetGoesOn
<1>7. CASE EndDispatch
  <2>1. CASE Returns
    BY <1>0, <1>7, <2>1, BudgetReturns DEF EndDispatch
  <2>2. CASE Goes("observe") /\ op' = op
    <3>1. task'.at = "observe" /\ task'.seen = task.seen
      BY <1>0, <2>2, GoesWithSeen DEF Stages
    <3> QED  BY <1>0, <1>7, <2>2, <3>1, BudgetGoesOn DEF EndDispatch, At
  <2> QED  BY <1>7, <2>1, <2>2 DEF EndDispatch
<1>8. CASE ClaimReadback
  <2>1. CASE Returns
    BY <1>0, <1>8, <2>1, BudgetReturns DEF ClaimReadback
  <2>2. CASE ~Returns
    <3> DEFINE m == First(Unread)
    <3>1. m \in Members
      BY <1>8, FirstIsIn DEF ClaimReadback, Unread, Attempted
    <3>2. /\ Ask(Of("OBSERVATION_ATTEMPT", m)) /\ Spent(mem) < Limit
          /\ task' = [task EXCEPT !.at = "claim", !.member = m]
      BY <1>1, <1>8, <2>2 DEF ClaimReadback
    <3> HIDE DEF m
    <3>3. op'.entry = Of("OBSERVATION_ATTEMPT", m)
      BY <3>2 DEF Ask
    <3>4. IsClaim(op'.entry) /\ op'.entry \notin {Exhausted, Verified}
      BY <3>3, EntriesDiffer DEF IsClaim, Of
    <3>5. task'.at = "claim" /\ task'.seen = task.seen
      BY <1>0, <3>1, <3>2, TaskType DEF Tasks
    <3>6. task.at = "observe" /\ proc = "up" /\ UNCHANGED <<journal, synced, mem, proc, reads>>
      BY <1>8 DEF ClaimReadback, At, storeVars, diskVars, memVars
    <3>7. ~Holds(mem, Verified)
      BY <3>6 DEF Budget, OneEnd
    <3>8. ~Holds(mem, Exhausted)
      BY <1>1, <3>2, <3>6 DEF Budget, ExhaustedIsSpent
    <3> QED  BY <1>0, <3>2, <3>4, <3>5, <3>6, <3>7, <3>8, BudgetAsks
  <2> QED  BY <2>1, <2>2
<1>9. CASE ExhaustReadbacks
  <2>1. CASE Returns
    BY <1>0, <1>9, <2>1, BudgetReturns DEF ExhaustReadbacks
  <2>2. CASE Commits(Exhausted, "last")
    <3>1. op'.entry = Exhausted /\ task'.at = "last" /\ Ask(Exhausted)
      BY <1>0, <2>2, GoesWithSeen DEF Stages
    <3>2. task.at = "observe" /\ UNCHANGED <<journal, synced, mem, proc, reads>> /\ Spent(mem) >= Limit
      BY <1>1, <1>9 DEF ExhaustReadbacks, At, storeVars, diskVars, memVars
    <3>3. ~Holds(mem, Verified)
      BY <3>2 DEF Budget, OneEnd
    <3> QED  BY <1>0, <3>1, <3>2, <3>3, EntriesDiffer, BudgetAsks
  <2> QED  BY <1>9, <2>1, <2>2 DEF ExhaustReadbacks, Exhausted
<1>10. CASE Readback
  <2>1. PICK good \in BOOLEAN :
            Commits([Of("OBSERVATION", task.member) EXCEPT !.good = good], "observation")
    BY <1>10 DEF Readback
  <2>2. task'.at = "observation" /\ op'.at = "check" /\ op'.entry.kind = "OBSERVATION"
        /\ \E e : Ask(e)
    BY <1>0, <2>1, GoesWithSeen DEF Stages, Of
  <2>3. ~IsClaim(op'.entry) /\ op'.entry \notin {Exhausted, Verified}
    BY <2>2 DEF IsClaim, Exhausted, Verified, Whole
  <2>4. /\ task.at = "claim" /\ op.at = "ok" /\ reads' = reads + 1
        /\ UNCHANGED <<journal, synced, mem, proc>>
    BY <1>10 DEF Readback, Answered, At, storeVars, diskVars, memVars
  <2>5. ~Holds(mem, Verified) /\ ~Holds(mem, Exhausted)
    BY <2>4 DEF Budget, OneEnd
  <2> QED  BY <1>0, <2>2, <2>3, <2>4, <2>5, BudgetAsks
<1>11. CASE Observed
  <2>1. task'.at = "observe" /\ op' = Idle /\ op'.entry = NoEntry
    BY <1>0, <1>11, TaskType DEF Observed, Tasks, Idle
  <2>2. task.at = "observation" /\ UNCHANGED <<journal, synced, mem, proc, reads>>
    BY <1>11 DEF Observed, Answered, At, storeVars, diskVars, memVars
  <2>3. ~Holds(mem, Verified) /\ ~Holds(mem, Exhausted)
    BY <2>2 DEF Budget, OneEnd
  <2> QED  BY <1>0, <2>1, <2>2, <2>3, EntriesDiffer, BudgetAsks
<1>12. CASE Settle
  <2>1. CASE Returns
    BY <1>0, <1>12, <2>1, BudgetReturns DEF Settle
  <2>2. CASE AllMatched /\ Commits(Verified, "last")
    <3>1. op'.entry = Verified /\ task'.at = "last" /\ Ask(Verified)
      BY <1>0, <2>2, GoesWithSeen DEF Stages
    <3>2. task.at = "observe" /\ UNCHANGED <<journal, synced, mem, proc, reads>>
      BY <1>12 DEF Settle, At, storeVars, diskVars, memVars
    <3>3. task.seen # {}
      BY <2>2, DispatchAssumption DEF AllMatched, Members
    <3>4. ~Holds(mem, Exhausted)
      BY <3>2, <3>3 DEF Budget, OneEnd
    <3> QED  BY <1>0, <3>1, <3>2, <3>4, EntriesDiffer, BudgetAsks
  <2> QED  BY <1>12, <2>1, <2>2 DEF Settle, Verified
<1>13. CASE Finish
  BY <1>0, <1>13, BudgetReturns DEF Finish
<1> QED  BY <1>2, <1>3, <1>4, <1>5, <1>6, <1>7, <1>8, <1>9, <1>10, <1>11, <1>12, <1>13
         DEF Broker

(* So does every step of the system.                                        *)
LEMMA BudgetStep ==
    ASSUME IInv, Budget, [Next]_vars
    PROVE  Budget'
<1>0. TypeOK
  BY DEF IInv
<1>1. ASSUME NEW reconcile \in BOOLEAN, Call(reconcile) PROVE Budget'
  <2>1. /\ task'.at = "history" /\ task'.seen = {} /\ Ask(NoEntry) /\ op'.entry = NoEntry
        /\ UNCHANGED <<journal, synced, mem, proc, reads>>
    BY <1>1 DEF Call, NoTask, Ask, storeVars, diskVars, memVars, outside
  <2> QED  BY <1>0, <2>1, EntriesDiffer, BudgetAsks
<1>2. ASSUME UNCHANGED <<ledgerVars, task, reads>> PROVE Budget'
  <2>1. UNCHANGED <<journal, synced, mem, proc, op>>
    BY <1>2 DEF ledgerVars, diskVars, memVars
  <2> QED  BY <1>0, <1>2, <2>1, BudgetAsks DEF Budget, ReadsAreClaimed, OneEnd
<1>3. ASSUME \/ (Recover \/ OpenFails) /\ UNCHANGED <<task, outside>>
             \/ (Kill \/ PowerLoss \/ Stop) /\ task' = NoTask /\ UNCHANGED outside
      PROVE  Budget'
  BY <1>3, ProcessBudget
<1>4. ASSUME UNCHANGED vars PROVE Budget'
  BY <1>2, <1>4 DEF vars, outside
<1>5. ASSUME NEW m \in Members, ProviderHandles(m) PROVE Budget'
  BY <1>2, <1>5 DEF ProviderHandles
<1> QED  BY <1>1, <1>3, <1>4, <1>5, ServeBudget, BrokerBudget DEF Next

(* The budget holds in every state that is reached.                         *)
LEMMA BudgetHolds == Spec => []Budget
<1>1. Init => Budget
  <2> SUFFICES ASSUME Init PROVE Budget
    OBVIOUS
  <2>1. /\ journal = <<>> /\ mem = <<>> /\ synced = 0 /\ op = Idle /\ task = NoTask /\ reads = 0
        /\ proc = "down"
    BY DEF Init, LedgerInit
  <2>2. <<>> \in Seq(Entries) /\ DOMAIN <<>> = {} /\ Kept = <<>>
    BY <2>1 DEF Kept
  <2>3. Spent(<<>>) = 0
    BY <2>2, FS_EmptySet DEF Spent
  <2>4. op.at = "idle" /\ op.entry = NoEntry /\ task.at = "none"
    BY <2>1 DEF Idle, NoTask
  <2>5. \A x : ~Holds(<<>>, x)
    BY <2>2 DEF Holds
  <2> QED  BY <2>1, <2>2, <2>3, <2>4, <2>5, EntriesDiffer, DispatchAssumption
           DEF Budget, ReadsAreClaimed, ClaimsAreLimited, ExhaustedIsSpent, OneEnd, Underway
<1>2. IInv /\ Budget /\ [Next]_vars => Budget'
  BY BudgetStep
<1> QED  BY <1>1, <1>2, InvariantHolds, PTL DEF Spec

-----------------------------------------------------------------------------
(* THE PROMISE *)

(* No change is made that was not sent.                                     *)
MadeWasSent == \A m \in applied : sent[m] > 0

LEMMA MadeStep == TypeOK /\ MadeWasSent /\ [Next]_vars => MadeWasSent'
<1> SUFFICES ASSUME TypeOK, MadeWasSent, [Next]_vars PROVE MadeWasSent'
  OBVIOUS
<1>1. CASE SendChange
  BY <1>1 DEF SendChange, TypeOK, MadeWasSent
<1>2. ASSUME NEW m \in Members, ProviderHandles(m) PROVE MadeWasSent'
  BY <1>2 DEF ProviderHandles, MadeWasSent
<1>3. CASE UNCHANGED <<sent, applied>>
  BY <1>3 DEF MadeWasSent
<1> QED
  BY <1>1, <1>2, <1>3
     DEF Next, vars, outside, Broker, Call, ReadHistory, RecordIntent, IntentRecorded,
         RecordAttempt, ConfirmOwner, RecordAcknowledgment, AcknowledgmentRecorded, EndDispatch,
         ClaimReadback, ExhaustReadbacks, Readback, Observed, Settle, Finish

LEMMA MadeHolds == Spec => []MadeWasSent
<1>1. Init => MadeWasSent
  BY DEF Init, MadeWasSent
<1>2. IInv => TypeOK
  BY DEF IInv
<1> QED  BY <1>1, <1>2, MadeStep, InvariantHolds, PTL DEF Spec

(* Whatever the journal says of a member's change is true: it excludes only *)
(* one that was not sent, and confirms only one that was made.              *)
LEMMA JudgementsAreTrue ==
    ASSUME IInv', MadeWasSent', UNCHANGED <<sent, applied>>, NEW m \in Members
    PROVE  Promise(m)!Next
<1>1. Holds(journal, Whole("VERIFICATION"))' => m \in applied /\ sent[m] > 0
  BY DEF IInv, Truth, VerifiedIsTrue, MadeWasSent
<1>2. sent[m] \in {0, 1}
  BY DEF IInv, SentIsOnRecord
<1>3. ~Durable(Of("ATTEMPT", m))' => sent[m] = 0
  BY <1>2 DEF IInv, SentIsOnRecord, Attempt
<1>4. sent[m] > 0 => 1..sent[m] # {}
  BY <1>2
<1>5. sent[m] = 0 => 1..sent[m] = {}
  OBVIOUS
<1>6. /\ Holds(journal, Whole("VERIFICATION"))' \in BOOLEAN
      /\ (~Durable(Of("ATTEMPT", m)))' \in BOOLEAN
  BY DEF Holds, Durable
<1>7. Promise(m)!Judge
  BY <1>1, <1>3, <1>4, <1>5, <1>6 DEF Promise!Judge
<1> QED  BY <1>7 DEF Promise!Next

(* The ledger is left alone, and with it what it says of every member.      *)
LEMMA LedgerSaysTheSame ==
    ASSUME UNCHANGED <<journal, synced>>, NEW m \in Members
    PROVE  /\ Holds(journal, Whole("VERIFICATION"))' = Holds(journal, Whole("VERIFICATION"))
           /\ Durable(Of("ATTEMPT", m))' = Durable(Of("ATTEMPT", m))
  BY DEF Holds, Durable

(* The call that sends a change has its attempt on record for good, and no  *)
(* call has sent it before.                                                 *)
LEMMA SendingSends ==
    ASSUME IInv, MadeWasSent, SendChange, NEW m \in Members
    PROVE  Promise(m)!Next \/ UNCHANGED (Promise(m)!state)
<1>1. /\ task.member \in Members /\ sent[task.member] = 0
      /\ Durable(Of("ATTEMPT", task.member))
  BY DEF SendChange, Answered, At, IInv, Ready, Attempt
<1>2. task.member \notin applied
  BY <1>1 DEF MadeWasSent
<1>3. /\ UNCHANGED <<journal, synced, applied>>
      /\ sent' = [sent EXCEPT ![task.member] = @ + 1] /\ sent \in [Members -> Nat]
  BY DEF SendChange, storeVars, diskVars, IInv, TypeOK
<1>4. CASE m = task.member
  <2>1. sent'[m] = 1
    BY <1>1, <1>3, <1>4
  <2>2. 1..sent[m] = {} /\ 1..sent'[m] = {1}
    BY <1>1, <1>4, <2>1
  <2>3. ~Holds(journal, Whole("VERIFICATION"))
    BY <1>1, <1>2 DEF IInv, Truth, VerifiedIsTrue
  <2>4. Promise(m)!Send(1)
    BY <1>1, <1>2, <1>3, <1>4, <2>2, <2>3, LedgerSaysTheSame DEF Promise!Send
  <2> QED  BY <2>4 DEF Promise!Next
<1>5. CASE m # task.member
  <2>1. sent'[m] = sent[m]
    BY <1>1, <1>3, <1>5
  <2> QED  BY <1>3, <2>1, LedgerSaysTheSame DEF Promise!state
<1> QED  BY <1>4, <1>5

(* The provider that makes a change takes it off the way.                   *)
LEMMA MakingTakesEffect ==
    ASSUME IInv, NEW n \in Members, ProviderHandles(n), NEW m \in Members
    PROVE  Promise(m)!Next \/ UNCHANGED (Promise(m)!state)
<1>1. /\ UNCHANGED <<journal, synced, sent>>
      /\ applied' = applied \union {n} /\ n \notin applied
  BY DEF ProviderHandles, ledgerVars, diskVars
<1>2. sent[n] = 1
  BY DEF ProviderHandles, IInv, SentIsOnRecord
<1>3. CASE m = n
  <2>1. 1..sent[m] = {1}
    BY <1>2, <1>3
  <2>2. Promise(m)!TakeEffect(1)
    BY <1>1, <1>3, <2>1, LedgerSaysTheSame DEF Promise!TakeEffect
  <2> QED  BY <2>2 DEF Promise!Next
<1>4. CASE m # n
  <2>1. m \in applied' <=> m \in applied
    BY <1>1, <1>4
  <2> QED  BY <1>1, <2>1, LedgerSaysTheSame DEF Promise!state
<1> QED  BY <1>3, <1>4

LEMMA PromiseStep ==
    ASSUME IInv, IInv', MadeWasSent, MadeWasSent', [Next]_vars, NEW m \in Members
    PROVE  [Promise(m)!Next]_(Promise(m)!state)
<1>1. CASE SendChange
  BY <1>1, SendingSends
<1>2. ASSUME NEW n \in Members, ProviderHandles(n)
      PROVE  Promise(m)!Next \/ UNCHANGED (Promise(m)!state)
  BY <1>2, MakingTakesEffect
<1>3. CASE UNCHANGED <<sent, applied>>
  BY <1>3, JudgementsAreTrue
<1> QED
  BY <1>1, <1>2, <1>3
     DEF Next, vars, outside, Broker, Call, ReadHistory, RecordIntent, IntentRecorded,
         RecordAttempt, ConfirmOwner, RecordAcknowledgment, AcknowledgmentRecorded, EndDispatch,
         ClaimReadback, ExhaustReadbacks, Readback, Observed, Settle, Finish

LEMMA PromiseInit ==
    ASSUME Init, NEW m \in Members
    PROVE  Promise(m)!Init
<1>1. journal = <<>> /\ synced = 0 /\ sent[m] = 0 /\ applied = {}
  BY DEF Init, LedgerInit
<1>2. Holds(journal, Whole("VERIFICATION")) = FALSE /\ Durable(Of("ATTEMPT", m)) = FALSE
  BY <1>1 DEF Holds, Durable
<1> QED  BY <1>1, <1>2 DEF Promise!Init

-----------------------------------------------------------------------------
(* THE THEOREMS *)

(* Ledger, call and provider are always of their types, whatever calls,     *)
(* errors and failures come together.                                       *)
THEOREM TypeCorrect == Spec => []TypeOK
<1>1. IInv => TypeOK
  BY DEF IInv
<1> QED  BY <1>1, InvariantHolds, PTL

(* However often the process is killed, the machine fails, and callers come *)
(* back: the broker sends no member's change twice, and none before its     *)
(* attempt is where no failure can take it.                                 *)
THEOREM ChangesAreSentOnce == Spec => []ChangeSentOnce
<1>1. IInv => ChangeSentOnce
  <2> SUFFICES ASSUME IInv, NEW m \in Members
               PROVE  sent[m] <= 1 /\ (sent[m] = 1 => Durable(Of("ATTEMPT", m)))
    BY DEF ChangeSentOnce
  <2> QED  BY DEF IInv, SentIsOnRecord, Attempt
<1> QED  BY <1>1, InvariantHolds, PTL

(* A recorded verification means that every member's change was made: each  *)
(* was read back and found in the call that verified, and none is unmade.   *)
THEOREM VerificationsAreTrue == Spec => []VerifiedIsTrue
<1>1. IInv => VerifiedIsTrue
  BY DEF IInv, Truth
<1> QED  BY <1>1, InvariantHolds, PTL

(* However many kills, errors and power failures there are: as long as no   *)
(* power failure takes lines that an opening found unsynced, the journal    *)
(* begins with all that anchor and witness name and any caller was told.    *)
THEOREM AcknowledgmentsAreKept == Spec => []AcknowledgedIsKept
<1>1. Healthy \/ Stuck => AcknowledgedIsKept
  BY DEF Healthy, Stuck, Lasting, AcknowledgedIsKept
<1> QED  BY <1>1, KeptHolds, PTL

(* However many callers come, and however often the process is killed       *)
(* between a claim and its readback: an obligation gets no more readbacks   *)
(* than its limit, for each was claimed on a line that no failure takes;    *)
(* and none is verified whose readbacks are on record as used up.           *)
THEOREM ReadbacksStayBounded == Spec => []ReadbacksAreBounded
<1>1. IInv /\ Budget => ReadbacksAreBounded
  <2> SUFFICES ASSUME IInv, Budget PROVE ReadbacksAreBounded
    OBVIOUS
  <2>1. reads <= Limit
    BY CountTypes DEF IInv, Budget, ReadsAreClaimed, ClaimsAreLimited
  <2>2. ~(Holds(journal, Exhausted) /\ Holds(journal, Verified))
    BY DEF Budget, OneEnd
  <2> QED  BY <2>1, <2>2 DEF ReadbacksAreBounded, Exhausted, Verified
<1> QED  BY <1>1, BudgetHolds, InvariantHolds, PTL

(* Every behaviour of broker, ledger and provider is, for each member, one  *)
(* of OutsideEffect: no kill, power failure, error or later caller adds to  *)
(* what is promised of its change (dispatch-broker.ts:1-2).                 *)
THEOREM EachMemberKeepsPromise == ASSUME NEW m \in Members PROVE Spec => Promise(m)!Spec
<1>1. Init => Promise(m)!Init
  BY PromiseInit
<1>2. IInv /\ IInv' /\ MadeWasSent /\ MadeWasSent' /\ [Next]_vars
      => [Promise(m)!Next]_(Promise(m)!state)
  BY PromiseStep
<1> QED  BY <1>1, <1>2, InvariantHolds, MadeHolds, PTL DEF Spec, Promise!Spec

(* The same of all members at once: it is one step of the broker that moves *)
(* one of them and leaves the others, or judges them all.                   *)
THEOREM BrokerKeepsPromise == Spec => KeepsPromise
<1>1. Init => \A m \in Members : Promise(m)!Init
  BY PromiseInit
<1>2. IInv /\ IInv' /\ MadeWasSent /\ MadeWasSent' /\ [Next]_vars
      => \A m \in Members : [Promise(m)!Next]_(Promise(m)!state)
  BY PromiseStep
<1> QED  BY <1>1, <1>2, InvariantHolds, MadeHolds, PTL DEF Spec, KeepsPromise
=============================================================================
