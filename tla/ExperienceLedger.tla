-------------------------- MODULE ExperienceLedger --------------------------
(***************************************************************************)
(* The append-only ledger of governed execution                            *)
(* (packages/governed-execution/src/ledger.ts): a journal of signed lines, *)
(* the anchor file head.json that names its last line, an independent      *)
(* witness outside the machine that remembers how far it got, and the one  *)
(* process that holds the writer's lock (lines 139-169) and serves calls   *)
(* one at a time (248).                                                    *)
(*                                                                         *)
(* A digest of a line stands for all the lines before it, as each line     *)
(* contains the digest of its predecessor: anchor and witness are the      *)
(* history they name.                                                      *)
(***************************************************************************)
EXTENDS Naturals, Sequences

CONSTANT MaxUpsets          \* the bound on kills, power failures and errors

ASSUME UpsetsAssumption == MaxUpsets \in Nat

VARIABLES
    journal,    \* the complete lines of commitments.jsonl, as a read finds them
    torn,       \* the file ends in a part of a line
    synced,     \* how many lines outlast a power failure
    head,       \* the history that the file head.json names
    witness,    \* the history that the witness has acknowledged
    proc,       \* the process: down, opening, up
    mem,        \* the history it has installed
    known,      \* the journal as it hashed it last
    anchor,     \* the anchor it wrote, or tried to write, last
    op,         \* the call it serves
    upsets,
    acked,      \* the longest history a caller was answered from
    adopted     \* how far an opening ever took unsynced lines for history

diskVars == <<journal, torn, synced, head>>
memVars == <<proc, mem, known, anchor>>
ledgerVars == <<diskVars, witness, memVars, op, upsets, acked, adopted>>

(* s is how t begins. *)
Begins(s, t) == Len(s) <= Len(t) /\ SubSeq(t, 1, Len(s)) = s

Holds(s, e) == \E k \in DOMAIN s : s[k] = e

(* The entry is among the lines that outlast a power failure. *)
Durable(e) == \E k \in 1..synced : journal[k] = e

NoEntry == [kind |-> "none", member |-> 0, good |-> FALSE]

Idle == [at |-> "idle", entry |-> NoEntry]

Upset == upsets < MaxUpsets /\ upsets' = upsets + 1

LedgerInit ==
    /\ journal = <<>> /\ torn = FALSE /\ synced = 0 /\ head = <<>> /\ witness = <<>>
    /\ proc = "down" /\ mem = <<>> /\ known = <<>> /\ anchor = <<>>
    /\ op = Idle
    /\ upsets = 0 /\ acked = <<>> /\ adopted = 0

-----------------------------------------------------------------------------
(* THE PARTS OF A CALL *)

(* A caller asks to read (NoEntry) or to commit an entry.  Another call     *)
(* only starts when this one has been answered.                             *)
Ask(e) == op' = [at |-> "check", entry |-> e]

Fails == op' = [op EXCEPT !.at = "failed"]

(* ensureWitness: the witness must not be ahead of the installed history;   *)
(* it is moved up to it.  It may be out of reach, or its answer may be lost *)
(* after it has moved.                                                      *)
EnsureWitness(next) ==
    \/ /\ Begins(witness, mem)
       /\ witness' = mem
       /\ op' = [op EXCEPT !.at = next]
       /\ UNCHANGED upsets
    \/ /\ ~Begins(witness, mem)
       /\ Fails
       /\ UNCHANGED <<witness, upsets>>
    \/ /\ Upset
       /\ witness' \in {witness} \union (IF Begins(witness, mem) THEN {mem} ELSE {})
       /\ Fails

(* The files are as this process left them. *)
Integral == journal = known /\ ~torn /\ head = anchor

(* A reference that was committed before is answered with its receipt. *)
Committed(e) == e.kind = "REFERENCE" /\ Holds(mem, e)

(* Fault: a read goes on into the commit. *)
NextPartOfAny == IF Committed(op.entry) THEN "ok" ELSE "write"

(* What follows on the integrity check: the answer, or the line. *)
NextPart == IF op.entry = NoEntry \/ Committed(op.entry) THEN "ok" ELSE "write"

(* integrity, then the first lines of commit. *)
Integrity ==
    /\ proc = "up" /\ op.at = "check"
    /\ IF Integral
       THEN EnsureWitness(NextPart)
       ELSE Fails /\ UNCHANGED <<witness, upsets>>
    /\ acked' = IF op'.at = "ok" THEN mem ELSE acked
    /\ UNCHANGED <<diskVars, memVars, adopted>>

(* The line is appended; an error may leave a part of it in the file. *)
WriteLine ==
    /\ proc = "up" /\ op.at = "write"
    /\ \/ /\ journal' = Append(journal, op.entry)
          /\ op' = [op EXCEPT !.at = "sync"]
          /\ UNCHANGED <<torn, upsets>>
       \/ /\ Upset
          /\ torn' \in BOOLEAN
          /\ Fails
          /\ UNCHANGED journal
    /\ UNCHANGED <<synced, head, witness, memVars, acked, adopted>>

(* Fault: the line is installed and announced without a sync. *)
SyncLineLater ==
    /\ proc = "up" /\ op.at = "sync"
    /\ mem' = Append(mem, op.entry)
    /\ known' = journal
    /\ op' = [op EXCEPT !.at = "anchor"]
    /\ UNCHANGED <<diskVars, witness, proc, anchor, upsets, acked, adopted>>

(* fd.sync, install, and the hash of the journal read back.  When the sync  *)
(* fails the line is in the file and not installed; when the read fails it  *)
(* is installed, with the hash of the journal before it.                    *)
SyncLine ==
    /\ proc = "up" /\ op.at = "sync"
    /\ \/ /\ synced' = Len(journal)
          /\ mem' = Append(mem, op.entry)
          /\ known' = journal
          /\ op' = [op EXCEPT !.at = "anchor"]
          /\ UNCHANGED upsets
       \/ /\ Upset
          /\ synced' \in {synced, Len(journal)}
          /\ Fails
          /\ UNCHANGED <<mem, known>>
       \/ /\ Upset
          /\ synced' = Len(journal)
          /\ mem' = Append(mem, op.entry)
          /\ Fails
          /\ UNCHANGED known
    /\ UNCHANGED <<journal, torn, head, witness, proc, anchor, acked, adopted>>

(* persistAnchor: the anchor in memory changes first; the file is replaced  *)
(* as a whole, or not.  At an opening this is the last part.                *)
PersistAnchor ==
    /\ proc # "down" /\ op.at = "anchor"
    /\ anchor' = mem
    /\ \/ /\ head' = mem
          /\ IF proc = "up" THEN op' = [op EXCEPT !.at = "witness"] /\ UNCHANGED proc
                            ELSE op' = Idle /\ proc' = "up"
          /\ UNCHANGED upsets
       \/ /\ Upset
          /\ head' \in {head, mem}
          /\ Fails
          /\ UNCHANGED proc
    /\ UNCHANGED <<journal, torn, synced, witness, mem, known, acked, adopted>>

(* The witness is told.  Of a commit this is the last part; an opening goes *)
(* on with the anchor.                                                      *)
TellWitness ==
    /\ proc # "down" /\ op.at = "witness"
    /\ EnsureWitness(IF proc = "up" THEN "ok" ELSE "anchor")
    /\ acked' = IF op'.at = "ok" THEN mem ELSE acked
    /\ UNCHANGED <<diskVars, memVars, adopted>>

-----------------------------------------------------------------------------
(* THE PROCESS *)

(* recover: the journal must begin with what the anchor names.  Its         *)
(* complete lines are the history, synced or not; a part of a line is cut   *)
(* off and the file synced.  An empty file is synced too.                   *)
Recover ==
    /\ proc = "down"
    /\ Begins(head, journal)
    /\ torn' = FALSE
    /\ synced' = IF torn THEN Len(journal) ELSE synced
    /\ adopted' = IF synced' < Len(journal) /\ adopted < Len(journal) THEN Len(journal)
                                                                    ELSE adopted
    /\ proc' = "opening"
    /\ mem' = journal /\ known' = journal /\ anchor' = head
    /\ op' = [Idle EXCEPT !.at = "witness"]
    /\ UNCHANGED <<journal, head, witness, upsets, acked>>

Down ==
    /\ proc' = "down"
    /\ mem' = <<>> /\ known' = <<>> /\ anchor' = <<>>
    /\ op' = Idle

(* open throws, and the process ends. *)
OpenFails ==
    /\ proc = "opening" /\ op.at = "failed"
    /\ Down
    /\ UNCHANGED <<diskVars, witness, upsets, acked, adopted>>

(* The process is killed, perhaps in the middle of a line. *)
Kill ==
    /\ proc # "down"
    /\ Upset
    /\ Down
    /\ torn' \in (IF op.at = "write" THEN BOOLEAN ELSE {torn})
    /\ UNCHANGED <<journal, synced, head, witness, acked, adopted>>

(* The machine loses power: lines that were not synced may be gone. *)
PowerLoss ==
    /\ Upset
    /\ Down
    /\ \E k \in synced..Len(journal) :
        /\ journal' = SubSeq(journal, 1, k)
        /\ torn' \in (IF torn \/ k < Len(journal) THEN BOOLEAN ELSE {FALSE})
    /\ UNCHANGED <<synced, head, witness, acked, adopted>>

(* An operator stops a ledger that refuses every call. *)
Stop ==
    /\ proc = "up" /\ op.at = "idle"
    /\ ~Integral
    /\ Down
    /\ UNCHANGED <<diskVars, witness, upsets, acked, adopted>>

Serve == Integrity \/ WriteLine \/ SyncLine \/ PersistAnchor \/ TellWitness

-----------------------------------------------------------------------------
(* PROPERTIES *)

LedgerTypeOK(Entry) ==
    /\ journal \in Seq(Entry) /\ head \in Seq(Entry) /\ witness \in Seq(Entry)
    /\ mem \in Seq(Entry) /\ known \in Seq(Entry) /\ anchor \in Seq(Entry)
    /\ acked \in Seq(Entry)
    /\ torn \in BOOLEAN
    /\ synced \in 0..Len(journal)
    /\ proc \in {"down", "opening", "up"}
    /\ op \in [at : {"idle", "check", "write", "sync", "anchor", "witness", "ok", "failed"},
               entry : Entry \union {NoEntry}]
    /\ upsets \in 0..MaxUpsets
    /\ adopted \in Nat

(* A power failure has taken lines that an opening had taken for history. *)
Lapsed == adopted > Len(journal)

(* What a caller was told is in the journal stays there, and whatever kill, *)
(* error or power failure came in between, what anchor and witness name is  *)
(* there at the next opening, which therefore succeeds                      *)
(* (ACKNOWLEDGED_HISTORY_TRUNCATED, WITNESSED_HISTORY_ROLLED_BACK and their *)
(* kin at ledger.ts:187-202, 226-227 never fire).  The exception is a       *)
(* history that an opening took from lines nobody had synced.               *)
AcknowledgedIsKept ==
    ~Lapsed => /\ Begins(acked, journal)
               /\ Begins(head, journal)
               /\ Begins(witness, journal)
=============================================================================
