---------------------------- MODULE DraftJournal ----------------------------
(***************************************************************************)
(* The durable draft journal (src/draft_journal.rs): one SQLite row per    *)
(* draft operation, keyed by its identity.  Each transition method of the  *)
(* DraftJournal type is one SQLite transaction, so it is modelled here by  *)
(* a guard (Can...) and the journal it commits.  Hashes are abstracted to  *)
(* what they distinguish: the caller's input, the mailbox incarnation the  *)
(* row was frozen for, and the build (encoder) whose MIME bytes the row's  *)
(* content hash covers.                                                    *)
(***************************************************************************)
EXTENDS Naturals, FiniteSets

CONSTANTS
    Ops,          \* draft operation identities (account, generation, operation id)
    Inputs,       \* distinguishable caller inputs
    Encoders,     \* builds whose MIME encodings differ
    MaxRecords    \* limits.journal_records

ASSUME JournalAssumption ==
    /\ Ops # {}
    /\ Inputs # {}
    /\ Encoders # {}
    /\ MaxRecords \in Nat \ {0}

AnOp == CHOOSE op \in Ops : TRUE
AnInput == CHOOSE i \in Inputs : TRUE
AnEncoder == CHOOSE e \in Encoders : TRUE

(* DraftOperationState, with "absent" for an identity that has no row. *)
States == {"absent", "prepared", "in_flight", "created", "duplicate",
           "rejected", "outcome_unknown"}

(* The states no transition leaves. *)
Terminal == {"created", "duplicate", "rejected"}

(* A row: DraftReconstruction's frozen facts and the durable state.  The UID
   of an acknowledged message is left out. *)
Row == [state : States, input : Inputs, validity : Nat, encoder : Encoders]

AbsentRow == [state |-> "absent", input |-> AnInput, validity |-> 0,
              encoder |-> AnEncoder]

(* A row as INSERTed by prepare_with_limit. *)
PreparedRow(input, validity, encoder) ==
    [state |-> "prepared", input |-> input, validity |-> validity,
     encoder |-> encoder]

(* Equality of PreparedDraftOperation: every frozen fact, not the state. *)
SameFacts(r, s) ==
    /\ r.input = s.input
    /\ r.validity = s.validity
    /\ r.encoder = s.encoder

Records(j) == {op \in Ops : j[op].state # "absent"}

(* check_capacity *)
Full(j) == Cardinality(Records(j)) >= MaxRecords

(* Mutant: capacity was checked before the transaction. *)
CanPrepareUnchecked(j, op, row) ==
    j[op].state = "absent" \/ SameFacts(j[op], row)

(***************************************************************************)
(* prepare_with_limit: an existing row must equal the proposed one in      *)
(* every frozen fact and is returned as it is; a new row needs capacity,   *)
(* counted in the same immediate transaction as the INSERT.                *)
(***************************************************************************)
CanPrepare(j, op, row) ==
    IF j[op].state = "absent" THEN ~Full(j) ELSE SameFacts(j[op], row)

Prepare(j, op, row) ==
    IF j[op].state = "absent" THEN [j EXCEPT ![op] = row] ELSE j

(***************************************************************************)
(* reencode_prepared: only a row that still equals the one the caller read *)
(* and is still prepared gets the new build's content hash.                *)
(***************************************************************************)
CanReencode(j, op, expected, encoder) ==
    /\ expected.encoder # encoder
    /\ expected.validity # 0
    /\ SameFacts(j[op], expected)
    /\ j[op].state = "prepared"

Reencode(j, op, encoder) == [j EXCEPT ![op].encoder = encoder]

(* begin_dispatch *)
CanBeginDispatch(j, op, row) ==
    /\ SameFacts(j[op], row)
    /\ j[op].state = "prepared"

BeginDispatch(j, op) == [j EXCEPT ![op].state = "in_flight"]

(***************************************************************************)
(* record_outcome: record_duplicate resolves only an uncertain row, every  *)
(* other outcome only one that is in flight.                               *)
(***************************************************************************)
CanRecord(j, op, outcome) ==
    j[op].state = IF outcome = "duplicate" THEN "outcome_unknown" ELSE "in_flight"

Record(j, op, outcome) == [j EXCEPT ![op].state = outcome]
=============================================================================
