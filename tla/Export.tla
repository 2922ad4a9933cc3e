------------------------------- MODULE Export -------------------------------
(* Saving an attachment to a file: the chunks of a transfer are appended to  *)
(* a partial file which is checked against the digest of the last chunk and  *)
(* then published under a free name (export.rs, export/linux.rs,             *)
(* frontends/application.rs, frontends.rs).                                  *)
(*                                                                           *)
(* Directory entry 0 is the partial file, whose random name no other program *)
(* reuses; entries 1..NameCount are the name asked for and its numbered     *)
(* variants.  An entry is "none", "ours" (the inode being written) or        *)
(* "other".  `durable` and `synced` are what a power loss certainly keeps.   *)
(* A digest is the byte sequence it is computed from.                        *)
EXTENDS Integers, Sequences

CONSTANTS
    Attachment,    \* the bytes of the attachment
    Chunks,        \* what the service may hand over: [offset, data, ref, last, sha256]
    MaximumBytes,  \* limits.attachment_decoded_bytes
    NameCount,     \* the names tried (1000 in the code)
    MaxDisturbances \* bound: what other programs do to the directory

(* The digest that comes with the last chunk is the attachment's: the        *)
(* decoder's IntegrityIsWhole.                                               *)
Byte == UNION {{chunk.data[i] : i \in DOMAIN chunk.data} : chunk \in Chunks}
ExportAssumption ==
    /\ NameCount \in Nat \ {0} /\ MaximumBytes \in Nat /\ MaxDisturbances \in Nat
    /\ \A chunk \in Chunks :
          /\ chunk.data \in Seq(Byte)
          /\ chunk.last => chunk.sha256 = Attachment

VARIABLES
    entries, durable,
    file, synced,  \* the bytes written, and how many of them are on disk
    in_place,      \* the root path still names the directory that is held open
    stage,         \* where export_attachment and publish are
    reference,     \* the attachment the chunks are of, "none" before the first
    partial,       \* NativeFile.partial is Some
    unreported_destination,
    dest,          \* the entry linked
    outcome,       \* the result so far, "none" while there is none
    aborts,        \* abort calls still to make: write_chunk, the front end, Drop
    receipt,       \* <<>>, or <<the world when the receipt was returned>>
    disturbances

writer == <<stage, reference, partial, unreported_destination, dest, outcome, aborts, receipt>>
disk == <<entries, durable, file, synced, in_place>>
exportVars == <<disk, writer, disturbances>>

Names == 0..NameCount
Publishing == {"sync", "check", "link", "verify", "unlink", "syncdir", "final"}
--------------------------------------------------------------------------
ExportInit ==
    /\ entries \in [Names -> {"none", "other"}] /\ entries[0] = "none"
    /\ durable = entries
    /\ file = <<>> /\ synced = 0 /\ in_place = TRUE
    /\ stage = "validated" /\ reference = "none" /\ partial = FALSE
    /\ unreported_destination = FALSE /\ dest = 0 /\ outcome = "none" /\ aborts = 0
    /\ receipt = <<>> /\ disturbances = 0

(* NativeFile::create, when the first chunk has been authorized.            *)
Create ==
    /\ stage = "validated"
    /\ \/ /\ stage' = "open" /\ entries' = [entries EXCEPT ![0] = "ours"] /\ partial' = TRUE
          /\ UNCHANGED outcome
       \/ /\ stage' = "done" /\ outcome' = "ExportFailed" /\ UNCHANGED <<entries, partial>>
    /\ UNCHANGED <<durable, file, synced, in_place, reference, unreported_destination, dest,
                   aborts, receipt, disturbances>>

(* An error inside write_chunk: it aborts, the front end aborts again, Drop *)
(* once more.  An error outside of it: the last two.                        *)
Fails(code, n) == stage' = "abort" /\ outcome' = code /\ aborts' = n

(* ExportWriter::write: a chunk of this attachment at the offset reached.   *)
Accepts(chunk) == chunk.offset = Len(file) /\ reference \in {"none", chunk.ref}
WriteChunk(chunk) ==
    /\ stage = "open"
    /\ LET total == file \o chunk.data
       IN  \/ /\ \/ ~Accepts(chunk)
                 \/ chunk.data = <<>> /\ ~chunk.last
              /\ Fails("ExportFailed", 3) /\ UNCHANGED <<file, reference>>
           \/ /\ Accepts(chunk) /\ Len(total) > MaximumBytes
              /\ Fails("AttachmentTooLarge", 3) /\ UNCHANGED <<file, reference>>
           \/ /\ Accepts(chunk) /\ Len(total) <= MaximumBytes /\ (chunk.data = <<>> => chunk.last)
              /\ file' = total /\ reference' = chunk.ref
              /\ IF chunk.last /\ chunk.sha256 # total
                 THEN Fails("ExportFailed", 3)
                 ELSE stage' = (IF chunk.last THEN "sync" ELSE "open") /\ UNCHANGED <<outcome, aborts>>
    /\ UNCHANGED <<entries, durable, synced, in_place, partial, unreported_destination, dest,
                   receipt, disturbances>>

(* publish_with, step by step. *)
SyncFile == Len(file)
Sync ==
    /\ stage = "sync" /\ stage' = "check" /\ synced' = SyncFile
    /\ UNCHANGED <<entries, durable, file, in_place, reference, partial, unreported_destination,
                   dest, outcome, aborts, receipt, disturbances>>

Links == {k \in Names : entries[k] = "ours"}
Check ==
    /\ stage = "check"
    /\ IF in_place /\ Links = {0}
       THEN stage' = "link" /\ dest' = 1 /\ UNCHANGED <<outcome, aborts>>
       ELSE Fails("ExportFailed", 3) /\ UNCHANGED dest
    /\ UNCHANGED <<disk, reference, partial, unreported_destination, receipt, disturbances>>

(* linkat fails with EXIST where there is an entry, and the next name is    *)
(* tried; it also fails when the file itself has no name left.              *)
LinkFree(k) == entries[k] = "none"
NoteNothing == FALSE
NoteDestination == TRUE
Link ==
    /\ stage = "link"
    /\ IF LinkFree(dest) /\ Links # {}
       THEN /\ entries' = [entries EXCEPT ![dest] = "ours"]
            /\ unreported_destination' = NoteDestination /\ stage' = "verify"
            /\ UNCHANGED <<dest, outcome, aborts>>
       ELSE /\ IF ~LinkFree(dest) /\ dest < NameCount
               THEN dest' = dest + 1 /\ UNCHANGED <<stage, outcome, aborts>>
               ELSE Fails("ExportFailed", 3) /\ UNCHANGED dest
            /\ UNCHANGED <<entries, unreported_destination>>
    /\ UNCHANGED <<durable, file, synced, in_place, reference, partial, receipt, disturbances>>

Verify ==
    /\ stage = "verify"
    /\ IF in_place /\ Links = {0, dest}
       THEN stage' = "unlink" /\ UNCHANGED <<outcome, aborts>>
       ELSE Fails("ExportFailed", 3)
    /\ UNCHANGED <<disk, reference, partial, unreported_destination, dest, receipt, disturbances>>

(* remove_partial: an entry already gone is as good as removed.             *)
Removes == partial' = FALSE /\ entries' = [entries EXCEPT ![0] = "none"]
Unlink ==
    /\ stage = "unlink" /\ Removes /\ stage' = "syncdir"
    /\ UNCHANGED <<durable, file, synced, in_place, reference, unreported_destination, dest,
                   outcome, aborts, receipt, disturbances>>

SyncEntries == entries
SyncDirectory ==
    /\ stage = "syncdir" /\ stage' = "final" /\ durable' = SyncEntries
    /\ UNCHANGED <<entries, file, synced, in_place, reference, partial, unreported_destination,
                   dest, outcome, aborts, receipt, disturbances>>

Final ==
    /\ stage = "final"
    /\ IF in_place /\ Links = {dest}
       THEN /\ stage' = "abort" /\ outcome' = "receipt" /\ aborts' = 2
            /\ unreported_destination' = FALSE
            /\ receipt' = <<[entries |-> entries, durable |-> durable, file |-> file,
                             synced |-> synced, dest |-> dest]>>
       ELSE Fails("ExportFailed", 3) /\ UNCHANGED <<unreported_destination, receipt>>
    /\ UNCHANGED <<disk, reference, partial, dest, disturbances>>

(* Any of these calls can fail.                                             *)
IoError ==
    /\ stage \in Publishing \cup {"open"}
    /\ Fails("ExportFailed", 3)
    /\ UNCHANGED <<disk, reference, partial, unreported_destination, dest, receipt, disturbances>>

(* Between chunks: the transfer fails, the deadline passes, a signal comes. *)
Cancel ==
    /\ stage \in {"validated", "open"}
    /\ IF stage = "open" THEN Fails("Cancelled", 2)
       ELSE stage' = "done" /\ outcome' = "Cancelled" /\ UNCHANGED aborts
    /\ UNCHANGED <<disk, reference, partial, unreported_destination, dest, receipt, disturbances>>

(* abort, whose own error replaces the result, but not in Drop.             *)
AbortCode(removed) ==
    IF unreported_destination THEN "ExportFinalizationFailed"
    ELSE IF removed THEN outcome ELSE "ExportCleanupFailed"
Abort ==
    /\ stage = "abort"
    /\ \E removed \in {~partial, TRUE} :
         /\ IF partial /\ removed THEN Removes ELSE UNCHANGED <<partial, entries>>
         /\ outcome' = IF aborts = 1 THEN outcome ELSE AbortCode(removed)
    /\ aborts' = aborts - 1 /\ stage' = IF aborts = 1 THEN "done" ELSE "abort"
    /\ UNCHANGED <<durable, file, synced, in_place, reference, unreported_destination, dest,
                   receipt, disturbances>>

(* The machine stops: an entry that was not synced may be as it was, bytes  *)
(* that were not synced may be missing.                                     *)
Crash ==
    /\ stage \notin {"done", "crashed"} /\ stage' = "crashed"
    /\ \E kept \in SUBSET Names, n \in synced..Len(file) :
         /\ entries' = [k \in Names |-> IF k \in kept THEN entries[k] ELSE durable[k]]
         /\ file' = SubSeq(file, 1, n) /\ synced' = n
    /\ durable' = entries'
    /\ UNCHANGED <<in_place, reference, partial, unreported_destination, dest, outcome, aborts,
                   receipt, disturbances>>

(* Other programs: take a free name, remove a file, move the directory.     *)
Disturb ==
    /\ stage \notin {"done", "crashed"}
    /\ disturbances < MaxDisturbances /\ disturbances' = disturbances + 1
    /\ \/ \E k \in Names \ {0} : \E e \in {"none", "other"} :
             /\ entries[k] # e
             /\ entries' = [entries EXCEPT ![k] = e] /\ durable' = [durable EXCEPT ![k] = e]
             /\ UNCHANGED in_place
       \/ /\ entries[0] = "ours" /\ entries' = [entries EXCEPT ![0] = "none"]
          /\ UNCHANGED <<durable, in_place>>
       \/ in_place /\ in_place' = FALSE /\ UNCHANGED <<entries, durable>>
    /\ UNCHANGED <<file, synced, writer>>

Step == Create \/ (\E chunk \in Chunks : WriteChunk(chunk)) \/ Sync \/ Check \/ Link \/ Verify
        \/ Unlink \/ SyncDirectory \/ Final \/ IoError \/ Cancel \/ Abort
ExportNext == Step \/ Crash \/ Disturb
ExportSpec == ExportInit /\ [][ExportNext]_exportVars
--------------------------------------------------------------------------
(* write, publish_with: what can be seen under a destination name is the    *)
(* whole attachment, verified, after a power loss at any point too.         *)
VisibleIsWhole == \A k \in Links \ {0} : file = Attachment

(* publish_with: when the receipt is returned the file it names is there,   *)
(* is the attachment, alone, and would survive a power loss.                *)
ReceiptIsTrue ==
    receipt # <<>> =>
       LET then == receipt[1]
       IN  /\ then.file = Attachment /\ then.synced = Len(Attachment)
           /\ \A k \in Names : then.durable[k] = "ours" <=> k = then.dest

(* write_chunk, abort: a failure that does not say that something may have  *)
(* been left behind has left nothing behind.                                *)
FailureIsClean ==
    (stage = "done" /\ outcome \in {"ExportFailed", "AttachmentTooLarge", "Cancelled"}) =>
       Links = {}

(* publish_with: the exporter never replaces or removes a file of another   *)
(* program.                                                                 *)
OthersUntouched ==
    Step => \A k \in Names : entries[k] = "other" => entries'[k] = "other"

(* export_attachment: all of these at once.                                 *)
ExportIsAtomic ==
    /\ [](VisibleIsWhole /\ ReceiptIsTrue /\ FailureIsClean)
    /\ [][OthersUntouched]_exportVars
=============================================================================
