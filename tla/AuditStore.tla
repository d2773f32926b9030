----------------------------- MODULE AuditStore -----------------------------
(***************************************************************************)
(* AuditStore (gateway/audit/store.py): a list in memory that keeps the    *)
(* newest entries.  Nothing is awaited under its lock, so that append is   *)
(* one step.                                                               *)
(***************************************************************************)
EXTENDS SequencesExt

CONSTANT MaxEntries     \* max_entries

ASSUME MaxEntriesAssumption == MaxEntries \in Nat \ {0}

VARIABLE entries        \* _entries, oldest first

AuditStoreInit == entries = <<>>

\* s[-n:]
Newest(s, n) == IF Len(s) > n THEN SubSeq(s, Len(s) - n + 1, Len(s)) ELSE s

\* A mistake to be caught: the list is cut before the entry is added.
AppendEntryLate(entry) == entries' = Append(Newest(entries, MaxEntries), entry)

\* A mistake to be caught: the cut keeps the other end of the list.
AppendEntryOldest(entry) ==
    entries' = LET longer == Append(entries, entry)
               IN  IF Len(longer) > MaxEntries
                   THEN SubSeq(longer, 1, MaxEntries) ELSE longer

\* append
AppendEntry(entry) == entries' = Newest(Append(entries, entry), MaxEntries)

\* all
All == Reverse(entries)

\* The entries are lost with the process.
AuditStoreLost == entries' = <<>>
=============================================================================
