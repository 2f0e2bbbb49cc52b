--------------------------- MODULE MemLogStoreOps ---------------------------
(***************************************************************************)
(* counter::mem_log_store (raft-rpc/source/mem_log_store.hxx): the Raft    *)
(* log of one node, kept in a std::map from index to entry with a dummy    *)
(* entry at index 0, and the index start_idx_ of the first entry that has  *)
(* not been compacted away.  Every method holds lock_ for its whole body,  *)
(* so each is one operator on the record [logs |-> map, start |-> Nat].    *)
(***************************************************************************)
EXTENDS Integers, FiniteSets, Sequences, Functions

CONSTANTS Dummy   \* the entry every store holds at index 0

\* std::map::operator[] = : insert or overwrite the entry of one index.
Put(map, i, e) == [k \in DOMAIN map \cup {i} |-> IF k = i THEN e ELSE map[k]]

EmptyStore == [logs |-> [i \in {0} |-> Dummy], start |-> 1]

(* next_slot() counts the entries; it does not look at the last key.       *)
NextSlot(s) == s.start + Cardinality(DOMAIN s.logs) - 1
StartIndex(s) == s.start

\* entry_at(), term_at(): an index that is not there yields the dummy.
EntryAt(s, i) == IF i \in DOMAIN s.logs THEN s.logs[i] ELSE s.logs[0]

\* last_entry(): the entry just below next_slot().
LastEntry(s) == EntryAt(s, NextSlot(s) - 1)

AppendEntry(s, e) == [s EXCEPT !.logs = Put(@, NextSlot(s), e)]

\* Mutant: write_at() forgets to erase the entries at and above the index.
KeptBelow_NoErase(s, i) == DOMAIN s.logs

KeptBelow(s, i) == {k \in DOMAIN s.logs : k < i}
(* write_at(): drop index i and everything above it, then write.           *)
WriteAt(s, i, e) == [s EXCEPT !.logs = Put(Restrict(@, KeptBelow(s, i)), i, e)]

(* log_entries(from, to): entries from .. to-1, or nothing at all when one *)
(* of them is missing (nullptr in the code).                               *)
HasRange(s, from, to) == \A i \in from..(to - 1) : i \in DOMAIN s.logs
LogEntries(s, from, to) == [k \in 1..(to - from) |-> s.logs[from + k - 1]]

(* pack(i, cnt): the entries from i on, at most cnt, up to the first hole. *)
PackLen(s, i, cnt) ==
  CHOOSE n \in 0..cnt : /\ HasRange(s, i, i + n)
                        /\ n = cnt \/ (i + n) \notin DOMAIN s.logs
Pack(s, i, cnt) == LogEntries(s, i, i + PackLen(s, i, cnt))

(* apply_pack(): overlay the packed entries from index i on; start_idx_    *)
(* becomes the first key above the dummy, or 1 when there is none.         *)
FirstKey(map) ==
  IF DOMAIN map = {0} THEN 1
  ELSE CHOOSE k \in DOMAIN map \ {0} : \A j \in DOMAIN map \ {0} : k <= j
Overlay(map, i, pack) ==
  [k \in DOMAIN map \cup (i..(i + Len(pack) - 1)) |->
     IF k \in i..(i + Len(pack) - 1) THEN pack[k - i + 1] ELSE map[k]]
ApplyPack(s, i, pack) ==
  LET map == Overlay(s.logs, i, pack)
  IN  [logs |-> map, start |-> FirstKey(map)]

(* compact(last): erase start_idx_..last and move start_idx_ past last.    *)
\* Mutant: start_idx_ is moved even when everything was already compacted.
CompactedStart_NoGuard(s, last) == last + 1
CompactedStart(s, last) == IF s.start <= last THEN last + 1 ELSE s.start
Compact(s, last) ==
  [logs  |-> Restrict(s.logs, DOMAIN s.logs \ (s.start..last)),
   start |-> CompactedStart(s, last)]
=============================================================================
