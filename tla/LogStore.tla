------------------------------ MODULE LogStore ------------------------------
(***************************************************************************)
(* What a Raft log store promises its caller: a sequence of entries whose  *)
(* first `base` elements have been compacted away.  The index of           *)
(* entries[k] is base + k.  MemLogStore implements this module.            *)
(***************************************************************************)
EXTENDS Integers, Sequences

CONSTANTS Entry,      \* what can be stored
          MaxIndex    \* bound on the indices used, for TLC

VARIABLES base, entries,
          call        \* the last call, which decides what may have changed

Last == base + Len(entries)

Init == base = 0 /\ entries = <<>> /\ call = <<>>

\* A new entry always goes to the index after the last one.
Append1(e) == /\ Last < MaxIndex
              /\ entries' = Append(entries, e)
              /\ call' = <<"append", e>>
              /\ UNCHANGED base

\* Overwriting an index discards everything from that index on.
WriteAt(i, e) == /\ i \in (base + 1)..(Last + 1)
                 /\ i <= MaxIndex
                 /\ entries' = Append(SubSeq(entries, 1, i - base - 1), e)
                 /\ call' = <<"write_at", i, e>>
                 /\ UNCHANGED base

\* A pack overwrites the indices it covers and keeps the rest.
Install(i, pack) ==
  /\ i \in (base + 1)..(Last + 1)
  /\ i + Len(pack) - 1 <= MaxIndex
  /\ entries' = [k \in 1..(IF Last < i + Len(pack) THEN i + Len(pack) - 1 - base
                           ELSE Len(entries)) |->
                   IF k + base \in i..(i + Len(pack) - 1)
                     THEN pack[k + base - i + 1] ELSE entries[k]]
  /\ call' = <<"apply_pack", i, pack>>
  /\ UNCHANGED base

\* A store with no entries may be restarted at any later index.
Rebase(i, pack) == /\ entries = <<>> /\ i > base
                   /\ i + Len(pack) - 1 <= MaxIndex
                   /\ base' = i - 1
                   /\ entries' = pack
                   /\ call' = <<"apply_pack", i, pack>>

\* Compaction forgets a prefix; it may reach past the last entry.
Compact(last) ==
  /\ call' = <<"compact", last>>
  /\ IF last <= base THEN UNCHANGED <<base, entries>>
     ELSE /\ base' = last
          /\ entries' = SubSeq(entries, last - base + 1, Len(entries))

Next == \/ \E e \in Entry : Append1(e)
        \/ \E i \in 1..MaxIndex, e \in Entry : WriteAt(i, e)
        \/ \E i \in 1..MaxIndex, n \in 1..MaxIndex : \E pack \in [1..n -> Entry] :
             Install(i, pack) \/ Rebase(i, pack)
        \/ \E last \in 0..MaxIndex : Compact(last)

Spec == Init /\ [][Next]_<<base, entries, call>>
=============================================================================
