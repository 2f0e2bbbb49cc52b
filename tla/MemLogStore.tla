---------------------------- MODULE MemLogStore -----------------------------
(***************************************************************************)
(* One mem_log_store driven by the Raft core.  Its methods are the         *)
(* operators of MemLogStoreOps; the guards below are what the NuRaft core  *)
(* respects when it calls them: it overwrites or extends the log without   *)
(* leaving a hole, and ships packs that hold at least one entry.           *)
(***************************************************************************)
EXTENDS MemLogStoreOps

CONSTANTS Entry,       \* entries that can be stored (term and payload)
          MaxIndex,    \* bound on the log index, for TLC
          MaxPack      \* bound on the entries of one pack, for TLC

ASSUME DummyIsNoEntry == Dummy \notin Entry
ASSUME BoundsAreNats == MaxIndex \in Nat /\ MaxPack \in Nat

VARIABLES store,
          call         \* history: the last call and its arguments

vars == <<store, call>>

Init == store = EmptyStore /\ call = <<>>

IsEmpty == NextSlot(store) = StartIndex(store)

append(e) == /\ NextSlot(store) <= MaxIndex
             /\ store' = AppendEntry(store, e)
             /\ call' = <<"append", e>>

write_at(i, e) == /\ StartIndex(store) <= i /\ i <= NextSlot(store)
                  /\ store' = WriteAt(store, i, e)
                  /\ call' = <<"write_at", i, e>>

apply_pack(i, pack) ==
  /\ StartIndex(store) <= i
  /\ i <= NextSlot(store) \/ IsEmpty
  /\ i + Len(pack) - 1 <= MaxIndex
  /\ store' = ApplyPack(store, i, pack)
  /\ call' = <<"apply_pack", i, pack>>

compact(last) == /\ store' = Compact(store, last)
                 /\ call' = <<"compact", last>>

Packs == UNION {[1..n -> Entry] : n \in 1..MaxPack}

Next == \/ \E e \in Entry : append(e)
        \/ \E i \in 1..MaxIndex, e \in Entry : write_at(i, e)
        \/ \E i \in 1..MaxIndex, pack \in Packs : apply_pack(i, pack)
        \/ \E last \in 0..MaxIndex : compact(last)

Spec == Init /\ [][Next]_vars

-----------------------------------------------------------------------------
(* Type invariant: the map holds the dummy at 0 and entries elsewhere.     *)
TypeOK == /\ store \in [logs : [DOMAIN store.logs -> Entry \cup {Dummy}],
                          start : Nat \ {0}]
          /\ IsFiniteSet(DOMAIN store.logs)
          /\ DOMAIN store.logs \subseteq Nat
          /\ 0 \in DOMAIN store.logs
          /\ store.logs[0] = Dummy
          /\ \A i \in DOMAIN store.logs \ {0} : store.logs[i] \in Entry

(* next_slot() is computed from the number of entries, so the log must     *)
(* never have a hole, an entry below start_idx_, or an entry at or above   *)
(* next_slot(): whatever mix of append, write_at, apply_pack and compact   *)
(* ran before, the keys are the dummy and start_idx_ .. next_slot()-1.     *)
Contiguous ==
  DOMAIN store.logs = {0} \cup (StartIndex(store)..(NextSlot(store) - 1))

(* The store behaves as a sequence with a compacted prefix, call by call:  *)
(* write_at() discards what is above its index and apply_pack() does not,  *)
(* compact() takes a prefix only, and every entry that is left keeps its   *)
(* index and its content.                                                  *)
Abstract == INSTANCE LogStore WITH
  base <- store.start - 1,
  entries <- LogEntries(store, StartIndex(store), NextSlot(store))
ImplementsLogStore == Abstract!Spec
=============================================================================
