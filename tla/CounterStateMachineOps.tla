----------------------- MODULE CounterStateMachineOps -----------------------
(***************************************************************************)
(* counter::counter_state_machine                                          *)
(* (raft-rpc/source/counter_state_machine.hxx): the replicated counter of  *)
(* one node, as operators on the record                                    *)
(*   [value |-> value_, committed |-> last_committed_idx_,                 *)
(*    snaps |-> snapshots_ (index -> counter value at that index)].        *)
(* commit() makes two separate stores, one to each atomic, so it is two    *)
(* operators; the methods that work on snapshots_ hold its lock.           *)
(***************************************************************************)
EXTENDS Integers, FiniteSets, Functions

CONSTANTS HalfRange,      \* the counter is in -HalfRange..HalfRange-1 (2 ^ 63 in the code)
          kMaxSnapshots   \* snapshots a node keeps (3 in the code)

\* Signed overflow of the atomic wraps.
Wrap(x) == ((x + HalfRange) % (2 * HalfRange)) - HalfRange

NewStateMachine == [value |-> 0, committed |-> 0, snaps |-> [i \in {} |-> 0]]

(* An entry is [op |-> "ADD", "GET" or "CONF", delta |-> Int]; CONF stands *)
(* for the configuration entries, which reach commit_config().             *)
\* Mutant: store() for fetch_add().
CommitValue_Stores(sm, e) ==
  IF e.op = "ADD" THEN [sm EXCEPT !.value = Wrap(e.delta)] ELSE sm
CommitValue(sm, e) ==
  IF e.op = "ADD" THEN [sm EXCEPT !.value = Wrap(@ + e.delta)] ELSE sm
CommitIndex(sm, idx) == [sm EXCEPT !.committed = idx]

(* gc_snapshots_locked(): drop the oldest until kMaxSnapshots are left.    *)
Newest(S) == CHOOSE i \in S : \A j \in S : j <= i
\* Mutant: rbegin() for begin(): the newest snapshots are the ones dropped.
KeptSnapshots_Oldest(S) == {i \in S : Cardinality({j \in S : j < i}) < kMaxSnapshots}
KeptSnapshots(S) == {i \in S : Cardinality({j \in S : j > i}) < kMaxSnapshots}
Retain(snaps, i, v) ==
  LET S == DOMAIN snaps \cup {i}
  IN  [j \in KeptSnapshots(S) |-> IF j = i THEN v ELSE snaps[j]]

\* Mutant: the snapshot is filed under the index of the next entry.
CreateSnapshot_NextIndex(sm, i) == [sm EXCEPT !.snaps = Retain(@, i + 1, sm.value)]
CreateSnapshot(sm, i) == [sm EXCEPT !.snaps = Retain(@, i, sm.value)]
SaveLogicalSnpObj(sm, i, v) == [sm EXCEPT !.snaps = Retain(@, i, v)]

HasSnapshot(sm, i) == i \in DOMAIN sm.snaps
ReadLogicalSnpObj(sm, i) == sm.snaps[i]

\* Mutant: the counter is restored, the index it stands for is not.
ApplySnapshot_KeepIndex(sm, i) ==
  IF HasSnapshot(sm, i) THEN [sm EXCEPT !.value = sm.snaps[i]] ELSE sm
(* apply_snapshot(): false, and nothing changed, without that snapshot.    *)
ApplySnapshot(sm, i) ==
  IF HasSnapshot(sm, i) THEN [sm EXCEPT !.value = sm.snaps[i], !.committed = i]
  ELSE sm

\* last_snapshot(): index 0 stands for nullptr.
LastSnapshot(sm) == IF DOMAIN sm.snaps = {} THEN 0 ELSE Newest(DOMAIN sm.snaps)
=============================================================================
