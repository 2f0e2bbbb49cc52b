---------------------------- MODULE Replication -----------------------------
(***************************************************************************)
(* One leader of the counter cluster and one follower that joins late,     *)
(* lags, crashes and restarts with nothing (raft-rpc/source).  The leader  *)
(* keeps committing, snapshotting and compacting meanwhile: the rest of    *)
(* the cluster gives it its majority.                                      *)
(*                                                                         *)
(* Both nodes run the code of mem_log_store and counter_state_machine; the *)
(* NuRaft core that calls them, configured in main(), is external: one     *)
(* commit thread per node, and one request at a time to the follower.      *)
(***************************************************************************)
EXTENDS MemLogStoreOps, CounterStateMachineOps

CONSTANTS Op,                  \* what clients ask for: "ADD", "GET"
          Delta,               \* what they add
          SnapshotDistance,    \* params.snapshot_distance_
          ReservedLogItems,    \* params.reserved_log_items_
          Batch,               \* entries in one request
          MaxIndex,            \* bound on the log index, for TLC
          MaxRestarts          \* bound on restarts of the follower, for TLC

Server == {"leader", "follower"}
Entries == [op : {"ADD"}, delta : Delta] \cup [op : {"GET", "CONF"}, delta : {0}]

ASSUME ReplicationConstants ==
  /\ Op \subseteq {"ADD", "GET"} /\ Delta \subseteq Int
  /\ {HalfRange, kMaxSnapshots, SnapshotDistance, Batch} \subseteq Nat \ {0}
  /\ {ReservedLogItems, MaxIndex, MaxRestarts} \subseteq Nat

VARIABLES log,       \* server -> its mem_log_store
          sm,        \* server -> its counter_state_machine
          quick,     \* server -> commit index the Raft core has learnt
          thread,    \* server -> "idle", "applied", "snapshot": its commit thread
          next,      \* leader's next_log_idx of the follower
          joined,    \* is the follower in the cluster config?
          rpc,       \* the request or response in flight
          syncing,   \* index of the snapshot the leader is shipping, or 0
          expected,  \* history: counter value after each index of the log
          restarts

vars == <<log, sm, quick, thread, next, joined, rpc, syncing, expected, restarts>>

NoRpc == [type |-> "none"]

Init == /\ log = [s \in Server |-> EmptyStore]
        /\ sm = [s \in Server |-> NewStateMachine]
        /\ quick = [s \in Server |-> 0]
        /\ thread = [s \in Server |-> "idle"]
        /\ next = 1
        /\ joined = FALSE
        /\ rpc = NoRpc
        /\ syncing = 0
        /\ expected = <<>>
        /\ restarts = 0

\* The counter after the first i entries.
ValueAt(i) == IF i = 0 THEN 0 ELSE expected[i]

-----------------------------------------------------------------------------
(* The leader.                                                             *)

Append1(e) ==
  /\ log' = [log EXCEPT !["leader"] = AppendEntry(@, e)]
  /\ expected' = Append(expected, Wrap(ValueAt(Len(expected)) + e.delta))

\* replicate(): a client's add or get goes through the log.
Replicate(e) == /\ e.op \in Op
                /\ NextSlot(log["leader"]) <= MaxIndex
                /\ Append1(e)
                /\ UNCHANGED <<sm, quick, thread, next, joined, rpc, syncing, restarts>>

\* A majority of the other servers has the log up to i.
LearnCommit(i) ==
  /\ quick["leader"] < i /\ i < NextSlot(log["leader"])
  /\ quick' = [quick EXCEPT !["leader"] = i]
  /\ UNCHANGED <<log, sm, thread, next, joined, rpc, syncing, expected, restarts>>

(* The commit thread of either node: commit() or commit_config(), its two  *)
(* stores apart, then create_snapshot() and compact() when one is due.     *)
ApplyEntry(s) ==
  /\ thread[s] = "idle"
  /\ sm[s].committed < quick[s]
  /\ sm' = [sm EXCEPT ![s] = CommitValue(@, EntryAt(log[s], @.committed + 1))]
  /\ thread' = [thread EXCEPT ![s] = "applied"]
  /\ UNCHANGED <<log, quick, next, joined, rpc, syncing, expected, restarts>>

SnapshotDue(s) == sm[s].committed + 1 - LastSnapshot(sm[s]) >= SnapshotDistance
StoreIndex(s) ==
  /\ thread[s] = "applied"
  /\ sm' = [sm EXCEPT ![s] = CommitIndex(@, @.committed + 1)]
  /\ thread' = [thread EXCEPT ![s] = IF SnapshotDue(s) THEN "snapshot" ELSE "idle"]
  /\ UNCHANGED <<log, quick, next, joined, rpc, syncing, expected, restarts>>

SnapshotAndCompact(s) ==
  LET i == sm[s].committed
  IN  /\ thread[s] = "snapshot"
      /\ sm' = [sm EXCEPT ![s] = CreateSnapshot(@, i)]
      /\ log' = IF i > ReservedLogItems
                THEN [log EXCEPT ![s] = Compact(@, i - ReservedLogItems)] ELSE log
      /\ thread' = [thread EXCEPT ![s] = "idle"]
      /\ UNCHANGED <<quick, next, joined, rpc, syncing, expected, restarts>>

NeedsSnapshot == next < StartIndex(log["leader"])
UpTo(limit) == IF limit < next + Batch THEN limit ELSE next + Batch

\* add_srv: the log is shipped in packs of committed entries.
SendPack ==
  /\ ~joined /\ rpc = NoRpc /\ ~NeedsSnapshot
  /\ next <= quick["leader"]
  /\ rpc' = [type |-> "pack", index |-> next,
             entries |-> Pack(log["leader"], next, UpTo(quick["leader"] + 1) - next)]
  /\ UNCHANGED <<log, sm, quick, thread, next, joined, syncing, expected, restarts>>

\* Once the new server has caught up, a config entry makes it a member.
AddServer ==
  /\ ~joined /\ rpc = NoRpc
  /\ next = quick["leader"] + 1
  /\ joined' = TRUE
  /\ Append1([op |-> "CONF", delta |-> 0])
  /\ UNCHANGED <<sm, quick, thread, next, rpc, syncing, restarts>>

SendAppend ==
  /\ joined /\ rpc = NoRpc /\ ~NeedsSnapshot
  /\ next < NextSlot(log["leader"]) \/ quick["leader"] > quick["follower"]
  /\ HasRange(log["leader"], next, UpTo(NextSlot(log["leader"])))
  /\ rpc' = [type |-> "append", index |-> next, commit |-> quick["leader"],
             entries |-> LogEntries(log["leader"], next, UpTo(NextSlot(log["leader"])))]
  /\ UNCHANGED <<log, sm, quick, thread, next, joined, syncing, expected, restarts>>

(* The entries the follower needs are compacted away: ship last_snapshot() *)
(* object by object, starting over when it is gone when it is read.        *)
StartSync ==
  /\ rpc = NoRpc /\ NeedsSnapshot /\ syncing = 0
  /\ LastSnapshot(sm["leader"]) > 0
  /\ syncing' = LastSnapshot(sm["leader"])
  /\ UNCHANGED <<log, sm, quick, thread, next, joined, rpc, expected, restarts>>
SendSnapshot ==
  /\ rpc = NoRpc /\ syncing > 0
  /\ IF HasSnapshot(sm["leader"], syncing)
     THEN /\ rpc' = [type |-> "snapshot", index |-> syncing,
                     value |-> ReadLogicalSnpObj(sm["leader"], syncing)]
          /\ UNCHANGED syncing
     ELSE syncing' = 0 /\ UNCHANGED rpc
  /\ UNCHANGED <<log, sm, quick, thread, next, joined, expected, restarts>>

\* Mutant: the transfer is not ended by the answer to it.
ReceiveResponse_KeepSync ==
  /\ rpc.type = "response"
  /\ next' = rpc.next
  /\ rpc' = NoRpc
  /\ UNCHANGED <<log, sm, quick, thread, joined, syncing, expected, restarts>>
ReceiveResponse ==
  /\ rpc.type = "response"
  /\ next' = rpc.next
  /\ rpc' = NoRpc
  /\ syncing' = 0
  /\ UNCHANGED <<log, sm, quick, thread, joined, expected, restarts>>

-----------------------------------------------------------------------------
(* The follower.                                                           *)

Respond(store) == rpc' = [type |-> "response", next |-> NextSlot(store)]

HandlePack ==
  /\ rpc.type = "pack"
  /\ LET store == IF rpc.index = NextSlot(log["follower"])
                  THEN ApplyPack(log["follower"], rpc.index, rpc.entries)
                  ELSE log["follower"]
     IN  /\ log' = [log EXCEPT !["follower"] = store]
         /\ quick' = [quick EXCEPT !["follower"] = NextSlot(store) - 1]
         /\ Respond(store)
  /\ UNCHANGED <<sm, thread, next, joined, syncing, expected, restarts>>

\* A gap before the first entry is refused, with the index that would fit.
NewEntries(store) ==
  LET have == NextSlot(store) - rpc.index
  IN  SubSeq(rpc.entries, have + 1, Len(rpc.entries))
\* append() of one after the other, each to the index after the last.
AppendAll(store, es) == [store EXCEPT !.logs = Overlay(@, NextSlot(store), es)]
HandleAppend ==
  /\ rpc.type = "append"
  /\ IF rpc.index > NextSlot(log["follower"])
     THEN UNCHANGED <<log, quick>> /\ Respond(log["follower"])
     ELSE LET store == AppendAll(log["follower"], NewEntries(log["follower"]))
              last == NextSlot(store) - 1
          IN  /\ log' = [log EXCEPT !["follower"] = store]
              /\ quick' = [quick EXCEPT !["follower"] =
                             IF rpc.commit < last THEN rpc.commit ELSE last]
              /\ Respond(store)
  /\ UNCHANGED <<sm, thread, next, joined, syncing, expected, restarts>>

(* The last object of a snapshot, with the commit thread paused: save it,  *)
(* drop the log it replaces, restore the counter.                          *)
HandleSnapshot ==
  /\ rpc.type = "snapshot"
  /\ thread["follower"] = "idle"
  /\ LET i == rpc.index
         store == Compact(log["follower"], i)
     IN  /\ sm' = [sm EXCEPT !["follower"] =
                     ApplySnapshot(SaveLogicalSnpObj(@, i, rpc.value), i)]
         /\ log' = [log EXCEPT !["follower"] = store]
         /\ quick' = [quick EXCEPT !["follower"] = i]
         /\ Respond(store)
  /\ UNCHANGED <<thread, next, joined, syncing, expected, restarts>>

(* Nothing of the log, the counter or the snapshots is on disk.            *)
Restart ==
  /\ restarts < MaxRestarts
  /\ restarts' = restarts + 1
  /\ log' = [log EXCEPT !["follower"] = EmptyStore]
  /\ sm' = [sm EXCEPT !["follower"] = NewStateMachine]
  /\ quick' = [quick EXCEPT !["follower"] = 0]
  /\ thread' = [thread EXCEPT !["follower"] = "idle"]
  /\ rpc' = IF rpc.type = "response" THEN rpc ELSE NoRpc
  /\ UNCHANGED <<next, joined, syncing, expected>>

Next == \/ \E e \in Entries : Replicate(e)
        \/ \E i \in 1..(MaxIndex + 1) : LearnCommit(i)
        \/ \E s \in Server : ApplyEntry(s) \/ StoreIndex(s) \/ SnapshotAndCompact(s)
        \/ SendPack \/ AddServer \/ SendAppend \/ StartSync \/ SendSnapshot
        \/ ReceiveResponse
        \/ HandlePack \/ HandleAppend \/ HandleSnapshot
        \/ Restart

(* The commit threads run, the leader keeps sending heartbeats, and both   *)
(* answer what they receive.  Nobody need send a command or restart.       *)
Fairness ==
  /\ \A s \in Server : WF_vars(ApplyEntry(s)) /\ WF_vars(StoreIndex(s))
                       /\ WF_vars(SnapshotAndCompact(s))
  /\ WF_vars(SendPack) /\ WF_vars(AddServer) /\ WF_vars(SendAppend)
  /\ WF_vars(StartSync) /\ WF_vars(SendSnapshot) /\ WF_vars(ReceiveResponse)
  /\ WF_vars(HandlePack) /\ WF_vars(HandleAppend) /\ WF_vars(HandleSnapshot)

Spec == Init /\ [][Next]_vars /\ Fairness

-----------------------------------------------------------------------------
(* How far the counter of s really is: commit() stores the value first.    *)
Applied(s) == sm[s].committed + IF thread[s] = "applied" THEN 1 ELSE 0

(* Whether it replayed the log, or restored a snapshot and replayed the    *)
(* rest, a node's counter is the sum of exactly the adds up to its commit  *)
(* index, reads and config entries adding nothing, overflow wrapping.      *)
ValueIsExact == \A s \in Server : sm[s].value = ValueAt(Applied(s))

(* A snapshot, kept or on its way to the follower, holds the counter at    *)
(* its own index.                                                          *)
SnapshotsExact ==
  /\ \A s \in Server : \A i \in DOMAIN sm[s].snaps :
       i <= Len(expected) /\ sm[s].snaps[i] = ValueAt(i)
  /\ rpc.type = "snapshot" => rpc.value = ValueAt(rpc.index)

(* The commit thread never meets the dummy that entry_at() substitutes for *)
(* a missing index: compaction and snapshots leave it what it has to apply.*)
CommitsRealEntries ==
  \A s \in Server : sm[s].committed < quick[s] =>
    HasRange(log[s], sm[s].committed + 1, quick[s] + 1)

(* What the leader has compacted away is in a snapshot it still keeps, and *)
(* what it has not is in its log: it can always serve the follower.        *)
CanServeFollower ==
  /\ StartIndex(log["leader"]) - 1 <= LastSnapshot(sm["leader"])
  /\ ~NeedsSnapshot => HasRange(log["leader"], next, NextSlot(log["leader"]))

(* Neither a snapshot nor anything else takes a running node's commit      *)
(* index back; only a restart does.                                        *)
CommitOnlyGrows ==
  [][\A s \in Server : sm'[s].committed >= sm[s].committed \/ restarts' # restarts]_vars

(* The follower ends up with the leader's counter, whenever it joined and  *)
(* however often it lost everything.                                       *)
FollowerCatchesUp == <>[](/\ sm["follower"].committed = sm["leader"].committed
                          /\ sm["follower"].value = sm["leader"].value)
=============================================================================
