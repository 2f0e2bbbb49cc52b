------------------------- MODULE ReplicationProofs --------------------------
(***************************************************************************)
(* The counter is replicated exactly, for every batch size, snapshot       *)
(* distance and number of entries and snapshots kept, and for every width  *)
(* of the counter's integer: the invariants and the action property of     *)
(* Replication, proved.                                                    *)
(*                                                                         *)
(* The induction is on two things.  A Node is a store without a hole whose *)
(* entries fit the history, and a state machine whose counter and          *)
(* snapshots the history explains, the commit thread always having in the  *)
(* store what it must apply next: one lemma per method of the code says    *)
(* that it leaves a node a node.  The Talk is what the leader knows of the *)
(* follower: a request carries the leader's own entries at their index,    *)
(* next_log_idx is never short of the follower's log, and a snapshot is    *)
(* shipped only to a follower whose log ends before it.                    *)
(***************************************************************************)
EXTENDS Replication, FiniteSetTheorems, SequenceTheorems, TLAPS

LEMMA ConstantTypes ==
  /\ HalfRange \in Nat \ {0} /\ kMaxSnapshots \in Nat \ {0}
  /\ SnapshotDistance \in Nat \ {0} /\ Batch \in Nat \ {0}
  /\ ReservedLogItems \in Nat /\ MaxIndex \in Nat /\ MaxRestarts \in Nat
  /\ Delta \subseteq Int
BY ReplicationConstants

-----------------------------------------------------------------------------
(* The counter.                                                            *)

\* The values that fit in the counter's integer type.
Counters == {v \in Int : Wrap(v) = v}

LEMMA WrapFits == ASSUME NEW v \in Int PROVE Wrap(v) \in Counters
<1> DEFINE y == v + HalfRange
           w == 2 * HalfRange
<1>1. y \in Int /\ w \in Nat \ {0} /\ HalfRange \in Int
  BY ConstantTypes
<1> HIDE DEF y, w
<1>2. y % w \in Int /\ (y % w) % w = y % w
  BY <1>1
<1>3. Wrap(v) = (y % w) - HalfRange
  BY DEF Wrap, y, w
<1>4. (y % w) - HalfRange + HalfRange = y % w
  BY <1>1, <1>2
<1>5. Wrap(Wrap(v)) = ((y % w) % w) - HalfRange
  BY <1>3, <1>4 DEF Wrap, w
<1> QED
  BY <1>1, <1>2, <1>3, <1>5 DEF Counters

LEMMA EntryDelta == ASSUME NEW e \in Entries PROVE e.delta \in Int
<1>1. CASE e \in [op : {"ADD"}, delta : Delta]
  <2>1. e.delta \in Delta
    BY <1>1
  <2> QED
    BY <2>1, ConstantTypes
<1>2. CASE e \in [op : {"GET", "CONF"}, delta : {0}]
  BY <1>2
<1> QED
  BY <1>1, <1>2 DEF Entries

LEMMA ZeroFits == 0 \in Counters
<1>1. HalfRange % (2 * HalfRange) = HalfRange
  BY ConstantTypes
<1> QED
  BY <1>1, ConstantTypes DEF Counters, Wrap

(* x stands for the history expected: the counter after each index.        *)
Value(x, i) == IF i = 0 THEN 0 ELSE x[i]
\* The entry e, committed at index i, yields the value x says.
Fits(x, e, i) == /\ e \in Entries /\ i \in 1..Len(x)
                 /\ x[i] = Wrap(Value(x, i - 1) + e.delta)

LEMMA ValueFits ==
  ASSUME NEW x \in Seq(Counters), NEW i \in 0..Len(x) PROVE Value(x, i) \in Counters
BY ZeroFits, LenProperties, ElementOfSeq DEF Value

LEMMA Extended ==
  ASSUME NEW x \in Seq(Counters), NEW v \in Counters
  PROVE  /\ Append(x, v) \in Seq(Counters) /\ Len(Append(x, v)) = Len(x) + 1
         /\ \A i \in 0..Len(x) : Value(Append(x, v), i) = Value(x, i)
         /\ Append(x, v)[Len(x) + 1] = v
         /\ \A e, i : Fits(x, e, i) => Fits(Append(x, v), e, i)
<1>1. /\ Append(x, v) \in Seq(Counters) /\ Len(Append(x, v)) = Len(x) + 1
      /\ \A i \in 1..Len(x) : Append(x, v)[i] = x[i]
      /\ Append(x, v)[Len(x) + 1] = v
      /\ Len(x) \in Nat
  BY AppendProperties, LenProperties
<1>2. \A i \in 0..Len(x) : Value(Append(x, v), i) = Value(x, i)
  BY <1>1 DEF Value
<1>3. ASSUME NEW e, NEW i, Fits(x, e, i) PROVE Fits(Append(x, v), e, i)
  <2>1. i \in 1..Len(x) /\ i - 1 \in 0..Len(x)
    BY <1>1, <1>3 DEF Fits
  <2> QED
    BY <1>1, <1>2, <1>3, <2>1 DEF Fits
<1> QED
  BY <1>1, <1>2, <1>3

-----------------------------------------------------------------------------
(* A log store: entries that fit, from start to last without a hole.       *)
Stored(x, store, last) ==
  /\ store = [logs |-> store.logs, start |-> store.start]
  /\ store.start \in Nat \ {0} /\ last \in Nat
  /\ store.start - 1 <= last /\ last <= Len(x)
  /\ DOMAIN store.logs = {0} \cup (store.start..last)
  /\ \A i \in store.start..last : Fits(x, store.logs[i], i)

(* next_slot() counts the keys, the dummy among them.                      *)
LEMMA StoredSlot ==
  ASSUME NEW x, NEW store, NEW last, Stored(x, store, last)
  PROVE  NextSlot(store) = last + 1
<1>1. store.start \in Nat \ {0} /\ last \in Nat /\ store.start - 1 <= last
  BY DEF Stored
<1> DEFINE a == store.start
<1>2. a \in Int /\ last \in Int
  BY <1>1
<1> HIDE DEF a
<1>3. /\ IsFiniteSet(a..last)
      /\ Cardinality(a..last) = IF a > last THEN 0 ELSE last - a + 1
  BY <1>2, FS_Interval
<1>4. Cardinality(a..last) = last - a + 1
  BY <1>1, <1>3 DEF a
<1>5. 0 \notin a..last
  BY <1>1 DEF a
<1>6. Cardinality((a..last) \cup {0}) = Cardinality(a..last) + 1
  BY <1>3, <1>5, FS_AddElement
<1>7. DOMAIN store.logs = (a..last) \cup {0}
  BY DEF Stored, a
<1> QED
  BY <1>1, <1>4, <1>6, <1>7 DEF NextSlot, a

LEMMA EmptyStored ==
  ASSUME NEW x \in Seq(Counters) PROVE Stored(x, EmptyStore, 0)
BY LenProperties DEF Stored, EmptyStore

LEMMA ExtendedStored ==
  ASSUME NEW x \in Seq(Counters), NEW v \in Counters,
         NEW store, NEW last, Stored(x, store, last)
  PROVE  Stored(Append(x, v), store, last)
<1>1. Len(Append(x, v)) = Len(x) + 1 /\ Len(x) \in Nat
  BY Extended, LenProperties
<1> QED
  BY <1>1, Extended DEF Stored

(* append() of an entry that fits.                                         *)
LEMMA AppendStored ==
  ASSUME NEW x, NEW store, NEW last, Stored(x, store, last), NEW e,
         Fits(x, e, last + 1)
  PROVE  /\ Stored(x, AppendEntry(store, e), last + 1)
         /\ AppendEntry(store, e).start = store.start
<1> DEFINE t == AppendEntry(store, e)
<1>1. t = [logs |-> Put(store.logs, last + 1, e), start |-> store.start]
  BY StoredSlot DEF AppendEntry, Stored
<1>2. /\ store.start \in Nat \ {0} /\ last \in Nat /\ store.start - 1 <= last
      /\ DOMAIN store.logs = {0} \cup (store.start..last)
      /\ last + 1 \in 1..Len(x)
  BY DEF Stored, Fits
<1>3. /\ DOMAIN Put(store.logs, last + 1, e) = {0} \cup (store.start..(last + 1))
      /\ \A i \in store.start..(last + 1) :
           Put(store.logs, last + 1, e)[i] = IF i = last + 1 THEN e ELSE store.logs[i]
  BY <1>2 DEF Put
<1>4. \A i \in store.start..(last + 1) : Fits(x, Put(store.logs, last + 1, e)[i], i)
  BY <1>2, <1>3 DEF Stored
<1> HIDE DEF t
<1> QED
  BY <1>1, <1>2, <1>3, <1>4 DEF Stored, t

(* Entries that fit, behind the last: append() of one after the other.     *)
LEMMA OverlayStored ==
  ASSUME NEW x, NEW store, NEW last, Stored(x, store, last),
         NEW es, NEW n \in Nat, Len(es) = n, last + n <= Len(x), Len(x) \in Nat,
         \A k \in 1..n : Fits(x, es[k], last + k)
  PROVE  Stored(x, [store EXCEPT !.logs = Overlay(@, last + 1, es)], last + n)
<1> DEFINE m == Overlay(store.logs, last + 1, es)
<1>1. /\ store.start \in Nat \ {0} /\ last \in Nat /\ store.start - 1 <= last
      /\ DOMAIN store.logs = {0} \cup (store.start..last)
  BY DEF Stored
<1>2. last + 1 + n - 1 = last + n
  BY <1>1
<1>3. m = [k \in DOMAIN store.logs \cup ((last + 1)..(last + n)) |->
             IF k \in (last + 1)..(last + n) THEN es[k - (last + 1) + 1] ELSE store.logs[k]]
  BY <1>2 DEF Overlay
<1>4. DOMAIN m = {0} \cup (store.start..(last + n))
  <2>1. (store.start..last) \cup ((last + 1)..(last + n)) = store.start..(last + n)
    BY <1>1
  <2>2. DOMAIN m = DOMAIN store.logs \cup ((last + 1)..(last + n))
    BY <1>3
  <2> HIDE DEF m
  <2> QED
    BY <1>1, <2>1, <2>2
<1>5. ASSUME NEW i \in store.start..(last + n) PROVE Fits(x, m[i], i)
  <2>1. CASE i <= last
    <3>1. m[i] = store.logs[i] /\ i \in store.start..last
      BY <1>1, <1>3, <2>1
    <3> QED
      BY <3>1 DEF Stored
  <2>2. CASE i > last
    <3> DEFINE k == i - last
    <3>1. k \in 1..n /\ last + k = i /\ i - (last + 1) + 1 = k
      BY <1>1, <2>2
    <3>2. m[i] = es[k]
      BY <1>1, <1>3, <2>2, <3>1, SMTT(60)
    <3> HIDE DEF k
    <3> QED
      BY <3>1, <3>2
  <2> QED
    BY <1>1, <2>1, <2>2
<1>6. [store EXCEPT !.logs = Overlay(@, last + 1, es)] = [logs |-> m, start |-> store.start]
  BY DEF Stored
<1> HIDE DEF m
<1>7. last + n \in Nat /\ store.start - 1 <= last + n
  BY <1>1
<1> DEFINE t == [logs |-> m, start |-> store.start]
<1>8. t.logs = m /\ t.start = store.start /\ t = [logs |-> t.logs, start |-> t.start]
  OBVIOUS
<1> HIDE DEF t
<1>9. Stored(x, t, last + n)
  BY <1>1, <1>4, <1>5, <1>7, <1>8 DEF Stored
<1> QED
  BY <1>6, <1>9 DEF t

(* A pack goes behind the last entry, and start_idx_ stays.                *)
LEMMA PackStored ==
  ASSUME NEW x, NEW store, NEW last, Stored(x, store, last),
         NEW es, NEW n \in Nat \ {0}, Len(es) = n, last + n <= Len(x), Len(x) \in Nat,
         \A k \in 1..n : Fits(x, es[k], last + k)
  PROVE  /\ Stored(x, ApplyPack(store, last + 1, es), last + n)
         /\ ApplyPack(store, last + 1, es).start = store.start
<1> DEFINE m == Overlay(store.logs, last + 1, es)
           t == [store EXCEPT !.logs = Overlay(@, last + 1, es)]
<1>1. Stored(x, t, last + n) /\ t = [logs |-> m, start |-> store.start]
  <2>1. Stored(x, t, last + n)
    BY OverlayStored
  <2> QED
    BY <2>1 DEF Stored
<1> HIDE DEF m, t
<1>2. DOMAIN m = {0} \cup (store.start..(last + n))
  BY <1>1 DEF Stored
<1>3. store.start \in Nat \ {0} /\ last + n \in Nat /\ store.start <= last + n
  BY DEF Stored
<1>4. FirstKey(m) = store.start
  <2>1. DOMAIN m # {0} /\ store.start \in DOMAIN m \ {0}
    BY <1>2, <1>3
  <2>2. \A k \in DOMAIN m \ {0} : (\A j \in DOMAIN m \ {0} : k <= j) <=> k = store.start
    BY <1>2, <1>3
  <2> QED
    BY <2>1, <2>2 DEF FirstKey
<1>5. ApplyPack(store, last + 1, es) = [logs |-> m, start |-> store.start]
  BY <1>4 DEF ApplyPack, m
<1> QED
  BY <1>1, <1>5

(* compact() past the last entry leaves an empty store, see HandleSnapshot.*)
LEMMA CompactStored ==
  ASSUME NEW x, NEW store, NEW last, Stored(x, store, last), NEW c \in Nat,
         c <= Len(x), Len(x) \in Nat
  PROVE  /\ Stored(x, Compact(store, c), IF last < c THEN c ELSE last)
         /\ Compact(store, c).start = IF store.start <= c THEN c + 1 ELSE store.start
<1> DEFINE t == Compact(store, c)
           first == IF store.start <= c THEN c + 1 ELSE store.start
           end == IF last < c THEN c ELSE last
<1>1. /\ store.start \in Nat \ {0} /\ last \in Nat /\ store.start - 1 <= last
      /\ DOMAIN store.logs = {0} \cup (store.start..last) /\ last <= Len(x)
  BY DEF Stored
<1>2. t.start = first /\ t = [logs |-> t.logs, start |-> t.start]
  BY DEF Compact, CompactedStart
<1>3. DOMAIN store.logs \ (store.start..c) = {0} \cup (first..end)
  BY <1>1
<1>4. t.logs = [k \in {0} \cup (first..end) |-> store.logs[k]]
  BY <1>3 DEF Compact, Restrict
<1>5. first \in Nat \ {0} /\ end \in Nat /\ first - 1 <= end /\ end <= Len(x)
  BY <1>1
<1>6. ASSUME NEW i \in first..end PROVE Fits(x, t.logs[i], i)
  <2>1. i \in store.start..last
    BY <1>1
  <2>2. t.logs[i] = store.logs[i]
    BY <1>4
  <2> QED
    BY <2>1, <2>2 DEF Stored
<1> HIDE DEF t, first, end
<1>7. Stored(x, t, end)
  BY <1>2, <1>4, <1>5, <1>6 DEF Stored
<1> QED
  BY <1>2, <1>7 DEF t, first, end
-----------------------------------------------------------------------------
(* A state machine: its counter is what x says, and so are its snapshots.  *)
Snaps == UNION {[D -> Int] : D \in SUBSET Nat}
Reached(m, th) == m.committed + IF th = "applied" THEN 1 ELSE 0
Machine(x, m, th) ==
  /\ m \in [value : Int, committed : Nat, snaps : Snaps]
  /\ \A i \in DOMAIN m.snaps : i \in 1..m.committed /\ m.snaps[i] = Value(x, i)
  /\ LastSnapshot(m) \in 0..m.committed
  /\ Reached(m, th) <= Len(x)
  /\ m.value = Value(x, Reached(m, th))

(* gc_snapshots_locked() never drops the newest snapshot.                  *)
LEMMA RetainNewest ==
  ASSUME NEW snaps \in Snaps, NEW i \in Nat \ {0}, NEW v \in Int,
         \A j \in DOMAIN snaps : j \in 1..i
  PROVE  /\ Retain(snaps, i, v) \in Snaps
         /\ i \in DOMAIN Retain(snaps, i, v) /\ Retain(snaps, i, v)[i] = v
         /\ \A j \in DOMAIN Retain(snaps, i, v) :
              j # i => j \in DOMAIN snaps /\ Retain(snaps, i, v)[j] = snaps[j]
         /\ \A j \in DOMAIN Retain(snaps, i, v) : j \in 1..i
         /\ Newest(DOMAIN Retain(snaps, i, v)) = i
<1> DEFINE S == DOMAIN snaps \cup {i}
           K == KeptSnapshots(S)
           r == Retain(snaps, i, v)
<1>1. DOMAIN snaps \in SUBSET Nat /\ \A j \in DOMAIN snaps : snaps[j] \in Int
  BY DEF Snaps
<1>2. r = [j \in K |-> IF j = i THEN v ELSE snaps[j]]
  BY DEF Retain
<1>3. i \in K
  <2>1. {j \in S : j > i} = {}
    OBVIOUS
  <2>2. Cardinality({j \in S : j > i}) = 0
    BY <2>1, FS_EmptySet
  <2> QED
    BY <2>2, ConstantTypes DEF KeptSnapshots
<1>4. K \subseteq S
  BY DEF KeptSnapshots
<1> HIDE DEF K
<1>5. \A j \in K : j \in 1..i /\ (j # i => j \in DOMAIN snaps)
  BY <1>4
<1>6. K \in SUBSET Nat
  BY <1>5
<1>7. r \in [K -> Int]
  BY <1>1, <1>2, <1>5
<1> HIDE DEF r
<1>8. r \in Snaps
  BY <1>6, <1>7 DEF Snaps
<1>9. DOMAIN r = K /\ r[i] = v /\ \A j \in K : j # i => r[j] = snaps[j]
  BY <1>2, <1>3
<1>10. Newest(K) = i
  <2>1. \A k \in K : (\A j \in K : j <= k) <=> k = i
    BY <1>3, <1>5
  <2> QED
    BY <1>3, <2>1 DEF Newest
<1> QED
  BY <1>3, <1>5, <1>8, <1>9, <1>10 DEF r

-----------------------------------------------------------------------------
(* A node: what its commit thread still has to apply is in its log.        *)
Node(x, store, last, m, q, th) ==
  /\ Stored(x, store, last) /\ Machine(x, m, th)
  /\ q \in Nat /\ th \in {"idle", "applied", "snapshot"}
  /\ store.start - 1 <= m.committed /\ m.committed <= q /\ q <= last
  /\ th = "applied" => m.committed < q
  /\ th = "snapshot" => m.committed >= 1

LEMMA FreshNode ==
  ASSUME NEW x \in Seq(Counters) PROVE Node(x, EmptyStore, 0, NewStateMachine, 0, "idle")
<1>1. Len(x) \in Nat
  BY LenProperties
<1>2. NewStateMachine \in [value : Int, committed : Nat, snaps : Snaps]
  <2>1. [i \in {} |-> 0] \in [{} -> Int] /\ {} \in SUBSET Nat
    OBVIOUS
  <2>2. [i \in {} |-> 0] \in Snaps
    BY <2>1 DEF Snaps
  <2> QED
    BY <2>2 DEF NewStateMachine
<1>3. Machine(x, NewStateMachine, "idle")
  <2>1. NewStateMachine.value = 0 /\ NewStateMachine.committed = 0
        /\ DOMAIN NewStateMachine.snaps = {}
    BY DEF NewStateMachine
  <2>2. LastSnapshot(NewStateMachine) = 0
    BY <2>1 DEF LastSnapshot
  <2> QED
    BY <1>1, <1>2, <2>1, <2>2 DEF Machine, Reached, Value
<1>4. NewStateMachine.committed = 0 /\ EmptyStore.start = 1
  BY DEF NewStateMachine, EmptyStore
<1> QED
  BY <1>3, <1>4, EmptyStored DEF Node

LEMMA NodeExtended ==
  ASSUME NEW x \in Seq(Counters), NEW v \in Counters,
         NEW store, NEW last, NEW m, NEW q, NEW th, Node(x, store, last, m, q, th)
  PROVE  Node(Append(x, v), store, last, m, q, th)
<1>1. Stored(Append(x, v), store, last)
  BY ExtendedStored DEF Node
<1>2. /\ m \in [value : Int, committed : Nat, snaps : Snaps] /\ Len(x) \in Nat
      /\ Reached(m, th) \in 0..Len(x) /\ m.committed \in 0..Len(x)
  BY LenProperties DEF Node, Machine, Reached
<1>3. /\ Len(Append(x, v)) = Len(x) + 1
      /\ \A i \in 0..Len(x) : Value(Append(x, v), i) = Value(x, i)
  BY Extended
<1>4. \A i \in DOMAIN m.snaps : i \in 1..m.committed /\ m.snaps[i] = Value(x, i)
                                /\ i \in 0..Len(x)
  BY <1>2 DEF Node, Machine
<1>5. Machine(Append(x, v), m, th)
  BY <1>2, <1>3, <1>4 DEF Node, Machine
<1> QED
  BY <1>1, <1>5 DEF Node

(* commit(): the value first, ...                                          *)
LEMMA NodeApplies ==
  ASSUME NEW x \in Seq(Counters), NEW store, NEW last, NEW m, NEW q,
         Node(x, store, last, m, q, "idle"), m.committed < q
  PROVE  Node(x, store, last, CommitValue(m, EntryAt(store, m.committed + 1)), q, "applied")
<1> DEFINE c == m.committed
           e == EntryAt(store, c + 1)
           n == CommitValue(m, e)
<1>1. /\ m \in [value : Int, committed : Nat, snaps : Snaps] /\ c \in Nat
      /\ m.value = Value(x, c) /\ c <= Len(x) /\ Len(x) \in Nat
      /\ \A i \in DOMAIN m.snaps : i \in 1..m.committed /\ m.snaps[i] = Value(x, i)
  BY LenProperties DEF Node, Machine, Reached
<1>2. /\ store.start \in Nat \ {0} /\ last \in Nat /\ q \in Nat
      /\ store.start - 1 <= c /\ c < q /\ q <= last /\ last <= Len(x)
      /\ DOMAIN store.logs = {0} \cup (store.start..last)
  BY DEF Node, Stored
<1> HIDE DEF c
<1>3. c + 1 \in store.start..last
  BY <1>1, <1>2
<1>4. Fits(x, e, c + 1)
  <2>1. e = store.logs[c + 1]
    BY <1>2, <1>3 DEF EntryAt
  <2> HIDE DEF e
  <2> QED
    BY <1>3, <2>1 DEF Node, Stored
<1> HIDE DEF e
<1>5. Value(x, c) \in Counters
  BY <1>1, ValueFits
<1>6. e \in Entries /\ Value(x, c + 1) = Wrap(Value(x, c) + e.delta)
  BY <1>1, <1>4 DEF Fits, Value
<1>7. n.committed = c /\ n.snaps = m.snaps /\ n.value = Value(x, c + 1)
      /\ n \in [value : Int, committed : Nat, snaps : Snaps]
  <2>1. Value(x, c + 1) \in Int
    BY <1>1, <1>2, <1>3, ValueFits, SMTT(60) DEF Counters
  <2>2. CASE e.op = "ADD"
    BY <1>1, <1>6, <2>1, <2>2 DEF CommitValue, c
  <2>3. CASE e.op # "ADD"
    <3>1. e.delta = 0 /\ n = m
      BY <1>6, <2>3 DEF Entries, CommitValue
    <3>2. Value(x, c) \in Int /\ Wrap(Value(x, c)) = Value(x, c)
      BY <1>5 DEF Counters
    <3>3. Value(x, c) + e.delta = Value(x, c)
      BY <3>1, <3>2
    <3>4. Value(x, c + 1) = Value(x, c)
      BY <1>6, <3>2, <3>3
    <3> QED
      BY <1>1, <3>1, <3>4 DEF c
  <2> QED
    BY <2>2, <2>3
<1> HIDE DEF n
<1>8. LastSnapshot(n) \in 0..n.committed
  BY <1>1, <1>7 DEF Node, Machine, LastSnapshot, c
<1>9. Machine(x, n, "applied")
  BY <1>1, <1>2, <1>7, <1>8 DEF Machine, Reached, c
<1> QED
  BY <1>1, <1>2, <1>7, <1>9 DEF Node, n, e, c

(* ... then the index.                                                     *)
LEMMA NodeCommits ==
  ASSUME NEW x \in Seq(Counters), NEW store, NEW last, NEW m, NEW q,
         NEW th \in {"idle", "snapshot"}, Node(x, store, last, m, q, "applied")
  PROVE  Node(x, store, last, CommitIndex(m, m.committed + 1), q, th)
<1> DEFINE n == CommitIndex(m, m.committed + 1)
<1>1. /\ m \in [value : Int, committed : Nat, snaps : Snaps] /\ m.committed \in Nat
      /\ m.value = Value(x, m.committed + 1) /\ m.committed + 1 <= Len(x)
      /\ \A i \in DOMAIN m.snaps : i \in 1..m.committed /\ m.snaps[i] = Value(x, i)
  BY DEF Node, Machine, Reached
<1>2. /\ n \in [value : Int, committed : Nat, snaps : Snaps]
      /\ n.committed = m.committed + 1 /\ n.value = m.value /\ n.snaps = m.snaps
  BY <1>1 DEF CommitIndex
<1> HIDE DEF n
<1>3. Machine(x, n, th)
  <2>1. LastSnapshot(n) \in 0..n.committed
    BY <1>1, <1>2 DEF Node, Machine, LastSnapshot
  <2> QED
    BY <1>1, <1>2, <2>1 DEF Machine, Reached
<1>4. Stored(x, store, last) /\ q \in Nat /\ store.start - 1 <= m.committed /\ m.committed < q /\ q <= last
      /\ store.start \in Nat
  BY DEF Node, Stored
<1> QED
  BY <1>1, <1>2, <1>3, <1>4 DEF Node, n

(* create_snapshot(), then compact() behind it.                            *)
LEMMA NodeSnapshots ==
  ASSUME NEW x \in Seq(Counters), NEW store, NEW last, NEW m, NEW q,
         Node(x, store, last, m, q, "snapshot"), NEW c \in Nat, c <= m.committed,
         NEW kept, kept \in {store, Compact(store, c)}
  PROVE  /\ Node(x, kept, last, CreateSnapshot(m, m.committed), q, "idle")
         /\ LastSnapshot(CreateSnapshot(m, m.committed)) = m.committed
         /\ CreateSnapshot(m, m.committed).committed = m.committed
         /\ kept.start - 1 <= m.committed
         /\ kept.start >= store.start
<1> DEFINE i == m.committed
           n == CreateSnapshot(m, i)
           r == Retain(m.snaps, i, m.value)
<1>1. /\ m \in [value : Int, committed : Nat, snaps : Snaps] /\ i \in Nat \ {0}
      /\ m.value = Value(x, i) /\ i <= Len(x) /\ m.value \in Int /\ m.snaps \in Snaps
      /\ \A j \in DOMAIN m.snaps : j \in 1..i /\ m.snaps[j] = Value(x, j)
  BY DEF Node, Machine, Reached
<1>2. /\ Stored(x, store, last) /\ q \in Nat /\ store.start - 1 <= i /\ i <= q /\ q <= last
      /\ store.start \in Nat \ {0} /\ last \in Nat /\ last <= Len(x) /\ Len(x) \in Nat
  BY LenProperties DEF Node, Stored
<1>3. /\ n \in [value : Int, committed : Nat, snaps : {n.snaps}] /\ n.snaps = r
      /\ n.committed = i /\ n.value = m.value
  BY <1>1 DEF CreateSnapshot
<1> HIDE DEF n, i
<1>4. /\ r \in Snaps /\ i \in DOMAIN r /\ r[i] = m.value /\ Newest(DOMAIN r) = i
      /\ \A j \in DOMAIN r : j \in 1..i
      /\ \A j \in DOMAIN r : j # i => j \in DOMAIN m.snaps /\ r[j] = m.snaps[j]
  BY <1>1, RetainNewest
<1> HIDE DEF r
<1>5. LastSnapshot(n) = i
  BY <1>3, <1>4 DEF LastSnapshot
<1>6. Machine(x, n, "idle")
  BY <1>1, <1>3, <1>4, <1>5 DEF Machine, Reached
<1>7. Stored(x, kept, last) /\ kept.start - 1 <= i /\ kept.start >= store.start
  <2>1. CASE kept = store
    BY <1>2, <2>1
  <2>2. CASE kept = Compact(store, c)
    <3>1. c <= Len(x) /\ ~(last < c) /\ c <= i
      BY <1>1, <1>2 DEF i
    <3>2. /\ Stored(x, Compact(store, c), IF last < c THEN c ELSE last)
          /\ Compact(store, c).start = IF store.start <= c THEN c + 1 ELSE store.start
      BY <1>2, <3>1, CompactStored
    <3> QED
      BY <1>1, <1>2, <2>2, <3>1, <3>2
  <2> QED
    BY <2>1, <2>2
<1>8. Node(x, kept, last, n, q, "idle")
  BY <1>2, <1>3, <1>6, <1>7 DEF Node
<1> QED
  BY <1>3, <1>5, <1>7, <1>8 DEF n, i

(* save_logical_snp_obj(), compact() and apply_snapshot() of a snapshot    *)
(* that lies behind the whole log.                                         *)
LEMMA NodeInstalls ==
  ASSUME NEW x \in Seq(Counters), NEW store, NEW last, NEW m, NEW q,
         Node(x, store, last, m, q, "idle"),
         NEW i \in Nat, last < i, i <= Len(x), NEW v, v = Value(x, i)
  PROVE  /\ Node(x, Compact(store, i), i, ApplySnapshot(SaveLogicalSnpObj(m, i, v), i), i, "idle")
         /\ ApplySnapshot(SaveLogicalSnpObj(m, i, v), i).committed = i
<1> DEFINE n == SaveLogicalSnpObj(m, i, v)
           a == ApplySnapshot(n, i)
           r == Retain(m.snaps, i, v)
<1>1. /\ m \in [value : Int, committed : Nat, snaps : Snaps] /\ m.snaps \in Snaps
      /\ \A j \in DOMAIN m.snaps : j \in 1..m.committed /\ m.snaps[j] = Value(x, j)
      /\ m.committed \in Nat
  BY DEF Node, Machine
<1>2. /\ Stored(x, store, last) /\ m.committed <= last
      /\ store.start \in Nat \ {0} /\ last \in Nat /\ Len(x) \in Nat /\ store.start - 1 <= last
  BY <1>1, LenProperties DEF Node, Stored
<1>3. i \in Nat \ {0} /\ \A j \in DOMAIN m.snaps : j \in 1..i /\ j # i
  BY <1>1, <1>2
<1>4. v \in Int
  <2>1. i \in 0..Len(x)
    BY <1>2
  <2> QED
    BY <2>1, ValueFits DEF Counters
<1>5. /\ r \in Snaps /\ i \in DOMAIN r /\ r[i] = v
      /\ \A j \in DOMAIN r : j \in 1..i
      /\ \A j \in DOMAIN r : j # i => j \in DOMAIN m.snaps /\ r[j] = m.snaps[j]
      /\ Newest(DOMAIN r) = i
  BY <1>1, <1>3, <1>4, RetainNewest
<1>6. n = [value |-> m.value, committed |-> m.committed, snaps |-> r]
  BY <1>1 DEF SaveLogicalSnpObj
<1> HIDE DEF n, r
<1>7. a = [value |-> v, committed |-> i, snaps |-> r]
  BY <1>5, <1>6 DEF ApplySnapshot, HasSnapshot
<1> HIDE DEF a
<1>8. Machine(x, a, "idle")
  <2>1. LastSnapshot(a) = i
    BY <1>5, <1>7 DEF LastSnapshot
  <2> QED
    BY <1>1, <1>3, <1>4, <1>5, <1>7, <2>1 DEF Machine, Reached
<1>9. /\ Stored(x, Compact(store, i), IF last < i THEN i ELSE last)
      /\ Compact(store, i).start = IF store.start <= i THEN i + 1 ELSE store.start
  BY <1>2, CompactStored
<1>10. Stored(x, Compact(store, i), i) /\ Compact(store, i).start - 1 <= i
  BY <1>2, <1>9
<1> QED
  BY <1>7, <1>8, <1>10 DEF Node, a, n

(* Entries at the end of the log, a commit index learnt.                   *)
LEMMA NodeReceives ==
  ASSUME NEW x, NEW store, NEW last, NEW m, NEW q, NEW th, Node(x, store, last, m, q, th),
         NEW t, NEW end, Stored(x, t, end), t.start = store.start,
         NEW r \in Nat, q <= r, r <= end
  PROVE  Node(x, t, end, m, r, th)
<1>1. m.committed \in Nat /\ q \in Nat /\ end \in Nat
  BY DEF Node, Machine, Stored
<1> QED
  BY <1>1 DEF Node

-----------------------------------------------------------------------------
(* The inductive invariant.                                                *)
Last(s) == NextSlot(log[s]) - 1
Types == /\ DOMAIN log = Server /\ DOMAIN sm = Server
         /\ DOMAIN quick = Server /\ DOMAIN thread = Server
         /\ next \in Nat \ {0} /\ joined \in BOOLEAN /\ syncing \in Nat
         /\ expected \in Seq(Counters)
Nodes == \A s \in Server : Node(expected, log[s], Last(s), sm[s], quick[s], thread[s])

(* The leader has the whole log, and a snapshot of what it compacted.      *)
LeaderLog == /\ Last("leader") = Len(expected)
             /\ log["leader"].start - 1 <= LastSnapshot(sm["leader"])

(* The follower is not ahead: only members hold uncommitted entries.       *)
Behind == /\ quick["follower"] <= quick["leader"]
          /\ ~joined => Last("follower") <= quick["leader"]

(* A request carries what the leader committed or logged, at its index.    *)
Carries == /\ syncing = 0 /\ rpc.index \in Nat \ {0}
           /\ rpc.entries \in Seq(Entries)
           /\ \A k \in 1..Len(rpc.entries) : Fits(expected, rpc.entries[k], rpc.index + k - 1)
Request ==
  /\ rpc.type = "pack" =>
       /\ Carries /\ ~joined /\ Len(rpc.entries) >= 1
       /\ rpc.index + Len(rpc.entries) - 1 <= quick["leader"]
  /\ rpc.type = "append" =>
       /\ Carries /\ joined
       /\ rpc.commit \in Nat /\ quick["follower"] <= rpc.commit /\ rpc.commit <= quick["leader"]
  /\ rpc.type = "snapshot" =>
       rpc.index = syncing /\ syncing > 0 /\ rpc.value = Value(expected, syncing)

(* The leader's idea of the follower: never short of it, except while its  *)
(* answer is on the way.                                                   *)
Known ==
  /\ rpc.type = "response" =>
       rpc.next \in Nat /\ Last("follower") + 1 <= rpc.next /\ rpc.next <= Len(expected) + 1
  /\ rpc.type # "response" => Last("follower") + 1 <= next
  /\ next <= Len(expected) + 1

(* A snapshot is shipped to a follower that ends before it.                *)
Sync ==
  syncing > 0 =>
    /\ syncing <= sm["leader"].committed
    /\ rpc.type # "response" => next < log["leader"].start /\ next <= syncing

Talk == Behind /\ Request /\ Known /\ Sync
ReplInv == Types /\ Nodes /\ LeaderLog /\ Talk

(* The numbers behind Nodes.                                               *)
LEMMA NodeFacts ==
  ASSUME NEW x \in Seq(Counters), NEW store, NEW m, NEW q, NEW th,
         Node(x, store, NextSlot(store) - 1, m, q, th)
  PROVE  /\ NextSlot(store) - 1 \in Nat /\ NextSlot(store) \in Nat
         /\ NextSlot(store) - 1 <= Len(x) /\ Len(x) \in Nat
         /\ store.start \in Nat \ {0} /\ store.start <= NextSlot(store)
         /\ DOMAIN store.logs = {0} \cup (store.start..(NextSlot(store) - 1))
         /\ \A i \in store.start..(NextSlot(store) - 1) : Fits(x, store.logs[i], i)
         /\ q \in Nat /\ q <= NextSlot(store) - 1
         /\ m.committed \in Nat /\ store.start - 1 <= m.committed /\ m.committed <= q
         /\ m = [m EXCEPT !.snaps = m.snaps]
         /\ LastSnapshot(m) \in 0..m.committed
         /\ th = "applied" => m.committed < q
         /\ \A i \in DOMAIN m.snaps : i \in 1..m.committed /\ m.snaps[i] = Value(x, i)
         /\ m.value = Value(x, Reached(m, th))
<1> DEFINE last == NextSlot(store) - 1
<1>1. last \in Nat /\ last + 1 = NextSlot(store)
  BY StoredSlot DEF Node, Stored
<1> HIDE DEF last
<1>2. Node(x, store, last, m, q, th)
  BY DEF last
<1>3. m \in [value : Int, committed : Nat, snaps : Snaps]
  BY <1>2 DEF Node, Machine
<1>4. m.committed \in Nat /\ m = [m EXCEPT !.snaps = m.snaps]
  BY <1>3
<1>5. /\ last <= Len(x) /\ store.start \in Nat \ {0} /\ store.start <= last + 1
      /\ DOMAIN store.logs = {0} \cup (store.start..last)
      /\ \A i \in store.start..last : Fits(x, store.logs[i], i)
  BY <1>1, <1>2 DEF Node, Stored
<1>6. /\ q \in Nat /\ q <= last /\ store.start - 1 <= m.committed /\ m.committed <= q
      /\ LastSnapshot(m) \in 0..m.committed
      /\ th = "applied" => m.committed < q
      /\ \A i \in DOMAIN m.snaps : i \in 1..m.committed /\ m.snaps[i] = Value(x, i)
      /\ m.value = Value(x, Reached(m, th))
  BY <1>2 DEF Node, Machine
<1> QED
  BY <1>1, <1>4, <1>5, <1>6, LenProperties DEF last

LEMMA InitInv == Init => ReplInv
<1> SUFFICES ASSUME Init PROVE ReplInv
  OBVIOUS
<1>1. expected = <<>> /\ expected \in Seq(Counters) /\ Len(expected) = 0
  BY EmptySeq DEF Init
<1>2. Stored(expected, EmptyStore, 0) /\ Node(expected, EmptyStore, 0, NewStateMachine, 0, "idle")
  BY <1>1, EmptyStored, FreshNode
<1>3. NextSlot(EmptyStore) = 1
  BY <1>2, StoredSlot
<1>4. \A s \in Server : /\ log[s] = EmptyStore /\ sm[s] = NewStateMachine /\ quick[s] = 0
                        /\ thread[s] = "idle" /\ Last(s) = 0
  BY <1>3 DEF Init, Last
<1>5. Types
  <2>1. joined \in BOOLEAN
    BY DEF Init
  <2> QED
    BY <1>1, <2>1 DEF Init, Types
<1>6. Nodes
  BY <1>2, <1>4 DEF Nodes
<1>7. LastSnapshot(NewStateMachine) = 0 /\ EmptyStore.start = 1
  BY DEF LastSnapshot, NewStateMachine, EmptyStore
<1>8. LeaderLog
  BY <1>1, <1>4, <1>7 DEF LeaderLog, Server
<1>9. rpc.type = "none" /\ next = 1 /\ syncing = 0
  BY DEF Init, NoRpc
<1>10. Talk
  BY <1>1, <1>4, <1>9 DEF Talk, Behind, Request, Known, Sync, Server
<1> QED
  BY <1>5, <1>6, <1>8, <1>10 DEF ReplInv

-----------------------------------------------------------------------------
(* Steps that leave the conversation alone: the history is extended, the   *)
(* leader moves on, the follower's log ends where it did.                  *)
MovesOn ==
  /\ UNCHANGED <<next, rpc, syncing>>
  /\ joined => joined'
  /\ rpc.type = "pack" => (joined' <=> joined)
  /\ Last("follower")' = Last("follower") /\ quick'["follower"] = quick["follower"]
  /\ quick'["leader"] \in Nat /\ quick["leader"] <= quick'["leader"]
  /\ log'["leader"].start \in Nat /\ log["leader"].start <= log'["leader"].start
  /\ sm'["leader"].committed \in Nat /\ sm["leader"].committed <= sm'["leader"].committed
  /\ expected' = expected \/ \E v \in Counters : expected' = Append(expected, v)

LEMMA InvFacts ==
  ASSUME ReplInv, NEW s \in Server
  PROVE  /\ Last(s) \in Nat /\ NextSlot(log[s]) = Last(s) + 1 /\ Last(s) <= Len(expected)
         /\ Len(expected) \in Nat
         /\ log[s].start \in Nat \ {0} /\ log[s].start - 1 <= Last(s)
         /\ quick[s] \in Nat /\ quick[s] <= Last(s)
         /\ sm[s].committed \in Nat /\ log[s].start - 1 <= sm[s].committed
         /\ sm[s].committed <= quick[s]
         /\ LastSnapshot(sm[s]) \in 0..sm[s].committed
         /\ \A i \in DOMAIN sm[s].snaps :
              i \in 1..sm[s].committed /\ sm[s].snaps[i] = Value(expected, i)
<1>1. expected \in Seq(Counters) /\ Node(expected, log[s], NextSlot(log[s]) - 1, sm[s], quick[s], thread[s])
  BY DEF ReplInv, Types, Nodes, Last
<1> QED
  BY <1>1, NodeFacts DEF Last

LEMMA TalkKept == ASSUME ReplInv, MovesOn PROVE Talk'
<1>1. "leader" \in Server /\ "follower" \in Server
  BY DEF Server
<1>2. /\ Len(expected) \in Nat /\ Last("follower") \in Nat
      /\ quick["leader"] \in Nat /\ quick["follower"] \in Nat
      /\ log["leader"].start \in Nat /\ sm["leader"].committed \in Nat
      /\ sm["leader"].committed <= Len(expected)
  <2>1. /\ Len(expected) \in Nat /\ Last("follower") \in Nat /\ quick["follower"] \in Nat
    BY <1>1, InvFacts
  <2>2. /\ quick["leader"] \in Nat /\ log["leader"].start \in Nat /\ sm["leader"].committed \in Nat
        /\ Last("leader") \in Nat /\ sm["leader"].committed <= quick["leader"]
        /\ quick["leader"] <= Last("leader") /\ Last("leader") <= Len(expected)
    BY <1>1, InvFacts
  <2> QED
    BY <2>1, <2>2
<1>3. /\ Len(expected') \in Nat /\ Len(expected) <= Len(expected')
      /\ \A i \in 0..Len(expected) : Value(expected', i) = Value(expected, i)
      /\ \A e, i : Fits(expected, e, i) => Fits(expected', e, i)
  <2>1. CASE expected' = expected
    BY <1>2, <2>1
  <2>2. CASE \E v \in Counters : expected' = Append(expected, v)
    <3>1. PICK v \in Counters : expected' = Append(expected, v)
      BY <2>2
    <3>2. expected \in Seq(Counters)
      BY DEF ReplInv, Types
    <3> QED
      BY <1>2, <3>1, <3>2, Extended
  <2> QED
    BY <2>1, <2>2 DEF MovesOn
<1>4. Behind'
  BY <1>2 DEF ReplInv, Talk, Behind, MovesOn
<1>5. Carries => Carries'
  BY <1>3 DEF Carries, MovesOn
<1>6. syncing > 0 => syncing \in 0..Len(expected)
  BY <1>2 DEF ReplInv, Types, Talk, Sync
<1>7. Request'
  <2>1. ASSUME rpc.type = "pack"
        PROVE  /\ Carries' /\ ~joined' /\ Len(rpc'.entries) >= 1
               /\ rpc'.index + Len(rpc'.entries) - 1 <= quick'["leader"]
    <3>1. /\ Carries /\ ~joined /\ Len(rpc.entries) >= 1
          /\ rpc.index + Len(rpc.entries) - 1 <= quick["leader"]
      BY <2>1 DEF ReplInv, Talk, Request
    <3>2. rpc.index \in Nat /\ Len(rpc.entries) \in Nat
      BY <3>1, LenProperties DEF Carries
    <3>3. /\ rpc' = rpc /\ ~joined'
          /\ quick["leader"] <= quick'["leader"] /\ quick'["leader"] \in Nat
      BY <2>1, <3>1 DEF MovesOn
    <3>4. Carries'
      BY <1>5, <3>1
    <3>5. rpc.index + Len(rpc.entries) - 1 <= quick'["leader"]
      BY <1>2, <3>1, <3>2, <3>3
    <3> QED
      BY <3>1, <3>3, <3>4, <3>5
  <2>2. ASSUME rpc.type = "append"
        PROVE  /\ Carries' /\ joined' /\ rpc'.commit \in Nat
               /\ quick'["follower"] <= rpc'.commit /\ rpc'.commit <= quick'["leader"]
    <3>1. /\ Carries /\ joined /\ rpc.commit \in Nat
          /\ quick["follower"] <= rpc.commit /\ rpc.commit <= quick["leader"]
      BY <2>2 DEF ReplInv, Talk, Request
    <3>2. joined'
      BY <3>1 DEF MovesOn
    <3> QED
      BY <1>2, <1>5, <3>1, <3>2 DEF MovesOn
  <2>3. ASSUME rpc.type = "snapshot"
        PROVE  rpc'.index = syncing' /\ syncing' > 0 /\ rpc'.value = Value(expected', syncing')
    BY <1>3, <1>6, <2>3 DEF ReplInv, Talk, Request, MovesOn
  <2>4. rpc' = rpc
    BY DEF MovesOn
  <2> QED
    BY <2>1, <2>2, <2>3, <2>4 DEF Request
<1>8. Known'
  <2>1. Known /\ next \in Nat
    BY DEF ReplInv, Types, Talk
  <2>2. /\ next' = next /\ rpc' = rpc /\ Last("follower")' = Last("follower")
    BY DEF MovesOn
  <2>3. next <= Len(expected') + 1
    BY <1>2, <1>3, <2>1 DEF Known
  <2>4. rpc.type = "response" /\ rpc.next \in Nat /\ rpc.next <= Len(expected) + 1
          => rpc.next <= Len(expected') + 1
    BY <1>2, <1>3
  <2> QED
    BY <1>2, <1>3, <2>1, <2>2, <2>3, <2>4 DEF Known
<1>9. Sync'
  BY <1>2, SMTT(60) DEF ReplInv, Types, Talk, Sync, MovesOn
<1> QED
  BY <1>4, <1>7, <1>8, <1>9 DEF Talk

-----------------------------------------------------------------------------
(* The leader appends an entry, with everything else but joined unchanged. *)
LEMMA AppendKeeps ==
  ASSUME ReplInv, NEW e \in Entries, Append1(e),
         UNCHANGED <<sm, quick, thread, next, rpc, syncing>>,
         joined' \in BOOLEAN, joined => joined', rpc.type = "pack" => (joined' <=> joined)
  PROVE  ReplInv'
<1> DEFINE x == expected
           v == Wrap(ValueAt(Len(expected)) + e.delta)
           l == "leader"
           f == "follower"
           y == Append(expected, v)
           t == AppendEntry(log[l], e)
<1>1. x \in Seq(Counters) /\ Len(x) \in Nat /\ Last(l) = Len(x) /\ Last(l) \in Nat
  <2>1. x \in Seq(Counters) /\ Last(l) = Len(x)
    BY DEF ReplInv, Types, LeaderLog
  <2> HIDE DEF x, l
  <2>2. Len(x) \in Nat
    BY <2>1, LenProperties
  <2> QED
    BY <2>1, <2>2
<1>2. l \in Server /\ f \in Server /\ l # f /\ \A s \in Server : s # l => s = f
  BY DEF Server
<1>3. e.delta \in Int
  BY EntryDelta
<1>4. ValueAt(Len(x)) = Value(x, Len(x)) /\ ValueAt(Len(x)) \in Int
  <2>1. ValueAt(Len(x)) = Value(x, Len(x))
    BY DEF ValueAt, Value
  <2>2. Value(x, Len(x)) \in Counters
    BY <1>1, ValueFits
  <2> QED
    BY <2>1, <2>2 DEF Counters
<1>5. v \in Counters
  BY <1>3, <1>4, WrapFits
<1>6. /\ y \in Seq(Counters) /\ Len(y) = Len(x) + 1 /\ y[Len(x) + 1] = v
      /\ Value(y, Len(x)) = Value(x, Len(x))
  BY <1>1, <1>5, Extended
<1>7. expected' = y /\ log'[l] = t /\ log'[f] = log[f] /\ DOMAIN log' = Server
  BY <1>2 DEF Append1, ReplInv, Types
<1>8. Fits(y, e, Last(l) + 1)
  <2>1. v = Wrap(Value(y, Len(x)) + e.delta)
    BY <1>4, <1>6
  <2> HIDE DEF v, y, x, l
  <2>2. Last(l) + 1 \in 1..Len(y) /\ Last(l) + 1 - 1 = Len(x)
    BY <1>1, <1>6
  <2> QED
    BY <1>1, <1>6, <2>1, <2>2 DEF Fits
<1> HIDE DEF v
<1>9. \A s \in Server : Node(y, log[s], Last(s), sm[s], quick[s], thread[s])
  <2>1. \A s \in Server : Node(x, log[s], Last(s), sm[s], quick[s], thread[s])
    BY DEF ReplInv, Nodes
  <2> QED
    BY <1>1, <1>5, <2>1, NodeExtended
<1> HIDE DEF y, x
<1>10. Stored(y, t, Last(l) + 1) /\ t.start = log[l].start
  <2>1. Stored(y, log[l], Last(l))
    BY <1>2, <1>9 DEF Node
  <2> HIDE DEF l
  <2> QED
    BY <1>8, <2>1, AppendStored
<1> HIDE DEF t
<1>11. NextSlot(t) - 1 = Last(l) + 1
  BY <1>1, <1>10, StoredSlot
<1>12. quick[l] \in Nat /\ quick[l] <= Last(l) /\ log[l].start \in Nat /\ sm[l].committed \in Nat
  BY <1>2, InvFacts
<1>13. Node(y, t, Last(l) + 1, sm[l], quick[l], thread[l])
  BY <1>1, <1>2, <1>9, <1>10, <1>12, NodeReceives
<1>14. Last(l)' = Last(l) + 1 /\ Last(f)' = Last(f)
  BY <1>7, <1>11 DEF Last
<1>15. Nodes'
  BY <1>2, <1>7, <1>9, <1>13, <1>14 DEF Nodes
<1>16. Types'
  BY <1>6, <1>7 DEF ReplInv, Types
<1>17. LeaderLog'
  BY <1>1, <1>6, <1>7, <1>10, <1>14 DEF ReplInv, LeaderLog
<1>18. MovesOn
  <2>1. log'[l].start = log[l].start /\ sm'[l] = sm[l] /\ quick' = quick
    BY <1>7, <1>10
  <2>2. expected' = Append(expected, v)
    BY <1>7 DEF y
  <2>3. UNCHANGED <<next, rpc, syncing>>
    OBVIOUS
  <2> QED
    BY <1>5, <1>12, <1>14, <2>1, <2>2, <2>3 DEF MovesOn
<1> QED
  BY <1>15, <1>16, <1>17, <1>18, TalkKept DEF ReplInv

LEMMA ReplicateKeeps == ASSUME ReplInv, NEW e \in Entries, Replicate(e) PROVE ReplInv'
<1>1. Append1(e) /\ UNCHANGED <<sm, quick, thread, next, rpc, syncing, joined>>
  BY DEF Replicate
<1>2. joined \in BOOLEAN
  BY DEF ReplInv, Types
<1>3. joined' \in BOOLEAN /\ (joined => joined') /\ (rpc.type = "pack" => (joined' <=> joined))
  BY <1>1, <1>2
<1> QED
  BY <1>1, <1>3, AppendKeeps

LEMMA AddServerKeeps == ASSUME ReplInv, AddServer PROVE ReplInv'
<1>1. [op |-> "CONF", delta |-> 0] \in Entries
  BY DEF Entries
<1>2. /\ Append1([op |-> "CONF", delta |-> 0])
      /\ UNCHANGED <<sm, quick, thread, next, rpc, syncing>>
  BY DEF AddServer
<1>3. rpc.type # "pack"
  BY DEF AddServer, NoRpc
<1>4. joined' \in BOOLEAN /\ (joined => joined')
  BY DEF AddServer
<1> QED
  BY <1>1, <1>2, <1>3, <1>4, AppendKeeps

LEMMA LearnCommitKeeps == ASSUME ReplInv, NEW i \in Nat, LearnCommit(i) PROVE ReplInv'
<1> DEFINE l == "leader"
<1>1. l \in Server /\ "follower" \in Server
  BY DEF Server
<1>2. /\ UNCHANGED <<log, sm, thread, next, joined, rpc, syncing, expected>>
      /\ quick[l] < i /\ i < NextSlot(log[l])
      /\ quick' = [quick EXCEPT ![l] = i] /\ DOMAIN quick = Server
  BY DEF LearnCommit, ReplInv, Types
<1>3. /\ Last(l) \in Nat /\ NextSlot(log[l]) = Last(l) + 1 /\ quick[l] \in Nat
      /\ log[l].start \in Nat /\ sm[l].committed \in Nat
  BY <1>1, InvFacts
<1>4. \A s \in Server : Last(s)' = Last(s)
  BY <1>2 DEF Last
<1>5. Nodes'
  <2>1. Nodes
    BY DEF ReplInv
  <2>2. Stored(expected, log[l], Last(l)) /\ Node(expected, log[l], Last(l), sm[l], quick[l], thread[l])
    BY <1>1, <2>1 DEF Nodes, Node
  <2>3. Node(expected, log[l], Last(l), sm[l], i, thread[l])
    BY <1>2, <1>3, <2>2, NodeReceives
  <2>4. \A s \in Server : quick'[s] = IF s = l THEN i ELSE quick[s]
    BY <1>2
  <2> HIDE DEF l
  <2> QED
    BY <1>2, <1>4, <2>1, <2>3, <2>4 DEF Nodes
<1>6. Types'
  BY <1>2 DEF ReplInv, Types
<1>7. LeaderLog'
  BY <1>1, <1>2, <1>4 DEF ReplInv, LeaderLog
<1>8. MovesOn
  BY <1>1, <1>2, <1>3, <1>4 DEF MovesOn
<1> QED
  BY <1>5, <1>6, <1>7, <1>8, TalkKept DEF ReplInv

(* The commit thread of a node: its log may be compacted, nothing else.    *)
LEMMA ThreadKeeps ==
  ASSUME ReplInv, NEW s \in Server, NEW store, NEW m, NEW th,
         Node(expected, store, Last(s), m, quick[s], th),
         sm' = [sm EXCEPT ![s] = m], thread' = [thread EXCEPT ![s] = th],
         DOMAIN log' = Server, \A o \in Server : log'[o] = IF o = s THEN store ELSE log[o],
         UNCHANGED <<quick, next, joined, rpc, syncing, expected>>,
         log[s].start <= store.start, sm[s].committed <= m.committed,
         s = "leader" => store.start - 1 <= LastSnapshot(m)
  PROVE  ReplInv'
<1> DEFINE l == "leader"
           f == "follower"
<1>1. l \in Server /\ f \in Server /\ l # f
  BY DEF Server
<1>2. DOMAIN sm = Server /\ DOMAIN thread = Server /\ DOMAIN log = Server
  BY DEF ReplInv, Types
<1>3. /\ sm'[s] = m /\ thread'[s] = th /\ log'[s] = store
      /\ \A o \in Server : o # s => sm'[o] = sm[o] /\ thread'[o] = thread[o] /\ log'[o] = log[o]
  BY <1>2
<1>4. NextSlot(store) - 1 = Last(s)
  <2>1. Stored(expected, store, Last(s))
    BY DEF Node
  <2>2. NextSlot(store) = Last(s) + 1 /\ Last(s) \in Nat
    BY <2>1, StoredSlot DEF Stored
  <2> QED
    BY <2>2
<1>5. \A o \in Server : Last(o)' = Last(o)
  BY <1>3, <1>4 DEF Last
<1>6. Nodes'
  <2> SUFFICES ASSUME NEW o \in Server
               PROVE  Node(expected, log'[o], Last(o), sm'[o], quick[o], thread'[o])
    BY <1>5 DEF Nodes
  <2>1. CASE o = s
    BY <1>3, <2>1
  <2>2. CASE o # s
    BY <1>3, <2>2 DEF ReplInv, Nodes
  <2> QED
    BY <2>1, <2>2
<1>7. Types'
  <2>1. DOMAIN sm' = Server /\ DOMAIN thread' = Server /\ DOMAIN log' = Server
    BY <1>2
  <2> QED
    BY <2>1 DEF ReplInv, Types
<1>8. LeaderLog'
  <2>1. log'[l].start - 1 <= LastSnapshot(sm'[l])
    <3>1. CASE s = l
      BY <1>3, <3>1
    <3>2. CASE s # l
      BY <1>1, <1>3, <3>2 DEF ReplInv, LeaderLog
    <3> QED
      BY <3>1, <3>2
  <2>2. Last(l)' = Len(expected)
    BY <1>1, <1>5 DEF ReplInv, LeaderLog
  <2> QED
    BY <2>1, <2>2 DEF LeaderLog
<1>9. MovesOn
  <2>1. quick[l] \in Nat /\ log[l].start \in Nat /\ sm[l].committed \in Nat
    BY <1>1, InvFacts
  <2>2. /\ log'[l].start \in Nat /\ log[l].start <= log'[l].start
        /\ sm'[l].committed \in Nat /\ sm[l].committed <= sm'[l].committed
    <3>1. CASE s = l
      <4>1. store.start \in Nat /\ m.committed \in Nat
        BY DEF Node, Machine, Stored
      <4> QED
        BY <1>3, <3>1, <4>1
    <3>2. CASE s # l
      BY <1>1, <1>3, <2>1, <3>2
    <3> QED
      BY <3>1, <3>2
  <2>3. Last(f)' = Last(f)
    BY <1>1, <1>5
  <2>4. UNCHANGED <<next, rpc, syncing>> /\ joined' = joined /\ quick' = quick /\ expected' = expected
    OBVIOUS
  <2> QED
    BY <2>1, <2>2, <2>3, <2>4 DEF MovesOn
<1> QED
  BY <1>6, <1>7, <1>8, <1>9, TalkKept DEF ReplInv

LEMMA ApplyEntryKeeps == ASSUME ReplInv, NEW s \in Server, ApplyEntry(s) PROVE ReplInv'
<1> DEFINE m == CommitValue(sm[s], EntryAt(log[s], sm[s].committed + 1))
<1>1. /\ thread[s] = "idle" /\ sm[s].committed < quick[s]
      /\ sm' = [sm EXCEPT ![s] = m] /\ thread' = [thread EXCEPT ![s] = "applied"]
      /\ UNCHANGED <<log, quick, next, joined, rpc, syncing, expected>>
  BY DEF ApplyEntry, ReplInv, Types
<1>2. expected \in Seq(Counters) /\ Node(expected, log[s], Last(s), sm[s], quick[s], "idle")
  BY <1>1 DEF ReplInv, Types, Nodes
<1>3. Node(expected, log[s], Last(s), m, quick[s], "applied")
  BY <1>1, <1>2, NodeApplies
<1>4. m.committed = sm[s].committed /\ m.snaps = sm[s].snaps
  <2>1. sm[s] \in [value : Int, committed : Nat, snaps : Snaps]
    BY <1>2 DEF Node, Machine
  <2> QED
    BY <2>1 DEF CommitValue
<1> HIDE DEF m
<1>5. DOMAIN log' = Server /\ \A o \in Server : log'[o] = IF o = s THEN log[s] ELSE log[o]
  BY <1>1 DEF ReplInv, Types
<1>6. log[s].start \in Nat /\ sm[s].committed \in Nat
  BY InvFacts
<1>7. s = "leader" => log[s].start - 1 <= LastSnapshot(m)
  <2>1. log["leader"].start - 1 <= LastSnapshot(sm["leader"])
    BY DEF ReplInv, LeaderLog
  <2>2. LastSnapshot(m) = LastSnapshot(sm[s])
    BY <1>4 DEF LastSnapshot
  <2> QED
    BY <2>1, <2>2
<1>8. log[s].start <= log[s].start /\ sm[s].committed <= m.committed
  BY <1>4, <1>5, <1>6
<1> QED
  BY <1>1, <1>3, <1>5, <1>7, <1>8, ThreadKeeps

LEMMA StoreIndexKeeps == ASSUME ReplInv, NEW s \in Server, StoreIndex(s) PROVE ReplInv'
<1> DEFINE m == CommitIndex(sm[s], sm[s].committed + 1)
           th == IF SnapshotDue(s) THEN "snapshot" ELSE "idle"
<1>1. /\ thread[s] = "applied"
      /\ sm' = [sm EXCEPT ![s] = m] /\ thread' = [thread EXCEPT ![s] = th]
      /\ UNCHANGED <<log, quick, next, joined, rpc, syncing, expected>>
  BY DEF StoreIndex, ReplInv, Types
<1>2. expected \in Seq(Counters) /\ Node(expected, log[s], Last(s), sm[s], quick[s], "applied")
  BY <1>1 DEF ReplInv, Types, Nodes
<1>3. Node(expected, log[s], Last(s), m, quick[s], th)
  BY <1>2, NodeCommits
<1>4. log[s].start \in Nat /\ sm[s].committed \in Nat
  BY InvFacts
<1>5. m.committed = sm[s].committed + 1 /\ m.snaps = sm[s].snaps
  <2>1. sm[s] \in [value : Int, committed : Nat, snaps : Snaps]
    BY <1>2 DEF Node, Machine
  <2> QED
    BY <2>1 DEF CommitIndex
<1> HIDE DEF m, th
<1>6. DOMAIN log' = Server /\ \A o \in Server : log'[o] = IF o = s THEN log[s] ELSE log[o]
  BY <1>1 DEF ReplInv, Types
<1>7. s = "leader" => log[s].start - 1 <= LastSnapshot(m)
  <2>1. log["leader"].start - 1 <= LastSnapshot(sm["leader"])
    BY DEF ReplInv, LeaderLog
  <2>2. LastSnapshot(m) = LastSnapshot(sm[s])
    BY <1>5 DEF LastSnapshot
  <2> QED
    BY <2>1, <2>2
<1>8. log[s].start <= log[s].start /\ sm[s].committed <= m.committed
  BY <1>4, <1>5, <1>6
<1> QED
  BY <1>1, <1>3, <1>6, <1>7, <1>8, ThreadKeeps

LEMMA SnapshotKeeps == ASSUME ReplInv, NEW s \in Server, SnapshotAndCompact(s) PROVE ReplInv'
<1> DEFINE i == sm[s].committed
           m == CreateSnapshot(sm[s], i)
           c == IF i > ReservedLogItems THEN i - ReservedLogItems ELSE 0
           store == IF i > ReservedLogItems THEN Compact(log[s], c) ELSE log[s]
<1>1. /\ thread[s] = "snapshot"
      /\ sm' = [sm EXCEPT ![s] = m] /\ thread' = [thread EXCEPT ![s] = "idle"]
      /\ DOMAIN log' = Server
      /\ \A o \in Server : log'[o] = IF o = s THEN store ELSE log[o]
      /\ UNCHANGED <<quick, next, joined, rpc, syncing, expected>>
  <2>1. DOMAIN log = Server
    BY DEF ReplInv, Types
  <2>2. /\ thread[s] = "snapshot"
        /\ sm' = [sm EXCEPT ![s] = m] /\ thread' = [thread EXCEPT ![s] = "idle"]
        /\ UNCHANGED <<quick, next, joined, rpc, syncing, expected>>
    BY DEF SnapshotAndCompact
  <2>3. log' = IF i > ReservedLogItems THEN [log EXCEPT ![s] = Compact(@, i - ReservedLogItems)]
               ELSE log
    BY DEF SnapshotAndCompact
  <2>4. DOMAIN log' = Server /\ \A o \in Server : log'[o] = IF o = s THEN store ELSE log[o]
    BY <2>1, <2>3
  <2> QED
    BY <2>2, <2>4
<1>2. expected \in Seq(Counters) /\ Node(expected, log[s], Last(s), sm[s], quick[s], "snapshot")
  BY <1>1 DEF ReplInv, Types, Nodes
<1>3. i \in Nat
  BY InvFacts
<1>4. c \in Nat /\ c <= i /\ store \in {log[s], Compact(log[s], c)}
  BY <1>3, ConstantTypes
<1> HIDE DEF c, store
<1>5. /\ Node(expected, store, Last(s), m, quick[s], "idle")
      /\ LastSnapshot(m) = i /\ m.committed = i
      /\ store.start - 1 <= i /\ store.start >= log[s].start
  <2>1. PICK x, st, last, sn, q :
          x = expected /\ st = log[s] /\ last = Last(s) /\ sn = sm[s] /\ q = quick[s]
    OBVIOUS
  <2>2. /\ x \in Seq(Counters) /\ Node(x, st, last, sn, q, "snapshot")
        /\ c <= sn.committed /\ store \in {st, Compact(st, c)}
    BY <1>2, <1>4, <2>1
  <2>3. /\ Node(x, store, last, CreateSnapshot(sn, sn.committed), q, "idle")
        /\ LastSnapshot(CreateSnapshot(sn, sn.committed)) = sn.committed
        /\ CreateSnapshot(sn, sn.committed).committed = sn.committed
        /\ store.start - 1 <= sn.committed /\ store.start >= st.start
    BY <1>4, <2>2, NodeSnapshots
  <2> QED
    BY <2>1, <2>3
<1> HIDE DEF m
<1>6. store.start \in Nat /\ log[s].start \in Nat
  BY <1>5, InvFacts DEF Node, Stored
<1>7. log[s].start <= store.start /\ sm[s].committed <= m.committed
      /\ store.start - 1 <= LastSnapshot(m)
  BY <1>3, <1>5, <1>6
<1> QED
  BY <1>1, <1>5, <1>7, ThreadKeeps

-----------------------------------------------------------------------------
(* The leader sends, and takes the answer: the nodes stay as they are.     *)
LEMMA TalkOnly ==
  ASSUME ReplInv, UNCHANGED <<log, sm, quick, thread, joined, expected>>,
         next' \in Nat \ {0}, syncing' \in Nat, (Request /\ Known /\ Sync)'
  PROVE  ReplInv'
<1>1. \A s \in Server : Last(s)' = Last(s)
  BY DEF Last
<1>2. "leader" \in Server /\ "follower" \in Server
  BY DEF Server
<1>3. Types'
  BY DEF ReplInv, Types
<1>4. Nodes'
  BY <1>1 DEF ReplInv, Nodes
<1>5. LeaderLog'
  BY <1>1, <1>2 DEF ReplInv, LeaderLog
<1>6. Behind'
  BY <1>1, <1>2 DEF ReplInv, Talk, Behind
<1> QED
  BY <1>3, <1>4, <1>5, <1>6 DEF ReplInv, Talk

(* Nothing is in flight, and no snapshot is being shipped, when entries    *)
(* are sent: the leader has them.                                          *)
LEMMA ReadyToSend ==
  ASSUME ReplInv, rpc = NoRpc, ~NeedsSnapshot
  PROVE  /\ syncing = 0 /\ next \in Nat \ {0} /\ next <= Len(expected) + 1
         /\ log["leader"].start <= next
         /\ Last("follower") + 1 <= next
<1>1. rpc.type = "none"
  BY DEF NoRpc
<1>2. next \in Nat \ {0} /\ syncing \in Nat
  BY DEF ReplInv, Types
<1>3. log["leader"].start \in Nat
  BY InvFacts DEF Server
<1> QED
  BY <1>1, <1>2, <1>3 DEF ReplInv, Talk, Known, Sync, NeedsSnapshot, StartIndex

(* What log_entries() returns of a range that is in the leader's log.      *)
LEMMA RangeFits ==
  ASSUME ReplInv, NEW a \in Nat \ {0}, NEW n \in Nat,
         log["leader"].start <= a, a + n <= Len(expected) + 1
  PROVE  /\ HasRange(log["leader"], a, a + n)
         /\ LogEntries(log["leader"], a, a + n) \in Seq(Entries)
         /\ Len(LogEntries(log["leader"], a, a + n)) = n
         /\ \A k \in 1..n :
              Fits(expected, LogEntries(log["leader"], a, a + n)[k], a + k - 1)
<1> DEFINE store == log["leader"]
           es == LogEntries(store, a, a + n)
           last == Len(expected)
<1>1. /\ store.start \in Nat /\ last \in Nat
      /\ DOMAIN store.logs = {0} \cup (store.start..last)
      /\ \A i \in store.start..last : Fits(expected, store.logs[i], i)
  <2>1. Stored(expected, store, Last("leader")) /\ Last("leader") = last
    BY DEF ReplInv, Nodes, Node, LeaderLog, Server
  <2> QED
    BY <2>1 DEF Stored
<1> HIDE DEF store, last
<1>2. \A i \in a..(a + n - 1) : i \in store.start..last
  <2>1. store.start <= a /\ a + n <= last + 1
    BY DEF store, last
  <2> QED
    BY <1>1, <2>1
<1>3. HasRange(store, a, a + n)
  BY <1>1, <1>2 DEF HasRange
<1>4. es = [k \in 1..n |-> store.logs[a + k - 1]]
  <2>1. a + n - a = n
    OBVIOUS
  <2> QED
    BY <2>1 DEF LogEntries
<1>5. \A k \in 1..n : Fits(expected, es[k], a + k - 1)
  <2>1. \A k \in 1..n : a + k - 1 \in a..(a + n - 1)
    OBVIOUS
  <2> HIDE DEF es
  <2> QED
    BY <1>1, <1>2, <1>4, <2>1
<1> HIDE DEF es
<1>6. \A k \in 1..n : es[k] \in Entries
  BY <1>5 DEF Fits
<1>7. es \in Seq(Entries)
  BY <1>4, <1>6, SeqDef
<1>8. Len(es) = n
  BY <1>4, <1>7, LenProperties
<1> QED
  BY <1>3, <1>5, <1>7, <1>8 DEF es, store

LEMMA SendPackKeeps == ASSUME ReplInv, SendPack PROVE ReplInv'
<1> DEFINE l == "leader"
           cnt == UpTo(quick[l] + 1) - next
           es == LogEntries(log[l], next, next + cnt)
<1>1. /\ ~joined /\ rpc = NoRpc /\ ~NeedsSnapshot /\ next <= quick[l]
      /\ rpc' = [type |-> "pack", index |-> next, entries |-> Pack(log[l], next, cnt)]
      /\ UNCHANGED <<log, sm, quick, thread, next, joined, syncing, expected>>
  BY DEF SendPack
<1>2. /\ syncing = 0 /\ next \in Nat \ {0} /\ next <= Len(expected) + 1
      /\ log[l].start <= next /\ Last("follower") + 1 <= next
  BY <1>1, ReadyToSend
<1>3. quick[l] \in Nat /\ quick[l] <= Len(expected) /\ Len(expected) \in Nat
  BY InvFacts DEF Server
<1>4. cnt \in Nat \ {0} /\ next + cnt <= quick[l] + 1 /\ next + cnt <= Len(expected) + 1
  BY <1>1, <1>2, <1>3, ConstantTypes, SMTT(60) DEF UpTo
<1> HIDE DEF cnt
<1>5. \A n \in 0..cnt : HasRange(log[l], next, next + n)
  BY <1>2, <1>3, <1>4, RangeFits
<1>6. PackLen(log[l], next, cnt) = cnt
  <2>1. \A n \in 0..cnt : n # cnt => (next + n) \in DOMAIN log[l].logs
    <3> SUFFICES ASSUME NEW n \in 0..cnt, n # cnt PROVE next + n \in DOMAIN log[l].logs
      OBVIOUS
    <3>1. HasRange(log[l], next, next + cnt)
      BY <1>4, <1>5
    <3>2. \A i \in next..(next + cnt - 1) : i \in DOMAIN log[l].logs
      BY <3>1, <1>2, <1>4 DEF HasRange
    <3>3. next + n \in next..(next + cnt - 1)
      BY <1>2, <1>4
    <3> QED
      BY <3>2, <3>3
  <2>2. \A n \in 0..cnt :
          /\ HasRange(log[l], next, next + n)
          /\ n = cnt \/ (next + n) \notin DOMAIN log[l].logs
          <=> n = cnt
    BY <1>4, <1>5, <2>1
  <2>3. cnt \in 0..cnt
    BY <1>4
  <2> QED
    BY <2>2, <2>3 DEF PackLen
<1>7. /\ es \in Seq(Entries) /\ Len(es) = cnt
      /\ \A k \in 1..cnt : Fits(expected, es[k], next + k - 1)
  BY <1>2, <1>3, <1>4, RangeFits
<1> HIDE DEF es
<1>8. rpc' = [type |-> "pack", index |-> next, entries |-> es]
  BY <1>1, <1>6 DEF Pack, es
<1>9. rpc'.type = "pack" /\ rpc'.index = next /\ rpc'.entries = es
  BY <1>8
<1>10. Carries'
  BY <1>1, <1>2, <1>7, <1>9 DEF Carries
<1>11. Request'
  <2>1. Len(es) >= 1 /\ next + Len(es) - 1 <= quick[l]
    BY <1>2, <1>3, <1>4, <1>7
  <2>2. ~joined'
    BY <1>1
  <2>3. quick' = quick
    BY <1>1
  <2> QED
    BY <1>9, <1>10, <2>1, <2>2, <2>3 DEF Request
<1>12. Known'
  BY <1>1, <1>2, <1>9 DEF Known, Last
<1>13. Sync'
  BY <1>1, <1>2 DEF Sync
<1>14. next' \in Nat \ {0} /\ syncing' \in Nat
  BY <1>1, <1>2
<1> QED
  BY <1>1, <1>11, <1>12, <1>13, <1>14, TalkOnly

LEMMA SendAppendKeeps == ASSUME ReplInv, SendAppend PROVE ReplInv'
<1> DEFINE l == "leader"
           f == "follower"
           n == UpTo(NextSlot(log[l])) - next
           es == LogEntries(log[l], next, next + n)
<1>1. /\ joined /\ rpc = NoRpc /\ ~NeedsSnapshot
      /\ rpc' = [type |-> "append", index |-> next, commit |-> quick[l],
                 entries |-> LogEntries(log[l], next, UpTo(NextSlot(log[l])))]
      /\ UNCHANGED <<log, sm, quick, thread, next, joined, syncing, expected>>
  BY DEF SendAppend
<1>2. /\ syncing = 0 /\ next \in Nat \ {0} /\ next <= Len(expected) + 1
      /\ log[l].start <= next /\ Last(f) + 1 <= next
  BY <1>1, ReadyToSend
<1>3. /\ NextSlot(log[l]) = Len(expected) + 1 /\ Len(expected) \in Nat
      /\ quick[l] \in Nat /\ quick[f] \in Nat /\ quick[f] <= quick[l]
  <2>1. /\ NextSlot(log[l]) = Last(l) + 1 /\ Len(expected) \in Nat /\ quick[l] \in Nat
        /\ quick[f] \in Nat
    BY InvFacts DEF Server
  <2>2. Last(l) = Len(expected) /\ quick[f] <= quick[l]
    BY DEF ReplInv, LeaderLog, Talk, Behind
  <2> QED
    BY <2>1, <2>2
<1>4. n \in Nat /\ next + n <= Len(expected) + 1 /\ next + n = UpTo(NextSlot(log[l]))
  BY <1>2, <1>3, ConstantTypes DEF UpTo
<1> HIDE DEF n
<1>5. /\ es \in Seq(Entries) /\ Len(es) = n
      /\ \A k \in 1..n : Fits(expected, es[k], next + k - 1)
  BY <1>2, <1>3, <1>4, RangeFits
<1>6. rpc' = [type |-> "append", index |-> next, commit |-> quick[l], entries |-> es]
  BY <1>1, <1>4
<1> HIDE DEF es
<1>7. rpc'.type = "append" /\ rpc'.index = next /\ rpc'.entries = es /\ rpc'.commit = quick[l]
  BY <1>6
<1>8. Carries'
  BY <1>1, <1>2, <1>5, <1>7 DEF Carries
<1>9. Request'
  <2>1. joined' /\ quick' = quick
    BY <1>1
  <2> QED
    BY <1>3, <1>7, <1>8, <2>1 DEF Request
<1>10. Known'
  BY <1>1, <1>2, <1>7 DEF Known, Last
<1>11. Sync'
  BY <1>1, <1>2 DEF Sync
<1>12. next' \in Nat \ {0} /\ syncing' \in Nat
  BY <1>1, <1>2
<1> QED
  BY <1>1, <1>9, <1>10, <1>11, <1>12, TalkOnly

LEMMA StartSyncKeeps == ASSUME ReplInv, StartSync PROVE ReplInv'
<1> DEFINE l == "leader"
<1>1. /\ rpc = NoRpc /\ next < log[l].start /\ LastSnapshot(sm[l]) > 0
      /\ syncing' = LastSnapshot(sm[l])
      /\ UNCHANGED <<log, sm, quick, thread, next, joined, rpc, expected>>
  BY DEF StartSync, NeedsSnapshot, StartIndex
<1>2. rpc.type = "none"
  BY <1>1 DEF NoRpc
<1>3. /\ LastSnapshot(sm[l]) \in Nat /\ LastSnapshot(sm[l]) <= sm[l].committed
      /\ sm[l].committed \in Nat /\ log[l].start \in Nat
  BY InvFacts DEF Server
<1>4. next \in Nat \ {0} /\ log[l].start - 1 <= LastSnapshot(sm[l])
  BY DEF ReplInv, Types, LeaderLog
<1>5. Request'
  BY <1>1, <1>2 DEF Request
<1>6. Known'
  BY <1>1 DEF ReplInv, Talk, Known, Last
<1>7. Sync'
  BY <1>1, <1>3, <1>4 DEF Sync
<1>8. next' \in Nat \ {0} /\ syncing' \in Nat
  BY <1>1, <1>3, <1>4
<1> QED
  BY <1>1, <1>5, <1>6, <1>7, <1>8, TalkOnly

LEMMA SendSnapshotKeeps == ASSUME ReplInv, SendSnapshot PROVE ReplInv'
<1> DEFINE l == "leader"
<1>1. /\ rpc = NoRpc /\ syncing > 0
      /\ UNCHANGED <<log, sm, quick, thread, next, joined, expected>>
  BY DEF SendSnapshot
<1>2. rpc.type = "none"
  BY <1>1 DEF NoRpc
<1>3. next \in Nat \ {0} /\ syncing \in Nat
  BY DEF ReplInv, Types
<1>4. CASE HasSnapshot(sm[l], syncing)
  <2>1. /\ rpc' = [type |-> "snapshot", index |-> syncing,
                   value |-> ReadLogicalSnpObj(sm[l], syncing)]
        /\ syncing' = syncing
    BY <1>4 DEF SendSnapshot
  <2>2. rpc'.type = "snapshot" /\ rpc'.index = syncing /\ rpc'.value = sm[l].snaps[syncing]
    BY <2>1 DEF ReadLogicalSnpObj
  <2>3. sm[l].snaps[syncing] = Value(expected, syncing)
    BY <1>4, InvFacts DEF HasSnapshot, Server
  <2>4. Request'
    BY <1>1, <2>1, <2>2, <2>3 DEF Request
  <2>5. Known'
    BY <1>1, <1>2, <2>2 DEF ReplInv, Talk, Known, Last
  <2>6. Sync'
    BY <1>1, <1>2, <2>1, <2>2 DEF ReplInv, Talk, Sync
  <2> QED
    BY <1>1, <1>3, <2>1, <2>4, <2>5, <2>6, TalkOnly
<1>5. CASE ~HasSnapshot(sm[l], syncing)
  <2>1. syncing' = 0 /\ rpc' = rpc
    BY <1>5 DEF SendSnapshot
  <2>2. Request'
    BY <1>2, <2>1 DEF Request
  <2>3. Known'
    BY <1>1, <2>1 DEF ReplInv, Talk, Known, Last
  <2>4. Sync'
    BY <2>1 DEF Sync
  <2> QED
    BY <1>1, <1>3, <2>1, <2>2, <2>3, <2>4, TalkOnly
<1> QED
  BY <1>4, <1>5

LEMMA ReceiveResponseKeeps == ASSUME ReplInv, ReceiveResponse PROVE ReplInv'
<1>1. /\ rpc.type = "response" /\ next' = rpc.next /\ rpc' = NoRpc /\ syncing' = 0
      /\ UNCHANGED <<log, sm, quick, thread, joined, expected>>
  BY DEF ReceiveResponse
<1>2. /\ rpc.next \in Nat /\ Last("follower") + 1 <= rpc.next
      /\ rpc.next <= Len(expected) + 1
  BY <1>1 DEF ReplInv, Talk, Known
<1>3. Last("follower") \in Nat
  BY InvFacts DEF Server
<1>4. rpc'.type = "none"
  BY <1>1 DEF NoRpc
<1>5. Request'
  BY <1>4 DEF Request
<1>6. Known'
  BY <1>1, <1>2, <1>4 DEF Known, Last
<1>7. Sync'
  BY <1>1 DEF Sync
<1>8. next' \in Nat \ {0} /\ syncing' \in Nat
  BY <1>1, <1>2, <1>3
<1> QED
  BY <1>1, <1>5, <1>6, <1>7, <1>8, TalkOnly

-----------------------------------------------------------------------------
(* The follower's step, from what it makes of its node and of its answer.  *)
LEMMA FollowerKeeps ==
  ASSUME ReplInv, NEW store, NEW last, NEW m, NEW q, NEW th,
         Node(expected, store, last, m, q, th),
         DOMAIN log' = Server, log'["follower"] = store, log'["leader"] = log["leader"],
         DOMAIN sm' = Server, sm'["follower"] = m, sm'["leader"] = sm["leader"],
         DOMAIN quick' = Server, quick'["follower"] = q, quick'["leader"] = quick["leader"],
         DOMAIN thread' = Server, thread'["follower"] = th,
         thread'["leader"] = thread["leader"],
         UNCHANGED <<next, joined, syncing, expected>>,
         q <= quick["leader"], ~joined => last <= quick["leader"],
         (Request /\ Known /\ Sync)'
  PROVE  ReplInv'
<1> DEFINE l == "leader"
           f == "follower"
<1>1. l \in Server /\ f \in Server /\ \A s \in Server : s = l \/ s = f
  BY DEF Server
<1>2. Last(f)' = last /\ Last(l)' = Last(l)
  <2>1. NextSlot(store) = last + 1 /\ last \in Nat
    BY StoredSlot DEF Node, Stored
  <2> QED
    BY <2>1 DEF Last
<1>3. Node(expected, log[l], Last(l), sm[l], quick[l], thread[l])
  BY <1>1 DEF ReplInv, Nodes
<1>4. Nodes'
  <2> SUFFICES ASSUME NEW s \in Server
               PROVE  Node(expected, log'[s], Last(s)', sm'[s], quick'[s], thread'[s])
    BY DEF Nodes
  <2>1. CASE s = l
    BY <1>2, <1>3, <2>1
  <2>2. CASE s = f
    BY <1>2, <2>2
  <2> QED
    BY <1>1, <2>1, <2>2
<1>5. Types'
  BY DEF ReplInv, Types
<1>6. LeaderLog'
  BY <1>2 DEF ReplInv, LeaderLog
<1>7. Behind'
  BY <1>2 DEF Behind
<1> QED
  BY <1>4, <1>5, <1>6, <1>7 DEF ReplInv, Talk

(* A response with the slot after the last entry.                          *)
LEMMA Responds ==
  ASSUME ReplInv, NEW last \in Nat, last <= Len(expected),
         rpc' = [type |-> "response", next |-> last + 1], Last("follower")' = last,
         UNCHANGED <<next, syncing, expected>>, sm'["leader"] = sm["leader"]
  PROVE  (Request /\ Known /\ Sync)'
<1>1. rpc'.type = "response" /\ rpc'.next = last + 1
  OBVIOUS
<1>2. Len(expected) \in Nat
  BY InvFacts DEF Server
<1>3. Request'
  BY <1>1 DEF Request
<1>4. Known'
  BY <1>1, <1>2 DEF ReplInv, Talk, Known
<1>5. Sync'
  BY <1>1 DEF ReplInv, Talk, Sync
<1> QED
  BY <1>3, <1>4, <1>5

LEMMA HandlePackKeeps == ASSUME ReplInv, HandlePack PROVE ReplInv'
<1> DEFINE l == "leader"
           f == "follower"
           store == IF rpc.index = NextSlot(log[f]) THEN ApplyPack(log[f], rpc.index, rpc.entries)
                    ELSE log[f]
           n == IF rpc.index = NextSlot(log[f]) THEN Len(rpc.entries) ELSE 0
           last == Last(f) + n
<1>1. /\ rpc.type = "pack" /\ log' = [log EXCEPT ![f] = store]
      /\ quick' = [quick EXCEPT ![f] = NextSlot(store) - 1]
      /\ rpc' = [type |-> "response", next |-> NextSlot(store)]
      /\ UNCHANGED <<sm, thread, next, joined, syncing, expected>>
  BY DEF HandlePack, Respond
<1>2. /\ Carries /\ ~joined /\ Len(rpc.entries) >= 1
      /\ rpc.index + Len(rpc.entries) - 1 <= quick[l]
  BY <1>1 DEF ReplInv, Talk, Request
<1>3. /\ rpc.index \in Nat \ {0} /\ rpc.entries \in Seq(Entries) /\ Len(rpc.entries) \in Nat \ {0}
      /\ \A k \in 1..Len(rpc.entries) : Fits(expected, rpc.entries[k], rpc.index + k - 1)
  BY <1>2, LenProperties DEF Carries
<1>4. /\ Last(f) \in Nat /\ NextSlot(log[f]) = Last(f) + 1 /\ quick[f] \in Nat
      /\ quick[f] <= Last(f) /\ Len(expected) \in Nat /\ Last(f) <= Len(expected)
  BY InvFacts DEF Server
<1>5. quick[l] \in Nat /\ quick[l] <= Len(expected)
  BY InvFacts DEF Server
<1>6. Last(f) <= quick[l]
  BY <1>2 DEF ReplInv, Talk, Behind
<1>7. Node(expected, log[f], Last(f), sm[f], quick[f], thread[f])
  BY DEF ReplInv, Nodes, Server
<1>8. /\ Stored(expected, store, last) /\ store.start = log[f].start
      /\ last \in Nat /\ Last(f) <= last /\ last <= quick[l]
  <2>1. CASE rpc.index = NextSlot(log[f])
    <3>1. rpc.index = Last(f) + 1 /\ Last(f) + Len(rpc.entries) <= quick[l]
      <4>1. rpc.index = Last(f) + 1
        BY <1>4, <2>1
      <4> HIDE DEF store, last, n, f, l
      <4> QED
        BY <1>2, <1>3, <1>4, <1>5, <4>1
    <3>2. \A k \in 1..Len(rpc.entries) : Fits(expected, rpc.entries[k], Last(f) + k)
      <4>1. \A k \in 1..Len(rpc.entries) : Last(f) + k = rpc.index + k - 1
        BY <1>3, <1>4, <3>1
      <4> QED
        BY <1>3, <4>1
    <3>3. Stored(expected, log[f], Last(f)) /\ Last(f) + Len(rpc.entries) <= Len(expected)
      BY <1>3, <1>4, <1>5, <1>7, <3>1 DEF Node
    <3>4. /\ Stored(expected, ApplyPack(log[f], Last(f) + 1, rpc.entries), Last(f) + Len(rpc.entries))
          /\ ApplyPack(log[f], Last(f) + 1, rpc.entries).start = log[f].start
      <4> DEFINE es == rpc.entries
                 k == Len(es)
      <4>1. /\ k \in Nat \ {0} /\ Last(f) + k <= Len(expected) /\ Len(expected) \in Nat
            /\ Stored(expected, log[f], Last(f))
            /\ \A j \in 1..k : Fits(expected, es[j], Last(f) + j)
        BY <1>3, <1>4, <3>2, <3>3
      <4> HIDE DEF es, store, last, n, f
      <4>2. \A x, s, b, c, i : x = expected /\ s = log[f] /\ b = Last(f) /\ c = es /\ i = k =>
              Stored(x, ApplyPack(s, b + 1, c), b + i) /\ ApplyPack(s, b + 1, c).start = s.start
        BY <4>1, PackStored
      <4> QED
        BY <4>2 DEF es
    <3> QED
      BY <1>3, <1>4, <2>1, <3>1, <3>4
  <2>2. CASE rpc.index # NextSlot(log[f])
    <3>1. store = log[f] /\ last = Last(f)
      BY <1>4, <2>2
    <3> QED
      BY <1>4, <1>6, <1>7, <3>1 DEF Node
  <2> QED
    BY <2>1, <2>2
<1> HIDE DEF store, last
<1>9. NextSlot(store) = last + 1 /\ NextSlot(store) - 1 = last
  BY <1>8, StoredSlot
<1>10. Node(expected, store, last, sm[f], last, thread[f])
  <2>1. quick[f] <= last
    BY <1>4, <1>8
  <2> QED
    BY <1>7, <1>8, <2>1, NodeReceives
<1>11. /\ DOMAIN log' = Server /\ log'[f] = store /\ log'[l] = log[l]
       /\ DOMAIN quick' = Server /\ quick'[f] = last /\ quick'[l] = quick[l]
       /\ DOMAIN sm' = Server /\ DOMAIN thread' = Server
  BY <1>1, <1>9 DEF ReplInv, Types, Server
<1>12. (Request /\ Known /\ Sync)'
  <2>1. Last(f)' = last /\ last <= Len(expected)
    BY <1>5, <1>8, <1>9, <1>11 DEF Last
  <2> QED
    BY <1>1, <1>8, <1>9, <2>1, Responds
<1> QED
  BY <1>1, <1>8, <1>10, <1>11, <1>12, FollowerKeeps

LEMMA HandleAppendKeeps == ASSUME ReplInv, HandleAppend PROVE ReplInv'
<1> DEFINE l == "leader"
           f == "follower"
           have == NextSlot(log[f]) - rpc.index
           len == Len(rpc.entries)
           es == SubSeq(rpc.entries, have + 1, len)
           n == IF have < len THEN len - have ELSE 0
           store == [log[f] EXCEPT !.logs = Overlay(@, Last(f) + 1, es)]
           last == Last(f) + n
           q == IF rpc.commit < last THEN rpc.commit ELSE last
<1>1. /\ rpc.type = "append"
      /\ UNCHANGED <<sm, thread, next, joined, syncing, expected>>
  BY DEF HandleAppend
<1>2. /\ Carries /\ joined /\ rpc.commit \in Nat
      /\ quick[f] <= rpc.commit /\ rpc.commit <= quick[l]
  BY <1>1 DEF ReplInv, Talk, Request
<1>3. /\ rpc.index \in Nat \ {0} /\ rpc.entries \in Seq(Entries) /\ len \in Nat
      /\ \A k \in 1..len : Fits(expected, rpc.entries[k], rpc.index + k - 1)
  BY <1>2, LenProperties DEF Carries
<1>4. /\ Last(f) \in Nat /\ NextSlot(log[f]) = Last(f) + 1 /\ quick[f] \in Nat
      /\ quick[f] <= Last(f) /\ Len(expected) \in Nat /\ Last(f) <= Len(expected)
  BY InvFacts DEF Server
<1>5. quick[l] \in Nat
  BY InvFacts DEF Server
<1>6. Node(expected, log[f], Last(f), sm[f], quick[f], thread[f])
  BY DEF ReplInv, Nodes, Server
<1>7. CASE rpc.index > NextSlot(log[f])
  <2>1. /\ log' = log /\ quick' = quick
        /\ rpc' = [type |-> "response", next |-> Last(f) + 1]
    BY <1>4, <1>7 DEF HandleAppend, Respond
  <2>2. (Request /\ Known /\ Sync)'
    <3>1. Last(f)' = Last(f)
      BY <2>1 DEF Last
    <3> QED
      BY <1>1, <1>4, <2>1, <3>1, Responds
  <2>3. quick[f] <= quick[l] /\ (~joined => Last(f) <= quick[l])
    BY DEF ReplInv, Talk, Behind
  <2>4. DOMAIN log' = Server /\ DOMAIN quick' = Server /\ DOMAIN sm' = Server
        /\ DOMAIN thread' = Server
    BY <1>1, <2>1 DEF ReplInv, Types
  <2> QED
    BY <1>1, <1>6, <2>1, <2>2, <2>3, <2>4, FollowerKeeps
<1>8. CASE ~(rpc.index > NextSlot(log[f]))
  <2>1. have \in Nat /\ rpc.index = Last(f) + 1 - have
    <3>1. rpc.index \in Nat /\ Last(f) \in Nat
      BY <1>3, <1>4
    <3>2. NextSlot(log[f]) = Last(f) + 1
      BY <1>4
    <3> HIDE DEF es, n, store, last, q, f, l, len
    <3>3. have = Last(f) + 1 - rpc.index
      BY <3>1, <3>2 DEF have
    <3> HIDE DEF have
    <3>4. ~(rpc.index > Last(f) + 1)
      BY <1>8, <3>1, <3>2
    <3> QED
      BY <3>1, <3>3, <3>4
  <2> HIDE DEF have, len
  <2>2. /\ es \in Seq(Entries) /\ Len(es) = n
        /\ \A k \in 1..n : es[k] = rpc.entries[have + k]
    <3>1. have + 1 \in Int /\ len \in Int
      BY <1>3, <2>1
    <3>2. \A i \in (have + 1)..len : rpc.entries[i] \in Entries
      <4> SUFFICES ASSUME NEW i \in (have + 1)..len PROVE rpc.entries[i] \in Entries
        OBVIOUS
      <4>1. i \in 1..Len(rpc.entries)
        BY <1>3, <2>1 DEF len
      <4> QED
        BY <1>3, <4>1, LenProperties
    <3>3. /\ es \in Seq(Entries)
          /\ Len(es) = IF have + 1 <= len THEN len - (have + 1) + 1 ELSE 0
          /\ \A i \in 1..(len - (have + 1) + 1) : es[i] = rpc.entries[have + 1 + i - 1]
      BY <3>1, <3>2, SubSeqProperties
    <3>4. n = IF have + 1 <= len THEN len - (have + 1) + 1 ELSE 0
      BY <1>3, <2>1
    <3>5. \A k \in 1..n : k \in 1..(len - (have + 1) + 1) /\ have + 1 + k - 1 = have + k
      BY <1>3, <2>1
    <3> HIDE DEF es, n
    <3> QED
      BY <3>3, <3>4, <3>5
  <2>3. n \in Nat /\ \A k \in 1..n : have + k \in 1..len /\ rpc.index + (have + k) - 1 = Last(f) + k
    BY <1>3, <1>4, <2>1
  <2> HIDE DEF n, es
  <2>4. \A k \in 1..n : Fits(expected, es[k], Last(f) + k)
    BY <1>3, <2>2, <2>3
  <2>5. Last(f) + n <= Len(expected)
    <3>1. CASE n = 0
      BY <1>4, <3>1
    <3>2. CASE n # 0
      <4>1. n \in 1..n
        BY <2>3, <3>2
      <4>2. Last(f) + n \in 1..Len(expected)
        BY <2>4, <4>1 DEF Fits
      <4> QED
        BY <1>4, <4>2
    <3> QED
      BY <3>1, <3>2
  <2>6. Stored(expected, store, last)
    <3>1. Stored(expected, log[f], Last(f))
      BY <1>6 DEF Node
    <3> QED
      BY <1>4, <2>2, <2>3, <2>4, <2>5, <3>1, OverlayStored
  <2>7. store.start = log[f].start
    <3>1. log[f] = [logs |-> log[f].logs, start |-> log[f].start]
      BY <1>6 DEF Node, Stored
    <3> QED
      BY <3>1
  <2>8. AppendAll(log[f], NewEntries(log[f])) = store
    BY <1>4 DEF AppendAll, NewEntries, es, have, len
  <2> HIDE DEF store
  <2>9. last \in Nat /\ Last(f) <= last
    BY <1>4, <2>3
  <2> HIDE DEF last
  <2>10. NextSlot(store) = last + 1 /\ NextSlot(store) - 1 = last
    BY <2>6, <2>9, StoredSlot
  <2>11. /\ log' = [log EXCEPT ![f] = store] /\ quick' = [quick EXCEPT ![f] = q]
         /\ rpc' = [type |-> "response", next |-> last + 1]
    BY <1>8, <2>8, <2>10 DEF HandleAppend, Respond
  <2>12. q \in Nat /\ quick[f] <= q /\ q <= last /\ q <= quick[l]
    BY <1>2, <1>4, <1>5, <2>9
  <2> HIDE DEF q
  <2>13. Node(expected, store, last, sm[f], q, thread[f])
    BY <1>6, <2>6, <2>7, <2>12, NodeReceives
  <2>14. /\ DOMAIN log' = Server /\ log'[f] = store /\ log'[l] = log[l]
         /\ DOMAIN quick' = Server /\ quick'[f] = q /\ quick'[l] = quick[l]
         /\ DOMAIN sm' = Server /\ DOMAIN thread' = Server
    BY <1>1, <2>11 DEF ReplInv, Types, Server
  <2>15. (Request /\ Known /\ Sync)'
    <3>1. Last(f)' = last /\ last <= Len(expected)
      BY <2>5, <2>10, <2>14 DEF Last, last
    <3> QED
      BY <1>1, <2>9, <2>11, <3>1, Responds
  <2> QED
    BY <1>1, <1>2, <2>12, <2>13, <2>14, <2>15, FollowerKeeps
<1> QED
  BY <1>7, <1>8

LEMMA HandleSnapshotKeeps == ASSUME ReplInv, HandleSnapshot PROVE ReplInv'
<1> DEFINE l == "leader"
           f == "follower"
           i == rpc.index
           store == Compact(log[f], i)
           m == ApplySnapshot(SaveLogicalSnpObj(sm[f], i, rpc.value), i)
<1>1. /\ rpc.type = "snapshot" /\ thread[f] = "idle"
      /\ sm' = [sm EXCEPT ![f] = m] /\ log' = [log EXCEPT ![f] = store]
      /\ quick' = [quick EXCEPT ![f] = i]
      /\ rpc' = [type |-> "response", next |-> NextSlot(store)]
      /\ UNCHANGED <<thread, next, joined, syncing, expected>>
  BY DEF HandleSnapshot, Respond, ReplInv, Types
<1>2. i = syncing /\ syncing > 0 /\ rpc.value = Value(expected, i)
  BY <1>1 DEF ReplInv, Talk, Request
<1>3. /\ Last(f) \in Nat /\ sm[l].committed \in Nat /\ quick[l] \in Nat
      /\ sm[l].committed <= quick[l] /\ quick[l] <= Len(expected) /\ Len(expected) \in Nat
  <2>1. Last(f) \in Nat
    BY InvFacts DEF Server
  <2>2. /\ sm[l].committed \in Nat /\ quick[l] \in Nat /\ sm[l].committed <= quick[l]
        /\ quick[l] <= Last(l) /\ Last(l) <= Len(expected) /\ Len(expected) \in Nat
        /\ Last(l) \in Nat
    BY InvFacts DEF Server
  <2> QED
    BY <2>1, <2>2
<1>4. next \in Nat /\ syncing \in Nat
  BY DEF ReplInv, Types
<1>5. Last(f) + 1 <= next /\ next <= syncing /\ syncing <= sm[l].committed
  <2>1. rpc.type # "response"
    BY <1>1
  <2> QED
    BY <1>2, <2>1 DEF ReplInv, Talk, Known, Sync
<1>6. expected \in Seq(Counters) /\ Node(expected, log[f], Last(f), sm[f], quick[f], "idle")
  BY <1>1 DEF ReplInv, Types, Nodes, Server
<1>7. i \in Nat /\ Last(f) < i /\ i <= quick[l] /\ i <= Len(expected)
  <2> HIDE DEF i
  <2> QED
    BY <1>2, <1>3, <1>4, <1>5
<1>8. Node(expected, store, i, m, i, "idle")
  BY <1>2, <1>6, <1>7, NodeInstalls
<1> HIDE DEF store, m
<1>9. NextSlot(store) = i + 1 /\ NextSlot(store) - 1 = i
  <2>1. NextSlot(store) = i + 1
    BY <1>8, StoredSlot DEF Node
  <2> QED
    BY <1>7, <2>1
<1> HIDE DEF i
<1>10. /\ DOMAIN log' = Server /\ log'[f] = store /\ log'[l] = log[l]
       /\ DOMAIN quick' = Server /\ quick'[f] = i /\ quick'[l] = quick[l]
       /\ DOMAIN sm' = Server /\ sm'[f] = m /\ sm'[l] = sm[l]
       /\ DOMAIN thread' = Server /\ thread'[f] = "idle" /\ thread'[l] = thread[l]
  BY <1>1 DEF ReplInv, Types, Server
<1>11. (Request /\ Known /\ Sync)'
  <2>1. Last(f)' = i
    BY <1>9, <1>10 DEF Last
  <2>2. rpc' = [type |-> "response", next |-> i + 1]
    BY <1>1, <1>9
  <2> QED
    BY <1>1, <1>7, <1>10, <2>1, <2>2, Responds
<1> QED
  BY <1>1, <1>7, <1>8, <1>10, <1>11, FollowerKeeps

LEMMA RestartKeeps == ASSUME ReplInv, Restart PROVE ReplInv'
<1> DEFINE l == "leader"
           f == "follower"
<1>1. /\ log' = [log EXCEPT ![f] = EmptyStore] /\ sm' = [sm EXCEPT ![f] = NewStateMachine]
      /\ quick' = [quick EXCEPT ![f] = 0] /\ thread' = [thread EXCEPT ![f] = "idle"]
      /\ rpc' = IF rpc.type = "response" THEN rpc ELSE NoRpc
      /\ UNCHANGED <<next, joined, syncing, expected>>
  BY DEF Restart
<1>2. Node(expected, EmptyStore, 0, NewStateMachine, 0, "idle")
  BY FreshNode DEF ReplInv, Types
<1>3. /\ DOMAIN log' = Server /\ log'[f] = EmptyStore /\ log'[l] = log[l]
      /\ DOMAIN quick' = Server /\ quick'[f] = 0 /\ quick'[l] = quick[l]
      /\ DOMAIN sm' = Server /\ sm'[f] = NewStateMachine /\ sm'[l] = sm[l]
      /\ DOMAIN thread' = Server /\ thread'[f] = "idle" /\ thread'[l] = thread[l]
  BY <1>1 DEF ReplInv, Types, Server
<1>4. Last(f)' = 0
  <2>1. NextSlot(EmptyStore) = 1
    BY <1>2, StoredSlot DEF Node
  <2> QED
    BY <1>3, <2>1 DEF Last
<1>5. quick[l] \in Nat
  BY InvFacts DEF Server
<1>6. next \in Nat \ {0} /\ Last(f) \in Nat
  BY InvFacts DEF ReplInv, Types, Server
<1>7. (Request /\ Known /\ Sync)'
  <2>1. CASE rpc.type = "response"
    <3>1. rpc' = rpc
      BY <1>1, <2>1
    <3>2. Request'
      BY <2>1, <3>1 DEF Request
    <3>3. Known'
      BY <1>1, <1>4, <1>6, <2>1, <3>1 DEF ReplInv, Talk, Known
    <3>4. Sync'
      BY <1>1, <1>3, <2>1, <3>1 DEF ReplInv, Talk, Sync
    <3> QED
      BY <3>2, <3>3, <3>4
  <2>2. CASE rpc.type # "response"
    <3>1. rpc'.type = "none"
      BY <1>1, <2>2 DEF NoRpc
    <3>2. Request'
      BY <3>1 DEF Request
    <3>3. Known'
      BY <1>1, <1>4, <1>6, <3>1 DEF ReplInv, Talk, Known
    <3>4. Sync'
      BY <1>1, <1>3, <2>2, <3>1 DEF ReplInv, Talk, Sync
    <3> QED
      BY <3>2, <3>3, <3>4
  <2> QED
    BY <2>1, <2>2
<1>8. 0 <= quick[l]
  BY <1>5
<1> QED
  BY <1>1, <1>2, <1>3, <1>7, <1>8, FollowerKeeps

LEMMA NextInv == ReplInv /\ [Next]_vars => ReplInv'
<1> SUFFICES ASSUME ReplInv, [Next]_vars PROVE ReplInv'
  OBVIOUS
<1>1. CASE \E e \in Entries : Replicate(e)
  BY <1>1, ReplicateKeeps
<1>2. CASE \E i \in 1..(MaxIndex + 1) : LearnCommit(i)
  <2>1. PICK i \in 1..(MaxIndex + 1) : LearnCommit(i)
    BY <1>2
  <2>2. i \in Nat
    BY ConstantTypes
  <2> QED
    BY <2>1, <2>2, LearnCommitKeeps
<1>3. CASE \E s \in Server : ApplyEntry(s) \/ StoreIndex(s) \/ SnapshotAndCompact(s)
  BY <1>3, ApplyEntryKeeps, StoreIndexKeeps, SnapshotKeeps
<1>4. CASE SendPack \/ AddServer \/ SendAppend \/ StartSync \/ SendSnapshot \/ ReceiveResponse
  BY <1>4, SendPackKeeps, AddServerKeeps, SendAppendKeeps, StartSyncKeeps,
     SendSnapshotKeeps, ReceiveResponseKeeps
<1>5. CASE HandlePack \/ HandleAppend \/ HandleSnapshot \/ Restart
  BY <1>5, HandlePackKeeps, HandleAppendKeeps, HandleSnapshotKeeps, RestartKeeps
<1>6. CASE UNCHANGED vars
  <2>1. UNCHANGED <<log, sm, quick, thread, next, joined, rpc, syncing, expected>>
    BY <1>6 DEF vars
  <2>2. next' \in Nat \ {0} /\ syncing' \in Nat
    BY <2>1 DEF ReplInv, Types
  <2>3. Request'
    BY <2>1 DEF ReplInv, Talk, Request, Carries
  <2>4. Known'
    BY <2>1 DEF ReplInv, Talk, Known, Last
  <2>5. Sync'
    BY <2>1 DEF ReplInv, Talk, Sync
  <2> QED
    BY <2>1, <2>2, <2>3, <2>4, <2>5, TalkOnly
<1> QED
  BY <1>1, <1>2, <1>3, <1>4, <1>5, <1>6 DEF Next

LEMMA SpecInv == Spec => []ReplInv
<1> QED
  BY InitInv, NextInv, PTL DEF Spec

Counted == restarts \in Nat
LEMMA SpecCounted == Spec => []Counted
<1>1. Init => Counted
  BY DEF Init, Counted
<1>2. Counted /\ [Next]_vars => Counted'
  BY DEF Counted, Next, vars, Replicate, LearnCommit, ApplyEntry, StoreIndex,
         SnapshotAndCompact, SendPack, AddServer, SendAppend, StartSync, SendSnapshot,
         ReceiveResponse, HandlePack, HandleAppend, HandleSnapshot, Restart
<1> QED
  BY <1>1, <1>2, PTL DEF Spec

-----------------------------------------------------------------------------
(* The theorems.                                                           *)

(* Whether it replayed the log, or restored a snapshot and replayed the    *)
(* rest, each node's counter is the sum of exactly the adds its            *)
(* commit() calls were given, wrapping at the width of the integer.        *)
THEOREM ReplicaValueIsExact == Spec => []ValueIsExact
<1>1. ReplInv => ValueIsExact
  <2> SUFFICES ASSUME ReplInv, NEW s \in Server PROVE sm[s].value = ValueAt(Applied(s))
    BY DEF ValueIsExact
  <2>1. Node(expected, log[s], Last(s), sm[s], quick[s], thread[s])
    BY DEF ReplInv, Nodes
  <2>2. sm[s].value = Value(expected, Reached(sm[s], thread[s]))
    BY <2>1 DEF Node, Machine
  <2> QED
    BY <2>2 DEF Value, ValueAt, Reached, Applied
<1> QED
  BY <1>1, SpecInv, PTL

(* create_snapshot(), read_logical_snp_obj() and save_logical_snp_obj():   *)
(* a snapshot is the counter at its own index, on disk and on the wire.    *)
THEOREM SnapshotsAreExact == Spec => []SnapshotsExact
<1>1. ReplInv => SnapshotsExact
  <2> SUFFICES ASSUME ReplInv PROVE SnapshotsExact
    OBVIOUS
  <2>1. ASSUME NEW s \in Server, NEW i \in DOMAIN sm[s].snaps
        PROVE  i <= Len(expected) /\ sm[s].snaps[i] = ValueAt(i)
    <3>1. /\ i \in 1..sm[s].committed /\ sm[s].snaps[i] = Value(expected, i)
          /\ sm[s].committed \in Nat /\ sm[s].committed <= quick[s] /\ quick[s] \in Nat
          /\ quick[s] <= Last(s) /\ Last(s) \in Nat /\ Last(s) <= Len(expected)
          /\ Len(expected) \in Nat
      BY InvFacts
    <3> QED
      BY <3>1 DEF Value, ValueAt
  <2>2. rpc.type = "snapshot" => rpc.value = ValueAt(rpc.index)
    BY DEF ReplInv, Talk, Request, Value, ValueAt
  <2> QED
    BY <2>1, <2>2 DEF SnapshotsExact
<1> QED
  BY <1>1, SpecInv, PTL

(* The commit thread never finds the dummy of entry_at() in place of an    *)
(* entry it has to apply: compact() and a snapshot leave it those.         *)
THEOREM RealEntriesCommitted == Spec => []CommitsRealEntries
<1>1. ReplInv => CommitsRealEntries
  <2> SUFFICES ASSUME ReplInv, NEW s \in Server
               PROVE  HasRange(log[s], sm[s].committed + 1, quick[s] + 1)
    BY DEF CommitsRealEntries
  <2>1. /\ sm[s].committed \in Nat /\ log[s].start - 1 <= sm[s].committed
        /\ log[s].start \in Nat /\ quick[s] \in Nat /\ quick[s] <= Last(s) /\ Last(s) \in Nat
    BY InvFacts
  <2>2. Stored(expected, log[s], Last(s))
    BY DEF ReplInv, Nodes, Node
  <2>3. DOMAIN log[s].logs = {0} \cup (log[s].start..Last(s))
    BY <2>2 DEF Stored
  <2>4. \A i \in (sm[s].committed + 1)..(quick[s] + 1 - 1) : i \in log[s].start..Last(s)
    BY <2>1
  <2> QED
    BY <2>1, <2>3, <2>4 DEF HasRange
<1> QED
  BY <1>1, SpecInv, PTL

(* What compact() dropped on the leader is in a snapshot that              *)
(* gc_snapshots_locked() keeps; what the follower needs next is in one or  *)
(* the other.                                                              *)
THEOREM FollowerCanBeServed == Spec => []CanServeFollower
<1>1. ReplInv => CanServeFollower
  <2> SUFFICES ASSUME ReplInv PROVE CanServeFollower
    OBVIOUS
  <2>1. StartIndex(log["leader"]) - 1 <= LastSnapshot(sm["leader"])
    BY DEF ReplInv, LeaderLog, StartIndex
  <2>2. ASSUME ~NeedsSnapshot, NEW i \in next..(NextSlot(log["leader"]) - 1)
        PROVE  i \in DOMAIN log["leader"].logs
    <3>1. next \in Nat \ {0}
      BY DEF ReplInv, Types
    <3>2. Last("leader") \in Nat /\ log["leader"].start \in Nat
      BY InvFacts DEF Server
    <3>3. log["leader"].start <= next
      BY <2>2, <3>1, <3>2 DEF NeedsSnapshot, StartIndex
    <3>4. Stored(expected, log["leader"], Last("leader"))
      BY DEF ReplInv, Nodes, Node, Server
    <3>5. DOMAIN log["leader"].logs = {0} \cup (log["leader"].start..Last("leader"))
      BY <3>4 DEF Stored
    <3>6. i \in next..Last("leader")
      BY DEF Last
    <3> QED
      BY <3>1, <3>2, <3>3, <3>5, <3>6
  <2> QED
    BY <2>1, <2>2 DEF CanServeFollower, HasRange
<1> QED
  BY <1>1, SpecInv, PTL

(* last_commit_index() of a running node never goes back: the snapshot     *)
(* apply_snapshot() restores is never behind what commit() has applied.    *)
THEOREM CommitIndexGrows == Spec => CommitOnlyGrows
<1>1. ReplInv /\ Counted /\ [Next]_vars =>
        [\A s \in Server : sm'[s].committed >= sm[s].committed \/ restarts' # restarts]_vars
  <2> SUFFICES ASSUME ReplInv, Counted, Next, NEW s \in Server, restarts' = restarts
               PROVE  sm'[s].committed >= sm[s].committed
    OBVIOUS
  <2>1. sm[s].committed \in Nat
    BY InvFacts
  <2>2. CASE sm' = sm
    BY <2>1, <2>2
  <2>3. ASSUME NEW o \in Server, NEW m, sm' = [sm EXCEPT ![o] = m], m.committed \in Nat,
               m.committed >= sm[o].committed
        PROVE  sm'[s].committed >= sm[s].committed
    <3>1. sm'[s] = IF s = o THEN m ELSE sm[s]
      BY <2>3 DEF ReplInv, Types
    <3> QED
      BY <2>1, <2>3, <3>1
  <2>4. ASSUME NEW o \in Server, ApplyEntry(o) PROVE sm'[s].committed >= sm[s].committed
    <3> DEFINE e == EntryAt(log[o], sm[o].committed + 1)
    <3>1. sm' = [sm EXCEPT ![o] = CommitValue(sm[o], e)]
      BY <2>4 DEF ApplyEntry
    <3>2. sm[o].committed \in Nat /\ sm[o] \in [value : Int, committed : Nat, snaps : Snaps]
      BY InvFacts DEF ReplInv, Nodes, Node, Machine
    <3>3. CommitValue(sm[o], e).committed = sm[o].committed
      BY <3>2 DEF CommitValue
    <3> HIDE DEF e
    <3>4. CommitValue(sm[o], e).committed \in Nat /\ CommitValue(sm[o], e).committed >= sm[o].committed
      BY <3>2, <3>3
    <3> QED
      BY <2>3, <3>1, <3>4
  <2>5. ASSUME NEW o \in Server, StoreIndex(o) PROVE sm'[s].committed >= sm[s].committed
    <3>1. sm' = [sm EXCEPT ![o] = CommitIndex(sm[o], sm[o].committed + 1)]
      BY <2>5 DEF StoreIndex
    <3>2. sm[o].committed \in Nat /\ sm[o] \in [value : Int, committed : Nat, snaps : Snaps]
      BY InvFacts DEF ReplInv, Nodes, Node, Machine
    <3>3. CommitIndex(sm[o], sm[o].committed + 1).committed = sm[o].committed + 1
      BY <3>2 DEF CommitIndex
    <3>4. CommitIndex(sm[o], sm[o].committed + 1).committed \in Nat /\ CommitIndex(sm[o], sm[o].committed + 1).committed >= sm[o].committed
      BY <3>2, <3>3
    <3> QED
      BY <2>3, <3>1, <3>4
  <2>6. ASSUME NEW o \in Server, SnapshotAndCompact(o)
        PROVE  sm'[s].committed >= sm[s].committed
    <3>1. sm' = [sm EXCEPT ![o] = CreateSnapshot(sm[o], sm[o].committed)]
      BY <2>6 DEF SnapshotAndCompact
    <3>2. sm[o].committed \in Nat /\ sm[o] \in [value : Int, committed : Nat, snaps : Snaps]
      BY InvFacts DEF ReplInv, Nodes, Node, Machine
    <3>3. CreateSnapshot(sm[o], sm[o].committed).committed = sm[o].committed
      BY <3>2 DEF CreateSnapshot
    <3>4. CreateSnapshot(sm[o], sm[o].committed).committed \in Nat /\ CreateSnapshot(sm[o], sm[o].committed).committed >= sm[o].committed
      BY <3>2, <3>3
    <3> QED
      BY <2>3, <3>1, <3>4
  <2>7. CASE HandleSnapshot
    <3> DEFINE f == "follower"
               i == rpc.index
               m == ApplySnapshot(SaveLogicalSnpObj(sm[f], i, rpc.value), i)
    <3>1. sm' = [sm EXCEPT ![f] = m] /\ rpc.type = "snapshot" /\ thread[f] = "idle"
      BY <2>7 DEF HandleSnapshot
    <3>2. i = syncing /\ syncing > 0 /\ rpc.value = Value(expected, i)
      BY <3>1 DEF ReplInv, Talk, Request
    <3>3. next \in Nat /\ syncing \in Nat
      BY DEF ReplInv, Types
    <3>4. Last(f) + 1 <= next /\ next <= syncing /\ syncing <= sm["leader"].committed
      <4>1. rpc.type # "response"
        BY <3>1
      <4> QED
        BY <3>2, <4>1 DEF ReplInv, Talk, Known, Sync
    <3>5. /\ Last(f) \in Nat /\ sm[f].committed \in Nat /\ sm[f].committed <= quick[f]
          /\ quick[f] \in Nat /\ quick[f] <= Last(f)
      BY InvFacts DEF Server
    <3>6. /\ sm["leader"].committed \in Nat /\ sm["leader"].committed <= quick["leader"]
          /\ quick["leader"] \in Nat /\ quick["leader"] <= Last("leader")
          /\ Last("leader") \in Nat /\ Last("leader") <= Len(expected) /\ Len(expected) \in Nat
      BY InvFacts DEF Server
    <3>7. i \in Nat /\ Last(f) < i /\ i <= Len(expected) /\ i >= sm[f].committed
      <4> HIDE DEF i
      <4> QED
        BY <3>2, <3>3, <3>4, <3>5, <3>6, SMTT(60)
    <3>8. expected \in Seq(Counters) /\ Node(expected, log[f], Last(f), sm[f], quick[f], "idle")
      BY <3>1 DEF ReplInv, Types, Nodes, Server
    <3>9. m.committed = i
      BY <3>2, <3>7, <3>8, NodeInstalls
    <3>10. f \in Server
      BY DEF Server
    <3> HIDE DEF f, i, m
    <3> QED
      BY <2>3, <3>1, <3>7, <3>9, <3>10
  <2>8. ~Restart
    <3>1. Restart => restarts' = restarts + 1
      BY DEF Restart
    <3> QED
      BY <3>1 DEF Counted
  <2>9. \/ sm' = sm \/ HandleSnapshot
        \/ \E o \in Server : ApplyEntry(o) \/ StoreIndex(o) \/ SnapshotAndCompact(o)
    <3>1. /\ \A e \in Entries : Replicate(e) => sm' = sm
          /\ \A i \in 1..(MaxIndex + 1) : LearnCommit(i) => sm' = sm
          /\ (SendPack \/ AddServer \/ SendAppend \/ StartSync \/ SendSnapshot
              \/ ReceiveResponse \/ HandlePack \/ HandleAppend) => sm' = sm
      BY DEF Replicate, LearnCommit, SendPack, AddServer, SendAppend, StartSync,
             SendSnapshot, ReceiveResponse, HandlePack, HandleAppend
    <3> QED
      BY <2>8, <3>1 DEF Next
  <2> QED
    BY <2>2, <2>4, <2>5, <2>6, <2>7, <2>9
<1>2. Spec => [][\A s \in Server : sm'[s].committed >= sm[s].committed \/ restarts' # restarts]_vars
  BY <1>1, SpecInv, SpecCounted, PTL DEF Spec
<1> QED
  BY <1>2 DEF CommitOnlyGrows
=============================================================================
