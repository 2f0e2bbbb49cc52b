-------------------------- MODULE RaftStorageProofs -------------------------
(***************************************************************************)
(* What one node of the cluster stores: its log, in memory, and its term,  *)
(* vote and configuration, in files.                                       *)
(*                                                                         *)
(* The log never gets a hole, for every set of entries and every bound:    *)
(* MemLogStore's TypeOK and Contiguous.  Contiguous speaks of next_slot(), *)
(* which counts keys.  The induction is on HasShape instead, which names   *)
(* the index of the last entry: the keys are the dummy and start .. last.  *)
(* ShapeNextSlot turns one into the other; one lemma per method carries    *)
(* the shape over a call.  And mem_log_store implements LogStore, call by  *)
(* call: in a store of that shape the abstract sequence is the entries     *)
(* from start on, and base + Len(entries) is last.  One lemma per method   *)
(* computes the sequence the method leaves behind.                         *)
(*                                                                         *)
(* A node never votes twice in one term, for every set of nodes and every  *)
(* bound on terms, provided only the process can be killed: FileStateMgr's *)
(* FilesTypeOK, VoteOnce, CrashAtomic and ConfigRemembered.  The inductive *)
(* invariant FilesInv relates three copies of the state: what is on file   *)
(* bounds every vote ever sent (VotesOnFile); what is in memory is on file *)
(* unless a save is under way, in which case it is newer (Fresh); and      *)
(* path.tmp holds the whole of it before the rename (Complete).            *)
(***************************************************************************)
EXTENDS MemLogStore, FileStateMgr, FiniteSetTheorems, SequenceTheorems, TLAPS

-----------------------------------------------------------------------------
(* The log store.                                                          *)

(* Entries occupy exactly start .. last; the store may be empty, which is  *)
(* last = start - 1.                                                       *)
HasShape(s, last) ==
  /\ s \in [logs : [{0} \cup (s.start..last) -> Entry \cup {Dummy}], start : Nat \ {0}]
  /\ last \in Nat /\ s.start - 1 <= last
  /\ s.logs[0] = Dummy
  /\ \A i \in s.start..last : s.logs[i] \in Entry

StoreInv == \E last \in Nat : HasShape(store, last)

(* In a store of that shape the count of keys does give the next index:    *)
(* next_slot() is one past the last entry.                                 *)
LEMMA ShapeNextSlot ==
  ASSUME NEW s, NEW last, HasShape(s, last)
  PROVE  /\ IsFiniteSet(DOMAIN s.logs)
         /\ NextSlot(s) = last + 1
<1>1. s.start \in Nat \ {0} /\ last \in Nat /\ s.start - 1 <= last
  BY DEF HasShape
<1>2. DOMAIN s.logs = (s.start..last) \cup {0}
  BY DEF HasShape
<1>3. /\ IsFiniteSet(s.start..last)
      /\ Cardinality(s.start..last) = last - s.start + 1
  <2>1. s.start \in Int /\ last \in Int
    BY <1>1
  <2>2. /\ IsFiniteSet(s.start..last)
        /\ Cardinality(s.start..last) =
             IF s.start > last THEN 0 ELSE last - s.start + 1
    BY <2>1, FS_Interval, Zenon
  <2> QED
    BY <1>1, <2>2
<1>4. 0 \notin s.start..last
  BY <1>1
<1>5. /\ IsFiniteSet(DOMAIN s.logs)
      /\ Cardinality(DOMAIN s.logs) = last - s.start + 2
  <2>1. /\ IsFiniteSet((s.start..last) \cup {0})
        /\ Cardinality((s.start..last) \cup {0}) =
             IF 0 \in s.start..last THEN Cardinality(s.start..last)
             ELSE Cardinality(s.start..last) + 1
    BY <1>3, FS_AddElement, Zenon
  <2> QED
    BY <1>1, <1>2, <1>3, <1>4, <2>1
<1> QED
  BY <1>1, <1>5 DEF NextSlot

(* The constructor leaves only the dummy.                                  *)
LEMMA InitShape == Init => StoreInv
<1> SUFFICES ASSUME Init PROVE HasShape(store, 0)
  BY DEF StoreInv
<1> QED
  BY DEF Init, EmptyStore, HasShape

(* append() extends the shape by one index.                                *)
LEMMA AppendShape ==
  ASSUME NEW s, NEW last, HasShape(s, last), NEW e \in Entry
  PROVE  HasShape(AppendEntry(s, e), last + 1)
<1>1. NextSlot(s) = last + 1
  BY ShapeNextSlot
<1>2. AppendEntry(s, e) = [logs |-> Put(s.logs, last + 1, e), start |-> s.start]
  BY <1>1 DEF AppendEntry, HasShape
<1>3. {0} \cup (s.start..last) \cup {last + 1} = {0} \cup (s.start..(last + 1))
  BY DEF HasShape
<1> QED
  BY <1>2, <1>3 DEF HasShape, Put

(* write_at() at a legal index cuts the shape there.                       *)
LEMMA WriteAtShape ==
  ASSUME NEW s, NEW last, HasShape(s, last), NEW e \in Entry,
         NEW i \in s.start..(last + 1)
  PROVE  HasShape(WriteAt(s, i, e), i)
<1>1. KeptBelow(s, i) = {0} \cup (s.start..(i - 1))
  BY DEF KeptBelow, HasShape
<1>2. WriteAt(s, i, e) =
        [logs |-> Put(Restrict(s.logs, KeptBelow(s, i)), i, e), start |-> s.start]
  BY DEF WriteAt, HasShape
<1>3. {0} \cup (s.start..(i - 1)) \cup {i} = {0} \cup (s.start..i)
  BY DEF HasShape
<1> QED
  BY <1>1, <1>2, <1>3 DEF HasShape, Put, Restrict

(* The smallest key above the dummy is the first index of an interval.     *)
LEMMA FirstKeyOfInterval ==
  ASSUME NEW map, NEW a \in Nat \ {0}, NEW b \in Nat, a <= b,
         DOMAIN map = {0} \cup (a..b)
  PROVE  FirstKey(map) = a
<1>1. DOMAIN map # {0}
  OBVIOUS
<1>2. \A k \in DOMAIN map \ {0} : (\A j \in DOMAIN map \ {0} : k <= j) <=> k = a
  OBVIOUS
<1>3. a \in DOMAIN map \ {0}
  OBVIOUS
<1> QED
  BY <1>1, <1>2, <1>3 DEF FirstKey

\* Where the shape begins and ends after apply_pack() of n entries.
PackedFirst(s, last, i) == IF last + 1 = s.start THEN i ELSE s.start
PackedLast(s, last, i, n) ==
  IF last + 1 # s.start /\ i + n - 1 < last THEN last ELSE i + n - 1

(* apply_pack() of at least one entry extends or overwrites the shape, or  *)
(* moves an empty store to a new start.                                    *)
LEMMA ApplyPackShape ==
  ASSUME NEW s, NEW last, HasShape(s, last),
         NEW n \in Nat \ {0}, NEW pack \in [1..n -> Entry],
         NEW i \in Nat, s.start <= i, i <= last + 1 \/ last + 1 = s.start
  PROVE  /\ HasShape(ApplyPack(s, i, pack), PackedLast(s, last, i, n))
         /\ ApplyPack(s, i, pack) = [logs  |-> Overlay(s.logs, i, pack),
                                     start |-> PackedFirst(s, last, i)]
<1> DEFINE map == Overlay(s.logs, i, pack)
           a == PackedFirst(s, last, i)
           b == PackedLast(s, last, i, n)
<1>1. Len(pack) = n
  OBVIOUS
<1>2. s.start \in Nat \ {0} /\ last \in Nat /\ s.start - 1 <= last
  BY DEF HasShape
<1>3. DOMAIN map = {0} \cup (s.start..last) \cup (i..(i + n - 1))
  BY <1>1 DEF Overlay, HasShape
<1>4. a \in Nat \ {0} /\ b \in Nat /\ a <= b
  BY <1>2 DEF PackedFirst, PackedLast
<1>5. (s.start..last) \cup (i..(i + n - 1)) = a..b
  BY <1>2 DEF PackedFirst, PackedLast
<1>6. map = [k \in DOMAIN map |-> map[k]] /\ map[0] = Dummy
  BY <1>1, <1>2 DEF Overlay, HasShape
<1>7. \A k \in DOMAIN map \ {0} : map[k] \in Entry
  BY <1>1, <1>2, <1>3 DEF Overlay, HasShape
<1>8. ApplyPack(s, i, pack) = [logs |-> map, start |-> FirstKey(map)]
  BY DEF ApplyPack
<1> HIDE DEF map, a, b
<1>9. DOMAIN map = {0} \cup (a..b)
  BY <1>3, <1>5
<1>10. FirstKey(map) = a
  BY <1>4, <1>9, FirstKeyOfInterval
<1>11. map \in [{0} \cup (a..b) -> Entry \cup {Dummy}]
  BY <1>6, <1>7, <1>9
<1>12. HasShape(ApplyPack(s, i, pack), b)
  BY <1>4, <1>6, <1>7, <1>8, <1>9, <1>10, <1>11 DEF HasShape
<1> QED
  BY <1>8, <1>10, <1>12 DEF map, a, b

\* Where the shape ends after compact(c).
CompactedLast(s, last, c) == IF s.start <= c /\ last < c THEN c ELSE last

(* compact() cuts the shape from below, possibly past its last entry.      *)
LEMMA CompactShape ==
  ASSUME NEW s, NEW last, HasShape(s, last), NEW c \in Nat
  PROVE  HasShape(Compact(s, c), CompactedLast(s, last, c))
<1> DEFINE first == CompactedStart(s, c)
           end == CompactedLast(s, last, c)
<1>1. s.start \in Nat \ {0} /\ last \in Nat /\ s.start - 1 <= last
  BY DEF HasShape
<1>2. first \in Nat \ {0} /\ end \in Nat
  BY <1>1 DEF CompactedStart, CompactedLast
<1>3. ({0} \cup (s.start..last)) \ (s.start..c) = {0} \cup (first..end)
  BY <1>1 DEF CompactedStart, CompactedLast
<1> QED
  BY <1>1, <1>2, <1>3 DEF HasShape, Compact, CompactedStart, CompactedLast, Restrict

LEMMA NextShape == StoreInv /\ [Next]_vars => StoreInv'
<1> SUFFICES ASSUME NEW last \in Nat, HasShape(store, last), [Next]_vars
             PROVE  StoreInv'
  BY DEF StoreInv
<1>1. NextSlot(store) = last + 1
  BY ShapeNextSlot
<1>2. ASSUME NEW e \in Entry, append(e) PROVE StoreInv'
  BY <1>2, AppendShape DEF append, StoreInv
<1>3. ASSUME NEW i \in 1..MaxIndex, NEW e \in Entry, write_at(i, e) PROVE StoreInv'
  <2>1. i \in store.start..(last + 1)
    BY <1>1, <1>3, BoundsAreNats DEF write_at, StartIndex, HasShape
  <2> QED
    BY <1>3, <2>1, WriteAtShape, BoundsAreNats DEF write_at, StoreInv
<1>4. ASSUME NEW i \in 1..MaxIndex, NEW pack \in Packs, apply_pack(i, pack)
      PROVE  StoreInv'
  <2>1. PICK n \in 1..MaxPack : pack \in [1..n -> Entry]
    BY DEF Packs
  <2>2. store.start <= i /\ (i <= last + 1 \/ last + 1 = store.start)
    BY <1>1, <1>4 DEF apply_pack, StartIndex, IsEmpty
  <2>3. PackedLast(store, last, i, n) \in Nat
    BY <2>1, <2>2, BoundsAreNats DEF PackedLast, HasShape
  <2> QED
    BY <1>4, <2>1, <2>2, <2>3, ApplyPackShape, BoundsAreNats DEF apply_pack, StoreInv
<1>5. ASSUME NEW c \in 0..MaxIndex, compact(c) PROVE StoreInv'
  <2>1. c \in Nat /\ CompactedLast(store, last, c) \in Nat
    BY BoundsAreNats DEF CompactedLast, HasShape
  <2> QED
    BY <1>5, <2>1, CompactShape DEF compact, StoreInv
<1>6. CASE UNCHANGED vars
  BY <1>6 DEF vars, StoreInv
<1> QED
  BY <1>2, <1>3, <1>4, <1>5, <1>6 DEF Next

(* StoreInv holds in every reachable state of a store.                       *)
THEOREM StoreHasShape == Spec => []StoreInv
  BY InitShape, NextShape, PTL DEF Spec

(* Whatever mix of calls ran before, the store holds the dummy at 0, only  *)
(* entries elsewhere, and finitely many of them.                           *)
THEOREM StoreTypeOK == Spec => []TypeOK
<1>1. StoreInv => TypeOK
  <2> SUFFICES ASSUME NEW last \in Nat, HasShape(store, last) PROVE TypeOK
    BY DEF StoreInv
  <2> QED
    BY ShapeNextSlot DEF HasShape, TypeOK
<1> QED
  BY <1>1, StoreHasShape, PTL

(* next_slot() is right in every reachable state: the keys of the map are  *)
(* the dummy and start_idx_ .. next_slot()-1, with no hole between them.   *)
THEOREM StoreContiguous == Spec => []Contiguous
<1>1. StoreInv => Contiguous
  <2> SUFFICES ASSUME NEW last \in Nat, HasShape(store, last) PROVE Contiguous
    BY DEF StoreInv
  <2> QED
    BY ShapeNextSlot DEF HasShape, Contiguous, StartIndex
<1> QED
  BY <1>1, StoreHasShape, PTL
-----------------------------------------------------------------------------
(* The refinement of LogStore.                                             *)

\* The abstract sequence of a store.
Seen(s) == LogEntries(s, StartIndex(s), NextSlot(s))

LEMMA SeenOfShape ==
  ASSUME NEW s, NEW last, HasShape(s, last)
  PROVE  /\ Seen(s) \in Seq(Entry)
         /\ last + 1 - s.start \in Nat
         /\ Len(Seen(s)) = last + 1 - s.start
         /\ \A k \in 1..(last + 1 - s.start) : Seen(s)[k] = s.logs[s.start + k - 1]
<1>1. /\ s.start \in Nat \ {0} /\ last \in Nat /\ s.start - 1 <= last
      /\ \A i \in s.start..last : s.logs[i] \in Entry
  BY DEF HasShape
<1>2. PICK n \in Nat : n = last + 1 - s.start
  BY <1>1
<1>3. NextSlot(s) - StartIndex(s) = n /\ StartIndex(s) = s.start
  BY <1>1, <1>2, ShapeNextSlot DEF StartIndex
<1>4. Seen(s) = [k \in 1..n |-> s.logs[s.start + k - 1]]
  BY <1>3, Zenon DEF Seen, LogEntries
<1>5. \A k \in 1..n : s.logs[s.start + k - 1] \in Entry
  BY <1>1, <1>2
<1>6. /\ Seen(s) \in Seq(Entry) /\ Len(Seen(s)) = n
      /\ \A k \in 1..n : Seen(s)[k] = s.logs[s.start + k - 1]
  BY <1>4, <1>5
<1> QED
  BY <1>2, <1>6

(* append() adds one entry after the last.                                 *)
LEMMA AppendSeen ==
  ASSUME NEW s, NEW last, HasShape(s, last), NEW e \in Entry
  PROVE  /\ AppendEntry(s, e).start = s.start
         /\ Seen(AppendEntry(s, e)) = Append(Seen(s), e)
<1> DEFINE t == AppendEntry(s, e)
<1>1. s.start \in Nat \ {0} /\ last \in Nat /\ s.start - 1 <= last
  BY DEF HasShape
<1>2. HasShape(t, last + 1)
  BY AppendShape
<1>3. t = [logs |-> Put(s.logs, last + 1, e), start |-> s.start]
  BY ShapeNextSlot DEF AppendEntry, HasShape
<1>4. /\ t.start = s.start
      /\ \A k \in s.start..(last + 1) : t.logs[k] = IF k = last + 1 THEN e ELSE s.logs[k]
  BY <1>1, <1>3 DEF Put, HasShape
<1> HIDE DEF t
<1>5. PICK n \in Nat : n = last + 1 - s.start
  BY <1>1
<1>6. /\ Seen(s) \in Seq(Entry) /\ Len(Seen(s)) = n
      /\ \A k \in 1..n : Seen(s)[k] = s.logs[s.start + k - 1]
  BY <1>5, SeenOfShape
<1>7. /\ Seen(t) \in Seq(Entry) /\ Len(Seen(t)) = n + 1
      /\ \A k \in 1..(n + 1) : Seen(t)[k] = t.logs[s.start + k - 1]
  <2>1. last + 1 + 1 - t.start = n + 1
    BY <1>1, <1>4, <1>5
  <2>2. PICK m : m = last + 1
    OBVIOUS
  <2>3. HasShape(t, m) /\ m + 1 - t.start = n + 1
    BY <1>2, <2>1, <2>2
  <2>4. /\ Seen(t) \in Seq(Entry) /\ Len(Seen(t)) = m + 1 - t.start
        /\ \A k \in 1..(m + 1 - t.start) : Seen(t)[k] = t.logs[t.start + k - 1]
    BY <2>3, SeenOfShape, Zenon
  <2> QED
    BY <1>4, <2>3, <2>4, Zenon
<1>8. Seen(t) = Append(Seen(s), e)
  <2>1. \A k \in 1..(n + 1) : Seen(t)[k] = IF k = n + 1 THEN e ELSE Seen(s)[k]
    <3> SUFFICES ASSUME NEW k \in 1..(n + 1)
                 PROVE  Seen(t)[k] = IF k = n + 1 THEN e ELSE Seen(s)[k]
      OBVIOUS
    <3>1. /\ s.start + k - 1 \in s.start..(last + 1)
          /\ s.start + k - 1 = last + 1 <=> k = n + 1
          /\ k # n + 1 => k \in 1..n
      BY <1>1, <1>5
    <3> QED
      BY <1>4, <1>6, <1>7, <3>1
  <2>2. /\ Append(Seen(s), e) \in Seq(Entry) /\ Len(Append(Seen(s), e)) = n + 1
        /\ \A k \in 1..(n + 1) : Append(Seen(s), e)[k] = IF k = n + 1 THEN e ELSE Seen(s)[k]
    BY <1>6
  <2> QED
    BY <1>7, <2>1, <2>2, SeqEqual
<1> QED
  BY <1>4, <1>8 DEF t

(* write_at() keeps what is below the index, and nothing above it.         *)
LEMMA WriteAtSeen ==
  ASSUME NEW s, NEW last, HasShape(s, last), NEW e \in Entry,
         NEW i \in s.start..(last + 1)
  PROVE  /\ WriteAt(s, i, e).start = s.start
         /\ Seen(WriteAt(s, i, e)) = Append(SubSeq(Seen(s), 1, i - s.start), e)
<1> DEFINE t == WriteAt(s, i, e)
<1>1. /\ s.start \in Nat \ {0} /\ last \in Nat /\ s.start - 1 <= last /\ i \in Nat
      /\ s.start <= i /\ i <= last + 1
  BY DEF HasShape
<1>2. HasShape(t, i)
  BY WriteAtShape
<1>3. t = [logs |-> Put(Restrict(s.logs, KeptBelow(s, i)), i, e), start |-> s.start]
  BY DEF WriteAt, HasShape
<1>4. /\ t.start = s.start
      /\ \A k \in s.start..i : t.logs[k] = IF k = i THEN e ELSE s.logs[k]
  BY <1>1, <1>3 DEF Put, Restrict, KeptBelow, HasShape
<1> HIDE DEF t
<1>5. PICK n \in Nat, m \in Nat : n = last + 1 - s.start /\ m = i - s.start /\ m <= n
  BY <1>1
<1>6. /\ Seen(s) \in Seq(Entry) /\ Len(Seen(s)) = n
      /\ \A k \in 1..n : Seen(s)[k] = s.logs[s.start + k - 1]
  BY <1>5, SeenOfShape
<1>7. /\ Seen(t) \in Seq(Entry) /\ Len(Seen(t)) = m + 1
      /\ \A k \in 1..(m + 1) : Seen(t)[k] = t.logs[s.start + k - 1]
  <2>1. i + 1 - t.start = m + 1
    BY <1>1, <1>4, <1>5
  <2> QED
    BY <1>2, <1>4, <2>1, SeenOfShape
<1> DEFINE p == SubSeq(Seen(s), 1, m)
<1>8. p \in Seq(Entry) /\ Len(p) = m /\ \A k \in 1..m : p[k] = Seen(s)[k]
  BY <1>5, <1>6
<1> HIDE DEF p
<1>9. Seen(t) = Append(p, e)
  <2>1. \A k \in 1..(m + 1) : Seen(t)[k] = IF k = m + 1 THEN e ELSE p[k]
    <3> SUFFICES ASSUME NEW k \in 1..(m + 1)
                 PROVE  Seen(t)[k] = IF k = m + 1 THEN e ELSE p[k]
      OBVIOUS
    <3>1. /\ s.start + k - 1 \in s.start..i
          /\ s.start + k - 1 = i <=> k = m + 1
          /\ k # m + 1 => k \in 1..m /\ k \in 1..n
      BY <1>1, <1>5
    <3> QED
      BY <1>4, <1>6, <1>7, <1>8, <3>1
  <2>2. /\ Append(p, e) \in Seq(Entry) /\ Len(Append(p, e)) = m + 1
        /\ \A k \in 1..(m + 1) : Append(p, e)[k] = IF k = m + 1 THEN e ELSE p[k]
    BY <1>8
  <2> QED
    BY <1>7, <2>1, <2>2, SeqEqual
<1> QED
  BY <1>4, <1>5, <1>9 DEF t, p

\* The sequence LogStore!Install puts in the place of p.
Installed(p, base, i, pack) ==
  [k \in 1..(IF base + Len(p) < i + Len(pack) THEN i + Len(pack) - 1 - base
             ELSE Len(p)) |->
     IF k + base \in i..(i + Len(pack) - 1) THEN pack[k + base - i + 1] ELSE p[k]]

(* apply_pack() within the log overwrites what it covers and keeps the     *)
(* rest, above it too.                                                     *)
LEMMA ApplyPackSeen ==
  ASSUME NEW s, NEW last, HasShape(s, last),
         NEW n \in Nat \ {0}, NEW pack \in [1..n -> Entry],
         NEW i \in Nat, s.start <= i, i <= last + 1
  PROVE  /\ ApplyPack(s, i, pack).start = s.start
         /\ Seen(ApplyPack(s, i, pack)) = Installed(Seen(s), s.start - 1, i, pack)
<1> DEFINE t == ApplyPack(s, i, pack)
           b == PackedLast(s, last, i, n)
<1>1. s.start \in Nat \ {0} /\ last \in Nat /\ s.start - 1 <= last
  BY DEF HasShape
<1>2. PackedFirst(s, last, i) = s.start
  BY <1>1 DEF PackedFirst
<1>3. HasShape(t, b) /\ t = [logs |-> Overlay(s.logs, i, pack), start |-> s.start]
  BY <1>2, ApplyPackShape
<1>4. Len(pack) = n
  OBVIOUS
<1>5. b \in Nat /\ b = IF i + n - 1 < last THEN last ELSE i + n - 1
  BY <1>1 DEF PackedLast
<1>6. /\ t.start = s.start
      /\ \A k \in s.start..b :
           t.logs[k] = IF k \in i..(i + n - 1) THEN pack[k - i + 1] ELSE s.logs[k]
  <2>1. t.start = s.start /\ t.logs = Overlay(s.logs, i, pack)
    BY <1>3
  <2>2. DOMAIN t.logs = {0} \cup (s.start..b)
    BY <1>3, <2>1 DEF HasShape
  <2> HIDE DEF t, b
  <2>3. \A k \in DOMAIN t.logs :
          t.logs[k] = IF k \in i..(i + n - 1) THEN pack[k - i + 1] ELSE s.logs[k]
    BY <1>4, <2>1 DEF Overlay
  <2> QED
    BY <2>1, <2>2, <2>3
<1> HIDE DEF t, b
<1>7. PICK m \in Nat, l \in Nat : m = last + 1 - s.start /\ l = b + 1 - s.start
  <2>1. last + 1 - s.start \in Nat
    BY <1>1
  <2>2. b + 1 - s.start \in Nat
    BY <1>3, <1>6, SeenOfShape
  <2> QED
    BY <2>1, <2>2, Zenon
<1>8. /\ Seen(s) \in Seq(Entry) /\ Len(Seen(s)) = m
      /\ \A k \in 1..m : Seen(s)[k] = s.logs[s.start + k - 1]
  BY <1>7, SeenOfShape
<1>9. /\ Seen(t) \in Seq(Entry) /\ Len(Seen(t)) = l
      /\ \A k \in 1..l : Seen(t)[k] = t.logs[s.start + k - 1]
  BY <1>3, <1>6, <1>7, SeenOfShape
<1>10. l = IF s.start - 1 + Len(Seen(s)) < i + Len(pack)
           THEN i + Len(pack) - 1 - (s.start - 1) ELSE Len(Seen(s))
  <2>1. s.start - 1 + Len(Seen(s)) = last
    BY <1>1, <1>7, <1>8
  <2>2. i + Len(pack) - 1 - (s.start - 1) = (i + n - 1) + 1 - s.start
    BY <1>1, <1>4
  <2>3. CASE last < i + n
    <3>1. b = i + n - 1
      BY <1>1, <1>5, <2>3
    <3> QED
      BY <1>4, <1>7, <2>1, <2>2, <2>3, <3>1
  <2>4. CASE ~(last < i + n)
    <3>1. b = last
      BY <1>1, <1>5, <2>4
    <3> QED
      BY <1>4, <1>7, <1>8, <2>1, <2>4, <3>1
  <2> QED
    BY <2>3, <2>4
<1>11. ASSUME NEW k \in 1..l
       PROVE  Seen(t)[k] = IF k + (s.start - 1) \in i..(i + Len(pack) - 1)
                           THEN pack[k + (s.start - 1) - i + 1] ELSE Seen(s)[k]
  <2> k \in Nat /\ 1 <= k /\ k <= l
    OBVIOUS
  <2>1. PICK j \in Nat : /\ j = s.start + k - 1 /\ j = k + (s.start - 1)
                         /\ j \in s.start..b
    <3>1. PICK j \in Nat : j = s.start + k - 1
      BY <1>1
    <3>2. j = k + (s.start - 1)
      BY <1>1, <3>1
    <3>3. b \in Nat
      BY <1>5
    <3>4. s.start \in Nat
      BY <1>1
    <3>5. s.start <= j
      BY <3>1, <3>4
    <3>6. j <= b
      BY <1>7, <3>1, <3>3, <3>4
    <3>7. j \in s.start..b
      BY <3>3, <3>4, <3>5, <3>6
    <3> QED
      BY <3>1, <3>2, <3>7
  <2>2. Seen(t)[k] = IF j \in i..(i + n - 1) THEN pack[j - i + 1] ELSE s.logs[j]
    BY <1>6, <1>9, <2>1
  <2>3. j \notin i..(i + n - 1) => k \in 1..m
    BY <1>1, <1>5, <1>7, <2>1, SMTT(60)
  <2>4. j \notin i..(i + n - 1) => Seen(s)[k] = s.logs[j]
    BY <1>8, <2>1, <2>3
  <2>5. k + (s.start - 1) = j
    BY <2>1
  <2> QED
    BY <1>1, <1>4, <2>2, <2>4, <2>5, SMTT(60)
<1>12. Seen(t) = [k \in 1..l |-> Seen(t)[k]]
  BY <1>9
<1>13. Seen(t) = Installed(Seen(s), s.start - 1, i, pack)
  BY <1>10, <1>11, <1>12, Zenon DEF Installed
<1> QED
  BY <1>6, <1>13 DEF t

(* apply_pack() on an empty store starts it anew with the pack.            *)
LEMMA RebasedSeen ==
  ASSUME NEW s, NEW last, HasShape(s, last), last + 1 = s.start,
         NEW n \in Nat \ {0}, NEW pack \in [1..n -> Entry],
         NEW i \in Nat, s.start <= i
  PROVE  /\ ApplyPack(s, i, pack).start = i
         /\ Seen(ApplyPack(s, i, pack)) = pack
         /\ Seen(s) = <<>>
<1> DEFINE t == ApplyPack(s, i, pack)
<1>1. s.start \in Nat \ {0} /\ last \in Nat
  BY DEF HasShape
<1>2. /\ PackedFirst(s, last, i) = i
      /\ PackedLast(s, last, i, n) = i + n - 1
  BY DEF PackedFirst, PackedLast
<1>3. /\ HasShape(t, i + n - 1)
      /\ t = [logs |-> Overlay(s.logs, i, pack), start |-> i]
  BY <1>2, ApplyPackShape
<1>4. pack \in Seq(Entry) /\ Len(pack) = n
  OBVIOUS
<1>5. t.start = i /\ \A k \in i..(i + n - 1) : t.logs[k] = pack[k - i + 1]
  BY <1>1, <1>3, <1>4 DEF Overlay
<1> HIDE DEF t
<1>6. i + n - 1 + 1 - t.start = n
  BY <1>5
<1>7. /\ Seen(t) \in Seq(Entry) /\ Len(Seen(t)) = n
      /\ \A k \in 1..n : Seen(t)[k] = t.logs[i + k - 1]
  BY <1>3, <1>5, <1>6, SeenOfShape
<1>8. ASSUME NEW k \in 1..n PROVE Seen(t)[k] = pack[k]
  <2>1. i + k - 1 \in i..(i + n - 1) /\ (i + k - 1) - i + 1 = k
    OBVIOUS
  <2> QED
    BY <1>5, <1>7, <2>1
<1>9. Seen(t) = pack
  BY <1>4, <1>7, <1>8, SeqEqual
<1>10. Seen(s) = <<>>
  <2>1. Seen(s) \in Seq(Entry) /\ Len(Seen(s)) = 0
    BY <1>1, SeenOfShape
  <2> QED
    BY <2>1, EmptySeq
<1> QED
  BY <1>5, <1>9, <1>10 DEF t

(* compact() forgets a prefix, or all of it.                               *)
LEMMA CompactSeen ==
  ASSUME NEW s, NEW last, HasShape(s, last), NEW c \in Nat
  PROVE  /\ c <= s.start - 1 => /\ Compact(s, c).start = s.start
                                /\ Seen(Compact(s, c)) = Seen(s)
         /\ c > s.start - 1 =>
              /\ Compact(s, c).start = c + 1
              /\ Seen(Compact(s, c)) =
                   SubSeq(Seen(s), c - (s.start - 1) + 1, Len(Seen(s)))
<1> DEFINE t == Compact(s, c)
           b == CompactedLast(s, last, c)
<1>1. s.start \in Nat \ {0} /\ last \in Nat /\ s.start - 1 <= last
  BY DEF HasShape
<1>2. HasShape(t, b) /\ b \in Nat
  BY <1>1, CompactShape DEF CompactedLast
<1>3. t = [logs |-> Restrict(s.logs, DOMAIN s.logs \ (s.start..c)),
           start |-> CompactedStart(s, c)]
  BY DEF Compact
<1>4. PICK m \in Nat : m = last + 1 - s.start
  BY <1>1
<1>5. /\ Seen(s) \in Seq(Entry) /\ Len(Seen(s)) = m
      /\ \A k \in 1..m : Seen(s)[k] = s.logs[s.start + k - 1]
  BY <1>4, SeenOfShape
<1>6. CASE c <= s.start - 1
  <2>1. t.start = s.start /\ b = last
    BY <1>1, <1>3, <1>6 DEF CompactedStart, CompactedLast
  <2>2. \A k \in s.start..last : t.logs[k] = s.logs[k]
    BY <1>1, <1>3, <1>6 DEF Restrict, HasShape
  <2> HIDE DEF t, b
  <2>3. /\ Seen(t) \in Seq(Entry) /\ Len(Seen(t)) = m
        /\ \A k \in 1..m : Seen(t)[k] = t.logs[s.start + k - 1]
    BY <1>2, <1>4, <2>1, SeenOfShape
  <2>4. ASSUME NEW k \in 1..m PROVE Seen(t)[k] = Seen(s)[k]
    <3>1. s.start + k - 1 \in s.start..last
      BY <1>1, <1>4
    <3> QED
      BY <1>5, <2>2, <2>3, <3>1
  <2>5. Seen(t) = Seen(s)
    BY <1>5, <2>3, <2>4, SeqEqual
  <2>6. ~(c > s.start - 1)
    BY <1>1, <1>6
  <2> QED
    BY <2>1, <2>5, <2>6 DEF t
<1>7. CASE c > s.start - 1
  <2>1. t.start = c + 1 /\ b = IF last < c THEN c ELSE last
    BY <1>1, <1>3, <1>7 DEF CompactedStart, CompactedLast
  <2>2. \A k \in (c + 1)..last : t.logs[k] = s.logs[k]
    BY <1>1, <1>3, <1>7 DEF Restrict, HasShape
  <2> HIDE DEF t, b
  <2>3. PICK d \in Nat, l \in Nat : d = c - (s.start - 1) /\ l = b - c
    BY <1>1, <1>2, <1>7, <2>1
  <2>4. /\ Seen(t) \in Seq(Entry) /\ Len(Seen(t)) = l
        /\ \A k \in 1..l : Seen(t)[k] = t.logs[c + 1 + k - 1]
    <3>1. b + 1 - t.start = l
      BY <1>2, <2>1, <2>3
    <3> QED
      BY <1>2, <2>1, <3>1, SeenOfShape, ZenonT(60)
  <2> DEFINE p == SubSeq(Seen(s), d + 1, m)
  <2>5. /\ p \in Seq(Entry)
        /\ Len(p) = IF d + 1 <= m THEN m - (d + 1) + 1 ELSE 0
        /\ \A k \in 1..(m - (d + 1) + 1) : p[k] = Seen(s)[d + 1 + k - 1]
    <3>1. \A k \in (d + 1)..m : Seen(s)[k] \in Entry
      BY <1>5
    <3> QED
      BY <3>1, SubSeqProperties
  <2>6. Len(p) = l
    <3>1. m - (d + 1) + 1 = last - c /\ (d + 1 <= m <=> c < last)
      BY <1>1, <1>4, <2>3
    <3>2. l = IF c < last THEN last - c ELSE 0
      BY <1>1, <2>1, <2>3
    <3> QED
      BY <2>5, <3>1, <3>2
  <2>7. ASSUME NEW k \in 1..l PROVE Seen(t)[k] = p[k]
    <3>1. /\ k \in Nat /\ 1 <= k /\ c + k <= last /\ last = b
      BY <1>1, <1>2, <2>1, <2>3
    <3>2. PICK j \in Nat : j = c + k /\ j \in (c + 1)..last
      BY <3>1
    <3>3. c + 1 + k - 1 = j /\ s.start + (d + k) - 1 = j
      BY <1>1, <2>3, <3>2
    <3>4. d + k \in 1..m /\ k \in 1..(m - (d + 1) + 1) /\ d + 1 + k - 1 = d + k
      BY <1>1, <1>4, <2>3, <3>1
    <3>5. Seen(t)[k] = s.logs[j]
      BY <2>2, <2>4, <3>2, <3>3
    <3>6. p[k] = s.logs[j]
      BY <1>5, <2>5, <3>3, <3>4
    <3> QED
      BY <3>5, <3>6
  <2> HIDE DEF p
  <2>8. Seen(t) = p
    BY <2>4, <2>5, <2>6, <2>7, SeqEqual
  <2>9. ~(c <= s.start - 1)
    BY <1>1, <1>7
  <2> QED
    BY <1>5, <2>1, <2>3, <2>8, <2>9 DEF t, p
<1>8. c <= s.start - 1 \/ c > s.start - 1
  BY <1>1
<1> QED
  BY <1>6, <1>7, <1>8

-----------------------------------------------------------------------------
(* The refinement.                                                         *)

LEMMA InitRefines == Init => Abstract!Init
<1> SUFFICES ASSUME Init PROVE Abstract!Init
  OBVIOUS
<1>1. HasShape(store, 0) /\ store.start = 1 /\ call = <<>>
  BY DEF Init, EmptyStore, HasShape
<1>2. Seen(store) \in Seq(Entry) /\ Len(Seen(store)) = 0
  BY <1>1, SeenOfShape
<1>3. Seen(store) = <<>>
  BY <1>2, EmptySeq
<1> QED
  BY <1>1, <1>3 DEF Abstract!Init, Seen

LEMMA StepRefines ==
  ASSUME StoreInv, [Next]_vars
  PROVE  [Abstract!Next]_<<store.start - 1, Seen(store), call>>
<1>1. PICK last \in Nat : HasShape(store, last)
  BY DEF StoreInv
<1>2. /\ store.start \in Nat \ {0} /\ store.start - 1 <= last
      /\ NextSlot(store) = last + 1
      /\ Seen(store) \in Seq(Entry) /\ Len(Seen(store)) = last + 1 - store.start
      /\ store.start - 1 + Len(Seen(store)) = last
  BY <1>1, ShapeNextSlot, SeenOfShape, SMTT(60) DEF HasShape
<1>3. ASSUME NEW e \in Entry, append(e) PROVE Abstract!Append1(e)
  <2>1. store' = AppendEntry(store, e) /\ last + 1 <= MaxIndex /\ call' = <<"append", e>>
    BY <1>2, <1>3 DEF append
  <2>2. store'.start = store.start /\ Seen(store)' = Append(Seen(store), e)
    BY <1>1, <2>1, AppendSeen DEF Seen
  <2> QED
    BY <1>2, <2>1, <2>2, BoundsAreNats DEF Abstract!Append1, Abstract!Last, Seen
<1>4. ASSUME NEW i \in 1..MaxIndex, NEW e \in Entry, write_at(i, e)
      PROVE  Abstract!WriteAt(i, e)
  <2>1. /\ store' = WriteAt(store, i, e) /\ call' = <<"write_at", i, e>>
        /\ i \in store.start..(last + 1)
    BY <1>2, <1>4, BoundsAreNats DEF write_at, StartIndex
  <2>2. /\ store'.start = store.start
        /\ Seen(store)' = Append(SubSeq(Seen(store), 1, i - store.start), e)
    BY <1>1, <2>1, WriteAtSeen DEF Seen
  <2>3. /\ i - (store.start - 1) - 1 = i - store.start
        /\ i \in ((store.start - 1) + 1)..(last + 1) /\ i <= MaxIndex
    BY <1>2, <2>1, BoundsAreNats
  <2> QED
    BY <1>2, <2>1, <2>2, <2>3 DEF Abstract!WriteAt, Abstract!Last, Seen
<1>5. ASSUME NEW i \in 1..MaxIndex, NEW pack \in Packs, apply_pack(i, pack)
      PROVE  \E n \in 1..MaxIndex : pack \in [1..n -> Entry] /\
               (Abstract!Install(i, pack) \/ Abstract!Rebase(i, pack))
  <2>1. PICK n \in 1..MaxPack : pack \in [1..n -> Entry]
    BY DEF Packs
  <2>2. /\ n \in Nat \ {0} /\ i \in Nat /\ Len(pack) = n
        /\ i + Len(pack) - 1 <= MaxIndex /\ n \in 1..MaxIndex
    BY <1>5, <2>1, BoundsAreNats DEF apply_pack
  <2>3. /\ store' = ApplyPack(store, i, pack) /\ call' = <<"apply_pack", i, pack>>
        /\ store.start <= i /\ (i <= last + 1 \/ last + 1 = store.start)
    BY <1>2, <1>5 DEF apply_pack, StartIndex, IsEmpty
  <2>4. CASE i <= last + 1
    <3>1. /\ store'.start = store.start
          /\ Seen(store)' = Installed(Seen(store), store.start - 1, i, pack)
      BY <1>1, <2>1, <2>2, <2>3, <2>4, ApplyPackSeen DEF Seen
    <3>2. i \in ((store.start - 1) + 1)..(last + 1)
      BY <1>2, <2>2, <2>3, <2>4
    <3>3. Abstract!Install(i, pack)
      BY <1>2, <2>2, <2>3, <3>1, <3>2
         DEF Abstract!Install, Abstract!Last, Seen, Installed
    <3> QED
      BY <2>1, <2>2, <3>3
  <2>5. CASE last + 1 = store.start /\ ~(i <= last + 1)
    <3>1. store'.start = i /\ Seen(store)' = pack /\ Seen(store) = <<>>
      BY <1>1, <2>1, <2>2, <2>3, <2>5, RebasedSeen DEF Seen
    <3>2. i > store.start - 1
      BY <1>2, <2>2, <2>3
    <3>3. Abstract!Rebase(i, pack)
      BY <2>2, <2>3, <3>1, <3>2 DEF Abstract!Rebase, Seen
    <3> QED
      BY <2>1, <2>2, <3>3
  <2> QED
    BY <2>3, <2>4, <2>5
<1>6. ASSUME NEW c \in 0..MaxIndex, compact(c) PROVE Abstract!Compact(c)
  <2>1. store' = Compact(store, c) /\ call' = <<"compact", c>> /\ c \in Nat
    BY <1>6, BoundsAreNats DEF compact
  <2>2. CASE c <= store.start - 1
    <3>1. store'.start = store.start /\ Seen(store)' = Seen(store)
      BY <1>1, <2>1, <2>2, CompactSeen DEF Seen
    <3> QED
      BY <2>1, <2>2, <3>1 DEF Abstract!Compact, Seen
  <2>3. CASE ~(c <= store.start - 1)
    <3>1. c > store.start - 1
      BY <1>2, <2>1, <2>3
    <3>2. /\ store'.start = c + 1
          /\ Seen(store)' = SubSeq(Seen(store), c - (store.start - 1) + 1, Len(Seen(store)))
      BY <1>1, <2>1, <3>1, CompactSeen DEF Seen
    <3>3. store'.start - 1 = c
      BY <2>1, <3>2
    <3> QED
      BY <2>1, <2>3, <3>2, <3>3 DEF Abstract!Compact, Seen
  <2> QED
    BY <2>2, <2>3
<1>7. CASE UNCHANGED vars
  BY <1>7 DEF vars, Seen
<1>8. CASE Next
  BY <1>3, <1>4, <1>5, <1>6, <1>8 DEF Next, Abstract!Next
<1> QED
  BY <1>7, <1>8

(* Every run of the store is a run of LogStore: each method changes the    *)
(* log the way a Raft log store promises, for every set of entries and     *)
(* every bound, whatever ran before.                                       *)
THEOREM StoreImplementsLogStore == Spec => ImplementsLogStore
<1>1. StoreInv /\ [Next]_vars => [Abstract!Next]_<<store.start - 1, Seen(store), call>>
  BY StepRefines
<1> QED
  BY <1>1, InitRefines, StoreHasShape, PTL DEF Spec, ImplementsLogStore, Abstract!Spec, Seen

-----------------------------------------------------------------------------
(* The state files.                                                        *)

\* What a node that reboots now would start from.
OnFile == IF files["state"] = Absent THEN NewState ELSE files["state"]

VotesOnFile == \A v \in cast : /\ v[1] <= OnFile.term
                               /\ v[1] = OnFile.term => v[2] = OnFile.voted

\* s may follow the state r without taking back the vote in it.
Follows(s, r) == \/ s.term > r.term
                 \/ s.term = r.term /\ r.voted \in {None, s.voted}

SavingState == pc \in {"open", "write", "rename"} /\ job.path = "state"

Fresh == /\ pc \notin {"down"} /\ ~SavingState => srv = OnFile
         /\ SavingState => job.content = srv /\ Follows(srv, OnFile)

Complete == /\ pc = "rename" => tmp[job.path] = job.content
            /\ pc \in {"open", "write", "rename"} =>
                 job.content \in (IF job.path = "state" THEN SrvState ELSE Config)

Voting == /\ job.vote => job.path = "state"
          /\ job.vote /\ pc \in {"open", "write", "rename"} => srv.voted \in Node
          /\ pc = "reply" => srv.voted \in Node

OnlySaved == files = saved

FilesInv == FilesTypeOK /\ VoteOnce /\ VotesOnFile /\ Fresh /\ Complete /\ Voting /\ OnlySaved

LEMMA AbsentIsNoContent == Absent \notin SrvState \cup Config
BY ContentsDiffer DEF NoContent

LEMMA InitInd == FilesInit => FilesInv
BY NoneIsNoNode DEF FilesInit, FilesInv, FilesTypeOK, VoteOnce, VotesOnFile, Fresh, SavingState, Complete,
   Voting, OnlySaved, OnFile, NewState, NoJob, SrvState, Path

(* The calls that start a save keep the files as they are.                 *)
LEMMA SaveStateInd ==
  ASSUME FilesInv, NEW s \in SrvState, NEW vote \in BOOLEAN, save_state(s, vote),
         Follows(s, srv), vote => s.voted \in Node
  PROVE  FilesInv'
<1>1. FilesTypeOK'
  BY DEF FilesInv, FilesTypeOK, save_state, write_file, Path
<1>2. OnFile' = OnFile /\ srv = OnFile
  BY DEF FilesInv, Fresh, SavingState, save_state, write_file, OnFile
<1>3. (VoteOnce /\ VotesOnFile /\ Complete /\ Voting /\ OnlySaved)'
  BY <1>2 DEF FilesInv, VoteOnce, VotesOnFile, Complete, Voting, OnlySaved, save_state, write_file
<1>4. Fresh'
  BY <1>2 DEF Fresh, SavingState, Follows, save_state, write_file
<1> QED
  BY <1>1, <1>3, <1>4 DEF FilesInv

LEMMA SaveConfigInd ==
  ASSUME FilesInv, NEW c \in Config, save_config(c)
  PROVE  FilesInv'
<1>1. FilesTypeOK'
  BY DEF FilesInv, FilesTypeOK, save_config, write_file, Path
<1>2. OnFile' = OnFile /\ srv = OnFile
  BY DEF FilesInv, Fresh, SavingState, save_config, write_file, OnFile
<1>3. (VoteOnce /\ VotesOnFile /\ Complete /\ Voting /\ OnlySaved)'
  BY <1>2 DEF FilesInv, VoteOnce, VotesOnFile, Complete, Voting, OnlySaved, save_config, write_file
<1>4. Fresh'
  BY <1>2 DEF Fresh, SavingState, save_config, write_file
<1> QED
  BY <1>1, <1>3, <1>4 DEF FilesInv

(* The rename is the step that takes effect.                               *)
LEMMA RenameInd == FilesInv /\ Rename => FilesInv'
<1> SUFFICES ASSUME FilesInv, Rename PROVE FilesInv'
  OBVIOUS
<1>1. tmp[job.path] = job.content /\ job.path \in Path
  BY DEF FilesInv, FilesTypeOK, Complete, Rename
<1>2. files' = [files EXCEPT ![job.path] = job.content]
  BY <1>1 DEF Rename
<1>3. CASE job.path = "state"
  <2>1. job.content = srv /\ srv \in SrvState /\ srv # Absent /\ Follows(srv, OnFile)
    BY <1>3, AbsentIsNoContent DEF FilesInv, FilesTypeOK, Fresh, SavingState, Rename
  <2>2. files'["state"] = srv /\ files'["config"] = files["config"] /\ DOMAIN files' = Path
    BY <1>2, <1>3, <2>1 DEF FilesInv, FilesTypeOK, Path
  <2>3. OnFile' = srv
    BY <2>1, <2>2 DEF OnFile
  <2>4. FilesTypeOK'
    BY <1>2, <1>3, <2>1, <2>2, ZenonT(60) DEF FilesInv, FilesTypeOK, Rename, Path
  <2>5. VotesOnFile'
    <3> SUFFICES ASSUME NEW v \in cast
                 PROVE  v[1] <= srv.term /\ (v[1] = srv.term => v[2] = srv.voted)
      BY <2>3 DEF VotesOnFile, Rename
    <3>1. v[1] \in Nat /\ v[2] \in Node
      BY DEF FilesInv, FilesTypeOK
    <3>2. OnFile.term \in Nat /\ srv.term \in Nat
      BY <2>1 DEF FilesInv, FilesTypeOK, OnFile, NewState, SrvState
    <3>3. v[1] <= OnFile.term /\ (v[1] = OnFile.term => v[2] = OnFile.voted)
      BY DEF FilesInv, VotesOnFile
    <3> QED
      BY <2>1, <3>1, <3>2, <3>3, NoneIsNoNode DEF Follows
  <2>6. Fresh' /\ Complete' /\ Voting'
    BY <2>3 DEF FilesInv, Fresh, SavingState, Complete, Voting, Rename
  <2>7. OnlySaved' /\ VoteOnce'
    BY <1>2 DEF FilesInv, OnlySaved, VoteOnce, Rename
  <2> QED
    BY <2>4, <2>5, <2>6, <2>7 DEF FilesInv
<1>4. CASE job.path = "config"
  <2>1. job.content \in Config /\ srv = OnFile
    BY <1>4 DEF FilesInv, Complete, Fresh, SavingState, Rename
  <2>2. files'["config"] = job.content /\ files'["state"] = files["state"] /\ DOMAIN files' = Path
    BY <1>2, <1>4, <2>1 DEF FilesInv, FilesTypeOK, Path
  <2>3. OnFile' = OnFile
    BY <2>2 DEF OnFile
  <2>4. FilesTypeOK'
    BY <1>2, <1>4, <2>1, <2>2 DEF FilesInv, FilesTypeOK, Rename, Path
  <2>5. VotesOnFile'
    BY <2>3 DEF FilesInv, VotesOnFile, Rename
  <2>6. Fresh' /\ Complete' /\ Voting'
    BY <1>4, <2>1, <2>3 DEF FilesInv, Fresh, SavingState, Complete, Voting, Rename
  <2>7. OnlySaved' /\ VoteOnce'
    BY <1>2 DEF FilesInv, OnlySaved, VoteOnce, Rename
  <2> QED
    BY <2>4, <2>5, <2>6, <2>7 DEF FilesInv
<1> QED
  BY <1>1, <1>3, <1>4 DEF Path

LEMMA SendVoteInd == FilesInv /\ SendVote => FilesInv'
<1> SUFFICES ASSUME FilesInv, SendVote PROVE FilesInv'
  OBVIOUS
<1>1. srv = OnFile /\ OnFile' = OnFile /\ srv.voted \in Node /\ srv.term \in Nat
  BY DEF FilesInv, FilesTypeOK, Fresh, SavingState, Voting, OnFile, SendVote, SrvState
<1>2. cast' = cast \cup {<<OnFile.term, OnFile.voted>>}
  BY <1>1 DEF SendVote
<1>3. FilesTypeOK'
  BY <1>1, <1>2 DEF FilesInv, FilesTypeOK, SendVote
<1>4. VotesOnFile'
  BY <1>1, <1>2 DEF FilesInv, VotesOnFile
<1>5. VoteOnce'
  BY <1>1, <1>2 DEF FilesInv, VotesOnFile, VoteOnce
<1>6. (Fresh /\ Complete /\ Voting /\ OnlySaved)'
  BY <1>1 DEF FilesInv, Fresh, SavingState, Complete, Voting, OnlySaved, SendVote
<1> QED
  BY <1>3, <1>4, <1>5, <1>6 DEF FilesInv

(* The steps that leave files, saved and cast alone.                       *)
LEMMA QuietInd ==
  FilesInv /\ (Boot \/ OpenTmp \/ WriteTmp \/ Crash \/ UNCHANGED filesVars) => FilesInv'
<1>1. ASSUME FilesInv, Boot PROVE FilesInv'
  <2>1. srv' = OnFile
    BY <1>1, ContentsDiffer
       DEF FilesInv, FilesTypeOK, Boot, Readable, OnFile, NoContent
  <2>2. FilesTypeOK'
    BY <1>1, <2>1, AbsentIsNoContent, ContentsDiffer, NoneIsNoNode
       DEF FilesInv, FilesTypeOK, Boot, Readable, OnFile, NewState, SrvState, NoContent
  <2>3. OnFile' = OnFile
    BY <1>1 DEF Boot, OnFile
  <2> QED
    BY <1>1, <2>1, <2>2, <2>3
       DEF FilesInv, VoteOnce, VotesOnFile, Fresh, SavingState, Complete, Voting, OnlySaved, Boot
<1>2. ASSUME FilesInv, OpenTmp PROVE FilesInv'
  <2>1. FilesTypeOK'
    BY <1>2 DEF FilesInv, FilesTypeOK, OpenTmp
  <2> QED
    BY <1>2, <2>1
       DEF FilesInv, VoteOnce, VotesOnFile, Fresh, SavingState, Complete, Voting, OnlySaved, OpenTmp, OnFile
<1>3. ASSUME FilesInv, WriteTmp PROVE FilesInv'
  <2>1. FilesTypeOK' /\ tmp'[job.path] = job.content
    BY <1>3 DEF FilesInv, FilesTypeOK, WriteTmp, Complete
  <2> QED
    BY <1>3, <2>1
       DEF FilesInv, VoteOnce, VotesOnFile, Fresh, SavingState, Complete, Voting, OnlySaved, WriteTmp, OnFile
<1>4. ASSUME FilesInv, Crash PROVE FilesInv'
  <2>1. FilesTypeOK'
    BY <1>4, NoneIsNoNode DEF FilesInv, FilesTypeOK, Crash, NewState, NoJob, SrvState, Path
  <2> QED
    BY <1>4, <2>1
       DEF FilesInv, VoteOnce, VotesOnFile, Fresh, SavingState, Complete, Voting, OnlySaved, Crash, OnFile,
           NoJob
<1>5. ASSUME FilesInv, UNCHANGED filesVars PROVE FilesInv'
  BY <1>5 DEF FilesInv, FilesTypeOK, VoteOnce, VotesOnFile, Fresh, SavingState, Complete, Voting, OnlySaved,
              OnFile, filesVars
<1> QED
  BY <1>1, <1>2, <1>3, <1>4, <1>5

LEMMA NextInd == FilesInv /\ [FilesNext]_filesVars => FilesInv'
<1> SUFFICES ASSUME FilesInv, [FilesNext]_filesVars PROVE FilesInv'
  OBVIOUS
<1>1. srv \in SrvState
  BY DEF FilesInv, FilesTypeOK
<1>2. ASSUME NEW t \in 1..MaxTerm, UpdateTerm(t) PROVE FilesInv'
  <2>1. [term |-> t, voted |-> None] \in SrvState
    BY MaxTermIsNat DEF SrvState
  <2> QED
    BY <1>1, <1>2, <2>1, SaveStateInd DEF UpdateTerm, Follows
<1>3. ASSUME NEW n \in Node, GrantVote(n) PROVE FilesInv'
  <2> DEFINE s == [srv EXCEPT !.voted = n]
  <2>1. s \in SrvState /\ s.term = srv.term /\ s.voted = n
    BY <1>1 DEF SrvState
  <2>2. Follows(s, srv)
    BY <1>3, <2>1 DEF GrantVote, Follows
  <2> QED
    BY <1>3, <2>1, <2>2, SaveStateInd DEF GrantVote
<1>4. ASSUME Stand PROVE FilesInv'
  <2>1. [term |-> srv.term + 1, voted |-> Self] \in SrvState
    BY <1>1, NoneIsNoNode DEF SrvState
  <2>2. srv.term + 1 > srv.term
    BY <1>1 DEF SrvState
  <2> QED
    BY <1>4, <2>1, <2>2, SaveStateInd, NoneIsNoNode DEF Stand, Follows
<1> QED
  BY <1>2, <1>3, <1>4, SaveConfigInd, RenameInd, SendVoteInd, QuietInd DEF FilesNext

-----------------------------------------------------------------------------
(* The config in memory is the one on file, or the one about to be.        *)
SavingConfig == pc \in {"open", "write", "rename"} /\ job.path = "config"
ConfOnFile == IF saved["config"] = Absent THEN Alone ELSE saved["config"]
ConfInv == /\ pc # "down" /\ ~SavingConfig => conf = ConfOnFile
           /\ SavingConfig => job.content = conf

LEMMA InitConf == FilesInit => ConfInv
BY DEF FilesInit, ConfInv, SavingConfig

LEMMA SaveConf ==
  ASSUME ConfInv, pc = "idle", pc' = "open", UNCHANGED saved,
         \/ job'.path = "config" /\ job'.content = conf'
         \/ job'.path = "state" /\ UNCHANGED conf
  PROVE  ConfInv'
BY DEF ConfInv, SavingConfig, ConfOnFile

LEMMA RenameConf == ASSUME FilesInv, ConfInv, Rename PROVE ConfInv'
<1>1. /\ pc = "rename" /\ pc' \in {"reply", "idle"} /\ UNCHANGED <<job, conf>>
      /\ saved' = [saved EXCEPT ![job.path] = job.content]
      /\ DOMAIN saved = Path /\ job.path \in Path
  BY DEF Rename, FilesInv, FilesTypeOK
<1>2. CASE job.path = "state"
  <2>1. saved'["config"] = saved["config"]
    BY <1>1, <1>2
  <2> QED
    BY <1>1, <1>2, <2>1 DEF ConfInv, SavingConfig, ConfOnFile
<1>3. CASE job.path = "config"
  <2>1. job.content \in Config /\ saved'["config"] = job.content
    BY <1>1, <1>3 DEF FilesInv, Complete, Path
  <2>2. job.content # Absent
    BY <2>1, AbsentIsNoContent
  <2> QED
    BY <1>1, <1>3, <2>1, <2>2 DEF ConfInv, SavingConfig, ConfOnFile
<1> QED
  BY <1>1, <1>2, <1>3 DEF Path

LEMMA NextConf == FilesInv /\ ConfInv /\ [FilesNext]_filesVars => ConfInv'
<1> SUFFICES ASSUME FilesInv, ConfInv, [FilesNext]_filesVars PROVE ConfInv'
  OBVIOUS
<1>1. CASE Boot
  <2>1. files = saved /\ files["config"] \in Config \cup {Absent}
    BY DEF FilesInv, OnlySaved, FilesTypeOK
  <2>2. Readable("config") <=> files["config"] # Absent
    BY <2>1, ContentsDiffer DEF Readable, NoContent
  <2>3. conf' = ConfOnFile /\ pc' = "idle" /\ UNCHANGED saved
    BY <1>1, <2>1, <2>2 DEF Boot, ConfOnFile
  <2> QED
    BY <2>3 DEF ConfInv, SavingConfig, ConfOnFile
<1>2. ASSUME NEW s, NEW vote, save_state(s, vote) PROVE ConfInv'
  BY <1>2, SaveConf DEF save_state, write_file
<1>3. ASSUME NEW c \in Config, save_config(c) PROVE ConfInv'
  BY <1>3, SaveConf DEF save_config, write_file
<1>4. CASE OpenTmp \/ WriteTmp
  BY <1>4 DEF OpenTmp, WriteTmp, ConfInv, SavingConfig, ConfOnFile
<1>5. CASE SendVote \/ UNCHANGED filesVars
  BY <1>5 DEF SendVote, filesVars, ConfInv, SavingConfig, ConfOnFile
<1>6. CASE Crash
  BY <1>6 DEF Crash, ConfInv, SavingConfig
<1> QED
  BY <1>1, <1>2, <1>3, <1>4, <1>5, <1>6, RenameConf
     DEF FilesNext, UpdateTerm, GrantVote, Stand

-----------------------------------------------------------------------------
(* The three copies agree in every reachable state.                        *)
THEOREM StateMgrInv == FilesSpec => []FilesInv
  BY InitInd, NextInd, PTL DEF FilesSpec

(* The values of all variables, through crashes and reboots.               *)
THEOREM StateMgrTypeOK == FilesSpec => []FilesTypeOK
<1>1. FilesInv => FilesTypeOK
  BY DEF FilesInv
<1> QED
  BY <1>1, StateMgrInv, PTL

(* No two votes of one node in one term name different candidates, however *)
(* the process crashes and reboots: what is on file bounds every vote sent *)
(* and a booting node starts from it.                                      *)
THEOREM NodeVotesOnce == FilesSpec => []VoteOnce
<1>1. FilesInv => VoteOnce
  BY DEF FilesInv
<1> QED
  BY <1>1, StateMgrInv, PTL

(* Whatever step of write_file() a crash interrupts, the files hold what   *)
(* the last completed save wrote.                                          *)
THEOREM SaveIsAtomic == FilesSpec => []CrashAtomic
<1>1. FilesInv => CrashAtomic
  BY DEF FilesInv, OnlySaved, CrashAtomic
<1> QED
  BY <1>1, StateMgrInv, PTL

(* A node that is up and saves nothing runs with the last config it was    *)
(* given, through every crash and reboot: once it has joined a cluster it  *)
(* never comes up as a cluster of its own.                                 *)
THEOREM ConfigIsRemembered == FilesSpec => []ConfigRemembered
<1>1. FilesSpec => []ConfInv
  BY StateMgrInv, InitConf, NextConf, PTL DEF FilesSpec
<1>2. ConfInv => ConfigRemembered
  BY DEF ConfInv, SavingConfig, ConfOnFile, ConfigRemembered
<1> QED
  BY <1>1, <1>2, PTL
=============================================================================
