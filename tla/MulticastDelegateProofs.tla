---------------------- MODULE MulticastDelegateProofs -----------------------
(***************************************************************************)
(* Delegates, for every set of objects and any nesting of broadcasts.      *)
(* First the fields: they stay those of one binding, however often it is   *)
(* bound anew and copied, so IsBound() and IsBoundToObject(), which look   *)
(* at three of them, agree with a call, which uses the fourth.  Then the   *)
(* calls in progress: handles ascend in slots_ and in every snapshot, the  *)
(* frames below the top are inside a callback, and each frame is Fine:     *)
(* what it called lies behind it, what lies behind it was called or is out *)
(* of the question, and what it calls is there.                            *)
(***************************************************************************)
EXTENDS MulticastDelegate, SequenceTheorems, WellFoundedInduction, TLAPS

\* The fields of d are those the bind of its closure sets.
OneBinding(d) == /\ d \in Delegate
                 /\ d.uses_weak <=> d.invocation.how = "lock"
                 /\ d.uses_weak => d.weak = d.invocation.object
                 /\ d.owner = d.invocation.object

IInv == /\ created \in Nat
        /\ DOMAIN bound = 0..created
        /\ \A h \in 0..created : OneBinding(bound[h])
        /\ owned \subseteq Object

-----------------------------------------------------------------------------
(* Whatever d was bound to before, a bind leaves one binding.              *)
LEMMA BindsBindOnce ==
  ASSUME NEW d \in Delegate, NEW objects \in SUBSET Object, NEW e \in Binds(d, objects)
  PROVE  OneBinding(e)
<1>1. CASE e = BindFunction(d)
  BY <1>1 DEF BindFunction, BindInternal, OneBinding, Delegate, Closure, Nullptr
<1>2. ASSUME NEW o \in objects, e = BindRaw(d, o) PROVE OneBinding(e)
  BY <1>2 DEF BindRaw, BindInternal, OneBinding, Delegate, Closure, Nullptr
<1>3. ASSUME NEW o \in objects, e = BindSP(d, o) PROVE OneBinding(e)
  BY <1>3 DEF BindSP, BindInternal, OneBinding, Delegate, Closure, Nullptr
<1> QED
  BY <1>1, <1>2, <1>3 DEF Binds

LEMMA UnbindUnbinds ==
  /\ OneBinding(Unbound)
  /\ \A d \in Delegate : OneBinding(Unbind(d))
  BY DEF Unbound, Unbind, OneBinding, Delegate, Closure, Nullptr

(* The queries only depend on the fields, and on who is alive.             *)
LEMMA FieldsAnswer ==
  ASSUME NEW d, OneBinding(d)
  PROVE  /\ IsBound(d, alive) <=> Reaches(d, alive)
         /\ \A o \in Object : IsBoundToObject(d, o, alive) <=>
                                d.invocation.object = o /\ Reaches(d, alive)
  BY DEF OneBinding, IsBound, IsBoundToObject, Reaches

-----------------------------------------------------------------------------
LEMMA InitInv == Init => IInv
  BY UnbindUnbinds DEF Init, IInv, Own

LEMMA AddInv == ASSUME IInv, NEW d, OneBinding(d), Add(d) PROVE IInv'
  BY DEF IInv, Add

LEMMA RebindInv == IInv /\ Rebind => IInv'
<1> SUFFICES ASSUME IInv, Rebind PROVE IInv'
  OBVIOUS
<1>1. PICK d \in Binds(bound[Own], owned) \cup {Unbind(bound[Own])} :
        bound' = [bound EXCEPT ![Own] = d]
  BY DEF Rebind
<1>2. Own \in 0..created /\ bound[Own] \in Delegate
  BY DEF IInv, Own, OneBinding
<1>3. OneBinding(d)
  BY <1>2, BindsBindOnce, UnbindUnbinds DEF IInv
<1> QED
  BY <1>1, <1>2, <1>3 DEF IInv, Rebind

(* Only adding and binding touch the fields of a delegate.                 *)
LEMMA NextInv == IInv /\ [Next]_vars => IInv'
<1> SUFFICES ASSUME IInv, [Next]_vars PROVE IInv'
  OBVIOUS
<1>1. CASE AddNew
  <2>1. PICK d \in Created(owned) : Add(d)
    BY <1>1 DEF AddNew
  <2>2. Unbound \in Delegate
    BY UnbindUnbinds DEF OneBinding
  <2>3. OneBinding(d)
    BY <2>2, BindsBindOnce DEF Created, IInv
  <2> QED
    BY <2>1, <2>3, AddInv
<1>2. CASE AddOwn
  <2>1. OneBinding(bound[Own])
    BY DEF IInv, Own
  <2> QED
    BY <1>2, <2>1, AddInv DEF AddOwn
<1>3. CASE Rebind
  BY <1>3, RebindInv
<1>4. ASSUME NEW o \in Object, Release(o) PROVE IInv'
  BY <1>4 DEF IInv, Release
<1>5. CASE UNCHANGED <<bound, created, owned>>
  BY <1>5 DEF IInv
<1> QED
  BY <1>1, <1>2, <1>3, <1>4, <1>5
  DEF Next, Execute, Remove, RemoveAll, Clear, Broadcast, Call, Skip,
      CallbackReturns, LeaveCall, EndOfBroadcast, vars

(* What a delegate answers agrees with what a call of it would do, however *)
(* often it was bound anew, unbound and copied.                            *)
THEOREM DelegateQueriesAgree == Spec => []QueriesAgree
<1>1. Init => IInv BY InitInv
<1>2. IInv /\ [Next]_vars => IInv' BY NextInv
<1>3. IInv => QueriesAgree BY FieldsAnswer DEF IInv, QueriesAgree
<1> QED
  BY <1>1, <1>2, <1>3, PTL DEF Spec

-----------------------------------------------------------------------------
(* What std::erase_if leaves: the sequence is built up entry by entry.     *)

LEMMA SmallestOf ==
  ASSUME NEW S \in SUBSET Nat, S # {}
  PROVE  \E i \in S : \A j \in S : i <= j
<1>1. PICK i \in S : \A j \in S : ~(<<j, i>> \in OpToRel(<, Nat))
  BY NatLessThanWellFounded, WFMin
<1>2. ASSUME NEW j \in S PROVE i <= j
  <2>1. i \in Nat /\ j \in Nat
    OBVIOUS
  <2>2. <<j, i>> \in Nat \X Nat /\ <<j, i>>[1] = j /\ <<j, i>>[2] = i
    BY <2>1
  <2>3. ~(j < i)
    BY <1>1, <2>2, Zenon DEF OpToRel
  <2> QED
    BY <2>1, <2>3
<1> QED
  BY <1>2

(* Induction up to n, with the statement as a set.                         *)
LEMMA UpTo ==
  ASSUME NEW n \in Nat, NEW S, 0 \in S, \A k \in 1..n : k - 1 \in S => k \in S
  PROVE  \A k \in 0..n : k \in S
<1> DEFINE T == {k \in 0..n : k \notin S}
<1>1. SUFFICES ASSUME T # {} PROVE FALSE
  OBVIOUS
<1>2. T \in SUBSET Nat
  OBVIOUS
<1> HIDE DEF T
<1>3. PICK k \in T : \A j \in T : k <= j
  BY <1>1, <1>2, SmallestOf
<1>4. k \in 0..n /\ k \notin S
  BY DEF T
<1>5. k \in 1..n /\ k - 1 \in 0..n
  BY <1>4
<1>6. k - 1 \in T
  BY <1>4, <1>5 DEF T
<1> QED
  BY <1>3, <1>5, <1>6

Ascending(s) == \A i, j \in DOMAIN s : i < j => s[i] < s[j]

\* What front[k] is made of.
Step(s, S, f, k) == IF k = 0 THEN <<>>
                    ELSE IF s[k] \in S THEN Append(f[k - 1], s[k]) ELSE f[k - 1]

LEMMA FrontExists ==
  ASSUME NEW s, NEW S, Len(s) \in Nat
  PROVE  \E f : f = [k \in 0..Len(s) |-> Step(s, S, f, k)]
<1> DEFINE n == Len(s)
           Good(m, f) == f = [k \in 0..m |-> Step(s, S, f, k)]
           N == {m \in 0..n : \E f : Good(m, f)}
<1>1. 0 \in N
  <2> DEFINE f == [k \in 0..0 |-> <<>>]
  <2>1. \A k \in 0..0 : Step(s, S, f, k) = <<>>
    BY DEF Step
  <2>2. [k \in 0..0 |-> Step(s, S, f, k)] = f
    BY <2>1
  <2>3. Good(0, f)
    BY <2>2
  <2> HIDE DEF f, Good
  <2> QED
    BY <2>3
<1>2. ASSUME NEW m \in 1..n, m - 1 \in N PROVE m \in N
  <2>1. PICK f : Good(m - 1, f)
    BY <1>2
  <2> DEFINE g == [k \in 0..m |-> IF k = m THEN Step(s, S, f, m) ELSE f[k]]
  <2>2. \A k \in 0..(m - 1) : g[k] = f[k] /\ f[k] = Step(s, S, f, k)
    BY <2>1
  <2>3. g[m] = Step(s, S, f, m)
    OBVIOUS
  <2>4. \A k \in 0..m : Step(s, S, g, k) = Step(s, S, f, k)
    <3> SUFFICES ASSUME NEW k \in 0..m PROVE Step(s, S, g, k) = Step(s, S, f, k)
      OBVIOUS
    <3>1. CASE k = 0
      BY <3>1 DEF Step
    <3>2. CASE k # 0
      <4>1. k - 1 \in 0..(m - 1)
        BY <3>2
      <4>2. g[k - 1] = f[k - 1]
        BY <2>2, <4>1
      <4> HIDE DEF g
      <4> QED
        BY <3>2, <4>2 DEF Step
    <3> QED
      BY <3>1, <3>2
  <2>5. \A k \in 0..m : g[k] = Step(s, S, g, k)
    <3> HIDE DEF g, Good
    <3>1. \A k \in 0..m : k \in 0..(m - 1) \/ k = m
      OBVIOUS
    <3> QED
      BY <2>2, <2>3, <2>4, <3>1
  <2>6. g = [k \in 0..m |-> g[k]]
    OBVIOUS
  <2> HIDE DEF g
  <2>7. Good(m, g)
    BY <2>5, <2>6
  <2> HIDE DEF Good
  <2> QED
    BY <2>7
<1>3. n \in 0..n /\ n \in Nat
  OBVIOUS
<1> HIDE DEF N, n
<1>4. n \in N
  BY <1>1, <1>2, <1>3, UpTo
<1> QED
  BY <1>4 DEF N, n

LEMMA AppendAscends ==
  ASSUME NEW T \in SUBSET Nat, NEW s \in Seq(T), Ascending(s),
         NEW e \in T, \A x \in SE!ToSet(s) : x < e
  PROVE  /\ Append(s, e) \in Seq(T) /\ Ascending(Append(s, e))
         /\ SE!ToSet(Append(s, e)) = SE!ToSet(s) \cup {e}
<1> DEFINE u == Append(s, e)
           m == Len(s)
<1>1. m \in Nat /\ DOMAIN s = 1..m /\ \A i \in 1..m : s[i] \in T
  BY LenProperties, ElementOfSeq
<1>2. /\ u \in Seq(T) /\ DOMAIN u = 1..(m + 1) /\ u[m + 1] = e
      /\ \A i \in 1..m : u[i] = s[i]
  BY AppendProperties
<1>3. e \in Nat /\ \A i \in 1..m : s[i] < e
  BY <1>1 DEF SE!ToSet
<1> HIDE DEF u, m
<1>4. SE!ToSet(u) = SE!ToSet(s) \cup {e}
  <2>1. 1..(m + 1) = 1..m \cup {m + 1}
    BY <1>1
  <2> QED
    BY <1>1, <1>2, <2>1 DEF SE!ToSet
<1>5. Ascending(u)
  <2> SUFFICES ASSUME NEW i \in 1..(m + 1), NEW j \in 1..(m + 1), i < j PROVE u[i] < u[j]
    BY <1>2 DEF Ascending
  <2>1. CASE j = m + 1
    <3>1. i \in 1..m
      BY <1>1, <2>1
    <3> QED
      BY <1>2, <1>3, <2>1, <3>1
  <2>2. CASE j # m + 1
    <3>1. i \in 1..m /\ j \in 1..m
      BY <1>1, <2>2
    <3>2. s[i] < s[j]
      BY <1>1, <3>1 DEF Ascending
    <3> QED
      BY <1>2, <3>1, <3>2
  <2> QED
    BY <2>1, <2>2
<1> QED
  BY <1>2, <1>4, <1>5 DEF u

(* What is in S, and nothing else, in the order it was in.                 *)
LEMMA SelectSelects ==
  ASSUME NEW T \in SUBSET Nat, NEW s \in Seq(T), Ascending(s), NEW S
  PROVE  /\ Select(s, S) \in Seq(T) /\ Ascending(Select(s, S))
         /\ SE!ToSet(Select(s, S)) = SE!ToSet(s) \cap S
<1> DEFINE f == CHOOSE g : g = [k \in 0..Len(s) |-> Step(s, S, g, k)]
           n == Len(s)
<1>1. n \in Nat /\ DOMAIN s = 1..n /\ \A k \in 1..n : s[k] \in T
  BY LenProperties, ElementOfSeq
<1>2. f = [k \in 0..n |-> Step(s, S, f, k)]
  BY <1>1, FrontExists
<1>3. Select(s, S) = f[n]
  BY DEF Select, Step
<1> HIDE DEF f, n
<1> DEFINE Seen(k) == {s[i] : i \in 1..k} \cap S
           Good(k) == f[k] \in Seq(T) /\ Ascending(f[k]) /\ SE!ToSet(f[k]) = Seen(k)
           N == {k \in 0..n : Good(k)}
<1>4. 0 \in N
  <2>1. f[0] = <<>>
    BY <1>1, <1>2 DEF Step
  <2>2. f[0] \in Seq(T) /\ DOMAIN f[0] = {}
    BY <2>1
  <2>3. Seen(0) = {}
    OBVIOUS
  <2> QED
    BY <1>1, <2>2, <2>3 DEF Ascending, SE!ToSet
<1>5. ASSUME NEW k \in 1..n, k - 1 \in N PROVE k \in N
  <2>1. /\ f[k - 1] \in Seq(T) /\ Ascending(f[k - 1]) /\ SE!ToSet(f[k - 1]) = Seen(k - 1)
    BY <1>5
  <2>2. f[k] = IF s[k] \in S THEN Append(f[k - 1], s[k]) ELSE f[k - 1]
    <3>1. k \in 0..n /\ k # 0
      BY <1>1
    <3>2. f[k] = Step(s, S, f, k)
      BY <1>2, <3>1
    <3> QED
      BY <3>1, <3>2 DEF Step
  <2>3. k \in 0..n /\ 1..k = 1..(k - 1) \cup {k}
    BY <1>1
  <2>4. {s[i] : i \in 1..k} = {s[i] : i \in 1..(k - 1)} \cup {s[k]}
    BY <2>3
  <2>5. CASE s[k] \in S
    <3>1. s[k] \in T
      BY <1>1
    <3>2. \A x \in Seen(k - 1) : x < s[k]
      <4> SUFFICES ASSUME NEW i \in 1..(k - 1) PROVE s[i] < s[k]
        OBVIOUS
      <4>1. i \in DOMAIN s /\ k \in DOMAIN s /\ i < k
        BY <1>1
      <4> QED
        BY <4>1 DEF Ascending
    <3>3. /\ f[k] \in Seq(T) /\ Ascending(f[k])
          /\ SE!ToSet(f[k]) = Seen(k - 1) \cup {s[k]}
      <4>1. PICK t, e : t = f[k - 1] /\ e = s[k]
        OBVIOUS
      <4>2. t \in Seq(T) /\ Ascending(t) /\ SE!ToSet(t) = Seen(k - 1) /\ e \in T
        BY <2>1, <3>1, <4>1
      <4>3. \A x \in SE!ToSet(t) : x < e
        BY <3>2, <4>1, <4>2
      <4>4. f[k] = Append(t, e)
        BY <2>2, <2>5, <4>1
      <4> HIDE DEF Seen, Good, N
      <4>5. /\ Append(t, e) \in Seq(T) /\ Ascending(Append(t, e))
            /\ SE!ToSet(Append(t, e)) = SE!ToSet(t) \cup {e}
        BY <4>2, <4>3, AppendAscends, ZenonT(60)
      <4> QED
        BY <4>1, <4>2, <4>4, <4>5
    <3> QED
      BY <2>3, <2>4, <2>5, <3>3
  <2>6. CASE s[k] \notin S
    <3>1. Seen(k) = Seen(k - 1)
      BY <2>4, <2>6
    <3>2. f[k] = f[k - 1]
      BY <2>2, <2>6
    <3> QED
      BY <2>1, <2>3, <3>1, <3>2
  <2> QED
    BY <2>5, <2>6
<1>6. n \in N
  <2>1. n \in 0..n
    BY <1>1
  <2> HIDE DEF N
  <2> QED
    BY <1>1, <1>4, <1>5, <2>1, UpTo
<1>7. SE!ToSet(s) \cap S = Seen(n)
  BY <1>1 DEF SE!ToSet
<1> QED
  BY <1>3, <1>6, <1>7

-----------------------------------------------------------------------------
(* The calls in progress.                                                  *)
Frame == [snapshot : Seq(Nat), pos : Nat \ {0}, running : BOOLEAN, called : Seq(Nat)]

(* The handles of a snapshot ascend, none of them newer than the snapshot; *)
(* those called are a part of what lies behind the loop.                   *)
Shape(f) ==
  /\ f \in Frame
  /\ Ascending(f.snapshot) /\ \A h \in SE!ToSet(f.snapshot) : h <= created
  /\ f.pos <= Len(f.snapshot) + 1
  /\ f.running => f.pos <= Len(f.snapshot) /\ Current(f) \in SE!ToSet(f.called)
  /\ Ascending(f.called)
  /\ \A h \in SE!ToSet(f.called) :
       \E j \in 1..Len(f.snapshot) : f.snapshot[j] = h /\ (j < f.pos \/ (f.running /\ j = f.pos))

\* What the loop has left behind it was called, or was out of the question.
Behind(f) ==
  \A j \in 1..(f.pos - 1) :
    Contains(f.snapshot[j]) /\ IsValid(f.snapshot[j]) => f.snapshot[j] \in SE!ToSet(f.called)

\* The object a callback runs on is there: somebody owns it, or the call does.
Live(f) == f.running => /\ Target(f).how = "raw" => Target(f).object \in owned
                        /\ Target(f).how = "lock" => Target(f).object \in alive

Fine(f) == Shape(f) /\ Behind(f) /\ Live(f)

CallInv ==
  /\ IInv
  /\ owned \subseteq alive
  /\ slots \in Seq(1..created) /\ Ascending(slots)
  /\ \A h \in SE!ToSet(slots) \cup {Own} :
       bound[h].invocation.how = "raw" => bound[h].invocation.object \in owned
  /\ frames \in Seq(Frame)
  /\ \A k \in 1..Len(frames) : Fine(frames[k])
  /\ \A k \in 1..(Len(frames) - 1) : frames[k].running

(* Handles are not given out twice, a binding keeps its delegate, and what *)
(* has been destroyed does not come back.                                  *)
Ages == /\ created' \in Nat /\ created <= created'
        /\ \A h \in 1..created : bound'[h] = bound[h]
        /\ alive' \subseteq alive
        /\ \A h \in SE!ToSet(slots') : h \in SE!ToSet(slots) \/ h > created
KeepsTarget(f) ==
  f.running => /\ bound'[Current(f)] = bound[Current(f)]
               /\ Target(f).how = "raw" => Target(f).object \in owned'
               /\ Target(f).how = "lock" => Target(f).object \in alive'

LEMMA SlotFacts ==
  ASSUME CallInv
  PROVE  /\ created \in Nat /\ SE!ToSet(slots) \subseteq 1..created
         /\ slots \in Seq(1..created) /\ slots \in Seq(Nat) /\ Ascending(slots)
         /\ 1..created \in SUBSET Nat
<1>1. created \in Nat /\ slots \in Seq(1..created) /\ Ascending(slots)
  BY DEF CallInv, IInv
<1>2. DOMAIN slots = 1..Len(slots) /\ \A i \in 1..Len(slots) : slots[i] \in 1..created
  BY <1>1, LenProperties, ElementOfSeq
<1>3. SE!ToSet(slots) \subseteq 1..created
  BY <1>2 DEF SE!ToSet
<1>4. slots \in Seq(Nat)
  BY <1>1, SeqDef
<1> QED
  BY <1>1, <1>3, <1>4

LEMMA FrameFacts ==
  ASSUME NEW f, Shape(f), created \in Nat
  PROVE  /\ f.snapshot \in Seq(Nat) /\ Len(f.snapshot) \in Nat
         /\ DOMAIN f.snapshot = 1..Len(f.snapshot)
         /\ \A j \in 1..Len(f.snapshot) : f.snapshot[j] \in 0..created
         /\ f.pos \in Nat \ {0} /\ f.pos <= Len(f.snapshot) + 1
         /\ f.called \in Seq(Nat) /\ Len(f.called) \in Nat /\ DOMAIN f.called = 1..Len(f.called)
<1>1. f.snapshot \in Seq(Nat) /\ f.pos \in Nat \ {0} /\ f.called \in Seq(Nat)
  BY DEF Shape, Frame
<1>2. /\ Len(f.snapshot) \in Nat /\ DOMAIN f.snapshot = 1..Len(f.snapshot)
      /\ Len(f.called) \in Nat /\ DOMAIN f.called = 1..Len(f.called)
      /\ \A j \in 1..Len(f.snapshot) : f.snapshot[j] \in Nat
  BY <1>1, LenProperties, ElementOfSeq
<1>3. \A j \in 1..Len(f.snapshot) : f.snapshot[j] <= created
  BY <1>2 DEF Shape, SE!ToSet
<1> QED
  BY <1>1, <1>2, <1>3 DEF Shape

(* A frame that stays as it is stays fine.                                 *)
LEMMA FrameKept ==
  ASSUME CallInv, Ages, NEW f, Fine(f), KeepsTarget(f) PROVE Fine(f)'
<1>1. created \in Nat /\ created' \in Nat /\ created <= created'
      /\ SE!ToSet(slots) \subseteq 1..created
  BY SlotFacts DEF Ages
<1>2. Shape(f)
  BY DEF Fine
<1>3. /\ \A j \in 1..Len(f.snapshot) : f.snapshot[j] \in 0..created
      /\ f.pos \in Nat /\ f.pos <= Len(f.snapshot) + 1 /\ Len(f.snapshot) \in Nat
      /\ DOMAIN f.snapshot = 1..Len(f.snapshot)
  BY <1>1, <1>2, FrameFacts
<1>4. Shape(f)'
  <2>1. \A h \in SE!ToSet(f.snapshot) : h <= created'
    BY <1>1, <1>3 DEF SE!ToSet
  <2> QED
    BY <1>2, <2>1 DEF Shape, Current
<1>5. Behind(f)'
  <2> SUFFICES ASSUME NEW j \in 1..(f.pos - 1), Contains(f.snapshot[j])', IsValid(f.snapshot[j])'
               PROVE  f.snapshot[j] \in SE!ToSet(f.called)
    BY DEF Behind
  <2>1. j \in 1..Len(f.snapshot) /\ f.snapshot[j] \in 0..created
    BY <1>3
  <2>2. PICK h : h = f.snapshot[j]
    OBVIOUS
  <2>3. h \in SE!ToSet(slots) /\ h \in 1..created
    BY <1>1, <2>1, <2>2 DEF Contains, Ages
  <2>4. IsBound(bound'[h], alive') /\ bound'[h] = bound[h] /\ alive' \subseteq alive
    BY <2>2, <2>3 DEF IsValid, Ages
  <2>5. IsBound(bound[h], alive)
    BY <2>4 DEF IsBound
  <2>6. Contains(h) /\ IsValid(h)
    BY <2>3, <2>5 DEF Contains, IsValid
  <2> QED
    BY <2>2, <2>6 DEF Fine, Behind
<1>6. Live(f)'
  BY DEF KeepsTarget, Live, Target, Current
<1> QED
  BY <1>4, <1>5, <1>6 DEF Fine

-----------------------------------------------------------------------------
(* Steps of the program, which leave the calls in progress alone.          *)
LEMMA FramesKept ==
  ASSUME CallInv, IInv', Ages, frames' = frames, owned' \subseteq alive',
         slots' \in Seq(1..created'), Ascending(slots'),
         \A h \in SE!ToSet(slots') \cup {Own} :
           bound'[h].invocation.how = "raw" => bound'[h].invocation.object \in owned',
         \A f \in Running : KeepsTarget(f)
  PROVE  CallInv'
<1>1. ASSUME NEW k \in 1..Len(frames) PROVE Fine(frames[k])'
  <2>1. PICK f : f = frames[k]
    OBVIOUS
  <2>2. Fine(f)
    BY <2>1 DEF CallInv
  <2>3. KeepsTarget(f)
    <3>1. CASE f.running
      <4>1. frames \in Seq(Frame)
        BY DEF CallInv
      <4>2. DOMAIN frames = 1..Len(frames)
        BY <4>1, LenProperties
      <4>3. f \in SE!ToSet(frames)
        BY <2>1, <4>2 DEF SE!ToSet
      <4> QED
        BY <3>1, <4>3 DEF Running
    <3>2. CASE ~f.running
      BY <3>2 DEF KeepsTarget
    <3> QED
      BY <3>1, <3>2
  <2>4. Fine(f)'
    BY <2>2, <2>3, FrameKept
  <2>5. f = frames'[k]
    BY <2>1
  <2> QED
    BY <2>4, <2>5
<1>2. \A k \in 1..Len(frames') : Fine(frames[k])'
  BY <1>1
<1> QED
  BY <1>2 DEF CallInv

(* slots_ loses some of its slots and nothing else changes.                *)
LEMMA SelectKeeps ==
  ASSUME CallInv, NEW S, slots' = Select(slots, S),
         UNCHANGED <<bound, created, alive, owned, frames>>
  PROVE  CallInv'
<1>1. /\ created \in Nat /\ slots \in Seq(1..created) /\ Ascending(slots)
      /\ 1..created \in SUBSET Nat
  BY SlotFacts
<1>2. /\ slots' \in Seq(1..created) /\ Ascending(slots')
      /\ SE!ToSet(slots') = SE!ToSet(slots) \cap S
  BY <1>1, SelectSelects
<1>3. Ages
  BY <1>1, <1>2 DEF Ages
<1>4. ASSUME NEW f \in Running PROVE KeepsTarget(f)
  <2>1. frames \in Seq(Frame) /\ DOMAIN frames = 1..Len(frames)
    BY LenProperties DEF CallInv
  <2>2. PICK k \in 1..Len(frames) : f = frames[k]
    BY <2>1 DEF Running, SE!ToSet
  <2>3. Live(f)
    BY <2>2 DEF CallInv, Fine
  <2> QED
    BY <2>3 DEF KeepsTarget, Live
<1>5. IInv'
  BY DEF CallInv, IInv
<1>6. owned' \subseteq alive'
  BY DEF CallInv
<1>7. \A h \in SE!ToSet(slots') \cup {Own} :
        bound'[h].invocation.how = "raw" => bound'[h].invocation.object \in owned'
  BY <1>2 DEF CallInv
<1> QED
  BY <1>2, <1>3, <1>4, <1>5, <1>6, <1>7, FramesKept

\* What is known of the callbacks that run.
LEMMA RunningFacts ==
  ASSUME CallInv, NEW f \in Running
  PROVE  /\ f.running /\ Fine(f) /\ Current(f) \in 0..created
         /\ Current(f) \in DOMAIN bound /\ OneBinding(bound[Current(f)])
         /\ Target(f).how = "raw" => Target(f).object \in owned
         /\ Target(f).how = "lock" => Target(f).object \in alive
<1>1. frames \in Seq(Frame) /\ DOMAIN frames = 1..Len(frames)
  BY LenProperties DEF CallInv
<1>2. PICK k \in 1..Len(frames) : f = frames[k]
  BY <1>1 DEF Running, SE!ToSet
<1>3. f.running /\ Fine(f)
  BY <1>2 DEF CallInv, Running
<1>4. created \in Nat
  BY SlotFacts
<1>5. f.pos \in 1..Len(f.snapshot)
  BY <1>3, <1>4, FrameFacts DEF Fine, Shape
<1>6. Current(f) \in 0..created
  BY <1>3, <1>4, <1>5, FrameFacts DEF Fine, Current
<1>7. Current(f) \in DOMAIN bound /\ OneBinding(bound[Current(f)])
  BY <1>6 DEF CallInv, IInv
<1> QED
  BY <1>3, <1>6, <1>7 DEF Fine, Live

\* The object of a new binding is one the program owned.
LEMMA BindsOwned ==
  ASSUME NEW d, d \in Delegate, NEW objects, NEW e \in Binds(d, objects)
  PROVE  e.invocation.how = "raw" => e.invocation.object \in objects
<1>1. CASE e = BindFunction(d)
  <2>1. e.invocation.how = "function"
    BY <1>1 DEF BindFunction, BindInternal, Delegate
  <2> QED
    BY <2>1
<1>2. ASSUME NEW o \in objects, e = BindRaw(d, o) PROVE e.invocation.object = o
  BY <1>2 DEF BindRaw, BindInternal, Delegate
<1>3. ASSUME NEW o \in objects, e = BindSP(d, o) PROVE e.invocation.object = o
  BY <1>3 DEF BindSP, BindInternal, Delegate
<1> QED
  BY <1>1, <1>2, <1>3 DEF Binds

LEMMA AddKeeps ==
  ASSUME CallInv, NEW d, Add(d), OneBinding(d),
         d.invocation.how = "raw" => d.invocation.object \in owned
  PROVE  CallInv'
<1>1. IInv'
  BY AddInv DEF CallInv
<1>2. /\ created \in Nat /\ SE!ToSet(slots) \subseteq 1..created
      /\ slots \in Seq(1..created) /\ slots \in Seq(Nat) /\ Ascending(slots)
  BY SlotFacts
<1>3. /\ created' = created + 1
      /\ bound' = [h \in 0..created' |-> IF h = created' THEN d ELSE bound[h]]
      /\ slots' = Append(slots, created')
      /\ UNCHANGED <<alive, owned, frames>>
  BY DEF Add, Grown
<1>4. PICK c \in Nat : c = created'
  BY <1>2, <1>3
<1>5. 1..c \in SUBSET Nat /\ slots \in Seq(1..c) /\ c \in 1..c
  <2>1. 1..created \subseteq 1..c /\ c \in 1..c
    BY <1>2, <1>3, <1>4
  <2> QED
    BY <1>2, <2>1, SeqDef, SMTT(60)
<1>6. \A x \in SE!ToSet(slots) : x < c
  BY <1>2, <1>3, <1>4
<1>7. slots' = Append(slots, c)
  BY <1>3, <1>4
<1>8. slots' \in Seq(1..c) /\ Ascending(slots') /\ SE!ToSet(slots') = SE!ToSet(slots) \cup {c}
  BY <1>2, <1>5, <1>6, <1>7, AppendAscends
<1>9. \A h \in SE!ToSet(slots') : h \in SE!ToSet(slots) \/ h = c
  BY <1>8
<1>10. \A h \in 0..created : bound'[h] = bound[h] /\ h # created'
  <2> SUFFICES ASSUME NEW h \in 0..created PROVE bound'[h] = bound[h] /\ h # created'
    OBVIOUS
  <2>1. h \in 0..created' /\ h # created'
    BY <1>2, <1>3
  <2> QED
    BY <1>3, <2>1
<1>11. Ages
  <2>1. \A h \in 1..created : bound'[h] = bound[h]
    BY <1>10
  <2>2. \A h \in SE!ToSet(slots') : h \in SE!ToSet(slots) \/ h > created
    BY <1>2, <1>3, <1>4, <1>9
  <2>3. created' \in Nat /\ created <= created'
    BY <1>2, <1>3
  <2> QED
    BY <1>3, <2>1, <2>2, <2>3 DEF Ages
<1>12. \A f \in Running : KeepsTarget(f)
  BY <1>3, <1>10, RunningFacts DEF KeepsTarget
<1>13. ASSUME NEW h \in SE!ToSet(slots') \cup {Own}, bound'[h].invocation.how = "raw"
       PROVE  bound'[h].invocation.object \in owned'
  <2>1. CASE h = c
    <3>1. bound'[h] = d
      BY <1>2, <1>3, <1>4, <2>1
    <3> QED
      BY <1>3, <1>13, <3>1
  <2>2. CASE h # c
    <3>1. h \in SE!ToSet(slots) \cup {Own}
      BY <1>9, <2>2
    <3>2. h \in 0..created
      BY <1>2, <3>1 DEF Own
    <3>3. bound'[h] = bound[h]
      BY <1>10, <3>2
    <3> QED
      BY <1>3, <1>13, <3>1, <3>3 DEF CallInv
  <2> QED
    BY <2>1, <2>2
<1>14. slots' \in Seq(1..created') /\ frames' = frames /\ owned' \subseteq alive'
  BY <1>3, <1>4, <1>8 DEF CallInv
<1> QED
  BY <1>1, <1>8, <1>11, <1>12, <1>13, <1>14, FramesKept

LEMMA RebindKeeps == ASSUME CallInv, Rebind PROVE CallInv'
<1>1. IInv'
  BY RebindInv DEF CallInv
<1>2. PICK d \in Binds(bound[Own], owned) \cup {Unbind(bound[Own])} :
        bound' = [bound EXCEPT ![Own] = d]
  BY DEF Rebind
<1>3. UNCHANGED <<slots, created, alive, owned, frames>> /\ \A f \in Running : Current(f) # Own
  BY DEF Rebind
<1>4. Own \in DOMAIN bound /\ bound[Own] \in Delegate
  BY DEF CallInv, IInv, Own, OneBinding
<1>5. d.invocation.how = "raw" => d.invocation.object \in owned
  <2>1. CASE d = Unbind(bound[Own])
    <3>1. d.invocation.how = "nullptr"
      BY <1>4, <2>1 DEF Unbind, Nullptr, Delegate
    <3> QED
      BY <3>1
  <2>2. CASE d \in Binds(bound[Own], owned)
    BY <1>4, <2>2, BindsOwned
  <2> QED
    BY <1>2, <2>1, <2>2
<1>6. \A h : h # Own => bound'[h] = bound[h]
  BY <1>2
<1>7. bound'[Own] = d
  BY <1>2, <1>4
<1>8. created \in Nat /\ SE!ToSet(slots) \subseteq 1..created /\ slots \in Seq(1..created)
      /\ Ascending(slots)
  BY SlotFacts
<1>9. Ages
  BY <1>3, <1>6, <1>8 DEF Ages, Own
<1>10. \A f \in Running : KeepsTarget(f)
  BY <1>3, <1>6, RunningFacts DEF KeepsTarget
<1>11. ASSUME NEW h \in SE!ToSet(slots') \cup {Own}, bound'[h].invocation.how = "raw"
       PROVE  bound'[h].invocation.object \in owned'
  <2>1. CASE h = Own
    BY <1>3, <1>5, <1>7, <1>11, <2>1
  <2>2. CASE h # Own
    <3>1. bound'[h] = bound[h] /\ h \in SE!ToSet(slots)
      BY <1>3, <1>6, <2>2
    <3> QED
      BY <1>3, <1>11, <3>1 DEF CallInv
  <2> QED
    BY <2>1, <2>2
<1>12. owned' \subseteq alive' /\ frames' = frames /\ slots' \in Seq(1..created') /\ Ascending(slots')
  BY <1>3, <1>8 DEF CallInv
<1> QED
  BY <1>1, <1>9, <1>10, <1>11, <1>12, FramesKept

LEMMA ReleaseKeeps == ASSUME CallInv, NEW o, Release(o) PROVE CallInv'
<1>1. /\ o \in owned /\ ~RawInUse(o) /\ owned' = owned \ {o}
      /\ alive' = IF o \in Locked(frames) THEN alive ELSE alive \ {o}
      /\ UNCHANGED <<slots, bound, created, frames>>
  BY DEF Release
<1>2. IInv' /\ owned' \subseteq alive' /\ alive' \subseteq alive
  BY <1>1 DEF CallInv, IInv
<1>3. /\ created \in Nat /\ slots \in Seq(1..created) /\ Ascending(slots)
      /\ SE!ToSet(slots) \subseteq 1..created
  BY SlotFacts
<1>4. Ages
  BY <1>1, <1>2, <1>3 DEF Ages
<1>5. \A c \in Closure : c.how = "raw" => c = [how |-> "raw", object |-> c.object]
  BY DEF Closure, Nullptr
<1>6. \A h \in 0..created : bound[h].invocation \in Closure
  BY DEF CallInv, IInv, OneBinding, Delegate
<1>7. ASSUME NEW f \in Running PROVE KeepsTarget(f)
  <2>1. /\ f.running /\ Current(f) \in 0..created
        /\ Target(f).how = "raw" => Target(f).object \in owned
        /\ Target(f).how = "lock" => Target(f).object \in alive
    BY RunningFacts
  <2>2. ASSUME Target(f).how = "raw" PROVE Target(f).object # o
    <3>1. Target(f) \in Closure
      BY <1>6, <2>1 DEF Target
    <3>2. Target(f) = [how |-> "raw", object |-> Target(f).object]
      BY <1>5, <2>2, <3>1
    <3> QED
      BY <1>1, <3>2 DEF RawInUse
  <2>3. ASSUME Target(f).how = "lock" PROVE Target(f).object \in Locked(frames)
    BY <2>1, <2>3 DEF Locked, Running
  <2> QED
    BY <1>1, <2>1, <2>2, <2>3 DEF KeepsTarget
<1>8. ASSUME NEW h \in SE!ToSet(slots) \cup {Own}, bound[h].invocation.how = "raw"
      PROVE  bound[h].invocation.object \in owned \ {o}
  <2>1. h \in 0..created
    BY <1>3 DEF Own
  <2>2. bound[h].invocation = [how |-> "raw", object |-> bound[h].invocation.object]
    BY <1>5, <1>6, <1>8, <2>1
  <2>3. bound[h].invocation.object \in owned
    BY <1>8 DEF CallInv
  <2> QED
    BY <1>1, <2>2, <2>3 DEF RawInUse
<1> QED
  BY <1>1, <1>2, <1>3, <1>4, <1>7, <1>8, FramesKept

LEMMA ProgramKeeps ==
  ASSUME CallInv,
         \/ AddNew \/ AddOwn \/ Rebind \/ Clear
         \/ \E h \in Handle : Remove(h)
         \/ \E o \in Object : RemoveAll(o) \/ Release(o)
  PROVE  CallInv'
<1>1. CASE AddNew
  <2>1. PICK d \in Created(owned) : Add(d)
    BY <1>1 DEF AddNew
  <2>2. Unbound \in Delegate
    BY UnbindUnbinds DEF OneBinding
  <2>3. OneBinding(d)
    BY <2>2, BindsBindOnce DEF Created, CallInv, IInv
  <2>4. d.invocation.how = "raw" => d.invocation.object \in owned
    BY <2>2, BindsOwned DEF Created
  <2> QED
    BY <2>1, <2>3, <2>4, AddKeeps
<1>2. CASE AddOwn
  <2>1. PICK d : d = bound[Own]
    OBVIOUS
  <2>2. OneBinding(d) /\ (d.invocation.how = "raw" => d.invocation.object \in owned)
    BY <2>1 DEF CallInv, IInv, Own
  <2>3. Add(d)
    BY <1>2, <2>1 DEF AddOwn
  <2> QED
    BY <2>2, <2>3, AddKeeps
<1>3. CASE Rebind
  BY <1>3, RebindKeeps
<1>4. CASE Clear
  <2>1. slots' = <<>> /\ UNCHANGED <<bound, created, alive, owned, frames>>
    BY <1>4 DEF Clear
  <2>2. created \in Nat
    BY SlotFacts
  <2>3. slots' \in Seq(1..created) /\ Ascending(slots') /\ SE!ToSet(slots') = {}
    BY <2>1 DEF Ascending, SE!ToSet
  <2>4. IInv' /\ owned' \subseteq alive'
    BY <2>1 DEF CallInv, IInv
  <2>5. Ages
    BY <2>1, <2>2, <2>3 DEF Ages
  <2>6. \A f \in Running : KeepsTarget(f)
    BY <2>1, RunningFacts DEF KeepsTarget
  <2>7. bound[Own].invocation.how = "raw" => bound[Own].invocation.object \in owned
    BY DEF CallInv
  <2> QED
    BY <2>1, <2>3, <2>4, <2>5, <2>6, <2>7, FramesKept
<1>5. ASSUME NEW h \in Handle, Remove(h) PROVE CallInv'
  <2>1. PICK S : S = SE!ToSet(slots) \ {h}
    OBVIOUS
  <2> QED
    BY <1>5, <2>1, SelectKeeps DEF Remove
<1>6. ASSUME NEW o \in Object, RemoveAll(o) PROVE CallInv'
  <2>1. PICK S : S = {h \in SE!ToSet(slots) : ~IsBoundToObject(bound[h], o, alive)}
    OBVIOUS
  <2> QED
    BY <1>6, <2>1, SelectKeeps DEF RemoveAll
<1> QED
  BY <1>1, <1>2, <1>3, <1>4, <1>5, <1>6, ReleaseKeeps

-----------------------------------------------------------------------------
(* Steps of Broadcast() and of the calls: fs is what the stack becomes.    *)
LEMMA FramesMove ==
  ASSUME CallInv, UNCHANGED <<bound, created, owned>>,
         NEW fs, fs \in Seq(Frame), frames' = fs, alive' = alive \/ alive' = Survivors(fs),
         slots' \in Seq(1..created), Ascending(slots'),
         SE!ToSet(slots') \subseteq SE!ToSet(slots),
         \A k \in 1..Len(fs) : Fine(fs[k]),
         \A k \in 1..(Len(fs) - 1) : fs[k].running
  PROVE  CallInv'
<1>1. created \in Nat
  BY SlotFacts
<1>2. alive' \subseteq alive /\ owned \subseteq alive'
  <2>1. owned \subseteq alive
    BY DEF CallInv
  <2> QED
    BY <2>1 DEF Survivors
<1>3. Ages
  BY <1>1, <1>2 DEF Ages
<1>4. ASSUME NEW k \in 1..Len(fs) PROVE Fine(fs[k])'
  <2>1. PICK f : f = fs[k]
    OBVIOUS
  <2>2. Fine(f)
    BY <2>1
  <2>3. KeepsTarget(f)
    <3>1. SUFFICES ASSUME f.running, Target(f).how = "lock", Target(f).object \in alive
                   PROVE  Target(f).object \in alive'
      BY <2>2 DEF Fine, Live, KeepsTarget
    <3>2. f \in SE!ToSet(fs)
      BY <2>1, LenProperties DEF SE!ToSet
    <3>3. Target(f).object \in Locked(fs)
      BY <3>1, <3>2 DEF Locked
    <3> QED
      BY <3>1, <3>3 DEF Survivors
  <2>4. Fine(f)'
    BY <1>3, <2>2, <2>3, FrameKept
  <2> QED
    BY <2>1, <2>4
<1>5. \A k \in 1..Len(frames') : Fine(frames[k])'
  BY <1>4
<1>6. IInv'
  BY DEF CallInv, IInv
<1>7. \A h \in SE!ToSet(slots') \cup {Own} :
        bound'[h].invocation.how = "raw" => bound'[h].invocation.object \in owned'
  BY DEF CallInv
<1> QED
  BY <1>2, <1>5, <1>6, <1>7 DEF CallInv

LEMMA Pushed ==
  ASSUME CallInv, UserCode, NEW f, f \in Frame, Fine(f), frames' = Append(frames, f),
         UNCHANGED <<slots, bound, created, alive, owned>>
  PROVE  CallInv'
<1>1. frames \in Seq(Frame) /\ Len(frames) \in Nat /\ DOMAIN frames = 1..Len(frames)
  BY LenProperties DEF CallInv
<1>0. PICK n \in Nat : n = Len(frames)
  BY <1>1
<1>2. PICK fs : fs = Append(frames, f)
  OBVIOUS
<1>3. /\ fs \in Seq(Frame) /\ Len(fs) = n + 1 /\ fs[n + 1] = f
      /\ \A k \in 1..n : fs[k] = frames[k]
  BY <1>1, <1>0, <1>2, AppendProperties
<1>4. ASSUME NEW k \in 1..(n + 1) PROVE Fine(fs[k])
  <2>1. CASE k = n + 1
    BY <1>3, <2>1
  <2>2. CASE k # n + 1
    <3>1. k \in 1..n
      BY <2>2
    <3>2. PICK g : g = fs[k] /\ g = frames[k]
      BY <1>3, <3>1
    <3>3. Fine(g)
      BY <1>0, <1>2, <3>1, <3>2 DEF CallInv
    <3> QED
      BY <3>2, <3>3
  <2> QED
    BY <2>1, <2>2
<1>5. \A k \in 1..(n + 1 - 1) : fs[k].running
  BY <1>1, <1>0, <1>2, <1>3 DEF UserCode
<1>6. /\ slots' \in Seq(1..created) /\ Ascending(slots')
      /\ SE!ToSet(slots') \subseteq SE!ToSet(slots)
  BY SlotFacts
<1>7. \A k \in 1..Len(fs) : Fine(fs[k])
  BY <1>3, <1>4
<1>8. \A k \in 1..(Len(fs) - 1) : fs[k].running
  BY <1>3, <1>5
<1>9. fs \in Seq(Frame) /\ frames' = fs /\ alive' = alive
  BY <1>0, <1>2, <1>3
<1> QED
  BY <1>6, <1>7, <1>8, <1>9, FramesMove

LEMMA TopSet ==
  ASSUME CallInv, frames # <<>>, NEW f, f \in Frame, Fine(f),
         frames' = [frames EXCEPT ![Len(frames)] = f],
         UNCHANGED <<slots, bound, created, owned>>,
         alive' = alive \/ alive' = Survivors(frames')
  PROVE  CallInv'
<1>1. /\ frames \in Seq(Frame) /\ Len(frames) \in Nat /\ DOMAIN frames = 1..Len(frames)
      /\ Len(frames) # 0
  <2>1. frames \in Seq(Frame)
    BY DEF CallInv
  <2> QED
    BY <2>1, LenProperties, EmptySeq
<1>0. PICK n \in Nat : n = Len(frames)
  BY <1>1
<1>2. PICK fs : fs = [frames EXCEPT ![Len(frames)] = f]
  OBVIOUS
<1>3. /\ fs \in Seq(Frame) /\ Len(fs) = n /\ fs[n] = f
      /\ \A k \in 1..(n - 1) : fs[k] = frames[k]
  <2>1. n \in 1..n /\ \A k \in 1..(n - 1) : k \in 1..n /\ k # n
    BY <1>0, <1>1
  <2>2. fs = [frames EXCEPT ![n] = f] /\ DOMAIN frames = 1..n
    BY <1>0, <1>1, <1>2
  <2>3. fs \in Seq(Frame) /\ Len(fs) = n
    BY <1>0, <1>1, <2>1, <2>2, ExceptSeq
  <2> QED
    BY <2>1, <2>2, <2>3
<1>4. ASSUME NEW k \in 1..n PROVE Fine(fs[k])
  <2>1. CASE k = n
    BY <1>3, <2>1
  <2>2. CASE k # n
    <3>1. k \in 1..(n - 1)
      BY <2>2
    <3>2. PICK g : g = fs[k] /\ g = frames[k]
      BY <1>3, <3>1
    <3>3. Fine(g)
      BY <1>0, <1>2, <3>2 DEF CallInv
    <3> QED
      BY <3>2, <3>3
  <2> QED
    BY <2>1, <2>2
<1>5. \A k \in 1..(n - 1) : fs[k].running
  BY <1>0, <1>2, <1>3 DEF CallInv
<1>6. /\ slots' \in Seq(1..created) /\ Ascending(slots')
      /\ SE!ToSet(slots') \subseteq SE!ToSet(slots)
  BY SlotFacts
<1>7. \A k \in 1..Len(fs) : Fine(fs[k])
  BY <1>3, <1>4
<1>8. \A k \in 1..(Len(fs) - 1) : fs[k].running
  BY <1>3, <1>5
<1>9. fs \in Seq(Frame) /\ frames' = fs /\ (alive' = alive \/ alive' = Survivors(fs))
  BY <1>0, <1>2, <1>3
<1> QED
  BY <1>6, <1>7, <1>8, <1>9, FramesMove

LEMMA Popped ==
  ASSUME CallInv, frames # <<>>, frames' = SE!Front(frames), UNCHANGED <<bound, created, owned>>,
         alive' = alive \/ alive' = Survivors(frames'),
         slots' \in Seq(1..created), Ascending(slots'),
         SE!ToSet(slots') \subseteq SE!ToSet(slots)
  PROVE  CallInv'
<1>1. /\ frames \in Seq(Frame) /\ Len(frames) \in Nat /\ DOMAIN frames = 1..Len(frames)
      /\ Len(frames) # 0
  <2>1. frames \in Seq(Frame)
    BY DEF CallInv
  <2> QED
    BY <2>1, LenProperties, EmptySeq
<1>0. PICK n \in Nat : n = Len(frames) - 1
  <2>1. \A m \in Nat : m # 0 => m - 1 \in Nat
    OBVIOUS
  <2>2. Len(frames) - 1 \in Nat
    BY <1>1, <2>1
  <2> QED
    BY <2>2
<1>2. PICK fs : fs = SE!Front(frames)
  OBVIOUS
<1>3. fs \in Seq(Frame) /\ Len(fs) = n /\ \A k \in 1..n : fs[k] = frames[k]
  <2>1. fs = SubSeq(frames, 1, n)
    BY <1>0, <1>2 DEF SE!Front
  <2>2. \A i \in 1..n : frames[i] \in Frame
    BY <1>1, <1>0, <1>2, ElementOfSeq
  <2>3. /\ fs \in Seq(Frame) /\ Len(fs) = IF 1 <= n THEN n - 1 + 1 ELSE 0
        /\ \A i \in 1..(n - 1 + 1) : fs[i] = frames[1 + i - 1]
    BY <2>1, <2>2, SubSeqProperties
  <2> QED
    BY <2>3
<1>4. ASSUME NEW k \in 1..n PROVE Fine(fs[k])
  <2>1. PICK g : g = fs[k] /\ g = frames[k]
    BY <1>3
  <2>2. Fine(g)
    BY <1>1, <1>0, <1>2, <2>1 DEF CallInv
  <2> QED
    BY <2>1, <2>2
<1>5. \A k \in 1..(n - 1) : fs[k].running
  BY <1>1, <1>0, <1>2, <1>3 DEF CallInv
<1>7. \A k \in 1..Len(fs) : Fine(fs[k])
  BY <1>3, <1>4
<1>8. \A k \in 1..(Len(fs) - 1) : fs[k].running
  BY <1>3, <1>5
<1>9. fs \in Seq(Frame) /\ frames' = fs /\ (alive' = alive \/ alive' = Survivors(fs))
  BY <1>0, <1>2, <1>3
<1> QED
  BY <1>7, <1>8, <1>9, FramesMove

LEMMA TopFacts ==
  ASSUME CallInv, frames # <<>>
  PROVE  Top \in Frame /\ Fine(Top) /\ Top = frames[Len(frames)]
<1>1. frames \in Seq(Frame)
  BY DEF CallInv
<1>2. Len(frames) \in 1..Len(frames)
  BY <1>1, LenProperties, EmptySeq
<1>3. PICK g : g = frames[Len(frames)]
  OBVIOUS
<1>4. g \in Frame /\ Fine(g)
  BY <1>1, <1>2, <1>3, ElementOfSeq DEF CallInv
<1> QED
  BY <1>3, <1>4 DEF Top, SE!Last

LEMMA InBroadcast == ASSUME CallInv, ~UserCode PROVE frames # <<>> /\ ~Top.running
<1>1. frames \in Seq(Frame) /\ Len(frames) \in Nat /\ DOMAIN frames = 1..Len(frames)
  BY LenProperties DEF CallInv
<1>2. PICK k \in 1..Len(frames) : ~frames[k].running
  BY <1>1 DEF UserCode
<1>3. k = Len(frames)
  <2>1. k \notin 1..(Len(frames) - 1)
    BY <1>2 DEF CallInv
  <2>2. \A n \in Nat : \A i \in 1..n : i \notin 1..(n - 1) => i = n
    OBVIOUS
  <2> QED
    BY <1>1, <2>1, <2>2
<1>4. frames # <<>>
  BY <1>2
<1> QED
  BY <1>2, <1>3, <1>4, TopFacts

(* A call made now finds its object: IsBound() has just said so.           *)
LEMMA Reached ==
  ASSUME CallInv, NEW h, h \in SE!ToSet(slots) \cup {Own}, IsValid(h)
  PROVE  /\ bound[h].invocation.how = "raw" => bound[h].invocation.object \in owned
         /\ bound[h].invocation.how = "lock" => bound[h].invocation.object \in alive
<1>1. h \in 0..created
  BY SlotFacts DEF Own
<1>2. PICK d : d = bound[h]
  OBVIOUS
<1>3. OneBinding(d) /\ IsBound(d, alive)
  BY <1>1, <1>2 DEF CallInv, IInv, IsValid
<1>4. d.invocation.how = "lock" => d.invocation.object \in alive
  BY <1>3, FieldsAnswer DEF Reaches
<1> QED
  BY <1>2, <1>4 DEF CallInv

LEMMA ExecuteKeeps == ASSUME CallInv, Execute PROVE CallInv'
<1>1. PICK f : f = [snapshot |-> <<Own>>, pos |-> 1, running |-> TRUE, called |-> <<Own>>]
  OBVIOUS
<1>2. PICK s : s = <<Own>>
  OBVIOUS
<1>3. s \in Seq(Nat) /\ Len(s) = 1 /\ DOMAIN s = 1..1 /\ s[1] = 0
  BY <1>2 DEF Own
<1>4. SE!ToSet(s) = {0}
  BY <1>3 DEF SE!ToSet
<1>5. /\ f.snapshot = s /\ f.pos = 1 /\ f.running /\ f.called = s /\ f \in Frame
      /\ Current(f) = 0
  BY <1>1, <1>2, <1>3 DEF Frame, Current
<1>6. Ascending(s) /\ created \in Nat
  BY <1>3, SlotFacts DEF Ascending
<1>7. \E j \in 1..Len(s) : s[j] = 0 /\ (j < f.pos \/ (f.running /\ j = f.pos))
  BY <1>3, <1>5
<1>8. Shape(f)
  <2>1. \A h \in SE!ToSet(f.snapshot) : h <= created
    BY <1>4, <1>5, <1>6
  <2>2. f.pos <= Len(f.snapshot) + 1 /\ f.pos <= Len(f.snapshot)
    <3>1. f.pos = 1 /\ Len(f.snapshot) = 1
      BY <1>3, <1>5
    <3> QED
      BY <3>1
  <2>3. \A h \in SE!ToSet(f.called) : h = 0
    BY <1>4, <1>5
  <2>4. Current(f) \in SE!ToSet(f.called)
    BY <1>4, <1>5
  <2> QED
    BY <1>5, <1>6, <1>7, <2>1, <2>2, <2>3, <2>4 DEF Shape
<1>9. Behind(f)
  BY <1>5 DEF Behind
<1>10. Live(f)
  BY <1>5, Reached DEF Live, Target, Execute, Own
<1>11. Fine(f)
  BY <1>8, <1>9, <1>10 DEF Fine
<1>12. /\ UserCode /\ frames' = Append(frames, f)
       /\ UNCHANGED <<slots, bound, created, alive, owned>>
  BY <1>1 DEF Execute
<1> QED
  BY <1>5, <1>11, <1>12, Pushed

LEMMA BroadcastKeeps == ASSUME CallInv, Broadcast PROVE CallInv'
<1>1. PICK f : f = [snapshot |-> slots, pos |-> 1, running |-> FALSE, called |-> <<>>]
  OBVIOUS
<1>2. /\ created \in Nat /\ SE!ToSet(slots) \subseteq 1..created
      /\ slots \in Seq(Nat) /\ Ascending(slots) /\ Len(slots) \in Nat
  BY SlotFacts, LenProperties
<1>3. PICK e : e = <<>>
  OBVIOUS
<1>4. e \in Seq(Nat) /\ DOMAIN e = {} /\ SE!ToSet(e) = {} /\ Ascending(e)
  BY <1>3 DEF SE!ToSet, Ascending
<1>5. f.snapshot = slots /\ f.pos = 1 /\ ~f.running /\ f.called = e /\ f \in Frame
  BY <1>1, <1>2, <1>3, <1>4 DEF Frame
<1>6. \A h \in SE!ToSet(slots) : h <= created
  BY <1>2
<1>7. Shape(f)
  BY <1>2, <1>4, <1>5, <1>6 DEF Shape
<1>8. Behind(f) /\ Live(f)
  BY <1>5 DEF Behind, Live
<1>9. Fine(f)
  BY <1>7, <1>8 DEF Fine
<1>10. /\ UserCode /\ frames' = Append(frames, f)
       /\ UNCHANGED <<slots, bound, created, alive, owned>>
  BY <1>1 DEF Broadcast
<1> QED
  BY <1>5, <1>9, <1>10, Pushed

LEMMA CallKeeps == ASSUME CallInv, Call PROVE CallInv'
<1>1. frames # <<>> /\ ~Top.running
  BY InBroadcast DEF Call, InLoop
<1>2. PICK t : t = Top
  OBVIOUS
<1>3. /\ t \in Frame /\ Fine(t) /\ t = frames[Len(frames)] /\ ~t.running
      /\ t.pos <= Len(t.snapshot) /\ created \in Nat
  BY <1>1, <1>2, TopFacts, SlotFacts DEF Call, InLoop
<1>4. PICK h, c : h = Current(t) /\ c = Append(t.called, h)
  OBVIOUS
<1>5. PICK f : f = [t EXCEPT !.running = TRUE, !.called = c]
  OBVIOUS
<1>6. Contains(h) /\ IsValid(h)
  BY <1>2, <1>4 DEF Call, MayCall
<1>7. /\ t.snapshot \in Seq(Nat) /\ Len(t.snapshot) \in Nat /\ DOMAIN t.snapshot = 1..Len(t.snapshot)
      /\ \A j \in 1..Len(t.snapshot) : t.snapshot[j] \in 0..created
      /\ t.pos \in Nat \ {0} /\ t.called \in Seq(Nat)
  BY <1>3, FrameFacts DEF Fine
<1>8. t.pos \in 1..Len(t.snapshot) /\ h = t.snapshot[t.pos] /\ h \in Nat
  BY <1>3, <1>4, <1>7 DEF Current
<1>9. \A x \in SE!ToSet(t.called) :
        x < h /\ \E j \in 1..Len(t.snapshot) : t.snapshot[j] = x /\ j < t.pos
  <2> SUFFICES ASSUME NEW x \in SE!ToSet(t.called)
               PROVE  x < h /\ \E j \in 1..Len(t.snapshot) : t.snapshot[j] = x /\ j < t.pos
    OBVIOUS
  <2>1. PICK j \in 1..Len(t.snapshot) : t.snapshot[j] = x /\ j < t.pos
    BY <1>3 DEF Fine, Shape
  <2>2. x < h
    BY <1>3, <1>7, <1>8, <2>1 DEF Fine, Shape, Ascending
  <2> QED
    BY <2>1, <2>2
<1>10. c \in Seq(Nat) /\ Ascending(c) /\ SE!ToSet(c) = SE!ToSet(t.called) \cup {h}
  <2>1. PICK s : s = t.called
    OBVIOUS
  <2>2. s \in Seq(Nat) /\ Ascending(s) /\ \A x \in SE!ToSet(s) : x < h
    BY <1>3, <1>7, <1>9, <2>1 DEF Fine, Shape
  <2>3. c = Append(s, h)
    BY <1>4, <2>1
  <2>4. /\ Append(s, h) \in Seq(Nat) /\ Ascending(Append(s, h))
        /\ SE!ToSet(Append(s, h)) = SE!ToSet(s) \cup {h}
    BY <1>8, <2>2, AppendAscends
  <2> QED
    BY <2>1, <2>3, <2>4
<1>11. /\ f \in Frame /\ f.snapshot = t.snapshot /\ f.pos = t.pos /\ f.running /\ f.called = c
       /\ Current(f) = h
  BY <1>3, <1>4, <1>5, <1>10 DEF Frame, Current
<1>12. Shape(f)
  <2>1. ASSUME NEW x \in SE!ToSet(f.called)
        PROVE  \E j \in 1..Len(f.snapshot) :
                 f.snapshot[j] = x /\ (j < f.pos \/ (f.running /\ j = f.pos))
    <3>1. CASE x = h
      BY <1>8, <1>11, <3>1
    <3>2. CASE x # h
      BY <1>9, <1>10, <1>11, <2>1, <3>2
    <3> QED
      BY <3>1, <3>2
  <2>2. /\ Ascending(f.snapshot) /\ \A x \in SE!ToSet(f.snapshot) : x <= created
        /\ f.pos <= Len(f.snapshot) + 1 /\ f.pos <= Len(f.snapshot)
    BY <1>3, <1>11 DEF Fine, Shape
  <2>3. Current(f) \in SE!ToSet(f.called) /\ Ascending(f.called)
    BY <1>10, <1>11
  <2> QED
    BY <1>11, <2>1, <2>2, <2>3 DEF Shape
<1>13. Behind(f)
  BY <1>3, <1>10, <1>11 DEF Fine, Behind
<1>14. Live(f)
  BY <1>6, <1>11, Reached DEF Live, Target, Contains
<1>15. Fine(f)
  BY <1>12, <1>13, <1>14 DEF Fine
<1>16. frames' = [frames EXCEPT ![Len(frames)] = f]
  BY <1>2, <1>3, <1>4, <1>5 DEF Call
<1> QED
  BY <1>1, <1>11, <1>15, <1>16, TopSet DEF Call

(* The loop goes on by one: nobody is left behind who should have been     *)
(* called.                                                                 *)
LEMMA GoesOn ==
  ASSUME CallInv, NEW t, t \in Frame, Fine(t), t.pos <= Len(t.snapshot),
         \/ t.running
         \/ ~(Contains(Current(t)) /\ IsValid(Current(t))),
         NEW f, f = [t EXCEPT !.running = FALSE, !.pos = @ + 1]
  PROVE  f \in Frame /\ Fine(f)
<1>1. /\ created \in Nat /\ Len(t.snapshot) \in Nat /\ t.pos \in Nat \ {0} /\ Shape(t)
  BY SlotFacts, FrameFacts DEF Fine
<1>2. /\ f \in Frame /\ f.snapshot = t.snapshot /\ f.called = t.called /\ ~f.running
      /\ f.pos = t.pos + 1
  <2>1. t.pos + 1 \in Nat \ {0}
    BY <1>1
  <2> QED
    BY <2>1 DEF Frame
<1>3. Shape(f)
  <2>1. ASSUME NEW x \in SE!ToSet(f.called)
        PROVE  \E j \in 1..Len(f.snapshot) : f.snapshot[j] = x /\ j < f.pos
    <3>1. PICK j \in 1..Len(t.snapshot) : t.snapshot[j] = x /\ (j < t.pos \/ j = t.pos)
      BY <1>1, <1>2, <2>1 DEF Shape
    <3>2. j < f.pos
      BY <1>1, <1>2, <3>1
    <3> QED
      BY <1>2, <3>1, <3>2
  <2>2. f.pos <= Len(f.snapshot) + 1
    BY <1>1, <1>2
  <2> QED
    BY <1>1, <1>2, <2>1, <2>2 DEF Shape
<1>4. Behind(f)
  <2> SUFFICES ASSUME NEW j \in 1..t.pos, Contains(t.snapshot[j]), IsValid(t.snapshot[j])
               PROVE  t.snapshot[j] \in SE!ToSet(t.called)
    BY <1>1, <1>2 DEF Behind
  <2>1. CASE j = t.pos
    BY <1>1, <2>1 DEF Shape, Current
  <2>2. CASE j # t.pos
    <3>1. j \in 1..(t.pos - 1)
      BY <1>1, <2>2
    <3> QED
      BY <3>1 DEF Fine, Behind
  <2> QED
    BY <2>1, <2>2
<1>5. Live(f)
  BY <1>2 DEF Live
<1> QED
  BY <1>2, <1>3, <1>4, <1>5 DEF Fine

LEMMA SkipKeeps == ASSUME CallInv, Skip PROVE CallInv'
<1>1. frames # <<>> /\ ~Top.running
  BY InBroadcast DEF Skip, InLoop
<1>2. PICK t : t = Top
  OBVIOUS
<1>3. t \in Frame /\ Fine(t) /\ t = frames[Len(frames)] /\ ~t.running
  BY <1>1, <1>2, TopFacts
<1>4. PICK f : f = [t EXCEPT !.running = FALSE, !.pos = @ + 1]
  OBVIOUS
<1>5. f = [t EXCEPT !.pos = @ + 1]
  BY <1>3, <1>4 DEF Frame
<1>6. f \in Frame /\ Fine(f)
  BY <1>2, <1>3, <1>4, GoesOn DEF Skip, InLoop, MayCall
<1>7. frames' = [frames EXCEPT ![Len(frames)] = f]
  BY <1>3, <1>5 DEF Skip
<1> QED
  BY <1>1, <1>6, <1>7, TopSet DEF Skip

LEMMA CallbackReturnsKeeps == ASSUME CallInv, CallbackReturns PROVE CallInv'
<1>1. frames # <<>> /\ Top.running
  BY DEF CallbackReturns
<1>2. PICK t : t = Top
  OBVIOUS
<1>3. t \in Frame /\ Fine(t) /\ t = frames[Len(frames)] /\ t.running
  BY <1>1, <1>2, TopFacts
<1>4. PICK f : f = [t EXCEPT !.running = FALSE, !.pos = @ + 1]
  OBVIOUS
<1>5. t.pos <= Len(t.snapshot)
  BY <1>3 DEF Fine, Shape
<1>6. f \in Frame /\ Fine(f)
  BY <1>3, <1>4, <1>5, GoesOn
<1>7. frames' = [frames EXCEPT ![Len(frames)] = f]
  BY <1>3, <1>4 DEF CallbackReturns
<1> QED
  BY <1>1, <1>6, <1>7, TopSet DEF CallbackReturns

LEMMA LeaveCallKeeps == ASSUME CallInv, LeaveCall PROVE CallInv'
<1>1. /\ slots' \in Seq(1..created) /\ Ascending(slots')
      /\ SE!ToSet(slots') \subseteq SE!ToSet(slots)
  BY SlotFacts DEF LeaveCall
<1> QED
  BY <1>1, Popped DEF LeaveCall

LEMMA CleanedKeepsValid ==
  ASSUME CallInv
  PROVE  /\ Cleaned \in Seq(1..created) /\ Ascending(Cleaned)
         /\ SE!ToSet(Cleaned) = {h \in SE!ToSet(slots) : IsValid(h)}
<1>1. PICK S : S = {h \in SE!ToSet(slots) : IsValid(h)}
  OBVIOUS
<1>2. /\ Select(slots, S) \in Seq(1..created) /\ Ascending(Select(slots, S))
      /\ SE!ToSet(Select(slots, S)) = SE!ToSet(slots) \cap S
  BY SlotFacts, SelectSelects
<1>3. SE!ToSet(slots) \cap S = S
  BY <1>1
<1> QED
  BY <1>1, <1>2, <1>3 DEF Cleaned

LEMMA EndOfBroadcastKeeps == ASSUME CallInv, EndOfBroadcast PROVE CallInv'
<1>1. frames # <<>>
  BY InBroadcast DEF EndOfBroadcast
<1>2. /\ slots' \in Seq(1..created) /\ Ascending(slots')
      /\ SE!ToSet(slots') \subseteq SE!ToSet(slots)
  BY CleanedKeepsValid DEF EndOfBroadcast
<1> QED
  BY <1>1, <1>2, Popped DEF EndOfBroadcast

-----------------------------------------------------------------------------
LEMMA InitCallInv == Init => CallInv
<1> SUFFICES ASSUME Init PROVE CallInv
  OBVIOUS
<1>1. IInv /\ created = 0 /\ frames = <<>> /\ slots = <<>> /\ owned \subseteq alive
  BY InitInv DEF Init
<1>2. slots \in Seq(1..created) /\ Ascending(slots) /\ SE!ToSet(slots) = {}
  BY <1>1 DEF Ascending, SE!ToSet
<1>3. frames \in Seq(Frame) /\ Len(frames) = 0
  BY <1>1
<1>4. bound[Own].invocation.how = "nullptr"
  BY DEF Init, Unbound, Nullptr, Own
<1> QED
  BY <1>1, <1>2, <1>3, <1>4 DEF CallInv

LEMMA NextCallInv == CallInv /\ [Next]_vars => CallInv'
<1> SUFFICES ASSUME CallInv, [Next]_vars PROVE CallInv'
  OBVIOUS
<1>1. ASSUME UNCHANGED vars PROVE CallInv'
  <2>1. UNCHANGED <<slots, bound, created, alive, owned, frames>>
    BY <1>1 DEF vars
  <2>2. IInv' /\ owned' \subseteq alive' /\ created \in Nat
    BY <2>1 DEF CallInv, IInv
  <2>3. Ages
    BY <2>1, <2>2 DEF Ages
  <2>4. \A f \in Running : KeepsTarget(f)
    BY <2>1, RunningFacts DEF KeepsTarget
  <2>5. /\ slots' \in Seq(1..created') /\ Ascending(slots')
        /\ \A h \in SE!ToSet(slots') \cup {Own} :
             bound'[h].invocation.how = "raw" => bound'[h].invocation.object \in owned'
    BY <2>1 DEF CallInv
  <2> QED
    BY <2>1, <2>2, <2>3, <2>4, <2>5, FramesKept
<1> QED
  BY <1>1, ProgramKeeps, ExecuteKeeps, BroadcastKeeps, CallKeeps, SkipKeeps,
     CallbackReturnsKeeps, LeaveCallKeeps, EndOfBroadcastKeeps DEF Next

LEMMA CallInvHolds == Spec => []CallInv
  BY InitCallInv, NextCallInv, PTL DEF Spec

(* No callback runs on an object that is gone.  A callback that locked its *)
(* object keeps it; one on a raw pointer has it kept by the program, which *)
(* removes the binding before it lets go.                                  *)
THEOREM NoCallDangles == Spec => []NoDanglingCall
<1>1. CallInv => NoDanglingCall
  <2> SUFFICES ASSUME CallInv, NEW f \in Running
               PROVE  Target(f).object \in alive \cup {NoObject}
    BY DEF NoDanglingCall
  <2>1. /\ Target(f).how = "raw" => Target(f).object \in owned
        /\ Target(f).how = "lock" => Target(f).object \in alive
        /\ Target(f) \in Closure
    BY RunningFacts DEF Target, OneBinding, Delegate
  <2>2. owned \subseteq alive
    BY DEF CallInv
  <2> QED
    BY <2>1, <2>2 DEF Closure, Nullptr
<1> QED
  BY <1>1, CallInvHolds, PTL

\* Every frame is one of those the invariant speaks of.
LEMMA FramesFine ==
  ASSUME CallInv, NEW f \in SE!ToSet(frames) PROVE Fine(f)
<1>1. frames \in Seq(Frame) /\ DOMAIN frames = 1..Len(frames)
  BY LenProperties DEF CallInv
<1>2. PICK k \in 1..Len(frames) : f = frames[k]
  BY <1>1 DEF SE!ToSet
<1> QED
  BY <1>2 DEF CallInv

(* One broadcast calls its bindings in the order in which they were added, *)
(* each at most once, and none that was added after it began, whatever its *)
(* callbacks and those of the broadcasts nested in it add and remove.      *)
THEOREM BroadcastCallsInOrder == Spec => []CalledInOrder
<1>1. CallInv => CalledInOrder
  <2> SUFFICES ASSUME CallInv, NEW f \in SE!ToSet(frames)
               PROVE  /\ \A j \in 1..(Len(f.called) - 1) : f.called[j] < f.called[j + 1]
                      /\ SE!ToSet(f.called) \subseteq SE!ToSet(f.snapshot)
    BY DEF CalledInOrder
  <2>1. Shape(f) /\ created \in Nat
    BY FramesFine, SlotFacts DEF Fine
  <2>2. /\ Len(f.called) \in Nat /\ DOMAIN f.called = 1..Len(f.called)
        /\ Len(f.snapshot) \in Nat /\ DOMAIN f.snapshot = 1..Len(f.snapshot)
    BY <2>1, FrameFacts
  <2>3. ASSUME NEW j \in 1..(Len(f.called) - 1) PROVE f.called[j] < f.called[j + 1]
    <3>1. j \in 1..Len(f.called) /\ j + 1 \in 1..Len(f.called) /\ j < j + 1
      BY <2>2
    <3> QED
      BY <2>1, <2>2, <3>1 DEF Shape, Ascending
  <2>4. SE!ToSet(f.called) \subseteq SE!ToSet(f.snapshot)
    BY <2>1, <2>2 DEF Shape, SE!ToSet
  <2> QED
    BY <2>3, <2>4
<1> QED
  BY <1>1, CallInvHolds, PTL

(* Whoever was bound when a broadcast began and still is has been called   *)
(* when the loop is past it.                                               *)
THEOREM BroadcastMissesNobody == Spec => []NobodyMissed
<1>1. CallInv => NobodyMissed
  BY FramesFine DEF Fine, Behind, NobodyMissed
<1> QED
  BY <1>1, CallInvHolds, PTL

-----------------------------------------------------------------------------
(* Every binding ever made: what is neither bound nor removed is dead.     *)
Accounted ==
  /\ removed \subseteq 1..created
  /\ SE!ToSet(slots) \cap removed = {}
  /\ \A h \in 1..created : IsValid(h) /\ h \notin removed => Contains(h)

(* A binding keeps its delegate, and a dead one does not come to life.     *)
LEMMA DeadStaysDead ==
  ASSUME CallInv, [Next]_vars, NEW h \in 1..created, IsValid(h)' PROVE IsValid(h)
<1>1. created \in Nat /\ DOMAIN bound = 0..created /\ h \in 0..created /\ h # Own
  BY DEF CallInv, IInv, Own
<1>2. bound'[h] = bound[h]
  <2>1. ASSUME NEW d, Add(d) PROVE bound'[h] = bound[h]
    BY <1>1, <2>1 DEF Add
  <2>2. CASE Rebind
    BY <1>1, <2>2 DEF Rebind, CallInv, IInv
  <2>3. CASE UNCHANGED bound
    BY <2>3
  <2> QED
    BY <2>1, <2>2, <2>3 DEF Next, vars, AddNew, AddOwn, Execute, Remove, RemoveAll,
       Release, Clear, Broadcast, Call, Skip, CallbackReturns, LeaveCall, EndOfBroadcast
<1>3. alive' \subseteq alive
  BY DEF Next, vars, AddNew, AddOwn, Add, Rebind, Execute, Remove, RemoveAll,
     Release, Clear, Broadcast, Call, Skip, CallbackReturns, LeaveCall, EndOfBroadcast,
     Survivors
<1> QED
  BY <1>2, <1>3 DEF IsValid, IsBound

\* slots_ loses what is in lost, which the history notes, or what is dead.
LEMMA TakenOut ==
  ASSUME CallInv, Accounted, [Next]_vars, UNCHANGED created, NEW lost, NEW noted,
         SE!ToSet(slots') = SE!ToSet(slots) \ lost, removed' = removed \cup noted,
         \A h \in SE!ToSet(slots) \cap lost : h \in noted \/ ~IsValid(h),
         noted \subseteq 1..created, noted \cap SE!ToSet(slots) \subseteq lost
  PROVE  Accounted'
<1>1. removed' \subseteq 1..created' /\ SE!ToSet(slots') \cap removed' = {}
  BY DEF Accounted
<1>2. ASSUME NEW h \in 1..created', IsValid(h)', h \notin removed' PROVE Contains(h)'
  <2>1. IsValid(h) /\ h \notin removed /\ h \notin noted
    BY <1>2, DeadStaysDead
  <2>2. h \in SE!ToSet(slots)
    BY <1>2, <2>1 DEF Accounted, Contains
  <2> QED
    BY <2>1, <2>2 DEF Contains
<1> QED
  BY <1>1, <1>2 DEF Accounted

LEMMA RemovalsAccounted ==
  ASSUME CallInv, Accounted, [Next]_vars,
         \/ \E h \in Handle : Remove(h)
         \/ \E o \in Object : RemoveAll(o)
         \/ Clear
  PROVE  Accounted'
<1>1. /\ SE!ToSet(slots) \subseteq 1..created /\ slots \in Seq(1..created) /\ Ascending(slots)
      /\ 1..created \in SUBSET Nat
  BY SlotFacts
<1>2. ASSUME NEW h \in Handle, Remove(h) PROVE Accounted'
  <2>1. PICK S : S = SE!ToSet(slots) \ {h}
    OBVIOUS
  <2>2. slots' = Select(slots, S) /\ removed' = removed \cup {h} /\ h \in SE!ToSet(slots)
        /\ UNCHANGED created
    BY <1>2, <2>1 DEF Remove, Contains
  <2>3. SE!ToSet(slots') = SE!ToSet(slots) \cap S
    BY <1>1, <2>2, SelectSelects
  <2>4. SE!ToSet(slots') = SE!ToSet(slots) \ {h}
    BY <2>1, <2>3
  <2>5. \A g \in SE!ToSet(slots) \cap {h} : g \in {h} \/ ~IsValid(g)
    OBVIOUS
  <2>6. {h} \subseteq 1..created /\ {h} \cap SE!ToSet(slots) \subseteq {h}
    BY <1>1, <2>2
  <2> QED
    BY <2>2, <2>4, <2>5, <2>6, TakenOut
<1>3. ASSUME NEW o \in Object, RemoveAll(o) PROVE Accounted'
  <2>1. PICK S : S = {h \in SE!ToSet(slots) : ~IsBoundToObject(bound[h], o, alive)}
    OBVIOUS
  <2>2. PICK lost : lost = {h \in SE!ToSet(slots) : IsBoundToObject(bound[h], o, alive)}
    OBVIOUS
  <2>3. slots' = Select(slots, S) /\ removed' = removed \cup lost /\ UNCHANGED created
    BY <1>3, <2>1, <2>2 DEF RemoveAll
  <2>4. SE!ToSet(slots') = SE!ToSet(slots) \cap S
    BY <1>1, <2>3, SelectSelects
  <2>5. SE!ToSet(slots') = SE!ToSet(slots) \ lost
    BY <2>1, <2>2, <2>4
  <2>6. \A g \in SE!ToSet(slots) \cap lost : g \in lost \/ ~IsValid(g)
    OBVIOUS
  <2>7. lost \subseteq 1..created /\ lost \cap SE!ToSet(slots) \subseteq lost
    BY <1>1, <2>2
  <2> QED
    BY <2>3, <2>5, <2>6, <2>7, TakenOut
<1>4. CASE Clear
  <2>1. slots' = <<>> /\ removed' = removed \cup SE!ToSet(slots) /\ UNCHANGED created
    BY <1>4 DEF Clear
  <2>2. SE!ToSet(slots') = SE!ToSet(slots) \ SE!ToSet(slots)
    BY <2>1 DEF SE!ToSet
  <2>3. \A g \in SE!ToSet(slots) \cap SE!ToSet(slots) : g \in SE!ToSet(slots) \/ ~IsValid(g)
    OBVIOUS
  <2> QED
    BY <1>1, <2>1, <2>2, <2>3, TakenOut
<1> QED
  BY <1>2, <1>3, <1>4

LEMMA CleanupAccounted ==
  ASSUME CallInv, Accounted, [Next]_vars, EndOfBroadcast PROVE Accounted'
<1>1. PICK lost : lost = {h \in SE!ToSet(slots) : ~IsValid(h)}
  OBVIOUS
<1>2. slots' = Cleaned /\ UNCHANGED <<created, removed>>
  BY DEF EndOfBroadcast
<1>3. SE!ToSet(slots') = SE!ToSet(slots) \ lost
  BY <1>1, <1>2, CleanedKeepsValid
<1>4. removed' = removed \cup {}
  BY <1>2
<1>5. \A g \in SE!ToSet(slots) \cap lost : g \in {} \/ ~IsValid(g)
  BY <1>1
<1> QED
  BY <1>2, <1>3, <1>4, <1>5, TakenOut

LEMMA AddAccounted ==
  ASSUME CallInv, Accounted, [Next]_vars, NEW d, Add(d) PROVE Accounted'
<1>1. /\ created \in Nat /\ SE!ToSet(slots) \subseteq 1..created
      /\ slots \in Seq(Nat) /\ DOMAIN slots = 1..Len(slots) /\ Len(slots) \in Nat
  BY SlotFacts, LenProperties
<1>2. created' = created + 1 /\ slots' = Append(slots, created') /\ UNCHANGED removed
  BY DEF Add, Grown
<1>3. SE!ToSet(slots') = SE!ToSet(slots) \cup {created'}
  <2>1. /\ DOMAIN slots' = 1..(Len(slots) + 1) /\ slots'[Len(slots) + 1] = created'
        /\ \A i \in 1..Len(slots) : slots'[i] = slots[i]
    BY <1>1, <1>2, AppendProperties
  <2>2. 1..(Len(slots) + 1) = 1..Len(slots) \cup {Len(slots) + 1}
    BY <1>1
  <2> QED
    BY <1>1, <2>1, <2>2 DEF SE!ToSet
<1>4. 1..created' = 1..created \cup {created'} /\ created' \notin 1..created
  BY <1>1, <1>2
<1>5. removed' \subseteq 1..created' /\ SE!ToSet(slots') \cap removed' = {}
  BY <1>2, <1>3, <1>4 DEF Accounted
<1>6. ASSUME NEW h \in 1..created', IsValid(h)', h \notin removed' PROVE Contains(h)'
  <2>1. CASE h \in 1..created
    BY <1>2, <1>3, <1>6, <2>1, DeadStaysDead DEF Accounted, Contains
  <2>2. CASE h = created'
    BY <1>3, <2>2 DEF Contains
  <2> QED
    BY <1>4, <2>1, <2>2
<1> QED
  BY <1>5, <1>6 DEF Accounted

LEMMA NextAccounted == CallInv /\ Accounted /\ [Next]_vars => Accounted'
<1> SUFFICES ASSUME CallInv, Accounted, [Next]_vars PROVE Accounted'
  OBVIOUS
<1>1. CASE UNCHANGED <<slots, created, removed>>
  BY <1>1, DeadStaysDead DEF Accounted, Contains
<1>2. CASE AddNew \/ AddOwn
  BY <1>2, AddAccounted DEF AddNew, AddOwn
<1> QED
  BY <1>1, <1>2, RemovalsAccounted, CleanupAccounted
  DEF Next, vars, Rebind, Execute, Release, Broadcast, Call, Skip, CallbackReturns, LeaveCall

(* A binding is lost by Remove(), RemoveAll() or Clear(), or because its   *)
(* object is gone, and what was removed is not bound again: no cleanup, no *)
(* throw and no nesting of broadcasts makes a difference.                  *)
THEOREM BindingsSurvive == Spec => []NobodyForgotten
<1>1. Init => Accounted
  BY DEF Init, Accounted, SE!ToSet
<1>2. CallInv /\ Accounted /\ [Next]_vars => Accounted'
  BY NextAccounted
<1>3. Accounted => NobodyForgotten
  BY DEF Accounted, NobodyForgotten, Contains
<1> QED
  BY <1>1, <1>2, <1>3, CallInvHolds, PTL DEF Spec
=============================================================================
