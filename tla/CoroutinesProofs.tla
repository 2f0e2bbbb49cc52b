-------------------------- MODULE CoroutinesProofs --------------------------
(***************************************************************************)
(* Every suspended coroutine is registered in one place, and no frame      *)
(* outlives its owner, for every set of tasks and every length of sleep.   *)
(* The two hang together: what the scheduler or a final awaiter resumes    *)
(* must be a frame that exists, and a frame may only go when nobody is to  *)
(* resume it.  On top of that, awaits make no loop, whoever executes is on *)
(* the stack and the timers are in order: run() drains everything.         *)
(***************************************************************************)
EXTENDS Coroutines, FiniteSetTheorems, SequenceTheorems, WellFoundedInduction, TLAPS

Types == /\ state \in [Task -> State]
         /\ owner \in [Task -> Task \cup {None}]
         /\ outcome \in [Task -> {"none", "value", "exception"}]
         /\ continuation \in [Task -> Task \cup {None}]
         /\ stack \in Seq(Task)
         /\ ready \in Seq(Task)
         /\ timers \in Seq([task : Task, left : Nat])

Active == {"running", "raising"}
OnStack == /\ \A i \in 1..Len(stack) : state[stack[i]] \in Active
           /\ \A i, j \in 1..Len(stack) : stack[i] = stack[j] => i = j

\* t joins the line at place p, or the first of the line is served.
Joins(t, p) ==
  LET n == Len(ready) + Len(timers)
  IN  /\ n \in Nat /\ p \in 1..(n + 1) /\ DOMAIN Line = 1..n /\ DOMAIN Line' = 1..(n + 1)
      /\ \A k \in 1..(n + 1) :
           Line'[k] = IF k < p THEN Line[k] ELSE IF k = p THEN t ELSE Line[k - 1]
FirstServed ==
  LET n == Len(ready) + Len(timers)
  IN  /\ n \in Nat \ {0} /\ DOMAIN Line = 1..n /\ DOMAIN Line' = 1..(n - 1)
      /\ \A k \in 1..(n - 1) : Line'[k] = Line[k + 1]
      /\ stack' = <<Line[1]>>
\* The tasks somebody awaits.
Awaited == {c \in Task : continuation[c] # None /\ state[c] \notin {"done", "gone"}}

Once == /\ \A i, j \in DOMAIN Line : Line[i] = Line[j] => i = j
        /\ \A c, d \in Awaited : continuation[c] = continuation[d] => c = d
        /\ \A c \in Awaited, i \in DOMAIN Line : Line[i] # continuation[c]
Placed == \A t \in Task : state[t] = "suspended" <=>
            (\E i \in DOMAIN Line : Line[i] = t) \/ (\E c \in Awaited : continuation[c] = t)

\* Nobody awaits what has not begun.
Fresh == \A c \in Task : state[c] \in {"none", "created"} => continuation[c] = None

IInv == Types /\ OnStack /\ Once /\ Placed /\ Fresh /\ FramesOwned

\* However many tasks one looks at, one of them waits for none of the others:
\* awaits form no loop, nor a chain without an end.
NoLoop == \A S \in SUBSET Task :
  S # {} => \E t \in S : \A c \in S : ~(c \in Awaited /\ continuation[c] = t)
ActiveOnStack == \A t \in Task :
  state[t] \in Active => \E i \in 1..Len(stack) : stack[i] = t

Sorted(ts) == \A k \in 2..Len(ts) : ts[k - 1].left <= ts[k].left
InOrder(ts) == Sorted(ts) /\ \A k \in 1..Len(ts) : ts[k].left <= MaxSleep

Chains == looping \in BOOLEAN /\ NoLoop /\ ActiveOnStack /\ InOrder(timers)

-----------------------------------------------------------------------------
(* The line and the stack.                                                 *)

LEMMA LineType ==
  ASSUME Types
  PROVE  /\ Len(ready) \in Nat /\ Len(timers) \in Nat
         /\ DOMAIN Line = 1..(Len(ready) + Len(timers))
         /\ \A k \in DOMAIN Line : Line[k] \in Task
<1>1. Len(ready) \in Nat /\ Len(timers) \in Nat
  BY LenProperties DEF Types
<1>2. DOMAIN Line = 1..(Len(ready) + Len(timers))
  BY DEF Line
<1>3. ASSUME NEW k \in 1..(Len(ready) + Len(timers)) PROVE Line[k] \in Task
  <2>1. CASE k <= Len(ready)
    <3>1. Line[k] = ready[k] /\ k \in 1..Len(ready)
      BY <1>1, <2>1 DEF Line
    <3> QED
      BY <3>1, ElementOfSeq DEF Types
  <2>2. CASE ~(k <= Len(ready))
    <3>1. Line[k] = timers[k - Len(ready)].task /\ k - Len(ready) \in 1..Len(timers)
      BY <1>1, <2>2 DEF Line
    <3>2. timers[k - Len(ready)] \in [task : Task, left : Nat]
      BY <3>1, ElementOfSeq DEF Types
    <3> QED
      BY <3>1, <3>2
  <2> QED
    BY <2>1, <2>2
<1> QED
  BY <1>1, <1>2, <1>3

LEMMA LineUnchanged == UNCHANGED <<ready, timers>> => Line' = Line
  BY DEF Line

(* The coroutine that executes is on top, and nowhere below.               *)
LEMMA TopOfStack ==
  ASSUME Types, OnStack, NEW t \in Task, Executes(t)
  PROVE  /\ state[t] \in Active
         /\ Len(stack) \in Nat /\ Len(stack) >= 1
         /\ SE!Front(stack) \in Seq(Task)
         /\ Len(SE!Front(stack)) = Len(stack) - 1
         /\ \A i \in 1..(Len(stack) - 1) : SE!Front(stack)[i] = stack[i] /\ stack[i] # t
<1>1. Len(stack) \in Nat /\ Len(stack) >= 1 /\ stack[Len(stack)] = t
  BY EmptySeq DEF Types, Executes, SE!Last
<1>2. /\ SE!Front(stack) \in Seq(Task)
      /\ Len(SE!Front(stack)) = Len(stack) - 1
      /\ \A i \in 1..(Len(stack) - 1) : SE!Front(stack)[i] = stack[i]
  <2>1. \A i \in 1..(Len(stack) - 1) : stack[i] \in Task
    BY <1>1, ElementOfSeq DEF Types
  <2>2. SE!Front(stack) = SubSeq(stack, 1, Len(stack) - 1)
    BY DEF SE!Front
  <2> DEFINE n == Len(stack) - 1
  <2>3. n \in Int /\ 1 \in Int /\ (IF 1 <= n THEN n - 1 + 1 ELSE 0) = n /\ n - 1 + 1 = n
    BY <1>1
  <2>4. /\ SubSeq(stack, 1, n) \in Seq(Task)
        /\ Len(SubSeq(stack, 1, n)) = (IF 1 <= n THEN n - 1 + 1 ELSE 0)
        /\ \A i \in 1..(n - 1 + 1) : SubSeq(stack, 1, n)[i] = stack[1 + i - 1]
    BY <2>1, <2>3, SubSeqProperties
  <2>5. \A i \in 1..n : SubSeq(stack, 1, n)[i] = stack[i]
    BY <2>3, <2>4
  <2> QED
    BY <2>2, <2>3, <2>4, <2>5
<1> QED
  BY <1>1, <1>2 DEF OnStack

(* A coroutine that executes is in no place.                               *)
LEMMA ActiveNowhere ==
  ASSUME Types, Placed, NEW t \in Task, state[t] # "suspended"
  PROVE  /\ \A i \in DOMAIN Line : Line[i] # t
         /\ \A c \in Awaited : continuation[c] # t
  BY DEF Placed

-----------------------------------------------------------------------------
(* The invariant says what it should.                                      *)
LEMMA InLine ==
  ASSUME Types, NEW t \in Task
  PROVE  /\ \A k \in DOMAIN ready : k \in DOMAIN Line /\ Line[k] = ready[k]
         /\ \A k \in DOMAIN timers : Len(ready) + k \in DOMAIN Line
                                     /\ Line[Len(ready) + k] = timers[k].task
         /\ \A i \in DOMAIN Line : \/ i \in DOMAIN ready /\ Line[i] = ready[i]
                                   \/ /\ i - Len(ready) \in DOMAIN timers
                                      /\ Line[i] = timers[i - Len(ready)].task
  BY DEF Types, Line

LEMMA InvImplies == IInv => OnePlace
<1> SUFFICES ASSUME IInv, NEW t \in Task
             PROVE  IF state[t] = "suspended" THEN \E p \in Places(t) : Places(t) = {p}
                                              ELSE Places(t) = {}
  BY DEF OnePlace
<1> DEFINE R == {k \in DOMAIN ready : ready[k] = t}
           T == {k \in DOMAIN timers : timers[k].task = t}
           A == {c \in Task : continuation[c] = t /\ state[c] \notin {"done", "gone"}}
<1>1. Places(t) = ({"ready"} \X R) \cup ({"timers"} \X T) \cup ({"awaits"} \X A)
  BY DEF Places
<1>2. A = {c \in Awaited : continuation[c] = t}
  BY CoroutineConstants DEF Awaited
<1>3. \A i \in R, j \in T : FALSE
  <2> SUFFICES ASSUME NEW i \in R, NEW j \in T PROVE FALSE
    OBVIOUS
  <2>1. i \in DOMAIN Line /\ Len(ready) + j \in DOMAIN Line /\ Line[i] = Line[Len(ready) + j]
    BY InLine DEF IInv
  <2>2. i = Len(ready) + j
    BY <2>1 DEF IInv, Once
  <2> QED
    BY <2>2, LineType DEF IInv, Types
<1>4. \A i, j \in R : i = j
  BY InLine DEF IInv, Once
<1>5. \A i, j \in T : i = j
  <2> SUFFICES ASSUME NEW i \in T, NEW j \in T PROVE i = j
    OBVIOUS
  <2>1. Len(ready) + i = Len(ready) + j
    BY InLine DEF IInv, Once
  <2> QED
    BY <2>1, LineType DEF IInv, Types
<1>6. \A c, d \in A : c = d
  BY <1>2 DEF IInv, Once
<1>7. \A i \in R, c \in A : FALSE
  BY <1>2, InLine DEF IInv, Once
<1>8. \A i \in T, c \in A : FALSE
  BY <1>2, InLine DEF IInv, Once
<1>9. state[t] = "suspended" <=> R # {} \/ T # {} \/ A # {}
  <2>1. (\E i \in DOMAIN Line : Line[i] = t) <=> R # {} \/ T # {}
    BY InLine DEF IInv
  <2> QED
    BY <2>1, <1>2 DEF IInv, Placed
<1> HIDE DEF R, T, A
<1>10. CASE state[t] # "suspended"
  BY <1>1, <1>9, <1>10
<1>11. CASE state[t] = "suspended"
  <2>1. CASE R # {}
    <3>1. PICK i \in R : R = {i}
      BY <2>1, <1>4
    <3>2. Places(t) = {<<"ready", i>>}
      BY <1>1, <1>3, <1>7, <3>1
    <3> QED
      BY <3>2, <1>11
  <2>2. CASE T # {}
    <3>1. PICK i \in T : T = {i}
      BY <2>2, <1>5
    <3>2. Places(t) = {<<"timers", i>>}
      BY <1>1, <1>3, <1>8, <3>1
    <3> QED
      BY <3>2, <1>11
  <2>3. CASE A # {}
    <3>1. PICK c \in A : A = {c}
      BY <2>3, <1>6
    <3>2. Places(t) = {<<"awaits", c>>}
      BY <1>1, <1>7, <1>8, <3>1
    <3> QED
      BY <3>2, <1>11
  <2> QED
    BY <2>1, <2>2, <2>3, <1>9, <1>11
<1> QED
  BY <1>10, <1>11

-----------------------------------------------------------------------------
LEMMA InitInv == Init => IInv
<1> SUFFICES ASSUME Init PROVE IInv
  OBVIOUS
<1>1. Types
  BY DEF Init, Types, State
<1>2. Line = [k \in {} |-> None] /\ DOMAIN Line = {} /\ Len(stack) = 0
  BY DEF Init, Line
<1>3. OnStack
  BY <1>2 DEF OnStack
<1>4. Awaited = {}
  BY DEF Init, Awaited
<1>5. Once /\ Placed /\ Fresh
  BY <1>2, <1>4 DEF Init, Once, Placed, Fresh
<1>6. FramesOwned
  BY DEF Init, FramesOwned
<1> QED
  BY <1>1, <1>3, <1>5, <1>6 DEF IInv

-----------------------------------------------------------------------------
(* A task begins, and ends without having run.                             *)
LEMMA CreateInv ==
  ASSUME IInv, NEW o \in Task \cup {None}, NEW t \in Task, Create(o, t)
  PROVE  IInv'
<1>1. /\ state[t] = "none" /\ state' = [state EXCEPT ![t] = "created"]
      /\ owner' = [owner EXCEPT ![t] = o]
      /\ UNCHANGED <<outcome, continuation, stack, ready, timers>>
      /\ o # None => state[o] = "running" /\ o \in Task
  BY DEF Create, InCode, Running
<1>2. Line' = Line
  BY <1>1, LineUnchanged
<1>3. Types'
  BY <1>1 DEF IInv, Types, State
<1>4. Awaited' = Awaited
  BY <1>1 DEF IInv, Types, Fresh, Awaited
<1>5. OnStack'
  <2>1. \A i \in 1..Len(stack) : stack[i] # t
    BY <1>1 DEF IInv, OnStack, Active
  <2> QED
    BY <1>1, <2>1 DEF IInv, Types, OnStack
<1>6. Once'
  BY <1>1, <1>2, <1>4 DEF IInv, Once
<1>7. Placed'
  BY <1>1, <1>2, <1>4 DEF IInv, Types, Placed
<1>8. Fresh'
  BY <1>1 DEF IInv, Types, Fresh
<1>9. FramesOwned'
  BY <1>1, CoroutineConstants DEF IInv, Types, FramesOwned
<1> QED
  BY <1>3, <1>5, <1>6, <1>7, <1>8, <1>9 DEF IInv

LEMMA StartInv ==
  ASSUME IInv, NEW o \in Task \cup {None}, NEW t \in Task, Start(o, t)
  PROVE  IInv'
<1>1. /\ state[t] = "created" /\ state' = [state EXCEPT ![t] = "running"]
      /\ stack' = Append(stack, t)
      /\ UNCHANGED <<owner, outcome, continuation, ready, timers>>
  BY DEF Start, FirstUse
<1>2. Line' = Line
  BY <1>1, LineUnchanged
<1>3. Types'
  BY <1>1 DEF IInv, Types, State
<1>4. Awaited' = Awaited
  BY <1>1 DEF IInv, Types, Fresh, Awaited
<1>5. OnStack'
  <2>1. \A i \in 1..Len(stack) : stack[i] # t /\ stack[i] \in Task
    BY <1>1, ElementOfSeq DEF IInv, Types, OnStack, Active
  <2>2. /\ Len(stack) \in Nat /\ Len(stack') = Len(stack) + 1
        /\ \A i \in 1..Len(stack) : stack'[i] = stack[i]
        /\ stack'[Len(stack) + 1] = t
    BY <1>1, LenProperties, AppendProperties DEF IInv, Types
  <2> QED
    BY <1>1, <2>1, <2>2 DEF IInv, Types, OnStack, Active
<1>6. Once'
  BY <1>1, <1>2, <1>4 DEF IInv, Once
<1>7. Placed'
  BY <1>1, <1>2, <1>4 DEF IInv, Types, Placed
<1>8. Fresh'
  BY <1>1 DEF IInv, Types, Fresh
<1>9. FramesOwned'
  BY <1>1, CoroutineConstants DEF IInv, Types, FramesOwned
<1> QED
  BY <1>3, <1>5, <1>6, <1>7, <1>8, <1>9 DEF IInv

(* A frame that goes is awaited by nobody, and holds none.                 *)
LEMMA DestroyInv ==
  ASSUME IInv, NEW o \in Task \cup {None}, NEW t \in Task, Destroy(o, t)
  PROVE  IInv'
<1>1. /\ state[t] \in {"created", "done"} /\ state' = [state EXCEPT ![t] = "gone"]
      /\ UNCHANGED <<owner, outcome, continuation, stack, ready, timers>>
  BY DEF Destroy
<1>2. Line' = Line
  BY <1>1, LineUnchanged
<1>3. Types'
  BY <1>1 DEF IInv, Types, State
<1>4. Awaited' = Awaited
  BY <1>1 DEF IInv, Types, Fresh, Awaited
<1>5. OnStack'
  <2>1. \A i \in 1..Len(stack) : stack[i] # t
    BY <1>1 DEF IInv, OnStack, Active
  <2> QED
    BY <1>1, <2>1 DEF IInv, Types, OnStack
<1>6. Once'
  BY <1>1, <1>2, <1>4 DEF IInv, Once
<1>7. Placed'
  BY <1>1, <1>2, <1>4 DEF IInv, Types, Placed
<1>8. Fresh'
  BY <1>1 DEF IInv, Types, Fresh
<1>9. FramesOwned'
  BY <1>1, CoroutineConstants DEF IInv, Types, FramesOwned
<1> QED
  BY <1>3, <1>5, <1>6, <1>7, <1>8, <1>9 DEF IInv

(* A coroutine takes a result or handles an exception: it goes on.         *)
LEMMA GoesOnInv ==
  ASSUME IInv, NEW t \in Task, NEW s \in Active, state[t] \in Active,
         state' = [state EXCEPT ![t] = s],
         UNCHANGED <<owner, outcome, continuation, stack, ready, timers>>
  PROVE  IInv'
<1>1. Line' = Line
  BY LineUnchanged
<1>2. Types'
  BY DEF IInv, Types, State, Active
<1>3. Awaited' = Awaited
  BY DEF IInv, Types, Awaited, Active
<1>4. OnStack'
  BY DEF IInv, Types, OnStack
<1>5. Once'
  BY <1>1, <1>3 DEF IInv, Once
<1>6. Placed'
  BY <1>1, <1>3 DEF IInv, Types, Placed, Active
<1>7. Fresh'
  BY DEF IInv, Types, Fresh, Active
<1>8. FramesOwned'
  BY CoroutineConstants DEF IInv, Types, FramesOwned, Active
<1> QED
  BY <1>2, <1>4, <1>5, <1>6, <1>7, <1>8 DEF IInv

LEMMA AwaitDoneInv ==
  ASSUME IInv, NEW t \in Task, NEW c \in Task, AwaitDone(t, c)
  PROVE  IInv'
<1>1. /\ state[t] \in Active /\ AfterTake(c) \in Active
      /\ state' = [state EXCEPT ![t] = AfterTake(c)]
      /\ UNCHANGED <<owner, outcome, continuation, stack, ready, timers>>
  BY DEF AwaitDone, Running, AfterTake, Active
<1> QED
  BY <1>1, GoesOnInv

LEMMA CatchInv == ASSUME IInv, NEW t \in Task, Catch(t) PROVE IInv'
<1>1. /\ state[t] \in Active /\ "running" \in Active
      /\ state' = [state EXCEPT ![t] = "running"]
      /\ UNCHANGED <<owner, outcome, continuation, stack, ready, timers>>
  BY DEF Catch, Active
<1> QED
  BY <1>1, GoesOnInv

-----------------------------------------------------------------------------
(* co_await moves its caller into the promise of c.                        *)
LEMMA AwaitInv ==
  ASSUME IInv, NEW t \in Task, NEW c \in Task, Await(t, c)
  PROVE  IInv'
<1>1. /\ Executes(t) /\ state[t] = "running" /\ state[c] = "created" /\ t # c
      /\ continuation' = [continuation EXCEPT ![c] = t]
      /\ state' = [state EXCEPT ![t] = "suspended", ![c] = "running"]
      /\ stack' = Append(SE!Front(stack), c)
      /\ UNCHANGED <<owner, outcome, ready, timers>>
  BY DEF Await, Running, FirstUse
<1>2. Line' = Line
  BY <1>1, LineUnchanged
<1>3. /\ Len(stack) \in Nat /\ Len(stack) >= 1
      /\ SE!Front(stack) \in Seq(Task)
      /\ Len(SE!Front(stack)) = Len(stack) - 1
      /\ \A i \in 1..(Len(stack) - 1) : SE!Front(stack)[i] = stack[i] /\ stack[i] # t
  BY <1>1, TopOfStack DEF IInv
<1>4. Types'
  <2>1. stack' \in Seq(Task)
    BY <1>1, <1>3, AppendProperties
  <2> QED
    BY <1>1, <2>1 DEF IInv, Types, State
<1>5. continuation[c] = None
  BY <1>1 DEF IInv, Fresh
<1>6. Awaited' = Awaited \cup {c} /\ c \notin Awaited
  BY <1>1, <1>5, CoroutineConstants DEF IInv, Types, Awaited
<1>7. /\ \A i \in DOMAIN Line : Line[i] # t
      /\ \A d \in Awaited : continuation[d] # t
  BY <1>1, ActiveNowhere DEF IInv
<1>8. OnStack'
  <2>1. \A i \in 1..(Len(stack) - 1) : stack[i] # c /\ stack[i] \in Task
    <3> SUFFICES ASSUME NEW i \in 1..(Len(stack) - 1) PROVE stack[i] # c /\ stack[i] \in Task
      OBVIOUS
    <3>1. i \in 1..Len(stack)
      BY <1>3
    <3>2. state[stack[i]] \in Active
      BY <3>1 DEF IInv, OnStack
    <3>3. stack[i] # c
      BY <1>1, <3>2 DEF Active
    <3> QED
      BY <3>1, <3>3, ElementOfSeq DEF IInv, Types
  <2>2. /\ Len(stack') = Len(stack)
        /\ \A i \in 1..(Len(stack) - 1) : stack'[i] = stack[i]
        /\ stack'[Len(stack)] = c
    BY <1>1, <1>3, AppendProperties
  <2>3. \A i \in 1..Len(stack') : state'[stack'[i]] \in Active
    BY <1>1, <1>3, <2>1, <2>2 DEF IInv, Types, OnStack, Active
  <2>4. \A i, j \in 1..Len(stack') : stack'[i] = stack'[j] => i = j
    BY <1>3, <2>1, <2>2 DEF IInv, OnStack
  <2> QED
    BY <2>3, <2>4 DEF OnStack
<1>9. Once'
  BY <1>1, <1>2, <1>6, <1>7, ZenonT(60) DEF IInv, Types, Once, Awaited
<1>10. Placed'
  <2>1. \A d \in Awaited : continuation'[d] = continuation[d]
    BY <1>1, <1>6 DEF IInv, Types, Awaited
  <2>2. continuation'[c] = t
    BY <1>1 DEF IInv, Types
  <2>3. ASSUME NEW s \in Task, s # t PROVE state'[s] = "suspended" <=> state[s] = "suspended"
    BY <1>1, <2>3 DEF IInv, Types
  <2>4. state'[t] = "suspended"
    BY <1>1 DEF IInv, Types
  <2> QED
    BY <1>2, <1>6, <2>1, <2>2, <2>3, <2>4 DEF IInv, Placed
<1>11. Fresh'
  BY <1>1 DEF IInv, Types, Fresh
<1>12. FramesOwned'
  BY <1>1, CoroutineConstants DEF IInv, Types, FramesOwned
<1> QED
  BY <1>4, <1>8, <1>9, <1>10, <1>11, <1>12 DEF IInv

-----------------------------------------------------------------------------
(* Who suspends leaves the stack; the frames stay with their owners.       *)
LEMMA SuspendInv ==
  ASSUME IInv, NEW t \in Task, Running(t), Suspend(t),
         UNCHANGED <<owner, outcome, continuation>>,
         ready' \in Seq(Task), timers' \in Seq([task : Task, left : Nat])
  PROVE  /\ Types' /\ OnStack' /\ Fresh' /\ FramesOwned'
         /\ Awaited' = Awaited
<1>1. /\ Executes(t) /\ state[t] = "running"
      /\ state' = [state EXCEPT ![t] = "suspended"] /\ stack' = SE!Front(stack)
  BY DEF Running, Suspend
<1>2. /\ Len(stack) \in Nat /\ Len(stack) >= 1
      /\ SE!Front(stack) \in Seq(Task)
      /\ Len(SE!Front(stack)) = Len(stack) - 1
      /\ \A i \in 1..(Len(stack) - 1) : SE!Front(stack)[i] = stack[i] /\ stack[i] # t
  BY <1>1, TopOfStack DEF IInv
<1>3. Types'
  BY <1>1, <1>2 DEF IInv, Types, State
<1>4. OnStack'
  <2>1. stack \in Seq(Task) /\ state \in [Task -> State] /\ OnStack
    BY DEF IInv, Types
  <2>2. ASSUME NEW k \in 1..(Len(stack) - 1)
        PROVE  k \in 1..Len(stack) /\ stack'[k] = stack[k] /\ stack[k] \in Task \ {t}
    <3>1. k \in 1..Len(stack)
      BY <1>2
    <3> QED
      BY <1>1, <1>2, <2>1, <3>1, ElementOfSeq
  <2>3. ASSUME NEW k \in 1..(Len(stack) - 1) PROVE state'[stack'[k]] \in Active
    <3>1. stack'[k] = stack[k] /\ state'[stack[k]] = state[stack[k]]
      BY <1>1, <2>1, <2>2
    <3> QED
      BY <2>1, <2>2, <3>1 DEF OnStack
  <2>4. ASSUME NEW i \in 1..(Len(stack) - 1), NEW j \in 1..(Len(stack) - 1), stack'[i] = stack'[j]
        PROVE  i = j
    BY <2>1, <2>2, <2>4 DEF OnStack
  <2> QED
    BY <1>1, <1>2, <2>3, <2>4 DEF OnStack
<1>5. Awaited' = Awaited
  BY <1>1 DEF IInv, Types, Awaited
<1>6. Fresh'
  BY <1>1 DEF IInv, Types, Fresh
<1>7. FramesOwned'
  BY <1>1, CoroutineConstants DEF IInv, Types, FramesOwned
<1> QED
  BY <1>3, <1>4, <1>5, <1>6, <1>7

(* ... and joins the line, in the middle perhaps.                          *)
LEMMA JoinsLine ==
  ASSUME IInv, NEW t \in Task, Running(t),
         state' = [state EXCEPT ![t] = "suspended"],
         UNCHANGED continuation, Awaited' = Awaited,
         NEW n \in Nat, DOMAIN Line = 1..n, DOMAIN Line' = 1..(n + 1),
         NEW p \in 1..(n + 1),
         \A k \in 1..(n + 1) : Line'[k] = IF k < p THEN Line[k]
                                          ELSE IF k = p THEN t ELSE Line[k - 1]
  PROVE  Once' /\ Placed'
<1>1. /\ \A i \in 1..n : Line[i] # t
      /\ \A c \in Awaited : continuation[c] # t
  BY ActiveNowhere DEF IInv, Running
<1>2. \A i, j \in 1..(n + 1) : Line'[i] = Line'[j] => i = j
  <2> SUFFICES ASSUME NEW i \in 1..(n + 1), NEW j \in 1..(n + 1), Line'[i] = Line'[j]
               PROVE  i = j
    OBVIOUS
  <2> DEFINE old(k) == IF k < p THEN k ELSE k - 1
  <2>1. \A k \in 1..(n + 1) : k # p => old(k) \in 1..n /\ Line'[k] = Line[old(k)]
    OBVIOUS
  <2>2. Line'[p] = t
    OBVIOUS
  <2>3. CASE i = p \/ j = p
    BY <1>1, <2>1, <2>2, <2>3
  <2>4. CASE i # p /\ j # p
    <3>1. /\ old(i) \in DOMAIN Line /\ old(j) \in DOMAIN Line
          /\ Line[old(i)] = Line[old(j)]
      BY <2>1, <2>4
    <3> HIDE DEF old
    <3>2. old(i) = old(j)
      BY <3>1 DEF IInv, Once
    <3> USE DEF old
    <3> QED
      BY <3>2, <2>4
  <2> QED
    BY <2>3, <2>4
<1>3. \A i \in 1..(n + 1) : Line'[i] = t \/ (\E k \in 1..n : Line'[i] = Line[k])
  <2> SUFFICES ASSUME NEW i \in 1..(n + 1) PROVE Line'[i] = t \/ (\E k \in 1..n : Line'[i] = Line[k])
    OBVIOUS
  <2>1. CASE i < p
    BY <2>1
  <2>2. CASE i = p
    BY <2>2
  <2>3. CASE i > p
    <3>1. i - 1 \in 1..n /\ Line'[i] = Line[i - 1]
      BY <2>3
    <3> QED
      BY <3>1
  <2> QED
    BY <2>1, <2>2, <2>3
<1>4. \A k \in 1..n : \E i \in 1..(n + 1) : Line'[i] = Line[k]
  <2> SUFFICES ASSUME NEW k \in 1..n PROVE \E i \in 1..(n + 1) : Line'[i] = Line[k]
    OBVIOUS
  <2>1. CASE k < p
    BY <2>1
  <2>2. CASE k >= p
    <3>1. k + 1 \in 1..(n + 1) /\ Line'[k + 1] = Line[k]
      BY <2>2
    <3> QED
      BY <3>1
  <2> QED
    BY <2>1, <2>2
<1>5. Line'[p] = t
  OBVIOUS
<1>6. Once'
  <2>1. \A c, d \in Awaited' : continuation'[c] = continuation'[d] => c = d
    BY DEF IInv, Once
  <2>2. ASSUME NEW c \in Awaited, NEW i \in 1..(n + 1) PROVE Line'[i] # continuation[c]
    <3>1. \A k \in 1..n : Line[k] # continuation[c]
      BY DEF IInv, Once
    <3> QED
      BY <1>1, <1>3, <3>1
  <2> QED
    BY <1>2, <2>1, <2>2 DEF Once
<1>7. Placed'
  <2> SUFFICES ASSUME NEW s \in Task
               PROVE  state'[s] = "suspended" <=>
                        \/ \E i \in 1..(n + 1) : Line'[i] = s
                        \/ \E c \in Awaited : continuation[c] = s
    BY DEF Placed
  <2>1. CASE s = t
    BY <1>5, <2>1 DEF IInv, Types
  <2>2. CASE s # t
    <3>1. state'[s] = state[s]
      BY <2>2 DEF IInv, Types
    <3>2. (\E i \in 1..(n + 1) : Line'[i] = s) <=> (\E i \in 1..n : Line[i] = s)
      BY <1>3, <1>4, <2>2
    <3> QED
      BY <3>1, <3>2 DEF IInv, Placed
  <2> QED
    BY <2>1, <2>2
<1> QED
  BY <1>6, <1>7

LEMMA YieldInv ==
  ASSUME IInv, NEW t \in Task, Yield(t)
  PROVE  IInv' /\ Joins(t, Len(ready) + 1)
<1> DEFINE n == Len(ready) + Len(timers)
           p == Len(ready) + 1
<1>1. /\ Running(t) /\ Suspend(t) /\ ready' = Append(ready, t)
      /\ UNCHANGED <<owner, outcome, continuation, timers>>
  BY DEF Yield
<1>2. /\ ready' \in Seq(Task) /\ Len(ready') = Len(ready) + 1
      /\ \A k \in 1..Len(ready) : ready'[k] = ready[k]
      /\ ready'[Len(ready) + 1] = t
  BY <1>1, AppendProperties DEF IInv, Types
<1>3. Types' /\ OnStack' /\ Fresh' /\ FramesOwned' /\ Awaited' = Awaited
  BY <1>1, <1>2, SuspendInv DEF IInv, Types
<1>4. /\ Len(ready) \in Nat /\ Len(timers) \in Nat /\ DOMAIN Line = 1..n
      /\ n \in Nat /\ p \in 1..(n + 1)
  BY LineType DEF IInv
<1>5. Line' = [k \in 1..(n + 1) |-> IF k <= Len(ready') THEN ready'[k]
                                    ELSE timers[k - Len(ready')].task]
  BY <1>1, <1>2, <1>4 DEF Line
<1>6. ASSUME NEW k \in 1..(n + 1)
      PROVE  Line'[k] = IF k < p THEN Line[k] ELSE IF k = p THEN t ELSE Line[k - 1]
  <2>1. CASE k < p
    BY <1>2, <1>4, <1>5, <2>1 DEF Line
  <2>2. CASE k = p
    BY <1>2, <1>4, <1>5, <2>2
  <2>3. CASE k > p
    <3>1. Line'[k] = timers[k - p].task
      BY <1>2, <1>4, <1>5, <2>3
    <3>2. k - 1 \in 1..n /\ ~(k - 1 <= Len(ready)) /\ k - 1 - Len(ready) = k - p
      BY <1>4, <2>3
    <3>3. Line[k - 1] = timers[k - 1 - Len(ready)].task
      BY <3>2 DEF Line
    <3> QED
      BY <1>4, <2>3, <3>1, <3>2, <3>3
  <2> QED
    BY <1>4, <2>1, <2>2, <2>3
<1>7. DOMAIN Line' = 1..(n + 1)
  BY <1>5
<1>8. Joins(t, p)
  BY <1>4, <1>6, <1>7 DEF Joins
<1> HIDE DEF n, p
<1>9. IInv'
  BY <1>1, <1>3, <1>4, <1>6, <1>7, JoinsLine DEF IInv, Suspend
<1> QED
  BY <1>8, <1>9 DEF p

-----------------------------------------------------------------------------
(* Timers.                                                                 *)
Timer == [task : Task, left : Nat]

LEMMA SoonerType ==
  ASSUME NEW ts \in Seq(Timer), NEW d \in Nat
  PROVE  /\ Sooner(ts, d) \in 0..Len(ts)
         /\ (\E k \in 1..Len(ts) : ts[k].left <= d) => Sooner(ts, d) # 0
<1> DEFINE D == {k \in DOMAIN ts : ts[k].left <= d}
<1>1. Len(ts) \in Nat /\ DOMAIN ts = 1..Len(ts)
  BY LenProperties
<1>2. IsFiniteSet(1..Len(ts)) /\ Cardinality(1..Len(ts)) = Len(ts)
  BY <1>1, FS_Interval
<1>3. D \in SUBSET (1..Len(ts))
  <2>1. \A k \in D : k \in DOMAIN ts
    BY Zenon
  <2> HIDE DEF D
  <2> QED
    BY <1>1, <2>1
<1>4. IsFiniteSet(D) /\ Cardinality(D) <= Len(ts)
  BY <1>2, <1>3, FS_Subset
<1>5. Cardinality(D) \in Nat
  BY <1>4, FS_CardinalityType
<1>6. Cardinality(D) = 0 <=> D = {}
  BY <1>4, FS_EmptySet
<1> QED
  BY <1>1, <1>4, <1>5, <1>6 DEF Sooner

LEMMA SmallestOf ==
  ASSUME NEW S \in SUBSET Nat, S # {}
  PROVE  \E i \in S : \A j \in S : i <= j
<1>1. PICK i \in S : \A j \in S : ~(<<j, i>> \in OpToRel(<, Nat))
  BY NatLessThanWellFounded, WFMin
<1>2. ASSUME NEW j \in S PROVE i <= j
  <2>1. i \in Nat /\ j \in Nat
    OBVIOUS
  <2>2. <<j, i>> \in Nat \X Nat /\ <<j, i>>[1] = j /\ <<j, i>>[2] = i
    BY <2>1
  <2>3. ~(j < i)
    BY <1>1, <2>2, Zenon DEF OpToRel
  <2> QED
    BY <2>1, <2>3
<1> QED
  BY <1>2

(* Those that are due in d come first.                                     *)
LEMMA SoonerSplits ==
  ASSUME NEW ts \in Seq(Timer), NEW d \in Nat, Sorted(ts)
  PROVE  \A k \in 1..Len(ts) : ts[k].left <= d <=> k <= Sooner(ts, d)
<1> DEFINE n == Len(ts)
           A == {k \in DOMAIN ts : ts[k].left <= d}
           B == (1..n) \ A
<1>1. n \in Nat /\ DOMAIN ts = 1..n /\ A \subseteq 1..n
      /\ \A k \in 1..n : ts[k].left \in Nat
  <2>1. n \in Nat /\ DOMAIN ts = 1..n
    BY LenProperties
  <2>2. \A k \in 1..n : ts[k] \in Timer
    BY ElementOfSeq
  <2> QED
    BY <2>1, <2>2 DEF Timer
<1>2. \E m \in 0..n : A = 1..m
  <2>1. CASE B = {}
    <3>1. A = 1..n /\ n \in 0..n
      BY <1>1, <2>1
    <3> QED
      BY <3>1
  <2>2. CASE B # {}
    <3>1. PICK i \in B : \A j \in B : i <= j
      <4>1. B \in SUBSET Nat
        BY <1>1
      <4> HIDE DEF B
      <4> QED
        BY <4>1, <2>2, SmallestOf
    <3> DEFINE C == {j \in A : i < j}
    <3>2. CASE C # {}
      <4>1. C \in SUBSET Nat
        BY <1>1
      <4> HIDE DEF C
      <4>2. PICK j \in C : \A k \in C : j <= k
        BY <4>1, <3>2, SmallestOf
      <4> USE DEF C
      <4>3. j \in 2..n /\ j - 1 \in 1..n /\ i <= j - 1 /\ ts[j].left <= d
        BY <1>1, <3>1, <4>2
      <4>4. ts[j - 1].left <= ts[j].left
        BY <4>3 DEF Sorted
      <4>5. j - 1 \in A
        BY <1>1, <4>3, <4>4
      <4>6. j - 1 # i
        BY <3>1, <4>5
      <4>7. j - 1 \in C
        BY <1>1, <3>1, <4>3, <4>5, <4>6
      <4> QED
        BY <1>1, <4>2, <4>3, <4>7
    <3>3. CASE C = {}
      <4>1. A = 1..(i - 1)
        BY <1>1, <3>1, <3>3
      <4> QED
        BY <1>1, <3>1, <4>1
    <3> QED
      BY <3>2, <3>3
  <2> QED
    BY <2>1, <2>2
<1>3. PICK m \in 0..n : A = 1..m
  BY <1>2
<1>4. Sooner(ts, d) = m
  <2>1. Cardinality(1..m) = m
    BY FS_Interval
  <2> QED
    BY <1>3, <2>1 DEF Sooner
<1>5. ASSUME NEW k \in 1..n PROVE ts[k].left <= d <=> k <= m
  <2>1. ts[k].left <= d <=> k \in A
    BY <1>1
  <2> QED
    BY <1>1, <1>3, <2>1
<1> QED
  BY <1>4, <1>5

LEMMA InsertAtProperties ==
  ASSUME NEW S, NEW s \in Seq(S), NEW i \in 1..(Len(s) + 1), NEW e \in S
  PROVE  /\ SE!InsertAt(s, i, e) \in Seq(S)
         /\ Len(SE!InsertAt(s, i, e)) = Len(s) + 1
         /\ \A k \in 1..(Len(s) + 1) :
              SE!InsertAt(s, i, e)[k] = IF k < i THEN s[k] ELSE IF k = i THEN e ELSE s[k - 1]
<1> DEFINE a == SubSeq(s, 1, i - 1)
           b == SubSeq(s, i, Len(s))
<1>1. Len(s) \in Nat /\ i \in Int /\ i >= 1 /\ i <= Len(s) + 1
  BY LenProperties
<1>2. \A k \in 1..Len(s) : s[k] \in S
  BY ElementOfSeq
<1>3. a \in Seq(S) /\ Len(a) = i - 1 /\ (\A k \in 1..(i - 1) : a[k] = s[k])
  BY <1>1, <1>2
<1>4. b \in Seq(S) /\ Len(b) = Len(s) - i + 1 /\ (\A k \in 1..(Len(s) - i + 1) : b[k] = s[i + k - 1])
  BY <1>1, <1>2
<1> HIDE DEF a, b
<1>5. /\ <<e>> \in Seq(S) /\ Len(<<e>>) = 1 /\ <<e>>[1] = e
  OBVIOUS
<1>6. /\ a \o <<e>> \in Seq(S) /\ Len(a \o <<e>>) = i
      /\ \A k \in 1..i : (a \o <<e>>)[k] = IF k < i THEN s[k] ELSE e
  BY <1>1, <1>3, <1>5
<1> DEFINE c == a \o <<e>>
           f == c \o b
<1>7. c \in Seq(S) /\ Len(c) = i /\ \A k \in 1..i : c[k] = IF k < i THEN s[k] ELSE e
  BY <1>6
<1> HIDE DEF c
<1>8. /\ f \in Seq(S) /\ Len(f) = Len(c) + Len(b)
      /\ \A k \in 1..(Len(c) + Len(b)) : f[k] = IF k <= Len(c) THEN c[k] ELSE b[k - Len(c)]
  BY <1>4, <1>7, ConcatProperties
<1>9. Len(c) + Len(b) = Len(s) + 1
  BY <1>1, <1>4, <1>7
<1> HIDE DEF f
<1>10. ASSUME NEW k \in 1..(Len(s) + 1)
       PROVE  f[k] = IF k < i THEN s[k] ELSE IF k = i THEN e ELSE s[k - 1]
  <2>1. CASE k <= i
    BY <1>1, <1>7, <1>8, <1>9, <2>1
  <2>2. CASE ~(k <= i)
    <3>1. /\ k - i \in 1..(Len(s) - i + 1) /\ i + (k - i) - 1 = k - 1
          /\ ~(k < i) /\ k # i
      BY <1>1, <2>2
    <3>2. f[k] = b[k - i]
      BY <1>7, <1>8, <1>9, <2>2
    <3> QED
      BY <1>4, <3>1, <3>2
  <2> QED
    BY <2>1, <2>2
<1>11. SE!InsertAt(s, i, e) = f
  BY DEF SE!InsertAt, a, b, c, f
<1> QED
  BY <1>8, <1>9, <1>10, <1>11

LEMMA SleepInv ==
  ASSUME IInv, NEW t \in Task, NEW d \in 1..MaxSleep, Sleep(t, d)
  PROVE  /\ IInv' /\ (InOrder(timers) => InOrder(timers)')
         /\ \E p \in Nat :
              /\ Joins(t, p)
              /\ InOrder(timers) =>
                   \A j \in 1..Len(timers) : timers[j].left <= d => Len(ready) + j < p
         /\ \A k \in DOMAIN timers' : \/ timers'[k].left = d
                                       \/ \E j \in 1..Len(timers) : timers'[k] = timers[j]
<1> DEFINE n == Len(ready) + Len(timers)
           e == [task |-> t, left |-> d]
           i == Sooner(timers, d) + 1
           p == Len(ready) + i
<1>1. /\ Running(t) /\ Suspend(t) /\ timers' = SE!InsertAt(timers, i, e)
      /\ UNCHANGED <<owner, outcome, continuation, ready>>
  BY DEF Sleep, WithTimer
<1>2. d \in Nat /\ e \in Timer /\ timers \in Seq(Timer)
  BY CoroutineConstants DEF IInv, Types, Timer
<1>3. /\ Len(ready) \in Nat /\ Len(timers) \in Nat /\ DOMAIN Line = 1..n /\ n \in Nat
  BY LineType DEF IInv
<1>4. i \in 1..(Len(timers) + 1) /\ p \in 1..(n + 1)
  <2>1. Sooner(timers, d) \in 0..Len(timers)
    BY <1>2, SoonerType
  <2> QED
    BY <1>3, <2>1
<1> HIDE DEF i, e
<1>5. /\ timers' \in Seq(Timer) /\ Len(timers') = Len(timers) + 1
      /\ \A k \in 1..(Len(timers) + 1) :
           timers'[k] = IF k < i THEN timers[k] ELSE IF k = i THEN e ELSE timers[k - 1]
  <2>1. PICK ts, j, x : ts = timers /\ j = i /\ x = e
    OBVIOUS
  <2>2. ts \in Seq(Timer) /\ j \in 1..(Len(ts) + 1) /\ x \in Timer
    BY <1>2, <1>4, <2>1
  <2>3. /\ SE!InsertAt(ts, j, x) \in Seq(Timer)
        /\ Len(SE!InsertAt(ts, j, x)) = Len(ts) + 1
        /\ \A k \in 1..(Len(ts) + 1) :
             SE!InsertAt(ts, j, x)[k] = IF k < j THEN ts[k] ELSE IF k = j THEN x ELSE ts[k - 1]
    BY <2>2, InsertAtProperties
  <2> QED
    BY <1>1, <2>1, <2>3
<1>6. Types' /\ OnStack' /\ Fresh' /\ FramesOwned' /\ Awaited' = Awaited
  BY <1>1, <1>5, SuspendInv DEF IInv, Types, Timer
<1>7. Line' = [k \in 1..(n + 1) |-> IF k <= Len(ready) THEN ready[k]
                                    ELSE timers'[k - Len(ready)].task]
  BY <1>1, <1>3, <1>5 DEF Line
<1>8. ASSUME NEW k \in 1..(n + 1)
      PROVE  Line'[k] = IF k < p THEN Line[k] ELSE IF k = p THEN t ELSE Line[k - 1]
  <2>1. CASE k <= Len(ready)
    <3>1. k < p /\ k \in 1..n
      BY <1>3, <1>4, <2>1
    <3> QED
      BY <1>7, <2>1, <3>1 DEF Line
  <2>2. CASE k > Len(ready)
    <3> DEFINE j == k - Len(ready)
    <3>1. /\ j \in 1..(Len(timers) + 1) /\ Line'[k] = timers'[j].task
          /\ (k < p <=> j < i) /\ (k = p <=> j = i)
      BY <1>3, <1>4, <1>7, <2>2
    <3>2. CASE j < i
      <4>1. k \in 1..n /\ Line[k] = timers[j].task
        BY <1>3, <1>4, <2>2, <3>1, <3>2 DEF Line
      <4> QED
        BY <1>5, <3>1, <3>2, <4>1
    <3>3. CASE j = i
      <4>1. timers'[j] = e
        BY <1>5, <3>1, <3>3
      <4> QED
        BY <3>1, <3>3, <4>1 DEF e
    <3>4. CASE j > i
      <4>1. /\ k - 1 \in 1..n /\ ~(k - 1 <= Len(ready)) /\ k - 1 - Len(ready) = j - 1
            /\ ~(j < i) /\ j # i
        BY <1>3, <1>4, <2>2, <3>1, <3>4
      <4>2. Line[k - 1] = timers[j - 1].task
        BY <4>1 DEF Line
      <4>3. timers'[j] = timers[j - 1]
        BY <1>5, <3>1, <4>1
      <4> QED
        BY <3>1, <4>1, <4>2, <4>3
    <3> QED
      BY <1>4, <3>1, <3>2, <3>3, <3>4
  <2> QED
    BY <1>3, <2>1, <2>2
<1>9. DOMAIN Line' = 1..(n + 1)
  BY <1>7
<1>10. ASSUME InOrder(timers) PROVE InOrder(timers')
  <2>1. \A k \in 1..Len(timers) : timers[k].left \in Nat /\ (timers[k].left <= d <=> k < i)
    <3>1. \A k \in 1..Len(timers) : timers[k].left <= d <=> k <= Sooner(timers, d)
      BY <1>2, <1>10, SoonerSplits DEF InOrder
    <3>2. \A k \in 1..Len(timers) : timers[k] \in Timer
      BY <1>2, ElementOfSeq
    <3>3. Sooner(timers, d) \in Nat /\ i = Sooner(timers, d) + 1
      BY <1>2, SoonerType DEF i
    <3> QED
      BY <3>1, <3>2, <3>3 DEF Timer
  <2>2. e.left = d /\ d <= MaxSleep /\ i \in 1..(Len(timers) + 1)
    BY <1>4 DEF e
  <2>3. ASSUME NEW k \in 2..(Len(timers) + 1) PROVE timers'[k - 1].left <= timers'[k].left
    <3>1. k - 1 \in 1..Len(timers) /\ k - 1 \in 1..(Len(timers) + 1) /\ k \in 1..(Len(timers) + 1)
      BY <1>3
    <3>2. CASE k < i
      <4>1. timers'[k - 1] = timers[k - 1] /\ timers'[k] = timers[k] /\ k \in 2..Len(timers)
        BY <1>3, <1>5, <2>2, <3>1, <3>2
      <4> QED
        BY <1>10, <4>1 DEF InOrder, Sorted
    <3>3. CASE k = i
      <4>1. timers'[k - 1] = timers[k - 1] /\ timers'[k] = e /\ k - 1 < i
        BY <1>5, <3>1, <3>3
      <4> QED
        BY <2>1, <2>2, <3>1, <4>1
    <3>4. CASE k - 1 = i
      <4>1. timers'[k - 1] = e /\ timers'[k] = timers[k - 1] /\ ~(k - 1 < i)
        BY <1>5, <2>2, <3>1, <3>4
      <4> QED
        BY <1>2, <2>1, <2>2, <3>1, <4>1
    <3>5. CASE k - 1 > i
      <4>1. /\ timers'[k - 1] = timers[k - 1 - 1] /\ timers'[k] = timers[k - 1]
            /\ k - 1 \in 2..Len(timers)
        BY <1>3, <1>5, <2>2, <3>1, <3>5
      <4> QED
        BY <1>10, <4>1 DEF InOrder, Sorted
    <3> QED
      BY <2>2, <3>2, <3>3, <3>4, <3>5
  <2>4. ASSUME NEW k \in 1..(Len(timers) + 1) PROVE timers'[k].left <= MaxSleep
    <3>1. CASE k < i
      <4>1. timers'[k] = timers[k] /\ k \in 1..Len(timers)
        BY <1>3, <1>5, <2>2, <3>1
      <4> QED
        BY <1>10, <4>1 DEF InOrder
    <3>2. CASE k = i
      BY <1>5, <2>2, <3>2
    <3>3. CASE k > i
      <4>1. timers'[k] = timers[k - 1] /\ k - 1 \in 1..Len(timers)
        BY <1>3, <1>5, <2>2, <3>3
      <4> QED
        BY <1>10, <4>1 DEF InOrder
    <3> QED
      BY <2>2, <3>1, <3>2, <3>3
  <2> QED
    BY <1>3, <1>5, <2>3, <2>4 DEF InOrder, Sorted
<1>11. Joins(t, p) /\ p \in Nat
  BY <1>3, <1>4, <1>8, <1>9 DEF Joins
<1>12. ASSUME InOrder(timers), NEW j \in 1..Len(timers), timers[j].left <= d
       PROVE  Len(ready) + j < p
  <2>1. j <= Sooner(timers, d) /\ Sooner(timers, d) \in Nat
    BY <1>2, <1>12, SoonerSplits, SoonerType DEF InOrder
  <2> QED
    BY <1>3, <2>1 DEF i
<1>13. ASSUME NEW k \in DOMAIN timers'
       PROVE  timers'[k].left = d \/ \E j \in 1..Len(timers) : timers'[k] = timers[j]
  <2>1. k \in 1..(Len(timers) + 1)
    BY <1>5, LenProperties
  <2>2. CASE k < i
    BY <1>3, <1>4, <1>5, <2>1, <2>2
  <2>3. CASE k = i
    BY <1>5, <2>1, <2>3 DEF e
  <2>4. CASE k > i
    <3>1. k - 1 \in 1..Len(timers) /\ timers'[k] = timers[k - 1]
      BY <1>3, <1>4, <1>5, <2>1, <2>4
    <3> QED
      BY <3>1
  <2> QED
    BY <1>4, <2>1, <2>2, <2>3, <2>4
<1> HIDE DEF n, p
<1>14. IInv'
  BY <1>1, <1>3, <1>4, <1>6, <1>8, <1>9, JoinsLine DEF IInv, Suspend
<1> QED
  BY <1>10, <1>11, <1>12, <1>13, <1>14

-----------------------------------------------------------------------------
(* A coroutine ends: the tasks it holds go, and who awaits it goes on.     *)
LEMMA FinishInv ==
  ASSUME IInv, NEW t \in Task, Finish(t)
  PROVE  /\ IInv' /\ Awaited' = Awaited \ {t}
         /\ ActiveOnStack => ActiveOnStack'
<1> DEFINE x == continuation[t]
<1>1. /\ Executes(t)
      /\ \A c \in Held(t) : state[c] \in {"created", "done"}
      /\ outcome' \in [Task -> {"none", "value", "exception"}]
      /\ state' = [s \in Task |-> IF s = t THEN "done"
                                  ELSE IF s \in Held(t) THEN "gone"
                                  ELSE IF s \in SE!ToSet(AfterFinal(t)) THEN AfterTake(t)
                                  ELSE state[s]]
      /\ stack' = SE!Front(stack) \o AfterFinal(t)
      /\ UNCHANGED <<owner, continuation, ready, timers>>
  BY DEF Finish, Freed, IInv, Types
<1>2. Line' = Line
  BY <1>1, LineUnchanged
<1>3. /\ state[t] \in Active
      /\ Len(stack) \in Nat /\ Len(stack) >= 1
      /\ SE!Front(stack) \in Seq(Task)
      /\ Len(SE!Front(stack)) = Len(stack) - 1
      /\ \A i \in 1..(Len(stack) - 1) : SE!Front(stack)[i] = stack[i] /\ stack[i] # t
  BY <1>1, TopOfStack DEF IInv
<1>4. AfterTake(t) \in Active
  BY DEF AfterTake, Active
<1>5. x # None => t \in Awaited /\ x \in Task /\ state[x] = "suspended"
  <2>1. t \notin {None} /\ state[t] \notin {"done", "gone"}
    BY <1>3, CoroutineConstants DEF Active
  <2> QED
    BY <2>1 DEF IInv, Types, Placed, Awaited
<1>6. SE!ToSet(AfterFinal(t)) = IF x = None THEN {} ELSE {x}
  <2>1. CASE x = None
    BY <2>1 DEF AfterFinal, SE!ToSet
  <2>2. CASE x # None
    <3>1. AfterFinal(t) = <<x>>
      BY <2>2 DEF AfterFinal
    <3> QED
      BY <3>1, <2>2 DEF SE!ToSet
  <2> QED
    BY <2>1, <2>2
<1>7. t \notin Held(t)
  BY <1>1, <1>3 DEF Active
<1>8. /\ state'[t] = "done"
      /\ \A s \in Held(t) : state'[s] = "gone"
      /\ x # None => state'[x] \in Active
      /\ \A s \in Task : s # t /\ s \notin Held(t) /\ s # x => state'[s] = state[s]
  <2>1. x # None => x # t /\ x \notin Held(t) /\ x \in SE!ToSet(AfterFinal(t))
    BY <1>1, <1>3, <1>5, <1>6 DEF Active
  <2>2. \A s \in Task : s # x => s \notin SE!ToSet(AfterFinal(t))
    BY <1>6
  <2>3. Held(t) \subseteq Task
    BY DEF Held
  <2> HIDE DEF x
  <2> QED
    BY <1>1, <1>4, <1>5, <1>7, <2>1, <2>2, <2>3
<1>9. Types'
  <2>1. state' \in [Task -> State]
    BY <1>1, <1>4 DEF IInv, Types, State, Active
  <2>2. AfterFinal(t) \in Seq(Task)
    BY <1>5 DEF AfterFinal
  <2>3. stack' \in Seq(Task)
    BY <1>1, <1>3, <2>2, ConcatProperties
  <2> QED
    BY <1>1, <2>1, <2>3 DEF IInv, Types
<1> HIDE DEF x
<1>10. \A c \in Held(t) : c \in Task /\ c \notin Awaited
  BY <1>1 DEF IInv, Fresh, Awaited, Held
<1>11. Awaited' = Awaited \ {t}
  <2>1. ASSUME NEW c \in Task PROVE c \in Awaited' <=> c \in Awaited /\ c # t
    <3>1. CASE c = t
      BY <1>8, <3>1 DEF Awaited
    <3>2. CASE c \in Held(t)
      BY <1>7, <1>8, <1>10, <3>2 DEF Awaited
    <3>3. CASE c = x /\ c # t
      BY <1>1, <1>5, <1>8, <3>3, CoroutineConstants DEF Awaited, Active
    <3>4. CASE c # t /\ c \notin Held(t) /\ c # x
      BY <1>1, <1>8, <3>4 DEF Awaited
    <3> QED
      BY <3>1, <3>2, <3>3, <3>4
  <2> QED
    BY <2>1 DEF Awaited
<1>12. OnStack'
  <2>1. ASSUME NEW i \in 1..(Len(stack) - 1)
        PROVE  /\ stack[i] \in Task /\ stack[i] # t /\ stack[i] # x
               /\ state'[stack[i]] \in Active
    <3>1. i \in 1..Len(stack)
      BY <1>3
    <3>2. stack[i] \in Task /\ stack[i] # t /\ state[stack[i]] \in Active
      BY <1>3, <3>1, ElementOfSeq DEF IInv, Types, OnStack
    <3>3. stack[i] # x /\ stack[i] \notin Held(t)
      BY <1>1, <1>5, <3>2, CoroutineConstants DEF Active
    <3> QED
      BY <1>8, <3>2, <3>3
  <2>2. CASE x = None
    <3>1. stack' = SE!Front(stack)
      BY <1>1, <1>3, <2>2, ConcatEmptySeq DEF AfterFinal, x
    <3> QED
      BY <1>3, <2>1, <3>1 DEF IInv, OnStack
  <2>3. CASE x # None
    <3>1. <<x>> \in Seq(Task) /\ Len(<<x>>) = 1 /\ <<x>>[1] = x
      BY <1>5, <2>3
    <3>2. stack' = SE!Front(stack) \o <<x>>
      BY <1>1, <2>3 DEF AfterFinal, x
    <3>3. /\ Len(stack') = Len(stack)
          /\ \A i \in 1..(Len(stack) - 1) : stack'[i] = stack[i]
          /\ stack'[Len(stack)] = x
      BY <1>3, <3>1, <3>2
    <3>4. \A i \in 1..Len(stack') : state'[stack'[i]] \in Active
      BY <1>3, <1>8, <2>1, <2>3, <3>3
    <3>5. \A i, j \in 1..Len(stack') : stack'[i] = stack'[j] => i = j
      BY <1>3, <2>1, <3>3 DEF IInv, OnStack
    <3> QED
      BY <3>4, <3>5 DEF OnStack
  <2> QED
    BY <2>2, <2>3
<1>13. Once'
  BY <1>1, <1>2, <1>11 DEF IInv, Once
<1>14. Placed'
  <2> SUFFICES ASSUME NEW s \in Task
               PROVE  state'[s] = "suspended" <=>
                        \/ \E i \in DOMAIN Line : Line[i] = s
                        \/ \E c \in Awaited \ {t} : continuation[c] = s
    BY <1>1, <1>2, <1>11 DEF Placed
  <2>1. CASE s = x
    <3>1. t \in Awaited /\ continuation[t] = s
      BY <1>5, <2>1, CoroutineConstants DEF x
    <3>2. /\ \A i \in DOMAIN Line : Line[i] # s
          /\ \A c \in Awaited \ {t} : continuation[c] # s
      BY <3>1 DEF IInv, Once
    <3> QED
      BY <1>8, <2>1, <3>2, CoroutineConstants DEF Active
  <2>2. CASE s # x /\ (s = t \/ s \in Held(t))
    <3>1. state[s] # "suspended" /\ state'[s] # "suspended"
      BY <1>1, <1>3, <1>8, <2>2 DEF Active
    <3> QED
      BY <3>1, ActiveNowhere DEF IInv
  <2>3. CASE s # x /\ s # t /\ s \notin Held(t)
    <3>1. continuation[t] # s
      BY <2>3 DEF x
    <3> QED
      BY <1>8, <2>3, <3>1 DEF IInv, Placed
  <2> QED
    BY <2>1, <2>2, <2>3
<1>15. Fresh'
  <2> SUFFICES ASSUME NEW c \in Task, state'[c] \in {"none", "created"}
               PROVE  continuation[c] = None
    BY <1>1 DEF Fresh
  <2>1. state[c] = state'[c]
    BY <1>8, CoroutineConstants DEF Active
  <2> QED
    BY <2>1 DEF IInv, Fresh
<1>16. FramesOwned'
  <2> SUFFICES ASSUME NEW s \in Task, state'[s] \notin {"none", "gone"}, owner[s] # None
               PROVE  state'[owner[s]] \in {"running", "raising", "suspended"}
    BY <1>1 DEF FramesOwned
  <2>1. state[s] \notin {"none", "gone"}
    BY <1>3, <1>5, <1>8, CoroutineConstants DEF Active
  <2>2. /\ owner[s] \in Task
        /\ state[owner[s]] \in {"running", "raising", "suspended"}
    BY <2>1 DEF IInv, Types, FramesOwned
  <2>3. owner[s] # t
    BY <1>8, <2>1 DEF Held
  <2>4. owner[s] \notin Held(t)
    BY <1>1, <2>2
  <2> QED
    BY <1>8, <2>2, <2>3, <2>4, CoroutineConstants DEF Active
<1>17. ASSUME ActiveOnStack PROVE ActiveOnStack'
  <2> SUFFICES ASSUME NEW s \in Task, state'[s] \in Active
               PROVE  \E i \in 1..Len(stack') : stack'[i] = s
    BY DEF ActiveOnStack
  <2>1. /\ Len(stack') = IF x = None THEN Len(stack) - 1 ELSE Len(stack)
        /\ \A i \in 1..(Len(stack) - 1) : stack'[i] = stack[i]
        /\ x # None => stack'[Len(stack)] = x
    <3>1. CASE x = None
      <4>1. stack' = SE!Front(stack)
        BY <1>1, <1>3, <3>1, ConcatEmptySeq DEF AfterFinal, x
      <4> QED
        BY <1>3, <3>1, <4>1
    <3>2. CASE x # None
      <4>1. <<x>> \in Seq(Task) /\ Len(<<x>>) = 1 /\ <<x>>[1] = x
        BY <1>5, <3>2
      <4>2. stack' = SE!Front(stack) \o <<x>>
        BY <1>1, <3>2 DEF AfterFinal, x
      <4> QED
        BY <1>3, <3>2, <4>1, <4>2
    <3> QED
      BY <3>1, <3>2
  <2>2. s # t /\ s \notin Held(t)
    BY <1>8 DEF Active
  <2>3. CASE s = x
    BY <1>3, <2>1, <2>3, CoroutineConstants
  <2>4. CASE s # x
    <3>1. PICK i \in 1..Len(stack) : stack[i] = s
      BY <1>8, <1>17, <2>2, <2>4 DEF ActiveOnStack
    <3>2. i # Len(stack)
      BY <1>1, <1>3, <2>2, <3>1 DEF Executes, SE!Last
    <3>3. i \in 1..(Len(stack) - 1)
      BY <1>3, <3>2
    <3> QED
      BY <1>3, <2>1, <3>1, <3>3
  <2> QED
    BY <2>3, <2>4
<1> QED
  BY <1>9, <1>11, <1>12, <1>13, <1>14, <1>15, <1>16, <1>17 DEF IInv

-----------------------------------------------------------------------------
(* run() resumes the head of the line.                                     *)
LEMMA LeavesLine ==
  ASSUME IInv, Types', NEW n \in Nat \ {0}, NEW t \in Task,
         DOMAIN Line = 1..n, DOMAIN Line' = 1..(n - 1), Line[1] = t,
         \A k \in 1..(n - 1) : Line'[k] = Line[k + 1],
         stack' = <<t>>, state' = [state EXCEPT ![t] = "running"],
         stack = <<>>, UNCHANGED <<owner, outcome, continuation>>
  PROVE  IInv'
<1>1. 1 \in 1..n
  OBVIOUS
<1>2. state[t] = "suspended"
  BY <1>1 DEF IInv, Placed
<1>3. Awaited' = Awaited
  BY <1>2 DEF IInv, Types, Awaited
<1>4. OnStack'
  <2>1. Len(stack') = 1 /\ stack'[1] = t /\ state'[t] = "running"
    BY DEF IInv, Types
  <2> QED
    BY <2>1 DEF OnStack, Active
<1>5. Once'
  <2>1. \A i, j \in 1..(n - 1) : Line'[i] = Line'[j] => i = j
    <3> SUFFICES ASSUME NEW i \in 1..(n - 1), NEW j \in 1..(n - 1), Line'[i] = Line'[j]
                 PROVE  i = j
      OBVIOUS
    <3>1. i + 1 \in 1..n /\ j + 1 \in 1..n /\ Line[i + 1] = Line[j + 1]
      OBVIOUS
    <3>2. i + 1 = j + 1
      BY <3>1 DEF IInv, Once
    <3> QED
      BY <3>2
  <2>2. ASSUME NEW c \in Awaited, NEW i \in 1..(n - 1) PROVE Line'[i] # continuation[c]
    <3>1. i + 1 \in 1..n /\ Line'[i] = Line[i + 1]
      OBVIOUS
    <3> QED
      BY <3>1 DEF IInv, Once
  <2> QED
    BY <1>3, <2>1, <2>2 DEF IInv, Once
<1>6. Placed'
  <2> SUFFICES ASSUME NEW s \in Task
               PROVE  state'[s] = "suspended" <=>
                        \/ \E i \in 1..(n - 1) : Line'[i] = s
                        \/ \E c \in Awaited : continuation[c] = s
    BY <1>3 DEF Placed
  <2>1. CASE s = t
    <3>1. \A i \in 1..(n - 1) : Line'[i] # t
      <4> SUFFICES ASSUME NEW i \in 1..(n - 1), Line'[i] = t PROVE FALSE
        OBVIOUS
      <4>1. i + 1 \in 1..n /\ Line[i + 1] = Line[1]
        OBVIOUS
      <4>2. i + 1 = 1
        BY <1>1, <4>1 DEF IInv, Once
      <4> QED
        BY <4>2
    <3>2. \A c \in Awaited : continuation[c] # t
      BY <1>1 DEF IInv, Once
    <3> QED
      BY <2>1, <3>1, <3>2 DEF IInv, Types
  <2>2. CASE s # t
    <3>1. state'[s] = state[s]
      BY <2>2 DEF IInv, Types
    <3>2. ASSUME NEW i \in 1..n, Line[i] = s PROVE \E k \in 1..(n - 1) : Line'[k] = s
      <4>1. i # 1
        BY <2>2, <3>2
      <4>2. i - 1 \in 1..(n - 1) /\ (i - 1) + 1 = i
        BY <4>1
      <4>3. Line'[i - 1] = Line[i]
        BY <4>2
      <4> QED
        BY <3>2, <4>2, <4>3
    <3>3. ASSUME NEW k \in 1..(n - 1), Line'[k] = s PROVE \E i \in 1..n : Line[i] = s
      <4>1. k + 1 \in 1..n /\ Line[k + 1] = s
        BY <3>3
      <4> QED
        BY <4>1
    <3> QED
      BY <3>1, <3>2, <3>3 DEF IInv, Placed
  <2> QED
    BY <2>1, <2>2
<1>7. Fresh'
  BY DEF IInv, Types, Fresh
<1>8. FramesOwned'
  BY <1>2, CoroutineConstants DEF IInv, Types, FramesOwned
<1> QED
  BY <1>4, <1>5, <1>6, <1>7, <1>8 DEF IInv

LEMMA ElapsedType ==
  ASSUME NEW ts \in Seq(Timer), NEW d \in Nat
  PROVE  /\ Elapsed(ts, d) \in Seq(Timer) /\ Len(Elapsed(ts, d)) = Len(ts)
         /\ \A k \in 1..Len(ts) :
              /\ Elapsed(ts, d)[k].task = ts[k].task
              /\ Elapsed(ts, d)[k].left = IF ts[k].left > d THEN ts[k].left - d ELSE 0
<1> DEFINE e == Elapsed(ts, d)
<1>1. Len(ts) \in Nat /\ DOMAIN ts = 1..Len(ts) /\ \A k \in 1..Len(ts) : ts[k] \in Timer
  BY LenProperties, ElementOfSeq
<1>2. e = [k \in 1..Len(ts) |-> [ts[k] EXCEPT !.left = IF @ > d THEN @ - d ELSE 0]]
  BY <1>1 DEF Elapsed
<1>3. ASSUME NEW k \in 1..Len(ts)
      PROVE  /\ e[k] \in Timer /\ e[k].task = ts[k].task
             /\ e[k].left = IF ts[k].left > d THEN ts[k].left - d ELSE 0
  <2>1. ts[k] \in Timer
    BY <1>1
  <2>2. e[k] = [ts[k] EXCEPT !.left = IF @ > d THEN @ - d ELSE 0]
    BY <1>2
  <2> QED
    BY <2>1, <2>2 DEF Timer
<1> HIDE DEF e
<1>4. e \in [1..Len(ts) -> Timer]
  BY <1>2, <1>3
<1>5. e \in Seq(Timer) /\ Len(e) = Len(ts)
  BY <1>1, <1>4, IsASeq, LenProperties
<1> QED
  BY <1>3, <1>5 DEF e

(* Time leaves the timers in order.                                        *)
LEMMA ElapsedInOrder ==
  ASSUME NEW ts \in Seq(Timer), NEW d \in Nat, InOrder(ts)
  PROVE  InOrder(Elapsed(ts, d))
<1> DEFINE e == Elapsed(ts, d)
<1>1. /\ Len(ts) \in Nat /\ Len(e) = Len(ts)
      /\ \A k \in 1..Len(ts) : e[k].left = IF ts[k].left > d THEN ts[k].left - d ELSE 0
  BY ElapsedType, LenProperties
<1>2. \A k \in 1..Len(ts) : ts[k].left \in Nat
  <2>1. \A k \in 1..Len(ts) : ts[k] \in Timer
    BY ElementOfSeq
  <2> QED
    BY <2>1 DEF Timer
<1> HIDE DEF e
<1>3. ASSUME NEW k \in 2..Len(e) PROVE e[k - 1].left <= e[k].left
  <2>1. k \in 1..Len(ts) /\ k - 1 \in 1..Len(ts) /\ k \in 2..Len(ts)
    BY <1>1
  <2>2. ts[k - 1].left <= ts[k].left
    BY <2>1 DEF InOrder, Sorted
  <2> QED
    BY <1>1, <1>2, <2>1, <2>2
<1>4. ASSUME NEW k \in 1..Len(e) PROVE e[k].left <= MaxSleep
  <2>1. k \in 1..Len(ts) /\ ts[k].left <= MaxSleep
    BY <1>1 DEF InOrder
  <2> QED
    BY <1>1, <1>2, <2>1, CoroutineConstants
<1> QED
  BY <1>3, <1>4 DEF InOrder, Sorted, e

LEMMA IterateInv ==
  ASSUME IInv, stack = <<>>, Len(ready) + Len(timers) > 0,
         NEW late \in 0..MaxSleep, Iterate(late)
  PROVE  /\ IInv'
         /\ InOrder(timers) => InOrder(timers)'
         /\ FirstServed
         /\ \E t \in Task : /\ state[t] = "suspended" /\ stack' = <<t>>
                           /\ state' = [state EXCEPT ![t] = "running"]
<1> DEFINE ts == IF ready = <<>> THEN Elapsed(timers, Head(timers).left + late) ELSE timers
           m == Sooner(ts, 0)
           r == Len(ready)
           due == SubSeq(ts, 1, m)
           q == ready \o Tasks(due)
           n == r + Len(timers)
<1>1. /\ r \in Nat /\ Len(timers) \in Nat /\ DOMAIN Line = 1..n
      /\ \A k \in DOMAIN Line : Line[k] \in Task
      /\ timers \in Seq(Timer) /\ ready \in Seq(Task) /\ n \in Nat \ {0}
  BY LineType DEF IInv, Types, Timer
<1>2. /\ ts \in Seq(Timer) /\ Len(ts) = Len(timers)
      /\ \A k \in 1..Len(timers) : ts[k].task = timers[k].task
      /\ r = 0 => \E k \in 1..Len(ts) : ts[k].left <= 0
      /\ InOrder(timers) => InOrder(ts)
  <2>1. CASE ready = <<>>
    <3> DEFINE d == timers[1].left + late
    <3>1. r = 0 /\ Len(timers) >= 1
      BY <1>1, <2>1
    <3>2. timers[1] \in Timer /\ Head(timers) = timers[1]
      BY <1>1, <3>1, ElementOfSeq, HeadTailProperties
    <3>3. d \in Nat /\ timers[1].left <= d
      BY <3>2, CoroutineConstants DEF Timer
    <3>4. ts = Elapsed(timers, d)
      BY <2>1, <3>2
    <3> HIDE DEF ts, d
    <3>5. /\ ts \in Seq(Timer) /\ Len(ts) = Len(timers)
          /\ \A k \in 1..Len(timers) :
               /\ ts[k].task = timers[k].task
               /\ ts[k].left = IF timers[k].left > d THEN timers[k].left - d ELSE 0
      BY <1>1, <3>3, <3>4, ElapsedType
    <3>6. 1 \in 1..Len(ts) /\ ts[1].left <= 0
      BY <1>1, <3>1, <3>2, <3>3, <3>5 DEF Timer
    <3>7. InOrder(timers) => InOrder(ts)
      BY <1>1, <3>3, <3>4, ElapsedInOrder
    <3> QED
      BY <3>5, <3>6, <3>7
  <2>2. CASE ready # <<>>
    <3>1. r # 0
      BY <1>1, <2>2, EmptySeq
    <3>2. ts = timers
      BY <2>2
    <3> QED
      BY <1>1, <3>1, <3>2
  <2> QED
    BY <2>1, <2>2
<1>3. /\ timers' = SubSeq(ts, Len(due) + 1, Len(ts))
      /\ ready' = Tail(q) /\ stack' = <<Head(q)>>
      /\ state' = [state EXCEPT ![Head(q)] = "running"]
      /\ UNCHANGED <<owner, outcome, continuation>>
  BY DEF Iterate, MovedNow, Due, Popped
<1> HIDE DEF ts
<1>4. m \in 0..Len(timers) /\ r + m \in Nat /\ r + m >= 1
  <2>1. Sooner(ts, 0) \in 0..Len(ts) /\ (r = 0 => Sooner(ts, 0) # 0)
    BY <1>2, SoonerType
  <2> QED
    BY <1>1, <1>2, <2>1
<1> HIDE DEF m
<1>5. /\ due \in Seq(Timer) /\ Len(due) = m
      /\ \A k \in 1..m : due[k] = ts[k]
  <2>1. \A k \in 1..Len(ts) : ts[k] \in Timer
    BY <1>2, ElementOfSeq
  <2> QED
    BY <1>1, <1>2, <1>4, <2>1
<1> HIDE DEF due
<1> DEFINE a == Tasks(due)
<1>6. a \in Seq(Task) /\ Len(a) = m /\ \A k \in 1..m : a[k] = timers[k].task
  <2>1. a = [k \in 1..m |-> due[k].task]
    BY <1>5 DEF Tasks
  <2>2. \A k \in 1..m : due[k].task = timers[k].task /\ timers[k] \in Timer
    BY <1>1, <1>2, <1>4, <1>5, ElementOfSeq
  <2>3. a \in [1..m -> Task]
    BY <2>1, <2>2 DEF Timer
  <2> HIDE DEF a
  <2>4. a \in Seq(Task) /\ Len(a) = m
    BY <1>1, <1>4, <2>3, IsASeq, LenProperties
  <2> QED
    BY <2>1, <2>2, <2>4
<1> HIDE DEF a
<1>7. /\ q \in Seq(Task) /\ Len(q) = r + m
      /\ \A k \in 1..(r + m) : q[k] = IF k <= r THEN ready[k] ELSE a[k - r]
  <2>1. q = ready \o a
    BY DEF a
  <2> QED
    BY <1>1, <1>6, <2>1, ConcatProperties
<1> HIDE DEF q
<1>8. \A k \in 1..(r + m) : k \in 1..n /\ q[k] = Line[k]
  <2> SUFFICES ASSUME NEW k \in 1..(r + m) PROVE k \in 1..n /\ q[k] = Line[k]
    OBVIOUS
  <2>1. k \in 1..n /\ (k > r => k - r \in 1..m)
    BY <1>1, <1>4
  <2>2. Line[k] = IF k <= r THEN ready[k] ELSE timers[k - r].task
    BY <2>1 DEF Line
  <2> QED
    BY <1>1, <1>4, <1>6, <1>7, <2>1, <2>2
<1>9. /\ Head(q) = Line[1] /\ 1 \in 1..n
      /\ ready' \in Seq(Task) /\ Len(ready') = r + m - 1
      /\ \A k \in 1..(r + m - 1) : ready'[k] = q[k + 1]
  <2>1. q # <<>> /\ Head(q) = q[1]
    BY <1>4, <1>7, EmptySeq, HeadTailProperties
  <2>2. /\ Tail(q) \in Seq(Task) /\ Len(Tail(q)) = Len(q) - 1
        /\ \A k \in 1..Len(Tail(q)) : Tail(q)[k] = q[k + 1]
    BY <1>7, <2>1, HeadTailProperties
  <2>3. 1 \in 1..(r + m)
    BY <1>4
  <2>4. Head(q) = Line[1] /\ 1 \in 1..n
    BY <1>8, <2>1, <2>3
  <2>5. Len(Tail(q)) = r + m - 1
    BY <1>1, <1>4, <1>7, <2>2
  <2>6. ready' = Tail(q)
    BY <1>3
  <2>7. ready' \in Seq(Task) /\ Len(ready') = r + m - 1
    BY <2>2, <2>5, <2>6
  <2>8. \A k \in 1..(r + m - 1) : ready'[k] = q[k + 1]
    BY <2>2, <2>5, <2>6
  <2> QED
    BY <2>4, <2>7, <2>8
<1>10. /\ timers' \in Seq(Timer) /\ Len(timers') = Len(timers) - m
       /\ \A k \in 1..(Len(timers) - m) : timers'[k] = ts[m + k]
  <2>1. timers' = SubSeq(ts, m + 1, Len(ts))
    BY <1>3, <1>5
  <2>2. \A k \in 1..Len(ts) : ts[k] \in Timer
    BY <1>2, ElementOfSeq
  <2> QED
    BY <1>1, <1>2, <1>4, <2>1, <2>2
<1>11. DOMAIN Line' = 1..(n - 1)
  BY <1>1, <1>4, <1>9, <1>10 DEF Line
<1>12. ASSUME NEW k \in 1..(n - 1) PROVE Line'[k] = Line[k + 1]
  <2>1. Line'[k] = IF k <= Len(ready') THEN ready'[k] ELSE timers'[k - Len(ready')].task
    BY <1>11, <1>12 DEF Line
  <2>2. k + 1 \in 1..n
    BY <1>1
  <2>3. CASE k <= r + m - 1
    <3>1. k \in 1..(r + m - 1) /\ k + 1 \in 1..(r + m)
      BY <1>1, <1>4, <2>3
    <3> QED
      BY <1>8, <1>9, <2>1, <2>3, <3>1
  <2>4. CASE k > r + m - 1
    <3>1. PICK j \in 1..(Len(timers) - m) :
            /\ ~(k <= Len(ready')) /\ k - Len(ready') = j
            /\ ~(k + 1 <= r) /\ k + 1 - r = m + j /\ m + j \in 1..Len(timers)
      <4> DEFINE j == k - (r + m - 1)
      <4>1. j \in 1..(Len(timers) - m)
        BY <1>1, <1>4, <2>4
      <4>2. ~(k <= Len(ready')) /\ k - Len(ready') = j
        BY <1>4, <1>9, <2>4
      <4>3. ~(k + 1 <= r) /\ k + 1 - r = m + j
        BY <1>1, <1>4, <2>4
      <4>4. m + j \in 1..Len(timers)
        BY <1>1, <1>4, <4>1
      <4> QED
        BY <4>1, <4>2, <4>3, <4>4
    <3>2. Line'[k] = ts[m + j].task
      BY <1>10, <2>1, <3>1
    <3>3. Line[k + 1] = timers[m + j].task
      BY <2>2, <3>1 DEF Line
    <3>4. timers[m + j].task = ts[m + j].task
      BY <1>2, <3>1
    <3> QED
      BY <3>2, <3>3, <3>4
  <2> QED
    BY <1>1, <1>4, <2>3, <2>4
<1>13. Types'
  <2>1. Line[1] \in Task
    BY <1>1, <1>9
  <2> QED
    BY <1>3, <1>9, <1>10, <2>1 DEF IInv, Types, State, Timer
<1>14. ASSUME InOrder(timers) PROVE InOrder(timers')
  <2>1. InOrder(ts) /\ Len(ts) = Len(timers) /\ Len(timers) \in Nat
    BY <1>1, <1>2, <1>14
  <2>2. ASSUME NEW k \in 1..(Len(timers) - m)
        PROVE  /\ timers'[k] = ts[m + k] /\ m + k \in 1..Len(ts)
               /\ k >= 2 => timers'[k - 1] = ts[m + k - 1] /\ m + k \in 2..Len(ts)
    <3>1. timers'[k] = ts[m + k] /\ m + k \in 1..Len(ts)
      BY <1>4, <1>10, <2>1
    <3>2. CASE k >= 2
      <4>1. k - 1 \in 1..(Len(timers) - m) /\ m + (k - 1) = m + k - 1 /\ m + k \in 2..Len(ts)
        BY <1>4, <2>1, <3>2
      <4> QED
        BY <1>10, <3>1, <4>1
    <3> QED
      BY <3>1, <3>2
  <2>3. \A k \in 2..Len(timers') : timers'[k - 1].left <= timers'[k].left
    <3> SUFFICES ASSUME NEW k \in 2..(Len(timers) - m)
                 PROVE  timers'[k - 1].left <= timers'[k].left
      BY <1>10
    <3>1. k \in 1..(Len(timers) - m) /\ k >= 2
      OBVIOUS
    <3> DEFINE j == m + k
    <3>2. /\ timers'[k] = ts[j] /\ timers'[k - 1] = ts[j - 1] /\ j \in 2..Len(ts)
      BY <1>4, <2>1, <2>2, <3>1
    <3> HIDE DEF j
    <3>3. ts[j - 1].left <= ts[j].left
      BY <2>1, <3>2 DEF InOrder, Sorted
    <3> QED
      BY <3>2, <3>3
  <2>4. \A k \in 1..Len(timers') : timers'[k].left <= MaxSleep
    BY <1>10, <2>1, <2>2 DEF InOrder
  <2> QED
    BY <2>3, <2>4 DEF InOrder, Sorted
<1>15. Line[1] \in Task /\ state[Line[1]] = "suspended"
  BY <1>1, <1>9 DEF IInv, Placed
<1>16. \E t \in Task : /\ state[t] = "suspended" /\ stack' = <<t>>
                       /\ state' = [state EXCEPT ![t] = "running"]
  BY <1>3, <1>9, <1>15
<1>17. FirstServed
  BY <1>1, <1>3, <1>9, <1>11, <1>12 DEF FirstServed
<1> HIDE DEF n
<1>18. IInv'
  BY <1>1, <1>3, <1>9, <1>11, <1>12, <1>13, LeavesLine
<1> QED
  BY <1>14, <1>16, <1>17, <1>18

-----------------------------------------------------------------------------
LEMMA TickInv ==
  ASSUME IInv, Tick
  PROVE  /\ IInv' /\ Line' = Line /\ DOMAIN timers' = DOMAIN timers
         /\ \A k \in DOMAIN timers : timers'[k].task = timers[k].task
<1>1. /\ timers' = Elapsed(timers, 1) /\ timers \in Seq(Timer) /\ 1 \in Nat
      /\ UNCHANGED <<state, owner, outcome, continuation, stack, ready>>
  BY DEF Tick, IInv, Types, Timer
<1>2. /\ timers' \in Seq(Timer) /\ Len(timers') = Len(timers)
      /\ \A k \in 1..Len(timers) : timers'[k].task = timers[k].task
  <2>1. /\ Elapsed(timers, 1) \in Seq(Timer) /\ Len(Elapsed(timers, 1)) = Len(timers)
        /\ \A k \in 1..Len(timers) : Elapsed(timers, 1)[k].task = timers[k].task
    BY <1>1, ElapsedType
  <2> QED
    BY <1>1, <2>1
<1>3. Line' = Line
  <2>1. \A k \in 1..(Len(ready) + Len(timers)) :
          ~(k <= Len(ready)) => k - Len(ready) \in 1..Len(timers)
    BY LineType DEF IInv
  <2> QED
    BY <1>1, <1>2, <2>1 DEF Line
<1>4. Types'
  BY <1>1, <1>2 DEF IInv, Types, Timer
<1>5. Awaited' = Awaited
  BY <1>1 DEF Awaited
<1>6. IInv'
  BY <1>1, <1>3, <1>4, <1>5 DEF IInv, OnStack, Once, Placed, Fresh, FramesOwned
<1> QED
  BY <1>1, <1>2, <1>3, <1>6, LenProperties

LEMMA StutterInv ==
  ASSUME IInv, UNCHANGED <<state, owner, outcome, continuation, stack, ready, timers>>
  PROVE  IInv'
<1>1. Line' = Line /\ Awaited' = Awaited
  BY LineUnchanged DEF Awaited
<1>2. Types'
  BY DEF IInv, Types
<1> QED
  BY <1>1, <1>2 DEF IInv, OnStack, Once, Placed, Fresh, FramesOwned

LEMMA NextInv == IInv /\ [Next]_vars => IInv'
<1> SUFFICES ASSUME IInv, [Next]_vars PROVE IInv'
  OBVIOUS
<1>1. ASSUME NEW o \in Task \cup {None}, NEW t \in Task,
             Create(o, t) \/ Start(o, t) \/ Destroy(o, t)
      PROVE  IInv'
  BY <1>1, CreateInv, StartInv, DestroyInv
<1>2. ASSUME NEW t \in Task, Leave(t) PROVE IInv'
  BY <1>2, YieldInv, FinishInv, SleepInv, AwaitInv DEF Leave
<1>3. ASSUME NEW t \in Task, Catch(t) \/ \E c \in Task : AwaitDone(t, c) PROVE IInv'
  BY <1>3, CatchInv, AwaitDoneInv
<1>4. CASE Loop
  BY <1>4, IterateInv DEF Loop
<1>5. CASE Tick
  BY <1>5, TickInv
<1>6. CASE Run \/ Return \/ UNCHANGED vars
  BY <1>6, StutterInv DEF Run, Return, vars
<1> QED
  BY <1>1, <1>2, <1>3, <1>4, <1>5, <1>6 DEF Next

(* A suspended coroutine is registered in exactly one of the ready queue,  *)
(* the timers and the promise of a task that is still to end; any other    *)
(* in none.                                                                *)
THEOREM CoroutinesOnePlace == Spec => []OnePlace
<1>1. Spec => []IInv
  BY InitInv, NextInv, PTL DEF Spec
<1> QED
  BY <1>1, InvImplies, PTL

(* No frame outlives the body its task object is a variable of, however    *)
(* the body ends: by co_return or by an exception from any depth.          *)
THEOREM CoroutinesFramesOwned == Spec => []FramesOwned
<1>1. Spec => []IInv
  BY InitInv, NextInv, PTL DEF Spec
<1>2. IInv => FramesOwned
  BY DEF IInv
<1> QED
  BY <1>1, <1>2, PTL

-----------------------------------------------------------------------------
(* Awaits form no loop.  A chain gets longer at its running end only.      *)
LEMMA LoopFree ==
  ASSUME NoLoop, UNCHANGED continuation, Awaited' \subseteq Awaited PROVE NoLoop'
BY DEF NoLoop

LEMMA AwaitNoLoop ==
  ASSUME IInv, NoLoop, NEW t \in Task, NEW c \in Task, Await(t, c)
  PROVE  NoLoop'
<1>1. /\ state[t] = "running" /\ state[c] = "created" /\ t # c
      /\ continuation' = [continuation EXCEPT ![c] = t]
      /\ state' = [state EXCEPT ![t] = "suspended", ![c] = "running"]
  BY DEF Await, Running, FirstUse
<1>2. \A d \in Task : d # c => continuation'[d] = continuation[d] /\ (d \in Awaited' => d \in Awaited)
  BY <1>1 DEF IInv, Types, Awaited
<1>3. continuation'[c] = t
  BY <1>1 DEF IInv, Types
<1>4. \A d \in Awaited : continuation[d] # c
  BY <1>1, ActiveNowhere DEF IInv
<1> SUFFICES ASSUME NEW S \in SUBSET Task, S # {}
             PROVE  \E u \in S : \A d \in S : ~(d \in Awaited' /\ continuation'[d] = u)
  BY DEF NoLoop
<1>5. CASE c \in S
  BY <1>1, <1>2, <1>3, <1>4, <1>5
<1>6. CASE c \notin S
  <2>1. PICK u \in S : \A d \in S : ~(d \in Awaited /\ continuation[d] = u)
    BY DEF NoLoop
  <2> QED
    BY <1>2, <1>6, <2>1
<1> QED
  BY <1>5, <1>6

(* Who executes is on the stack; who leaves it, is on top.                 *)
LEMMA SuspendOnStack ==
  ASSUME IInv, ActiveOnStack, NEW t \in Task, Running(t), Suspend(t)
  PROVE  ActiveOnStack'
<1>1. /\ Executes(t) /\ state' = [state EXCEPT ![t] = "suspended"]
      /\ stack' = SE!Front(stack)
  BY DEF Running, Suspend
<1>2. /\ Len(stack) \in Nat /\ Len(stack) >= 1 /\ Len(SE!Front(stack)) = Len(stack) - 1
      /\ \A i \in 1..(Len(stack) - 1) : SE!Front(stack)[i] = stack[i]
  BY <1>1, TopOfStack DEF IInv
<1> SUFFICES ASSUME NEW s \in Task, state'[s] \in Active
             PROVE  \E i \in 1..Len(stack') : stack'[i] = s
  BY DEF ActiveOnStack
<1>3. s # t /\ state[s] \in Active
  BY <1>1 DEF IInv, Types, Active
<1>4. PICK i \in 1..Len(stack) : stack[i] = s
  BY <1>3 DEF ActiveOnStack
<1>5. i # Len(stack)
  BY <1>1, <1>3, <1>4 DEF Executes, SE!Last
<1> QED
  BY <1>1, <1>2, <1>4, <1>5

LEMMA AwaitOnStack ==
  ASSUME IInv, ActiveOnStack, NEW t \in Task, NEW c \in Task, Await(t, c)
  PROVE  ActiveOnStack'
<1>1. /\ Executes(t) /\ state' = [state EXCEPT ![t] = "suspended", ![c] = "running"]
      /\ stack' = Append(SE!Front(stack), c) /\ t # c
  BY DEF Await, Running, FirstUse
<1>2. /\ Len(stack) \in Nat /\ Len(stack) >= 1 /\ SE!Front(stack) \in Seq(Task)
      /\ Len(SE!Front(stack)) = Len(stack) - 1
      /\ \A i \in 1..(Len(stack) - 1) : SE!Front(stack)[i] = stack[i]
  BY <1>1, TopOfStack DEF IInv
<1>3. /\ Len(stack') = Len(stack) /\ stack'[Len(stack)] = c
      /\ \A i \in 1..(Len(stack) - 1) : stack'[i] = stack[i]
  BY <1>1, <1>2, AppendProperties
<1> SUFFICES ASSUME NEW s \in Task, state'[s] \in Active
             PROVE  \E i \in 1..Len(stack') : stack'[i] = s
  BY DEF ActiveOnStack
<1>4. CASE s = c
  BY <1>2, <1>3, <1>4
<1>5. CASE s # c
  <2>1. s # t /\ state[s] \in Active
    BY <1>1, <1>5 DEF IInv, Types, Active
  <2>2. PICK i \in 1..Len(stack) : stack[i] = s
    BY <2>1 DEF ActiveOnStack
  <2>3. i # Len(stack)
    BY <1>1, <2>1, <2>2 DEF Executes, SE!Last
  <2> QED
    BY <1>2, <1>3, <2>2, <2>3
<1> QED
  BY <1>4, <1>5

LEMMA StartOnStack ==
  ASSUME IInv, ActiveOnStack, NEW o \in Task \cup {None}, NEW t \in Task, Start(o, t)
  PROVE  ActiveOnStack'
<1>1. state' = [state EXCEPT ![t] = "running"] /\ stack' = Append(stack, t)
  BY DEF Start, FirstUse
<1>2. /\ Len(stack) \in Nat /\ Len(stack') = Len(stack) + 1
      /\ \A i \in 1..Len(stack) : stack'[i] = stack[i]
      /\ stack'[Len(stack) + 1] = t
  BY <1>1, LenProperties, AppendProperties DEF IInv, Types
<1> SUFFICES ASSUME NEW s \in Task, state'[s] \in Active
             PROVE  \E i \in 1..Len(stack') : stack'[i] = s
  BY DEF ActiveOnStack
<1>3. CASE s = t
  <2>1. Len(stack) + 1 \in 1..Len(stack')
    BY <1>2
  <2> QED
    BY <1>2, <1>3, <2>1
<1>4. CASE s # t
  <2>1. state[s] \in Active
    BY <1>1, <1>4 DEF IInv, Types
  <2>2. PICK i \in 1..Len(stack) : stack[i] = s
    BY <2>1 DEF ActiveOnStack
  <2> QED
    BY <1>2, <2>2
<1> QED
  BY <1>3, <1>4

\* A step of one coroutine, or of ordinary code, that starts and suspends none.
StaysOnStack(t) == \E s \in State :
  /\ state' = [state EXCEPT ![t] = s]
  /\ s \in Active <=> state[t] \in Active
  /\ state[t] \in {"done", "gone"} => s \in {"done", "gone"}
  /\ UNCHANGED <<continuation, stack, looping, timers>>

LEMMA StaysChains ==
  ASSUME IInv, Chains, NEW t \in Task, StaysOnStack(t) PROVE Chains'
<1>1. Awaited' \subseteq Awaited
  BY DEF IInv, Types, Awaited, StaysOnStack
<1>2. NoLoop'
  BY <1>1, LoopFree DEF Chains, StaysOnStack
<1>3. ActiveOnStack'
  BY DEF IInv, Types, Chains, ActiveOnStack, StaysOnStack
<1>4. InOrder(timers)' /\ looping' \in BOOLEAN
  BY DEF Chains, StaysOnStack, InOrder, Sorted
<1> QED
  BY <1>2, <1>3, <1>4 DEF Chains

LEMMA TaskStays ==
  ASSUME NEW o \in Task \cup {None}, NEW t \in Task, NEW c \in Task,
         Create(o, t) \/ Destroy(o, t) \/ Catch(t) \/ AwaitDone(t, c)
  PROVE  StaysOnStack(t)
<1>1. CASE Create(o, t)
  <2>1. "created" \in State
    BY DEF State
  <2> QED
    BY <1>1, <2>1 DEF Create, StaysOnStack, Active
<1>2. CASE Destroy(o, t)
  <2>1. "gone" \in State
    BY DEF State
  <2> QED
    BY <1>2, <2>1 DEF Destroy, StaysOnStack, Active
<1>3. CASE Catch(t)
  <2>1. "running" \in State
    BY DEF State
  <2> QED
    BY <1>3, <2>1 DEF Catch, StaysOnStack, Active
<1>4. CASE AwaitDone(t, c)
  <2>1. AfterTake(c) \in State /\ AfterTake(c) \in Active
    BY DEF State, AfterTake, Active
  <2> QED
    <3>1. /\ state' = [state EXCEPT ![t] = AfterTake(c)] /\ state[t] = "running"
          /\ UNCHANGED <<continuation, stack, looping, timers>>
      BY <1>4 DEF AwaitDone, Running
    <3>2. state[t] \in Active /\ state[t] \notin {"done", "gone"}
      BY <3>1 DEF Active
    <3> QED
      BY <2>1, <3>1, <3>2, Zenon DEF StaysOnStack
<1> QED
  BY <1>1, <1>2, <1>3, <1>4

LEMMA InitChains == Init => Chains
<1> SUFFICES ASSUME Init PROVE Chains
  OBVIOUS
<1>1. NoLoop
  BY DEF Init, NoLoop, Awaited
<1>2. ActiveOnStack
  BY DEF Init, ActiveOnStack, Active
<1>3. InOrder(timers)
  <2>1. Len(timers) = 0
    BY DEF Init
  <2> QED
    BY <2>1 DEF InOrder, Sorted
<1> QED
  BY <1>1, <1>2, <1>3 DEF Init, Chains

LEMMA LeaveChains == ASSUME IInv, Chains, NEW t \in Task, Leave(t) PROVE Chains'
<1>1. CASE Yield(t)
  <2>1. /\ Running(t) /\ Suspend(t) /\ state' = [state EXCEPT ![t] = "suspended"]
        /\ state[t] = "running" /\ UNCHANGED <<continuation, looping, timers>>
    BY <1>1 DEF Yield, Running, Suspend
  <2>2. Awaited' \subseteq Awaited
    BY <2>1 DEF IInv, Types, Awaited
  <2>3. ActiveOnStack' /\ NoLoop'
    BY <2>1, <2>2, SuspendOnStack, LoopFree DEF Chains
  <2>4. InOrder(timers)' /\ looping' \in BOOLEAN
    BY <2>1 DEF Chains, InOrder, Sorted
  <2> QED
    BY <2>3, <2>4 DEF Chains
<1>2. ASSUME NEW d \in 1..MaxSleep, Sleep(t, d) PROVE Chains'
  <2>1. /\ Running(t) /\ Suspend(t) /\ state' = [state EXCEPT ![t] = "suspended"]
        /\ state[t] = "running" /\ UNCHANGED <<continuation, looping>>
    BY <1>2 DEF Sleep, Running, Suspend
  <2>2. Awaited' \subseteq Awaited
    BY <2>1 DEF IInv, Types, Awaited
  <2>3. ActiveOnStack' /\ NoLoop'
    BY <2>1, <2>2, SuspendOnStack, LoopFree DEF Chains
  <2>4. InOrder(timers)'
    BY <1>2, SleepInv DEF Chains
  <2> QED
    BY <2>1, <2>3, <2>4 DEF Chains
<1>3. CASE Finish(t)
  <2>1. UNCHANGED <<continuation, looping, timers>>
    BY <1>3 DEF Finish
  <2>2. Awaited' \subseteq Awaited /\ ActiveOnStack'
    BY <1>3, FinishInv DEF Chains
  <2>3. NoLoop'
    BY <2>1, <2>2, LoopFree DEF Chains
  <2>4. InOrder(timers)' /\ looping' \in BOOLEAN
    BY <2>1 DEF Chains, InOrder, Sorted
  <2> QED
    BY <2>2, <2>3, <2>4 DEF Chains
<1>4. ASSUME NEW c \in Task, Await(t, c) PROVE Chains'
  <2>1. UNCHANGED <<looping, timers>>
    BY <1>4 DEF Await, FirstUse
  <2>2. NoLoop' /\ ActiveOnStack'
    BY <1>4, AwaitNoLoop, AwaitOnStack DEF Chains
  <2>3. InOrder(timers)' /\ looping' \in BOOLEAN
    BY <2>1 DEF Chains, InOrder, Sorted
  <2> QED
    BY <2>2, <2>3 DEF Chains
<1> QED
  BY <1>1, <1>2, <1>3, <1>4 DEF Leave

LEMMA LoopChains == ASSUME IInv, Chains, Loop PROVE Chains'
<1>1. PICK late \in 0..MaxSleep : Iterate(late)
  BY DEF Loop
<1>2. stack = <<>> /\ Len(ready) + Len(timers) > 0 /\ looping
  BY DEF Loop
<1>3. UNCHANGED <<continuation, looping>>
  BY <1>1 DEF Iterate
<1>4. /\ InOrder(timers)'
      /\ \E t \in Task : /\ state[t] = "suspended" /\ stack' = <<t>>
                         /\ state' = [state EXCEPT ![t] = "running"]
  BY <1>1, <1>2, IterateInv DEF Chains
<1>5. PICK t \in Task : /\ state[t] = "suspended" /\ stack' = <<t>>
                        /\ state' = [state EXCEPT ![t] = "running"]
  BY <1>4
<1>6. Awaited' \subseteq Awaited
  BY <1>3, <1>5 DEF IInv, Types, Awaited
<1>7. NoLoop'
  BY <1>3, <1>6, LoopFree DEF Chains
<1>8. ActiveOnStack'
  <2>1. Len(stack) = 0 /\ Len(stack') = 1 /\ stack'[1] = t
    BY <1>2, <1>5
  <2>2. \A s \in Task : state[s] \notin Active
    BY <2>1 DEF Chains, ActiveOnStack
  <2>3. \A s \in Task : state'[s] \in Active => s = t
    BY <1>5, <2>2 DEF IInv, Types
  <2> QED
    BY <2>1, <2>3 DEF ActiveOnStack
<1> QED
  BY <1>2, <1>3, <1>4, <1>7, <1>8 DEF Chains

LEMMA NextChains == IInv /\ Chains /\ [Next]_vars => Chains'
<1> SUFFICES ASSUME IInv, Chains, [Next]_vars PROVE Chains'
  OBVIOUS
<1>1. ASSUME NEW o \in Task \cup {None}, NEW t \in Task, Create(o, t) \/ Destroy(o, t)
      PROVE  Chains'
  BY <1>1, TaskStays, StaysChains
<1>2. ASSUME NEW o \in Task \cup {None}, NEW t \in Task, Start(o, t) PROVE Chains'
  <2>1. /\ state[t] = "created" /\ state' = [state EXCEPT ![t] = "running"]
        /\ UNCHANGED <<continuation, looping, timers>>
    BY <1>2 DEF Start, FirstUse
  <2>2. Awaited' \subseteq Awaited
    BY <2>1 DEF IInv, Types, Awaited
  <2>3. NoLoop' /\ ActiveOnStack'
    BY <1>2, <2>1, <2>2, LoopFree, StartOnStack DEF Chains
  <2>4. InOrder(timers)' /\ looping' \in BOOLEAN
    BY <2>1 DEF Chains, InOrder, Sorted
  <2> QED
    BY <2>3, <2>4 DEF Chains
<1>3. ASSUME NEW t \in Task, Catch(t) \/ \E c \in Task : AwaitDone(t, c) PROVE Chains'
  BY <1>3, TaskStays, StaysChains
<1>4. CASE Run \/ Return \/ UNCHANGED vars
  <2>1. UNCHANGED <<state, continuation, stack, timers>> /\ looping' \in BOOLEAN
    BY <1>4 DEF Run, Return, vars, Chains
  <2> QED
    BY <2>1 DEF Chains, NoLoop, Awaited, ActiveOnStack, InOrder, Sorted
<1>5. CASE Tick
  <2>1. /\ timers' = Elapsed(timers, 1) /\ timers \in Seq(Timer) /\ 1 \in Nat
        /\ UNCHANGED <<state, continuation, stack, looping>>
    BY <1>5 DEF Tick, IInv, Types, Timer
  <2>2. InOrder(timers')
    BY <2>1, ElapsedInOrder DEF Chains
  <2>3. NoLoop' /\ ActiveOnStack' /\ looping' \in BOOLEAN
    BY <2>1 DEF Chains, NoLoop, Awaited, ActiveOnStack
  <2> QED
    BY <2>2, <2>3 DEF Chains, InOrder, Sorted
<1>6. CASE Next
  BY <1>1, <1>2, <1>3, <1>4, <1>5, <1>6, LeaveChains, LoopChains DEF Next
<1> QED
  BY <1>4, <1>6

-----------------------------------------------------------------------------
(* The last of the suspended ones has nobody left to wait for.             *)
LEMMA Drained == IInv /\ Chains => RunDrains
<1> SUFFICES ASSUME IInv, Chains, stack = <<>>, ready = <<>>, timers = <<>>,
                    NEW u \in Task, state[u] = "suspended"
             PROVE  FALSE
  BY DEF RunDrains
<1>1. DOMAIN Line = {} /\ Len(stack) = 0
  BY LineType DEF IInv
<1> DEFINE S == {t \in Task : state[t] = "suspended"}
<1>2. PICK t \in S : \A c \in S : ~(c \in Awaited /\ continuation[c] = t)
  BY DEF Chains, NoLoop
<1>3. PICK c \in Awaited : continuation[c] = t
  BY <1>1, <1>2 DEF IInv, Placed
<1>4. c \in Task /\ state[c] \in State /\ state[c] \notin {"none", "created", "done", "gone"}
  BY <1>3 DEF IInv, Types, Fresh, Awaited
<1>5. state[c] \notin Active
  BY <1>1, <1>4 DEF Chains, ActiveOnStack
<1>6. c \in S
  BY <1>4, <1>5 DEF State, Active
<1> QED
  BY <1>2, <1>3, <1>6

LEMMA TypesRight == IInv /\ Chains => TypeOK
<1> SUFFICES ASSUME IInv, Chains PROVE TypeOK
  OBVIOUS
<1>1. SE!ToSet(stack) = {t \in Task : state[t] \in {"running", "raising"}}
  <2>1. /\ DOMAIN stack = 1..Len(stack)
        /\ \A i \in 1..Len(stack) : stack[i] \in Task /\ state[stack[i]] \in Active
    BY LenProperties, ElementOfSeq DEF IInv, Types, OnStack
  <2>2. \A t \in Task : state[t] \in Active => \E i \in 1..Len(stack) : stack[i] = t
    BY DEF Chains, ActiveOnStack
  <2> QED
    BY <2>1, <2>2 DEF SE!ToSet, Active
<1>2. SE!ToSet(ready) \subseteq Task
  BY LenProperties, ElementOfSeq DEF IInv, Types, SE!ToSet
<1>3. /\ \A k \in DOMAIN timers : timers[k].task \in Task /\ timers[k].left \in 0..MaxSleep
      /\ \A k \in 2..Len(timers) : timers[k - 1].left <= timers[k].left
  <2>1. /\ DOMAIN timers = 1..Len(timers)
        /\ \A k \in 1..Len(timers) : timers[k] \in Timer
    BY LenProperties, ElementOfSeq DEF IInv, Types, Timer
  <2>2. \A k \in 1..Len(timers) : timers[k].left <= MaxSleep
    BY DEF Chains, InOrder
  <2>3. \A k \in 2..Len(timers) : timers[k - 1].left <= timers[k].left
    BY DEF Chains, InOrder, Sorted
  <2> QED
    BY <2>1, <2>2, <2>3, CoroutineConstants DEF Timer
<1> QED
  BY <1>1, <1>2, <1>3 DEF IInv, Types, Chains, TypeOK

LEMMA SpecChains == Spec => [](IInv /\ Chains)
<1>1. Init => IInv /\ Chains
  BY InitInv, InitChains
<1>2. IInv /\ Chains /\ [Next]_vars => IInv' /\ Chains'
  BY NextInv, NextChains
<1> QED
  BY <1>1, <1>2, PTL DEF Spec

-----------------------------------------------------------------------------
(* The line.                                                               *)
Turns == \A t, u \in Task : NotOvertaken(u, t) /\ JoinsBehind(u, t)

\* Whoever executes has no timer.
LEMMA NoTimerRuns ==
  ASSUME IInv, NEW t \in Task, Running(t), NEW j \in DOMAIN timers
  PROVE  timers[j].task # t
<1>1. /\ Len(ready) \in Nat /\ Len(timers) \in Nat /\ DOMAIN timers = 1..Len(timers)
      /\ DOMAIN Line = 1..(Len(ready) + Len(timers))
  BY LineType, LenProperties DEF IInv, Types
<1>2. /\ Len(ready) + j \in DOMAIN Line /\ ~(Len(ready) + j <= Len(ready))
      /\ (Len(ready) + j) - Len(ready) = j
  BY <1>1
<1>3. Line[Len(ready) + j] = timers[j].task
  BY <1>1, <1>2 DEF Line
<1>4. state[t] = "running"
  BY DEF Running
<1> QED
  BY <1>2, <1>3, <1>4 DEF IInv, Placed

\* Most steps leave the line alone.
LEMMA LineStands ==
  ASSUME IInv, Line' = Line,
         \A k \in DOMAIN timers' : k \in DOMAIN timers /\ timers'[k].task = timers[k].task
  PROVE  Turns
<1>1. ASSUME NEW t \in Task, NEW u \in Task PROVE NotOvertaken(u, t)
  BY DEF NotOvertaken, Ahead
<1>2. ASSUME NEW t \in Task, NEW u \in Task PROVE JoinsBehind(u, t)
  <2> SUFFICES ASSUME Running(t), DueNoLater(u, t) PROVE FALSE
    BY DEF JoinsBehind
  <2>1. PICK k \in DOMAIN timers' : timers'[k].task = t
    BY DEF DueNoLater
  <2> QED
    BY <2>1, NoTimerRuns
<1> QED
  BY <1>1, <1>2 DEF Turns

\* Who joins the line gets in between, and everybody else keeps the order.
LEMMA JoinedTurns ==
  ASSUME IInv, NEW s \in Task, state[s] = "running", NEW p \in Nat, Joins(s, p),
         NEW t \in Task, NEW u \in Task
  PROVE  NotOvertaken(u, t)
<1> DEFINE n == Len(ready) + Len(timers)
           at(k) == IF k < p THEN k ELSE k + 1
<1>1. /\ n \in Nat /\ p \in 1..(n + 1) /\ DOMAIN Line = 1..n /\ DOMAIN Line' = 1..(n + 1)
      /\ \A k \in 1..(n + 1) :
           Line'[k] = IF k < p THEN Line[k] ELSE IF k = p THEN s ELSE Line[k - 1]
  BY DEF Joins
<1> HIDE DEF n
<1>2. ASSUME NEW k \in 1..n PROVE at(k) \in 1..(n + 1) /\ Line'[at(k)] = Line[k]
  <2>1. CASE k < p
    BY <1>1, <2>1
  <2>2. CASE ~(k < p)
    <3>1. k + 1 \in 1..(n + 1) /\ ~(k + 1 < p) /\ k + 1 # p /\ (k + 1) - 1 = k
      BY <1>1, <2>2
    <3> QED
      BY <1>1, <2>2, <3>1
  <2> QED
    BY <2>1, <2>2
<1>3. \A i, j \in 1..n : i < j => at(i) < at(j)
  BY <1>1
<1> HIDE DEF at
<1>4. Ahead(u, t) => Ahead(u, t)'
  <2> SUFFICES ASSUME NEW i \in 1..n, NEW j \in 1..n, i < j, Line[i] = u, Line[j] = t
               PROVE  Ahead(u, t)'
    BY <1>1 DEF Ahead
  <2>1. /\ at(i) \in DOMAIN Line' /\ at(j) \in DOMAIN Line' /\ at(i) < at(j)
        /\ Line'[at(i)] = u /\ Line'[at(j)] = t
    BY <1>1, <1>2, <1>3
  <2> QED
    BY <2>1 DEF Ahead
<1> QED
  BY <1>4 DEF NotOvertaken

LEMMA YieldTurns == ASSUME IInv, NEW s \in Task, Yield(s) PROVE Turns
<1>1. state[s] = "running" /\ timers' = timers /\ Len(ready) + 1 \in Nat
  BY LineType DEF Yield, Running, IInv
<1>2. ASSUME NEW t \in Task, NEW u \in Task PROVE NotOvertaken(u, t)
  BY <1>1, YieldInv, JoinedTurns
<1>3. ASSUME NEW t \in Task, NEW u \in Task PROVE JoinsBehind(u, t)
  <2> SUFFICES ASSUME Running(t), DueNoLater(u, t) PROVE FALSE
    BY DEF JoinsBehind
  <2>1. PICK k \in DOMAIN timers : timers[k].task = t
    BY <1>1 DEF DueNoLater
  <2> QED
    BY <2>1, NoTimerRuns
<1> QED
  BY <1>2, <1>3 DEF Turns

\* Who sleeps is behind all that are due no later.
LEMMA SleepTurns ==
  ASSUME IInv, Chains, NEW s \in Task, NEW d \in 1..MaxSleep, Sleep(s, d)
  PROVE  Turns
<1>1. state[s] = "running" /\ Running(s)
  BY DEF Sleep, Running
<1>2. PICK p \in Nat :
        /\ Joins(s, p)
        /\ \A j \in 1..Len(timers) : timers[j].left <= d => Len(ready) + j < p
  BY SleepInv DEF Chains
<1>3. \A k \in DOMAIN timers' : \/ timers'[k].left = d
                                \/ \E j \in 1..Len(timers) : timers'[k] = timers[j]
  BY SleepInv
<1>4. ASSUME NEW t \in Task, NEW u \in Task PROVE NotOvertaken(u, t)
  BY <1>1, <1>2, JoinedTurns
<1>5. ASSUME NEW t \in Task, NEW u \in Task, Running(t), DueNoLater(u, t) PROVE Ahead(u, t)'
  <2>1. t = s
    BY <1>1, <1>5 DEF Running, Executes
  <2>2. PICK j \in DOMAIN timers, k \in DOMAIN timers' :
          /\ timers[j].task = u /\ timers'[k].task = t
          /\ timers[j].left <= timers'[k].left
    BY <1>5 DEF DueNoLater
  <2> DEFINE r == Len(ready)
             n == r + Len(timers)
  <2>3. /\ r \in Nat /\ Len(timers) \in Nat /\ DOMAIN timers = 1..Len(timers)
        /\ DOMAIN Line = 1..n
    BY LineType, LenProperties DEF IInv, Types
  <2>4. timers'[k].left = d
    BY <1>3, <1>5, <2>2, <2>3, NoTimerRuns
  <2>5. /\ r + j < p /\ r + j \in 1..n /\ ~(r + j <= r) /\ (r + j) - r = j
    BY <1>2, <2>2, <2>3, <2>4
  <2>6. Line[r + j] = u
    BY <2>2, <2>3, <2>5 DEF Line
  <2>7. /\ r + j \in DOMAIN Line' /\ p \in DOMAIN Line'
        /\ Line'[r + j] = Line[r + j] /\ Line'[p] = s
    BY <1>2, <2>3, <2>5 DEF Joins
  <2> QED
    BY <2>1, <2>5, <2>6, <2>7 DEF Ahead
<1> QED
  BY <1>4, <1>5 DEF Turns, JoinsBehind

\* The event loop serves the first one; the line moves up.
LEMMA LoopTurns == ASSUME IInv, Loop PROVE Turns
<1>1. stack = <<>> /\ FirstServed
  BY IterateInv DEF Loop
<1> DEFINE n == Len(ready) + Len(timers)
<1>2. /\ n \in Nat \ {0} /\ DOMAIN Line = 1..n /\ DOMAIN Line' = 1..(n - 1)
      /\ \A k \in 1..(n - 1) : Line'[k] = Line[k + 1]
      /\ stack' = <<Line[1]>>
  BY <1>1 DEF FirstServed
<1> HIDE DEF n
<1>3. ASSUME NEW t \in Task, NEW u \in Task, Ahead(u, t) PROVE Ahead(u, t)' \/ Executes(u)'
  <2>1. PICK i \in 1..n, j \in 1..n : i < j /\ Line[i] = u /\ Line[j] = t
    BY <1>2, <1>3 DEF Ahead
  <2>2. CASE i = 1
    <3>1. stack' = <<u>>
      BY <1>2, <2>1, <2>2
    <3>2. stack' # <<>> /\ u = SE!Last(stack')
      BY <3>1 DEF SE!Last
    <3> QED
      BY <3>2 DEF Executes
  <2>3. CASE i # 1
    <3>1. /\ i - 1 \in 1..(n - 1) /\ j - 1 \in 1..(n - 1) /\ i - 1 < j - 1
          /\ (i - 1) + 1 = i /\ (j - 1) + 1 = j
      BY <1>2, <2>1, <2>3
    <3>2. /\ i - 1 \in DOMAIN Line' /\ j - 1 \in DOMAIN Line'
          /\ Line'[i - 1] = u /\ Line'[j - 1] = t
      BY <1>2, <2>1, <3>1
    <3> QED
      BY <3>1, <3>2 DEF Ahead
  <2> QED
    BY <2>2, <2>3
<1>4. ASSUME NEW t \in Task PROVE ~Running(t)
  BY <1>1 DEF Running, Executes
<1> QED
  BY <1>3, <1>4 DEF Turns, NotOvertaken, JoinsBehind

LEMMA NextTurns == ASSUME IInv, Chains, [Next]_vars PROVE Turns \/ UNCHANGED vars
<1>1. ASSUME UNCHANGED <<ready, timers>> PROVE Turns
  BY <1>1, LineUnchanged, LineStands
<1>2. ASSUME NEW o \in Task \cup {None}, NEW t \in Task,
             Create(o, t) \/ Start(o, t) \/ Destroy(o, t)
      PROVE  Turns
  BY <1>1, <1>2 DEF Create, Start, Destroy
<1>3. ASSUME NEW t \in Task, Leave(t) PROVE Turns
  <2>1. CASE Yield(t)
    BY <2>1, YieldTurns
  <2>2. CASE Finish(t)
    BY <1>1, <2>2 DEF Finish
  <2>3. ASSUME NEW d \in 1..MaxSleep, Sleep(t, d) PROVE Turns
    BY <2>3, SleepTurns
  <2>4. ASSUME NEW c \in Task, Await(t, c) PROVE Turns
    BY <1>1, <2>4 DEF Await
  <2> QED
    BY <1>3, <2>1, <2>2, <2>3, <2>4 DEF Leave
<1>4. ASSUME NEW t \in Task, Catch(t) \/ \E c \in Task : AwaitDone(t, c) PROVE Turns
  BY <1>1, <1>4 DEF Catch, AwaitDone
<1>5. CASE Tick
  BY <1>5, TickInv, LineStands
<1>6. CASE Run \/ Return
  BY <1>1, <1>6 DEF Run, Return
<1> QED
  BY <1>2, <1>3, <1>4, <1>5, <1>6, LoopTurns DEF Next

(* Nobody who waits for the event loop is overtaken: whoever is ahead is   *)
(* resumed first, however the timers that are due are moved, and a new     *)
(* timer goes behind all that are due no later, so that timers of the same *)
(* time are served in the order in which add_timer() numbered them.        *)
THEOREM CoroutinesInTurn == Spec => InTurn
<1>1. IInv /\ Chains /\ [Next]_vars =>
        [\A t, u \in Task : NotOvertaken(u, t) /\ JoinsBehind(u, t)]_vars
  BY NextTurns DEF Turns
<1>2. Spec => [][\A t, u \in Task : NotOvertaken(u, t) /\ JoinsBehind(u, t)]_vars
  BY <1>1, SpecChains, PTL DEF Spec
<1> QED
  BY <1>2 DEF InTurn

(* When nothing is ready, nothing sleeps and nothing executes, no          *)
(* coroutine is suspended: run() returns only when every task that was     *)
(* ever started is done, whatever awaits what.                             *)
THEOREM CoroutinesRunDrains == Spec => []RunDrains
BY SpecChains, Drained, PTL

(* Exactly those execute, or have an exception in flight, that are on the  *)
(* stack of resume() calls; timers_ is in the order of the due times.      *)
THEOREM CoroutinesTypeOK == Spec => []TypeOK
BY SpecChains, TypesRight, PTL
=============================================================================
