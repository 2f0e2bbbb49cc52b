------------------------- MODULE MulticastDelegate --------------------------
(***************************************************************************)
(* delegates::MulticastDelegate (delegate-example/source/delegate.hpp) and *)
(* the single-threaded program around it, which has a single-cast delegate *)
(* of its own.  Callbacks may do to the delegates what any other code may: *)
(* bind, add, remove, clear, destroy targets, execute and broadcast again, *)
(* throw.  What the callbacks do is left open; the frames of the calls in  *)
(* progress are a stack.                                                   *)
(***************************************************************************)
EXTENDS Integers, Sequences, Delegate

SE == INSTANCE SequencesExt

CONSTANTS MaxHandle,   \* bound on bindings ever made, for TLC
          MaxDepth     \* bound on nested broadcasts, for TLC

ASSUME DelegateConstants == MaxHandle \in Nat /\ MaxDepth \in Nat /\ NoObject \notin Object

\* The handle of the delegate that is in no slot.
Own == 0
Handle == 1..MaxHandle

VARIABLES slots,    \* slots_: the handles bound, in order
          bound,    \* handle -> Delegate: the one of its slot, and Own
          created,  \* DelegateHandle::Create(): handles given out so far
          alive,    \* objects that exist
          owned,    \* objects some shared_ptr of the program still owns
          frames,   \* calls and broadcasts in progress, the innermost last
          removed   \* (history) handles Remove(), RemoveAll() and Clear() took out

vars == <<slots, bound, created, alive, owned, frames, removed>>

(* A frame of Broadcast(): its snapshot, the position pos in it, whether   *)
(* the callback there is running, and (history) the handles called so far. *)

Init == /\ slots = <<>>
        /\ bound = [h \in {Own} |-> Unbound]
        /\ created = 0
        /\ alive = Object /\ owned = Object
        /\ frames = <<>>
        /\ removed = {}

Top == SE!Last(frames)
Current(f) == f.snapshot[f.pos]
UserCode == \A k \in DOMAIN frames : frames[k].running
Contains(h) == h \in SE!ToSet(slots)

\* What std::erase_if leaves of s: SelectSeq, its test given as a set.
Select(s, S) ==
  LET front[k \in 0..Len(s)] ==
        IF k = 0 THEN <<>>
        ELSE IF s[k] \in S THEN Append(front[k - 1], s[k]) ELSE front[k - 1]
  IN  front[Len(s)]

Target(f) == bound[Current(f)].invocation
Running == {f \in SE!ToSet(frames) : f.running}

\* Objects kept alive by the weak_ptr::lock() of a running callback.
\* Mutant: only the pointer is taken from the locked weak_ptr.
Locked_Nothing(fs) == {}
Locked(fs) == {Target(f).object :
                 f \in {g \in SE!ToSet(fs) : g.running /\ Target(g).how = "lock"}}

IsValid(h) == IsBound(bound[h], alive)

-----------------------------------------------------------------------------
(* What any code of the program may do, in a callback or outside.          *)

\* Mutant: the newest binding goes first.
Grown_Front(h) == <<h>> \o slots
Grown(h) == Append(slots, h)
Add(d) == /\ UserCode /\ created < MaxHandle
          /\ created' = created + 1
          /\ bound' = [h \in 0..created' |-> IF h = created' THEN d ELSE bound[h]]
          /\ slots' = Grown(created')
          /\ UNCHANGED <<alive, owned, frames, removed>>

(* AddStatic, AddLambda, AddRaw, AddSP and AddWeakLambda create one; Add   *)
(* is given a copy of any other, bound or not.                             *)
AddNew == \E d \in Created(owned) : Add(d)
AddOwn == Add(bound[Own])

Remove(h) == /\ UserCode /\ Contains(h)
             /\ slots' = Select(slots, SE!ToSet(slots) \ {h})
             /\ removed' = removed \cup {h}
             /\ UNCHANGED <<bound, created, alive, owned, frames>>

RemoveAll(o) == /\ UserCode
                /\ slots' = Select(slots, {h \in SE!ToSet(slots) :
                                              ~IsBoundToObject(bound[h], o, alive)})
                /\ removed' = removed \cup {h \in SE!ToSet(slots) :
                                              IsBoundToObject(bound[h], o, alive)}
                /\ UNCHANGED <<bound, created, alive, owned, frames>>

Clear == /\ UserCode
         /\ slots' = <<>>
         /\ removed' = removed \cup SE!ToSet(slots)
         /\ UNCHANGED <<bound, created, alive, owned, frames>>

(* A callback must not bind the very delegate it is called through: that   *)
(* destroys the closure it runs in.                                        *)
Rebind == /\ UserCode /\ \A f \in Running : Current(f) # Own
          /\ bound' \in {[bound EXCEPT ![Own] = d] :
                         d \in Binds(bound[Own], owned) \cup {Unbind(bound[Own])}}
          /\ UNCHANGED <<slots, created, alive, owned, frames, removed>>

(* The program lets go of an object.  It owes the delegates one thing: an  *)
(* object bound with AddRaw or BindRaw is removed first (delegate.md,      *)
(* section 5), and not destroyed by the very callback that runs on it.     *)
RawInUse(o) ==
  LET raw == [how |-> "raw", object |-> o]
  IN  \/ \E h \in SE!ToSet(slots) \cup {Own} : bound[h].invocation = raw
      \/ \E f \in Running : Target(f) = raw
Release(o) == /\ UserCode /\ o \in owned /\ ~RawInUse(o)
              /\ owned' = owned \ {o}
              /\ alive' = IF o \in Locked(frames) THEN alive ELSE alive \ {o}
              /\ UNCHANGED <<slots, bound, created, frames, removed>>

-----------------------------------------------------------------------------
(* The single-cast delegate.                                               *)

(* ExecuteIfBound(), and Execute(), which callers ask IsBound() before.    *)
Execute == /\ UserCode /\ Len(frames) < MaxDepth
           /\ IsValid(Own)
           /\ frames' = Append(frames, [snapshot |-> <<Own>>, pos |-> 1,
                                        running |-> TRUE, called |-> <<Own>>])
           /\ UNCHANGED <<slots, bound, created, alive, owned, removed>>

-----------------------------------------------------------------------------
(* Broadcast().                                                            *)

Broadcast == /\ UserCode /\ Len(frames) < MaxDepth
             /\ frames' = Append(frames, [snapshot |-> slots, pos |-> 1,
                                          running |-> FALSE, called |-> <<>>])
             /\ UNCHANGED <<slots, bound, created, alive, owned, removed>>

InLoop == /\ ~UserCode
          /\ Top.pos <= Len(Top.snapshot)

\* Mutant: whoever is in the snapshot is called.
MayCall_Snapshot(h) == IsValid(h)
\* Mutant: whoever is at that place now is what counts.
MayCall_SamePlace(h) == Top.pos <= Len(slots) /\ slots[Top.pos] = h /\ IsValid(h)
MayCall(h) == Contains(h) /\ IsValid(h)

Call == /\ InLoop /\ MayCall(Current(Top))
        /\ frames' = [frames EXCEPT ![Len(frames)].running = TRUE,
                                    ![Len(frames)].called = Append(@, Current(Top))]
        /\ UNCHANGED <<slots, bound, created, alive, owned, removed>>

Skip == /\ InLoop /\ ~MayCall(Current(Top))
        /\ frames' = [frames EXCEPT ![Len(frames)].pos = @ + 1]
        /\ UNCHANGED <<slots, bound, created, alive, owned, removed>>

\* What is left alive when the frames become fs.
Survivors(fs) == {o \in alive : o \in owned \cup Locked(fs)}

CallbackReturns ==
  /\ frames # <<>> /\ Top.running /\ Current(Top) # Own
  /\ frames' = [frames EXCEPT ![Len(frames)].running = FALSE,
                              ![Len(frames)].pos = @ + 1]
  /\ alive' = Survivors(frames')
  /\ UNCHANGED <<slots, bound, created, owned, removed>>

\* An exception leaves the innermost broadcast, where nothing is cleaned up,
\* or Execute(), as the return of its callback does.
LeaveCall ==
  /\ frames # <<>> /\ Top.running
  /\ frames' = SE!Front(frames)
  /\ alive' = Survivors(frames')
  /\ UNCHANGED <<slots, bound, created, owned, removed>>

\* Mutant: the cleanup writes back what the broadcast worked on.
Cleaned_Snapshot ==
  Select(Top.snapshot, {h \in SE!ToSet(Top.snapshot) : IsValid(h)})
Cleaned == Select(slots, {h \in SE!ToSet(slots) : IsValid(h)})
EndOfBroadcast ==
  /\ ~UserCode
  /\ Top.pos > Len(Top.snapshot)
  /\ slots' = Cleaned
  /\ frames' = SE!Front(frames)
  /\ UNCHANGED <<bound, created, alive, owned, removed>>

Next == \/ AddNew \/ AddOwn \/ Rebind \/ Execute
        \/ \E h \in Handle : Remove(h)
        \/ \E o \in Object : RemoveAll(o) \/ Release(o)
        \/ Clear
        \/ Broadcast \/ Call \/ Skip \/ CallbackReturns \/ LeaveCall \/ EndOfBroadcast

Spec == Init /\ [][Next]_vars

-----------------------------------------------------------------------------
(* What a delegate answers agrees with what a call of it would do, however *)
(* often it was bound anew, unbound and copied: IsBound() with whether its *)
(* target can be reached, IsBoundToObject() with which object that is.     *)
QueriesAgree ==
  \A h \in DOMAIN bound :
    /\ IsBound(bound[h], alive) <=> Reaches(bound[h], alive)
    /\ \A o \in Object : IsBoundToObject(bound[h], o, alive) <=>
                           bound[h].invocation.object = o /\ Reaches(bound[h], alive)

(* No callback runs on an object that is gone, whatever the callbacks      *)
(* before it in the same or in a nested broadcast removed or destroyed,    *)
(* provided raw objects are removed before they are destroyed.             *)
NoDanglingCall ==
  \A f \in Running : Target(f).object \in alive \cup {NoObject}

(* One broadcast calls the bindings in the order in which they were added, *)
(* none of them twice, and none that was added after it began.             *)
CalledInOrder ==
  \A f \in SE!ToSet(frames) :
    /\ \A j \in 1..(Len(f.called) - 1) : f.called[j] < f.called[j + 1]
    /\ SE!ToSet(f.called) \subseteq SE!ToSet(f.snapshot)

(* Whoever was bound when the broadcast began, and still is, has been      *)
(* called when it ends: nobody is skipped because somebody else was        *)
(* removed, added or destroyed meanwhile.                                  *)
NobodyMissed ==
  \A f \in SE!ToSet(frames) :
    \A j \in 1..(f.pos - 1) :
      Contains(f.snapshot[j]) /\ IsValid(f.snapshot[j]) =>
        f.snapshot[j] \in SE!ToSet(f.called)

(* A binding is lost by being removed or with its object, and in no other  *)
(* way: not to a cleanup, nor to a throw that leaves a broadcast without   *)
(* one, in whatever nesting, with callbacks that add and remove; and none  *)
(* that was removed comes back.                                            *)
NobodyForgotten ==
  \A h \in 1..created : IsValid(h) => (Contains(h) <=> h \notin removed)
=============================================================================
