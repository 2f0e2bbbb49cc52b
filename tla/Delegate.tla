------------------------------ MODULE Delegate ------------------------------
(***************************************************************************)
(* delegates::Delegate (delegate-example/source/delegate.hpp), the         *)
(* single-cast delegate: its fields, and its methods as operators on them. *)
(* A closure is known by how it finds its object; payloads are left out.   *)
(***************************************************************************)
CONSTANTS Object,   \* objects that delegates are bound to
          NoObject  \* nullptr

Nullptr == [how |-> "nullptr", object |-> NoObject]
\* A function or lambda; a raw pointer; a weak_ptr that is locked for the call.
Closure == {Nullptr, [how |-> "function", object |-> NoObject]}
             \cup [how : {"raw", "lock"}, object : Object]

Delegate == [invocation : Closure, weak : Object \cup {NoObject},
             uses_weak : BOOLEAN, owner : Object \cup {NoObject}]

Unbound == [invocation |-> Nullptr, weak |-> NoObject, uses_weak |-> FALSE,
            owner |-> NoObject]

\* Mutant: a bind leaves what the last BindSP had set.
BindInternal_KeepsWeak(d, c) == [d EXCEPT !.invocation = c, !.owner = NoObject]
BindInternal(d, c) == [d EXCEPT !.invocation = c, !.weak = NoObject,
                                !.uses_weak = FALSE, !.owner = NoObject]

(* BindStatic, BindLambda.                                                 *)
BindFunction(d) == BindInternal(d, [how |-> "function", object |-> NoObject])

BindRaw(d, o) ==
  [BindInternal(d, [how |-> "raw", object |-> o]) EXCEPT !.owner = o]

(* BindSP, BindWeakLambda.                                                 *)
BindSP(d, o) ==
  [BindInternal(d, [how |-> "lock", object |-> o])
     EXCEPT !.weak = o, !.uses_weak = TRUE, !.owner = o]

Unbind(d) == [d EXCEPT !.invocation = Nullptr, !.weak = NoObject,
                       !.uses_weak = FALSE, !.owner = NoObject]

\* d after one of the binds, to an object out of objects if it takes one.
Binds(d, objects) == {BindFunction(d)} \cup {BindRaw(d, o) : o \in objects}
                                       \cup {BindSP(d, o) : o \in objects}

(* CreateStatic, CreateLambda, CreateRaw, CreateSP, CreateWeakLambda.      *)
Created(objects) == Binds(Unbound, objects)

(* A weak binding ends with its object; alive are the objects that exist.  *)
IsBound(d, alive) == /\ d.invocation # Nullptr
                     /\ d.uses_weak => d.weak \in alive
IsBoundToObject(d, o, alive) == d.owner = o /\ IsBound(d, alive)

\* Whether calling the closure of d would reach its target.
Reaches(d, alive) == /\ d.invocation # Nullptr
                     /\ d.invocation.how = "lock" => d.invocation.object \in alive
=============================================================================
