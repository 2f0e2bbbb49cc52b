----------------------------- MODULE Coroutines -----------------------------
(***************************************************************************)
(* coro::task and coro::scheduler (stackless-coroutine/source/coro): lazy  *)
(* tasks that await each other by symmetric transfer, and a single thread  *)
(* that resumes those that yielded or whose timer is due.  A task object   *)
(* owns the frame of its coroutine; it is a variable of ordinary code or   *)
(* of the body of another task.  What the bodies do is left open, but they *)
(* keep a task they started until it is done, and use it as FirstUse says. *)
(***************************************************************************)
EXTENDS Integers, Sequences, FiniteSets

SE == INSTANCE SequencesExt

CONSTANTS Task, None,
          MaxSleep   \* bound on the time a task sleeps, for TLC

ASSUME CoroutineConstants == None \notin Task /\ MaxSleep \in Nat \ {0}

VARIABLES state,         \* task -> what its coroutine does, see State
          owner,         \* task -> the task whose body holds it, or None
          outcome,       \* task -> task_result: "none", "value", "exception"
          continuation,  \* task -> the task that awaits it
          stack,         \* the calls of resume() in progress, innermost last
          looping,       \* is run() executing?
          ready,         \* ready_
          timers         \* timers_, earliest first: [task, left]; a due time is
                         \* kept as the time left until then, 0 once it has passed

vars == <<state, owner, outcome, continuation, stack, looping, ready, timers>>

\* No frame yet; not started; executing; with an exception in flight; in
\* final_suspend; frame destroyed.
State == {"none", "created", "running", "raising", "suspended", "done", "gone"}

Init == /\ state = [t \in Task |-> "none"]
        /\ owner = [t \in Task |-> None]
        /\ outcome = [t \in Task |-> "none"]
        /\ continuation = [t \in Task |-> None]
        /\ stack = <<>>
        /\ looping = FALSE
        /\ ready = <<>>
        /\ timers = <<>>

\* The coroutine that executes, and may do anything but handle an exception.
Executes(t) == stack # <<>> /\ t = SE!Last(stack)
Running(t) == Executes(t) /\ state[t] = "running"
\* The code of the body of o, or ordinary code, executes.
InCode(o) == IF o = None THEN stack = <<>> /\ ~looping ELSE Running(o)
\* It is suspended: resume() returns to whoever called it.
Suspend(t) == /\ state' = [state EXCEPT ![t] = "suspended"]
              /\ stack' = SE!Front(stack)

-----------------------------------------------------------------------------
(* task.                                                                   *)

\* A coroutine is called: its frame is allocated, its body waits.
Create(o, t) == /\ InCode(o) /\ state[t] = "none"
                /\ state' = [state EXCEPT ![t] = "created"]
                /\ owner' = [owner EXCEPT ![t] = o]
                /\ UNCHANGED <<outcome, continuation, stack, looping, ready, timers>>

(* Assumed of all code: a task is started or awaited once.  start() and    *)
(* await_ready() themselves look at done() only.  Of a task that is done a *)
(* second start() is a no-op; one that hangs in a queue or awaits another  *)
(* would be resumed there, and again by whoever it waits for.              *)
FirstUse(t) == state[t] = "created"

Start(o, t) == /\ InCode(o) /\ owner[t] = o
               /\ FirstUse(t)
               /\ state' = [state EXCEPT ![t] = "running"]
               /\ stack' = Append(stack, t)
               /\ UNCHANGED <<owner, outcome, continuation, looping, ready, timers>>

(* co_await of a task: the caller stays suspended in the promise of the    *)
(* task it awaits, which runs in its place on the stack.                   *)
Await(t, c) == /\ Running(t) /\ owner[c] = t
               /\ FirstUse(c)
               /\ continuation' = [continuation EXCEPT ![c] = t]
               /\ state' = [state EXCEPT ![t] = "suspended", ![c] = "running"]
               /\ stack' = Append(SE!Front(stack), c)
               /\ UNCHANGED <<owner, outcome, looping, ready, timers>>

\* await_resume(): take() rethrows the exception of c in its awaiter.
AfterTake(c) == IF outcome'[c] = "exception" THEN "raising" ELSE "running"

\* A task that is done is not waited for.
AwaitDone(t, c) == /\ Running(t) /\ owner[c] = t
                   /\ state[c] = "done"
                   /\ UNCHANGED <<owner, outcome, continuation, stack, looping, ready, timers>>
                   /\ state' = [state EXCEPT ![t] = AfterTake(c)]

Catch(t) == /\ Executes(t) /\ state[t] = "raising"
            /\ state' = [state EXCEPT ![t] = "running"]
            /\ UNCHANGED <<owner, outcome, continuation, stack, looping, ready, timers>>

\* The frames whose tasks the body of t holds.
Held(t) == {c \in Task : owner[c] = t /\ state[c] \notin {"none", "gone"}}
\* Mutant: destroy() is called for tasks that have ended only.
Freed_DoneOnly(t) == {c \in Held(t) : state[c] = "done"}
\* ~task() of the locals of t.
Freed(t) == Held(t)

\* Mutant: final_suspend is suspend_always, nobody is resumed.
AfterFinal_Nobody(t) == <<>>
\* final_awaiter: transfer to the continuation, or return.
AfterFinal(t) == IF continuation[t] = None THEN <<>> ELSE <<continuation[t]>>

\* co_return, or an exception that nobody caught.  The locals go first.
Finish(t) ==
  /\ Executes(t)
  /\ \A c \in Held(t) : state[c] \in {"created", "done"}
  /\ \/ state[t] = "running" /\ outcome' = [outcome EXCEPT ![t] = "value"]
     \/ outcome' = [outcome EXCEPT ![t] = "exception"]
  /\ state' = [s \in Task |-> IF s = t THEN "done"
                              ELSE IF s \in Freed(t) THEN "gone"
                              ELSE IF s \in SE!ToSet(AfterFinal(t)) THEN AfterTake(t)
                              ELSE state[s]]
  /\ stack' = SE!Front(stack) \o AfterFinal(t)
  /\ UNCHANGED <<owner, continuation, looping, ready, timers>>

\* The variable, or the temporary in a co_await, ends.
Destroy(o, t) == /\ InCode(o) /\ owner[t] = o
                 /\ state[t] \in {"created", "done"}
                 /\ state' = [state EXCEPT ![t] = "gone"]
                 /\ UNCHANGED <<owner, outcome, continuation, stack, looping, ready, timers>>

-----------------------------------------------------------------------------
(* scheduler.                                                              *)

Yield(t) == /\ Running(t)
            /\ Suspend(t)
            /\ ready' = Append(ready, t)
            /\ UNCHANGED <<owner, outcome, continuation, looping, timers>>

\* Mutant: of the timers that are due at the same time the last one is first.
WithTimer_LastFirst(t, d) ==
  SE!InsertAt(timers, Cardinality({k \in DOMAIN timers : timers[k].left < d}) + 1,
              [task |-> t, left |-> d])
\* How many timers are due in d or earlier; they come first.
Sooner(ts, d) == Cardinality({k \in DOMAIN ts : ts[k].left <= d})
\* add_timer(): behind those that are due no later.
WithTimer(t, d) == SE!InsertAt(timers, Sooner(timers, d) + 1, [task |-> t, left |-> d])

\* sleep_for(); a time that has passed already suspends nobody.
Sleep(t, d) == /\ Running(t)
               /\ Suspend(t)
               /\ timers' = WithTimer(t, d)
               /\ UNCHANGED <<owner, outcome, continuation, looping, ready>>

Elapsed(ts, d) ==
  [k \in DOMAIN ts |-> [ts[k] EXCEPT !.left = IF @ > d THEN @ - d ELSE 0]]
Due(ts) == SubSeq(ts, 1, Sooner(ts, 0))
Tasks(ts) == [k \in DOMAIN ts |-> ts[k].task]

Run == /\ stack = <<>> /\ ~looping
       /\ looping' = TRUE
       /\ UNCHANGED <<state, owner, outcome, continuation, stack, ready, timers>>

\* Mutant: the timers are looked at only when nothing else is ready.
MovedNow_Idle(ts) == IF ready = <<>> THEN Due(ts) ELSE <<>>
\* The timers an iteration moves to the ready queue.
MovedNow(ts) == Due(ts)
\* Mutant: front() without pop_front().
Popped_Kept(q) == q
Popped(q) == Tail(q)

(* One iteration of run(): sleep until the first timer is due if nothing   *)
(* is ready (and wake up late, perhaps), move the timers that are due,     *)
(* resume the first handle.                                                *)
Iterate(late) ==
  LET ts == IF ready = <<>> THEN Elapsed(timers, Head(timers).left + late) ELSE timers
      q  == ready \o Tasks(MovedNow(ts))
  IN  /\ ready # <<>> => late = 0
      /\ timers' = SubSeq(ts, Len(MovedNow(ts)) + 1, Len(ts))
      /\ ready' = Popped(q)
      /\ stack' = <<Head(q)>>
      /\ state' = [state EXCEPT ![Head(q)] = "running"]
      /\ UNCHANGED <<owner, outcome, continuation, looping>>
Loop == /\ looping /\ stack = <<>>
        /\ Len(ready) + Len(timers) > 0
        /\ \E late \in 0..MaxSleep : Iterate(late)

Return == /\ looping /\ stack = <<>>
          /\ ready = <<>> /\ timers = <<>>
          /\ looping' = FALSE
          /\ UNCHANGED <<state, owner, outcome, continuation, stack, ready, timers>>

\* Time passes, whoever executes.
Tick == /\ \E k \in DOMAIN timers : timers[k].left > 0
        /\ timers' = Elapsed(timers, 1)
        /\ UNCHANGED <<state, owner, outcome, continuation, stack, looping, ready>>

\* What ends a resume() of t, or hands it to another coroutine.
Leave(t) == \/ Yield(t) \/ Finish(t)
            \/ \E d \in 1..MaxSleep : Sleep(t, d)
            \/ \E c \in Task : Await(t, c)

Next == \/ \E o \in Task \cup {None}, t \in Task :
             Create(o, t) \/ Start(o, t) \/ Destroy(o, t)
        \/ \E t \in Task : \/ Leave(t) \/ Catch(t)
                          \/ \E c \in Task : AwaitDone(t, c)
        \/ Run \/ Loop \/ Return \/ Tick

(* The thread goes on, each coroutine suspends or ends some day (it may    *)
(* yield for ever), ordinary code calls run(), and time passes.            *)
Fairness == /\ WF_vars(Run) /\ WF_vars(Loop) /\ WF_vars(Return) /\ WF_vars(Tick)
            /\ SF_vars(\E t \in Task : Leave(t)) /\ WF_vars(\E t \in Task : Catch(t))

Spec == Init /\ [][Next]_vars /\ Fairness

-----------------------------------------------------------------------------
(* Type invariant.                                                         *)
TypeOK == /\ state \in [Task -> State]
          /\ owner \in [Task -> Task \cup {None}]
          /\ outcome \in [Task -> {"none", "value", "exception"}]
          /\ continuation \in [Task -> Task \cup {None}]
          /\ SE!ToSet(stack) = {t \in Task : state[t] \in {"running", "raising"}}
          /\ looping \in BOOLEAN
          /\ SE!ToSet(ready) \subseteq Task
          /\ \A k \in DOMAIN timers : timers[k].task \in Task /\ timers[k].left \in 0..MaxSleep
          /\ \A k \in 2..Len(timers) : timers[k - 1].left <= timers[k].left

(* A suspended coroutine is registered in exactly one place that will      *)
(* resume it, and a coroutine that runs or is done in none: it is neither  *)
(* forgotten nor resumed twice.                                            *)
Places(t) ==
  ({"ready"} \X {k \in DOMAIN ready : ready[k] = t})
    \cup ({"timers"} \X {k \in DOMAIN timers : timers[k].task = t})
    \cup ({"awaits"} \X {c \in Task : continuation[c] = t /\ state[c] \notin {"done", "gone"}})
OnePlace == \A t \in Task :
  IF state[t] = "suspended" THEN \E place \in Places(t) : Places(t) = {place}
                            ELSE Places(t) = {}

(* A frame lives no longer than the task object that owns it, and that     *)
(* object no longer than the body it is a variable of: nothing leaks when  *)
(* a body ends early by an exception, however deep the chain below it.     *)
FramesOwned == \A t \in Task : state[t] \notin {"none", "gone"} =>
                 \/ owner[t] = None
                 \/ state[owner[t]] \in {"running", "raising", "suspended"}

(* run() drains everything: when it has nothing left to resume, no task    *)
(* hangs anywhere, not even at the far end of a chain of awaits.           *)
RunDrains ==
  stack = <<>> /\ ready = <<>> /\ timers = <<>> =>
    \A t \in Task : state[t] # "suspended"

(* The line of those who wait for the event loop: nobody is overtaken.     *)
(* Whoever is ahead of t stays so until it is resumed, however the timers  *)
(* that are due are moved, and who sleeps goes behind all whose timer is   *)
(* due no later: equal timers are served in the order of registration.     *)
Line == [k \in 1..(Len(ready) + Len(timers)) |->
           IF k <= Len(ready) THEN ready[k] ELSE timers[k - Len(ready)].task]
Ahead(u, t) == \E i, j \in DOMAIN Line : i < j /\ Line[i] = u /\ Line[j] = t
Queued(t) == \E k \in DOMAIN Line : Line[k] = t
NotOvertaken(u, t) == Ahead(u, t) /\ Queued(t)' => Ahead(u, t)' \/ Executes(u)'
DueNoLater(u, t) == \E j \in DOMAIN timers, k \in DOMAIN timers' :
  /\ timers[j].task = u /\ timers'[k].task = t
  /\ timers[j].left <= timers'[k].left
JoinsBehind(u, t) == Running(t) /\ DueNoLater(u, t) => Ahead(u, t)'
InTurn == [][\A t, u \in Task : NotOvertaken(u, t) /\ JoinsBehind(u, t)]_vars

(* A task that yields or sleeps is resumed in the end, even if others      *)
(* yield again and again for ever.                                         *)
NobodyStarves == \A t \in Task : Queued(t) ~> state[t] = "running"
=============================================================================
