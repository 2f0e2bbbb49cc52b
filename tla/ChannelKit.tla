----------------------------- MODULE ChannelKit -----------------------------
(***************************************************************************)
(* What the programs of ChannelPrograms and ThreadPrograms are written     *)
(* with.  A program has channels, shared variables, and coroutines or      *)
(* threads, each a sequence of phases.  Channels.tla gives the phases      *)
(* their meaning.                                                          *)
(***************************************************************************)
EXTENDS Integers, Sequences, FiniteSets

(* A loop repeats its pattern of sends "s" (to out), receives "r" (from    *)
(* one channel of in) and waits for the clock "t" n times, or until its    *)
(* channel is closed, or until somebody cancels it through one of the      *)
(* variables until.                                                        *)
Forever == -1
Loop(pattern, in, out, n) ==
  [op |-> "loop", pattern |-> pattern, in |-> in, out |-> out, n |-> n,
   relay |-> FALSE, lossy |-> FALSE, until |-> {}, chain |-> <<>>, prime |-> 0]
SendAll(c, n) == Loop(<<"s">>, {}, c, n)
Take(c, n) == Loop(<<"r">>, {c}, "", n)
Drain(c) == Loop(<<"r">>, {c}, "", Forever)
Ticks(n) == Loop(<<"t">>, {}, "", n)
Until(phase, vs) == [phase EXCEPT !.until = vs]
\* Sends on what it receives.
\* Mutant: the result is sent once more, as by a retry.
Relay_Twice(in, out, n) == [Loop(<<"r", "s", "s">>, {in}, out, n) EXCEPT !.relay = TRUE]
Relay(in, out, n) == [Loop(<<"r", "s">>, {in}, out, n) EXCEPT !.relay = TRUE]
Ask(out, in, n) == Loop(<<"s", "r">>, {in}, out, n)
\* cobalt::race() takes one value; asio's || cancels the other receive later.
Race(in, n) == Loop(<<"r">>, in, "", n)
Select(in, n) == [Loop(<<"r">>, in, "", n) EXCEPT !.lossy = TRUE]
Close(c) == [op |-> "close", chan |-> c]
Stop(c) == [op |-> "stop", chan |-> c]

Join(ps) == [op |-> "join", procs |-> ps]
\* It begins when by has received k items, and never if by stops before.
Spawned(by, k) == [op |-> "spawned", by |-> by, k |-> k]

\* A function of one argument, and one function completed by another.
a :> b == [x \in {a} |-> b]
f @@ g == [x \in DOMAIN f \cup DOMAIN g |-> IF x \in DOMAIN f THEN f[x] ELSE g[x]]

(* One step on a shared variable, possible while its value is in the       *)
(* domain of to; and a plain read and write of one, in two steps.          *)
Atomic(v, to) == [op |-> "atomic", var |-> v, to |-> to]
Lock(m) == Atomic(m, 0 :> 1)
Unlock(m) == Atomic(m, 1 :> 0)
MaxCount == 12   \* of counters, for TLC
Add(v, k) == Atomic(v, [x \in 0..(MaxCount - k) |-> x + k])
Sub(v, k) == Atomic(v, [x \in k..MaxCount |-> x - k])
RequestStop(s) == Atomic(s, 0 :> 1 @@ 1 :> 1)
AwaitStop(s) == Atomic(s, 1 :> 1)
Load(v) == [op |-> "load", var |-> v]
StoreNext(v) == [op |-> "store", var |-> v]
PlainIncrement(v) == <<Load(v), StoreNext(v)>>

Times(n, phases) == [k \in 1..(n * Len(phases)) |-> phases[((k - 1) % Len(phases)) + 1]]

\* shared: the variables at the start; result: the values they may have in the end.
WithShared(shared, result, program) ==
  [cap |-> program.cap, code |-> program.code, shared |-> shared, result |-> result]
=============================================================================
