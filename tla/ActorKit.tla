------------------------------ MODULE ActorKit ------------------------------
(***************************************************************************)
(* What the actor programs of caf-example and boost-asio-example are       *)
(* written with: what an actor does, one thing after the other, and how it *)
(* answers to a message.  Actors.tla gives these things their meaning.     *)
(***************************************************************************)
EXTENDS Integers, Sequences, FiniteSets, TLC, SequencesExt

Nothing == <<>>

\* To send, without or with a question, later, in the name of another, or to a socket.
Tell(to, tag, arg) == [op |-> "tell", to |-> to, tag |-> tag, arg |-> arg]
Ask(to, tag, arg) == [op |-> "ask", to |-> to, tag |-> tag, arg |-> arg]
\* To all of them: mailboxes without a bound take it, and none knows of the others'.
Cast(tos, tag, arg) == [op |-> "cast", tos |-> tos, tag |-> tag, arg |-> arg]
Later(tag) == [op |-> "later", tag |-> tag]
Forward(to, m) == [op |-> "forward", to |-> to, msg |-> m]
Reply(m, outcome) == [op |-> "reply", msg |-> m, outcome |-> outcome]
Write(to, tag, arg, partner) == [Tell(to, tag, arg) EXCEPT !.op = "write"] @@ [partner |-> partner]

\* To wait: for the answers to the last n questions (for ever if patient),
\* for the next message, for the end of other actors.
Answers(n) == [op |-> "answers", n |-> n, patient |-> FALSE]
Reply1 == [Answers(1) EXCEPT !.patient = TRUE]
Listen == [op |-> "listen"]
Await(as) == [op |-> "await", actors |-> as]

\* To start and to end actors.
Start(a, st, todo) == [op |-> "start", actor |-> a, st |-> st, todo |-> todo]
Spawn(a, st) == Start(a, st, <<>>)
\* Started and watched at once, as by co_spawn(.., use_awaitable).
SpawnLink(a, st, todo) == [Start(a, st, todo) EXCEPT !.op = "link"]
Watch(a) == [op |-> "watch", actor |-> a]
Kill(a) == [op |-> "kill", actor |-> a]
Hangup(a) == [op |-> "hangup", actor |-> a]
Quit(why) == [op |-> "quit", why |-> why]

\* What a handler returns: the new private state and what the actor does next.
Then(st, todo) == [st |-> st, todo |-> todo]
Answer(st, m, value) == Then(st, <<Reply(m, <<value>>)>>)

\* A blocking actor: it runs its script and ends.
Script(ops) == [role |-> "script", st |-> Nothing, todo |-> ops \o <<Quit("normal")>>]
\* An actor that somebody will spawn.
Role(r) == [role |-> r, st |-> Nothing, todo |-> Nothing]
\* request(..).receive(..)
Request(to, tag, arg) == <<Ask(to, tag, arg), Answers(1)>>
Times(n, op) == [k \in 1..n |-> op]
=============================================================================
