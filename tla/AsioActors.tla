----------------------------- MODULE AsioActors -----------------------------
(***************************************************************************)
(* The actors of boost-asio-example that are more than a pipeline of       *)
(* channels: actor_chat, actor_genserver and actor_supervisor.  A mailbox  *)
(* is a bounded channel: its senders wait while it is full.                *)
(***************************************************************************)
EXTENDS ActorKit

CONSTANTS Casts,         \* how often a client of the server casts, for TLC (100 in the code)
          MaxAttempts,   \* max_restarts, 5 in the code
          GoodAttempt    \* the first attempt that does not crash, 3 in the code

-----------------------------------------------------------------------------
(* actor_genserver.                                                        *)

CounterServer(st, m) ==
  CASE m.tag = "increment" -> Then(st + m.arg, <<>>)
    [] m.tag = "get_value" -> Answer(st, m, st)
    [] m.tag = "stop" -> Then(st, <<Quit("normal")>>)
CallGet == <<Ask("server", "get_value", Nothing), Reply1>>
ClientScript == Times(Casts \div 2, Tell("server", "increment", 1)) \o CallGet
                \o Times(Casts - Casts \div 2, Tell("server", "increment", 1))
Orchestrator == <<Start("A", Nothing, ClientScript \o <<Quit("normal")>>),
                  Start("B", Nothing, ClientScript \o <<Quit("normal")>>), Await({"A", "B"})>>
                \o CallGet \o <<Tell("server", "stop", Nothing)>>
GenServer ==
  "main" :> Script(<<Spawn("server", 0)>> \o Orchestrator)
  @@ "server" :> Role("counter server") @@ "A" :> Role("none") @@ "B" :> Role("none")

-----------------------------------------------------------------------------
(* actor_supervisor: co_spawn() with use_awaitable tells the supervisor    *)
(* how the worker ended.  The state of a worker is its next tick.          *)

Crashes(attempt, tick) == attempt < GoodAttempt /\ tick = 2
FlakyWorker(st, m) ==
  Then([st EXCEPT !.tick = @ + 1],
       CASE Crashes(st.attempt, st.tick) -> <<Quit("crash")>>
         [] st.tick = 3 -> <<Quit("normal")>>
         [] OTHER -> <<Later("tick")>>)
StartWorker(attempt) ==
  <<SpawnLink("worker", [attempt |-> attempt, tick |-> 1], <<Later("tick")>>)>>
Supervisor(attempt, m) ==
  CASE m.tag = "restart" -> Then(attempt + 1, StartWorker(attempt + 1))
    [] m.arg = "normal" \/ attempt >= MaxAttempts -> Then(attempt, <<Quit("normal")>>)
    [] OTHER -> Then(attempt, <<Later("restart")>>)
Supervision ==
  "main" :> Script(<<Start("supervisor", 1, StartWorker(1))>>)
  @@ "supervisor" :> Role("supervisor") @@ "worker" :> Role("flaky worker")

-----------------------------------------------------------------------------
(* actor_chat: the session of a client is a reader, whose mailbox is the   *)
(* socket, and a writer, whose mailbox is the inbox.                       *)

ChatClients == {"alice", "bob"}
Reader(c) == IF c = "alice" THEN "reader1" ELSE "reader2"
Writer(c) == IF c = "alice" THEN "writer1" ELSE "writer2"

NewChatRoom == [members |-> <<>>, total |-> 0]   \* members: client -> session
Others(members, c) == DOMAIN members \ {c}
TellAll(members, cs, line) == SetToSeq({Tell(Writer(c), "line", line) : c \in cs})
IsOver(members, total) == total = Cardinality(ChatClients) /\ DOMAIN members = {}
LastOut(members, total) == IF IsOver(members, total) THEN <<Quit("normal")>> ELSE <<>>
\* m.arg is what a message is about: the session and its client.
ChatJoin(st, c, session) ==
  Then([members |-> st.members @@ (c :> session), total |-> st.total + 1],
       <<Tell(Writer(c), "line", <<"welcome", session>>)>>
       \o TellAll(st.members, DOMAIN st.members, <<"joined", session>>))
\* Mutant: the inbox of who leaves stays open.
ChatLeave_NoClose(st, c, session) ==
  LET left == [d \in Others(st.members, c) |-> st.members[d]]
  IN  Then([st EXCEPT !.members = left],
           TellAll(left, DOMAIN left, <<"left", session>>) \o LastOut(left, st.total))
\* Mutant: who leaves is still told what is said.
ChatLeave_Keeps(st, c, session) ==
  LET left == [d \in Others(st.members, c) |-> st.members[d]]
  IN  Then(st, <<Hangup(Writer(c))>> \o TellAll(left, DOMAIN left, <<"left", session>>)
               \o LastOut(left, st.total))
ChatLeave(st, c, session) ==
  LET left == [d \in Others(st.members, c) |-> st.members[d]]
  IN  Then([st EXCEPT !.members = left],
           <<Hangup(Writer(c))>> \o TellAll(left, DOMAIN left, <<"left", session>>)
           \o LastOut(left, st.total))
ChatLine(st, c, text) == Then(st, TellAll(st.members, Others(st.members, c), text))
RoomActor(st, m) == CASE m.tag = "join" -> ChatJoin(st, m.arg.client, m.arg.session)
                      [] m.tag = "leave" -> ChatLeave(st, m.arg.client, m.arg.session)
                      [] m.tag = "chat" -> ChatLine(st, m.arg.client, m.arg.text)

\* st: the session and its client.
SessionReader(st, m) ==
  IF m.tag = "closed" THEN Then(st, <<Tell("room", "leave", st), Quit("normal")>>)
  ELSE Then(st, <<Tell("room", "chat", [client |-> st.client, text |-> m.arg])>>)
\* Writing to a connection that is gone throws: && cancels the reader too.
SessionWriter(st, m) ==
  IF m.tag = "closed" THEN Then(st, <<Quit("normal")>>)
  ELSE Then(st, <<Write(st.client, "line", m.arg, Reader(st.client))>>)
SessionActor(c, session) ==
  LET st == [client |-> c, session |-> session]
  IN  <<Start(Writer(c), st, <<>>), Start(Reader(c), st, <<Tell("room", "join", st)>>)>>
Server(accepted, m) ==
  Then(accepted + 1, SessionActor(m.from, accepted + 1)
                     \o (IF accepted + 1 = Cardinality(ChatClients) THEN <<Quit("normal")>> ELSE <<>>))

\* The one who is first hears that the other joins, then both talk.
Alice == <<Tell("acceptor", "connect", Nothing), Listen, Listen,
           Tell(Reader("alice"), "line", <<"says", "hi bob">>), Listen, Hangup(Reader("alice"))>>
Bob == <<Tell("acceptor", "connect", Nothing), Listen, Listen,
         Tell(Reader("bob"), "line", <<"says", "hi alice">>), Listen, Hangup(Reader("bob"))>>
Chat ==
  "main" :> Script(<<Spawn("room", NewChatRoom), Spawn("acceptor", 0),
                     Start("alice", Nothing, Alice \o <<Quit("normal")>>),
                     Start("bob", Nothing, Bob \o <<Quit("normal")>>)>>)
  @@ "room" :> Role("chat room") @@ "acceptor" :> Role("acceptor")
  @@ [c \in ChatClients |-> Role("none")]
  @@ [r \in {Reader(c) : c \in ChatClients} |-> Role("session reader")]
  @@ [w \in {Writer(c) : c \in ChatClients} |-> Role("session writer")]

-----------------------------------------------------------------------------
AsioHandle(role, st, m) ==
  CASE role = "counter server" -> CounterServer(st, m)
    [] role = "flaky worker" -> FlakyWorker(st, m)
    [] role = "supervisor" -> Supervisor(st, m)
    [] role = "chat room" -> RoomActor(st, m)
    [] role = "session reader" -> SessionReader(st, m)
    [] role = "session writer" -> SessionWriter(st, m)
    [] role = "acceptor" -> Server(st, m)

AsioPrograms == {"genserver", "supervisor", "chat"}
AsioProgram(name) == CASE name = "genserver" -> {GenServer}
                       [] name = "supervisor" -> {Supervision}
                       [] name = "chat" -> {Chat}
=============================================================================
