----------------------------- MODULE CafActors ------------------------------
(***************************************************************************)
(* The fifteen demos of caf-example (source/demos): the behaviour of each  *)
(* actor, what it does with a message, and the script of each demo.        *)
(***************************************************************************)
EXTENDS ActorKit

CONSTANTS Players,  \* who is in the game room, for TLC (three in the code)
          Rounds    \* ticks of its clock, for TLC (two in the code)

\* One player leaves and another talks; the room and the clock have names of their own.
ASSUME PlayersAreNamed == /\ IsFiniteSet(Players) /\ Cardinality(Players) > 1
                          /\ Players \cap {"main", "room", "clock"} = {}

-----------------------------------------------------------------------------
(* 01, 02, 09, 15: servers without state.                                  *)

Greeter(st, m) == Answer(st, m, <<"hello", m.arg>>)
HelloWorld == "main" :> Script(<<Spawn("greeter", Nothing)>> \o Request("greeter", "name", "CAF")
                               \o <<Kill("greeter")>>)
              @@ "greeter" :> Role("greeter")

Calculator(st, m) == Answer(st, m, CASE m.tag = "add" -> m.arg[1] + m.arg[2]
                                     [] m.tag = "sub" -> m.arg[1] - m.arg[2]
                                     [] m.tag = "mul" -> m.arg[1] * m.arg[2])
TypedCalculator ==
  "main" :> Script(<<Spawn("calc", Nothing)>>
                   \o Request("calc", "add", <<20, 22>>) \o Request("calc", "sub", <<50, 8>>)
                   \o Request("calc", "mul", <<6, 7>>) \o <<Kill("calc")>>)
  @@ "calc" :> Role("calculator")

\* Prices are in tenths.
Shop(st, m) == Answer(st, m, <<m.arg.id, m.arg.unit_price * m.arg.quantity>>)
CustomTypes == "main" :> Script(<<Spawn("shop", Nothing)>>
                   \o Request("shop", "buy", [id |-> 1024, quantity |-> 3, unit_price |-> 599])
                   \o <<Kill("shop")>>)
               @@ "shop" :> Role("shop")

RemoteShop(st, m) == IF m.tag = "add" THEN Calculator(st, m) ELSE Shop(st, m)
\* reached: how far publish() and remote_actor() came.
Distribution(reached) ==
  "main" :> Script(<<Spawn("server", Nothing)>> \o
              (CASE reached = "nothing" -> <<Kill("server")>>
                 [] reached = "published" -> <<Kill("server"), Await({"server"})>>
                 [] reached = "connected" ->
                      Request("server", "add", <<40, 2>>)
                      \o Request("server", "buy", [id |-> 7, quantity |-> 2, unit_price |-> 1280])
                      \o <<Kill("server"), Await({"server"})>>))
  @@ "server" :> Role("remote shop")

-----------------------------------------------------------------------------
(* 03, 05: servers with a state; 07: one that answers with an error.       *)

\* Mutant: dec is forgotten.
Counter_NoDec(st, m) == IF m.tag = "get" THEN Answer(st, m, st)
                        ELSE Then(IF m.tag = "inc" THEN st + 1 ELSE st, <<>>)
Counter(st, m) == IF m.tag = "get" THEN Answer(st, m, st)
                  ELSE Then(IF m.tag = "inc" THEN st + 1 ELSE st - 1, <<>>)
StatefulCounter ==
  "main" :> Script(<<Spawn("counter", 0)>> \o Times(3, Tell("counter", "inc", Nothing))
                   \o <<Tell("counter", "dec", Nothing)>> \o Request("counter", "get", Nothing)
                   \o <<Kill("counter")>>)
  @@ "counter" :> Role("counter")

\* A message that the current behaviour has no handler for is an error.
DoorClosed(m) == CASE m.tag = "open" -> Answer("open", m, "opens")
                   [] m.tag = "status" -> Answer("closed", m, "is closed")
                   [] OTHER -> Then("closed", <<Reply(m, Nothing)>>)
DoorOpen(m) == CASE m.tag = "close" -> Answer("closed", m, "closes")
                 [] m.tag = "status" -> Answer("open", m, "is open")
                 [] OTHER -> Then("open", <<Reply(m, Nothing)>>)
Door(st, m) == IF st = "closed" THEN DoorClosed(m) ELSE DoorOpen(m)
BehaviorSwitching ==
  "main" :> Script(<<Spawn("door", "closed")>>
                   \o Request("door", "status", Nothing) \o Request("door", "open", Nothing)
                   \o Request("door", "status", Nothing) \o Request("door", "close", Nothing)
                   \o Request("door", "status", Nothing) \o <<Kill("door")>>)
  @@ "door" :> Role("door")

Divider(st, m) == IF m.arg[2] = 0 THEN Then(st, <<Reply(m, Nothing)>>)
                  ELSE Answer(st, m, m.arg[1] \div m.arg[2])
ErrorHandling ==
  "main" :> Script(<<Spawn("divider", Nothing)>> \o Request("divider", "div", <<84, 2>>)
                   \o Request("divider", "div", <<1, 0>>) \o <<Kill("divider")>>)
  @@ "divider" :> Role("divider")

-----------------------------------------------------------------------------
(* 04: a client that gets its answer in a callback; 06: a countdown before *)
(* the answer; 13: an answer from somebody else; 10: many answers.         *)

Squarer(st, m) == Answer(st, m, m.arg * m.arg)
SquareClient == Request("squarer", "square", 7) \o <<Quit("normal")>>
RequestThen ==
  "main" :> Script(<<Spawn("squarer", Nothing), Start("client", Nothing, SquareClient),
                     Await({"client"}), Kill("squarer")>>)
  @@ "squarer" :> Role("squarer") @@ "client" :> Role("none")

Launch(m) == <<Reply(m, <<"launched">>), Quit("normal")>>
Rocket(st, m) ==
  IF m.tag = "start" THEN Then([remaining |-> m.arg, launched |-> m], <<Later("tick")>>)
  ELSE Then([st EXCEPT !.remaining = @ - 1],
            IF st.remaining > 1 THEN <<Later("tick")>> ELSE Launch(st.launched))
DelayedMessages ==
  "main" :> Script(<<Spawn("rocket", Nothing)>> \o Request("rocket", "start", 3))
  @@ "rocket" :> Role("rocket")

Backend(st, m) == Answer(st, m, <<"value of", m.arg>>)
Frontend(st, m) == Then(st, <<Forward("backend", m)>>)
Delegation ==
  "main" :> Script(<<Spawn("backend", Nothing), Spawn("frontend", Nothing)>>
                   \o Request("frontend", "get", "config")
                   \o <<Kill("frontend"), Kill("backend")>>)
  @@ "backend" :> Role("backend") @@ "frontend" :> Role("frontend")

\* The sum of index * chunk + 1 .. (index + 1) * chunk.
RangeSummer(st, m) ==
  Answer(st, m, FoldLeft(LAMBDA sum, v : sum + v, 0, [v \in 1..m.arg |-> st * m.arg + v]))
Workers == <<"w0", "w1", "w2">>
ChunkSize == 2
FanOut ==
  "main" :> Script([k \in DOMAIN Workers |-> Spawn(Workers[k], k - 1)]
                   \o [k \in DOMAIN Workers |-> Ask(Workers[k], "chunk", ChunkSize)]
                   \o <<Answers(Len(Workers))>>
                   \o [k \in DOMAIN Workers |-> Kill(Workers[k])])
  @@ [w \in ToSet(Workers) |-> Role("range summer")]

-----------------------------------------------------------------------------
(* 08: monitors; 11: a flow in one actor; 12: two actors that only tell.   *)

Resident(st, m) == Answer(st, m, <<"done", m.arg>>)
Monitoring ==
  "main" :> Script(<<Start("temp", Nothing, <<Quit("normal")>>), Watch("temp"), Listen,
                     Spawn("resident", Nothing), Watch("resident"), Kill("resident"), Listen>>)
  @@ "temp" :> Role("none") @@ "resident" :> Role("resident")

\* iota | take | filter | map | sum
FlowSum(n) == FoldLeft(LAMBDA sum, v : IF v % 2 = 0 THEN sum + v * v ELSE sum,
                       0, [v \in 1..n |-> v])
DataFlow ==
  "main" :> Script(<<Start("pipeline", FlowSum(10), <<Quit("normal")>>),
                     Await({"pipeline"})>>)
  @@ "pipeline" :> Role("none")

Pong(st, m) == Then(st, <<Tell(m.from, "pong", m.arg)>>)
PongRounds == 3
GameOver == <<Kill("pong"), Quit("normal")>>
Ping(st, m) == IF m.arg >= PongRounds THEN Then(st, GameOver)
               ELSE Then(st, <<Tell("pong", "ping", m.arg + 1)>>)
PingPong ==
  "main" :> Script(<<Spawn("pong", Nothing), Start("ping", Nothing, <<Tell("pong", "ping", 1)>>),
                     Await({"ping", "pong"})>>)
  @@ "pong" :> Role("pong") @@ "ping" :> Role("ping")

-----------------------------------------------------------------------------
(* 14: the game room.  A player's state is what its client has printed.    *)

\* Mutant: what the player says is printed before it is sent.
Player_Echo(st, m, name) ==
  IF m.tag = "say" THEN Then(Append(st, <<name, m.arg>>), <<Tell("room", "chat", <<name, m.arg>>)>>)
  ELSE Then(Append(st, m.arg), <<>>)
Player(st, m, name) ==
  IF m.tag = "say" THEN Then(st, <<Tell("room", "chat", <<name, m.arg>>)>>)
  ELSE Then(Append(st, m.arg), <<>>)
JoinRoom(name) == Start(name, <<>>, <<Tell("room", "join", name)>>)

Broadcast(members, line) == <<Cast(members, "chat", line)>>
NewRoom == [members |-> {}, ticks_left |-> 0, tick_id |-> 1]
RoomJoin(st, p) == Then([st EXCEPT !.members = @ \cup {p}],
                        <<Watch(p)>> \o Broadcast(st.members \cup {p}, <<p, "joins">>))
\* Mutant: the callback tells of the player but keeps it.
RoomDown_Keeps(st, p) == Then(st, Broadcast(st.members \ {p}, <<p, "left">>))
RoomDown(st, p) == Then([st EXCEPT !.members = @ \ {p}],
                        Broadcast(st.members \ {p}, <<p, "left">>))
RoomStart(st, rounds) == Then([st EXCEPT !.ticks_left = rounds], <<Later("tick")>>)
RoomTick(st) == Then([st EXCEPT !.ticks_left = @ - 1, !.tick_id = @ + 1],
                     Broadcast(st.members, <<"clock", st.tick_id>>)
                     \o (IF st.ticks_left > 1 THEN <<Later("tick")>> ELSE <<>>))
GameRoomActor(st, m) == CASE m.tag = "join" -> RoomJoin(st, m.arg)
                          [] m.tag = "down" -> RoomDown(st, m.from)
                          [] m.tag = "chat" -> Then(st, Broadcast(st.members, m.arg))
                          [] m.tag = "start" -> RoomStart(st, m.arg)
                          [] m.tag = "tick" -> RoomTick(st)

\* One drops out, the others talk; the pauses in between promise nothing.
Leaver == CHOOSE p \in Players : TRUE
Stayers == SetToSeq(Players \ {Leaver})
GameRoomScript ==
  <<Spawn("room", NewRoom)>>
  \o SetToSeq({JoinRoom(p) : p \in Players})
  \o <<Tell(Stayers[1], "say", "hello"), Tell("room", "start", Rounds), Kill(Leaver),
       Tell(Stayers[Len(Stayers)], "say", "where is it"), Kill("room")>>
  \o [k \in DOMAIN Stayers |-> Kill(Stayers[k])]
GameRoom == [a \in Players \cup {"main", "room"} |->
               CASE a = "main" -> Script(GameRoomScript)
                 [] a = "room" -> Role("game room")
                 [] OTHER -> Role("player")]

-----------------------------------------------------------------------------
\* What the actor self, in this role and state, makes of message m.
CafHandle(role, self, st, m) ==
  CASE role = "greeter" -> Greeter(st, m) [] role = "calculator" -> Calculator(st, m)
    [] role = "shop" -> Shop(st, m) [] role = "remote shop" -> RemoteShop(st, m)
    [] role = "counter" -> Counter(st, m) [] role = "door" -> Door(st, m)
    [] role = "divider" -> Divider(st, m) [] role = "squarer" -> Squarer(st, m)
    [] role = "rocket" -> Rocket(st, m) [] role = "backend" -> Backend(st, m)
    [] role = "frontend" -> Frontend(st, m) [] role = "range summer" -> RangeSummer(st, m)
    [] role = "resident" -> Resident(st, m) [] role = "pong" -> Pong(st, m)
    [] role = "ping" -> Ping(st, m) [] role = "player" -> Player(st, m, self)
    [] role = "game room" -> GameRoomActor(st, m)

\* caf_main().
CafProgram(name) ==
  CASE name = "hello" -> {HelloWorld} [] name = "calculator" -> {TypedCalculator}
    [] name = "counter" -> {StatefulCounter} [] name = "request" -> {RequestThen}
    [] name = "door" -> {BehaviorSwitching} [] name = "rocket" -> {DelayedMessages}
    [] name = "divider" -> {ErrorHandling} [] name = "monitor" -> {Monitoring}
    [] name = "shop" -> {CustomTypes} [] name = "fan out" -> {FanOut}
    [] name = "flow" -> {DataFlow} [] name = "ping pong" -> {PingPong}
    [] name = "delegation" -> {Delegation} [] name = "game room" -> {GameRoom}
    [] name = "distribution" -> {Distribution(r) : r \in {"nothing", "published", "connected"}}
=============================================================================
